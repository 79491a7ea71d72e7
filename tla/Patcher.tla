------------------------------- MODULE Patcher -------------------------------
(***************************************************************************)
(* The patcher of src/patcher: what WriteVa and AddImport (PeImage.cpp)    *)
(* make of a 32-bit PE file, and the runs of Main.cpp that do it.          *)
(***************************************************************************)
EXTENDS Integers, Sequences, FiniteSets, SequencesExt

(***************************************************************************)
(* The executable editor of src/patcher/PeImage.cpp: what WriteVa and      *)
(* AddImport make of a 32-bit PE file.                                     *)
(*                                                                         *)
(* An image is the bytes of the file, its section headers in file order,   *)
(* the room for more of them, and the address of the import descriptors.   *)
(* Addresses are relative to the image base.  The unit of a file is        *)
(* whatever is written or read at once: an edited byte, or one descriptor. *)
(***************************************************************************)
CONSTANTS
    FileAlignment, SectionAlignment,
    Tag,        \* the name of the section that carries the import
    NewImport,  \* the descriptor of WarcraftXL.dll
    Thunks,     \* the new section's thunks and names, behind its descriptors
    Zero,       \* a zero byte, or the descriptor that ends a list
    Failed      \* what an operation that returns false leaves

ASSUME AlignmentAssumption ==
    /\ FileAlignment \in Nat \ {0} /\ SectionAlignment \in Nat \ {0}
    /\ SectionAlignment % FileAlignment = 0

AlignUp(v, a) == ((v + a - 1) \div a) * a

Further(m, n) == IF m > n THEN m ELSE n

(* VaToOffset: the first section whose span, file or memory, holds it.     *)
Covers(section, va) ==
    /\ section.va <= va
    /\ va < section.va + Further(section.vsize, section.rsize)

HoldersOf(image, va) == {i \in DOMAIN image.sections : Covers(image.sections[i], va)}

VaToOffset(image, va) ==
    IF HoldersOf(image, va) = {} THEN 0
    ELSE LET i == CHOOSE n \in HoldersOf(image, va) :
                      \A m \in HoldersOf(image, va) : n <= m
         IN  va - image.sections[i].va + image.sections[i].raw

(* WriteVa: an edit is an address and the units to put there.  It fails    *)
(* where the address has no place in the file or the units go beyond it.   *)
Lands(image, edit) ==
    LET offset == VaToOffset(image, edit.va)
    IN  offset # 0 /\ offset + Len(edit.units) <= Len(image.bytes)

WrittenTo(image, edit) ==
    LET offset == VaToOffset(image, edit.va) IN offset + 1 .. offset + Len(edit.units)

(* The scripts one after the other; the first write that fails ends it.    *)
(* No write moves a section or the end of the file, so whether one lands   *)
(* does not depend on those before it, and what stays is the last written. *)
ApplyScripts(image, edits) ==
    IF \E n \in DOMAIN edits : ~Lands(image, edits[n]) THEN Failed
    ELSE [image EXCEPT !.bytes = [at \in DOMAIN @ |->
            LET hits == {n \in DOMAIN edits : at \in WrittenTo(image, edits[n])}
            IN  IF hits = {} THEN @[at]
                ELSE LET last == edits[CHOOSE n \in hits : \A m \in hits : m <= n]
                     IN  last.units[at - VaToOffset(image, last.va)]]]

HasSection(image, name) ==
    \E i \in DOMAIN image.sections : image.sections[i].name = name

(* The import descriptors from an offset up to the zero one, or to the end *)
(* of the file.                                                            *)
Descriptors(image, offset) ==
    LET ends == {n \in offset + 1 .. Len(image.bytes) : image.bytes[n] = Zero}
                    \cup {Len(image.bytes) + 1}
    IN  SubSeq(image.bytes, offset + 1, (CHOOSE n \in ends : \A m \in ends : n <= m) - 1)

Padded(bytes, length) == bytes \o [n \in 1 .. length - Len(bytes) |-> Zero]

SectionRawUnaligned(image) == Len(image.bytes)
(* Where in the file and in memory one more section goes.                  *)
SectionRaw(image) == AlignUp(Len(image.bytes), FileAlignment)
SectionVa(image) ==
    LET last == Last(image.sections)
    IN  AlignUp(last.va + last.vsize, SectionAlignment)

(* AddImport: the descriptors move to a section of their own at the end,   *)
(* with the new one behind them.                                           *)
AddImport(image) ==
    LET offset == VaToOffset(image, image.imports)
        blob == Descriptors(image, offset) \o <<NewImport, Zero>> \o Thunks
        raw == SectionRaw(image)
        size == AlignUp(Len(blob), FileAlignment)
        new == [name |-> Tag, va |-> SectionVa(image), vsize |-> Len(blob),
                raw |-> raw, rsize |-> size]
    IN  IF HasSection(image, Tag) THEN image
        ELSE IF offset = 0 \/ offset + 1 > Len(image.bytes) THEN Failed
        ELSE IF Len(image.sections) = image.room THEN Failed
        ELSE [image EXCEPT
                !.sections = Append(@, new),
                !.imports = new.va,
                !.top = AlignUp(new.va + new.vsize, SectionAlignment),
                !.bytes = Padded(Padded(@, raw) \o blob, raw + size)]

-----------------------------------------------------------------------------
(* How Windows loads an image.                                             *)

(* The file offset loaded at an address, or 0: what a section holds beyond *)
(* its bytes in the file is zero-filled.                                   *)
Backing(image, va) ==
    LET here == {i \in DOMAIN image.sections :
                    LET s == image.sections[i]
                    IN  s.va <= va /\ va < s.va + s.vsize /\ va < s.va + s.rsize}
    IN  IF here = {} THEN 0
        ELSE LET s == image.sections[CHOOSE i \in here : TRUE] IN va - s.va + s.raw

LoadsAt(image, va) ==
    IF Backing(image, va) = 0 THEN Zero ELSE image.bytes[Backing(image, va) + 1]

(* No two sections overlap in the file or in memory, and all of them are   *)
(* in the file and inside the size the image asks for.                     *)
SectionsApart(image) ==
    LET s == image.sections IN
    /\ \A i, j \in DOMAIN s : i < j =>
        /\ s[i].va + s[i].vsize <= s[j].va
        /\ s[i].raw + s[i].rsize <= s[j].raw
    /\ \A i \in DOMAIN s :
        /\ s[i].raw % FileAlignment = 0 /\ s[i].va % SectionAlignment = 0
        /\ s[i].raw + s[i].rsize <= Len(image.bytes)
        /\ s[i].va + s[i].vsize <= image.top

-----------------------------------------------------------------------------
(***************************************************************************)
(* The patcher of src/patcher/Main.cpp, run again and again on one client  *)
(* executable: it reads the image, edits it in memory, backs the original  *)
(* up as <target>.orig and swaps the edited image in through               *)
(* <target>.wxltmp.  Every file operation may fail, and the process may be *)
(* killed or the machine lose power between any two of them.               *)
(*                                                                         *)
(* The image of a client build also has the large-address-aware flag.  The *)
(* .wxl section marks a patched one.                                       *)
(***************************************************************************)
CONSTANTS
    Builds,     \* the client's own builds of the executable
    StockOf,    \* per build, its image
    Edits,      \* the writes of all patch scripts, in order
    Absent,     \* no such file
    Torn,       \* a file that is there but not whole
    TornCopy,   \* TRUE: a killed copy leaves half a file
    LosesCache, \* TRUE: a power loss tears what was not flushed
    MaxRuns,    \* bound: patcher runs
    MaxChanges, \* bound: times the user restores or deletes the backup
    MaxUpdates  \* bound: times the user installs another build

ASSUME PatcherAssumption ==
    /\ TornCopy \in BOOLEAN /\ LosesCache \in BOOLEAN
    /\ MaxRuns \in Nat /\ MaxChanges \in Nat /\ MaxUpdates \in Nat
    /\ Absent # Torn

Stock(build) == StockOf[build]
LargeSet(image) == [image EXCEPT !.large = TRUE]

AlreadyPatchedNever(image) == FALSE
AlreadyPatched(image) == HasSection(image, Tag)

(* The patch scripts, and then the import, on the image in memory.         *)
Edited(image) ==
    LET scripted == ApplyScripts(image, Edits)
    IN  IF scripted = Failed THEN Failed ELSE AddImport(scripted)

(* What an earlier version of the patcher left: the import, and no more.   *)
EarlierPatch(build) == AddImport(Stock(build))

Executables ==
    LET stock == {Stock(b) : b \in Builds}
        patched == {Edited(i) : i \in stock} \cup {EarlierPatch(b) : b \in Builds}
        either == stock \cup (patched \ {Failed})
    IN  either \cup {LargeSet(i) : i \in either}

Headers == [name : STRING, va : Nat, vsize : Nat, raw : Nat, rsize : Nat]
Units == (UNION {ToSet(StockOf[b].bytes) : b \in Builds})
            \cup (UNION {ToSet(Edits[n].units) : n \in DOMAIN Edits}) \cup ToSet(Thunks) \cup {NewImport, Zero}
Images == [build : Builds, large : BOOLEAN, sections : Seq(Headers), room : Nat, imports : Nat, top : Nat,
           bytes : Seq(Units)]

ASSUME FileAssumption ==
    /\ StockOf \in [Builds -> Images] /\ Edits \in Seq([va : Nat, units : Seq(Units)])
    /\ Thunks \in Seq(Units) /\ Tag \in STRING
    /\ \A b \in Builds : StockOf[b].build = b /\ ~HasSection(StockOf[b], Tag)
    /\ \A b \in Builds : SectionsApart(StockOf[b])
    /\ {Absent, Torn, Failed} \cap Images = {}

(* Every address an edit writes is loaded from the file.                   *)
Backed(stock) ==
    \A n \in DOMAIN Edits : \A k \in DOMAIN Edits[n].units :
        Backing(stock, Edits[n].va + k - 1) # 0

Imports(image) == Descriptors(image, VaToOffset(image, image.imports))

(* The builds as they were linked: no section reaches into the pages of    *)
(* the next one, and the image ends with the last.  Where the scripts only *)
(* write to what is loaded from the file, each edit stays in one section   *)
(* and leaves the import descriptors alone.                                *)
ASSUME LayoutAssumption ==
    /\ NewImport # Zero
    /\ \A b \in Builds :
        LET stock == StockOf[b]
            s == stock.sections
            descriptors == VaToOffset(stock, stock.imports)
        IN  /\ \A i, j \in DOMAIN s : i < j => s[i].va + s[i].rsize <= s[j].va
            /\ s # << >> => /\ stock.top <= SectionVa(stock)
                           /\ \A i \in DOMAIN s : s[i].va + s[i].rsize <= SectionVa(stock)
            /\ Backed(stock) => \A n \in DOMAIN Edits :
                /\ \E i \in DOMAIN s : \A k \in DOMAIN Edits[n].units : Covers(s[i], Edits[n].va + k - 1)
                /\ WrittenTo(stock, Edits[n])
                        \cap (descriptors + 1 .. descriptors + Len(Imports(stock)) + 1) = {}

VARIABLES
    target, backup, tmp, \* the three files
    unflushed, \* the files whose bytes may still be in a cache
    pc,        \* where the run is
    pe,        \* the image in memory
    result,    \* how the last run ended
    runs, changes, updates \* the bounded counters

files == <<target, backup, tmp, unflushed>>
counters == <<runs, changes, updates>>
patcherVars == <<files, pc, pe, result, counters>>

PatcherInit ==
    /\ target \in ({Stock(b) : b \in Builds} \cup {EarlierPatch(b) : b \in Builds}) \ {Failed}
    /\ backup = IF AlreadyPatched(target) THEN Stock(target.build) ELSE Absent
    /\ tmp = Absent /\ unflushed = {}
    /\ pc = "off" /\ pe = Absent /\ result = "none"
    /\ runs = 0 /\ changes = 0 /\ updates = 0

-----------------------------------------------------------------------------

Goto(label) == pc' = label /\ UNCHANGED <<result, counters>>
Exit(r) == pc' = "off" /\ result' = r /\ UNCHANGED counters

(* ReadAll, and valid(): a torn executable is no 32-bit PE.                *)
Start ==
    /\ pc = "off" /\ runs < MaxRuns
    /\ runs' = runs + 1
    /\ UNCHANGED <<files, changes, updates>>
    /\ \/ /\ target \in Executables
          /\ pe' = LargeSet(target)
          /\ pc' = "edit" /\ result' = "running"
       \/ pc' = "off" /\ result' = "failed" /\ UNCHANGED pe

(* An image that carries the section is only rewritten; otherwise the      *)
(* patch scripts and AddImport edit it in memory, or one of them fails and *)
(* nothing is written.                                                     *)
Edit ==
    /\ pc = "edit"
    /\ UNCHANGED files
    /\ \/ AlreadyPatched(pe) /\ Goto("open") /\ UNCHANGED pe
       \/ ~AlreadyPatched(pe) /\ Edited(pe) # Failed /\ pe' = Edited(pe) /\ Goto("backup")
       \/ ~AlreadyPatched(pe) /\ Edited(pe) = Failed /\ Exit("failed") /\ UNCHANGED pe

NeedsBackup == backup = Absent

(* CopyFileA runs only when there is no backup yet, and does not flush.    *)
StartBackup ==
    /\ pc = "backup"
    /\ UNCHANGED <<target, tmp, pe>>
    /\ IF NeedsBackup
       THEN backup' = Torn /\ unflushed' = unflushed \cup {"backup"} /\ Goto("copy")
       ELSE UNCHANGED <<backup, unflushed>> /\ Goto("open")

FinishBackup ==
    /\ pc = "copy"
    /\ UNCHANGED <<target, tmp, unflushed, pe>>
    /\ \/ backup' = target /\ Goto("open")
       \/ backup' = Absent /\ Exit("failed")

-----------------------------------------------------------------------------
(* WriteAll: a sibling file is created, written, flushed and moved over    *)
(* the target; whatever fails removes it.                                  *)

OpenSibling == tmp' = Torn /\ UNCHANGED target

OpenTmp ==
    /\ pc = "open"
    /\ UNCHANGED <<backup, pe>>
    /\ \/ OpenSibling /\ unflushed' = unflushed \cup {"tmp"} /\ Goto("write")
       \/ UNCHANGED <<target, tmp, unflushed>> /\ Exit("failed")

RemoveTmp == tmp' = Absent /\ unflushed' = unflushed \ {"tmp"}

CommitForgotten == UNCHANGED unflushed
Commit == unflushed' = unflushed \ {"tmp"}

WriteTmp ==
    /\ pc = "write"
    /\ UNCHANGED <<target, backup, pe>>
    /\ \/ tmp' = pe /\ Commit /\ Goto("move")
       \/ RemoveTmp /\ Exit("failed")

MoveTmp ==
    /\ pc = "move"
    /\ UNCHANGED <<backup, pe>>
    /\ tmp' = Absent
    /\ \/ /\ target' = tmp /\ Exit("done")
          /\ unflushed' = (unflushed \ {"tmp"})
                            \cup {f \in {"target"} : "tmp" \in unflushed}
       \/ /\ UNCHANGED target /\ Exit("failed")
          /\ unflushed' = unflushed \ {"tmp"}

-----------------------------------------------------------------------------

(* The process dies where it stands.                                       *)
Kill ==
    /\ pc # "off"
    /\ UNCHANGED <<target, tmp, unflushed, pe>>
    /\ backup' = IF pc = "copy" /\ ~TornCopy THEN Absent ELSE backup
    /\ Exit("killed")

(* Whatever is not flushed may come back torn, after the run too.          *)
AfterLoss(name, content) ==
    IF LosesCache /\ name \in unflushed /\ content # Absent
    THEN {content, Torn} ELSE {content}

PowerLoss ==
    /\ unflushed # {} \/ pc # "off"
    /\ target' \in AfterLoss("target", target)
    /\ backup' \in IF pc = "copy" /\ ~TornCopy THEN {Absent}
                   ELSE AfterLoss("backup", backup)
    /\ tmp' \in AfterLoss("tmp", tmp)
    /\ unflushed' = {}
    /\ UNCHANGED pe
    /\ Exit("killed")

(* Between runs the user puts the backup back, deletes it, or installs     *)
(* another build of the client.                                            *)
Restore ==
    /\ pc = "off" /\ changes < MaxChanges /\ backup # Absent
    /\ target' = backup /\ changes' = changes + 1
    /\ UNCHANGED <<backup, tmp, unflushed, pc, pe, result, runs, updates>>

DeleteBackup ==
    /\ pc = "off" /\ changes < MaxChanges /\ backup # Absent
    /\ backup' = Absent /\ unflushed' = unflushed \ {"backup"}
    /\ changes' = changes + 1
    /\ UNCHANGED <<target, tmp, pc, pe, result, runs, updates>>

Update(build) ==
    /\ pc = "off" /\ updates < MaxUpdates
    /\ target' = Stock(build) /\ updates' = updates + 1
    /\ UNCHANGED <<backup, tmp, unflushed, pc, pe, result, runs, changes>>

User == Restore \/ DeleteBackup \/ \E b \in Builds : Update(b)

Step == Edit \/ StartBackup \/ FinishBackup \/ OpenTmp \/ WriteTmp \/ MoveTmp

PatcherNext == Start \/ Step \/ Kill \/ PowerLoss \/ User

PatcherSpec == PatcherInit /\ [][PatcherNext]_patcherVars

-----------------------------------------------------------------------------

PatcherTypeOK ==
    /\ {target, backup, tmp} \subseteq Executables \cup {Absent, Torn}
    /\ unflushed \subseteq {"target", "backup", "tmp"}
    /\ pc \in {"off", "edit", "backup", "copy", "open", "write", "move"}
    /\ pe \in Executables \cup {Absent}
    /\ pc # "off" => pe \in Executables /\ pe.large
    /\ pc \in {"backup", "copy", "open", "write", "move"} => AlreadyPatched(pe)
    /\ result \in {"none", "running", "done", "failed", "killed"}
    /\ runs \in 0 .. MaxRuns /\ changes \in 0 .. MaxChanges /\ updates \in 0 .. MaxUpdates

(* "The target is either fully replaced or untouched - a crash or short    *)
(* write can never leave it truncated" (Main.cpp:56-57): no step of a run, *)
(* no kill and no power loss changes a target into anything but the edited *)
(* image of its own build.  Only the user can put another file there.      *)
Whole(before, after) ==
    after = IF AlreadyPatched(before) THEN LargeSet(before) ELSE Edited(LargeSet(before))

TargetReplacedWhole ==
    [][target' # target =>
        \/ <<changes, updates>>' # <<changes, updates>>
        \/ target \in Executables /\ Whole(target, target')]_patcherVars

(* "The backup is the only recovery path if the patched image misbehaves:  *)
(* refuse to touch the target until it is confirmed on disk"               *)
(* (Main.cpp:118-119).  No sequence of runs, kills and restores ever makes *)
(* a patched image the backup, and whenever a run is about to swap the     *)
(* first patched image in there is a backup, of that build unless the      *)
(* client was updated over it.  Only its name is looked for: a copy or a   *)
(* cache that was cut short counts.                                        *)
BackupIsWayBack ==
    /\ PatcherTypeOK
    /\ backup \in Executables => ~AlreadyPatched(backup)
    /\ (pc \in {"open", "write", "move"} /\ target \in Executables /\ ~AlreadyPatched(target)) =>
        /\ backup # Absent
        /\ updates = 0 => backup \in {Torn, Stock(target.build)}

(* The unit an edit puts at an address, or what the stock image has there. *)
WithEdits(stock, edits, va) ==
    LET here == {n \in DOMAIN edits : va \in edits[n].va .. edits[n].va + Len(edits[n].units) - 1}
    IN  IF here = {} THEN LoadsAt(stock, va)
        ELSE LET e == edits[CHOOSE n \in here : \A m \in here : m <= n]
             IN  e.units[va - e.va + 1]

(* A patched client starts and is the client it was: in every image the    *)
(* patcher wrote the sections lie apart, every import is still listed with *)
(* the new one behind them, and Windows loads at every address what the    *)
(* stock image has there, but for the edits, all of them (or none, in an   *)
(* image an earlier patcher marked).  The exception: an edit that lies in  *)
(* the zero-filled tail of a section of that build, which VaToOffset maps  *)
(* to the file bytes of the next one.                                      *)
PatchedImagesSound ==
    \A image \in {target, tmp, pe} \cap Executables :
        LET stock == Stock(image.build)
        IN  AlreadyPatched(image) /\ Backed(stock) =>
                /\ SectionsApart(image)
                /\ Imports(image) = Append(Imports(stock), NewImport)
                /\ \A n \in 1 .. Len(Imports(image)) :
                        LoadsAt(image, image.imports + n - 1) = Imports(image)[n]
                /\ \E edits \in {Edits, << >>} : \A va \in 0 .. stock.top - 1 :
                        LoadsAt(image, va) = WithEdits(stock, edits, va)
=============================================================================
