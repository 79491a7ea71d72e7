------------------------------ MODULE AsyncDrain ------------------------------
(***************************************************************************)
(* The drain of completed reads and the texture upload it is reentered     *)
(* from: client/SFile/Streaming.cpp and client/CGxDevice/Textures.cpp.     *)
(*                                                                         *)
(* Workers append finished reads to a list.  The client's thread drains it *)
(* and runs each read's completion, which builds a texture: it points the  *)
(* one mip table of the process at its buffer and uploads.  An upload may  *)
(* wait for another read, and the wait pumps the drain again.  A fault     *)
(* inside an upload is caught by its guard, which drops every call made    *)
(* since.  stack holds those calls, the innermost first.                   *)
(***************************************************************************)
EXTENDS Integers, Sequences, FiniteSets, SequencesExt

CONSTANTS
    Reads,      \* the reads of a run
    Direct,     \* the texture uploaded outside any completion
    MaxDirect,  \* bound: uploads outside any completion
    MaxFaults,  \* bound: faults
    None

ASSUME DrainAssumption ==
    /\ Direct \notin Reads /\ None \notin Reads \cup {Direct}
    /\ IsFiniteSet(Reads) /\ MaxDirect \in Nat /\ MaxFaults \in Nat

VARIABLES
    read,       \* where each read is: idle, reading, queued, serving, done
    queue,      \* the completed list
    awaited,    \* kAwaitedObj
    waiting,    \* kWaitGuard: a wait is under way
    pending,    \* kPendingCount
    depth,      \* g_drainDepth
    table,      \* whose buffer the mip table points into, None if it is zero
    stack,      \* the calls of the client's thread
    directs, faults,
    unwound     \* completions a fault dropped

vars == <<read, queue, awaited, waiting, pending, depth, table, stack, directs, faults, unwound>>

Call(kind, of, snap) == [kind |-> kind, of |-> of, snap |-> snap]
Top == Head(stack)
At(kind) == stack # <<>> /\ Top.kind = kind
Become(kind) == << [Top EXCEPT !.kind = kind] >> \o Tail(stack)
Serviced(r) == read[r] \in {"serving", "done"}

Init ==
    /\ read = [r \in Reads |-> "idle"] /\ queue = <<>> /\ awaited = None /\ waiting = FALSE
    /\ pending = 0 /\ depth = 0 /\ table = None /\ stack = <<>>
    /\ directs = 0 /\ faults = 0 /\ unwound = 0

-----------------------------------------------------------------------------
(* The client and its workers.                                             *)

Request(r) ==
    /\ stack = <<>> /\ read[r] = "idle"
    /\ read' = [read EXCEPT ![r] = "reading"] /\ pending' = pending + 1
    /\ UNCHANGED <<queue, awaited, waiting, depth, table, stack, directs, faults, unwound>>

Deliver(r) ==
    /\ read[r] = "reading"
    /\ read' = [read EXCEPT ![r] = "queued"] /\ queue' = Append(queue, r)
    /\ UNCHANGED <<awaited, waiting, pending, depth, table, stack, directs, faults, unwound>>

-----------------------------------------------------------------------------
(* The drain.                                                              *)

Enqueued(r) == r \in ToSet(queue)
PlaceOf(r) == CHOOSE i \in DOMAIN queue : queue[i] = r
Unlink(r) == queue' = RemoveAt(queue, PlaceOf(r))

(* Takes a read off the list; its completion runs after the lock is free.  *)
(* A completion that was run for a wait puts the table back afterwards.    *)
Serve(r, snap, calls) ==
    /\ Unlink(r)
    /\ awaited' = IF awaited = r THEN None ELSE awaited
    /\ read' = [read EXCEPT ![r] = "serving"]
    /\ stack' = <<Call("complete", r, snap)>> \o calls

SnapshotMipTable == [taken |-> TRUE, of |-> table]
NoSnapshot == [taken |-> FALSE, of |-> None]

(* A pump inside a pump serves the awaited read only.                      *)
DrainAwaitedOnly ==
    IF awaited = None \/ (~Serviced(awaited) /\ ~Enqueued(awaited))
    THEN UNCHANGED <<queue, awaited, read, stack>>
    ELSE IF Serviced(awaited) THEN awaited' = None /\ UNCHANGED <<queue, read, stack>>
    ELSE Serve(awaited, SnapshotMipTable, stack)

hkAsyncDrain ==
    IF depth > 0 THEN DrainAwaitedOnly /\ UNCHANGED depth
    ELSE /\ depth' = depth + 1
         /\ stack' = <<Call("drain", None, NoSnapshot)>> \o stack
         /\ UNCHANGED <<queue, awaited, read>>

LeaveForgotten(d) == d
Leave(d) == d - 1

(* The client pumps once per frame.                                        *)
Pump ==
    /\ stack = <<>> /\ hkAsyncDrain
    /\ UNCHANGED <<waiting, pending, table, directs, faults, unwound>>

(* The client's own drain serves the list from its head until it is empty. *)
OrigAsyncDrain ==
    /\ At("drain")
    /\ IF queue = <<>>
       THEN depth' = Leave(depth) /\ stack' = Tail(stack) /\ UNCHANGED <<queue, awaited, read>>
       ELSE Serve(Head(queue), NoSnapshot, stack) /\ UNCHANGED depth
    /\ UNCHANGED <<waiting, pending, table, directs, faults, unwound>>

(* A completion builds a texture, or something that uploads nothing.       *)
Complete ==
    /\ At("complete")
    /\ \/ /\ table' = Top.of
          /\ stack' = <<Call("upload", Top.of, NoSnapshot)>> \o Become("built")
       \/ UNCHANGED table /\ stack' = Become("built")
    /\ UNCHANGED <<read, queue, awaited, waiting, pending, depth, directs, faults, unwound>>

NoRestore(snap) == table
RestoreMipTable(snap) == IF snap.taken THEN snap.of ELSE table

Completed ==
    /\ At("built")
    /\ table' = RestoreMipTable(Top.snap)
    /\ pending' = pending - 1
    /\ read' = [read EXCEPT ![Top.of] = "done"]
    /\ stack' = Tail(stack)
    /\ UNCHANGED <<queue, awaited, waiting, depth, directs, faults, unwound>>

-----------------------------------------------------------------------------
(* The upload.                                                             *)

(* An upload by the client's own code, outside any completion.             *)
DirectUpload ==
    /\ stack = <<>> /\ directs < MaxDirect
    /\ directs' = directs + 1 /\ table' = Direct
    /\ stack' = <<Call("upload", Direct, NoSnapshot)>>
    /\ UNCHANGED <<read, queue, awaited, waiting, pending, depth, faults, unwound>>

(* It needs another read first.  The client dies of a wait within a wait,  *)
(* and returns at once when the read was served.                           *)
AsyncFileReadWait(r) ==
    /\ At("upload") /\ ~waiting /\ read[r] \in {"idle", "reading", "queued"}
    /\ waiting' = TRUE /\ awaited' = r
    /\ IF read[r] = "idle"
       THEN read' = [read EXCEPT ![r] = "reading"] /\ pending' = pending + 1
       ELSE UNCHANGED <<read, pending>>
    /\ stack' = <<Call("wait", r, NoSnapshot)>> \o stack
    /\ UNCHANGED <<queue, depth, table, directs, faults, unwound>>

WaitPumps ==
    /\ At("wait") /\ ~Serviced(Top.of)
    /\ hkAsyncDrain
    /\ UNCHANGED <<waiting, pending, table, directs, faults, unwound>>

WaitEnds ==
    /\ At("wait") /\ Serviced(Top.of)
    /\ waiting' = FALSE /\ stack' = Tail(stack)
    /\ UNCHANGED <<read, queue, awaited, pending, depth, table, directs, faults, unwound>>

(* The upload copies what the table points at; then the table is zeroed.   *)
Copy ==
    /\ At("upload")
    /\ stack' = Become("copied")
    /\ UNCHANGED <<read, queue, awaited, waiting, pending, depth, table, directs, faults, unwound>>

ClearedTable == None
hkTexUpdate ==
    /\ At("copied")
    /\ table' = ClearedTable /\ stack' = Tail(stack)
    /\ UNCHANGED <<read, queue, awaited, waiting, pending, depth, directs, faults, unwound>>

(* A fault anywhere inside an upload ends in the guard of the innermost    *)
(* one: the calls made since are gone, with what they had left to do.      *)
Guarded == {i \in 1..Len(stack) : stack[i].kind \in {"upload", "copied"}}
SafeTextureUpdate ==
    /\ faults < MaxFaults /\ Guarded # {}
    /\ \E guard \in Guarded :
       LET lost == {i \in 1..guard - 1 : stack[i].kind \in {"complete", "built"}}
       IN  /\ \A j \in Guarded : guard <= j
           /\ stack' = SubSeq(stack, guard + 1, Len(stack))
           /\ unwound' = unwound + Cardinality(lost)
           /\ read' = [r \in Reads |-> IF \E i \in lost : stack[i].of = r THEN "done" ELSE read[r]]
    /\ faults' = faults + 1 /\ table' = ClearedTable
    /\ UNCHANGED <<queue, awaited, waiting, pending, depth, directs>>

Thread == \/ Pump \/ OrigAsyncDrain \/ Complete \/ Completed
          \/ WaitPumps \/ WaitEnds \/ Copy \/ hkTexUpdate

Next ==
    \/ \E r \in Reads : Request(r) \/ Deliver(r) \/ AsyncFileReadWait(r)
    \/ Thread \/ DirectUpload \/ SafeTextureUpdate

(* The client's thread runs, and the workers finish what they read.        *)
Spec == Init /\ [][Next]_vars /\ WF_vars(Thread) /\ \A r \in Reads : WF_vars(Deliver(r))

-----------------------------------------------------------------------------
(* A fault that drops the outermost pump leaves its depth behind.          *)
DepthLost == depth > Cardinality({i \in 1..Len(stack) : stack[i].kind = "drain"})

(* A depth is lost to a fault only, a list entry is a read queued once, and*)
(* a read is counted from its request to the end of its completion, or for *)
(* ever if a fault dropped that.                                           *)
TypeOK ==
    /\ read \in [Reads -> {"idle", "reading", "queued", "serving", "done"}]
    /\ ToSet(queue) = {r \in Reads : read[r] = "queued"} /\ IsInjective(queue)
    /\ awaited \in Reads \cup {None} /\ table \in Reads \cup {Direct, None}
    /\ depth \in 0..1 /\ (DepthLost => faults > 0)
    /\ pending = unwound + Cardinality({r \in Reads : read[r] \in {"reading", "queued", "serving"}})

(* An upload copies from its own mips, whatever ran while it waited; never *)
(* from the buffer of a build that is over.  The exception: the snapshot   *)
(* is taken by a pump inside a pump only, so an upload outside any         *)
(* completion whose wait ran others finds the table zeroed and copies      *)
(* nothing.                                                                *)
UploadSeesItsMips ==
    /\ TypeOK
    /\ At("copied") => \/ table = Top.of
                       \/ Top.of = Direct /\ table = None

(* Every completed read is served in the end, however the pumps nest,      *)
(* unless a fault dropped a pump: from then on only awaited reads are.     *)
EveryReadServed == \A r \in Reads : (read[r] = "queued") ~> (Serviced(r) \/ (DepthLost /\ faults > 0))
=============================================================================
