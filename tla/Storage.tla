------------------------------- MODULE Storage -------------------------------
(***************************************************************************)
(* The client's archive reads with extensions in the middle                *)
(* (src/engine/storage/StorageHook.cpp, src/runtime/StorageBridge.cpp).    *)
(* An open is offered to the redirects, to the providers, to the client    *)
(* itself and then to the transforms; each stage looks at the registry as  *)
(* it is at that moment, while another thread is registering.  What the    *)
(* caller gets is a native handle or a buffered one of the same layout.    *)
(***************************************************************************)
EXTENDS Integers, Sequences, SequencesExt, FiniteSetsExt

CONSTANTS
    Threads,    \* threads opening files
    Redirects, Providers, Transforms, Filters, \* the callbacks that register
    Names,      \* archive paths
    Skipped,    \* those ShouldIntercept or CopyArchiveName turns down
    SuffixOf,   \* per name and per transform, a suffix
    ClaimsOf,   \* per callback, the names it claims
    TargetOf,   \* per redirect, the name it answers with
    SizeOf,     \* per name in the archives and per callback, a size
    FilterSize, \* per filter, the size it wants served
    Longest,    \* bound: the longest read or seek
    None

Callbacks == Redirects \cup Providers \cup Transforms
ASSUME StorageAssumption ==
    /\ ClaimsOf \in [Callbacks -> SUBSET Names]
    /\ TargetOf \in [Redirects -> Names]
    /\ FilterSize \in [Filters -> Nat]
    /\ DOMAIN SuffixOf = Names \cup Transforms
    /\ Providers \cup Transforms \subseteq DOMAIN SizeOf
    /\ \A x \in DOMAIN SizeOf : SizeOf[x] \in Nat
    /\ Longest \in Nat
    /\ Skipped \subseteq Names /\ None \notin Names \cup Callbacks
    /\ Names \cap Callbacks = {}

VARIABLES
    redirects, providers, transforms, \* the extensions' lists, in order
    filters,    \* ServeFilters
    offered,    \* suffixes in ClientTransforms, each with the one bridge
    adding,     \* the transform ApiRegisterClientTransform is in the middle of
    open,       \* per thread, the open it is inside of
    file,       \* per thread, the handle behind that open
    natives,    \* per thread, the native handles it has open
    seen        \* per thread, the file position its caller counts on

registries == <<redirects, providers, transforms, filters, offered, adding>>
vars == <<registries, open, file, natives, seen>>

Idle == [at |-> "idle", asked |-> None, name |-> None, archive |-> FALSE,
         failed |-> FALSE, known |-> None]
NoFile == [from |-> None, size |-> 0, room |-> 0, position |-> 0]

Init ==
    /\ redirects = << >> /\ providers = << >> /\ transforms = << >>
    /\ filters = << >> /\ offered = {} /\ adding = None
    /\ open = [t \in Threads |-> Idle]
    /\ file = [t \in Threads |-> NoFile]
    /\ natives = [t \in Threads |-> 0]
    /\ seen = [t \in Threads |-> 0]

-----------------------------------------------------------------------------

AddedInFront(list, x) == <<x>> \o list
Added(list, x) == Append(list, x)

Register ==
    /\ adding = None
    /\ \/ \E r \in Redirects \ ToSet(redirects) :
            /\ redirects' = Added(redirects, r)
            /\ UNCHANGED <<providers, transforms, filters, adding>>
       \/ \E p \in Providers \ ToSet(providers) :
            /\ providers' = Added(providers, p)
            /\ UNCHANGED <<redirects, transforms, filters, adding>>
       \/ \E f \in Filters \ ToSet(filters) :
            /\ filters' = Added(filters, f)
            /\ UNCHANGED <<redirects, providers, transforms, adding>>
       \/ \E x \in Transforms \ ToSet(transforms) :
            /\ transforms' = Added(transforms, x)
            /\ adding' = x
            /\ UNCHANGED <<redirects, providers, filters>>
    /\ UNCHANGED <<offered, open, file, natives, seen>>

(* The second half of ApiRegisterClientTransform, under another mutex.     *)
RegisterSuffix ==
    /\ adding # None
    /\ offered' = offered \cup {SuffixOf[adding]}
    /\ adding' = None
    /\ UNCHANGED <<redirects, providers, transforms, filters, open, file, natives, seen>>

-----------------------------------------------------------------------------

(* Who claims a name; a transform is asked only for names of its suffix.   *)
Claimants(name) == {c \in Callbacks : name \in ClaimsOf[c]}
Matching(name) == {x \in Transforms : SuffixOf[x] = SuffixOf[name]} \cap Claimants(name)

(* The first callback of a list that is one of the claimants.              *)
IsFirst(list, claimants, c) ==
    /\ c \in claimants
    /\ \E i \in DOMAIN list :
        list[i] = c /\ \A j \in 1 .. i - 1 : list[j] \notin claimants
Unclaimed(list, claimants) == \A i \in DOMAIN list : list[i] \notin claimants

(* OpenDetour starts: the caller wants a name, maybe of one archive.       *)
OpenDetour(t, name, archive) ==
    /\ open[t].at = "idle"
    /\ open' = [open EXCEPT ![t] =
           [at |-> "redirect", asked |-> name, name |-> name,
            archive |-> archive, failed |-> FALSE,
            known |-> [redirects  |-> redirects, providers |-> providers,
                       transforms |-> transforms, offered  |-> offered]]]
    /\ UNCHANGED <<registries, file, natives, seen>>

Redirect(t) ==
    /\ open[t].at = "redirect"
    /\ \/ \E r \in Redirects :
            /\ IsFirst(redirects, Claimants(open[t].name), r)
            /\ open' = [open EXCEPT ![t].at = "serve", ![t].name = TargetOf[r]]
       \/ /\ Unclaimed(redirects, Claimants(open[t].name))
          /\ open' = [open EXCEPT ![t].at = "serve"]
    /\ UNCHANGED <<registries, file, natives, seen>>

(* A filter may serve less than the buffer holds, never more.              *)
Filtered(size) == Min({size} \cup {FilterSize[f] : f \in ToSet(filters)})

(* BuildBufferedHandle.                                                    *)
Buffered(c) ==
    [from |-> c, size |-> Filtered(SizeOf[c]), room |-> SizeOf[c], position |-> 0]

Intercepted(t) == open[t].name \notin Skipped

(* TryServe and TryClientProvider: the first claimant, unless its handle   *)
(* cannot be allocated; then the client is asked as if nobody had claimed. *)
TryServe(t) ==
    /\ open[t].at = "serve"
    /\ \/ \E p \in Providers :
            /\ ~open[t].archive /\ Intercepted(t)
            /\ IsFirst(providers, Claimants(open[t].name), p)
            /\ \/ /\ file' = [file EXCEPT ![t] = Buffered(p)]
                  /\ open' = [open EXCEPT ![t].at = "held"]
               \/ /\ open' = [open EXCEPT ![t].at = "native", ![t].failed = TRUE]
                  /\ UNCHANGED file
       \/ /\ \/ open[t].archive \/ ~Intercepted(t)
             \/ Unclaimed(providers, Claimants(open[t].name))
          /\ open' = [open EXCEPT ![t].at = "native"]
          /\ UNCHANGED file
    /\ UNCHANGED <<registries, natives, seen>>

(* g_origOpen, and whether the transforms get a look at what it found.     *)
NativeOpen(t) ==
    /\ open[t].at = "native"
    /\ \/ /\ open[t].name \in DOMAIN SizeOf
          /\ file' = [file EXCEPT ![t] =
                [from |-> open[t].name, size |-> SizeOf[open[t].name],
                 room |-> SizeOf[open[t].name], position |-> 0]]
          /\ natives' = [natives EXCEPT ![t] = @ + 1]
          /\ open' = [open EXCEPT ![t].at =
                IF Intercepted(t) THEN "find" ELSE "held"]
       \/ /\ open[t].name \notin DOMAIN SizeOf
          /\ open' = [open EXCEPT ![t] = Idle]
          /\ UNCHANGED <<file, natives>>
    /\ UNCHANGED <<registries, seen>>

\* FindClientTransform.
Offered(t) == SuffixOf[open[t].name] \in offered

(* TryNativeTransform: a suffix nobody offers or an empty file costs no    *)
(* read; otherwise the native handle is read through, maybe not to its end.*)
FindTransform(t) ==
    /\ open[t].at = "find"
    /\ \/ /\ Offered(t) /\ file[t].size > 0
          /\ \/ /\ open' = [open EXCEPT ![t].at = "offer"]
                /\ file' = [file EXCEPT ![t].position = file[t].size]
             \/ \E got \in 0 .. file[t].size :
                /\ open' = [open EXCEPT ![t].at = "rewind", ![t].failed = TRUE]
                /\ file' = [file EXCEPT ![t].position = got]
       \/ /\ ~Offered(t) \/ file[t].size = 0
          /\ open' = [open EXCEPT ![t].at = "held"]
          /\ UNCHANGED file
    /\ UNCHANGED <<registries, natives, seen>>

SwapLeaks(t, x) ==
    /\ file' = [file EXCEPT ![t] = Buffered(x)]
    /\ UNCHANGED natives
Swap(t, x) ==
    /\ file' = [file EXCEPT ![t] = Buffered(x)]
    /\ natives' = [natives EXCEPT ![t] = @ - 1]

(* ClientTransformBridge on the extensions' list as it is now.             *)
OfferTransform(t) ==
    /\ open[t].at = "offer"
    /\ \/ \E x \in Transforms :
            /\ IsFirst(transforms, Matching(open[t].name), x)
            /\ \/ /\ Swap(t, x)
                  /\ open' = [open EXCEPT ![t].at = "held"]
               \/ /\ open' = [open EXCEPT ![t].at = "rewind", ![t].failed = TRUE]
                  /\ UNCHANGED <<file, natives>>
       \/ /\ Unclaimed(transforms, Matching(open[t].name))
          /\ open' = [open EXCEPT ![t].at = "rewind"]
          /\ UNCHANGED <<file, natives>>
    /\ UNCHANGED <<registries, seen>>

RewoundNever(t) == file
Rewound(t) == [file EXCEPT ![t].position = 0]

Rewind(t) ==
    /\ open[t].at = "rewind"
    /\ file' = Rewound(t)
    /\ open' = [open EXCEPT ![t].at = "held"]
    /\ UNCHANGED <<registries, natives, seen>>

-----------------------------------------------------------------------------

(* The caller's reads, seeks and close, on either kind of handle.          *)
Avail(t) == file[t].size - file[t].position

ReadDetour(t, len) ==
    /\ open[t].at = "held"
    /\ LET want == Min({len, Avail(t)})
       IN  /\ file' = [file EXCEPT ![t].position = @ + want]
           /\ seen' = [seen EXCEPT ![t] = @ + want]
    /\ UNCHANGED <<registries, open, natives>>

SeekDetour(t, base, dist) ==
    /\ open[t].at = "held"
    /\ base \in {0, file[t].position, file[t].size}
    /\ LET pos == Min({Max({base + dist, 0}), file[t].size})
       IN  /\ file' = [file EXCEPT ![t].position = pos]
           /\ seen' = [seen EXCEPT ![t] = pos]
    /\ UNCHANGED <<registries, open, natives>>

IsOurs(t) == file[t].from \in Callbacks
CloseDetour(t) ==
    /\ open[t].at = "held"
    /\ natives' = [natives EXCEPT ![t] =
           IF IsOurs(t) THEN @ ELSE @ - 1]
    /\ file' = [file EXCEPT ![t] = NoFile]
    /\ open' = [open EXCEPT ![t] = Idle]
    /\ seen' = [seen EXCEPT ![t] = 0]
    /\ UNCHANGED registries

Opening(t) ==
    \/ \E name \in Names, archive \in BOOLEAN : OpenDetour(t, name, archive)
    \/ Redirect(t) \/ TryServe(t) \/ NativeOpen(t)
    \/ FindTransform(t) \/ OfferTransform(t) \/ Rewind(t)

Using(t) ==
    \/ \E len \in 1 .. Longest : ReadDetour(t, len)
    \/ \E base \in 0 .. Longest, dist \in -Longest .. Longest : SeekDetour(t, base, dist)
    \/ CloseDetour(t)

Next == Register \/ RegisterSuffix \/ \E t \in Threads : Opening(t) \/ Using(t)

Spec == Init /\ [][Next]_vars

-----------------------------------------------------------------------------

Stages == {"idle", "redirect", "serve", "native", "find", "offer", "rewind", "held"}
Origins == Names \cup Providers \cup Transforms \cup {None}

(* Every handle stands inside its file, and a file inside its buffer.      *)
TypeOK ==
    /\ redirects \in Seq(Redirects) /\ providers \in Seq(Providers)
    /\ transforms \in Seq(Transforms) /\ filters \in Seq(Filters)
    /\ adding \in Transforms \cup {None}
    /\ \A t \in Threads :
        /\ open[t].at \in Stages /\ open[t].name \in Names \cup {None}
        /\ file[t].from \in Origins
        /\ file[t].position <= file[t].size /\ file[t].size <= file[t].room

(* Each native handle the interception opened is with its caller or was    *)
(* closed: a swapped one is not leaked and not closed twice.               *)
NoHandleLost ==
    \A t \in Threads : natives[t] = IF file[t].from \in Names THEN 1 ELSE 0

(* A caller finds a file at its start and then where its own reads and     *)
(* seeks put it, inside the file and its buffer, also when the             *)
(* interception has read it before or a filter serves another size; and    *)
(* the native handle behind it is neither leaked nor closed twice.         *)
ReadsFromStart ==
    /\ TypeOK
    /\ NoHandleLost
    /\ \A t \in Threads : open[t].at = "held" => file[t].position = seen[t]

(* Whoever had registered first for a name before an open began is the one *)
(* whose answer the open returns, whatever is registered meanwhile; only   *)
(* an exhausted heap or a short read makes the open fall back.             *)
FirstClaimantWins ==
    \A t \in Threads : open[t].at = "held" =>
        LET known == open[t].known
            name == open[t].name
        IN  /\ \A r \in Redirects :
                IsFirst(known.redirects, Claimants(open[t].asked), r) => name = TargetOf[r]
            /\ ~open[t].failed /\ Intercepted(t) =>
                /\ \A p \in Providers :
                    ~open[t].archive /\ IsFirst(known.providers, Claimants(name), p)
                        => file[t].from = p
                /\ \A x \in Transforms :
                    /\ file[t].from \notin Providers
                    /\ IsFirst(known.transforms, Matching(name), x)
                    /\ SuffixOf[name] \in known.offered
                    /\ name \in DOMAIN SizeOf /\ SizeOf[name] > 0
                    => file[t].from = x

(* Both: an open is answered by whoever claimed it, with a whole file.     *)
OpensServed == ReadsFromStart /\ FirstClaimantWins
=============================================================================
