------------------------------- MODULE M2Arena -------------------------------
(***************************************************************************)
(* The large-M2 arena of src/client/CM2Shared/Memory.cpp: one reservation  *)
(* of address space, a free list of ranges under a mutex, and an Alloc and *)
(* a Free that the model loader's threads and the main thread call.        *)
(*                                                                         *)
(* The mutex covers the free list only: pages are committed after Alloc    *)
(* released it and decommitted before Free takes it, so both calls are two *)
(* steps here and other threads run in between.                            *)
(***************************************************************************)
EXTENDS Integers, Sequences, SequencesExt

CONSTANTS
    Threads,   \* threads calling Alloc and Free
    ArenaSize, \* bytes of the reservation
    PageSize,  \* alignment of a range (0x1000 in the code)
    Padding,   \* bytes Alloc adds to every request (0x20)
    Modulus,   \* size arithmetic is modulo this (2^32)
    Requests   \* the payload sizes asked for

ASSUME ArenaAssumption ==
    /\ PageSize \in Nat \ {0} /\ Padding \in Nat
    /\ Modulus \in Nat \ {0} /\ Modulus % PageSize = 0
    /\ ArenaSize \in 1 .. Modulus - 1 /\ ArenaSize % PageSize = 0
    /\ Requests \subseteq 0 .. Modulus - 1

VARIABLES
    base,      \* TRUE once the address space is reserved
    free,      \* g_m2ArenaFree: the free ranges in list order
    committed, \* the bytes whose pages are committed
    owned,     \* the ranges Alloc returned and nobody gave to Free yet
    op         \* per thread, the call it is inside of

arenaVars == <<base, free, committed, owned, op>>

Idle == [at |-> "idle", offset |-> 0, size |-> 0]
Bytes(r) == r.offset .. r.offset + r.size - 1

(* Unsigned arithmetic: what a sum carries beyond the modulus is gone.     *)
AlignUp(n) ==
    LET x == (n + PageSize - 1) % Modulus IN x - (x % PageSize)
Need(asked) == AlignUp((asked + Padding) % Modulus)

ArenaInit ==
    /\ base = FALSE
    /\ free = << >>
    /\ committed = {}
    /\ owned = {}
    /\ op = [t \in Threads |-> Idle]

-----------------------------------------------------------------------------

(* InsertArenaFreeRangeLocked: insert in offset order, then coalesce with  *)
(* the previous and with the next range.                                   *)
PlaceFor(s, offset) ==
    CHOOSE k \in 1 .. Len(s) + 1 :
        /\ \A j \in 1 .. k - 1 : s[j].offset < offset
        /\ k <= Len(s) => s[k].offset >= offset

InsertUncoalesced(s, offset, size) ==
    InsertAt(s, PlaceFor(s, offset), [offset |-> offset, size |-> size])
InsertRange(s, offset, size) ==
    LET k == PlaceFor(s, offset)
        joinsPrev == k > 1 /\ s[k - 1].offset + s[k - 1].size = offset
        joinsNext == k <= Len(s) /\ offset + size = s[k].offset
        first == IF joinsPrev THEN s[k - 1].offset ELSE offset
        total == size + (IF joinsPrev THEN s[k - 1].size ELSE 0)
                      + (IF joinsNext THEN s[k].size ELSE 0)
    IN  IF size = 0 THEN s
        ELSE SubSeq(s, 1, IF joinsPrev THEN k - 2 ELSE k - 1)
             \o <<[offset |-> first, size |-> total]>>
             \o SubSeq(s, IF joinsNext THEN k + 1 ELSE k, Len(s))

(* ReserveArenaRangeLocked cuts the need off the front of the first range  *)
(* that is large enough.                                                   *)
FirstFit(s, need, i) ==
    /\ i \in DOMAIN s /\ s[i].size >= need
    /\ \A j \in 1 .. i - 1 : s[j].size < need

CutRange(s, i, need) ==
    IF s[i].size = need THEN RemoveAt(s, i)
    ELSE [s EXCEPT ![i] = [offset |-> @.offset + need, size |-> @.size - need]]

(* EnsureM2ArenaLocked: the first successful reservation makes the arena   *)
(* one free range; a failed one is retried by the next call that needs it. *)
Whole == <<[offset |-> 0, size |-> ArenaSize]>>
Ensured == IF base THEN free ELSE Whole

(* The Boot-phase feature, on the loader thread.                           *)
ReserveM2Arena ==
    /\ ~base
    /\ base' = TRUE /\ free' = Ensured
    /\ UNCHANGED <<committed, owned, op>>

AllocReserve(t, asked) ==
    /\ op[t].at = "idle"
    /\ base' = TRUE
    /\ \E i \in DOMAIN Ensured :
        /\ FirstFit(Ensured, Need(asked), i)
        /\ free' = CutRange(Ensured, i, Need(asked))
        /\ op' = [op EXCEPT ![t] = [at     |-> "commit",
                                    offset |-> Ensured[i].offset,
                                    size   |-> Need(asked)]]
    /\ UNCHANGED <<committed, owned>>

(* Alloc returns null: the reservation failed, or no range is large enough.*)
AllocExhausted(t, asked) ==
    /\ op[t].at = "idle"
    /\ \/ ~base /\ UNCHANGED <<base, free>>
       \/ /\ \A i \in DOMAIN Ensured : Ensured[i].size < Need(asked)
          /\ base' = TRUE /\ free' = Ensured
    /\ UNCHANGED <<committed, owned, op>>

(* CommitArenaRange either commits the whole range or nothing; the pointer *)
(* is handed out only in the first case.                                   *)
Committable(r) == r.size # 0
AllocCommitUnchecked(t) ==
    /\ op[t].at = "commit"
    /\ owned' = owned \cup {[offset |-> op[t].offset, size |-> op[t].size]}
    /\ op' = [op EXCEPT ![t] = Idle]
    /\ \/ committed' = committed \cup Bytes(op[t])
       \/ UNCHANGED committed
    /\ UNCHANGED <<base, free>>
AllocCommit(t) ==
    /\ op[t].at = "commit"
    /\ \/ /\ Committable(op[t])
          /\ committed' = committed \cup Bytes(op[t])
          /\ owned' = owned \cup {[offset |-> op[t].offset, size |-> op[t].size]}
          /\ op' = [op EXCEPT ![t] = Idle]
       \/ /\ op' = [op EXCEPT ![t].at = "giveBack"]
          /\ UNCHANGED <<committed, owned>>
    /\ UNCHANGED <<base, free>>

(* The end of Free, and of an Alloc whose commit failed.                   *)
ListInsert(t) ==
    /\ op[t].at = "giveBack"
    /\ free' = InsertRange(free, op[t].offset, op[t].size)
    /\ op' = [op EXCEPT ![t] = Idle]
    /\ UNCHANGED <<base, committed, owned>>

(* Free decommits before the range is back in the list: nobody can be      *)
(* given pages that are about to go away.                                  *)
FreeDecommit(t, r) ==
    /\ op[t].at = "idle" /\ r \in owned
    /\ owned' = owned \ {r}
    /\ committed' = committed \ Bytes(r)
    /\ op' = [op EXCEPT ![t] = [at |-> "giveBack", offset |-> r.offset,
                                size |-> r.size]]
    /\ UNCHANGED <<base, free>>

Step(t) ==
    \/ \E asked \in Requests : AllocReserve(t, asked) \/ AllocExhausted(t, asked)
    \/ AllocCommit(t)
    \/ \E r \in owned : FreeDecommit(t, r)
    \/ ListInsert(t)

ArenaNext == ReserveM2Arena \/ \E t \in Threads : Step(t)

ArenaSpec == ArenaInit /\ [][ArenaNext]_arenaVars

-----------------------------------------------------------------------------

FreeRange == [offset : 0 .. ArenaSize, size : 0 .. ArenaSize]
ArenaTypeOK ==
    /\ base \in BOOLEAN
    /\ free \in Seq(FreeRange)
    /\ committed \subseteq 0 .. ArenaSize - 1
    /\ \A r \in owned : r \in [offset : 0 .. ArenaSize, size : 1 .. ArenaSize]
    /\ \A t \in Threads : op[t].at \in {"idle", "commit", "giveBack"}

(* The free list is sorted, holds no empty range and no two ranges that    *)
(* touch: first fit then finds every run of free bytes that is long enough.*)
FreeListCanonical ==
    /\ \A i \in DOMAIN free : free[i].size > 0
    /\ \A i, j \in DOMAIN free :
        i < j => free[i].offset + free[i].size < free[j].offset

InFlight == {t \in Threads : op[t].at # "idle"}
FreeBytes == UNION {Bytes(free[i]) : i \in DOMAIN free}

(* Every byte of the arena is in exactly one place: the free list, one     *)
(* caller's block, or one call in progress.  Two threads never hold        *)
(* overlapping blocks, and no failed commit or racing Free loses a range.  *)
(* A caller's block is committed to its last byte, whatever the other      *)
(* threads commit and decommit meanwhile, and nothing else is.  And the    *)
(* free list stays canonical through every order of frees.                 *)
Partition ==
    /\ ArenaTypeOK
    /\ base =>
        /\ FreeListCanonical
        /\ 0 .. ArenaSize - 1 = FreeBytes \cup (UNION {Bytes(r) : r \in owned})
                                   \cup (UNION {Bytes(op[t]) : t \in InFlight})
        /\ \A r \in owned : Bytes(r) \cap FreeBytes = {}
        /\ \A r, q \in owned : r # q => Bytes(r) \cap Bytes(q) = {}
        /\ \A t \in InFlight :
            /\ Bytes(op[t]) \cap FreeBytes = {}
            /\ \A r \in owned : Bytes(op[t]) \cap Bytes(r) = {}
            /\ \A u \in InFlight : t # u => Bytes(op[t]) \cap Bytes(op[u]) = {}
        /\ committed = UNION {Bytes(r) : r \in owned}

=============================================================================
