------------------------------ MODULE HookChain ------------------------------
(***************************************************************************)
(* The hooking engine of src/engine/hook/Hook.cpp: several parties detour  *)
(* one engine address.  MinHook keeps one detour per address, so the       *)
(* parties are chained: each party owns an `original` cell that the chain  *)
(* points at the next party's detour, the last one at the trampoline of    *)
(* the engine function.                                                    *)
(*                                                                         *)
(* One thread registers (Install) and patches (Enable, EnableAll) while    *)
(* the client's threads call through the addresses already live.  Relink   *)
(* is a loop of single pointer stores, and the callers run between them.   *)
(***************************************************************************)
EXTENDS Integers, Sequences

CONSTANTS
    Targets,     \* engine addresses
    Parties,     \* install sites: one detour and one `original` cell each
    Callers,     \* client threads calling through the addresses
    TargetOf,    \* the address each party detours
    Priority,    \* its chain position: lower runs first
    LiveTargets, \* the addresses parties also install on once it is patched
    Engine,      \* the engine function, reached through the trampoline
    Null,        \* the initial content of an `original` cell
    Idle         \* a caller outside every call

ASSUME HookAssumption ==
    /\ TargetOf \in [Parties -> Targets]
    /\ Priority \in [Parties -> Int]
    /\ LiveTargets \subseteq Targets
    /\ Engine \notin Parties
    /\ Null \notin Parties \cup Targets \cup {Engine}
    /\ Idle \notin Parties \cup {Engine, Null}

VARIABLES
    links,    \* per address, the parties of its chain, head first
    head,     \* per address, the detour MinHook was given; Null until Patch
    live,     \* the addresses whose detour MinHook has enabled
    original, \* per party, the content of its `original` cell
    installs, \* the parties whose Install was called, in order
    relink,   \* the chain a running Relink works on, or Null
    next,     \* its loop counter: the link whose cell is stored next
    batch,    \* the running call: "none", "one" (Enable), "all" (EnableAll)
    todo,     \* the chains it has still to patch
    arm,      \* the addresses it then enables
    at,       \* per caller, the detour it is running
    callee,   \* per caller, the address it called
    seen,     \* per caller, the detours its call ran, in order
    due       \* per caller, the parties linked when its call entered

chainVars == <<links, head, live, original, installs, relink, next, batch, todo, arm>>
callVars  == <<at, callee, seen, due>>
vars      == <<chainVars, callVars>>

PartiesOf(s) == {s[i] : i \in DOMAIN s}

(* Chain::patched is set exactly when MH_CreateHook took the head.         *)
Patched(t) == head[t] # Null

(* The installing thread is between two calls into the engine.             *)
Quiet == relink = Null /\ batch = "none"

-----------------------------------------------------------------------------

Init ==
    /\ links = [t \in Targets |-> << >>]
    /\ head = [t \in Targets |-> Null]
    /\ live = {}
    /\ original = [p \in Parties |-> Null]
    /\ installs = << >>
    /\ relink = Null /\ next = 0
    /\ batch = "none" /\ todo = {} /\ arm = {}
    /\ at = [c \in Callers |-> Idle]
    /\ callee = [c \in Callers |-> Null]
    /\ seen = [c \in Callers |-> << >>]
    /\ due = [c \in Callers |-> {}]

(* Relink(chain) starts at the head.                                       *)
StartRelinkForgotten(t) == UNCHANGED <<relink, next>>
StartRelink(t) == relink' = t /\ next' = 1

(* The scan from the tail: behind every party of equal or lower priority.  *)
IsPositionUnstable(s, p, k) ==
    /\ k \in 1 .. Len(s) + 1
    /\ \A i \in k .. Len(s) : Priority[s[i]] >= Priority[p]
    /\ k > 1 => Priority[s[k - 1]] < Priority[p]
IsPosition(s, p, k) ==
    /\ k \in 1 .. Len(s) + 1
    /\ \A i \in k .. Len(s) : Priority[s[i]] > Priority[p]
    /\ k > 1 => Priority[s[k - 1]] <= Priority[p]

InsertLink(s, k, p) ==
    [i \in 1 .. Len(s) + 1 |->
        IF i < k THEN s[i] ELSE IF i = k THEN p ELSE s[i - 1]]

(* Hook.cpp refuses a party that would take the head of a live chain.      *)
ClaimsLiveHeadNever(t, k) == FALSE
ClaimsLiveHead(t, k) == Patched(t) /\ k = 1

Install(p) ==
    /\ Quiet
    /\ p \notin PartiesOf(installs)
    /\ TargetOf[p] \in LiveTargets \/ ~Patched(TargetOf[p])
    /\ installs' = Append(installs, p)
    /\ \E k \in 1 .. Len(links[TargetOf[p]]) + 1 :
        /\ IsPosition(links[TargetOf[p]], p, k)
        /\ \/ /\ ClaimsLiveHead(TargetOf[p], k)
              /\ UNCHANGED <<links, relink, next>>
           \/ /\ ~ClaimsLiveHead(TargetOf[p], k)
              /\ links' = [links EXCEPT ![TargetOf[p]] = InsertLink(@, k, p)]
              /\ StartRelink(TargetOf[p])
    /\ UNCHANGED <<head, live, original, batch, todo, arm, callVars>>

(* One store of the Relink loop.  The tail is closed on the trampoline     *)
(* only once Patch has one.                                                *)
RelinkStore ==
    /\ relink # Null
    /\ LET s == links[relink]
           i == next
       IN  /\ original' =
                IF i < Len(s) THEN [original EXCEPT ![s[i]] = s[i + 1]]
                ELSE IF Patched(relink)
                     THEN [original EXCEPT ![s[i]] = Engine]
                     ELSE original
           /\ IF i < Len(s) THEN next' = i + 1 /\ UNCHANGED relink
                             ELSE next' = 0 /\ relink' = Null
    /\ UNCHANGED <<links, head, live, installs, batch, todo, arm, callVars>>

-----------------------------------------------------------------------------

(* Enable(target) patches one chain and enables it; EnableAll patches every*)
(* chain and then enables all of MinHook's hooks.                          *)
Enable(t) ==
    /\ Quiet
    /\ links[t] # << >>
    /\ batch' = "one" /\ todo' = {t} /\ arm' = {t}
    /\ UNCHANGED <<links, head, live, original, installs, relink, next, callVars>>

EnableAll ==
    /\ Quiet
    /\ batch' = "all"
    /\ todo' = {t \in Targets : links[t] # << >>} /\ arm' = Targets
    /\ UNCHANGED <<links, head, live, original, installs, relink, next, callVars>>

HeadDetourBack(s) == s[Len(s)]
HeadDetour(s) == s[1]

Patch(t) ==
    /\ relink = Null
    /\ t \in todo
    /\ \/ /\ Patched(t)
          /\ todo' = todo \ {t}
          /\ UNCHANGED <<head, relink, next, batch, arm>>
       \/ /\ ~Patched(t)                              \* MH_CreateHook succeeds
          /\ head' = [head EXCEPT ![t] = HeadDetour(links[t])]
          /\ StartRelink(t)
          /\ todo' = todo \ {t}
          /\ UNCHANGED <<batch, arm>>
       \/ /\ ~Patched(t)                              \* MH_CreateHook fails
          /\ todo' = todo \ {t}
          /\ IF batch = "one" THEN batch' = "none" /\ arm' = {}
                              ELSE UNCHANGED <<batch, arm>>
          /\ UNCHANGED <<head, relink, next>>
    /\ UNCHANGED <<links, live, original, installs, callVars>>

(* MH_EnableHook: enables what was created among the batch, or fails.      *)
EnableHooks ==
    /\ relink = Null
    /\ batch # "none" /\ todo = {}
    /\ \/ live' = live \cup {t \in arm : Patched(t)}
       \/ UNCHANGED live
    /\ batch' = "none" /\ arm' = {}
    /\ UNCHANGED <<links, head, original, installs, relink, next, todo, callVars>>

-----------------------------------------------------------------------------

(* A client thread calls an address: MinHook's jump leads to the head,     *)
(* otherwise the engine function runs directly.                            *)
Call(c, t) ==
    /\ at[c] = Idle
    /\ callee' = [callee EXCEPT ![c] = t]
    /\ seen' = [seen EXCEPT ![c] = << >>]
    /\ IF t \in live
       THEN /\ at' = [at EXCEPT ![c] = head[t]]
            /\ due' = [due EXCEPT ![c] =
                        {p \in PartiesOf(links[t]) : original[p] # Null}]
       ELSE /\ at' = [at EXCEPT ![c] = Engine]
            /\ due' = [due EXCEPT ![c] = {}]
    /\ UNCHANGED chainVars

(* The detour calls through its `original`.                                *)
CallOriginal(c) ==
    /\ at[c] \in Parties
    /\ at' = [at EXCEPT ![c] = original[at[c]]]
    /\ seen' = [seen EXCEPT ![c] = Append(@, at[c])]
    /\ UNCHANGED <<callee, due, chainVars>>

(* "Not calling original suppresses the parties behind and the engine      *)
(* function"; Return leaves the engine function.                           *)
Leave(c) ==
    /\ at' = [at EXCEPT ![c] = Idle]
    /\ callee' = [callee EXCEPT ![c] = Null]
    /\ seen' = [seen EXCEPT ![c] = << >>]
    /\ due' = [due EXCEPT ![c] = {}]
    /\ UNCHANGED chainVars

Suppress(c) == at[c] \in Parties /\ Leave(c)
Return(c)   == at[c] = Engine /\ Leave(c)

-----------------------------------------------------------------------------

Register ==
    \/ \E p \in Parties : Install(p)
    \/ RelinkStore
    \/ \E t \in Targets : Enable(t) \/ Patch(t)
    \/ EnableAll
    \/ EnableHooks

Run(c) ==
    \/ \E t \in Targets : Call(c, t)
    \/ CallOriginal(c) \/ Suppress(c) \/ Return(c)

Next == Register \/ \E c \in Callers : Run(c)

Spec == Init /\ [][Next]_vars

(* A thread inside a detour keeps executing; nothing makes it call again.  *)
Progress(c) == CallOriginal(c) \/ Suppress(c) \/ Return(c)
FairSpec == Spec /\ \A c \in Callers : WF_vars(Progress(c))

-----------------------------------------------------------------------------

TypeOK ==
    /\ links \in [Targets -> Seq(Parties)]
    /\ head \in [Targets -> Parties \cup {Null}]
    /\ live \in SUBSET Targets
    /\ original \in [Parties -> Parties \cup {Engine, Null}]
    /\ installs \in Seq(Parties)
    /\ relink \in Targets \cup {Null}
    /\ next \in Nat /\ (next = 0 <=> relink = Null)
    /\ batch \in {"none", "one", "all"}
    /\ todo \in SUBSET Targets
    /\ arm \in SUBSET Targets
    /\ at \in [Callers -> Parties \cup {Engine, Null, Idle}]
    /\ callee \in [Callers -> Targets \cup {Null}]
    /\ seen \in [Callers -> Seq(Parties)]
    /\ due \in [Callers -> SUBSET Parties]

InstalledBefore(p, q) ==
    \E m, n \in DOMAIN installs : m < n /\ installs[m] = p /\ installs[n] = q

RunsBefore(p, q) ==
    \/ Priority[p] < Priority[q]
    \/ Priority[p] = Priority[q] /\ InstalledBefore(p, q)

(* MinHook's one slot holds the first link of every patched chain, however *)
(* many parties joined it after it was patched: a party in front of it     *)
(* would never run.                                                        *)
HeadIsMinHooks ==
    \A t \in Targets : Patched(t) => links[t] # << >> /\ head[t] = links[t][1]

Linked(t, i) ==
    IF i < Len(links[t]) THEN original[links[t][i]] = links[t][i + 1]
    ELSE Patched(t) => original[links[t][i]] = Engine

(* Outside a Relink, the `original` cells of a chain spell out its links   *)
(* in order and end at the trampoline; inside one, the cells already       *)
(* stored do.                                                              *)
CellsFollowLinks ==
    \A t \in Targets : \A i \in DOMAIN links[t] :
        (relink = t /\ i >= next) \/ Linked(t, i)

(* A call runs no party twice and none out of order, even when parties     *)
(* join the chain it is running through: "Lower runs first, closest to the *)
(* caller.  Equal values keep install order" (Hook.hpp:32).  And one that  *)
(* reaches the engine function has run every party that was linked when it *)
(* entered: a concurrent Install skips nobody, and nobody joins a live     *)
(* chain where MinHook's slot would never lead to him.                     *)
CallComplete ==
    /\ TypeOK
    /\ \A c \in Callers :
        /\ \A i, j \in DOMAIN seen[c] : i < j => RunsBefore(seen[c][i], seen[c][j])
        /\ at[c] = Engine => due[c] \subseteq PartiesOf(seen[c])

(* "A call in flight through a live chain reads either the old successor   *)
(* or the new one" (Hook.cpp:73-74): it never jumps through a cell that    *)
(* nothing was stored in yet - where parties install before their address  *)
(* is patched.  A party that joins a live chain is published before its    *)
(* own cell is stored.                                                     *)
NoNullJump == \A c \in Callers : at[c] = Null => callee[c] \in LiveTargets

(* Every call comes back, no chain being a cycle even while one is joined; *)
(* all that can stop it is an empty cell of a chain that was joined live.  *)
CallsReturn ==
    \A c \in Callers :
        at[c] # Idle ~> (at[c] = Idle \/ (at[c] = Null /\ callee[c] \in LiveTargets))

PositionOf(s, p) == CHOOSE i \in DOMAIN s : s[i] = p

Phased == Targets \ LiveTargets

(* Parties that install before the address is patched get exactly what     *)
(* HookDispatch promises, whatever happens on the other addresses.         *)
Dispatch == INSTANCE HookDispatch WITH
    Targets <- Phased,
    order <- [t \in Phased |-> IF t \in live THEN links[t] ELSE << >>],
    busy <- {c \in Callers : callee[c] \in Phased},
    rest <- [c \in Callers |->
                IF at[c] \notin Parties \/ callee[c] \notin Phased THEN << >>
                ELSE SubSeq(links[callee[c]],
                            PositionOf(links[callee[c]], at[c]),
                            Len(links[callee[c]]))]
DispatchSpec == Dispatch!Spec

=============================================================================
