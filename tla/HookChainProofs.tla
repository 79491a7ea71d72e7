--------------------------- MODULE HookChainProofs ---------------------------
(***************************************************************************)
(* Proofs about HookChain for every set of addresses, parties and callers: *)
(* type correctness, the inductive invariant of the chains, that the cells *)
(* follow the links, that MinHook's slot holds the head, and that only on  *)
(* an address that is joined live a call can jump through an empty cell;   *)
(* that a call runs every party it owes, in order and once, also while the *)
(* chain grows under it; and that where installing precedes patching the   *)
(* chains implement HookDispatch.                                          *)
(***************************************************************************)
EXTENDS HookChain, SequenceTheorems, TLAPS

USE HookAssumption DEF HookAssumption

(* What Install, Relink, Patch and EnableHooks maintain about the chains:  *)
(* a party is linked once, and only on the address it was installed on.    *)
LinkedOnce ==
    /\ \A t \in Targets : \A i, j \in DOMAIN links[t] :
            links[t][i] = links[t][j] => i = j
    /\ \A t \in Targets : \A i \in DOMAIN links[t] :
            /\ TargetOf[links[t][i]] = t
            /\ links[t][i] \in PartiesOf(installs)

WorkInRange ==
    /\ relink # Null => next <= Len(links[relink])
    /\ \A t \in todo : links[t] # << >>
    /\ \A t \in live : Patched(t)

(* Where parties only install before patching, a live chain is never being *)
(* relinked, and every call is inside the chain of the address it called.  *)
LiveSettled ==
    /\ relink \in live => relink \in LiveTargets
    /\ \A c \in Callers : at[c] \in Parties /\ callee[c] \notin LiveTargets =>
          /\ callee[c] \in live
          /\ at[c] \in PartiesOf(links[callee[c]])
    /\ NoNullJump

IInv == TypeOK /\ LinkedOnce /\ WorkInRange /\ HeadIsMinHooks
          /\ CellsFollowLinks /\ LiveSettled

(* InsertLink yields the old sequence with the party at the position.      *)
LEMMA InsertLinkFacts ==
    ASSUME NEW s \in Seq(Parties), NEW p \in Parties, NEW k \in 1 .. Len(s) + 1
    PROVE  /\ InsertLink(s, k, p) \in Seq(Parties)
           /\ Len(InsertLink(s, k, p)) = Len(s) + 1
           /\ DOMAIN InsertLink(s, k, p) = 1 .. Len(s) + 1
           /\ \A i \in 1 .. Len(s) + 1 : InsertLink(s, k, p)[i] =
                 IF i < k THEN s[i] ELSE IF i = k THEN p ELSE s[i - 1]
<1>1. Len(s) + 1 \in Nat
  OBVIOUS
<1>2. InsertLink(s, k, p) \in [1 .. Len(s) + 1 -> Parties]
  BY DEF InsertLink
<1>3. QED
  BY <1>1, <1>2 DEF InsertLink

(* It holds the new party and the old ones, each as often as before.       *)
LEMMA InsertLinkMembers ==
    ASSUME NEW s \in Seq(Parties), NEW p \in Parties, NEW k \in 1 .. Len(s) + 1,
           \A i, j \in DOMAIN s : s[i] = s[j] => i = j,
           p \notin PartiesOf(s)
    PROVE  LET r == InsertLink(s, k, p)
           IN  /\ PartiesOf(r) \subseteq PartiesOf(s) \cup {p}
               /\ PartiesOf(s) \subseteq PartiesOf(r)
               /\ \A i, j \in DOMAIN r : r[i] = r[j] => i = j
<1> DEFINE r == InsertLink(s, k, p)
           n == Len(s)
           old(i) == IF i < k THEN i ELSE i - 1
<1>1. n \in Nat /\ DOMAIN s = 1 .. n /\ k \in 1 .. n + 1
  OBVIOUS
<1>2. DOMAIN r = 1 .. n + 1 /\ r[k] = p
  BY <1>1 DEF InsertLink
<1>3. ASSUME NEW i \in 1 .. n + 1, i # k
      PROVE  old(i) \in 1 .. n /\ r[i] = s[old(i)]
  BY <1>1, <1>3 DEF InsertLink
<1>4. ASSUME NEW i \in 1 .. n
      PROVE  \E j \in 1 .. n + 1 : r[j] = s[i]
  <2>1. CASE i < k
    BY <1>1, <2>1 DEF InsertLink
  <2>2. CASE i >= k
    <3>1. i + 1 \in 1 .. n + 1 /\ r[i + 1] = s[i]
      BY <1>1, <2>2 DEF InsertLink
    <3>2. QED
      BY <3>1
  <2>3. QED
    BY <1>1, <2>1, <2>2
<1>9. ASSUME NEW i \in 1 .. n + 1, i # k PROVE r[i] \in PartiesOf(s)
  BY <1>1, <1>3, <1>9 DEF PartiesOf
<1> HIDE DEF r
<1>5. PartiesOf(r) \subseteq PartiesOf(s) \cup {p}
  BY <1>1, <1>2, <1>9 DEF PartiesOf
<1>6. PartiesOf(s) \subseteq PartiesOf(r)
  BY <1>1, <1>2, <1>4 DEF PartiesOf
<1>7. ASSUME NEW i \in 1 .. n + 1, NEW j \in 1 .. n + 1, r[i] = r[j]
      PROVE  i = j
  <2>1. CASE i = k \/ j = k
    BY <1>2, <1>7, <1>9, <2>1
  <2>2. CASE i # k /\ j # k
    <3>1. old(i) = old(j)
      BY <1>1, <1>3, <1>7, <2>2
    <3>2. QED
      BY <1>1, <2>2, <3>1
  <2>3. QED
    BY <2>1, <2>2
<1>8. QED
  BY <1>2, <1>5, <1>6, <1>7 DEF r

(* What Install does, as a choice of one position.                         *)
LEMMA InstallCases ==
    ASSUME TypeOK, NEW p \in Parties, Install(p)
    PROVE  \/ UNCHANGED <<links, relink, next>>
           \/ \E k \in 1 .. Len(links[TargetOf[p]]) + 1 :
                /\ ~ClaimsLiveHead(TargetOf[p], k)
                /\ IsPosition(links[TargetOf[p]], p, k)
                /\ links' = [links EXCEPT ![TargetOf[p]] =
                                InsertLink(links[TargetOf[p]], k, p)]
                /\ relink' = TargetOf[p] /\ next' = 1
  BY DEF Install, TypeOK, StartRelink

(* The initial state is well-typed.                                        *)
LEMMA InitTypeOK == Init => TypeOK
  BY DEF Init, TypeOK

(* Every step of the installing thread and of the callers keeps the types. *)
LEMMA NextTypeOK == TypeOK /\ WorkInRange /\ [Next]_vars => TypeOK'
<1> SUFFICES ASSUME TypeOK, WorkInRange, [Next]_vars PROVE TypeOK'
  OBVIOUS
<1> USE DEF chainVars, callVars
<1>1. ASSUME NEW p \in Parties, Install(p) PROVE TypeOK'
  <2>1. links[TargetOf[p]] \in Seq(Parties)
    BY DEF TypeOK
  <2>2. /\ links' \in [Targets -> Seq(Parties)]
        /\ relink' \in Targets \cup {Null}
        /\ next' \in Nat /\ (next' = 0 <=> relink' = Null)
    <3>1. CASE UNCHANGED <<links, relink, next>>
      BY <3>1 DEF TypeOK
    <3>2. ASSUME NEW k \in 1 .. Len(links[TargetOf[p]]) + 1,
                 links' = [links EXCEPT ![TargetOf[p]] =
                              InsertLink(links[TargetOf[p]], k, p)],
                 relink' = TargetOf[p], next' = 1
          PROVE  /\ links' \in [Targets -> Seq(Parties)]
                 /\ relink' \in Targets \cup {Null}
                 /\ next' \in Nat /\ (next' = 0 <=> relink' = Null)
      <4>1. InsertLink(links[TargetOf[p]], k, p) \in Seq(Parties)
        BY <2>1, InsertLinkFacts
      <4>2. QED
        BY <3>2, <4>1 DEF TypeOK
    <3>3. QED
      BY <1>1, <3>1, <3>2, InstallCases
  <2>3. installs' \in Seq(Parties)
    BY <1>1 DEF Install, TypeOK
  <2>4. QED
    BY <1>1, <2>2, <2>3 DEF Install, TypeOK
<1>2. CASE RelinkStore
  <2>1. /\ relink \in Targets /\ next \in Nat \ {0}
        /\ next <= Len(links[relink])
    BY <1>2 DEF RelinkStore, TypeOK, WorkInRange
  <2>2. \A i \in 1 .. Len(links[relink]) : links[relink][i] \in Parties
    BY <2>1 DEF TypeOK
  <2>3. original' \in [Parties -> Parties \cup {Engine, Null}]
    BY <1>2, <2>1, <2>2 DEF RelinkStore, TypeOK
  <2>4. /\ relink' \in Targets \cup {Null}
        /\ next' \in Nat /\ (next' = 0 <=> relink' = Null)
    BY <1>2, <2>1 DEF RelinkStore, TypeOK
  <2>5. QED
    BY <1>2, <2>3, <2>4 DEF RelinkStore, TypeOK
<1>3. ASSUME NEW t \in Targets, Enable(t) PROVE TypeOK'
  BY <1>3 DEF Enable, TypeOK
<1>4. ASSUME NEW t \in Targets, Patch(t) PROVE TypeOK'
  <2>1. links[t] \in Seq(Parties) /\ links[t] # << >>
    BY <1>4 DEF Patch, TypeOK, WorkInRange
  <2>2. HeadDetour(links[t]) \in Parties
    BY <2>1 DEF HeadDetour
  <2>3. head' \in [Targets -> Parties \cup {Null}]
    BY <1>4, <2>2 DEF Patch, TypeOK
  <2>4. /\ relink' \in Targets \cup {Null}
        /\ next' \in Nat /\ (next' = 0 <=> relink' = Null)
    BY <1>4 DEF Patch, TypeOK, StartRelink
  <2>5. /\ batch' \in {"none", "one", "all"}
        /\ todo' \in SUBSET Targets /\ arm' \in SUBSET Targets
    BY <1>4 DEF Patch, TypeOK
  <2>6. QED
    BY <1>4, <2>3, <2>4, <2>5 DEF Patch, TypeOK
<1>5. CASE EnableAll
  BY <1>5 DEF EnableAll, TypeOK
<1>6. CASE EnableHooks
  BY <1>6 DEF EnableHooks, TypeOK
<1>7. ASSUME NEW c \in Callers, Run(c) PROVE TypeOK'
  <2>1. ASSUME NEW t \in Targets, Call(c, t) PROVE TypeOK'
    <3>1. {p \in PartiesOf(links[t]) : original[p] # Null} \in SUBSET Parties
      BY DEF TypeOK, PartiesOf
    <3>2. /\ at' \in [Callers -> Parties \cup {Engine, Null, Idle}]
          /\ callee' \in [Callers -> Targets \cup {Null}]
      BY <2>1 DEF Call, TypeOK
    <3>3. seen' \in [Callers -> Seq(Parties)]
      BY <2>1 DEF Call, TypeOK
    <3>4. due' \in [Callers -> SUBSET Parties]
      BY <2>1, <3>1 DEF Call, TypeOK
    <3>5. QED
      BY <2>1, <3>2, <3>3, <3>4 DEF Call, TypeOK
  <2>2. CASE CallOriginal(c)
    <3>1. original[at[c]] \in Parties \cup {Engine, Null}
      BY <2>2 DEF CallOriginal, TypeOK
    <3>2. seen' \in [Callers -> Seq(Parties)]
      BY <2>2 DEF CallOriginal, TypeOK
    <3>3. QED
      BY <2>2, <3>1, <3>2 DEF CallOriginal, TypeOK
  <2>3. CASE Suppress(c) \/ Return(c)
    <3>1. Leave(c)
      BY <2>3 DEF Suppress, Return
    <3>2. /\ seen' \in [Callers -> Seq(Parties)]
          /\ due' \in [Callers -> SUBSET Parties]
      BY <3>1 DEF Leave, TypeOK
    <3>3. QED
      BY <3>1, <3>2 DEF Leave, TypeOK
  <2>4. QED
    BY <1>7, <2>1, <2>2, <2>3 DEF Run
<1>8. CASE UNCHANGED vars
  BY <1>8 DEF vars, TypeOK
<1>9. QED
  BY <1>1, <1>2, <1>3, <1>4, <1>5, <1>6, <1>7, <1>8 DEF Next, Register

-----------------------------------------------------------------------------

(* Steps that touch neither links, cells nor slots keep what is said of    *)
(* the chains.                                                             *)
LEMMA ChainsUntouched ==
    ASSUME IInv, UNCHANGED <<links, head, original, relink, next, installs>>
    PROVE  LinkedOnce' /\ HeadIsMinHooks' /\ CellsFollowLinks'
<1>1. LinkedOnce'
  BY DEF IInv, LinkedOnce
<1>2. HeadIsMinHooks'
  BY DEF IInv, HeadIsMinHooks, Patched
<1>3. CellsFollowLinks'
  BY DEF IInv, CellsFollowLinks, Linked, Patched
<1>4. QED
  BY <1>1, <1>2, <1>3

(* An Install that is not refused links a new party into its own chain,    *)
(* behind the head when the chain is patched.                              *)
LEMMA InstallInv ==
    ASSUME IInv, TypeOK', NEW p \in Parties, Install(p)
    PROVE  IInv'
<1> DEFINE t0 == TargetOf[p]
<1>0. /\ relink = Null /\ batch = "none" /\ p \notin PartiesOf(installs)
      /\ installs' = Append(installs, p)
      /\ UNCHANGED <<head, live, original, todo, at, callee>>
  BY DEF Install, Quiet, IInv, WorkInRange, callVars
<1>1. PartiesOf(installs) \subseteq PartiesOf(installs') /\ p \in PartiesOf(installs')
  <2>1. installs \in Seq(Parties) /\ Len(installs) \in Nat
    BY DEF IInv, TypeOK
  <2>2. /\ DOMAIN installs = 1 .. Len(installs)
        /\ DOMAIN installs' = 1 .. Len(installs) + 1
        /\ \A i \in 1 .. Len(installs) : installs'[i] = installs[i]
        /\ installs'[Len(installs) + 1] = p
    BY <1>0, <2>1
  <2>3. Len(installs) + 1 \in DOMAIN installs' /\ DOMAIN installs \subseteq DOMAIN installs'
    BY <2>1, <2>2
  <2>4. QED
    BY <2>2, <2>3 DEF PartiesOf
<1>2. CASE UNCHANGED <<links, relink, next>>
  <2>1. LinkedOnce'
    BY <1>1, <1>2 DEF IInv, LinkedOnce
  <2>2. WorkInRange' /\ HeadIsMinHooks'
    BY <1>0, <1>2 DEF IInv, WorkInRange, HeadIsMinHooks, Patched
  <2>3. CellsFollowLinks'
    BY <1>0, <1>2 DEF IInv, CellsFollowLinks, Linked, Patched
  <2>4. LiveSettled'
    BY <1>0, <1>2 DEF IInv, LiveSettled, NoNullJump, PartiesOf
  <2>5. QED
    BY <2>1, <2>2, <2>3, <2>4 DEF IInv
<1>3. ASSUME NEW k \in 1 .. Len(links[t0]) + 1,
             ~ClaimsLiveHead(t0, k),
             links' = [links EXCEPT ![t0] = InsertLink(links[t0], k, p)],
             relink' = t0, next' = 1
      PROVE  IInv'
  <2>1. /\ t0 \in Targets /\ links[t0] \in Seq(Parties)
        /\ Len(links[t0]) \in Nat
    BY DEF IInv, TypeOK
  <2>2. /\ links'[t0] = InsertLink(links[t0], k, p)
        /\ \A t \in Targets : t # t0 => links'[t] = links[t]
    BY <1>3, <2>1 DEF IInv, TypeOK
  <2>3. /\ Len(links'[t0]) = Len(links[t0]) + 1
        /\ DOMAIN links'[t0] = 1 .. Len(links[t0]) + 1
        /\ \A i \in 1 .. Len(links[t0]) + 1 : links'[t0][i] =
              IF i < k THEN links[t0][i]
              ELSE IF i = k THEN p ELSE links[t0][i - 1]
    <3>1. k \in 1 .. Len(links[t0]) + 1
      BY <1>3
    <3>2. /\ Len(InsertLink(links[t0], k, p)) = Len(links[t0]) + 1
          /\ DOMAIN InsertLink(links[t0], k, p) = 1 .. Len(links[t0]) + 1
          /\ \A i \in 1 .. Len(links[t0]) + 1 :
                InsertLink(links[t0], k, p)[i] =
                   IF i < k THEN links[t0][i]
                   ELSE IF i = k THEN p ELSE links[t0][i - 1]
      <4> DEFINE s == links[t0]
      <4>1. s \in Seq(Parties) /\ k \in 1 .. Len(s) + 1
        BY <2>1, <3>1
      <4> HIDE DEF t0, s
      <4>2. /\ Len(InsertLink(s, k, p)) = Len(s) + 1
            /\ DOMAIN InsertLink(s, k, p) = 1 .. Len(s) + 1
        BY <4>1, InsertLinkFacts
      <4>3. ASSUME NEW i \in 1 .. Len(s) + 1
            PROVE  InsertLink(s, k, p)[i] =
                      IF i < k THEN s[i] ELSE IF i = k THEN p ELSE s[i - 1]
        BY <4>1, <4>3, InsertLinkFacts
      <4>4. QED
        BY <4>2, <4>3 DEF s
    <3>3. QED
      BY <2>2, <3>2
  <2>4. DOMAIN links[t0] = 1 .. Len(links[t0])
    BY <2>1
  <2>5. \A i \in DOMAIN links[t0] : links[t0][i] # p /\ TargetOf[links[t0][i]] = t0
                                   /\ links[t0][i] \in PartiesOf(installs)
    BY <1>0, <2>1 DEF IInv, LinkedOnce
  <2>6. LinkedOnce'
    <3>1. /\ \A i, j \in DOMAIN links[t0] :
                links[t0][i] = links[t0][j] => i = j
          /\ p \notin PartiesOf(links[t0])
      BY <2>1, <2>5 DEF IInv, LinkedOnce, PartiesOf
    <3>2. /\ PartiesOf(links'[t0]) \subseteq PartiesOf(links[t0]) \cup {p}
          /\ \A i, j \in DOMAIN links'[t0] :
                links'[t0][i] = links'[t0][j] => i = j
      <4> DEFINE s == links[t0]
      <4>1. s \in Seq(Parties) /\ k \in 1 .. Len(s) + 1
        BY <1>3, <2>1
      <4>2. links'[t0] = InsertLink(s, k, p)
        BY <2>2
      <4>3. /\ \A i, j \in DOMAIN s : s[i] = s[j] => i = j
            /\ p \notin PartiesOf(s)
        BY <3>1
      <4> HIDE DEF t0, s
      <4>4. QED
        BY <4>1, <4>2, <4>3, InsertLinkMembers DEF s
    <3>3. ASSUME NEW q \in PartiesOf(links'[t0])
          PROVE  TargetOf[q] = t0 /\ q \in PartiesOf(installs')
      <4>1. CASE q = p
        BY <4>1, <1>1
      <4>2. CASE q \in PartiesOf(links[t0])
        BY <4>2, <1>1, <2>5 DEF PartiesOf
      <4>3. QED
        BY <3>2, <4>1, <4>2
    <3>4. \A i \in DOMAIN links'[t0] : links'[t0][i] \in PartiesOf(links'[t0])
      BY DEF PartiesOf
    <3>5. ASSUME NEW t \in Targets, t # t0
          PROVE  /\ \A i, j \in DOMAIN links'[t] :
                       links'[t][i] = links'[t][j] => i = j
                 /\ \A i \in DOMAIN links'[t] :
                       /\ TargetOf[links'[t][i]] = t
                       /\ links'[t][i] \in PartiesOf(installs')
      BY <1>1, <2>2, <3>5 DEF IInv, LinkedOnce
    <3>6. QED
      BY <3>2, <3>3, <3>4, <3>5 DEF LinkedOnce
  <2>7. WorkInRange'
    BY <1>0, <1>3, <2>1, <2>3 DEF IInv, WorkInRange, Patched
  <2>8. HeadIsMinHooks'
    <3>1. CASE ~Patched(t0)
      BY <1>0, <2>2, <3>1 DEF IInv, HeadIsMinHooks, Patched
    <3>2. CASE Patched(t0)
      <4>1. k # 1 /\ links[t0] # << >> /\ head[t0] = links[t0][1]
        BY <1>3, <3>2, <2>1 DEF ClaimsLiveHead, IInv, HeadIsMinHooks
      <4>2. links'[t0] # << >> /\ links'[t0][1] = links[t0][1]
        <5>1. 1 \in 1 .. Len(links[t0]) + 1 /\ 1 < k
          BY <4>1, <1>3, <2>1
        <5>2. Len(links'[t0]) # 0
          BY <2>1, <2>3
        <5>3. QED
          BY <5>1, <5>2, <2>3
      <4>3. QED
        BY <1>0, <2>2, <4>1, <4>2 DEF IInv, HeadIsMinHooks, Patched
    <3>3. QED
      BY <3>1, <3>2
  <2>9. CellsFollowLinks'
    <3>1. ASSUME NEW t \in Targets, t # t0, NEW i \in DOMAIN links[t]
          PROVE  Linked(t, i)
      BY <3>1, <1>0 DEF IInv, CellsFollowLinks
    <3>2. ASSUME NEW i \in DOMAIN links'[t0] PROVE i >= next'
      BY <1>3, <2>1, <2>3
    <3>3. QED
      BY <1>0, <1>3, <2>2, <3>1, <3>2 DEF CellsFollowLinks, Linked, Patched
  <2>10. LiveSettled'
    <3>1. t0 \in LiveTargets \/ t0 \notin live
      BY DEF Install, IInv, WorkInRange
    <3>2. live \subseteq Targets
      BY DEF IInv, TypeOK
    <3>3. QED
      BY <1>0, <1>3, <2>2, <3>1, <3>2 DEF IInv, LiveSettled, NoNullJump, PartiesOf
  <2>11. QED
    BY <2>6, <2>7, <2>8, <2>9, <2>10 DEF IInv
<1>4. QED
  BY <1>2, <1>3, InstallCases DEF IInv

(* One store of Relink gives its link the successor the chain says, and    *)
(* disturbs no cell stored before it.                                      *)
LEMMA RelinkStoreInv ==
    ASSUME IInv, TypeOK', RelinkStore
    PROVE  IInv'
<1> DEFINE s == links[relink]
           n == Len(links[relink])
<1>0. /\ relink \in Targets /\ next \in 1 .. n
      /\ s \in Seq(Parties) /\ n \in Nat /\ DOMAIN s = 1 .. n
      /\ UNCHANGED <<links, head, live, installs, batch, todo, at, callee>>
  BY DEF RelinkStore, IInv, TypeOK, WorkInRange, callVars
<1>1. /\ next < n => next' = next + 1 /\ relink' = relink
      /\ ~(next < n) => relink' = Null
      /\ \A q \in Parties : q # s[next] => original'[q] = original[q]
      /\ next < n => original'[s[next]] = s[next + 1]
      /\ ~(next < n) /\ Patched(relink) => original'[s[next]] = Engine
  BY <1>0 DEF RelinkStore, IInv, TypeOK
<1>2. LinkedOnce' /\ HeadIsMinHooks'
  BY <1>0 DEF IInv, LinkedOnce, HeadIsMinHooks, Patched
<1>3. WorkInRange'
  BY <1>0, <1>1 DEF IInv, WorkInRange, Patched
<1>4. CellsFollowLinks'
  <2> SUFFICES ASSUME NEW t \in Targets, NEW i \in DOMAIN links[t],
                      ~(relink' = t /\ i >= next')
               PROVE  Linked(t, i)'
    BY <1>0 DEF CellsFollowLinks
  <2>1. /\ links[t] \in Seq(Parties) /\ i \in 1 .. Len(links[t])
        /\ links[t][i] \in Parties
    BY DEF IInv, TypeOK
  <2>2. CASE t = relink /\ i = next
    <3>1. CASE next < n
      BY <1>0, <1>1, <2>1, <2>2, <3>1 DEF Linked
    <3>2. CASE ~(next < n)
      BY <1>0, <1>1, <2>1, <2>2, <3>2 DEF Linked, Patched
    <3>3. QED
      BY <3>1, <3>2
  <2>3. CASE ~(t = relink /\ i = next)
    <3>1. Linked(t, i)
      <4>1. CASE t # relink
        BY <4>1 DEF IInv, CellsFollowLinks
      <4>2. CASE t = relink
        <5>1. i < next
          BY <1>0, <1>1, <2>1, <2>3, <4>2
        <5>2. QED
          BY <1>0, <2>1, <4>2, <5>1 DEF IInv, CellsFollowLinks
      <4>3. QED
        BY <4>1, <4>2
    <3>2. links[t][i] # s[next]
      <4>1. s[next] \in Parties /\ TargetOf[s[next]] = relink /\ TargetOf[links[t][i]] = t
        BY <1>0 DEF IInv, LinkedOnce
      <4>2. t = relink => i # next
        BY <2>3
      <4>3. QED
        BY <1>0, <4>1, <4>2 DEF IInv, LinkedOnce
    <3>3. original'[links[t][i]] = original[links[t][i]]
      BY <1>1, <2>1, <3>2
    <3>4. QED
      BY <1>0, <3>1, <3>3 DEF Linked, Patched
  <2>4. QED
    BY <2>2, <2>3
<1>5. LiveSettled'
  <2>1. Null \notin live
    BY DEF IInv, TypeOK
  <2>2. QED
    BY <1>0, <1>1, <2>1 DEF IInv, LiveSettled, NoNullJump, PartiesOf
<1>6. QED
  BY <1>2, <1>3, <1>4, <1>5 DEF IInv

(* Patch hands MinHook the first link and has the whole chain stored again *)
(* before anybody can reach it.                                            *)
LEMMA PatchInv ==
    ASSUME IInv, TypeOK', NEW t \in Targets, Patch(t)
    PROVE  IInv'
<1>0. /\ relink = Null /\ todo' = todo \ {t} /\ links[t] # << >>
      /\ UNCHANGED <<links, live, original, installs, at, callee>>
  BY DEF Patch, IInv, WorkInRange, callVars
<1>1. LinkedOnce'
  BY <1>0 DEF IInv, LinkedOnce
<1>2. CASE UNCHANGED <<head, relink, next>>
  <2>1. HeadIsMinHooks' /\ CellsFollowLinks'
    BY <1>0, <1>2, ChainsUntouched
       DEF IInv, HeadIsMinHooks, CellsFollowLinks, Linked, Patched
  <2>2. WorkInRange'
    BY <1>0, <1>2 DEF Patch, IInv, WorkInRange, Patched
  <2>3. LiveSettled'
    BY <1>0, <1>2 DEF IInv, LiveSettled, NoNullJump, PartiesOf
  <2>4. QED
    BY <1>1, <2>1, <2>2, <2>3 DEF IInv
<1>3. CASE /\ ~Patched(t) /\ head' = [head EXCEPT ![t] = links[t][1]]
           /\ relink' = t /\ next' = 1 /\ batch' = batch
  <2>1. /\ links[t] \in Seq(Parties) /\ Len(links[t]) \in Nat \ {0}
        /\ head'[t] = links[t][1] /\ links[t][1] \in Parties
        /\ \A u \in Targets : u # t => head'[u] = head[u]
    BY <1>0, <1>3 DEF IInv, TypeOK
  <2>2. HeadIsMinHooks'
    BY <1>0, <2>1 DEF IInv, HeadIsMinHooks, Patched
  <2>3. CellsFollowLinks'
    <3>1. \A i \in DOMAIN links[t] : i >= 1
      BY <2>1
    <3>2. \A u \in Targets : \A i \in DOMAIN links[u] : Linked(u, i)
      BY <1>0 DEF IInv, CellsFollowLinks
    <3>3. QED
      BY <1>0, <1>3, <2>1, <3>1, <3>2 DEF CellsFollowLinks, Linked, Patched
  <2>4. WorkInRange'
    BY <1>0, <1>3, <2>1 DEF IInv, WorkInRange, Patched, TypeOK
  <2>5. LiveSettled'
    BY <1>0, <1>3 DEF IInv, LiveSettled, NoNullJump, PartiesOf, WorkInRange
  <2>6. QED
    BY <1>1, <2>2, <2>3, <2>4, <2>5 DEF IInv
<1>4. QED
  BY <1>2, <1>3 DEF Patch, StartRelink, HeadDetour

(* EnableHooks runs with no Relink under way, so what it makes live is a   *)
(* chain whose cells are all stored.                                       *)
LEMMA EnableHooksInv ==
    ASSUME IInv, TypeOK', EnableHooks
    PROVE  IInv'
<1>0. /\ relink = Null /\ todo = {} /\ todo' = {}
      /\ UNCHANGED <<links, head, original, relink, next, installs, at, callee>>
  BY DEF EnableHooks, callVars
<1>1. LinkedOnce' /\ HeadIsMinHooks' /\ CellsFollowLinks'
  BY <1>0, ChainsUntouched
<1>2. live \subseteq live' /\ \A t \in live' : t \in live \/ Patched(t)
  BY DEF EnableHooks
<1>3. WorkInRange'
  BY <1>0, <1>2 DEF IInv, WorkInRange, Patched
<1>4. LiveSettled'
  <2>1. relink' \notin live'
    BY <1>0 DEF TypeOK
  <2>2. QED
    BY <1>0, <1>2, <2>1 DEF IInv, LiveSettled, NoNullJump, PartiesOf
<1>5. QED
  BY <1>1, <1>3, <1>4 DEF IInv

(* A caller inside a settled chain reads a stored cell and lands on the    *)
(* next party or on the engine function.                                   *)
LEMMA RunInv ==
    ASSUME IInv, TypeOK', NEW c \in Callers, Run(c)
    PROVE  IInv'
<1>0. UNCHANGED <<links, head, live, original, installs, relink, next, todo, batch>>
  BY DEF Run, Call, CallOriginal, Suppress, Return, Leave, chainVars
<1>1. LinkedOnce' /\ HeadIsMinHooks' /\ CellsFollowLinks' /\ WorkInRange'
  BY <1>0, ChainsUntouched DEF IInv, WorkInRange, Patched
<1>2. /\ \A d \in Callers : d # c => at'[d] = at[d] /\ callee'[d] = callee[d]
      /\ at \in [Callers -> Parties \cup {Engine, Null, Idle}]
      /\ callee \in [Callers -> Targets \cup {Null}]
  BY DEF Run, Call, CallOriginal, Suppress, Return, Leave, IInv, TypeOK
<1>3. ASSUME callee'[c] \notin LiveTargets
      PROVE  /\ at'[c] # Null
             /\ at'[c] \in Parties =>
                  /\ callee'[c] \in live
                  /\ at'[c] \in PartiesOf(links[callee'[c]])
  <2> DEFINE Goal == /\ at'[c] # Null
                     /\ at'[c] \in Parties =>
                          /\ callee'[c] \in live
                          /\ at'[c] \in PartiesOf(links[callee'[c]])
  <2>1. ASSUME NEW t \in Targets, Call(c, t) PROVE Goal
    <3>1. callee'[c] = t /\ at'[c] = IF t \in live THEN head[t] ELSE Engine
      BY <1>2, <2>1 DEF Call
    <3>2. CASE t \in live
      <4>1. head[t] \in PartiesOf(links[t]) /\ head[t] # Null
        <5>1. links[t] # << >> /\ head[t] = links[t][1] /\ head[t] # Null
          BY <3>2 DEF IInv, WorkInRange, HeadIsMinHooks, Patched
        <5>2. 1 \in DOMAIN links[t]
          BY <5>1 DEF IInv, TypeOK
        <5>3. QED
          BY <5>1, <5>2 DEF PartiesOf
      <4>2. QED
        BY <3>1, <3>2, <4>1
    <3>3. CASE t \notin live
      BY <3>1, <3>3
    <3>4. QED
      BY <3>2, <3>3
  <2>2. CASE CallOriginal(c)
    <3>1. /\ at[c] \in Parties /\ at'[c] = original[at[c]]
          /\ callee'[c] = callee[c]
      BY <1>2, <2>2 DEF CallOriginal
    <3>2. PICK i \in DOMAIN links[callee[c]] : at[c] = links[callee[c]][i]
      BY <1>3, <3>1 DEF IInv, LiveSettled, PartiesOf
    <3>3. callee[c] \in live /\ callee[c] \in Targets /\ callee[c] # relink
      BY <1>3, <3>1 DEF IInv, LiveSettled, TypeOK
    <3>4. Linked(callee[c], i) /\ Patched(callee[c])
      BY <3>2, <3>3 DEF IInv, CellsFollowLinks, WorkInRange
    <3>5. links[callee[c]] \in Seq(Parties)
      BY <3>3 DEF IInv, TypeOK
    <3>6. CASE i < Len(links[callee[c]])
      <4>1. i + 1 \in DOMAIN links[callee[c]] /\ links[callee[c]][i + 1] \in Parties
        BY <3>2, <3>5, <3>6
      <4>2. at'[c] = links[callee[c]][i + 1]
        BY <3>1, <3>2, <3>4, <3>6 DEF Linked
      <4>3. QED
        BY <3>1, <3>3, <4>1, <4>2 DEF PartiesOf
    <3>7. CASE ~(i < Len(links[callee[c]]))
      BY <3>1, <3>2, <3>4, <3>7 DEF Linked
    <3>8. QED
      BY <3>6, <3>7
  <2>3. CASE Suppress(c) \/ Return(c)
    BY <1>2, <2>3 DEF Suppress, Return, Leave
  <2>4. QED
    BY <2>1, <2>2, <2>3 DEF Run
<1>4. LiveSettled'
  BY <1>0, <1>2, <1>3 DEF IInv, LiveSettled, NoNullJump, PartiesOf
<1>5. QED
  BY <1>1, <1>4 DEF IInv

-----------------------------------------------------------------------------

LEMMA InitIInv == Init => IInv
<1> SUFFICES ASSUME Init PROVE IInv
  OBVIOUS
<1>1. ASSUME NEW t \in Targets PROVE DOMAIN links[t] = {} /\ ~Patched(t)
  <2>1. links[t] = << >> /\ head[t] = Null
    BY DEF Init
  <2>2. DOMAIN << >> = {}
    OBVIOUS
  <2>3. QED
    BY <2>1, <2>2 DEF Patched
<1>2. LinkedOnce /\ HeadIsMinHooks /\ CellsFollowLinks
  BY <1>1 DEF LinkedOnce, HeadIsMinHooks, CellsFollowLinks
<1>3. WorkInRange /\ LiveSettled
  BY DEF Init, WorkInRange, LiveSettled, NoNullJump
<1>4. QED
  BY <1>2, <1>3, InitTypeOK DEF IInv

LEMMA NextIInv == IInv /\ [Next]_vars => IInv'
<1> SUFFICES ASSUME IInv, [Next]_vars PROVE IInv'
  OBVIOUS
<1>0. TypeOK'
  BY NextTypeOK DEF IInv
<1>1. ASSUME NEW p \in Parties, Install(p) PROVE IInv'
  BY <1>0, <1>1, InstallInv
<1>2. CASE RelinkStore
  BY <1>0, <1>2, RelinkStoreInv
<1>3. ASSUME NEW t \in Targets, Enable(t) PROVE IInv'
  <2>1. LinkedOnce' /\ HeadIsMinHooks' /\ CellsFollowLinks'
    BY <1>3, ChainsUntouched DEF Enable
  <2>2. WorkInRange' /\ LiveSettled'
    BY <1>3 DEF Enable, IInv, WorkInRange, Patched, LiveSettled, NoNullJump,
                PartiesOf, callVars
  <2>3. QED
    BY <1>0, <2>1, <2>2 DEF IInv
<1>4. ASSUME NEW t \in Targets, Patch(t) PROVE IInv'
  BY <1>0, <1>4, PatchInv
<1>5. CASE EnableAll
  <2>1. LinkedOnce' /\ HeadIsMinHooks' /\ CellsFollowLinks'
    BY <1>5, ChainsUntouched DEF EnableAll
  <2>2. WorkInRange' /\ LiveSettled'
    BY <1>5 DEF EnableAll, IInv, WorkInRange, Patched, LiveSettled, NoNullJump,
                PartiesOf, callVars
  <2>3. QED
    BY <1>0, <2>1, <2>2 DEF IInv
<1>6. CASE EnableHooks
  BY <1>0, <1>6, EnableHooksInv
<1>7. ASSUME NEW c \in Callers, Run(c) PROVE IInv'
  BY <1>0, <1>7, RunInv
<1>8. CASE UNCHANGED vars
  <2>1. LinkedOnce' /\ HeadIsMinHooks' /\ CellsFollowLinks'
    BY <1>8, ChainsUntouched DEF vars, chainVars
  <2>2. WorkInRange' /\ LiveSettled'
    BY <1>8 DEF vars, chainVars, callVars, IInv, WorkInRange, Patched,
                LiveSettled, NoNullJump, PartiesOf
  <2>3. QED
    BY <1>0, <2>1, <2>2 DEF IInv
<1>9. QED
  BY <1>1, <1>2, <1>3, <1>4, <1>5, <1>6, <1>7, <1>8 DEF Next, Register

(* The chains' invariant holds in every reachable state.                   *)
THEOREM ChainInvariant == Spec => []IInv
  BY InitIInv, NextIInv, PTL DEF Spec

(* Types of the chain state, the installing thread and the callers.        *)
THEOREM TypeCorrect == Spec => []TypeOK
  BY ChainInvariant, PTL DEF IInv

(* The `original` cells spell out the chain outside a Relink, and inside   *)
(* one the cells already stored do: Hook.cpp's Install, Relink and Patch.  *)
THEOREM CellsAreLinks == Spec => []CellsFollowLinks
  BY ChainInvariant, PTL DEF IInv

(* However many parties join a patched chain, MinHook's slot keeps its     *)
(* first link.                                                             *)
THEOREM HeadInSlot == Spec => []HeadIsMinHooks
  BY ChainInvariant, PTL DEF IInv

(* On an address whose parties install before it is patched no call jumps  *)
(* through a cell nothing was stored in, even while other chains are       *)
(* joined live.                                                            *)
THEOREM PhasedCallsAreSafe == Spec => []NoNullJump
<1>1. IInv => NoNullJump
  BY DEF IInv, LiveSettled
<1>2. QED
  BY <1>1, ChainInvariant, PTL

-----------------------------------------------------------------------------
(* Calls through chains that grow meanwhile.                               *)

(* Install refuses a party it has seen; Relink stores a cell of a linked   *)
(* party only, and only forward in the order of Hook.hpp.                  *)
InstalledOnce ==
    \A m, n \in DOMAIN installs : installs[m] = installs[n] => m = n
ChainsSorted ==
    \A t \in Targets : \A i, j \in DOMAIN links[t] :
        i < j => RunsBefore(links[t][i], links[t][j])
CellsForward ==
    \A p \in Parties :
        /\ original[p] # Null => p \in PartiesOf(installs)
        /\ original[p] \in Parties => RunsBefore(p, original[p])

(* In a live chain a cell that Relink has still to store either belongs to *)
(* the party that joined, and is empty, or leads past it, and past nobody  *)
(* else.                                                                   *)
Skips(t, i) ==
    /\ i + 1 \in DOMAIN links[t] /\ original[links[t][i + 1]] = Null
    /\ original[links[t][i]] = IF i + 2 <= Len(links[t]) THEN links[t][i + 2] ELSE Engine
LiveCells ==
    \A t \in live : \A i \in DOMAIN links[t] :
        \/ Linked(t, i)
        \/ relink = t /\ i >= next /\ (original[links[t][i]] = Null \/ Skips(t, i))

(* A call has behind it what it ran, in order, and before it every party   *)
(* it still owes.                                                          *)
OwedAhead(c) ==
    \A q \in due[c] \ PartiesOf(seen[c]) :
        /\ q \in PartiesOf(links[callee[c]])
        /\ q = at[c] \/ RunsBefore(at[c], q)
CallInside(c) ==
    /\ \A i, j \in DOMAIN seen[c] : i < j => RunsBefore(seen[c][i], seen[c][j])
    /\ \A q \in due[c] : original[q] # Null
    /\ at[c] = Engine => due[c] \subseteq PartiesOf(seen[c])
    /\ at[c] \in Parties =>
         /\ callee[c] \in live /\ at[c] \in PartiesOf(links[callee[c]])
         /\ \A i \in DOMAIN seen[c] : RunsBefore(seen[c][i], at[c])
         /\ OwedAhead(c)

CallInv ==
    /\ IInv /\ InstalledOnce /\ ChainsSorted /\ CellsForward /\ LiveCells
    /\ \A c \in Callers : CallInside(c)

(* RunsBefore, with the order of installation as an argument.              *)
Ordered(order, p, q) ==
    \/ Priority[p] < Priority[q]
    \/ /\ Priority[p] = Priority[q]
       /\ \E m, n \in DOMAIN order : m < n /\ order[m] = p /\ order[n] = q

(* RunsBefore is a strict order of the installed parties, which later      *)
(* installs extend.                                                        *)
LEMMA BeforeTransitive ==
    ASSUME TypeOK, InstalledOnce,
           NEW p \in Parties, NEW q \in Parties, NEW r \in Parties,
           RunsBefore(p, q), RunsBefore(q, r)
    PROVE  RunsBefore(p, r)
<1>1. ASSUME InstalledBefore(p, q), InstalledBefore(q, r) PROVE InstalledBefore(p, r)
  <2>1. PICK m, n \in DOMAIN installs : m < n /\ installs[m] = p /\ installs[n] = q
    BY <1>1 DEF InstalledBefore
  <2>2. PICK k, l \in DOMAIN installs : k < l /\ installs[k] = q /\ installs[l] = r
    BY <1>1 DEF InstalledBefore
  <2>3. n = k
    BY <2>1, <2>2 DEF InstalledOnce
  <2>4. DOMAIN installs \subseteq Int
    BY DEF TypeOK
  <2>5. m < l
    BY <2>1, <2>2, <2>3, <2>4
  <2>6. QED
    BY <2>1, <2>2, <2>5 DEF InstalledBefore
<1>2. Priority[p] \in Int /\ Priority[q] \in Int /\ Priority[r] \in Int
  OBVIOUS
<1>3. QED
  BY <1>1, <1>2 DEF RunsBefore

LEMMA BeforeAsymmetric ==
    ASSUME TypeOK, InstalledOnce, NEW p \in Parties, NEW q \in Parties,
           RunsBefore(p, q)
    PROVE  ~RunsBefore(q, p) /\ p # q
<1>1. ASSUME NEW r \in Parties PROVE ~InstalledBefore(r, r)
  <2>1. DOMAIN installs \subseteq Int
    BY DEF TypeOK
  <2>2. QED
    BY <2>1 DEF InstalledBefore, InstalledOnce
<1>2. ~RunsBefore(p, p)
  BY <1>1 DEF RunsBefore
<1>3. QED
  BY <1>2, BeforeTransitive

LEMMA BeforeGrows ==
    ASSUME TypeOK, NEW x \in Parties, installs' \in {installs, Append(installs, x)},
           NEW p \in Parties, NEW q \in Parties, RunsBefore(p, q)
    PROVE  Ordered(installs', p, q)
<1>1. /\ DOMAIN installs \subseteq DOMAIN installs'
      /\ \A i \in DOMAIN installs : installs'[i] = installs[i]
  <2>1. installs \in Seq(Parties) /\ Len(installs) \in Nat
    BY DEF TypeOK
  <2>2. CASE installs' = Append(installs, x)
    <3>1. /\ DOMAIN installs = 1 .. Len(installs)
          /\ DOMAIN installs' = 1 .. Len(installs) + 1
          /\ \A i \in 1 .. Len(installs) : installs'[i] = installs[i]
      BY <2>1, <2>2
    <3>2. QED
      BY <2>1, <3>1
  <2>3. QED
    BY <2>2
<1>2. QED
  BY <1>1 DEF RunsBefore, InstalledBefore, Ordered

(* A refused Install changes no chain; another one puts the party at the   *)
(* position the scan from the tail finds, behind everybody installed       *)
(* earlier at its priority.                                                *)
LEMMA InstallLinks ==
    ASSUME IInv, NEW p \in Parties, Install(p),
           NEW k \in 1 .. Len(links[TargetOf[p]]) + 1,
           links' = [links EXCEPT ![TargetOf[p]] = InsertLink(links[TargetOf[p]], k, p)]
    PROVE  LET t0 == TargetOf[p]
               s  == links[t0]
           IN  /\ t0 \in Targets /\ s \in Seq(Parties) /\ Len(s) \in Nat
               /\ DOMAIN s = 1 .. Len(s)
               /\ DOMAIN links'[t0] = 1 .. Len(s) + 1 /\ Len(links'[t0]) = Len(s) + 1
               /\ \A i \in 1 .. Len(s) + 1 : links'[t0][i] =
                     IF i < k THEN s[i] ELSE IF i = k THEN p ELSE s[i - 1]
               /\ \A t \in Targets : t # t0 => links'[t] = links[t]
<1> DEFINE t0 == TargetOf[p]
           s  == links[t0]
<1>1. t0 \in Targets /\ s \in Seq(Parties)
  BY DEF IInv, TypeOK
<1>2. /\ links'[t0] = InsertLink(s, k, p)
      /\ \A t \in Targets : t # t0 => links'[t] = links[t]
  BY <1>1 DEF IInv, TypeOK
<1>3. k \in 1 .. Len(s) + 1
  OBVIOUS
<1> HIDE DEF t0, s
<1>4. /\ DOMAIN InsertLink(s, k, p) = 1 .. Len(s) + 1
      /\ Len(InsertLink(s, k, p)) = Len(s) + 1
  BY <1>1, <1>3, InsertLinkFacts
<1>5. ASSUME NEW i \in 1 .. Len(s) + 1
      PROVE  InsertLink(s, k, p)[i] =
                IF i < k THEN s[i] ELSE IF i = k THEN p ELSE s[i - 1]
  BY <1>1, <1>3, <1>5, InsertLinkFacts
<1>6. Len(s) \in Nat /\ DOMAIN s = 1 .. Len(s)
  BY <1>1
<1>7. QED
  BY <1>1, <1>2, <1>4, <1>5, <1>6 DEF t0, s

LEMMA InstallSorted ==
    ASSUME IInv, InstalledOnce, ChainsSorted, NEW p \in Parties, Install(p)
    PROVE  InstalledOnce' /\ ChainsSorted'
<1> DEFINE t0 == TargetOf[p]
           s  == links[t0]
           n  == Len(installs)
<1>1. /\ installs' = Append(installs, p) /\ p \notin PartiesOf(installs)
      /\ installs \in Seq(Parties) /\ n \in Nat /\ TypeOK
  BY DEF Install, IInv, TypeOK
<1>2. /\ DOMAIN installs = 1 .. n /\ DOMAIN installs' = 1 .. n + 1
      /\ \A i \in 1 .. n : installs'[i] = installs[i] /\ installs[i] # p
      /\ installs'[n + 1] = p
  BY <1>1 DEF PartiesOf
<1>3. InstalledOnce'
  BY <1>1, <1>2 DEF InstalledOnce
<1>4. ASSUME NEW q \in Parties, NEW r \in Parties, RunsBefore(q, r)
      PROVE  Ordered(installs', q, r)
  BY <1>1, <1>4, BeforeGrows
<1>5. CASE UNCHANGED <<links, relink, next>>
  <2>1. \A t \in Targets : \A i \in DOMAIN links[t] : links[t][i] \in Parties
    BY <1>1 DEF TypeOK
  <2>2. QED
    BY <1>3, <1>4, <1>5, <2>1
       DEF ChainsSorted, RunsBefore, InstalledBefore, Ordered
<1>6. ASSUME NEW k \in 1 .. Len(s) + 1, IsPosition(s, p, k),
             links' = [links EXCEPT ![t0] = InsertLink(s, k, p)]
      PROVE  ChainsSorted'
  <2>1. /\ t0 \in Targets /\ s \in Seq(Parties) /\ Len(s) \in Nat
        /\ DOMAIN s = 1 .. Len(s)
        /\ DOMAIN links'[t0] = 1 .. Len(s) + 1
        /\ \A i \in 1 .. Len(s) + 1 : links'[t0][i] =
              IF i < k THEN s[i] ELSE IF i = k THEN p ELSE s[i - 1]
        /\ \A t \in Targets : t # t0 => links'[t] = links[t]
    BY <1>6, InstallLinks
  <2>2. ASSUME NEW i \in 1 .. Len(s)
        PROVE  s[i] \in Parties /\ \E m, l \in DOMAIN installs' :
                   m < l /\ installs'[m] = s[i] /\ installs'[l] = p
    <3>1. s[i] \in Parties /\ s[i] \in PartiesOf(installs)
      BY <2>1 DEF IInv, LinkedOnce
    <3>2. PICK m \in 1 .. n : installs[m] = s[i]
      BY <1>2, <3>1 DEF PartiesOf
    <3>3. m < n + 1 /\ n + 1 \in DOMAIN installs' /\ m \in DOMAIN installs'
      BY <1>1, <1>2
    <3>4. QED
      BY <1>2, <3>1, <3>2, <3>3
  <2>3. ASSUME NEW i \in 1 .. Len(s), i < k
        PROVE  Ordered(installs', s[i], p)
    <3>1. k - 1 \in 1 .. Len(s) /\ Priority[s[k - 1]] <= Priority[p]
      BY <1>6, <2>1, <2>3 DEF IsPosition
    <3>2. Priority[s[i]] <= Priority[s[k - 1]]
      <4>1. i = k - 1 \/ RunsBefore(s[i], s[k - 1])
        BY <2>1, <2>3, <3>1 DEF ChainsSorted
      <4>2. s[i] \in Parties /\ s[k - 1] \in Parties
        BY <2>2, <3>1
      <4>3. Priority[s[i]] \in Int /\ Priority[s[k - 1]] \in Int
        BY <4>2
      <4>4. QED
        BY <4>1, <4>3 DEF RunsBefore
    <3>3. /\ Priority[s[i]] \in Int /\ Priority[s[k - 1]] \in Int
          /\ Priority[p] \in Int
      BY <2>2, <3>1
    <3>4. Priority[s[i]] < Priority[p] \/ Priority[s[i]] = Priority[p]
      BY <3>1, <3>2, <3>3
    <3>5. QED
      BY <2>2, <3>4 DEF Ordered
  <2>4. ASSUME NEW i \in 1 .. Len(s), i >= k
        PROVE  Ordered(installs', p, s[i])
    BY <1>6, <2>1, <2>2, <2>4 DEF IsPosition, Ordered
  <2>5. ASSUME NEW i \in 1 .. Len(s), NEW j \in 1 .. Len(s), i < j
        PROVE  Ordered(installs', s[i], s[j])
    BY <1>4, <2>1, <2>2, <2>5 DEF ChainsSorted
  <2>6. ASSUME NEW i \in DOMAIN links'[t0], NEW j \in DOMAIN links'[t0], i < j
        PROVE  Ordered(installs', links'[t0][i], links'[t0][j])
    <3>0. i \in 1 .. Len(s) + 1 /\ j \in 1 .. Len(s) + 1 /\ k \in 1 .. Len(s) + 1
      BY <2>1, <2>6
    <3> HIDE DEF s, t0
    <3>1. CASE i < k /\ j < k
      BY <2>1, <2>5, <2>6, <3>0, <3>1
    <3>2. CASE i < k /\ j = k
      BY <2>1, <2>3, <2>6, <3>0, <3>2
    <3>3. CASE i < k /\ j > k
      <4>1. i \in 1 .. Len(s) /\ j - 1 \in 1 .. Len(s) /\ i < j - 1
        BY <2>1, <3>0, <3>3
      <4>2. QED
        BY <2>1, <2>5, <3>0, <3>3, <4>1
    <3>4. CASE i = k
      <4>1. j - 1 \in 1 .. Len(s) /\ j - 1 >= k /\ ~(j < k) /\ j # k
        BY <2>1, <2>6, <3>0, <3>4
      <4>2. QED
        BY <2>1, <2>4, <3>0, <3>4, <4>1
    <3>5. CASE i > k
      <4>1. /\ i - 1 \in 1 .. Len(s) /\ j - 1 \in 1 .. Len(s) /\ i - 1 < j - 1
            /\ ~(j < k) /\ j # k /\ ~(i < k) /\ i # k
        BY <2>1, <2>6, <3>0, <3>5
      <4>2. QED
        BY <2>1, <2>5, <3>0, <3>5, <4>1
    <3>6. QED
      BY <2>1, <2>6, <3>0, <3>1, <3>2, <3>3, <3>4, <3>5
  <2>7. ASSUME NEW t \in Targets, t # t0,
               NEW i \in DOMAIN links'[t], NEW j \in DOMAIN links'[t], i < j
        PROVE  Ordered(installs', links'[t][i], links'[t][j])
    <3>1. links'[t] = links[t] /\ links[t] \in Seq(Parties)
      BY <1>1, <2>1, <2>7 DEF TypeOK
    <3>2. RunsBefore(links[t][i], links[t][j])
      BY <2>7, <3>1 DEF ChainsSorted
    <3>3. QED
      BY <1>4, <2>7, <3>1, <3>2
  <2>8. QED
    BY <2>6, <2>7 DEF ChainsSorted, RunsBefore, InstalledBefore, Ordered
<1>7. QED
  BY <1>1, <1>3, <1>5, <1>6, InstallCases

(* A new party comes in front of a cell only when that cell is its own or  *)
(* its new predecessor's, and the predecessor then leads past it.          *)
LEMMA InstallCells ==
    ASSUME CallInv, NEW p \in Parties, Install(p)
    PROVE  CellsForward' /\ LiveCells'
<1> DEFINE t0 == TargetOf[p]
           s  == links[t0]
<1>1. /\ TypeOK /\ relink = Null /\ p \notin PartiesOf(installs)
      /\ installs' = Append(installs, p)
      /\ UNCHANGED <<head, live, original>>
  BY DEF Install, Quiet, CallInv, IInv
<1>2. original[p] = Null
  BY <1>1 DEF CallInv, CellsForward
<1>3. CellsForward'
  <2>1. PartiesOf(installs) \subseteq PartiesOf(installs')
    <3>1. installs \in Seq(Parties) /\ Len(installs) \in Nat
      BY <1>1 DEF TypeOK
    <3>2. /\ DOMAIN installs \subseteq DOMAIN installs'
          /\ \A i \in DOMAIN installs : installs'[i] = installs[i]
      BY <1>1, <3>1
    <3>3. QED
      BY <3>2 DEF PartiesOf
  <2>2. ASSUME NEW q \in Parties, original[q] \in Parties
        PROVE  Ordered(installs', q, original[q])
    BY <1>1, <2>2, BeforeGrows DEF CallInv, CellsForward
  <2>3. QED
    BY <1>1, <2>1, <2>2
       DEF CallInv, CellsForward, RunsBefore, InstalledBefore, Ordered
<1>4. ASSUME NEW t \in live, NEW i \in DOMAIN links[t]
      PROVE  /\ t \in Targets /\ Linked(t, i) /\ Patched(t)
             /\ i < Len(links[t]) => original[links[t][i]] = links[t][i + 1]
             /\ ~(i < Len(links[t])) => original[links[t][i]] = Engine
  BY <1>1 DEF CallInv, IInv, TypeOK, CellsFollowLinks, WorkInRange, Linked
<1>5. CASE UNCHANGED <<links, relink, next>>
  BY <1>1, <1>3, <1>4, <1>5 DEF LiveCells, Linked, Patched
<1>6. ASSUME NEW k \in 1 .. Len(s) + 1,
             links' = [links EXCEPT ![t0] = InsertLink(s, k, p)],
             relink' = t0, next' = 1
      PROVE  LiveCells'
  <2>1. /\ t0 \in Targets /\ s \in Seq(Parties) /\ Len(s) \in Nat
        /\ DOMAIN s = 1 .. Len(s)
        /\ DOMAIN links'[t0] = 1 .. Len(s) + 1 /\ Len(links'[t0]) = Len(s) + 1
        /\ \A i \in 1 .. Len(s) + 1 : links'[t0][i] =
              IF i < k THEN s[i] ELSE IF i = k THEN p ELSE s[i - 1]
        /\ \A t \in Targets : t # t0 => links'[t] = links[t]
    BY <1>6, InstallLinks DEF CallInv
  <2>2. ASSUME NEW t \in live, t # t0, NEW i \in DOMAIN links[t]
        PROVE  Linked(t, i)'
    <3>1. t \in Targets /\ links'[t] = links[t]
      BY <1>4, <2>1, <2>2
    <3>2. /\ i < Len(links[t]) => original[links[t][i]] = links[t][i + 1]
          /\ ~(i < Len(links[t])) => original[links[t][i]] = Engine
      BY <1>4, <2>2
    <3> HIDE DEF t0, s
    <3>3. QED
      BY <1>1, <3>1, <3>2 DEF Linked
  <2>3. ASSUME t0 \in live, NEW i \in 1 .. Len(s) + 1
        PROVE  \/ Linked(t0, i)'
               \/ original[links'[t0][i]] = Null
               \/ Skips(t0, i)'
    <3>1. \A j \in 1 .. Len(s) : original[s[j]] = IF j < Len(s) THEN s[j + 1] ELSE Engine
      BY <1>4, <2>1, <2>3
    <3>2. CASE i < k - 1
      <4>1. /\ i \in 1 .. Len(s) /\ i < Len(s) /\ i + 1 \in 1 .. Len(s) + 1
            /\ i < k /\ i + 1 < k /\ i < Len(s) + 1
        BY <1>6, <2>1, <2>3, <3>2
      <4>2. links'[t0][i] = s[i] /\ links'[t0][i + 1] = s[i + 1]
        BY <2>1, <4>1
      <4>3. QED
        BY <1>1, <2>1, <3>1, <4>1, <4>2 DEF Linked
    <3>3. CASE i = k - 1
      <4>1. /\ i \in 1 .. Len(s) /\ i < k /\ i + 1 = k /\ k \in 1 .. Len(s) + 1
            /\ i + 2 = k + 1
        BY <1>6, <2>1, <2>3, <3>3
      <4>2. links'[t0][i] = s[i] /\ links'[t0][i + 1] = p
        BY <2>1, <4>1
      <4>3. original[s[i]] =
               IF i + 2 <= Len(links'[t0]) THEN links'[t0][i + 2] ELSE Engine
        <5>1. CASE i < Len(s)
          <6>1. /\ k + 1 \in 1 .. Len(s) + 1 /\ ~(k + 1 < k) /\ k + 1 # k
                /\ k + 1 - 1 = i + 1
            BY <2>1, <4>1, <5>1
          <6>2. links'[t0][k + 1] = s[i + 1]
            BY <2>1, <6>1
          <6>3. QED
            BY <2>1, <3>1, <4>1, <5>1, <6>1, <6>2
        <5>2. CASE ~(i < Len(s))
          BY <2>1, <3>1, <4>1, <5>2
        <5>3. QED
          BY <5>1, <5>2
      <4>4. QED
        BY <1>1, <1>2, <2>1, <4>1, <4>2, <4>3 DEF Skips
    <3>4. CASE i = k
      BY <1>2, <2>1, <2>3, <3>4
    <3>5. CASE i > k
      <4>1. /\ i - 1 \in 1 .. Len(s) /\ ~(i < k) /\ i # k
            /\ (i - 1) + 1 = i
        BY <1>6, <2>1, <2>3, <3>5
      <4>2. links'[t0][i] = s[i - 1]
        BY <2>1, <2>3, <4>1
      <4>3. CASE i - 1 < Len(s)
        <5>1. /\ i + 1 \in 1 .. Len(s) + 1 /\ i < Len(s) + 1
              /\ ~(i + 1 < k) /\ i + 1 # k /\ (i + 1) - 1 = i
          BY <1>6, <2>1, <2>3, <3>5, <4>3
        <5>2. links'[t0][i + 1] = s[i]
          BY <2>1, <5>1
        <5>3. QED
          BY <1>1, <2>1, <3>1, <4>1, <4>2, <4>3, <5>1, <5>2 DEF Linked
      <4>4. CASE ~(i - 1 < Len(s))
        <5>1. ~(i < Len(s) + 1)
          BY <2>1, <2>3, <4>4
        <5>2. QED
          BY <1>1, <2>1, <3>1, <4>1, <4>2, <4>4, <5>1 DEF Linked
      <4>5. QED
        BY <4>3, <4>4
    <3>6. QED
      BY <1>6, <2>1, <2>3, <3>2, <3>3, <3>4, <3>5
  <2>4. QED
    <3>1. ASSUME NEW t \in live, t # t0, NEW i \in DOMAIN links'[t]
          PROVE  Linked(t, i)'
      <4>1. t \in Targets /\ links'[t] = links[t]
        BY <1>1, <2>1, <3>1 DEF TypeOK
      <4>2. QED
        BY <2>2, <3>1, <4>1
    <3>2. ASSUME t0 \in live, NEW i \in DOMAIN links'[t0]
          PROVE  /\ relink' = t0 /\ i >= next'
                 /\ \/ Linked(t0, i)'
                    \/ original[links'[t0][i]] = Null
                    \/ Skips(t0, i)'
      BY <1>6, <2>1, <2>3, <3>2
    <3> HIDE DEF t0, s
    <3>3. QED
      BY <1>1, <3>1, <3>2 DEF LiveCells
<1>7. QED
  BY <1>1, <1>3, <1>5, <1>6, InstallCases

(* A store of the Relink loop brings one more cell back to its link.       *)
LEMMA RelinkStoreCells ==
    ASSUME CallInv, RelinkStore
    PROVE  CellsForward' /\ LiveCells'
<1> DEFINE s == links[relink]
           n == Len(s)
<1>1. /\ IInv /\ ChainsSorted /\ CellsForward /\ LiveCells
      /\ relink \in Targets /\ s \in Seq(Parties) /\ n \in Nat
      /\ next \in 1 .. n /\ DOMAIN s = 1 .. n
      /\ UNCHANGED <<links, head, live, installs>>
  BY DEF RelinkStore, CallInv, IInv, TypeOK, WorkInRange
<1>2. /\ s[next] \in Parties /\ s[next] \in PartiesOf(installs)
      /\ \A q \in Parties : q # s[next] => original'[q] = original[q]
      /\ next < n => original'[s[next]] = s[next + 1]
      /\ ~(next < n) => original'[s[next]] =
                            IF Patched(relink) THEN Engine ELSE original[s[next]]
  BY <1>1 DEF RelinkStore, IInv, TypeOK, LinkedOnce
<1>3. CellsForward'
  <2>1. ASSUME NEW q \in Parties
        PROVE  /\ original'[q] # Null => q \in PartiesOf(installs)
               /\ original'[q] \in Parties => Ordered(installs, q, original'[q])
    <3>1. CASE q = s[next] /\ next < n
      <4>1. next + 1 \in DOMAIN s /\ next < next + 1
        BY <1>1, <3>1
      <4>2. RunsBefore(s[next], s[next + 1])
        BY <1>1, <4>1 DEF ChainsSorted
      <4>3. QED
        BY <1>2, <3>1, <4>2 DEF RunsBefore, InstalledBefore, Ordered
    <3>2. CASE ~(q = s[next] /\ next < n)
      <4>1. original'[q] \in {original[q], Engine} /\
            (original'[q] # original[q] => q = s[next])
        BY <1>2, <3>2
      <4>2. QED
        BY <1>1, <1>2, <4>1 DEF CellsForward, RunsBefore, InstalledBefore, Ordered
    <3>3. QED
      BY <3>1, <3>2
  <2>2. QED
    BY <1>1, <2>1 DEF CellsForward, RunsBefore, InstalledBefore, Ordered
<1>4. ASSUME NEW t \in Targets, NEW i \in DOMAIN links[t], ~(t = relink /\ i = next)
      PROVE  /\ links[t][i] \in Parties
             /\ original'[links[t][i]] = original[links[t][i]]
  <2>1. /\ links[t][i] \in Parties /\ TargetOf[links[t][i]] = t
        /\ TargetOf[s[next]] = relink
    BY <1>1 DEF IInv, TypeOK, LinkedOnce
  <2>2. links[t][i] # s[next]
    BY <1>1, <1>4, <2>1 DEF IInv, LinkedOnce
  <2>3. QED
    BY <1>2, <2>1, <2>2
<1>5. LiveCells'
  <2> SUFFICES ASSUME NEW t \in live, NEW i \in DOMAIN links[t]
               PROVE  \/ Linked(t, i)'
                      \/ /\ relink' = t /\ i >= next'
                         /\ original'[links[t][i]] = Null \/ Skips(t, i)'
    BY <1>1 DEF LiveCells
  <2>1. /\ t \in Targets /\ links[t] \in Seq(Parties) /\ DOMAIN links[t] = 1 .. Len(links[t])
        /\ Patched(t) /\ Len(links[t]) \in Nat
    BY <1>1 DEF IInv, TypeOK, WorkInRange
  <2>2. CASE t = relink /\ i = next
    BY <1>1, <1>2, <2>1, <2>2 DEF Linked, Patched
  <2>3. CASE ~(t = relink /\ i = next)
    <3>1. CASE Linked(t, i)
      BY <1>1, <1>4, <2>1, <2>3, <3>1 DEF Linked, Patched
    <3>2. CASE ~Linked(t, i)
      <4>1. relink = t /\ i >= next /\ (original[links[t][i]] = Null \/ Skips(t, i))
        BY <1>1, <3>2 DEF LiveCells
      <4>2. i >= next + 1 /\ next < n
        BY <1>1, <2>1, <2>3, <4>1
      <4>3. relink' = t /\ next' = next + 1
        BY <4>1, <4>2 DEF RelinkStore
      <4>4. CASE original[links[t][i]] = Null
        BY <1>4, <2>1, <2>3, <4>2, <4>3, <4>4
      <4>5. CASE Skips(t, i)
        <5>1. i + 1 \in DOMAIN links[t] /\ i + 1 # next
          BY <1>1, <2>1, <4>2, <4>5 DEF Skips
        <5>2. original'[links[t][i + 1]] = original[links[t][i + 1]]
          BY <1>4, <2>1, <5>1
        <5>3. original'[links[t][i]] = original[links[t][i]]
          BY <1>4, <2>1, <2>3
        <5>4. QED
          BY <1>1, <4>2, <4>3, <4>5, <5>1, <5>2, <5>3 DEF Skips
      <4>6. QED
        BY <4>1, <4>4, <4>5
    <3>3. QED
      BY <3>1, <3>2
  <2>4. QED
    BY <2>2, <2>3
<1>6. QED
  BY <1>3, <1>5

(* Nothing the installing thread does takes away what a call in flight     *)
(* needs: links and live addresses only grow, a stored cell stays stored.  *)
LEMMA CallsKept ==
    ASSUME CallInv, UNCHANGED callVars, live \subseteq live',
           \A t \in Targets : PartiesOf(links[t]) \subseteq PartiesOf(links'[t]),
           \A q \in Parties : original[q] # Null => original'[q] # Null,
           \A q, r \in Parties : RunsBefore(q, r) => Ordered(installs', q, r),
           NEW c \in Callers
    PROVE  CallInside(c)'
<1>1. /\ CallInside(c) /\ at' = at /\ callee' = callee /\ seen' = seen /\ due' = due
      /\ seen[c] \in Seq(Parties) /\ due[c] \subseteq Parties
      /\ callee[c] \in Targets \cup {Null} /\ live \subseteq Targets
  BY DEF CallInv, IInv, TypeOK, callVars
<1>2. \A i \in DOMAIN seen[c] : seen[c][i] \in Parties
  BY <1>1
<1>3. \A i, j \in DOMAIN seen[c] : i < j => Ordered(installs', seen[c][i], seen[c][j])
  BY <1>1, <1>2 DEF CallInside
<1>4. \A q \in due[c] : original'[q] # Null
  BY <1>1 DEF CallInside
<1>5. at[c] = Engine => due[c] \subseteq PartiesOf(seen[c])
  BY <1>1 DEF CallInside
<1>6. ASSUME at[c] \in Parties
      PROVE  /\ callee[c] \in live' /\ at[c] \in PartiesOf(links'[callee[c]])
             /\ \A i \in DOMAIN seen[c] : Ordered(installs', seen[c][i], at[c])
             /\ \A q \in due[c] \ PartiesOf(seen[c]) :
                   /\ q \in PartiesOf(links'[callee[c]])
                   /\ q = at[c] \/ Ordered(installs', at[c], q)
  <2>1. /\ callee[c] \in live /\ callee[c] \in Targets
        /\ at[c] \in PartiesOf(links[callee[c]])
        /\ \A i \in DOMAIN seen[c] : RunsBefore(seen[c][i], at[c])
        /\ OwedAhead(c)
    BY <1>1, <1>6 DEF CallInside
  <2>2. QED
    BY <1>1, <1>2, <1>6, <2>1 DEF OwedAhead
<1>7. QED
  BY <1>1, <1>3, <1>4, <1>5, <1>6
     DEF CallInside, OwedAhead, PartiesOf, RunsBefore, InstalledBefore, Ordered

(* A call enters at the head, which nobody of the chain runs before.       *)
LEMMA EnterCall ==
    ASSUME CallInv, NEW c \in Callers, NEW t \in Targets, Call(c, t)
    PROVE  CallInside(c)'
<1>1. /\ IInv /\ ChainsSorted /\ TypeOK
      /\ callee'[c] = t /\ seen'[c] = << >>
      /\ UNCHANGED <<links, head, live, original, installs>>
  BY DEF Call, CallInv, IInv, TypeOK, chainVars
<1>2. DOMAIN << >> = {}
  OBVIOUS
<1>3. CASE t \in live
  <2>1. /\ at'[c] = head[t] /\ due'[c] = {p \in PartiesOf(links[t]) : original[p] # Null}
    BY <1>1, <1>3 DEF Call, TypeOK
  <2>2. /\ links[t] \in Seq(Parties) /\ links[t] # << >> /\ head[t] = links[t][1]
    BY <1>1, <1>3 DEF IInv, TypeOK, WorkInRange, HeadIsMinHooks
  <2>3. /\ 1 \in DOMAIN links[t] /\ head[t] \in Parties
        /\ \A i \in DOMAIN links[t] : i = 1 \/ 1 < i
    BY <2>2
  <2>4. ASSUME NEW q \in due'[c]
        PROVE  q \in PartiesOf(links[t]) /\ (q = head[t] \/ RunsBefore(head[t], q))
    BY <1>1, <2>1, <2>2, <2>3 DEF PartiesOf, ChainsSorted
  <2>5. head[t] \in PartiesOf(links[t]) /\ head[t] # Engine
    BY <2>2, <2>3 DEF PartiesOf
  <2>6. QED
    BY <1>1, <1>2, <1>3, <2>1, <2>3, <2>4, <2>5
       DEF CallInside, OwedAhead, PartiesOf, RunsBefore, InstalledBefore
<1>4. CASE t \notin live
  <2>1. at'[c] = Engine /\ due'[c] = {}
    BY <1>1, <1>4 DEF Call, TypeOK
  <2>2. QED
    BY <1>1, <1>2, <2>1 DEF CallInside
<1>5. QED
  BY <1>3, <1>4

(* A detour's call through its cell goes to the next party, or past the    *)
(* one that is joining, or to the engine function: every owed party is     *)
(* still ahead, and none is behind.                                        *)
LEMMA FollowCell ==
    ASSUME CallInv, NEW c \in Callers, CallOriginal(c)
    PROVE  CallInside(c)'
<1> DEFINE p == at[c]
           r == original[p]
           t == callee[c]
           s == links[t]
<1>1. /\ IInv /\ ChainsSorted /\ CellsForward /\ LiveCells /\ TypeOK /\ InstalledOnce
      /\ CallInside(c) /\ p \in Parties
      /\ at'[c] = r /\ callee'[c] = t /\ due'[c] = due[c]
      /\ seen'[c] = Append(seen[c], p)
      /\ seen[c] \in Seq(Parties) /\ due[c] \subseteq Parties
      /\ UNCHANGED <<links, head, live, original, installs>>
  BY DEF CallOriginal, CallInv, IInv, TypeOK, chainVars
<1>2. /\ t \in live /\ t \in Targets /\ p \in PartiesOf(s)
      /\ \A i \in DOMAIN seen[c] : RunsBefore(seen[c][i], p)
      /\ OwedAhead(c) /\ Patched(t) /\ s \in Seq(Parties)
  BY <1>1 DEF CallInside, IInv, TypeOK, WorkInRange
<1>3. PICK i \in DOMAIN s : s[i] = p
  BY <1>2 DEF PartiesOf
<1>4. DOMAIN s = 1 .. Len(s) /\ Len(s) \in Nat /\ i \in 1 .. Len(s)
  BY <1>2, <1>3
<1>5. /\ \A j \in DOMAIN seen[c] : seen'[c][j] = seen[c][j] /\ seen[c][j] \in Parties
      /\ seen'[c][Len(seen[c]) + 1] = p
      /\ DOMAIN seen'[c] = 1 .. Len(seen[c]) + 1 /\ DOMAIN seen[c] = 1 .. Len(seen[c])
      /\ Len(seen[c]) \in Nat
  <2> DEFINE e == seen[c]
  <2>1. e \in Seq(Parties)
    BY <1>1
  <2> HIDE DEF e, p
  <2>2. /\ \A j \in DOMAIN e : Append(e, p)[j] = e[j] /\ e[j] \in Parties
        /\ Append(e, p)[Len(e) + 1] = p
        /\ DOMAIN Append(e, p) = 1 .. Len(e) + 1 /\ DOMAIN e = 1 .. Len(e)
        /\ Len(e) \in Nat
    BY <1>1, <2>1
  <2>3. QED
    BY <1>1, <2>2 DEF e
<1>6. \A j, k \in DOMAIN seen'[c] : j < k => RunsBefore(seen'[c][j], seen'[c][k])
  <2> SUFFICES ASSUME NEW j \in DOMAIN seen'[c], NEW k \in DOMAIN seen'[c], j < k
               PROVE  RunsBefore(seen'[c][j], seen'[c][k])
    OBVIOUS
  <2>1. j \in DOMAIN seen[c]
    BY <1>5
  <2>2. CASE k \in DOMAIN seen[c]
    BY <1>1, <1>5, <2>1, <2>2 DEF CallInside
  <2>3. CASE k = Len(seen[c]) + 1
    BY <1>2, <1>5, <2>1, <2>3
  <2>4. QED
    BY <1>5, <2>2, <2>3
<1>7. PartiesOf(seen'[c]) = PartiesOf(seen[c]) \cup {p}
  BY <1>5 DEF PartiesOf
<1>8. \A q \in due[c] : original[q] # Null
  BY <1>1 DEF CallInside
(* A party still owed, other than the one that runs, is behind it.         *)
<1>9. ASSUME NEW q \in due[c] \ PartiesOf(seen'[c])
      PROVE  \E j \in DOMAIN s : j > i /\ s[j] = q /\ q \in Parties
  <2>1. q \in PartiesOf(s) /\ q # p /\ RunsBefore(p, q) /\ q \in Parties
    BY <1>1, <1>2, <1>7, <1>9 DEF OwedAhead
  <2>2. PICK j \in DOMAIN s : s[j] = q
    BY <2>1 DEF PartiesOf
  <2>3. ~(j < i)
    <3>1. ~RunsBefore(q, p)
      BY <1>1, <2>1, BeforeAsymmetric
    <3>2. QED
      BY <1>1, <1>2, <1>3, <2>2, <3>1 DEF ChainsSorted
  <2>4. j # i
    BY <1>3, <2>1, <2>2
  <2>5. QED
    BY <1>4, <2>1, <2>2, <2>3, <2>4
<1>10. ASSUME r = Engine => due[c] \subseteq PartiesOf(seen'[c]),
              r \in Parties =>
                /\ r \in PartiesOf(s)
                /\ \A j \in DOMAIN seen'[c] : RunsBefore(seen'[c][j], r)
                /\ \A q \in due[c] \ PartiesOf(seen'[c]) :
                      q \in PartiesOf(s) /\ (q = r \/ RunsBefore(r, q))
       PROVE  CallInside(c)'
  <2>1. /\ at'[c] = r /\ callee'[c] = t /\ due'[c] = due[c] /\ links'[t] = s
        /\ installs' = installs /\ original' = original /\ live' = live
    BY <1>1
  <2> HIDE DEF p, r, s, t
  <2>2. QED
    BY <1>2, <1>6, <1>8, <1>10, <2>1
       DEF CallInside, OwedAhead, PartiesOf, RunsBefore, InstalledBefore
<1>11. CASE r = Null
  <2>1. r # Engine /\ r \notin Parties
    BY <1>11
  <2>2. QED
    BY <1>10, <2>1
<1>12. CASE r # Null
  <2>1. Linked(t, i) \/ Skips(t, i)
    BY <1>1, <1>2, <1>3, <1>12 DEF LiveCells
  <2>2. \/ i < Len(s) /\ r = s[i + 1]
        \/ i = Len(s) /\ r = Engine
        \/ /\ i + 1 \in DOMAIN s /\ original[s[i + 1]] = Null
           /\ r = IF i + 2 <= Len(s) THEN s[i + 2] ELSE Engine
    BY <1>2, <1>3, <1>4, <2>1 DEF Linked, Skips
  <2> HIDE DEF p, r, s, t
  <2>3. ASSUME NEW q \in due[c] \ PartiesOf(seen'[c])
        PROVE  /\ r # Engine
               /\ q \in PartiesOf(s) /\ (q = r \/ RunsBefore(r, q))
    <3>1. PICK j \in DOMAIN s : j > i /\ s[j] = q /\ q \in Parties
      BY <1>9, <2>3
    <3>2. original[s[j]] # Null
      BY <1>8, <2>3, <3>1
    <3>3. ASSUME NEW k \in DOMAIN s, r = s[k], k <= j
          PROVE  q = r \/ RunsBefore(r, q)
      <4>1. k = j \/ k < j
        BY <1>4, <3>1, <3>3
      <4>2. k < j => RunsBefore(s[k], s[j])
        BY <1>1, <1>2, <3>1, <3>3 DEF ChainsSorted, s
      <4>3. QED
        BY <3>1, <3>3, <4>1, <4>2
    <3>4. CASE i < Len(s) /\ r = s[i + 1]
      <4>1. i + 1 \in DOMAIN s /\ i + 1 <= j
        BY <1>4, <3>1, <3>4
      <4>2. s[i + 1] \in Parties
        BY <1>2, <4>1
      <4>3. QED
        BY <3>1, <3>3, <3>4, <4>1, <4>2 DEF PartiesOf
    <3>5. ~(i = Len(s))
      BY <1>4, <3>1
    <3>6. CASE /\ i + 1 \in DOMAIN s /\ original[s[i + 1]] = Null
               /\ r = IF i + 2 <= Len(s) THEN s[i + 2] ELSE Engine
      <4>1. j # i + 1
        BY <3>2, <3>6
      <4>2. i + 2 \in DOMAIN s /\ i + 2 <= j /\ r = s[i + 2]
        BY <1>4, <3>1, <3>6, <4>1
      <4>3. s[i + 2] \in Parties
        BY <1>2, <4>2
      <4>4. QED
        BY <3>1, <3>3, <4>2, <4>3 DEF PartiesOf
    <3>7. QED
      BY <2>2, <3>4, <3>5, <3>6
  <2>4. ASSUME r \in Parties
        PROVE  /\ r \in PartiesOf(s)
               /\ \A j \in DOMAIN seen'[c] : RunsBefore(seen'[c][j], r)
    <3>1. r # Engine
      BY <2>4
    <3>2. r \in PartiesOf(s)
      BY <1>4, <2>2, <3>1 DEF PartiesOf
    <3>3. RunsBefore(p, r)
      BY <1>1, <2>4 DEF CellsForward, p, r
    <3>4. ASSUME NEW j \in DOMAIN seen[c] PROVE RunsBefore(seen[c][j], r)
      <4>1. seen[c][j] \in Parties /\ RunsBefore(seen[c][j], p) /\ p \in Parties
        BY <1>1, <1>2, <1>5, <3>4
      <4>2. QED
        BY <1>1, <2>4, <3>3, <4>1, BeforeTransitive
    <3>5. QED
      BY <1>5, <3>2, <3>3, <3>4
  <2>5. QED
    BY <1>7, <1>10, <2>3, <2>4 DEF PartiesOf
<1>13. QED
  BY <1>11, <1>12

LEMMA InstallKeepsLinks ==
    ASSUME IInv, NEW p \in Parties, Install(p), NEW t \in Targets
    PROVE  PartiesOf(links[t]) \subseteq PartiesOf(links'[t])
<1> DEFINE s == links[TargetOf[p]]
<1>1. CASE links' = links
  BY <1>1
<1>2. ASSUME NEW k \in 1 .. Len(s) + 1,
             links' = [links EXCEPT ![TargetOf[p]] = InsertLink(s, k, p)]
      PROVE  PartiesOf(links[t]) \subseteq PartiesOf(links'[t])
  <2>1. /\ s \in Seq(Parties) /\ TargetOf[p] \in Targets
        /\ \A i, j \in DOMAIN s : s[i] = s[j] => i = j
        /\ p \notin PartiesOf(s)
    BY DEF IInv, TypeOK, LinkedOnce, Install, PartiesOf
  <2> HIDE DEF s
  <2>2. PartiesOf(s) \subseteq PartiesOf(InsertLink(s, k, p))
    BY <1>2, <2>1, InsertLinkMembers
  <2>3. links'[t] = IF t = TargetOf[p] THEN InsertLink(s, k, p) ELSE links[t]
    BY <1>2 DEF IInv, TypeOK
  <2>4. QED
    BY <2>2, <2>3 DEF s
<1>3. QED
  BY <1>1, <1>2, InstallCases DEF IInv

LEMMA RelinkKeepsCells ==
    ASSUME IInv, RelinkStore, NEW q \in Parties, original[q] # Null
    PROVE  original'[q] # Null
<1>1. /\ relink \in Targets /\ links[relink] \in Seq(Parties)
      /\ Len(links[relink]) \in Nat /\ next \in 1 .. Len(links[relink])
  BY DEF RelinkStore, IInv, TypeOK, WorkInRange
<1>2. next < Len(links[relink]) => links[relink][next + 1] \in Parties
  BY <1>1
<1>3. QED
  BY <1>1, <1>2 DEF RelinkStore, IInv, TypeOK

LEMMA InitCallInv == Init => CallInv
<1> SUFFICES ASSUME Init PROVE CallInv
  OBVIOUS
<1>1. DOMAIN << >> = {}
  OBVIOUS
<1>2. /\ \A t \in Targets : links[t] = << >> /\ t \notin live
      /\ installs = << >> /\ \A p \in Parties : original[p] = Null
      /\ \A c \in Callers : seen[c] = << >> /\ due[c] = {} /\ at[c] = Idle
      /\ Idle # Engine /\ Idle \notin Parties /\ live = {}
  BY DEF Init
<1>3. InstalledOnce /\ ChainsSorted /\ CellsForward /\ LiveCells
  BY <1>1, <1>2 DEF InstalledOnce, ChainsSorted, CellsForward, LiveCells
<1>4. \A c \in Callers : CallInside(c)
  BY <1>1, <1>2 DEF CallInside
<1>5. QED
  BY <1>3, <1>4, InitIInv DEF CallInv

LEMMA NextCallInv == CallInv /\ [Next]_vars => CallInv'
<1> SUFFICES ASSUME CallInv, [Next]_vars PROVE CallInv'
  OBVIOUS
<1>0. IInv /\ TypeOK /\ IInv'
  BY NextIInv DEF CallInv, IInv
<1> DEFINE Kept == /\ InstalledOnce' /\ ChainsSorted' /\ CellsForward' /\ LiveCells'
           Calls == \A c \in Callers : CallInside(c)'
(* Steps that change neither the chains nor their cells.                   *)
<1>1. ASSUME UNCHANGED <<links, original, installs>>, live \subseteq live',
             UNCHANGED callVars
      PROVE  Calls
  BY <1>1, CallsKept DEF RunsBefore, InstalledBefore, Ordered
<1>2. ASSUME UNCHANGED <<links, original, installs>>
      PROVE  InstalledOnce' /\ ChainsSorted' /\ CellsForward'
  BY <1>2 DEF CallInv, InstalledOnce, ChainsSorted, CellsForward,
              RunsBefore, InstalledBefore
<1>3. ASSUME UNCHANGED <<links, original, head, live, relink, next>> PROVE LiveCells'
  BY <1>3 DEF CallInv, LiveCells, Linked, Skips, Patched
<1>4. ASSUME NEW p \in Parties, Install(p) PROVE Kept /\ Calls
  <2>1. Kept
    BY <1>0, <1>4, InstallSorted, InstallCells DEF CallInv
  <2>2. \A q, r \in Parties : RunsBefore(q, r) => Ordered(installs', q, r)
    BY <1>0, <1>4, BeforeGrows DEF Install
  <2>3. \A t \in Targets : PartiesOf(links[t]) \subseteq PartiesOf(links'[t])
    BY <1>0, <1>4, InstallKeepsLinks
  <2>4. UNCHANGED callVars /\ live' = live /\ original' = original
    BY <1>4 DEF Install
  <2>5. QED
    BY <2>1, <2>2, <2>3, <2>4, CallsKept
<1>5. ASSUME RelinkStore PROVE Kept /\ Calls
  <2>1. CellsForward' /\ LiveCells'
    BY <1>5, RelinkStoreCells
  <2>2. UNCHANGED <<links, installs, live, callVars>>
    BY <1>5 DEF RelinkStore
  <2>3. InstalledOnce' /\ ChainsSorted'
    BY <2>2 DEF CallInv, InstalledOnce, ChainsSorted, RunsBefore, InstalledBefore
  <2>4. \A q \in Parties : original[q] # Null => original'[q] # Null
    BY <1>0, <1>5, RelinkKeepsCells
  <2>5. QED
    BY <2>1, <2>2, <2>3, <2>4, CallsKept DEF RunsBefore, InstalledBefore, Ordered
<1>6. ASSUME NEW t \in Targets, Patch(t) PROVE Kept /\ Calls
  <2>1. /\ UNCHANGED <<links, original, installs, live, callVars>>
        /\ relink = Null /\ \A u \in Targets : Patched(u) => head'[u] = head[u]
    BY <1>0, <1>6 DEF Patch, TypeOK
  <2>2. ASSUME NEW u \in live, NEW i \in DOMAIN links[u] PROVE Linked(u, i)'
    <3>1. u \in Targets /\ Linked(u, i) /\ Patched(u)
      BY <1>0, <2>1, <2>2 DEF IInv, TypeOK, CellsFollowLinks, WorkInRange
    <3>2. QED
      BY <2>1, <3>1 DEF Linked, Patched
  <2>3. LiveCells'
    BY <2>1, <2>2 DEF LiveCells
  <2>4. QED
    BY <1>1, <1>2, <2>1, <2>3
<1>7. ASSUME EnableHooks PROVE Kept /\ Calls
  <2>1. /\ UNCHANGED <<links, original, head, installs, relink, callVars>>
        /\ relink = Null /\ live \subseteq live' /\ live' \subseteq Targets
    BY <1>0, <1>7 DEF EnableHooks, IInv, TypeOK
  <2>2. ASSUME NEW u \in live', NEW i \in DOMAIN links[u] PROVE Linked(u, i)'
    <3>1. Linked(u, i)
      BY <1>0, <2>1, <2>2 DEF IInv, TypeOK, CellsFollowLinks
    <3>2. QED
      BY <2>1, <3>1 DEF Linked, Patched
  <2>3. LiveCells'
    BY <2>1, <2>2 DEF LiveCells
  <2>4. QED
    BY <1>1, <1>2, <2>1, <2>3
<1>8. ASSUME UNCHANGED <<links, original, head, live, relink, next, installs, callVars>>
      PROVE  Kept /\ Calls
  BY <1>1, <1>2, <1>3, <1>8
<1>9. ASSUME NEW c \in Callers, Run(c) PROVE Kept /\ Calls
  <2>1. UNCHANGED <<links, original, head, live, relink, next, installs>>
    BY <1>9 DEF Run, Call, CallOriginal, Suppress, Return, Leave, chainVars
  <2>2. ASSUME NEW d \in Callers, d # c PROVE CallInside(d)'
    <3>1. /\ at'[d] = at[d] /\ callee'[d] = callee[d]
          /\ seen'[d] = seen[d] /\ due'[d] = due[d]
      BY <1>0, <1>9, <2>2
         DEF Run, Call, CallOriginal, Suppress, Return, Leave, TypeOK
    <3>2. QED
      BY <2>1, <3>1 DEF CallInv, CallInside, OwedAhead, PartiesOf,
                        RunsBefore, InstalledBefore
  <2>3. CallInside(c)'
    <3>1. CASE Leave(c)
      <4>1. at'[c] = Idle /\ seen'[c] = << >> /\ due'[c] = {} /\ DOMAIN << >> = {}
        BY <1>0, <3>1 DEF Leave, TypeOK
      <4>2. QED
        BY <4>1 DEF CallInside
    <3>2. QED
      BY <1>9, <3>1, EnterCall, FollowCell DEF Run, Suppress, Return
  <2>4. QED
    BY <1>2, <1>3, <2>1, <2>2, <2>3
<1> HIDE DEF Kept, Calls
<1>10. Kept /\ Calls
  <2>1. UNCHANGED vars \/ Next
    OBVIOUS
  <2>2. CASE (\E t \in Targets : Enable(t)) \/ EnableAll
    BY <1>8, <2>2 DEF Enable, EnableAll, callVars
  <2>3. CASE UNCHANGED vars
    BY <1>8, <2>3 DEF vars, chainVars
  <2>4. QED
    BY <1>4, <1>5, <1>6, <1>7, <1>9, <2>1, <2>2, <2>3 DEF Next, Register
<1>11. QED
  BY <1>0, <1>10 DEF CallInv, Kept, Calls

(* A call runs its chain's parties in the order of Hook.hpp, none twice,   *)
(* and one that reaches the engine function has run every party that was   *)
(* linked when it entered, however many others join it meanwhile.          *)
THEOREM CallsAreComplete == Spec => []CallComplete
<1>1. CallInv => CallComplete
  BY DEF CallInv, IInv, CallInside, CallComplete
<1>2. QED
  BY <1>1, InitCallInv, NextCallInv, PTL DEF Spec

-----------------------------------------------------------------------------
(* HookDispatch, step by step.  Its variables, as the INSTANCE maps them.  *)

RestOf(c) ==
    IF at[c] \notin Parties \/ callee[c] \notin Phased THEN << >>
    ELSE SubSeq(links[callee[c]], PositionOf(links[callee[c]], at[c]), Len(links[callee[c]]))
MapOrder == [t \in Phased |-> IF t \in live THEN links[t] ELSE << >>]
MapBusy == {c \in Callers : callee[c] \in Phased}
MapRest == [c \in Callers |-> RestOf(c)]

IdleOutside == \A c \in Callers : at[c] = Idle => callee[c] = Null
DispatchInv == IInv /\ IdleOutside

LEMMA InitDispatchInv == Init => DispatchInv
  BY InitIInv DEF DispatchInv, Init, IdleOutside

LEMMA NextDispatchInv == DispatchInv /\ [Next]_vars => DispatchInv'
<1> SUFFICES ASSUME DispatchInv, [Next]_vars PROVE DispatchInv'
  OBVIOUS
<1>1. IInv /\ IInv'
  BY NextIInv DEF DispatchInv
<1>2. CASE UNCHANGED callVars
  BY <1>1, <1>2 DEF DispatchInv, IdleOutside, callVars
<1>3. ASSUME NEW c \in Callers, Run(c) PROVE IdleOutside'
  <2>1. ASSUME NEW t \in Targets, Call(c, t) PROVE IdleOutside'
    <3>1. head \in [Targets -> Parties \cup {Null}] /\ \A u \in live : head[u] # Null
      BY DEF DispatchInv, IInv, TypeOK, WorkInRange, Patched
    <3>2. at' = [at EXCEPT ![c] = IF t \in live THEN head[t] ELSE Engine] /\ callee' = [callee EXCEPT ![c] = t]
      BY <2>1 DEF Call
    <3>3. (IF t \in live THEN head[t] ELSE Engine) # Idle
      BY <3>1
    <3>4. QED
      BY <3>2, <3>3 DEF DispatchInv, IdleOutside, IInv, TypeOK
  <2>2. CASE CallOriginal(c)
    <3>1. original[at[c]] # Idle /\ at' = [at EXCEPT ![c] = original[at[c]]] /\ callee' = callee
      BY <2>2 DEF CallOriginal, DispatchInv, IInv, TypeOK
    <3>2. QED
      BY <3>1 DEF DispatchInv, IdleOutside, IInv, TypeOK
  <2>3. CASE Suppress(c) \/ Return(c)
    BY <2>3 DEF Suppress, Return, Leave, DispatchInv, IdleOutside, IInv, TypeOK
  <2>4. QED
    BY <1>3, <2>1, <2>2, <2>3 DEF Run
<1>4. UNCHANGED callVars \/ \E c \in Callers : Run(c)
  BY DEF Next, Register, Install, RelinkStore, Enable, EnableAll, Patch, EnableHooks, vars
<1>5. QED
  BY <1>1, <1>2, <1>3, <1>4 DEF DispatchInv

(* The place of a link is found again, since a party is linked once.       *)
LEMMA PositionFound ==
    ASSUME NEW s \in Seq(Parties), \A i, j \in DOMAIN s : s[i] = s[j] => i = j,
           NEW i \in 1 .. Len(s)
    PROVE  PositionOf(s, s[i]) = i
<1>1. i \in DOMAIN s /\ PositionOf(s, s[i]) = CHOOSE k \in DOMAIN s : s[k] = s[i]
  BY DEF PositionOf
<1>2. \E k \in DOMAIN s : s[k] = s[i]
  BY <1>1
<1>3. PositionOf(s, s[i]) \in DOMAIN s /\ s[PositionOf(s, s[i])] = s[i]
  BY <1>1, <1>2
<1>4. QED
  BY <1>1, <1>3

(* What a call on a phased address finds: a live chain that nobody works   *)
(* on, whose cells lead from each link to the next.                        *)
LEMMA PhasedChain ==
    ASSUME IInv, NEW t \in Phased, t \in live
    PROVE  /\ links[t] \in Seq(Parties) /\ links[t] # << >> /\ head[t] = links[t][1]
           /\ \A i, j \in DOMAIN links[t] : links[t][i] = links[t][j] => i = j
           /\ \A i \in 1 .. Len(links[t]) :
                 original[links[t][i]] = IF i < Len(links[t]) THEN links[t][i + 1] ELSE Engine
<1>1. t \in Targets /\ t \notin LiveTargets /\ Patched(t) /\ relink # t
  BY DEF Phased, IInv, WorkInRange, LiveSettled
<1>2. links[t] \in Seq(Parties)
  BY <1>1 DEF IInv, TypeOK
<1>3. \A i \in DOMAIN links[t] : Linked(t, i)
  BY <1>1 DEF IInv, CellsFollowLinks
<1>4. QED
  BY <1>1, <1>2, <1>3 DEF IInv, HeadIsMinHooks, LinkedOnce, Linked

LEMMA MapStutters ==
    ASSUME UNCHANGED <<MapOrder, MapBusy, MapRest>>
    PROVE  [Dispatch!Next]_Dispatch!vars
  BY DEF MapOrder, MapBusy, MapRest, RestOf, Dispatch!vars

(* The calls see nothing of what the installing thread does.               *)
LEMMA RegisterKeepsCalls ==
    ASSUME IInv, UNCHANGED callVars,
           \A t \in live : t \in Phased => links'[t] = links[t]
    PROVE  UNCHANGED <<MapBusy, MapRest>>
<1>1. UNCHANGED <<at, callee>>
  BY DEF callVars
<1>2. ASSUME NEW c \in Callers PROVE RestOf(c)' = RestOf(c)
  <2>1. CASE at[c] \notin Parties \/ callee[c] \notin Phased
    BY <1>1, <2>1 DEF RestOf
  <2>2. CASE at[c] \in Parties /\ callee[c] \in Phased
    <3>1. callee[c] \in live
      BY <2>2 DEF IInv, LiveSettled, Phased
    <3>2. QED
      BY <1>1, <2>2, <3>1 DEF RestOf
  <2>3. QED
    BY <2>1, <2>2
<1>3. QED
  BY <1>1, <1>2 DEF MapBusy, MapRest

LEMMA InitImplements == Init => Dispatch!Init
<1> SUFFICES ASSUME Init PROVE Dispatch!Init
  OBVIOUS
<1>1. MapOrder = [t \in Phased |-> << >>]
  BY DEF Init, MapOrder
<1>2. MapBusy = {}
  BY DEF Init, MapBusy, Phased
<1>3. MapRest = [c \in Callers |-> << >>]
  BY DEF Init, MapRest, RestOf
<1>4. QED
  BY <1>1, <1>2, <1>3 DEF MapOrder, MapBusy, MapRest, RestOf, Dispatch!Init

LEMMA StepImplements == DispatchInv /\ [Next]_vars => [Dispatch!Next]_Dispatch!vars
<1> SUFFICES ASSUME DispatchInv, [Next]_vars PROVE [Dispatch!Next]_Dispatch!vars
  OBVIOUS
<1>0. IInv /\ TypeOK /\ Phased \subseteq Targets /\ Null \notin Phased
  BY DEF DispatchInv, IInv, Phased
<1>1. ASSUME NEW p \in Parties, Install(p) PROVE [Dispatch!Next]_Dispatch!vars
  <2>1. TargetOf[p] \in live => TargetOf[p] \notin Phased
    BY <1>0, <1>1 DEF Install, IInv, WorkInRange, Phased
  <2>2. \A t \in Targets : t # TargetOf[p] => links'[t] = links[t]
    BY <1>0, <1>1, InstallCases DEF TypeOK
  <2>3. UNCHANGED <<live, callVars>>
    BY <1>1 DEF Install
  <2>4. \A t \in live : t \in Phased => links'[t] = links[t]
    BY <1>0, <2>1, <2>2
  <2>5. UNCHANGED MapOrder
    BY <2>3, <2>4 DEF MapOrder
  <2>6. QED
    BY <1>0, <2>3, <2>4, <2>5, RegisterKeepsCalls, MapStutters
<1>2. CASE UNCHANGED <<links, live, callVars>>
  <2>1. UNCHANGED MapOrder
    BY <1>2 DEF MapOrder
  <2>2. QED
    BY <1>0, <1>2, <2>1, RegisterKeepsCalls, MapStutters
<1>3. CASE EnableHooks
  <2>1. UNCHANGED <<links, callVars>> /\ live \subseteq live' /\ live' \subseteq Targets
    BY <1>0, <1>3 DEF EnableHooks, TypeOK
  <2>2. UNCHANGED <<MapBusy, MapRest>>
    BY <1>0, <2>1, RegisterKeepsCalls
  <2>3. MapOrder' \in [Phased -> Seq(Parties)]
    <3>1. \A t \in Phased : (IF t \in live' THEN links[t] ELSE << >>) \in Seq(Parties)
      BY <1>0 DEF TypeOK
    <3>2. MapOrder' = [t \in Phased |-> IF t \in live' THEN links[t] ELSE << >>]
      BY <2>1 DEF MapOrder
    <3>3. QED
      BY <3>1, <3>2
  <2>4. ASSUME NEW t \in Phased
        PROVE  /\ MapOrder[t] # << >> => MapOrder'[t] = MapOrder[t]
               /\ Dispatch!Distinct(MapOrder'[t])
    <3>1. MapOrder'[t] = IF t \in live' THEN links[t] ELSE << >>
      BY <2>1 DEF MapOrder
    <3>2. MapOrder[t] = IF t \in live THEN links[t] ELSE << >>
      BY DEF MapOrder
    <3>3. Dispatch!Distinct(links[t]) /\ Dispatch!Distinct(<< >>)
      BY <1>0 DEF IInv, LinkedOnce, Dispatch!Distinct
    <3>4. QED
      BY <2>1, <3>1, <3>2, <3>3
  <2>5. Dispatch!Arm
    BY <2>2, <2>3, <2>4 DEF Dispatch!Arm, MapOrder, MapBusy, MapRest, RestOf
  <2>6. QED
    BY <2>5 DEF Dispatch!Next
<1>4. ASSUME NEW c \in Callers, NEW t \in Targets, Call(c, t)
      PROVE  [Dispatch!Next]_Dispatch!vars
  <2>1. /\ at[c] = Idle /\ callee[c] = Null /\ UNCHANGED <<links, live>>
        /\ callee' = [callee EXCEPT ![c] = t]
        /\ at' = [at EXCEPT ![c] = IF t \in live THEN head[t] ELSE Engine]
    BY <1>0, <1>4 DEF Call, DispatchInv, IdleOutside, chainVars
  <2>2. UNCHANGED MapOrder
    BY <2>1 DEF MapOrder
  <2>3. \A d \in Callers : d # c => RestOf(d)' = RestOf(d)
    BY <1>0, <2>1 DEF RestOf, TypeOK
  <2>4. RestOf(c) = << >> /\ c \notin MapBusy
    BY <1>0, <2>1 DEF RestOf, MapBusy
  <2>5. callee'[c] = t /\ at'[c] = IF t \in live THEN head[t] ELSE Engine
    BY <1>0, <2>1 DEF TypeOK
  <2>6. CASE t \notin Phased
    <3>1. RestOf(c)' = << >>
      BY <2>5, <2>6 DEF RestOf
    <3>2. UNCHANGED MapBusy
      BY <1>0, <2>1, <2>4, <2>6 DEF MapBusy, TypeOK
    <3>3. UNCHANGED MapRest
      BY <2>3, <2>4, <3>1 DEF MapRest
    <3>4. QED
      BY <2>2, <3>2, <3>3, MapStutters
  <2>7. CASE t \in Phased
    <3>1. MapBusy' = MapBusy \cup {c}
      BY <1>0, <2>1, <2>7 DEF MapBusy, TypeOK
    <3>2. RestOf(c)' = MapOrder[t]
      <4>1. CASE t \in live
        <5>1. /\ links[t] \in Seq(Parties) /\ links[t] # << >> /\ head[t] = links[t][1]
              /\ PositionOf(links[t], links[t][1]) = 1
          BY <1>0, <2>7, <4>1, PhasedChain, PositionFound
        <5>2. SubSeq(links[t], 1, Len(links[t])) = links[t]
          BY <5>1, SubSeqFull
        <5>3. at'[c] = links[t][1] /\ at'[c] \in Parties
          BY <2>5, <4>1, <5>1
        <5>4. RestOf(c)' = SubSeq(links'[callee'[c]], PositionOf(links'[callee'[c]], at'[c]), Len(links'[callee'[c]]))
          BY <2>5, <2>7, <5>3 DEF RestOf
        <5>5. RestOf(c)' = links[t]
          BY <2>1, <2>5, <5>1, <5>2, <5>3, <5>4
        <5>6. QED
          BY <2>7, <4>1, <5>5 DEF MapOrder
      <4>2. CASE t \notin live
        BY <2>5, <2>7, <4>2 DEF RestOf, MapOrder
      <4>3. QED
        BY <4>1, <4>2
    <3>3. MapRest' = [MapRest EXCEPT ![c] = MapOrder[t]]
      BY <2>3, <3>2 DEF MapRest
    <3>4. Dispatch!Enter(c, t)
      BY <2>2, <2>4, <3>1, <3>3 DEF Dispatch!Enter, MapOrder, MapBusy, MapRest, RestOf
    <3>5. QED
      BY <2>7, <3>4 DEF Dispatch!Next
  <2>8. QED
    BY <2>6, <2>7
<1>5. ASSUME NEW c \in Callers, CallOriginal(c)
      PROVE  [Dispatch!Next]_Dispatch!vars
  <2>1. /\ at[c] \in Parties /\ UNCHANGED <<links, live, callee>>
        /\ at' = [at EXCEPT ![c] = original[at[c]]]
    BY <1>5 DEF CallOriginal, chainVars
  <2>2. UNCHANGED <<MapOrder, MapBusy>>
    BY <2>1 DEF MapOrder, MapBusy
  <2>3. \A d \in Callers : d # c => RestOf(d)' = RestOf(d)
    BY <1>0, <2>1 DEF RestOf, TypeOK
  <2>4. at'[c] = original[at[c]]
    BY <1>0, <2>1 DEF TypeOK
  <2>5. CASE callee[c] \notin Phased
    <3>1. RestOf(c)' = RestOf(c)
      BY <2>1, <2>5 DEF RestOf
    <3>2. UNCHANGED MapRest
      BY <2>3, <3>1 DEF MapRest
    <3>3. QED
      BY <2>2, <3>2, MapStutters
  <2>6. CASE callee[c] \in Phased
    <3> DEFINE t == callee[c]
               s == links[t]
    <3>1. t \in live /\ at[c] \in PartiesOf(s)
      BY <1>0, <2>1, <2>6 DEF IInv, LiveSettled, Phased
    <3>2. /\ s \in Seq(Parties)
          /\ \A i, j \in DOMAIN s : s[i] = s[j] => i = j
          /\ \A i \in 1 .. Len(s) : original[s[i]] = IF i < Len(s) THEN s[i + 1] ELSE Engine
      BY <1>0, <2>6, <3>1, PhasedChain
    <3>3. PICK i \in 1 .. Len(s) : at[c] = s[i]
      <4> HIDE DEF s
      <4>1. DOMAIN s = 1 .. Len(s)
        BY <3>2
      <4>2. QED
        BY <3>1, <4>1 DEF PartiesOf
    <3>4. RestOf(c) = SubSeq(s, i, Len(s))
      BY <2>1, <2>6, <3>2, <3>3, PositionFound DEF RestOf
    <3>5. RestOf(c)' = SubSeq(s, i + 1, Len(s))
      <4>1. CASE i < Len(s)
        <5>1. at'[c] = s[i + 1] /\ i + 1 \in 1 .. Len(s) /\ at'[c] \in Parties
          BY <2>4, <3>2, <3>3, <4>1
        <5>2. PositionOf(s, s[i + 1]) = i + 1
          BY <3>2, <5>1, PositionFound
        <5>3. RestOf(c)' = SubSeq(links'[callee'[c]], PositionOf(links'[callee'[c]], at'[c]), Len(links'[callee'[c]]))
          BY <2>1, <2>6, <5>1 DEF RestOf
        <5>4. QED
          BY <2>1, <5>1, <5>2, <5>3
      <4>2. CASE i = Len(s)
        <5>1. at'[c] = Engine
          BY <2>4, <3>2, <3>3, <4>2
        <5>2. SubSeq(s, i + 1, Len(s)) = << >>
          BY <3>2, <4>2, SubSeqEmpty
        <5>3. QED
          BY <5>1, <5>2 DEF RestOf
      <4>3. QED
        BY <3>2, <4>1, <4>2
    <3>6. RestOf(c)' = Tail(RestOf(c)) /\ RestOf(c) # << >>
      <4> HIDE DEF s
      <4>1. i \in 1 .. Len(s) /\ Len(s) \in i .. Len(s) /\ Len(s) \in Nat
        BY <3>2, <3>3
      <4>2. Tail(SubSeq(s, i, Len(s))) = SubSeq(s, i + 1, Len(s))
        BY <3>2, <4>1, HeadTailOfSubSeq
      <4>3. Len(SubSeq(s, i, Len(s))) = Len(s) - i + 1
        BY <3>2, <4>1, SubSeqProperties
      <4>4. SubSeq(s, i, Len(s)) # << >>
        <5>1. Len(SubSeq(s, i, Len(s))) # 0 /\ Len(<< >>) = 0
          BY <4>1, <4>3
        <5>2. QED
          BY <5>1
      <4>5. QED
        BY <3>4, <3>5, <4>2, <4>4
    <3>7. MapRest' = [MapRest EXCEPT ![c] = Tail(@)] /\ MapRest[c] # << >>
      BY <2>3, <3>6 DEF MapRest
    <3>8. Dispatch!RunParty(c)
      BY <2>2, <3>7 DEF Dispatch!RunParty, MapOrder, MapBusy, MapRest, RestOf
    <3>9. QED
      BY <3>8 DEF Dispatch!Next
  <2>7. QED
    BY <2>5, <2>6
<1>6. ASSUME NEW c \in Callers, Leave(c)
      PROVE  [Dispatch!Next]_Dispatch!vars
  <2>1. /\ UNCHANGED <<links, live>> /\ at' = [at EXCEPT ![c] = Idle] /\ callee' = [callee EXCEPT ![c] = Null]
        /\ at'[c] = Idle /\ callee'[c] = Null
    BY <1>0, <1>6 DEF Leave, chainVars, TypeOK
  <2>2. UNCHANGED MapOrder
    BY <2>1 DEF MapOrder
  <2>3. \A d \in Callers : d # c => RestOf(d)' = RestOf(d)
    BY <1>0, <2>1 DEF RestOf, TypeOK
  <2>4. RestOf(c)' = << >>
    BY <1>0, <2>1 DEF RestOf
  <2>5. MapRest' = [MapRest EXCEPT ![c] = << >>] /\ MapBusy' = MapBusy \ {c}
    BY <1>0, <2>1, <2>3, <2>4 DEF MapRest, MapBusy, TypeOK
  <2>6. CASE callee[c] \in Phased
    <3>1. Dispatch!Exit(c)
      BY <2>2, <2>5, <2>6 DEF Dispatch!Exit, MapOrder, MapBusy, MapRest, RestOf
    <3>2. QED
      BY <3>1 DEF Dispatch!Next
  <2>7. CASE callee[c] \notin Phased
    <3>1. RestOf(c) = << >> /\ c \notin MapBusy
      BY <2>7 DEF RestOf, MapBusy
    <3>2. UNCHANGED <<MapRest, MapBusy>>
      BY <2>5, <3>1 DEF MapRest
    <3>3. QED
      BY <2>2, <3>2, MapStutters
  <2>8. QED
    BY <2>6, <2>7
<1>7. QED
  <2>1. CASE RelinkStore \/ EnableAll \/ \E t \in Targets : Enable(t) \/ Patch(t)
    BY <1>2, <2>1 DEF RelinkStore, EnableAll, Enable, Patch
  <2>2. CASE UNCHANGED vars
    BY <1>2, <2>2 DEF vars, chainVars
  <2>3. QED
    BY <1>1, <1>3, <1>4, <1>5, <1>6, <2>1, <2>2 DEF Next, Register, Run, Suppress, Return

(* On every address whose parties install before it is patched, the engine *)
(* does what HookDispatch says, whatever happens on the others: its chains,*)
(* cells and trampolines implement an ordered list run once per call.      *)
THEOREM ImplementsDispatch == Spec => DispatchSpec
  BY InitDispatchInv, NextDispatchInv, InitImplements, StepImplements, PTL
     DEF Spec, DispatchSpec, Dispatch!Spec
=============================================================================
