-------------------------- MODULE QuestTrackerProofs --------------------------
(***************************************************************************)
(* Proofs about QuestTracker for every set of quests, maps and places and  *)
(* every queue limit: what is rendered is the selected quest's cached      *)
(* marker, whichever of the packet, timer, click, zone, settings and       *)
(* transfer handlers wrote last; and the cache is of the player's log and  *)
(* map once nothing is under way to it.                                    *)
(***************************************************************************)
EXTENDS QuestTracker, FiniteSetTheorems, SequenceTheorems, WellFoundedInduction, TLAPS

(* The addon's two tables have an entry per quest, and what can become the *)
(* selection is a quest.                                                   *)
Tables ==
    /\ cache = [q \in Quests |-> cache[q]]
    /\ native = [q \in Quests |-> native[q]]
    /\ log \subseteq Quests
    /\ {selected, picked} \subseteq Quests \cup {None}

IInv == Tables /\ MarkerMirrorsCache

(* None is no quest, so an empty cache has nothing to mirror.              *)
LEMMA NothingIsNone ==
    /\ Nothing = [q \in Quests |-> Nothing[q]]
    /\ \A q \in Quests : Nothing[q] = None
BY DEF Nothing

(* applySelectedMarker restores the mirror from any cache and selection:   *)
(* it erases the one marker that can be there before it renders the other. *)
LEMMA ApplyKeepsMirror ==
    ASSUME Tables, MarkerMirrorsCache,
           NEW c, c = [q \in Quests |-> c[q]],
           NEW s \in Quests \cup {None}, NEW on, on = enabled',
           NEW kill, ApplySelectedMarker(c, s, on, kill)
    PROVE  /\ cache' = [q \in Quests |-> cache'[q]]
           /\ native' = [q \in Quests |-> native'[q]]
           /\ selected' \in Quests \cup {None}
           /\ MarkerMirrorsCache'
<1>1. cache' = c /\ selected' = s
  BY DEF ApplySelectedMarker
<1>2. CASE on /\ s # None /\ c[s] # None
  <2>1. native' = Render(s, c[s]) /\ current' = s
    BY <1>2 DEF ApplySelectedMarker
  <2>2. s \in Quests
    BY <1>2
  <2>3. native' = [q \in Quests |-> native'[q]]
    BY <2>1 DEF Render, Tables
  <2>4. native'[s] = c[s]
    BY <2>1, <2>2 DEF Render, Tables
  <2>5. ASSUME NEW q \in Quests, q # s
        PROVE  native'[q] = None
    BY <2>1, <2>2, <2>5, TrackerAssumption DEF Render, Tables, MarkerMirrorsCache
  <2>6. QED
    BY <1>1, <1>2, <2>1, <2>3, <2>4, <2>5 DEF MarkerMirrorsCache
<1>3. CASE ~(on /\ s # None /\ c[s] # None)
  <2>1. native' = Nothing
    BY <1>3 DEF ApplySelectedMarker
  <2>2. QED
    BY <1>1, <2>1, NothingIsNone DEF MarkerMirrorsCache
<1>4. QED
  BY <1>2, <1>3

(* Draining the queue leaves an entry per quest.                           *)
LEMMA DrainedIsTable ==
    ASSUME NEW c, NEW q
    PROVE  Drained(c, q) = [x \in Quests |-> Drained(c, q)[x]]
BY DEF Drained, Popped

(* Without a step of the addon the mirror stays as it is.                  *)
LEMMA Untouched ==
    ASSUME IInv, UNCHANGED <<addon, enabled>>, log' \subseteq Quests,
           picked' \in Quests \cup {None}
    PROVE  IInv'
BY DEF IInv, Tables, MarkerMirrorsCache, addon

(* A step that drains the queue keeps the invariant.                       *)
LEMMA PullKeeps ==
    ASSUME IInv, NEW q, PullNativePackets(q), enabled' = enabled,
           UNCHANGED <<log, picked>>
    PROVE  IInv'
<1>1. ApplySelectedMarker(Drained(cache, q), selected, enabled, FALSE)
  BY DEF PullNativePackets
<1>2. Drained(cache, q) = [x \in Quests |-> Drained(cache, q)[x]]
  BY DrainedIsTable
<1>3. selected \in Quests \cup {None}
  BY DEF IInv, Tables
<1>4. /\ cache' = [x \in Quests |-> cache'[x]] /\ native' = [x \in Quests |-> native'[x]]
      /\ selected' \in Quests \cup {None} /\ MarkerMirrorsCache'
  BY <1>1, <1>2, <1>3, ApplyKeepsMirror DEF IInv
<1>5. QED
  BY <1>4 DEF IInv, Tables

(* The invariant holds at the login screen.                                *)
LEMMA MirrorInit == Init => IInv
BY NothingIsNone DEF Init, IInv, Tables, MarkerMirrorsCache

(* Every step of the server, the addon and the native side keeps it.       *)
LEMMA MirrorStep == IInv /\ [Next]_vars => IInv'
<1> SUFFICES ASSUME IInv, [Next]_vars PROVE IInv'
  OBVIOUS
<1>1. CASE HandleRequest
  BY <1>1, Untouched DEF HandleRequest, CanSend, IInv, Tables, registers
<1>2. CASE LeaveQuest
  BY <1>2, Untouched DEF LeaveQuest, CanSend, PlayerEvent, IInv, Tables, registers
<1>3. CASE AcceptQuest
  BY <1>3, Untouched DEF AcceptQuest, PlayerEvent, IInv, Tables, registers
<1>4. CASE Transfer
  BY <1>4, Untouched DEF Transfer, ClearSession, PlayerEvent, IInv, Tables, registers
<1>5. CASE Poll
  BY <1>5, PullKeeps DEF Poll, server, registers
<1>6. CASE PollSelection
  <2>1. PICK s \in Quests : SelectQuest(s)
    BY <1>6, TrackerAssumption DEF PollSelection, IInv, Tables
  <2>2. enabled' = enabled /\ UNCHANGED <<log, picked>>
    BY <1>6 DEF PollSelection, server
  <2>3. cache = [q \in Quests |-> cache[q]] /\ Tables /\ MarkerMirrorsCache
    BY DEF IInv, Tables
  <2>4. ApplySelectedMarker(cache, s, enabled, s # selected)
    BY <2>1 DEF SelectQuest
  <2>5. /\ cache' = [x \in Quests |-> cache'[x]] /\ native' = [x \in Quests |-> native'[x]]
        /\ selected' \in Quests \cup {None} /\ MarkerMirrorsCache'
    BY <2>2, <2>3, <2>4, ApplyKeepsMirror
  <2>6. QED
    BY <2>2, <2>5 DEF IInv, Tables
<1>7. CASE Click
  <2>1. picked' \in Quests /\ UNCHANGED <<addon, log, enabled>>
    BY <1>7 DEF Click, Occurs, server, IInv, Tables
  <2>2. QED
    BY <2>1, Untouched DEF IInv, Tables
<1>8. CASE SnapshotTimer
  BY <1>8 DEF SnapshotTimer, IInv, Tables, MarkerMirrorsCache, server, registers
<1>9. CASE SelectedTimer
  BY <1>9 DEF SelectedTimer, IInv, Tables, MarkerMirrorsCache, server, registers
<1>10. CASE CoolDown
  BY <1>10 DEF CoolDown, IInv, Tables, MarkerMirrorsCache, server, registers
<1>11. CASE ZoneChanged
  BY <1>11, NothingIsNone DEF ZoneChanged, IInv, Tables, MarkerMirrorsCache, server, registers
<1>12. CASE Settings
  <2>1. ApplySelectedMarker(cache, selected, enabled', FALSE) /\ UNCHANGED <<log, picked>>
    BY <1>12 DEF Settings, server, registers
  <2>2. /\ cache = [q \in Quests |-> cache[q]] /\ Tables /\ MarkerMirrorsCache
        /\ selected \in Quests \cup {None}
    BY DEF IInv, Tables
  <2>3. /\ cache' = [x \in Quests |-> cache'[x]] /\ native' = [x \in Quests |-> native'[x]]
        /\ selected' \in Quests \cup {None} /\ MarkerMirrorsCache'
    BY <2>1, <2>2, ApplyKeepsMirror
  <2>4. QED
    BY <2>1, <2>3 DEF IInv, Tables
<1>13. CASE OnMarkerPacket
  <2>1. CASE loaded
    BY <1>13, <2>1, PullKeeps DEF OnMarkerPacket, Notify, server, registers
  <2>2. CASE ~loaded
    BY <1>13, <2>2, Untouched DEF OnMarkerPacket, Notify, server, registers, IInv, Tables
  <2>3. QED
    BY <2>1, <2>2
<1>14. CASE OnKillEntriesPacket
  <2>1. CASE loaded
    BY <1>14, <2>1, PullKeeps DEF OnKillEntriesPacket, Notify, server, registers
  <2>2. CASE ~loaded
    BY <1>14, <2>2, Untouched DEF OnKillEntriesPacket, Notify, server, registers, IInv, Tables
  <2>3. QED
    BY <2>1, <2>2
<1>15. CASE LeaveWorld
  BY <1>15, NothingIsNone DEF LeaveWorld, IInv, Tables, MarkerMirrorsCache, server, registers
<1>16. CASE EnterWorld
  BY <1>16, NothingIsNone DEF EnterWorld, IInv, Tables, MarkerMirrorsCache, server, registers
<1>17. CASE LoadAddOn
  BY <1>17, PullKeeps DEF LoadAddOn, RunAddOn, server, registers
<1>18. CASE UNCHANGED vars
  BY <1>18, Untouched DEF vars, server, registers, IInv, Tables
<1>19. QED
  BY <1>1, <1>2, <1>3, <1>4, <1>5, <1>6, <1>7, <1>8, <1>9, <1>10, <1>11, <1>12, <1>13,
     <1>14, <1>15, <1>16, <1>17, <1>18 DEF Next, Deliver

(* At most the selected quest is rendered, and where the cache has it.     *)
THEOREM MirrorAlways == Spec => []MarkerMirrorsCache
<1>1. IInv => MarkerMirrorsCache
  BY DEF IInv
<1>2. QED
  BY <1>1, MirrorInit, MirrorStep, PTL DEF Spec

-----------------------------------------------------------------------------
(* What is under way.  The server is with the player on a map, or a        *)
(* transfer is under way to the client, or its arrival to the server: of   *)
(* the three there is always one.  On a map, what the client will have of  *)
(* each quest, once it has read what is under way, is what the server has  *)
(* noted to have sent; that is how it knows what to take back.             *)

Requests == [kind : {"arrived"}, quest : {None}, map : Maps] \cup
            [kind : {"snapshot", "exact", "kill"}, quest : Quests \cup {None}, map : {None}]

Entries(s) == {s[i] : i \in DOMAIN s}
NoArrival(asks) == \A r \in Entries(asks) : r.kind # "arrived"
OneArrival(asks) ==
    \E i \in DOMAIN asks : asks[i].kind = "arrived" /\ \A j \in DOMAIN asks : asks[j].kind = "arrived" => j = i
NoTransfer(says) == \A u \in Entries(says) : u.kind # "transfer"
EndsInTransfer(says) ==
    \E i \in DOMAIN says :
        /\ i = Len(says) /\ says[i].kind = "transfer" /\ says[i].map \in Maps
        /\ \A j \in DOMAIN says : says[j].kind = "transfer" => j = i

(* The last that is said of a quest, or else what the client has of it.    *)
Says(u, q) == u.kind = "marker" /\ u.quest = q
Fresh(says, base, m, has) ==
    \A q \in Quests :
        /\ \A i \in DOMAIN says : Says(says[i], q) =>
              \/ says[i].map = None \/ (says[i].map = m /\ q \in has)
              \/ \E j \in DOMAIN says : j > i /\ Says(says[j], q)
        /\ \/ base[q] = None \/ (base[q] = m /\ q \in has)
           \/ \E j \in DOMAIN says : Says(says[j], q)

(* What the addon has is emptied when the world is entered.                *)
Base == IF world = "in" THEN cache ELSE Nothing

UnderWayOf(w, asks, says, base, has) ==
    \/ w # None /\ NoArrival(asks) /\ NoTransfer(says) /\ Fresh(says, base, w, has)
    \/ w = None /\ NoArrival(asks) /\ EndsInTransfer(says)
    \/ w = None /\ OneArrival(asks) /\ says = << >> /\ base = Nothing
UnderWay == UnderWayOf(where, requests, updates, Base, sent)

SettleInv ==
    /\ TypeOK /\ requests \in Seq(Requests)
    /\ world \in {"in", "loading"} /\ (world = "in" => loaded) /\ (loaded => queue = << >>)
    /\ sent \subseteq log
    /\ UnderWay

(* Both ends of a concatenation, and where in it their entries are.        *)
Ends(all, s, t, n, k) ==
    /\ DOMAIN all = 1 .. n + k
    /\ \A i \in 1 .. n : all[i] = s[i]
    /\ \A i \in 1 .. k : all[n + i] = t[i]
    /\ \A i \in 1 .. n + k : i \in 1 .. n \/ \E h \in 1 .. k : i = n + h

LEMMA EndsOf ==
    ASSUME NEW S, NEW s \in Seq(S), NEW t \in Seq(S), NEW n \in Nat, NEW k \in Nat, n = Len(s), k = Len(t)
    PROVE  s \o t \in Seq(S) /\ Ends(s \o t, s, t, n, k)
<1> DEFINE all == s \o t
<1>1. /\ all \in Seq(S) /\ Len(all) = n + k
      /\ \A i \in 1 .. n + k : all[i] = IF i <= n THEN s[i] ELSE t[i - n]
  BY ConcatProperties
<1> HIDE DEF all
<1>2. \A i \in 1 .. n : all[i] = s[i]
  BY <1>1
<1>3. ASSUME NEW i \in 1 .. k PROVE all[n + i] = t[i]
  <2>1. n + i \in 1 .. n + k /\ ~(n + i <= n) /\ (n + i) - n = i
    OBVIOUS
  <2>2. QED
    BY <1>1, <2>1
<1>4. ASSUME NEW i \in 1 .. n + k PROVE i \in 1 .. n \/ \E h \in 1 .. k : i = n + h
  <2>1. ~(i \in 1 .. n) => i - n \in 1 .. k /\ i = n + (i - n)
    OBVIOUS
  <2>2. QED
    BY <2>1
<1>5. QED
  BY <1>1, <1>2, <1>3, <1>4 DEF all, Ends

(* The entries of a concatenation are those of both parts.                 *)
LEMMA EntriesOfBoth ==
    ASSUME NEW S, NEW s \in Seq(S), NEW t \in Seq(S)
    PROVE  s \o t \in Seq(S) /\ Entries(s \o t) = Entries(s) \cup Entries(t)
<1>1. PICK n, k \in Nat : n = Len(s) /\ k = Len(t) /\ DOMAIN s = 1 .. n /\ DOMAIN t = 1 .. k
  OBVIOUS
<1> DEFINE all == s \o t
<1>2. all \in Seq(S) /\ Ends(all, s, t, n, k)
  BY <1>1, EndsOf
<1> HIDE DEF all
<1>3. (\A i \in 1 .. n : i \in 1 .. n + k) /\ (\A i \in 1 .. k : n + i \in 1 .. n + k)
  OBVIOUS
<1>4. ASSUME NEW i \in 1 .. n + k PROVE all[i] \in Entries(s) \cup Entries(t)
  <2>1. CASE i \in 1 .. n
    BY <1>1, <1>2, <2>1 DEF Entries, Ends
  <2>2. ASSUME NEW h \in 1 .. k, i = n + h PROVE all[i] \in Entries(t)
    BY <1>1, <1>2, <2>2 DEF Entries, Ends
  <2>3. QED
    BY <1>2, <2>1, <2>2 DEF Ends
<1>5. ASSUME NEW i \in 1 .. n PROVE s[i] \in Entries(all)
  BY <1>2, <1>3 DEF Entries, Ends
<1>7. ASSUME NEW i \in 1 .. k PROVE t[i] \in Entries(all)
  BY <1>2, <1>3 DEF Entries, Ends
<1>8. Entries(all) = Entries(s) \cup Entries(t)
  <2>1. Entries(s) = {s[i] : i \in 1 .. n} /\ Entries(t) = {t[i] : i \in 1 .. k} /\ Entries(all) = {all[i] : i \in 1 .. n + k}
    BY <1>1, <1>2 DEF Entries, Ends
  <2>2. QED
    BY <1>4, <1>5, <1>7, <2>1
<1>6. QED
  BY <1>2, <1>8 DEF all

(* What a queue is without its first entry.                                *)
LEMMA TailShape ==
    ASSUME NEW S, NEW s \in Seq(S), s # << >>, NEW n \in Nat, n = Len(s)
    PROVE  /\ Tail(s) \in Seq(S) /\ Head(s) = s[1] /\ s[1] \in S /\ n > 0
           /\ DOMAIN s = 1 .. n /\ DOMAIN Tail(s) = 1 .. n - 1
           /\ \A i \in 1 .. n - 1 : Tail(s)[i] = s[i + 1]
           /\ \A i \in 1 .. n : i = 1 \/ \E h \in 1 .. n - 1 : i = h + 1
<1>1. Tail(s) \in Seq(S) /\ Head(s) = s[1] /\ s[1] \in S /\ Len(Tail(s)) = n - 1 /\ n > 0 /\ DOMAIN s = 1 .. n
  BY HeadTailProperties
<1>2. \A i \in 1 .. n - 1 : Tail(s)[i] = s[i + 1]
  BY HeadTailProperties
<1>3. ASSUME NEW i \in 1 .. n, i # 1 PROVE \E h \in 1 .. n - 1 : i = h + 1
  <2>1. i - 1 \in 1 .. n - 1 /\ i = (i - 1) + 1
    BY <1>3
  <2>2. QED
    BY <2>1
<1>4. QED
  BY <1>1, <1>2, <1>3

(* Markers stay fresh when the server says more: it only has told of what  *)
(* is on the player's map, and takes back what it had told of before.      *)
LEMMA FreshAppends ==
    ASSUME NEW s \in Seq(Updates), NEW t \in Seq(Updates), NEW base, NEW m, NEW old, NEW has, Fresh(s, base, m, old),
           \A q \in Quests : \A u \in Entries(t) : Says(u, q) => u.map = None \/ (u.map = m /\ q \in has),
           \A q \in old \ has : \E u \in Entries(t) : Says(u, q)
    PROVE  Fresh(s \o t, base, m, has)
<1>1. PICK n, k \in Nat : n = Len(s) /\ k = Len(t) /\ DOMAIN s = 1 .. n /\ DOMAIN t = 1 .. k
  OBVIOUS
<1> DEFINE all == s \o t
<1>2. /\ DOMAIN all = 1 .. n + k
      /\ \A i \in 1 .. n : all[i] = s[i]
      /\ \A i \in 1 .. k : all[n + i] = t[i]
      /\ \A i \in 1 .. n + k : i \in 1 .. n \/ \E h \in 1 .. k : i = n + h
  <2>1. Ends(all, s, t, n, k)
    BY <1>1, EndsOf
  <2>2. QED
    BY <2>1 DEF Ends
<1> HIDE DEF all
<1>3. /\ \A i \in 1 .. n : i \in 1 .. n + k
      /\ \A h \in 1 .. k : n + h \in 1 .. n + k /\ \A i \in 1 .. n : n + h > i
  OBVIOUS
<1>4. ASSUME NEW q \in Quests, q \in old, q \notin has
      PROVE  \E j \in 1 .. n + k : Says(all[j], q) /\ \A i \in 1 .. n : j > i
  <2>1. PICK h \in 1 .. k : Says(t[h], q)
    BY <1>1, <1>4 DEF Entries
  <2>2. QED
    BY <1>2, <1>3, <2>1
<1>5. ASSUME NEW q \in Quests, NEW i \in 1 .. n + k, Says(all[i], q)
      PROVE  \/ all[i].map = None \/ (all[i].map = m /\ q \in has)
             \/ \E j \in 1 .. n + k : j > i /\ Says(all[j], q)
  <2>1. CASE i \in 1 .. n
    <3>1. \/ s[i].map = None \/ (s[i].map = m /\ q \in old)
          \/ \E j \in 1 .. n : j > i /\ Says(s[j], q)
      BY <1>1, <1>2, <1>5, <2>1 DEF Fresh
    <3>2. CASE \E j \in 1 .. n : j > i /\ Says(s[j], q)
      BY <1>2, <1>3, <3>2
    <3>3. CASE s[i].map = None \/ (s[i].map = m /\ q \in old)
      BY <1>2, <1>4, <2>1, <3>3
    <3>4. QED
      BY <3>1, <3>2, <3>3
  <2>2. CASE \E h \in 1 .. k : i = n + h
    <3>1. PICK h \in 1 .. k : i = n + h
      BY <2>2
    <3>2. all[i] = t[h] /\ t[h] \in Entries(t)
      BY <1>1, <1>2, <3>1 DEF Entries
    <3>3. QED
      BY <1>5, <3>2
  <2>3. QED
    BY <1>2, <2>1, <2>2
<1>6. ASSUME NEW q \in Quests
      PROVE  \/ base[q] = None \/ (base[q] = m /\ q \in has)
             \/ \E j \in 1 .. n + k : Says(all[j], q)
  <2>1. \/ base[q] = None \/ (base[q] = m /\ q \in old)
        \/ \E j \in 1 .. n : Says(s[j], q)
    BY <1>1 DEF Fresh
  <2>2. CASE \E j \in 1 .. n : Says(s[j], q)
    BY <1>2, <1>3, <2>2
  <2>3. CASE base[q] = m /\ q \in old
    BY <1>4, <2>3
  <2>4. QED
    BY <2>1, <2>2, <2>3
<1>7. QED
  BY <1>2, <1>5, <1>6 DEF Fresh, all

(* The client reads the first update.                                      *)
LEMMA FreshReads ==
    ASSUME NEW s \in Seq(Updates), s # << >>, NEW base, NEW after, NEW m, NEW has, Fresh(s, base, m, has),
           \A q \in Quests : \/ after[q] = base[q] /\ ~Says(Head(s), q)
                             \/ Says(Head(s), q) /\ after[q] = Head(s).map
                             \/ after[q] = None
    PROVE  Fresh(Tail(s), after, m, has)
<1>1. PICK n \in Nat : n = Len(s)
  OBVIOUS
<1>2. /\ Tail(s) \in Seq(Updates) /\ Head(s) = s[1] /\ s[1] \in Updates /\ n > 0
      /\ DOMAIN s = 1 .. n /\ DOMAIN Tail(s) = 1 .. n - 1
      /\ \A i \in 1 .. n - 1 : Tail(s)[i] = s[i + 1]
      /\ \A i \in 1 .. n : i = 1 \/ \E h \in 1 .. n - 1 : i = h + 1
  BY <1>1, TailShape
<1> DEFINE rest == Tail(s)
<1> HIDE DEF rest
<1>3. ASSUME NEW q \in Quests, NEW i \in 1 .. n - 1, Says(rest[i], q)
      PROVE  \/ rest[i].map = None \/ (rest[i].map = m /\ q \in has)
             \/ \E j \in 1 .. n - 1 : j > i /\ Says(rest[j], q)
  <2>1. rest[i] = s[i + 1] /\ i + 1 \in 1 .. n
    BY <1>2 DEF rest
  <2>2. \/ s[i + 1].map = None \/ (s[i + 1].map = m /\ q \in has)
        \/ \E j \in 1 .. n : j > i + 1 /\ Says(s[j], q)
    BY <1>2, <1>3, <2>1 DEF Fresh
  <2>3. ASSUME NEW j \in 1 .. n, j > i + 1, Says(s[j], q)
        PROVE  \E h \in 1 .. n - 1 : h > i /\ Says(rest[h], q)
    <3>1. PICK h \in 1 .. n - 1 : j = h + 1
      BY <1>2, <2>3
    <3>2. h > i
      BY <2>3, <3>1
    <3>3. QED
      BY <1>2, <2>3, <3>1, <3>2 DEF rest
  <2>4. QED
    BY <2>1, <2>2, <2>3
<1>4. ASSUME NEW q \in Quests
      PROVE  \/ after[q] = None \/ (after[q] = m /\ q \in has)
             \/ \E j \in 1 .. n - 1 : Says(rest[j], q)
  <2>1. ASSUME NEW j \in 1 .. n, j > 1, Says(s[j], q)
        PROVE  \E h \in 1 .. n - 1 : Says(rest[h], q)
    <3>1. PICK h \in 1 .. n - 1 : j = h + 1
      BY <1>2, <2>1
    <3>2. QED
      BY <1>2, <2>1, <3>1 DEF rest
  <2>2. CASE after[q] = base[q] /\ ~Says(s[1], q)
    <3>1. \/ base[q] = None \/ (base[q] = m /\ q \in has)
          \/ \E j \in 1 .. n : Says(s[j], q)
      BY <1>2 DEF Fresh
    <3>2. \A j \in 1 .. n : j = 1 \/ j > 1
      OBVIOUS
    <3>3. QED
      BY <2>1, <2>2, <3>1, <3>2
  <2>3. CASE Says(s[1], q) /\ after[q] = s[1].map
    <3>1. 1 \in 1 .. n
      BY <1>2
    <3>2. \/ s[1].map = None \/ (s[1].map = m /\ q \in has)
          \/ \E j \in 1 .. n : j > 1 /\ Says(s[j], q)
      BY <1>2, <2>3, <3>1 DEF Fresh
    <3>3. QED
      BY <2>1, <2>3, <3>2
  <2>4. QED
    BY <1>2, <2>2, <2>3
<1>5. QED
  BY <1>2, <1>3, <1>4 DEF Fresh, rest

(* The set of a listed finite set.                                         *)
LEMMA ListOfSet ==
    ASSUME NEW S, IsFiniteSet(S)
    PROVE  SetToSeq(S) \in Seq(S) /\ Entries(SetToSeq(S)) = S
<1> DEFINE f == SetToSeq(S)
<1>1. PICK n \in Nat : n = Cardinality(S) /\ ExistsBijection(1 .. n, S)
  BY FS_CardinalityType
<1>2. \E g \in [1 .. n -> S] : IsInjective(g)
  BY <1>1 DEF ExistsBijection, Bijection, Injection
<1>3. f \in [1 .. n -> S] /\ IsInjective(f)
  BY <1>1, <1>2 DEF SetToSeq
<1> HIDE DEF f
<1>4. f \in Injection(1 .. n, S)
  BY <1>3 DEF Injection
<1>5. IsFiniteSet(1 .. n) /\ Cardinality(1 .. n) = n
  BY FS_Interval
<1>6. f \in Surjection(1 .. n, S)
  BY <1>1, <1>4, <1>5, FS_Injection
<1>7. f \in Seq(S) /\ DOMAIN f = 1 .. n
  BY <1>3
<1>8. Entries(f) = S
  BY <1>6, <1>7 DEF Entries, Surjection
<1>9. QED
  BY <1>7, <1>8 DEF f

LEMMA MarkerList ==
    ASSUME NEW S, S \subseteq Quests, NEW m \in Maps \cup {None}
    PROVE  LET list == SetToSeq(S)
               said == [i \in 1 .. Len(list) |-> Marker(list[i], m)]
           IN  said \in Seq(Updates) /\ Entries(said) = {Marker(q, m) : q \in S}
<1> DEFINE list == SetToSeq(S)
           said == [i \in 1 .. Len(list) |-> Marker(list[i], m)]
<1>1. IsFiniteSet(S)
  BY TrackerAssumption, FS_Subset
<1>2. list \in Seq(S) /\ Entries(list) = S
  BY <1>1, ListOfSet
<1> HIDE DEF list
<1>3. PICK n \in Nat : n = Len(list) /\ DOMAIN list = 1 .. n
  BY <1>2
<1>4. \A i \in 1 .. n : list[i] \in S
  BY <1>2, <1>3
<1>5. \A q \in S : Marker(q, m) \in Updates
  BY DEF Marker, Updates
<1>6. said \in Seq(Updates) /\ DOMAIN said = 1 .. n
  BY <1>3, <1>4, <1>5
<1>7. Entries(said) = {Marker(list[i], m) : i \in 1 .. n}
  BY <1>3, <1>6 DEF Entries
<1>8. S = {list[i] : i \in 1 .. n}
  BY <1>2, <1>3 DEF Entries
<1>9. {Marker(list[i], m) : i \in 1 .. n} = {Marker(q, m) : q \in S}
  BY <1>8
<1>10. QED
  BY <1>6, <1>7, <1>9 DEF list

(* A snapshot takes back what is not here any more, and tells of the rest. *)
LEMMA SnapshotShape ==
    ASSUME NEW l, l \subseteq Quests, NEW m \in Maps, sent \subseteq Quests
    PROVE  /\ Snapshot(l, m) \in Seq(Updates) /\ Here(l, m) \subseteq l
           /\ Entries(Snapshot(l, m)) = {Marker(q, None) : q \in sent \ Here(l, m)}
                                            \cup {Marker(q, m) : q \in Here(l, m)} \cup {Sentinel}
<1> DEFINE here == Here(l, m)
           gone == SetToSeq(sent \ here)
           list == SetToSeq(here)
           a == [i \in 1 .. Len(gone) |-> Marker(gone[i], None)]
           b == [i \in 1 .. Len(list) |-> Marker(list[i], m)]
           c == <<Sentinel>>
<1>1. here \subseteq l /\ here \subseteq Quests
  BY DEF Here
<1>2. Snapshot(l, m) = a \o b \o c
  BY DEF Snapshot
<1> HIDE DEF here
<1>3. a \in Seq(Updates) /\ Entries(a) = {Marker(q, None) : q \in sent \ here}
  BY <1>1, MarkerList
<1>4. b \in Seq(Updates) /\ Entries(b) = {Marker(q, m) : q \in here}
  BY <1>1, MarkerList
<1>5. c \in Seq(Updates) /\ Entries(c) = {Sentinel}
  BY DEF Entries, Sentinel, Marker, Updates
<1> HIDE DEF a, b, c
<1>6. a \o b \in Seq(Updates) /\ Entries(a \o b) = Entries(a) \cup Entries(b)
  BY <1>3, <1>4, EntriesOfBoth
<1> DEFINE ab == a \o b
<1> HIDE DEF ab
<1>7. ab \o c \in Seq(Updates) /\ Entries(ab \o c) = Entries(ab) \cup Entries(c)
  <2>1. ab \in Seq(Updates)
    BY <1>6 DEF ab
  <2>2. QED
    BY <1>5, <2>1, EntriesOfBoth
<1>8. QED
  BY <1>1, <1>2, <1>3, <1>4, <1>5, <1>6, <1>7 DEF here, ab

LEMMA SnapshotSent ==
    ASSUME NEW l, l \subseteq Quests, NEW m \in Maps, NEW more \in Seq(Updates), \A u \in Entries(more) : u.kind = "kill",
           sent \subseteq Quests, updates \in Seq(Updates), NoTransfer(updates), NEW base, Fresh(updates, base, m, sent),
           SendSnapshot(l, m, more)
    PROVE  updates' \in Seq(Updates) /\ NoTransfer(updates') /\ Fresh(updates', base, m, sent') /\ sent' \subseteq l
<1> DEFINE said == Snapshot(l, m)
           here == Here(l, m)
<1>1. /\ said \in Seq(Updates) /\ here \subseteq l
      /\ Entries(said) = {Marker(q, None) : q \in sent \ here} \cup {Marker(q, m) : q \in here} \cup {Sentinel}
  BY SnapshotShape
<1>2. updates' = (updates \o said) \o more /\ sent' = here
  BY DEF SendSnapshot
<1> HIDE DEF said, here
<1>3. None \notin Quests /\ None \notin Maps
  BY TrackerAssumption
<1>4. \A q \in Quests : \A u \in Entries(said) : Says(u, q) => u.map = None \/ (u.map = m /\ q \in here)
  BY <1>1, <1>3 DEF Says, Marker, Sentinel
<1>5. ASSUME NEW q \in sent \ here PROVE \E u \in Entries(said) : Says(u, q)
  <2>1. Marker(q, None) \in Entries(said)
    BY <1>1
  <2>2. Says(Marker(q, None), q)
    BY DEF Says, Marker
  <2>3. QED
    BY <2>1, <2>2
<1>6. Fresh(updates \o said, base, m, here)
  BY <1>1, <1>4, <1>5, FreshAppends
<1>7. updates \o said \in Seq(Updates) /\ Entries(updates \o said) = Entries(updates) \cup Entries(said)
  BY <1>1, EntriesOfBoth
<1> DEFINE first == updates \o said
<1>8. /\ updates' \in Seq(Updates)
      /\ Entries(updates') = Entries(updates) \cup Entries(said) \cup Entries(more)
  <2>1. first \in Seq(Updates) /\ updates' = first \o more /\ Entries(first) = Entries(updates) \cup Entries(said)
    BY <1>2, <1>7
  <2> HIDE DEF first
  <2>2. first \o more \in Seq(Updates) /\ Entries(first \o more) = Entries(first) \cup Entries(more)
    BY <2>1, EntriesOfBoth
  <2>3. QED
    BY <2>1, <2>2
<1>9. NoTransfer(updates')
  BY <1>1, <1>8 DEF NoTransfer, Marker, Sentinel
<1>10. Fresh(updates', base, m, here)
  <2>1. \A q \in Quests : \A u \in Entries(more) : Says(u, q) => u.map = None \/ (u.map = m /\ q \in here)
    BY DEF Says
  <2>2. QED
    BY <1>2, <1>6, <1>7, <2>1, FreshAppends
<1>11. QED
  BY <1>1, <1>2, <1>8, <1>9, <1>10

LEMMA CreaturesSent ==
    ASSUME NEW q \in Quests \cup {None}, NEW m, NEW has,
           updates \in Seq(Updates), NoTransfer(updates), NEW base, Fresh(updates, base, m, has)
    PROVE  LET after == Append(updates, Creatures(q)) IN
           after \in Seq(Updates) /\ NoTransfer(after) /\ Fresh(after, base, m, has)
<1> DEFINE t == <<Creatures(q)>>
<1>1. t \in Seq(Updates) /\ Entries(t) = {Creatures(q)}
  BY DEF Entries, Creatures, Updates
<1>2. Append(updates, Creatures(q)) = updates \o t
  BY <1>1
<1> HIDE DEF t
<1>3. updates \o t \in Seq(Updates) /\ Entries(updates \o t) = Entries(updates) \cup Entries(t)
  BY <1>1, EntriesOfBoth
<1>4. NoTransfer(updates \o t)
  BY <1>1, <1>3 DEF NoTransfer, Creatures
<1>5. Fresh(updates \o t, base, m, has)
  <2>1. \A x \in Quests : \A u \in Entries(t) : Says(u, x) => u.map = None \/ (u.map = m /\ x \in has)
    BY <1>1 DEF Says, Creatures
  <2>2. QED
    BY <1>1, <2>1, FreshAppends
<1>6. QED
  BY <1>2, <1>3, <1>4, <1>5

LEMMA ExactSent ==
    ASSUME NEW q \in Quests \cup {None}, where \in Maps, log \subseteq Quests, sent \subseteq log,
           updates \in Seq(Updates), NoTransfer(updates), NEW base, Fresh(updates, base, where, sent), SendExactQuest(q)
    PROVE  updates' \in Seq(Updates) /\ NoTransfer(updates') /\ Fresh(updates', base, where, sent') /\ sent' \subseteq log
<1> DEFINE m == Found(q, log, where)
           t == <<Marker(q, m), CreaturesOf(q)>>
<1>1. m \in {None, where} /\ (m # None => q \in log)
  BY DEF Found
<1>2. updates' = updates \o t /\ sent' = IF m = None THEN sent \ {q} ELSE sent \cup {q}
  BY DEF SendExactQuest
<1> HIDE DEF m
<1>3. t \in Seq(Updates) /\ Entries(t) = {Marker(q, m), CreaturesOf(q)}
  <2>1. Marker(q, m) \in Updates /\ CreaturesOf(q) \in Updates
    BY <1>1 DEF Marker, CreaturesOf, Creatures, Updates
  <2>2. t \in Seq(Updates) /\ DOMAIN t = 1 .. 2 /\ t[1] = Marker(q, m) /\ t[2] = CreaturesOf(q)
    BY <2>1
  <2>3. QED
    BY <2>2 DEF Entries
<1> HIDE DEF t
<1>4. updates' \in Seq(Updates) /\ Entries(updates') = Entries(updates) \cup Entries(t)
  BY <1>2, <1>3, EntriesOfBoth
<1>5. NoTransfer(updates')
  BY <1>3, <1>4 DEF NoTransfer, CreaturesOf, Creatures, Marker
<1>6. Fresh(updates', base, where, sent')
  <2>1. \A x \in Quests : \A u \in Entries(t) : Says(u, x) => u.map = None \/ (u.map = where /\ x \in sent')
    BY <1>1, <1>2, <1>3 DEF Says, CreaturesOf, Creatures, Marker
  <2>2. \A x \in sent \ sent' : \E u \in Entries(t) : Says(u, x)
    BY <1>2, <1>3 DEF Says, Marker
  <2>3. QED
    BY <1>2, <1>3, <2>1, <2>2, FreshAppends
<1>7. QED
  BY <1>1, <1>2, <1>4, <1>5, <1>6

(* A request that is no arrival changes nothing of how many there are.     *)
LEMMA ArrivalsStay ==
    ASSUME NEW s \in Seq(Requests), NEW t \in Seq(Requests), NoArrival(t)
    PROVE  /\ s \o t \in Seq(Requests)
           /\ NoArrival(s) => NoArrival(s \o t)
           /\ OneArrival(s) => OneArrival(s \o t)
<1> DEFINE all == s \o t
<1>1. PICK n, k \in Nat : n = Len(s) /\ k = Len(t) /\ DOMAIN s = 1 .. n /\ DOMAIN t = 1 .. k
  OBVIOUS
<1>2. all \in Seq(Requests) /\ Entries(all) = Entries(s) \cup Entries(t)
  BY EntriesOfBoth
<1>3. Ends(all, s, t, n, k)
  BY <1>1, EndsOf
<1> HIDE DEF all
<1>4. NoArrival(s) => NoArrival(all)
  BY <1>2 DEF NoArrival
<1>5. ASSUME OneArrival(s) PROVE OneArrival(all)
  <2>1. PICK i \in 1 .. n : s[i].kind = "arrived" /\ \A j \in 1 .. n : s[j].kind = "arrived" => j = i
    BY <1>1, <1>5 DEF OneArrival
  <2>2. \A h \in 1 .. k : t[h].kind # "arrived"
    BY <1>1 DEF NoArrival, Entries
  <2>3. ASSUME NEW j \in 1 .. n + k, all[j].kind = "arrived" PROVE j = i
    <3>1. CASE j \in 1 .. n
      BY <1>3, <2>1, <2>3, <3>1 DEF Ends
    <3>2. ASSUME NEW h \in 1 .. k, j = n + h PROVE FALSE
      BY <1>3, <2>2, <2>3, <3>2 DEF Ends
    <3>3. QED
      BY <1>3, <3>1, <3>2 DEF Ends
  <2>4. i \in 1 .. n + k /\ all[i].kind = "arrived"
    BY <1>3, <2>1 DEF Ends
  <2>5. QED
    BY <1>3, <2>3, <2>4 DEF OneArrival, Ends
<1>6. QED
  BY <1>2, <1>4, <1>5 DEF all

LEMMA AskedShape ==
    ASSUME NEW kind \in {"snapshot", "exact", "kill"}, NEW q \in Quests \cup {None}, NEW force
    PROVE  Asked(kind, q, force) \in Seq(Requests) /\ NoArrival(Asked(kind, q, force))
<1>1. Ask(kind, q) \in Requests /\ Ask(kind, q).kind # "arrived"
  BY DEF Ask, Requests
<1>2. <<Ask(kind, q)>> \in Seq(Requests) /\ NoArrival(<<Ask(kind, q)>>)
  BY <1>1 DEF NoArrival, Entries
<1>3. << >> \in Seq(Requests) /\ NoArrival(<< >>)
  BY DEF NoArrival, Entries
<1>4. Asked(kind, q, force) = <<Ask(kind, q)>> \/ Asked(kind, q, force) = << >>
  BY DEF Asked
<1>5. QED
  BY <1>2, <1>3, <1>4

(* What the addon's steps leave of the requests.                           *)
Asks(before, after) ==
    /\ after \in Seq(Requests)
    /\ NoArrival(before) => NoArrival(after)
    /\ OneArrival(before) => OneArrival(after)

LEMMA AsksTwice ==
    ASSUME NEW s \in Seq(Requests), NEW a \in Seq(Requests), NEW b \in Seq(Requests), NoArrival(a), NoArrival(b)
    PROVE  Asks(s, s \o a) /\ Asks(s, (s \o a) \o b)
<1> DEFINE sa == s \o a
<1>1. sa \in Seq(Requests) /\ (NoArrival(s) => NoArrival(sa)) /\ (OneArrival(s) => OneArrival(sa))
  BY ArrivalsStay
<1> HIDE DEF sa
<1>2. sa \o b \in Seq(Requests) /\ (NoArrival(sa) => NoArrival(sa \o b)) /\ (OneArrival(sa) => OneArrival(sa \o b))
  BY <1>1, ArrivalsStay
<1>3. QED
  BY <1>1, <1>2 DEF Asks, sa

LEMMA AddonAsks ==
    ASSUME TypeOK, requests \in Seq(Requests), NEW c \in Markers, NEW s \in Quests \cup {None}, NEW on, NEW kill,
           ApplySelectedMarker(c, s, on, kill)
    PROVE  /\ cache' = c /\ selected' = s /\ native' \in Markers /\ current' \in Quests \cup {None}
           /\ Asks(requests, requests')
<1>1. cache' = c /\ selected' = s
  BY DEF ApplySelectedMarker
<1>2. native' \in Markers /\ current' \in Quests \cup {None}
  <2>1. CASE on /\ s # None /\ c[s] # None
    <3>1. native' = Render(s, c[s]) /\ current' = s /\ c[s] \in Maps \cup {None}
      BY <2>1 DEF ApplySelectedMarker, Markers
    <3>2. QED
      BY <3>1 DEF Render, TypeOK, Markers
  <2>2. CASE ~(on /\ s # None /\ c[s] # None)
    <3>1. native' = Nothing /\ current' = None
      BY <2>2 DEF ApplySelectedMarker
    <3>2. QED
      BY <3>1 DEF Nothing, Markers
  <2>3. QED
    BY <2>1, <2>2
<1>3. Asks(requests, requests')
  <2> DEFINE none == << >>
             first == IF kill THEN Asked("kill", s, FALSE) ELSE none
             second == IF on /\ s # None /\ c[s] = None THEN Asked("exact", s, FALSE) ELSE none
  <2>1. none \in Seq(Requests) /\ NoArrival(none)
    BY DEF NoArrival, Entries
  <2>2. requests' = (requests \o first) \o second
    BY DEF ApplySelectedMarker
  <2> HIDE DEF none
  <2>3. first \in Seq(Requests) /\ NoArrival(first)
    BY <2>1, AskedShape
  <2>4. second \in Seq(Requests) /\ NoArrival(second)
    BY <2>1, AskedShape
  <2> HIDE DEF first, second
  <2>5. QED
    BY <2>2, <2>3, <2>4, AsksTwice
<1>4. QED
  BY <1>1, <1>2, <1>3

(* Reading a queue leaves the addon's table one of markers, and what is    *)
(* not read stays.                                                         *)
LEMMA GreatestExists ==
    ASSUME NEW n \in Nat, NEW S, S \subseteq 1 .. n, S # {}
    PROVE  Max(S) \in S
<1> DEFINE below == {n - i : i \in S}
           R == OpToRel(<, Nat)
<1>1. below \subseteq Nat /\ below # {}
  <2>1. \A i \in S : n - i \in Nat
    OBVIOUS
  <2>2. QED
    BY <2>1
<1>2. IsWellFoundedOn(R, Nat) /\ R = {ss \in Nat \X Nat : ss[1] < ss[2]}
  BY NatLessThanWellFounded DEF OpToRel
<1> HIDE DEF R
<1>3. PICK x \in below : \A y \in below : ~(<<y, x>> \in R)
  BY <1>1, <1>2, WFMin
<1>4. PICK i \in S : x = n - i
  BY <1>3
<1>5. ASSUME NEW j \in S PROVE i >= j
  <2>1. ~(n - j < n - i)
    BY <1>1, <1>2, <1>3, <1>4
  <2>2. QED
    BY <2>1
<1>6. QED
  BY <1>4, <1>5 DEF Max

LEMMA DrainedShape ==
    ASSUME NEW c \in Markers, NEW s \in Seq(Updates)
    PROVE  /\ Drained(c, s) \in Markers
           /\ s = << >> => Drained(c, s) = c
           /\ \A u \in Updates : s = <<u>> => \A x \in Quests : Drained(c, s)[x] = IF u.quest = x THEN u.map ELSE c[x]
<1> DEFINE mine(x) == {i \in DOMAIN s : s[i].quest = x}
<1>1. Drained(c, s) = [x \in Quests |-> IF mine(x) = {} THEN c[x] ELSE s[Max(mine(x))].map]
  BY DEF Drained, Popped
<1>2. ASSUME NEW x \in Quests PROVE (IF mine(x) = {} THEN c[x] ELSE s[Max(mine(x))].map) \in Maps \cup {None}
  <2>1. CASE mine(x) = {}
    BY <2>1 DEF Markers
  <2>2. CASE mine(x) # {}
    <3>1. PICK n \in Nat : n = Len(s) /\ DOMAIN s = 1 .. n
      OBVIOUS
    <3>2. Max(mine(x)) \in mine(x)
      BY <2>2, <3>1, GreatestExists
    <3>3. s[Max(mine(x))] \in Updates
      BY <3>1, <3>2
    <3>4. QED
      BY <2>2, <3>3 DEF Updates
  <2>3. QED
    BY <2>1, <2>2
<1>3. Drained(c, s) \in Markers
  BY <1>1, <1>2 DEF Markers
<1>4. ASSUME s = << >> PROVE Drained(c, s) = c
  <2>1. \A x \in Quests : mine(x) = {}
    BY <1>4
  <2>2. QED
    BY <1>1, <2>1 DEF Markers
<1>5. ASSUME NEW u \in Updates, s = <<u>>, NEW x \in Quests
      PROVE  Drained(c, s)[x] = IF u.quest = x THEN u.map ELSE c[x]
  <2>1. mine(x) = IF u.quest = x THEN {1} ELSE {}
    BY <1>5
  <2>2. Max({1}) = 1
    BY DEF Max
  <2>3. s[1] = u
    BY <1>5
  <2> HIDE DEF mine
  <2>4. QED
    BY <1>1, <2>1, <2>2, <2>3
<1>6. QED
  BY <1>3, <1>4, <1>5

(* A step that neither sends an update nor reads one.                      *)
LEMMA Rests ==
    ASSUME UnderWay, UNCHANGED <<where, updates, sent>>, Asks(requests, requests'), Base' = Base \/ Base' = Nothing
    PROVE  UnderWay'
<1>1. ASSUME Fresh(updates, Base, where, sent) PROVE Fresh(updates, Base', where, sent)
  <2>1. \A q \in Quests : Nothing[q] = None
    BY DEF Nothing
  <2>2. CASE Base' = Nothing
    BY <1>1, <2>1, <2>2 DEF Fresh
  <2>3. QED
    BY <1>1, <2>2
<1>2. CASE where # None /\ NoArrival(requests) /\ NoTransfer(updates) /\ Fresh(updates, Base, where, sent)
  BY <1>1, <1>2 DEF UnderWay, UnderWayOf, Asks
<1>3. CASE where = None /\ NoArrival(requests) /\ EndsInTransfer(updates)
  BY <1>3 DEF UnderWay, UnderWayOf, Asks
<1>4. CASE where = None /\ OneArrival(requests) /\ updates = << >> /\ Base = Nothing
  BY <1>4 DEF UnderWay, UnderWayOf, Asks
<1>5. QED
  BY <1>2, <1>3, <1>4 DEF UnderWay, UnderWayOf

LEMMA SettleInit == Init => SettleInv
<1> SUFFICES ASSUME Init PROVE SettleInv
  OBVIOUS
<1>1. PICK m \in Maps : requests = <<Arrived(m)>>
  BY DEF Init
<1>2. requests \in Seq(Requests) /\ DOMAIN requests = {1} /\ requests[1].kind = "arrived"
  BY <1>1 DEF Arrived, Requests
<1>3. OneArrival(requests)
  BY <1>2 DEF OneArrival
<1>4. Base = Nothing /\ where = None /\ updates = << >>
  BY DEF Init, Base
<1>5. UnderWay
  BY <1>3, <1>4 DEF UnderWay, UnderWayOf
<1>6. TypeOK
  BY TrackerAssumption DEF Init, TypeOK, Markers, Nothing
<1>7. QED
  BY <1>2, <1>5, <1>6 DEF SettleInv, Init

LEMMA ServerSettles ==
    ASSUME SettleInv, HandleRequest
    PROVE  SettleInv'
<1> DEFINE r == Head(requests)
<1>1. PICK n \in Nat : n = Len(requests)
  BY DEF SettleInv
<1>2. /\ Tail(requests) \in Seq(Requests) /\ r = requests[1] /\ r \in Requests /\ n > 0
      /\ DOMAIN requests = 1 .. n /\ DOMAIN Tail(requests) = 1 .. n - 1
      /\ \A i \in 1 .. n - 1 : Tail(requests)[i] = requests[i + 1]
      /\ \A i \in 1 .. n : i = 1 \/ \E h \in 1 .. n - 1 : i = h + 1
  BY <1>1, TailShape DEF HandleRequest, CanSend, SettleInv
<1>3. /\ requests' = Tail(requests) /\ Base' = Base
      /\ UNCHANGED <<log, loaded, queue, highlight, addon, registers, timers, world, enabled, events>>
  BY DEF HandleRequest, CanSend, Base, addon
<1>4. \A i \in 1 .. n - 1 : i + 1 \in 1 .. n
  OBVIOUS
<1> HIDE DEF r
<1>5. NoArrival(requests) => NoArrival(Tail(requests))
  BY <1>2, <1>4 DEF NoArrival, Entries
<1>6. r.kind = "arrived" => ~NoArrival(requests)
  <2>1. 1 \in 1 .. n
    BY <1>2
  <2>2. QED
    BY <1>2, <2>1 DEF NoArrival, Entries
<1>7. TypeOK' <=> /\ where' \in Maps \cup {None} /\ sent' \subseteq Quests /\ updates' \in Seq(Updates)
  BY <1>3 DEF TypeOK, SettleInv, addon, registers
<1>8. updates \in Seq(Updates) /\ where \in Maps \cup {None} /\ log \subseteq Quests /\ sent \subseteq log /\ sent \subseteq Quests
  BY DEF SettleInv, TypeOK
<1>9. /\ where' \in Maps \cup {None} /\ sent' \subseteq log /\ updates' \in Seq(Updates)
      /\ UnderWay'
  <2>1. CASE r.kind = "arrived"
    <3>1. where = None /\ OneArrival(requests) /\ updates = << >> /\ Base = Nothing
      BY <1>6, <2>1 DEF SettleInv, UnderWay, UnderWayOf
    <3>2. PICK m \in Maps : m = r.map
      BY <1>2, <2>1 DEF Requests
    <3>3. where' = m /\ (SendSnapshot(log, m, << >>) \/ UNCHANGED <<updates, sent>>)
      BY <2>1, <3>2 DEF HandleRequest, CanSend, Arrive, r
    <3>4. m # None
      BY TrackerAssumption
    <3>5. NoArrival(Tail(requests))
      <4>1. PICK i \in 1 .. n : requests[i].kind = "arrived" /\ \A j \in 1 .. n : requests[j].kind = "arrived" => j = i
        BY <1>2, <3>1 DEF OneArrival
      <4>2. 1 \in 1 .. n
        BY <1>2
      <4>3. i = 1
        BY <1>2, <2>1, <4>1, <4>2
      <4>4. \A j \in 1 .. n - 1 : j + 1 # 1
        OBVIOUS
      <4>5. QED
        BY <1>2, <1>4, <4>1, <4>3, <4>4 DEF NoArrival, Entries
    <3>6. NoTransfer(updates) /\ Fresh(updates, Nothing, m, sent)
      BY <3>1 DEF NoTransfer, Entries, Fresh, Nothing
    <3>7. updates' \in Seq(Updates) /\ NoTransfer(updates') /\ Fresh(updates', Nothing, m, sent') /\ sent' \subseteq log
      <4>1. CASE UNCHANGED <<updates, sent>>
        BY <1>8, <3>6, <4>1
      <4>2. CASE SendSnapshot(log, m, << >>)
        <5>1. << >> \in Seq(Updates) /\ \A u \in Entries(<< >>) : u.kind = "kill"
          BY DEF Entries
        <5>2. QED
          BY <1>8, <3>6, <4>2, <5>1, SnapshotSent
      <4>3. QED
        BY <3>3, <4>1, <4>2
    <3>8. QED
      BY <1>3, <3>1, <3>3, <3>4, <3>5, <3>7 DEF UnderWay, UnderWayOf
  <2>2. CASE r.kind # "arrived" /\ where = None
    <3>1. UNCHANGED <<where, updates, sent>>
      BY <2>2 DEF HandleRequest, CanSend, r
    <3>2. ASSUME OneArrival(requests) PROVE OneArrival(Tail(requests))
      <4>1. PICK i \in 1 .. n : requests[i].kind = "arrived" /\ \A j \in 1 .. n : requests[j].kind = "arrived" => j = i
        BY <1>2, <3>2 DEF OneArrival
      <4>2. PICK h \in 1 .. n - 1 : i = h + 1
        BY <1>2, <2>2, <4>1
      <4>3. \A j \in 1 .. n - 1 : Tail(requests)[j].kind = "arrived" => j + 1 = h + 1
        BY <1>2, <1>4, <4>1, <4>2
      <4>4. \A j \in 1 .. n - 1 : j + 1 = h + 1 => j = h
        OBVIOUS
      <4>5. QED
        BY <1>2, <4>1, <4>2, <4>3, <4>4 DEF OneArrival
    <3>3. Asks(requests, requests')
      BY <1>2, <1>3, <1>5, <3>2 DEF Asks
    <3>4. UnderWay'
      BY <1>3, <3>1, <3>3, Rests DEF SettleInv
    <3>5. QED
      BY <1>8, <3>1, <3>4
  <2>3. CASE r.kind # "arrived" /\ where # None
    <3>1. NoArrival(requests) /\ NoTransfer(updates) /\ Fresh(updates, Base, where, sent) /\ where \in Maps
      BY <1>8, <2>3 DEF SettleInv, UnderWay, UnderWayOf
    <3>2. r.quest \in Quests \cup {None}
      BY <1>2 DEF Requests
    <3>3. where' = where
      BY <2>3 DEF HandleRequest, CanSend, r
    <3>4. updates' \in Seq(Updates) /\ NoTransfer(updates') /\ Fresh(updates', Base, where, sent') /\ sent' \subseteq log
      <4>1. CASE SendSnapshot(log, where, << >>)
        <5>1. << >> \in Seq(Updates) /\ \A u \in Entries(<< >>) : u.kind = "kill"
          BY DEF Entries
        <5>2. QED
          BY <1>8, <3>1, <4>1, <5>1, SnapshotSent
      <4>2. CASE SendExactQuest(r.quest)
        BY <1>8, <3>1, <3>2, <4>2, ExactSent
      <4>3. CASE SendKillEntries(r.quest)
        <5>1. PICK q \in Quests \cup {None} : updates' = Append(updates, Creatures(q)) /\ sent' = sent
          BY <3>2, <4>3 DEF SendKillEntries, CreaturesOf
        <5>2. QED
          BY <1>8, <3>1, <5>1, CreaturesSent
      <4>4. QED
        BY <2>3, <4>1, <4>2, <4>3 DEF HandleRequest, CanSend, r
    <3>5. QED
      BY <1>3, <1>5, <1>8, <2>3, <3>1, <3>3, <3>4 DEF UnderWay, UnderWayOf
  <2>4. QED
    BY <2>1, <2>2, <2>3
<1>10. requests' \in Seq(Requests) /\ sent' \subseteq Quests
  BY <1>2, <1>3, <1>8, <1>9
<1>11. QED
  BY <1>3, <1>7, <1>8, <1>9, <1>10 DEF SettleInv

LEMMA PlayerSettles ==
    ASSUME SettleInv, LeaveQuest \/ AcceptQuest \/ Transfer
    PROVE  SettleInv'
<1>1. /\ UNCHANGED <<requests, loaded, queue, highlight, addon, registers, world>> /\ Base' = Base
      /\ where # None
  BY DEF LeaveQuest, CanSend, AcceptQuest, Transfer, ClearSession, PlayerEvent, Base, addon
<1>2. /\ updates \in Seq(Updates) /\ where \in Maps /\ log \subseteq Quests /\ sent \subseteq log /\ sent \subseteq Quests
      /\ NoArrival(requests) /\ NoTransfer(updates) /\ Fresh(updates, Base, where, sent)
  BY <1>1 DEF SettleInv, TypeOK, UnderWay, UnderWayOf
<1>3. TypeOK' <=> /\ where' \in Maps \cup {None} /\ log' \subseteq Quests /\ sent' \subseteq Quests
                  /\ updates' \in Seq(Updates)
  BY <1>1 DEF TypeOK, SettleInv, addon, registers
<1>4. /\ where' \in Maps \cup {None} /\ log' \subseteq Quests /\ sent' \subseteq log' /\ updates' \in Seq(Updates)
      /\ UnderWay'
  <2>1. ASSUME NEW l, l \subseteq Quests, log' = l, NEW more \in {<<Creatures(None)>>, << >>},
               SendSnapshot(l, where, more), where' = where
        PROVE  /\ where' \in Maps \cup {None} /\ log' \subseteq Quests /\ sent' \subseteq log' /\ updates' \in Seq(Updates)
               /\ UnderWay'
    <3>1. more \in Seq(Updates) /\ \A u \in Entries(more) : u.kind = "kill"
      <4>1. Creatures(None) \in Updates /\ Creatures(None).kind = "kill"
        BY DEF Creatures, Updates
      <4>2. CASE more = << >>
        BY <4>2 DEF Entries
      <4>3. CASE more = <<Creatures(None)>>
        <5>1. Entries(more) = {Creatures(None)} /\ more \in Seq(Updates)
          BY <4>1, <4>3 DEF Entries
        <5>2. QED
          BY <4>1, <5>1
      <4>4. QED
        BY <4>2, <4>3
    <3>2. updates' \in Seq(Updates) /\ NoTransfer(updates') /\ Fresh(updates', Base, where, sent') /\ sent' \subseteq l
      BY <1>2, <2>1, <3>1, SnapshotSent
    <3>3. QED
      BY <1>1, <1>2, <2>1, <3>2 DEF UnderWay, UnderWayOf
  <2>2. ASSUME NEW q \in log, updates' = Append(updates, Creatures(q)), UNCHANGED <<where, log, sent>>
        PROVE  /\ where' \in Maps \cup {None} /\ log' \subseteq Quests /\ sent' \subseteq log' /\ updates' \in Seq(Updates)
               /\ UnderWay'
    <3>1. q \in Quests \cup {None}
      BY <1>2
    <3>2. updates' \in Seq(Updates) /\ NoTransfer(updates') /\ Fresh(updates', Base, where, sent)
      BY <1>2, <2>2, <3>1, CreaturesSent
    <3>3. QED
      BY <1>1, <1>2, <2>2, <3>2 DEF UnderWay, UnderWayOf
  <2>3. CASE LeaveQuest
    <3>1. PICK q \in log :
             \/ /\ log' = log \ {q}
                /\ \E more \in {<<Creatures(None)>>, << >>} : SendSnapshot(log', where, more)
             \/ updates' = Append(updates, Creatures(q)) /\ UNCHANGED <<log, sent>>
      BY <2>3 DEF LeaveQuest, CanSend
    <3>2. where' = where
      BY <2>3 DEF LeaveQuest, CanSend
    <3>3. CASE updates' = Append(updates, Creatures(q)) /\ UNCHANGED <<log, sent>>
      BY <2>2, <3>2, <3>3
    <3>4. CASE log' = log \ {q} /\ \E more \in {<<Creatures(None)>>, << >>} : SendSnapshot(log', where, more)
      <4>1. PICK l : l = log' /\ l \subseteq Quests
        BY <1>2, <3>4
      <4>2. PICK more \in {<<Creatures(None)>>, << >>} : SendSnapshot(l, where, more)
        BY <3>4, <4>1
      <4>3. QED
        BY <2>1, <3>2, <4>1, <4>2
    <3>5. QED
      BY <3>1, <3>3, <3>4
  <2>4. CASE AcceptQuest
    <3>1. UNCHANGED <<where, sent, updates, requests>> /\ log \subseteq log' /\ log' \subseteq Quests
      BY <1>1, <1>2, <2>4 DEF AcceptQuest
    <3>2. QED
      BY <1>1, <1>2, <3>1 DEF UnderWay, UnderWayOf
  <2>5. CASE Transfer
    <3>1. PICK m \in Maps : updates' = Append(updates, [kind |-> "transfer", quest |-> None, map |-> m])
      BY <2>5 DEF Transfer, ClearSession
    <3>2. where' = None /\ sent' \subseteq sent /\ log' = log
      BY <2>5 DEF Transfer, ClearSession
    <3>3. PICK u : u = [kind |-> "transfer", quest |-> None, map |-> m]
      OBVIOUS
    <3>4. u \in Updates /\ u.kind = "transfer" /\ u.map = m /\ updates' = Append(updates, u)
      BY <3>1, <3>3 DEF Updates
    <3>5. PICK n \in Nat : n = Len(updates) /\ DOMAIN updates = 1 .. n
      BY <1>2
    <3>6. /\ updates' \in Seq(Updates) /\ Len(updates') = n + 1 /\ DOMAIN updates' = 1 .. n + 1
          /\ \A i \in 1 .. n : updates'[i] = updates[i]
          /\ updates'[n + 1] = u
      BY <1>2, <3>4, <3>5, AppendProperties
    <3>7. \A i \in 1 .. n : updates[i].kind # "transfer"
      BY <1>2, <3>5 DEF NoTransfer, Entries
    <3>8. n + 1 \in 1 .. n + 1 /\ \A i \in 1 .. n + 1 : i = n + 1 \/ i \in 1 .. n
      OBVIOUS
    <3>9. \A i \in 1 .. n + 1 : updates'[i].kind = "transfer" => i = n + 1
      BY <3>6, <3>7, <3>8
    <3>10. EndsInTransfer(updates')
      BY <3>4, <3>6, <3>8, <3>9 DEF EndsInTransfer
    <3>11. QED
      BY <1>1, <1>2, <3>2, <3>6, <3>10 DEF UnderWay, UnderWayOf
  <2>6. QED
    BY <2>3, <2>4, <2>5
<1>5. QED
  BY <1>1, <1>3, <1>4 DEF SettleInv

(* The steps of the addon that talk to the server at most.                 *)
LEMMA AddonSettles ==
    ASSUME SettleInv,
           Poll \/ PollSelection \/ Click \/ SnapshotTimer \/ SelectedTimer \/ CoolDown \/ ZoneChanged \/ Settings
             \/ EnterWorld \/ LoadAddOn
    PROVE  SettleInv'
<1>1. UNCHANGED <<server, updates, highlight>>
  BY DEF Poll, PollSelection, Click, SnapshotTimer, SelectedTimer, CoolDown, ZoneChanged, Settings, EnterWorld, LoadAddOn, RunAddOn
<1>2. TypeOK /\ requests \in Seq(Requests) /\ cache \in Markers /\ selected \in Quests \cup {None} /\ Nothing \in Markers
      /\ queue \in Seq(Updates) /\ Asks(requests, requests) /\ (world = "in" => loaded) /\ (loaded => queue = << >>)
      /\ world \in {"in", "loading"}
  BY DEF SettleInv, TypeOK, Nothing, Markers, Asks
<1>3. Drained(cache, queue) \in Markers /\ (loaded => Drained(cache, queue) = cache)
  BY <1>2, DrainedShape
<1> DEFINE Kept == /\ cache' \in Markers /\ native' \in Markers
                   /\ selected' \in Quests \cup {None} /\ current' \in Quests \cup {None}
                   /\ picked' \in Quests \cup {None} /\ observed' \in Quests \cup {None}
                   /\ queue' \in {queue, << >>} /\ (loaded' => queue' = << >>)
                   /\ world' \in {"in", "loading"} /\ (world' = "in" => loaded')
                   /\ Asks(requests, requests')
                   /\ Base' = Base \/ Base' = Nothing
<1>15. ASSUME Kept PROVE SettleInv'
  <2>1. UNCHANGED <<where, updates, sent, log, highlight>>
    BY <1>1 DEF server
  <2>2. UnderWay'
    BY <1>15, <2>1, Rests DEF SettleInv
  <2>3. queue' \in Seq(Updates) /\ Len(queue') <= QueueLimit
    <3>1. Len(queue) <= QueueLimit /\ Len(<< >>) <= QueueLimit
      BY TrackerAssumption DEF SettleInv, TypeOK
    <3>2. CASE queue' = queue
      BY <1>2, <3>1, <3>2
    <3>3. CASE queue' = << >>
      BY <3>1, <3>3
    <3>4. QED
      BY <1>15, <3>2, <3>3
  <2>4. requests' \in Seq(Requests)
    BY <1>15 DEF Asks
  <2>5. TypeOK'
    BY <1>15, <2>1, <2>3 DEF SettleInv, TypeOK
  <2>6. QED
    BY <1>15, <2>1, <2>2, <2>4, <2>5 DEF SettleInv
<1> HIDE DEF Kept
<1>4. CASE Poll
  <2>1. ApplySelectedMarker(cache, selected, enabled, FALSE) /\ queue' = << >> /\ UNCHANGED <<loaded, registers, world>>
    BY <1>3, <1>4 DEF Poll, PullNativePackets
  <2>2. cache' = cache /\ selected' = selected /\ native' \in Markers /\ current' \in Quests \cup {None}
        /\ Asks(requests, requests')
    BY <1>2, <2>1, AddonAsks
  <2>3. Kept
    BY <1>2, <2>1, <2>2 DEF Kept, Base, TypeOK, registers
  <2>4. QED
    BY <2>3, <1>15
<1>5. CASE PollSelection
  <2>1. PICK q \in Quests : SelectQuest(q)
    BY <1>2, <1>5, TrackerAssumption DEF PollSelection, TypeOK
  <2>2. ApplySelectedMarker(cache, q, enabled, q # selected) /\ UNCHANGED <<loaded, queue, picked, world>> /\ observed' = picked
    BY <1>5, <2>1 DEF PollSelection, SelectQuest
  <2>3. cache' = cache /\ selected' = q /\ native' \in Markers /\ current' \in Quests \cup {None}
        /\ Asks(requests, requests')
    BY <1>2, <2>2, AddonAsks
  <2>4. Kept
    BY <1>2, <2>2, <2>3 DEF Kept, Base, TypeOK
  <2>5. QED
    BY <2>4, <1>15
<1>6. CASE Click
  <2>1. Kept
    BY <1>2, <1>6 DEF Kept, Click, Base, TypeOK, addon
  <2>2. QED
    BY <2>1, <1>15
<1>7. CASE SnapshotTimer
  <2>1. requests' = requests \o Asked("snapshot", None, TRUE)
    BY <1>7 DEF SnapshotTimer
  <2>2. Asked("snapshot", None, TRUE) \in Seq(Requests) /\ NoArrival(Asked("snapshot", None, TRUE))
    BY AskedShape
  <2>3. Asks(requests, requests')
    BY <1>2, <2>1, <2>2, AsksTwice
  <2>4. Kept
    BY <1>2, <1>7, <2>3 DEF Kept, SnapshotTimer, Base, TypeOK, registers
  <2>5. QED
    BY <2>4, <1>15
<1>8. CASE SelectedTimer
  <2>1. Asks(requests, requests')
    <3>1. CASE selected = None
      BY <1>2, <1>8, <3>1 DEF SelectedTimer
    <3>2. CASE selected # None
      <4> DEFINE a == Asked("exact", selected, TRUE)
                 b == Asked("kill", selected, FALSE)
      <4>1. requests' = (requests \o a) \o b
        BY <1>8, <3>2 DEF SelectedTimer
      <4>2. a \in Seq(Requests) /\ NoArrival(a) /\ b \in Seq(Requests) /\ NoArrival(b)
        BY <1>2, AskedShape
      <4> HIDE DEF a, b
      <4>3. QED
        BY <1>2, <4>1, <4>2, AsksTwice
    <3>3. QED
      BY <3>1, <3>2
  <2>2. Kept
    BY <1>2, <1>8, <2>1 DEF Kept, SelectedTimer, Base, TypeOK, registers
  <2>3. QED
    BY <2>2, <1>15
<1>9. CASE CoolDown
  <2>1. Kept
    BY <1>2, <1>9 DEF Kept, CoolDown, Base, TypeOK, registers
  <2>2. QED
    BY <2>1, <1>15
<1>10. CASE ZoneChanged
  <2>1. Kept
    BY <1>2, <1>10 DEF Kept, ZoneChanged, Base, TypeOK, registers
  <2>2. QED
    BY <2>1, <1>15
<1>11. CASE Settings
  <2>1. PICK on : on = enabled' /\ ApplySelectedMarker(cache, selected, on, FALSE)
    BY <1>11 DEF Settings
  <2>2. cache' = cache /\ selected' = selected /\ native' \in Markers /\ current' \in Quests \cup {None}
        /\ Asks(requests, requests')
    BY <1>2, <2>1, AddonAsks
  <2>3. Kept
    BY <1>2, <1>11, <2>2 DEF Kept, Settings, Base, TypeOK, registers
  <2>4. QED
    BY <2>3, <1>15
<1>12. CASE EnterWorld
  <2>1. Kept
    BY <1>2, <1>12 DEF Kept, EnterWorld, Base, TypeOK, registers
  <2>2. QED
    BY <2>1, <1>15
<1>13. CASE LoadAddOn
  <2>1. ApplySelectedMarker(Drained(cache, queue), selected, enabled, FALSE) /\ queue' = << >> /\ UNCHANGED <<registers, world>>
        /\ ~loaded /\ loaded'
    BY <1>13 DEF LoadAddOn, RunAddOn, PullNativePackets
  <2>2. cache' = Drained(cache, queue) /\ selected' = selected /\ native' \in Markers /\ current' \in Quests \cup {None}
        /\ Asks(requests, requests')
    BY <1>2, <1>3, <2>1, AddonAsks
  <2>3. Kept
    BY <1>2, <1>3, <2>1, <2>2 DEF Kept, Base, TypeOK, registers
  <2>4. QED
    BY <2>3, <1>15
<1>14. QED
  BY <1>4, <1>5, <1>6, <1>7, <1>8, <1>9, <1>10, <1>11, <1>12, <1>13

(* The client reads an update: it leaves the addon's tables as they were,  *)
(* but for the marker that the update says, if any.                        *)
LEMMA ReadsOne ==
    ASSUME SettleInv, updates # << >>, Head(updates).kind # "transfer", updates' = Tail(updates), UNCHANGED <<where, sent>>,
           Asks(requests, requests'),
           \A q \in Quests : \/ Base'[q] = Base[q] /\ ~Says(Head(updates), q)
                             \/ Says(Head(updates), q) /\ Base'[q] = Head(updates).map
                             \/ Base'[q] = None
    PROVE  UnderWay' /\ updates' \in Seq(Updates)
<1>1. PICK n \in Nat : n = Len(updates)
  BY DEF SettleInv, TypeOK
<1>2. updates \in Seq(Updates)
  BY DEF SettleInv, TypeOK
<1>3. /\ Tail(updates) \in Seq(Updates) /\ Head(updates) = updates[1] /\ updates[1] \in Updates /\ n > 0
      /\ DOMAIN updates = 1 .. n /\ DOMAIN Tail(updates) = 1 .. n - 1
      /\ \A i \in 1 .. n - 1 : Tail(updates)[i] = updates[i + 1]
      /\ \A i \in 1 .. n : i = 1 \/ \E h \in 1 .. n - 1 : i = h + 1
  BY <1>1, <1>2, TailShape
<1>4. \A i \in 1 .. n - 1 : i + 1 \in 1 .. n
  OBVIOUS
<1>5. CASE where # None /\ NoArrival(requests) /\ NoTransfer(updates) /\ Fresh(updates, Base, where, sent)
  <2>1. NoTransfer(Tail(updates))
    BY <1>3, <1>4, <1>5 DEF NoTransfer, Entries
  <2>2. PICK after : after = Base'
    OBVIOUS
  <2>3. Fresh(Tail(updates), after, where, sent)
    BY <1>2, <1>5, <2>2, FreshReads
  <2>4. QED
    BY <1>3, <1>5, <2>1, <2>2, <2>3 DEF UnderWay, UnderWayOf, Asks
<1>6. CASE where = None /\ NoArrival(requests) /\ EndsInTransfer(updates)
  <2>1. PICK i \in 1 .. n : /\ i = n /\ updates[i].kind = "transfer" /\ updates[i].map \in Maps
                           /\ \A j \in 1 .. n : updates[j].kind = "transfer" => j = i
    BY <1>1, <1>3, <1>6 DEF EndsInTransfer
  <2>2. PICK h \in 1 .. n - 1 : i = h + 1
    BY <1>3, <2>1
  <2>3. \A j \in 1 .. n - 1 : Tail(updates)[j].kind = "transfer" => j + 1 = h + 1
    BY <1>3, <1>4, <2>1, <2>2
  <2>4. (\A j \in 1 .. n - 1 : j + 1 = h + 1 => j = h) /\ h = n - 1
    BY <2>1, <2>2
  <2>5. Len(Tail(updates)) = n - 1
    BY <1>1, <1>2, HeadTailProperties
  <2>6. EndsInTransfer(Tail(updates))
    BY <1>3, <2>1, <2>2, <2>3, <2>4, <2>5 DEF EndsInTransfer
  <2>7. QED
    BY <1>3, <1>6, <2>6 DEF UnderWay, UnderWayOf, Asks
<1>7. QED
  BY <1>5, <1>6 DEF SettleInv, UnderWay, UnderWayOf

LEMMA MarkerSettles ==
    ASSUME SettleInv, OnMarkerPacket \/ OnKillEntriesPacket
    PROVE  SettleInv'
<1> DEFINE u == Head(updates)
<1>1. /\ updates # << >> /\ updates' = Tail(updates) /\ u.kind \in {"marker", "kill"}
      /\ UNCHANGED <<where, log, sent, loaded, registers, world, enabled>>
  BY DEF OnMarkerPacket, OnKillEntriesPacket, server
<1>2. u \in Updates /\ u.quest \in Quests \cup {None} /\ u.map \in Maps \cup {None}
  <2>1. updates \in Seq(Updates)
    BY DEF SettleInv, TypeOK
  <2>2. u \in Updates
    BY <1>1, <2>1, HeadTailProperties
  <2>3. QED
    BY <2>2 DEF Updates
<1>3. /\ TypeOK /\ requests \in Seq(Requests) /\ cache \in Markers /\ selected \in Quests \cup {None}
      /\ queue \in Seq(Updates) /\ Asks(requests, requests) /\ (world = "in" => loaded) /\ (loaded => queue = << >>)
      /\ world \in {"in", "loading"} /\ Len(queue) <= QueueLimit
  BY DEF SettleInv, TypeOK, Asks
<1>4. \A q \in Quests : Nothing[q] = None
  BY DEF Nothing
<1> HIDE DEF u
<1>5. highlight' \in Quests \cup {None}
  BY <1>2 DEF OnMarkerPacket, OnKillEntriesPacket, SettleInv, TypeOK, u
<1>6. PICK s : /\ Notify(s)
               /\ \/ u.kind = "marker" /\ s = Pushed(u)
                  \/ u.kind = "kill" /\ s = queue
  BY DEF OnMarkerPacket, OnKillEntriesPacket, u
<1>7. CASE loaded
  <2>1. queue = << >> /\ Len(queue) = 0 /\ ~(0 >= QueueLimit)
    BY <1>3, <1>7, TrackerAssumption
  <2>2. u.kind = "marker" => s = <<u>>
    BY <1>6, <2>1 DEF Pushed
  <2>3. s \in Seq(Updates)
    <3>1. <<u>> \in Seq(Updates)
      BY <1>2
    <3>2. QED
      BY <1>3, <1>6, <2>2, <3>1
  <2>4. /\ Drained(cache, s) \in Markers
        /\ u.kind = "kill" => Drained(cache, s) = cache
        /\ u.kind = "marker" => \A x \in Quests : Drained(cache, s)[x] = IF u.quest = x THEN u.map ELSE cache[x]
    BY <1>2, <1>3, <1>6, <2>1, <2>2, <2>3, DrainedShape
  <2>5. ApplySelectedMarker(Drained(cache, s), selected, enabled, FALSE) /\ queue' = << >>
    BY <1>6, <1>7 DEF Notify, PullNativePackets
  <2>6. /\ cache' = Drained(cache, s) /\ selected' = selected /\ native' \in Markers /\ current' \in Quests \cup {None}
        /\ Asks(requests, requests')
    BY <1>3, <2>4, <2>5, AddonAsks
  <2>7. ASSUME NEW q \in Quests
        PROVE  \/ Base'[q] = Base[q] /\ ~Says(u, q)
               \/ Says(u, q) /\ Base'[q] = u.map
               \/ Base'[q] = None
    <3>1. CASE world = "in"
      BY <1>1, <2>4, <2>6, <3>1 DEF Base, Says
    <3>2. CASE world # "in"
      BY <1>1, <1>4, <3>2 DEF Base
    <3>3. QED
      BY <3>1, <3>2
  <2>8. UnderWay' /\ updates' \in Seq(Updates)
    <3>1. Head(updates).kind # "transfer"
      BY <1>1 DEF u
    <3>2. \A q \in Quests : \/ Base'[q] = Base[q] /\ ~Says(Head(updates), q)
                            \/ Says(Head(updates), q) /\ Base'[q] = Head(updates).map
                            \/ Base'[q] = None
      BY <2>7 DEF u
    <3>3. updates # << >> /\ updates' = Tail(updates) /\ UNCHANGED <<where, sent>> /\ Asks(requests, requests')
      BY <1>1, <2>6
    <3>4. QED
      BY <3>1, <3>2, <3>3, ReadsOne
  <2>9. queue' \in Seq(Updates) /\ Len(queue') <= QueueLimit
    BY <1>3, <2>1, <2>5
  <2>10. requests' \in Seq(Requests)
    BY <2>6 DEF Asks
  <2>11. TypeOK'
    BY <1>1, <1>5, <2>4, <2>6, <2>8, <2>9 DEF SettleInv, TypeOK, registers
  <2>12. QED
    BY <1>1, <1>7, <2>5, <2>8, <2>10, <2>11 DEF SettleInv
<1>8. CASE ~loaded
  <2>1. world # "in" /\ queue' = s /\ UNCHANGED <<addon, requests>>
    BY <1>3, <1>6, <1>8 DEF Notify
  <2>2. Base' = Nothing
    BY <1>1, <2>1 DEF Base
  <2>3. UnderWay' /\ updates' \in Seq(Updates)
    <3>1. Head(updates).kind # "transfer"
      BY <1>1 DEF u
    <3>2. Asks(requests, requests')
      BY <1>3, <2>1
    <3>3. ASSUME NEW q \in Quests PROVE Base'[q] = None
      BY <1>4, <2>2
    <3>4. QED
      BY <1>1, <3>1, <3>2, <3>3, ReadsOne
  <2>4. s \in Seq(Updates) /\ Len(s) <= QueueLimit
    <3>1. CASE s = queue
      BY <1>3, <3>1
    <3>2. CASE s = Pushed(u) /\ Len(queue) >= QueueLimit
      <4>1. PICK n \in Nat : n = Len(queue)
        BY <1>3
      <4>2. queue # << >>
        BY <3>2, TrackerAssumption
      <4>3. Tail(queue) \in Seq(Updates) /\ Len(Tail(queue)) = n - 1
        BY <1>3, <4>1, <4>2, HeadTailProperties
      <4>4. s \in Seq(Updates) /\ Len(s) = n - 1 + 1
        BY <1>2, <3>2, <4>3, AppendProperties DEF Pushed
      <4>5. QED
        BY <1>3, <4>1, <4>4
    <3>3. CASE s = Pushed(u) /\ ~(Len(queue) >= QueueLimit)
      <4>1. PICK n \in Nat : n = Len(queue)
        BY <1>3
      <4>2. s \in Seq(Updates) /\ Len(s) = n + 1
        BY <1>2, <1>3, <3>3, <4>1, AppendProperties DEF Pushed
      <4>3. QED
        BY <3>3, <4>1, <4>2, TrackerAssumption
    <3>4. QED
      BY <1>6, <3>1, <3>2, <3>3
  <2>5. TypeOK'
    BY <1>1, <1>5, <2>1, <2>3, <2>4 DEF SettleInv, TypeOK, registers, addon
  <2>6. QED
    BY <1>1, <1>3, <1>8, <2>1, <2>3, <2>5 DEF SettleInv
<1>9. QED
  BY <1>7, <1>8

LEMMA LeaveSettles ==
    ASSUME SettleInv, LeaveWorld
    PROVE  SettleInv'
<1>1. PICK n \in Nat : n = Len(updates)
  BY DEF SettleInv, TypeOK
<1>2. /\ Tail(updates) \in Seq(Updates) /\ Head(updates) = updates[1] /\ n > 0 /\ DOMAIN updates = 1 .. n
  BY <1>1, TailShape DEF SettleInv, TypeOK, LeaveWorld
<1>3. 1 \in 1 .. n /\ updates[1].kind = "transfer" /\ updates # << >>
  BY <1>2 DEF LeaveWorld
<1>4. where = None /\ NoArrival(requests) /\ EndsInTransfer(updates)
  BY <1>2, <1>3 DEF SettleInv, UnderWay, UnderWayOf, NoTransfer, Entries
<1>5. n = 1 /\ updates[1].map \in Maps
  BY <1>1, <1>2, <1>3, <1>4 DEF EndsInTransfer
<1>6. Tail(updates) = << >>
  <2>1. Len(updates) = 1 /\ updates \in Seq(Updates)
    BY <1>1, <1>5 DEF SettleInv, TypeOK
  <2>3. Len(Tail(updates)) = Len(updates) - 1
    BY <1>3, <2>1, HeadTailProperties
  <2>4. Len(Tail(updates)) = 0
    BY <2>1, <2>3
  <2>2. QED
    BY <1>2, <2>4, EmptySeq
<1>7. PICK r : r = Arrived(updates[1].map) /\ r \in Requests /\ r.kind = "arrived"
  <2>1. Arrived(updates[1].map) \in Requests /\ Arrived(updates[1].map).kind = "arrived"
    BY <1>5 DEF Arrived, Requests
  <2>2. QED
    BY <2>1
<1>8. PICK k \in Nat : k = Len(requests) /\ DOMAIN requests = 1 .. k
  BY DEF SettleInv
<1>9. /\ requests' \in Seq(Requests) /\ DOMAIN requests' = 1 .. k + 1
      /\ \A i \in 1 .. k : requests'[i] = requests[i]
      /\ requests'[k + 1] = r
  BY <1>2, <1>7, <1>8, AppendProperties DEF LeaveWorld, SettleInv
<1>10. OneArrival(requests')
  <2>1. k + 1 \in 1 .. k + 1 /\ \A i \in 1 .. k + 1 : i = k + 1 \/ i \in 1 .. k
    OBVIOUS
  <2>2. \A i \in 1 .. k : requests[i].kind # "arrived"
    BY <1>4, <1>8 DEF NoArrival, Entries
  <2>3. QED
    BY <1>7, <1>9, <2>1, <2>2 DEF OneArrival
<1>11. Base' = Nothing /\ where' = None /\ updates' = << >>
  BY <1>4, <1>6 DEF LeaveWorld, Base, server
<1>12. UnderWay'
  BY <1>10, <1>11 DEF UnderWay, UnderWayOf
<1>13. TypeOK'
  BY <1>11 DEF SettleInv, TypeOK, LeaveWorld, server, registers, Nothing, Markers
<1>14. QED
  BY <1>9, <1>12, <1>13 DEF SettleInv, LeaveWorld, server

LEMMA SettleStep == SettleInv /\ [Next]_vars => SettleInv'
<1> SUFFICES ASSUME SettleInv, [Next]_vars PROVE SettleInv'
  OBVIOUS
<1>1. CASE UNCHANGED vars
  BY <1>1 DEF vars, server, addon, registers, timers, SettleInv, TypeOK, UnderWay, UnderWayOf, Base, Markers, Updates
<1>2. QED
  BY <1>1, ServerSettles, PlayerSettles, AddonSettles, MarkerSettles, LeaveSettles DEF Next, Deliver

(* For every set of quests and maps and every queue limit: once no update  *)
(* is under way to a player who is in a world, each marker of the addon's  *)
(* cache is of a quest in the log and on the player's map                  *)
(* (SendSnapshot, SendExactQuest, the transfer and the zone handlers).     *)
THEOREM SettlesAlways == Spec => []CacheSettles
<1>1. ASSUME SettleInv PROVE CacheSettles
  <2>1. ASSUME where # None, updates = << >>, world = "in", NEW q \in Quests, cache[q] # None
        PROVE  q \in log /\ cache[q] = where
    <3>1. Fresh(updates, cache, where, sent)
      BY <1>1, <2>1 DEF SettleInv, UnderWay, UnderWayOf, Base
    <3>2. cache[q] = where /\ q \in sent
      BY <2>1, <3>1 DEF Fresh
    <3>3. QED
      BY <1>1, <3>2 DEF SettleInv
  <2>2. QED
    BY <1>1, <2>1 DEF CacheSettles, SettleInv
<1>2. QED
  BY <1>1, SettleInit, SettleStep, PTL DEF Spec

=============================================================================
