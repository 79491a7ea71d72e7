----------------------------- MODULE QuestTracker -----------------------------
(***************************************************************************)
(* The quest tracker from end to end: the AzerothCore service              *)
(* (server/azerothcore/wxl_quest_marker.cpp), the native side that queues  *)
(* its packets and keeps the rendered markers (QuestMarker.cpp,            *)
(* QuestHighlight.cpp) and the addon that selects a quest                  *)
(* (QuestMarker.lua).  The two directions of the connection are FIFO, and  *)
(* the map transfer travels in them like any other packet.                 *)
(***************************************************************************)
EXTENDS Integers, Sequences, FiniteSets, SequencesExt, FiniteSetsExt

CONSTANTS
    Quests, Maps,
    Eligible,   \* the pairs <<quest, map>> FindMarker finds a place for
    QueueLimit, \* 256, the native marker queue
    MaxRequests, MaxUpdates, \* bounds on what is in flight
    MaxEvents,  \* bound on what the player and the world do
    None

ASSUME TrackerAssumption ==
    /\ Eligible \subseteq Quests \X Maps
    /\ None \notin Quests \cup Maps
    /\ QueueLimit \in Nat \ {0}
    /\ IsFiniteSet(Quests)

VARIABLES
    where,      \* the server's map of the player, None while it is in transfer
    log,        \* the quests in the player's log
    sent,       \* _sentQuestIds of the session
    requests, updates, \* the two directions of the connection
    loaded,     \* the addon is loaded
    queue,      \* g_markerPackets
    highlight,  \* the quest whose creatures g_questEntries holds
    cache,      \* Tracker.cache: per quest the map its marker was computed on
    selected, current, \* Tracker.selectedQuest, Tracker.currentQuest
    native,     \* m_markers: per quest the map of the marker it renders
    picked, observed,  \* the selection registers, and what the last poll read
    cooling,    \* the keys of requestCooldown younger than 1.5 s
    snapshotDue, selectedDue, \* requestSnapshotAt, requestSelectedAt
    world,      \* what the client is in: a world, a loading screen
    enabled,    \* QuestMarkerDB.enabled and showMarker
    events      \* how often the player and the world acted

server == <<where, log, sent>>
addon == <<cache, selected, current, native, cooling>>
registers == <<picked, observed>>
timers == <<snapshotDue, selectedDue>>
vars == <<server, requests, updates, loaded, queue, highlight, addon, registers,
          timers, world, enabled, events>>

Nothing == [q \in Quests |-> None]
Marker(q, m) == [kind |-> "marker", quest |-> q, map |-> m]
Creatures(q) == [kind |-> "kill", quest |-> q, map |-> None]
Sentinel == Marker(None, None)
Arrived(m) == [kind |-> "arrived", quest |-> None, map |-> m]

Init ==
    /\ where = None /\ log \in SUBSET Quests /\ sent = {}
    /\ \E m \in Maps : requests = <<Arrived(m)>>
    /\ updates = << >> /\ queue = << >>
    /\ loaded = FALSE /\ highlight = None
    /\ cache = Nothing /\ native = Nothing
    /\ selected = None /\ current = None
    /\ picked = None /\ observed = None /\ cooling = {}
    /\ snapshotDue = FALSE /\ selectedDue = FALSE
    /\ world = "loading" /\ enabled = TRUE /\ events = 0

-----------------------------------------------------------------------------
(* The server.  None of its handlers answers a player who is in no world.  *)
CanSend == where # None
ClearSession == {}

(* FindMarker: the quest's point on the player's map, from its POIs or     *)
(* from the spawns that start, end or fulfil it.                           *)
Placed(q, m) == <<q, m>> \in Eligible
Found(q, l, m) == IF q \in l /\ Placed(q, m) THEN m ELSE None
Here(l, m) == {q \in l : Found(q, l, m) # None}

SnapshotWithoutRemovals(l, m) ==
    LET list == SetToSeq(Here(l, m))
    IN  [i \in 1..Len(list) |-> Marker(list[i], m)] \o <<Sentinel>>
Snapshot(l, m) ==
    LET gone == SetToSeq(sent \ Here(l, m))
        list == SetToSeq(Here(l, m))
    IN  [i \in 1..Len(gone) |-> Marker(gone[i], None)] \o
        [i \in 1..Len(list) |-> Marker(list[i], m)] \o <<Sentinel>>

SendSnapshot(l, m, more) ==
    /\ updates' = updates \o Snapshot(l, m) \o more
    /\ sent' = Here(l, m)

(* GetKillEntries: a quest that is not in the log has no creatures.        *)
CreaturesOf(q) == Creatures(IF q \in log THEN q ELSE None)

SendKillEntries(q) ==
    /\ updates' = Append(updates, CreaturesOf(q))
    /\ UNCHANGED sent

SendExactQuest(q) ==
    LET m == Found(q, log, where)
    IN  /\ updates' = updates \o <<Marker(q, m), CreaturesOf(q)>>
        /\ sent' = IF m = None THEN sent \ {q} ELSE sent \cup {q}

(* The two hooks of a map change run before or after the player is in it.  *)
Arrive(m) ==
    /\ where' = m
    /\ SendSnapshot(log, m, << >>) \/ UNCHANGED <<updates, sent>>

HandleRequest ==
    /\ requests # << >> /\ Len(updates) < MaxUpdates
    /\ requests' = Tail(requests)
    /\ LET r == Head(requests) IN
       IF r.kind = "arrived" THEN Arrive(r.map) ELSE
       /\ UNCHANGED where
       /\ IF ~CanSend THEN UNCHANGED <<updates, sent>> ELSE
          \/ r.kind = "snapshot" /\ SendSnapshot(log, where, << >>)
          \/ r.kind = "exact" /\ SendExactQuest(r.quest)
          \/ r.kind = "kill" /\ SendKillEntries(r.quest)
    /\ UNCHANGED <<log, loaded, queue, highlight, addon, registers, timers, world,
                   enabled, events>>

Occurs == events < MaxEvents /\ events' = events + 1
PlayerEvent == Occurs /\ UNCHANGED <<requests, loaded, queue, highlight, addon, registers>>

(* OnPlayerCompleteQuest and OnPlayerQuestAbandon: the quest has left the  *)
(* log.  OnPlayerBeforeQuestComplete: it has not.                          *)
LeaveQuest ==
    /\ PlayerEvent /\ CanSend /\ Len(updates) < MaxUpdates
    /\ \E q \in log :
          \/ /\ log' = log \ {q}
             /\ \E more \in {<<Creatures(None)>>, << >>} : SendSnapshot(log', where, more)
             /\ selectedDue' = (loaded \/ selectedDue)
          \/ /\ updates' = Append(updates, Creatures(q))
             /\ UNCHANGED <<log, sent, selectedDue>>
    /\ UNCHANGED <<where, snapshotDue, world, enabled>>

AcceptQuest ==
    /\ PlayerEvent /\ where # None
    /\ \E q \in Quests \ log : log' = log \cup {q}
    /\ selectedDue' = (loaded \/ selectedDue)
    /\ UNCHANGED <<where, sent, updates, snapshotDue, world, enabled>>

(* The transfer to another map; OnPlayerLogout forgets the session when    *)
(* the player leaves for the character list in between.                    *)
Transfer ==
    /\ PlayerEvent /\ where # None /\ Len(updates) < MaxUpdates
    /\ where' = None
    /\ \E m \in Maps : updates' = Append(updates, [kind |-> "transfer", quest |-> None, map |-> m])
    /\ sent' \in {sent, ClearSession}
    /\ UNCHANGED <<log, timers, world, enabled>>

-----------------------------------------------------------------------------
(* The addon.                                                              *)

CanAsk == Len(requests) < MaxRequests
Ask(kind, q) == [kind |-> kind, quest |-> q, map |-> None]

(* sendRequest: what it sends of one request, and the cooldown it leaves.  *)
Asked(kind, q, force) ==
    IF force \/ <<kind, q>> \notin cooling THEN <<Ask(kind, q)>> ELSE << >>
Cooled(kind, q) == cooling \cup {<<kind, q>>}

RenderWithoutErase(q, m) == [native EXCEPT ![q] = m]
RenderThenErase(q, m) == IF current = None THEN [native EXCEPT ![q] = m]
                         ELSE [native EXCEPT ![q] = m, ![current] = None]
Render(q, m) == IF current = None THEN [native EXCEPT ![q] = m]
                                  ELSE [native EXCEPT ![current] = None, ![q] = m]

(* applySelectedMarker, after the cache became c and the selection s; kill *)
(* is what selectQuest asked for before.                                   *)
ApplySelectedMarker(c, s, on, kill) ==
    LET hit == s # None /\ c[s] # None
        miss == on /\ s # None /\ c[s] = None
    IN  /\ cache' = c /\ selected' = s
        /\ native' = IF on /\ hit THEN Render(s, c[s]) ELSE Nothing
        /\ current' = IF on /\ hit THEN s ELSE None
        /\ requests' = requests \o (IF kill THEN Asked("kill", s, FALSE) ELSE << >>)
                                \o (IF miss THEN Asked("exact", s, FALSE) ELSE << >>)
        /\ cooling' = (IF kill THEN Cooled("kill", s) ELSE cooling) \cup
                      (IF miss THEN Cooled("exact", s) ELSE cooling)

(* The addon pops marker by marker, to the end of the queue; of what it    *)
(* pops of a quest the last one stays.                                     *)
Popped(q, x) == {i \in DOMAIN q : q[i].quest = x}
Drained(c, q) == [x \in Quests |->
    LET mine == Popped(q, x)
    IN  IF mine = {} THEN c[x] ELSE q[Max(mine)].map]

PullNativePackets(q) ==
    /\ queue' = << >>
    /\ ApplySelectedMarker(Drained(cache, q), selected, enabled, FALSE)

Poll ==     \* the driver's 0.1 s timer
    /\ loaded /\ world = "in" /\ CanAsk
    /\ PullNativePackets(queue)
    /\ UNCHANGED <<server, updates, loaded, highlight, registers, timers, world,
                   enabled, events>>

SelectQuest(q) ==
    ApplySelectedMarker(cache, q, enabled, q # selected)

(* pollSelection; the three registers of the client are one here, since    *)
(* mirrorSelection writes the winner into the others.                      *)
PollSelection ==
    /\ loaded /\ world = "in" /\ CanAsk
    /\ observed' = picked
    /\ \/ picked # None /\ (picked # observed \/ selected = None) /\ SelectQuest(picked)
       \/ /\ picked = None /\ selected = None
          /\ \E q \in log : SelectQuest(q)          \* firstMapQuestID
    /\ UNCHANGED <<server, updates, loaded, queue, highlight, picked, timers,
                   world, enabled, events>>

Click ==    \* Tracker.SelectQuest, or a click in the map or the log
    /\ Occurs /\ world = "in"
    /\ picked' \in log
    /\ UNCHANGED <<server, requests, updates, loaded, queue, highlight, addon,
                   observed, timers, world, enabled>>

SnapshotTimer ==
    /\ loaded /\ world = "in" /\ snapshotDue /\ CanAsk
    /\ snapshotDue' = FALSE
    /\ requests' = requests \o Asked("snapshot", None, TRUE)
    /\ cooling' = Cooled("snapshot", None)
    /\ UNCHANGED <<server, updates, loaded, queue, highlight, cache, selected, current,
                   native, registers, selectedDue, world, enabled, events>>

SelectedTimer ==
    /\ loaded /\ world = "in" /\ selectedDue /\ CanAsk
    /\ selectedDue' = FALSE
    /\ IF selected = None THEN UNCHANGED <<requests, cooling>> ELSE
          /\ requests' = requests \o Asked("exact", selected, TRUE)
                                  \o Asked("kill", selected, FALSE)
          /\ cooling' = Cooled("exact", selected) \cup Cooled("kill", selected)
    /\ UNCHANGED <<server, updates, loaded, queue, highlight, cache, selected, current,
                   native, registers, snapshotDue, world, enabled, events>>

CoolDown ==
    /\ CanAsk /\ \E k \in cooling : cooling' = cooling \ {k}
    /\ UNCHANGED <<server, requests, updates, loaded, queue, highlight, cache, selected,
                   current, native, registers, timers, world, enabled, events>>

ZoneChanged ==
    /\ Occurs /\ loaded /\ world = "in"
    /\ cache' = Nothing /\ native' = Nothing /\ current' = None /\ cooling' = {}
    /\ snapshotDue' = TRUE
    /\ UNCHANGED <<server, requests, updates, loaded, queue, highlight, selected,
                   registers, selectedDue, world, enabled>>

Settings ==
    /\ Occurs /\ loaded /\ CanAsk
    /\ enabled' = ~enabled
    /\ ApplySelectedMarker(cache, selected, enabled', FALSE)
    /\ UNCHANGED <<server, updates, loaded, queue, highlight, registers, timers, world>>

-----------------------------------------------------------------------------
(* The native side.                                                        *)

Pushed(u) == IF Len(queue) >= QueueLimit THEN Append(Tail(queue), u) ELSE Append(queue, u)

(* NotifyLua: the addon, when it is loaded, drains the queue at once.      *)
Notify(q) ==
    IF loaded THEN PullNativePackets(q)
    ELSE queue' = q /\ UNCHANGED <<addon, requests>>

OnMarkerPacket ==
    /\ updates # << >> /\ Head(updates).kind = "marker"
    /\ updates' = Tail(updates)
    /\ Notify(Pushed(Head(updates)))
    /\ UNCHANGED <<server, loaded, highlight, registers, timers, world, enabled, events>>

OnKillEntriesPacket ==
    /\ updates # << >> /\ Head(updates).kind = "kill"
    /\ updates' = Tail(updates)
    /\ highlight' = Head(updates).quest
    /\ Notify(queue)
    /\ UNCHANGED <<server, loaded, registers, timers, world, enabled, events>>

(* PLAYER_LEAVING_WORLD and the native OnWorldLeave and OnWorldEnter.      *)
LeaveWorld ==
    /\ updates # << >> /\ Head(updates).kind = "transfer"
    /\ updates' = Tail(updates)
    /\ requests' = Append(requests, Arrived(Head(updates).map))
    /\ native' = Nothing /\ highlight' = None
    /\ world' = "loading"
    /\ cache' = Nothing /\ selected' = None /\ current' = None
    /\ UNCHANGED <<server, loaded, queue, cooling, registers, timers, enabled, events>>

EnterWorld ==   \* PLAYER_ENTERING_WORLD
    /\ loaded /\ world = "loading" /\ world' = "in"
    /\ cache' = Nothing /\ native' = Nothing /\ current' = None /\ cooling' = {}
    /\ snapshotDue' = TRUE
    /\ UNCHANGED <<server, requests, updates, loaded, queue, highlight, selected,
                   registers, selectedDue, enabled, events>>

RunAddOn == loaded' = TRUE /\ PullNativePackets(queue)

(* PLAYER_LOGIN, before the first PLAYER_ENTERING_WORLD: the frame of the  *)
(* bootstrap script runs the addon's file, which pulls at its end.         *)
LoadAddOn ==
    /\ ~loaded /\ RunAddOn
    /\ UNCHANGED <<server, updates, highlight, registers, timers, world, enabled, events>>

-----------------------------------------------------------------------------

\* The handlers of the registered opcodes, and the client's own transfer.
Deliver == OnMarkerPacket \/ OnKillEntriesPacket \/ LeaveWorld
Next ==
    \/ HandleRequest \/ LeaveQuest \/ AcceptQuest \/ Transfer
    \/ Poll \/ PollSelection \/ Click \/ SnapshotTimer \/ SelectedTimer \/ CoolDown
    \/ ZoneChanged \/ Settings
    \/ Deliver \/ EnterWorld \/ LoadAddOn

Spec == /\ Init /\ [][Next]_vars
        /\ WF_vars(HandleRequest) /\ WF_vars(Deliver) /\ WF_vars(EnterWorld) /\ WF_vars(LoadAddOn)
        /\ WF_vars(Poll) /\ WF_vars(SnapshotTimer) /\ WF_vars(CoolDown)

-----------------------------------------------------------------------------

Markers == [Quests -> Maps \cup {None}]
Updates == [kind : {"marker", "kill", "transfer"}, quest : Quests \cup {None},
            map : Maps \cup {None}]

TypeOK ==
    /\ where \in Maps \cup {None} /\ log \subseteq Quests /\ sent \subseteq Quests
    /\ updates \in Seq(Updates) /\ queue \in Seq(Updates) /\ Len(queue) <= QueueLimit
    /\ cache \in Markers /\ native \in Markers
    /\ {selected, current, picked, observed, highlight} \subseteq Quests \cup {None}

(* The native list and the addon's mirror of it are written by different   *)
(* handlers and cleared by different events, yet at most the selected      *)
(* quest is rendered, and where the cache has it: a cache that is emptied, *)
(* a selection that moves or a removal that arrives take the marker along  *)
(* (applySelectedMarker, clearRenderedMarker, SetMarker).                  *)
MarkerMirrorsCache ==
    \A q \in Quests : native[q] # None =>
        q = selected /\ q = current /\ enabled /\ native[q] = cache[q]

(* After a transfer, an abandoned quest or an overflowing queue, with      *)
(* markers of the old map still in flight when the cache was emptied: once *)
(* no update is under way to a player who is in a world, whatever the two  *)
(* sides still ask for, the addon has no marker of another map and none of *)
(* a quest the player no longer has (SendSnapshot's removals).             *)
CacheSettles ==
    TypeOK /\ (where # None /\ updates = << >> /\ world = "in" =>
        \A q \in Quests : cache[q] # None => q \in log /\ cache[q] = where)

(* Whatever the cooldowns suppress and the events empty, a quest that stays *)
(* selected, in the log and on this map ends up rendered there.            *)
MarkerAppears ==
    \A q \in Quests :
        <>[](/\ loaded /\ world = "in" /\ enabled /\ selected = q
             /\ where # None /\ Found(q, log, where) # None)
        => <>[](native[q] # None /\ native[q] = where)

=============================================================================
