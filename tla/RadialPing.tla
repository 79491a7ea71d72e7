------------------------------ MODULE RadialPing ------------------------------
(***************************************************************************)
(* Group pings from end to end: the addon (RadialPing/World.lua) limits,   *)
(* sends and shows them, the server (server/azerothcore/                   *)
(* wxl_radial_ping.cpp) limits them again and relays them to the group,    *)
(* and the native side (RadialPing.cpp) keeps what arrives in a bounded    *)
(* queue until the addon takes it.                                         *)
(*                                                                         *)
(* Every player has one connection, FIFO in both directions (the network   *)
(* bridge of the runtime keeps the order).  Where a ping points and how    *)
(* long its marker stays lit is left out: a frame outlives its ping.       *)
(***************************************************************************)
EXTENDS Integers, Sequences, FiniteSetsExt

CONSTANTS
    Players, Maps,
    UpdateLimit, \* 32, the native queue
    MaxPings,    \* bound of the model: the pings each player makes
    MaxEvents,   \* bound: journeys, changes of the group, reloads
    None

ASSUME PingAssumption ==
    /\ UpdateLimit \in Nat \ {0} /\ MaxPings \in [Players -> Nat] /\ MaxEvents \in Nat
    /\ None \notin Maps

VARIABLES
    where, group,  \* the server's: each player's map (None: in transfer), the group
    party,         \* per player, whether its client knows of a group
    clientHot,     \* players whose lastSendTime is younger than a second
    serverHot,     \* players whose g_lastPing is
    up, down,      \* per player, the two directions of its connection
    updates,       \* per player, g_pingUpdates
    booted,        \* the players whose bridge table exists (kBootstrap ran)
    addons,        \* the players whose addon is loaded
    listening,     \* those whose addon found the bridge and set _NativeChanged
    marker,        \* per player, activePings: per sender the ping it shows
    made,          \* pings each player made so far
    latest,        \* per player and sender, the last ping relayed to it, unless it
                   \* was taken before the interface was rebuilt, or dropped
    events

service == <<where, group, serverHot>>
interface == <<booted, addons, listening>>
vars == <<service, party, clientHot, up, down, updates, interface, marker, made,
          latest, events>>

Ping(s, n) == [kind |-> "ping", from |-> s, id |-> n]
Party(is) == [kind |-> "party", is |-> is]
NoMarkers == [s \in Players |-> 0]

Init ==
    /\ where \in [Players -> Maps] /\ group = Players
    /\ party = [p \in Players |-> TRUE]
    /\ clientHot = {} /\ serverHot = {}
    /\ up = [p \in Players |-> << >>] /\ down = [p \in Players |-> << >>]
    /\ updates = [p \in Players |-> << >>]
    /\ booted = {} /\ addons = {} /\ listening = {}
    /\ marker = [p \in Players |-> NoMarkers] /\ latest = [p \in Players |-> NoMarkers]
    /\ made = [p \in Players |-> 0] /\ events = 0

-----------------------------------------------------------------------------
(* The addon.                                                              *)

(* ApplyPing: one frame per sender, which the next ping takes over.        *)
ApplyPing(shown, u) == [shown EXCEPT ![u.from] = u.id]

(* SendPing: the second is spent before the cursor is known to be anywhere.*)
SendPing(s) ==
    /\ s \in addons /\ s \notin clientHot /\ made[s] < MaxPings[s]
    /\ clientHot' = clientHot \cup {s}
    /\ \/ UNCHANGED <<up, marker, made>>              \* nothing under the cursor
       \/ LET n == made[s] + 1 IN
          /\ made' = [made EXCEPT ![s] = n]
          /\ up' = IF party[s] /\ s \in booted THEN [up EXCEPT ![s] = Append(@, n)] ELSE up
          /\ marker' = [marker EXCEPT ![s] = ApplyPing(@, Ping(s, n))]
    /\ UNCHANGED <<service, party, down, updates, interface, latest, events>>

ClientCools(s) ==
    /\ s \in clientHot /\ clientHot' = clientHot \ {s}
    /\ UNCHANGED <<service, party, up, down, updates, interface, marker, made, latest, events>>

PingsFrom(s, q) == {k \in DOMAIN q : q[k].kind = "ping" /\ q[k].from = s}
NewestFrom(s, q) == IF PingsFrom(s, q) = {} THEN 0 ELSE q[Max(PingsFrom(s, q))].id

(* pullServerPings pops until LuaPopServerPing has none left, and applies  *)
(* each: of several pings of one sender the last stays.                    *)
PullServerPings(p, q) ==
    /\ updates' = [updates EXCEPT ![p] = << >>]
    /\ marker' = [marker EXCEPT ![p] =
                    [s \in Players |-> IF PingsFrom(s, q) = {} THEN @[s] ELSE NewestFrom(s, q)]]

(* World.lua's last lines: without the bridge table it never listens.      *)
LoadAddOn(p) ==
    /\ p \notin addons /\ addons' = addons \cup {p}
    /\ IF p \in booted
       THEN listening' = listening \cup {p} /\ PullServerPings(p, updates[p])
       ELSE UNCHANGED <<listening, updates, marker>>
    /\ UNCHANGED <<service, party, clientHot, up, down, booted, made, latest, events>>

-----------------------------------------------------------------------------
(* The native side.                                                        *)

Bootstrap(p) ==
    /\ p \notin booted /\ booted' = booted \cup {p}
    /\ UNCHANGED <<service, party, clientHot, up, down, updates, addons, listening, marker,
                   made, latest, events>>

QueuedUnlessFull(q, u) == IF Len(q) >= UpdateLimit THEN q ELSE Append(q, u)
Queued(q, u) == IF Len(q) >= UpdateLimit THEN Append(Tail(q), u) ELSE Append(q, u)

DroppedBy(p) == {s \in Players :
    Len(updates[p]) >= UpdateLimit /\ Head(updates[p]) = Ping(s, latest[p][s])}

(* OnServerPing calls _NativeChanged, when the addon has set it.           *)
OnServerPing(p) ==
    /\ down[p] # << >> /\ Head(down[p]).kind = "ping"
    /\ down' = [down EXCEPT ![p] = Tail(@)]
    /\ LET q == Queued(updates[p], Head(down[p])) IN
       IF p \in listening THEN PullServerPings(p, q)
       ELSE updates' = [updates EXCEPT ![p] = q] /\ UNCHANGED marker
    /\ latest' = [latest EXCEPT ![p] = [s \in Players |-> IF s \in DroppedBy(p) THEN 0 ELSE @[s]]]
    /\ UNCHANGED <<service, party, clientHot, up, interface, made, events>>

PartyChanged(p) ==
    /\ down[p] # << >> /\ Head(down[p]).kind = "party"
    /\ down' = [down EXCEPT ![p] = Tail(@)]
    /\ party' = [party EXCEPT ![p] = Head(down[p]).is]
    /\ UNCHANGED <<service, clientHot, up, updates, interface, marker, made, latest, events>>

-----------------------------------------------------------------------------
(* The server.                                                             *)

Audience(s) == {p \in group : where[p] = where[s]}

RelayToAllOrNone(s, ping) ==
    down' = IF Audience(s) = group THEN [p \in Players |->
        IF p \in Audience(s) THEN Append(down[p], ping) ELSE down[p]] ELSE down
Relay(s, ping) ==
    down' = [p \in Players |->
        IF p \in Audience(s) THEN Append(down[p], ping) ELSE down[p]]

(* HandleRadialPing: a sender in no world is ignored; any other spends its *)
(* second, also for a request that then goes nowhere.                      *)
HandleRadialPing(s) ==
    /\ up[s] # << >> /\ up' = [up EXCEPT ![s] = Tail(@)]
    /\ IF where[s] = None \/ s \in serverHot THEN UNCHANGED <<serverHot, down, latest>> ELSE
       /\ serverHot' = serverHot \cup {s}
       /\ IF s \notin group THEN UNCHANGED <<down, latest>> ELSE
          /\ Relay(s, Ping(s, Head(up[s])))
          /\ latest' = [p \in Players |-> IF p \in Audience(s)
                           THEN [latest[p] EXCEPT ![s] = Head(up[s])] ELSE latest[p]]
    /\ UNCHANGED <<where, group, party, clientHot, updates, interface, marker, made, events>>

ServerCools(s) ==
    /\ s \in serverHot /\ serverHot' = serverHot \ {s}
    /\ UNCHANGED <<where, group, party, clientHot, up, down, updates, interface, marker,
                   made, latest, events>>

-----------------------------------------------------------------------------
(* What the players do.                                                    *)

Occurs == events < MaxEvents /\ events' = events + 1

Travel(p) ==
    /\ Occurs
    /\ \E m \in (Maps \cup {None}) \ {where[p]} : where' = [where EXCEPT ![p] = m]
    /\ UNCHANGED <<group, serverHot, party, clientHot, up, down, updates, interface, marker,
                   made, latest>>

Regroup(p) ==
    /\ Occurs
    /\ group' = IF p \in group THEN group \ {p} ELSE group \cup {p}
    /\ down' = [down EXCEPT ![p] = Append(@, Party(p \in group'))]
    /\ UNCHANGED <<where, serverHot, party, clientHot, up, updates, interface, marker, made,
                   latest>>

(* The interface is rebuilt: a new Lua state, whose lastSendTime is 0.     *)
Rebuilt(p) ==
    /\ Occurs
    /\ booted' = booted \ {p} /\ addons' = addons \ {p} /\ listening' = listening \ {p}
    /\ clientHot' = clientHot \ {p}
    /\ marker' = [marker EXCEPT ![p] = NoMarkers]
    /\ latest' = [latest EXCEPT ![p] =
                    [s \in Players |-> NewestFrom(s, updates[p] \o down'[p])]]
    /\ UNCHANGED <<where, group, updates, made>>

Reload(p) == UNCHANGED <<serverHot, party, up, down>> /\ Rebuilt(p)

(* OnPlayerLogout, and the player's return: g_lastPing forgets the session,*)
(* g_pingUpdates keeps what it holds.                                      *)
Relog(p) ==
    /\ serverHot' = serverHot \ {p}
    /\ up' = [up EXCEPT ![p] = << >>] /\ down' = [down EXCEPT ![p] = << >>]
    /\ party' = [party EXCEPT ![p] = p \in group]
    /\ Rebuilt(p)

-----------------------------------------------------------------------------

Deliver(p) == OnServerPing(p) \/ PartyChanged(p)

Next == \E p \in Players :
    \/ SendPing(p) \/ ClientCools(p) \/ LoadAddOn(p) \/ Bootstrap(p)
    \/ Deliver(p) \/ HandleRadialPing(p) \/ ServerCools(p)
    \/ Travel(p) \/ Regroup(p) \/ Reload(p) \/ Relog(p)

(* Connections deliver; nobody has to ping, travel or load an addon.       *)
Spec == Init /\ [][Next]_vars /\ \A p \in Players : WF_vars(Deliver(p))

-----------------------------------------------------------------------------

TypeOK ==
    /\ where \in [Players -> Maps \cup {None}] /\ group \subseteq Players
    /\ {clientHot, serverHot, booted, addons, listening} \subseteq SUBSET Players
    /\ listening \subseteq addons \cap booted
    /\ \A p \in Players :
        /\ updates[p] \in Seq([kind : {"ping"}, from : Players, id : Nat])
        /\ Len(updates[p]) <= UpdateLimit
        /\ \A s \in Players : {marker[p][s], latest[p][s]} \subseteq 0..made[s]

UnderWay(p, s) ==
    \E i \in DOMAIN down[p] : down[p][i].kind = "ping" /\ down[p][i].from = s

(* Whatever is queued, dropped, reloaded or relayed in between: a client   *)
(* that listens has taken everything from the native queue, and once no    *)
(* more of a sender's pings are under way to it, its marker for that       *)
(* sender is at the last one relayed to it, or at none since the interface *)
(* was built (OnServerPing, pullServerPings).  Players also see each ping  *)
(* of their own at once: theirs may be one that nobody else ever sees,     *)
(* because two pings a second apart reached the server closer together.    *)
MarkersSettle ==
    /\ TypeOK
    /\ \A p \in listening :
        /\ updates[p] = << >>
        /\ \A s \in Players : ~UnderWay(p, s) =>
              marker[p][s] \in {0, latest[p][s]} \cup (IF p = s THEN {made[s]} ELSE {})

(* A ping the server accepted is shown to everyone of the sender's group   *)
(* on its map, or a later one is, unless that client stops listening; a    *)
(* client whose addon came before the bridge never listens.                *)
PingIsShown ==
    \A p, s \in Players : \A n \in 1..MaxPings[s] :
        (p \in listening /\ latest[p][s] = n)
            ~> (p \notin listening \/ marker[p][s] >= n)

=============================================================================
