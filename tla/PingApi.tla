------------------------------- MODULE PingApi --------------------------------
(***************************************************************************)
(* One ping on its way through the native side (RadialPing.cpp): picked    *)
(* under the cursor, kept by the API that kBootstrap gives to scripts, put *)
(* into a packet, read by the server, and read again by a member of the    *)
(* group, whose marker follows the unit.  A packet is a sequence of bytes, *)
(* fewer than the real ones: two for a place, one for half of a guid and   *)
(* for a length.  A name is a sequence of characters.                      *)
(***************************************************************************)
EXTENDS Integers, Sequences, SequencesExt, FiniteSets

CONSTANTS Places,       \* where the cursor may point; scripts pass others too
          UnitGuids,    \* pairs of halves, some with a half that is zero
          Characters,   \* what names are made of: Letter, Colon, Blank and others
          UnitNames,    \* sequences of characters
          MaxUnitName   \* 64, for the name of a sender as well

VARIABLES under,    \* what lies under the cursor: [kind, place, guid]
          hit,      \* Secure.hit, or NoHit
          fresh,    \* no ping was made of that hit yet
          sender,   \* the addon: [loaded, hot]
          theirs,   \* functions of the API that another extension defined first
          request,  \* the packet under way to the server, with what it should say
          received  \* the last update, with what it should say, and where its marker is

apiVars == <<under, hit, fresh, sender, theirs, request, received>>

NoGuid == <<0, 0>>
NoHit == [place |-> "nil", guid |-> NoGuid]
NoRequest == [bytes |-> << >>, means |-> << >>, aimed |-> TRUE]
NoUpdate == [means |-> << >>, says |-> << >>, at |-> "picked"]
ApiFunctions == {"set", "clear", "send", "setAndSend", "macro"}

ApiInit ==
    /\ under = [kind |-> "sky", place |-> "nil", guid |-> NoGuid]
    /\ hit = NoHit /\ fresh = TRUE /\ sender = [loaded |-> FALSE, hot |-> FALSE]
    /\ theirs \in {{}} \cup {{f} : f \in ApiFunctions}
    /\ request = NoRequest /\ received = NoUpdate

-----------------------------------------------------------------------------
(* Packets.                                                                *)

\* A record with the fields of both.
Joined(r, s) == [x \in DOMAIN r \cup DOMAIN s |-> IF x \in DOMAIN r THEN r[x] ELSE s[x]]

Half(h) == <<"half", h>>
PlaceBytes(p) == <<<<"first", p>>, <<"last", p>>>>
AppendString(name) == <<<<"length", Len(name)>>>> \o name
Head5(u) == <<<<"type", u.type>>>> \o PlaceBytes(u.place) \o <<Half(u.guid[1]), Half(u.guid[2])>>
FixedRequest == 6
FixedResponse == 7

Letter == <<"char", "a">>
Colon == <<"char", ":">>
Blank == <<"char", " ">>
Clean(name) == [k \in DOMAIN name |-> IF name[k] = Colon THEN Blank ELSE name[k]]
Shortened(name) == [k \in DOMAIN name \cap (1 .. MaxUnitName) |-> name[k]]

ASSUME PingAssumption ==
    /\ MaxUnitName \in Nat /\ UnitNames \subseteq Seq(Characters) /\ {Letter, Colon, Blank} \subseteq Characters
    /\ \A guid \in UnitGuids : guid = <<guid[1], guid[2]>>
    /\ "nan" \notin Places

Bad == [ok |-> FALSE]
ReadString(bytes, at) ==
    LET size == bytes[at][2]
    IN  IF at <= Len(bytes) /\ size <= MaxUnitName /\ at + size <= Len(bytes)
        THEN [ok |-> TRUE, value |-> SubSeq(bytes, at + 1, at + size), next |-> at + size + 1]
        ELSE Bad
ReadHead(bytes) ==
    [type |-> bytes[1][2], place |-> bytes[2][2], guid |-> <<bytes[4][2], bytes[5][2]>>]

CompleteUnbounded(bytes, read) == read.ok
Complete(bytes, read) == read.ok /\ read.next = Len(bytes) + 1

\* Numbers of scripts become a byte; what is no number of a type is refused.
Byte(t) == t % 256
Finite(place) == place # "nan"
NearEnough(place) == place # "far"
LuaSendServerPing(t, place, guid, name) ==
    LET u == [type |-> Byte(t), place |-> place, guid |-> guid, name |-> Clean(Shortened(name))]
    IN  IF u.type > 3 \/ ~Finite(place) THEN NoRequest
        ELSE [bytes |-> Head5(u) \o AppendString(u.name), means |-> u, aimed |-> TRUE]

-----------------------------------------------------------------------------
(* What the client says of the world; a fault in it is an answer.          *)

LuaPickCursor ==
    CASE under.kind \in {"sky", "fault"} -> NoHit
      [] under.kind = "unit" -> [place |-> under.place, guid |-> under.guid]
      [] OTHER -> [place |-> under.place, guid |-> NoGuid]
Picked == LuaPickCursor # NoHit

(* Above a unit's name, when that is where a name can be; else above its   *)
(* head, or at its feet when its size makes no sense.                      *)
LuaUnitPosition(u) ==
    CASE ~u.resolves \/ u.faults \/ u.base = "nan" -> "nil"
      [] u.resolves /\ ~u.faults /\ u.base = "ok" /\ (u.name = "near" \/ u.size = "ok") -> "overhead"
      [] OTHER -> "feet"

-----------------------------------------------------------------------------
(* The API and the addon.                                                  *)

SubjectNames == <<"Assist", "Attack", "OnMyWay", "Warning">>
SubjectName(t) == IF t \in 0 .. 3 THEN SubjectNames[t + 1] ELSE "Warning"
PingNames == <<"OnMyWay", "Attack", "Warning", "Assist">>
PingCode(name) == (CHOOSE k \in 1 .. 4 : PingNames[k] = name) - 1

\* The addon's SendPing: silently nothing within a second of the last ping.
AddonSends(t, target, isFresh, grouped) ==
    /\ sender' = [sender EXCEPT !.hot = TRUE]
    /\ request' =
          IF sender.hot \/ ~grouped THEN request
          ELSE [LuaSendServerPing(PingCode(SubjectName(t)), target.place, target.guid, << >>)
                  EXCEPT !.aimed = isFresh /\ Finite(target.place), !.means = Joined(@, [subject |-> SubjectName(t)])]

SendPickedKept(t, target, isFresh, grouped) ==
    IF target = NoHit \/ ~sender.loaded THEN hit' = target /\ fresh' = isFresh /\ UNCHANGED <<sender, request>>
    ELSE AddonSends(t, target, isFresh, grouped) /\ hit' = target /\ fresh' = FALSE
SendPicked(t, target, isFresh, grouped) ==
    IF target = NoHit \/ ~sender.loaded THEN hit' = target /\ fresh' = isFresh /\ UNCHANGED <<sender, request>>
    ELSE AddonSends(t, target, isFresh, grouped) /\ hit' = NoHit /\ fresh' = TRUE

Warning == 3
SetHitTestPingTarget ==
    /\ "set" \notin theirs /\ Picked
    /\ hit' = LuaPickCursor /\ fresh' = TRUE /\ UNCHANGED <<sender, request>>
ClearHitTestPingInfo ==
    "clear" \notin theirs /\ hit' = NoHit /\ fresh' = TRUE /\ UNCHANGED <<sender, request>>
SendHitTestPing(t, grouped) == "send" \notin theirs /\ SendPicked(t, hit, fresh, grouped)
\* It asks whichever SetHitTestPingTarget is there.
SetHitTestTargetAndSendPing(grouped) ==
    /\ "setAndSend" \notin theirs
    /\ IF "set" \in theirs THEN SendPicked(Warning, hit, fresh, grouped)
       ELSE Picked /\ SendPicked(Warning, LuaPickCursor, TRUE, grouped)
SendMacroPing(t, grouped) == "macro" \notin theirs /\ Picked /\ SendPicked(t, LuaPickCursor, TRUE, grouped)

-----------------------------------------------------------------------------
(* The server and the group.                                               *)

\* A guid is only kept for a unit that the server finds, with its own place.
HandleRadialPing(bytes, found, name) ==
    LET head == ReadHead(bytes)
        read == ReadString(bytes, FixedRequest)
    IN  IF ~(Len(bytes) \in FixedRequest .. FixedRequest + MaxUnitName) \/ head.type > 3 \/ ~Finite(head.place)
             \/ ~NearEnough(head.place) \/ ~Complete(bytes, read)
        THEN << >>
        ELSE CASE head.guid = NoGuid -> Joined(head, [name |-> Clean(read.value)])
               [] head.guid # NoGuid /\ found -> Joined([head EXCEPT !.place = "unit"], [name |-> Shortened(name)])
               [] OTHER -> Joined([head EXCEPT !.guid = NoGuid], [name |-> << >>])
Response(u, senderName) == Head5(u) \o AppendString(u.name) \o AppendString(senderName)

\* A packet may end anywhere, or go on.
Altered(bytes) == {bytes, bytes \o <<Letter>>} \cup {SubSeq(bytes, 1, n) : n \in 0 .. Len(bytes) - 1}

\* The values on the script's stack, and what the addon calls them.
LuaPopServerPing(u) == <<u.type, u.place, u.guid[1], u.guid[2], u.name, u.sender>>
PullOne(v) == [type |-> v[1], place |-> v[2], guid |-> <<v[3], v[4]>>, name |-> v[5], sender |-> v[6]]

OnServerPing(bytes, meant) ==
    LET first == ReadString(bytes, FixedResponse - 1)
        second == ReadString(bytes, first.next)
    IN  IF /\ Len(bytes) >= FixedResponse /\ ReadHead(bytes).type <= 3
           /\ first.ok /\ Complete(bytes, second) /\ Finite(ReadHead(bytes).place)
        THEN [means |-> meant, at |-> "picked",
              says |-> PullOne(LuaPopServerPing(Joined(ReadHead(bytes), [name |-> first.value, sender |-> second.value])))]
        ELSE received

\* ApplyPing knows a ping of a place by its guid, which is zero.
FollowsUnit(u) == u # << >> /\ u.guid # NoGuid

-----------------------------------------------------------------------------

PointAt(thing) == under' = thing /\ UNCHANGED <<hit, fresh, sender, theirs, request, received>>
\* The model follows one ping: a new one takes the place of the last.
Follows == received' = IF request' = request THEN received ELSE NoUpdate
ApiCall == UNCHANGED <<under, theirs>> /\ Follows

Relay(found, name, senderName) ==
    /\ request # NoRequest
    /\ LET update == HandleRadialPing(request.bytes, found, name)
       IN  IF update = << >> THEN UNCHANGED received
           ELSE \E bytes \in Altered(Response(update, senderName)) :
                  received' = OnServerPing(bytes, Joined(update, [sender |-> senderName, intact |-> bytes = Response(update, senderName)]))
    /\ request' = NoRequest /\ UNCHANGED <<under, hit, fresh, sender, theirs>>

\* Bound: nobody points anywhere meanwhile.  What follows reads nothing of it.
Quiet == under.kind = "sky" /\ hit = NoHit

\* Any script may call send_server with numbers of its own.
ScriptSends(t, place, guid, name) ==
    /\ Quiet
    /\ request' = LuaSendServerPing(t, place, guid, name) /\ Follows
    /\ UNCHANGED <<under, hit, fresh, sender, theirs>>

UpdatePosition(u) ==
    /\ Quiet /\ FollowsUnit(received.says)
    /\ received' = [received EXCEPT !.at = IF LuaUnitPosition(u) = "nil" THEN @ ELSE LuaUnitPosition(u)]
    /\ UNCHANGED <<under, hit, fresh, sender, theirs, request>>

LoadAddOn == sender' = [sender EXCEPT !.loaded = TRUE]
             /\ UNCHANGED <<under, hit, fresh, theirs, request, received>>
Cool == sender' = [sender EXCEPT !.hot = FALSE] /\ UNCHANGED <<under, hit, fresh, theirs, request, received>>

Things == [kind : {"sky", "fault"}, place : {"nil"}, guid : {NoGuid}]
            \cup [kind : {"ground"}, place : Places, guid : {NoGuid}]
            \cup [kind : {"doodad", "unit"}, place : Places, guid : UnitGuids]
UnitStates == [resolves : BOOLEAN, faults : BOOLEAN, base : {"ok", "nan"}, name : {"near", "far"},
               size : {"ok", "wild"}]

ApiNext ==
    \/ \E thing \in Things : PointAt(thing)
    \/ (SetHitTestPingTarget \/ ClearHitTestPingInfo) /\ ApiCall
    \/ \E grouped \in BOOLEAN :
          \/ SetHitTestTargetAndSendPing(grouped) /\ ApiCall
          \/ \E t \in 0 .. 4 : (SendHitTestPing(t, grouped) \/ SendMacroPing(t, grouped)) /\ ApiCall
    \/ \E found \in BOOLEAN, name, senderName \in UnitNames : Relay(found, name, Shortened(senderName))
    \/ \E t \in {3, 4, 256}, place \in Places \cup {"nan", "far"}, guid \in UnitGuids \cup {NoGuid}, name \in UnitNames :
          ScriptSends(t, place, guid, name)
    \/ \E u \in UnitStates : UpdatePosition(u)
    \/ LoadAddOn \/ Cool

ApiSpec == ApiInit /\ [][ApiNext]_apiVars

-----------------------------------------------------------------------------

\* What the server finds in a packet that this side made.
ReadBack(bytes, u) ==
    LET read == ReadString(bytes, FixedRequest)
    IN  /\ Len(bytes) <= FixedRequest + MaxUnitName /\ Complete(bytes, read)
        /\ ReadHead(bytes) = [type |-> u.type, place |-> u.place, guid |-> u.guid] /\ read.value = u.name

(* Whoever asks for a ping, and whichever functions of the API are those   *)
(* of another extension: one pick makes at most one ping, of the subject   *)
(* that was asked for in the numbers of another table; the server reads    *)
(* every packet that a client builds, as it was meant; what a member reads *)
(* is what the server meant, of a packet that arrived whole; and nobody    *)
(* follows a unit which the server did not find.                           *)
PingsAreAimed ==
    /\ request # NoRequest =>
         /\ request.aimed /\ ReadBack(request.bytes, request.means)
         /\ "subject" \in DOMAIN request.means =>
               PingNames[ReadHead(request.bytes).type + 1] = request.means.subject
    /\ received # NoUpdate =>
         /\ received.means.intact
         /\ \A field \in DOMAIN received.says : received.says[field] = received.means[field]
         /\ FollowsUnit(received.says) => received.says.place = "unit"
==============================================================================
