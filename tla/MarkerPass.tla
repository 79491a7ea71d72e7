------------------------------ MODULE MarkerPass ------------------------------
(***************************************************************************)
(* What the quest marker shows: the state the addon sets through script    *)
(* functions, the pass at the end of the world that draws it, and the      *)
(* numbers that pass leaves for the labels (QuestMarker.cpp and the        *)
(* drawing half of QuestMarker.lua).                                       *)
(*                                                                         *)
(* A frame is one step.  Of the camera the model keeps how the pass finds  *)
(* it, of a marker's position where it falls in the picture, and of the    *)
(* device the four settings the pass changes in between its own draws.     *)
(***************************************************************************)
EXTENDS Integers, Sequences, SequencesExt, FiniteSets

CONSTANT MarkerQuests

ASSUME MarkerAssumption == IsFiniteSet(MarkerQuests)

VARIABLES
    markers,     \* m_markers: the quests in the order they were set
    corpse, dead, diamond, \* m_corpseActive, m_deadState, m_trackerDiamondActive
    settings,    \* m_settings: enabled, showMarker, showOffscreen
    inMap,       \* the client has a map and a player
    texture,     \* m_deviceReady with or without m_d3dTexture
    capacity,    \* m_vbSize, in markers; 0 without a buffer
    warmup,      \* m_worldEnterFrameCount
    valid, corpseValid, \* m_markerValid, m_corpseNdcValid
    number,      \* the quest whose place m_ndcX, m_ndcY and m_dist hold, and if the last frame put it there
    frame        \* the frame just drawn: its draws, what it left changed, if it had to show the corpse and did

toldBy == <<markers, corpse, dead, diamond, settings>>
onDevice == <<texture, capacity>>
labels == <<valid, corpseValid, number>>
markerVars == <<toldBy, inMap, onDevice, warmup, labels, frame>>

NoNumber == [quest |-> "none", fresh |-> FALSE]
NoFrame == [draws |-> {}, left |-> {}, corpseDue |-> FALSE, corpseShown |-> FALSE]
Between == frame' = NoFrame

MarkerInit ==
    /\ markers = << >> /\ corpse = FALSE /\ dead = FALSE /\ diamond = FALSE
    /\ settings = [enabled |-> TRUE, showMarker |-> TRUE, showOffscreen |-> TRUE]
    /\ inMap = FALSE /\ texture = "unready" /\ capacity = 0 /\ warmup = 0
    /\ valid = FALSE /\ corpseValid = FALSE /\ number = NoNumber /\ frame = NoFrame

-----------------------------------------------------------------------------
(* The script functions, as the addon and the packets it pulls use them.   *)

SetMarker(q, active) ==
    /\ markers' = IF ~active THEN RemoveFirst(markers, q)
                  ELSE IF Contains(markers, q) THEN markers ELSE Append(markers, q)
    /\ UNCHANGED <<corpse, dead, diamond, settings>>
ClearAllMarkers ==
    markers' = << >> /\ UNCHANGED <<corpse, dead, diamond, settings>>
SetCorpse(on) ==
    corpse' = on /\ UNCHANGED <<markers, dead, diamond, settings>>
(* PLAYER_DEAD; PLAYER_ALIVE and PLAYER_UNGHOST also take the corpse away. *)
SetDeadState(on) ==
    /\ dead' = on /\ corpse' = (corpse /\ on)
    /\ UNCHANGED <<markers, diamond, settings>>
SetTrackerDiamond(on) ==
    diamond' = (on /\ settings.enabled) /\ UNCHANGED <<markers, corpse, dead, settings>>
(* applySelectedMarker takes the markers away when either option is off.   *)
ReloadSettings(s) ==
    /\ settings' = s
    /\ markers' = IF s.enabled /\ s.showMarker THEN markers ELSE << >>
    /\ diamond' \in {diamond, diamond /\ s.enabled}
    /\ UNCHANGED <<corpse, dead>>

Script ==
    /\ inMap
    /\ \/ \E q \in MarkerQuests, active \in BOOLEAN : SetMarker(q, active)
       \/ ClearAllMarkers
       \/ \E on \in BOOLEAN : SetCorpse(on) \/ SetDeadState(on) \/ SetTrackerDiamond(on)
       \/ \E s \in [enabled : BOOLEAN, showMarker : BOOLEAN, showOffscreen : BOOLEAN] :
             ReloadSettings(s)
    /\ Between
    /\ UNCHANGED <<inMap, onDevice, warmup, labels>>

-----------------------------------------------------------------------------
(* Events of the world and of the device.                                  *)

Forget ==
    /\ markers' = << >> /\ corpse' = FALSE /\ dead' = FALSE
    /\ valid' = FALSE /\ corpseValid' = FALSE

(* InitDevice: once ready it returns at once, with a texture or without.   *)
Initialised(found) ==
    IF texture # "unready" THEN texture ELSE IF found THEN "loaded" ELSE "missing"

OnWorldEnter ==
    /\ ~inMap /\ inMap' = TRUE /\ warmup' = 0
    /\ Forget /\ diamond' = FALSE
    /\ \E found \in BOOLEAN : texture' = Initialised(found)
    /\ Between
    /\ UNCHANGED <<settings, capacity, number>>
OnWorldLeave ==
    /\ inMap /\ inMap' = FALSE
    /\ Forget
    /\ texture' = "unready" /\ capacity' = 0
    /\ Between
    /\ UNCHANGED <<settings, diamond, warmup, number>>
(* A logout to the character list: no event tells of it.                   *)
LogOut ==
    /\ inMap /\ inMap' = FALSE
    /\ Between
    /\ UNCHANGED <<toldBy, onDevice, warmup, labels>>
DeviceReset ==
    /\ capacity' = 0
    /\ \E found \in BOOLEAN : texture' = IF found THEN "loaded" ELSE "missing"
    /\ Between
    /\ UNCHANGED <<toldBy, inMap, warmup, labels>>

-----------------------------------------------------------------------------
(* The pass.  Between Capture and Restore the device goes through states d,*)
(* and every draw is noted with the state it happens in.                   *)

Captured == {"shaders", "texture", "blending", "depth", "cull", "lighting", "stencil", "stages",
             "sampler", "transforms", "stream", "format", "alphaTest"}
Setup == {"shaders", "texture", "blending", "depth", "cull", "lighting", "stencil", "stages", "sampler"}
Left(touched) == touched \ Captured

Camera == [space |-> "world", depth |-> TRUE, alphaTest |-> "client"]
Screen(d) == [space |-> "screen", depth |-> FALSE, alphaTest |-> d.alphaTest]
Draw(what, d) == [what |-> what, in |-> d, written |-> TRUE, skipped |-> FALSE]

(* Section 1: the corpse, in front of the camera or not; the alpha test is *)
(* put back at once.                                                       *)
CorpseDraws(ahead) ==
    IF corpse /\ ahead THEN {Draw("corpse", [Camera EXCEPT !.alphaTest = "cut"])} ELSE {}

(* Section 3: the diamond of the objective tracker, in screen space, after *)
(* which the camera is put back.                                           *)
DiamondDraws == IF diamond THEN {Draw("diamond", Screen(Camera))} ELSE {}
CameraForgotten == IF diamond THEN Screen(Camera) ELSE Camera
AfterDiamond == Camera

(* Section 2: the vertices of the markers within reach are written one     *)
(* after the other; the loop that draws steps over the others too.         *)
Near(place, q) == place[q] # "far"
InReach(place) == {i \in DOMAIN markers : Near(place, markers[i])}
Filled(place) == Cardinality(InReach(place))
MarkerDraw(place, i) ==
    [Draw("marker", AfterDiamond) EXCEPT
        !.written = i <= Filled(place), !.skipped = 1 .. i - 1 \ InReach(place) # {}]
MarkerDraws(place) ==
    {MarkerDraw(place, i) : i \in {n \in DOMAIN markers : place[markers[n]] \in {"onscreen", "aside"}}}

(* The first marker within reach owns the distance and the indicator.      *)
Candidate(place) == markers[Min(InReach(place))]
IndicatorDraws(place) ==
    IF settings.showOffscreen /\ place[Candidate(place)] # "onscreen"
    THEN {Draw("indicator", Screen(AfterDiamond))} ELSE {}

MarkersDue(place) ==
    /\ settings.enabled /\ settings.showMarker /\ ~corpse /\ ~dead
    /\ Filled(place) > 0

(* The early returns that find nothing to draw.                            *)
NothingToDraw ==
    \/ markers = << >> /\ ~corpse /\ ~diamond
    \/ ~settings.enabled /\ ~corpse /\ ~diamond
    \/ ~settings.showMarker /\ markers = << >> /\ ~diamond

Stale == [number EXCEPT !.fresh = FALSE]
ValidKept == valid
ValidCleared == FALSE
Return == valid' = ValidCleared /\ number' = Stale

(* InitDevice ran, and the camera is there: the pass can draw.             *)
Loads == texture \in {"unready", "loaded"} /\ texture' = "loaded"
Ready == inMap /\ warmup = 3 /\ Loads

SkipFrame ==
    /\ NothingToDraw
    /\ Return
    /\ frame' = [NoFrame EXCEPT !.corpseDue = corpse /\ inMap /\ warmup = 3 /\ texture = "loaded"]
    /\ UNCHANGED <<toldBy, inMap, onDevice, warmup, corpseValid>>
(* A frame outside any world forgets what the last session left behind.    *)
GhostFrame ==
    /\ ~NothingToDraw /\ ~inMap
    /\ Forget /\ diamond' = FALSE
    /\ number' = Stale /\ Between
    /\ UNCHANGED <<settings, inMap, onDevice, warmup>>

(* No device, no texture, no camera yet or one at the origin, or one of    *)
(* the first frames.                                                       *)
UnreadyFrame ==
    /\ ~NothingToDraw /\ inMap
    /\ \/ texture' \in {texture, Initialised(TRUE), Initialised(FALSE)} /\ UNCHANGED warmup
       \/ Loads /\ warmup < 3 /\ warmup' = warmup + 1
    /\ Return
    /\ frame' = [NoFrame EXCEPT !.left = Left(Setup \cup {"transforms"})]
    /\ UNCHANGED <<toldBy, inMap, capacity, corpseValid>>

(* The camera's axes are still zero: valid takes over what the corpse had. *)
FlatCameraFrame ==
    /\ ~NothingToDraw /\ Ready
    /\ valid' = corpseValid /\ number' = Stale
    /\ frame' = [NoFrame EXCEPT !.left = Left(Setup \cup {"transforms"})]
    /\ UNCHANGED <<toldBy, inMap, capacity, warmup, corpseValid>>

Shown(draws, touched) ==
    [draws |-> draws, left |-> Left(Setup \cup touched), corpseDue |-> corpse, corpseShown |-> corpseValid']

(* A new vertex buffer has room for 32 vertices more than needed.          *)
Grown(place) == IF capacity >= Filled(place) THEN capacity ELSE Filled(place) + 5

(* Corpse and diamond, and the markers are not due or get no buffer.       *)
FrameWithoutMarkers ==
    /\ ~NothingToDraw /\ Ready
    /\ \E place \in [MarkerQuests -> {"onscreen", "aside", "behind", "far"}], ahead \in BOOLEAN :
        /\ \/ ~MarkersDue(place) /\ UNCHANGED capacity
           \/ MarkersDue(place) /\ capacity < Filled(place) /\ capacity' = 0
           \/ MarkersDue(place) /\ capacity' = Grown(place)
        /\ corpseValid' = corpse
        /\ frame' = Shown(CorpseDraws(ahead) \cup DiamondDraws,
                          {"transforms", "stream", "format", "alphaTest"})
    /\ valid' = corpse /\ number' = Stale
    /\ UNCHANGED <<toldBy, inMap, warmup>>

FrameWithMarkers ==
    /\ ~NothingToDraw /\ Ready
    /\ \E place \in [MarkerQuests -> {"onscreen", "aside", "behind", "far"}], projects \in BOOLEAN :
        /\ MarkersDue(place)
        /\ capacity' = Grown(place)
        /\ corpseValid' = FALSE
        /\ frame' = Shown(DiamondDraws \cup MarkerDraws(place) \cup IndicatorDraws(place),
                          {"transforms", "stream", "format"})
        /\ LET first == Candidate(place)
               stored == place[first] = "onscreen" /\ projects
           IN  /\ valid' = stored
               /\ number' = IF stored THEN [quest |-> first, fresh |-> TRUE] ELSE Stale
    /\ UNCHANGED <<toldBy, inMap, warmup>>

OnWorldRenderEnd ==
    SkipFrame \/ GhostFrame \/ UnreadyFrame \/ FlatCameraFrame
        \/ FrameWithoutMarkers \/ FrameWithMarkers

MarkerNext == Script \/ OnWorldEnter \/ OnWorldLeave \/ LogOut \/ DeviceReset \/ OnWorldRenderEnd

MarkerSpec == MarkerInit /\ [][MarkerNext]_markerVars

-----------------------------------------------------------------------------

MarkerTypeOK ==
    /\ IsInjective(markers) /\ ToSet(markers) \subseteq MarkerQuests
    /\ texture \in {"unready", "missing", "loaded"} /\ warmup \in 0 .. 3
    /\ capacity \in 0 .. Cardinality(MarkerQuests) + 5

(* Every draw of a frame finds the device as it needs it, whatever was     *)
(* drawn before it: what stands in the world under the camera and behind   *)
(* walls, what belongs to the screen without either, no icon with the      *)
(* corpse's alpha test.  It reads vertices the frame has written; the      *)
(* exception is a marker after one that is out of reach.  The client gets  *)
(* back every setting as it was.  And the labels go by numbers of the last *)
(* frame: GetDistInfo never answers with those of an earlier one, which    *)
(* would be text without an icon; the exception is the answer of a frame   *)
(* that had a corpse, which the addon does not ask for before the corpse   *)
(* is gone.                                                                *)
DrawsInPlace ==
    /\ MarkerTypeOK
    /\ valid => number.fresh \/ corpseValid
    /\ frame.corpseDue => frame.corpseShown \/ ~settings.showMarker
    /\ frame.left = {}
    /\ \A draw \in frame.draws :
        /\ (draw.in.space = "world") <=> draw.what \in {"corpse", "marker"}
        /\ draw.in.depth <=> draw.in.space = "world"
        /\ draw.what # "corpse" => draw.in.alphaTest = "client"
        /\ draw.what = "marker" => draw.written \/ draw.skipped
=============================================================================
