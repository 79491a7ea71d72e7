------------------------------ MODULE PingAddon ------------------------------
(***************************************************************************)
(* The two parts of the RadialPing addon that a player sees: the wheel a   *)
(* ping is chosen with (Wheel.lua) and the frame a ping is shown in        *)
(* (World.lua).  They share no state: the ping is what goes from one to    *)
(* the other, over the server (PingApi).                                   *)
(***************************************************************************)
EXTENDS Integers

(***************************************************************************)
(* The ping wheel of the addon (RadialPing/Wheel.lua, and the bindings and *)
(* the relaxed mode's poller of Init.lua).  A binding opens it, the cursor *)
(* chooses a slot by its direction from where the wheel was opened, and    *)
(* letting go of the left button on a slot sends the ping.                 *)
(*                                                                         *)
(* The client runs one script at a time; each script is a step.  The       *)
(* cursor is its direction from the wheel's origin and the point of the    *)
(* world under it; the time of a tween is left out: it ends at any update. *)
(***************************************************************************)
CONSTANTS
    Slots,    \* addon.WHEEL_SLOTS
    Points,   \* places of the world
    Nothing   \* nil: no slot, or no place under the cursor

VARIABLES
    wheel,    \* the wheel's frame
    poller,   \* relaxedPoller:IsShown()
    mode,     \* RadialPingDB.pingMode
    cursor,   \* what SetCursor was last given: "pin" or "nil"
    mouse,    \* [button, at (direction), over (place)]
    looking,  \* IsMouselooking()
    sent,     \* the last ping a wheel sent
    openedAt  \* the place under the cursor when the wheel was opened

wheelVars == <<wheel, poller, mode, cursor, mouse, looking, sent, openedAt>>

WheelInit ==
    /\ wheel = [shown |-> FALSE, tween |-> "none", selected |-> Nothing, armed |-> FALSE,
                wasLooking |-> FALSE, anchor |-> Nothing]
    /\ poller = FALSE /\ mode = "direct" /\ cursor = "nil"
    /\ mouse \in [button : {FALSE}, at : {Nothing}, over : Points \cup {Nothing}]
    /\ looking \in BOOLEAN /\ sent = [slot |-> Nothing] /\ openedAt = Nothing

-----------------------------------------------------------------------------
(* The wheel.                                                              *)

IsWheelOpen == wheel.shown /\ wheel.tween # "out"

(* OpenWheel: a wheel that is fading out is opened again.  The origin of   *)
(* directions is where the cursor is.                                      *)
OpenWheel ==
    IF IsWheelOpen THEN UNCHANGED <<wheel, cursor, looking, mouse, openedAt>> ELSE
    /\ wheel' = [wheel EXCEPT !.shown = TRUE, !.tween = "in", !.selected = Nothing,
                              !.wasLooking = looking, !.anchor = mouse.over]
    /\ looking' = FALSE /\ cursor' = "pin"
    /\ mouse' = [mouse EXCEPT !.at = Nothing] /\ openedAt' = mouse.over

(* CloseWheel of the wheel w, its selection committed or not.  SendPing    *)
(* looks under the cursor when the wheel was opened over nothing, and      *)
(* gives up when there still is nothing.                                   *)
ClosedWith(w) == [w EXCEPT !.tween = "out", !.wasLooking = FALSE, !.selected = Nothing]
Aim(w) == IF w.anchor = Nothing THEN mouse.over ELSE w.anchor
Closed(w, commit) ==
    /\ wheel' = ClosedWith(w)
    /\ cursor' = "nil" /\ looking' = (looking \/ w.wasLooking)
    /\ sent' = IF commit /\ w.selected # Nothing /\ Aim(w) # Nothing
               THEN [slot |-> w.selected, point |-> Aim(w),
                     wanted |-> mouse.at, opened |-> openedAt]
               ELSE sent
CloseWheel == IF IsWheelOpen THEN Closed(wheel, FALSE)
              ELSE UNCHANGED <<wheel, cursor, looking, sent>>

(* onUpdate.                                                               *)
FadeOut ==
    /\ wheel.shown /\ wheel.tween = "out"
    /\ wheel' = [wheel EXCEPT !.shown = FALSE, !.tween = "none"]
    /\ UNCHANGED <<poller, mode, cursor, mouse, looking, sent, openedAt>>

(* The selection follows the cursor; a button seen down arms the click,    *)
(* and an armed click ends, and commits a selected slot, once it is up.    *)
Update ==
    /\ IsWheelOpen
    /\ \E t \in {wheel.tween, "none"} :
       LET w == [wheel EXCEPT !.tween = t, !.selected = mouse.at, !.armed = mouse.button] IN
       IF ~mouse.button /\ wheel.armed /\ w.selected # Nothing
       THEN Closed(w, TRUE)
       ELSE wheel' = w /\ UNCHANGED <<cursor, looking, sent>>
    /\ UNCHANGED <<poller, mode, mouse, openedAt>>

-----------------------------------------------------------------------------
(* Bindings and the relaxed mode.                                          *)

StopPollerOnly == poller' = FALSE /\ UNCHANGED cursor
StopPoller == poller' = FALSE /\ cursor' = "nil"

(* RadialPing_OnBinding                                                    *)
OnBinding ==
    /\ \/ IsWheelOpen /\ CloseWheel /\ UNCHANGED <<poller, mouse, openedAt>>
       \/ /\ ~IsWheelOpen /\ mode = "direct"
          /\ OpenWheel /\ UNCHANGED <<poller, sent>>
       \/ /\ ~IsWheelOpen /\ mode = "relaxed"
          /\ IF poller THEN StopPoller ELSE poller' = TRUE /\ UNCHANGED cursor
          /\ UNCHANGED <<wheel, mouse, looking, sent, openedAt>>
    /\ UNCHANGED mode

(* PingAtCursor, of the direct bindings: the wheel makes way for it.       *)
PingAtCursor ==
    /\ CloseWheel
    /\ UNCHANGED <<poller, mode, mouse, openedAt>>

(* relaxedPoller's OnUpdate                                                *)
Poll ==
    /\ poller
    /\ IF mouse.button
       THEN poller' = FALSE /\ OpenWheel
       ELSE cursor' = "pin" /\ UNCHANGED <<poller, wheel, looking, mouse, openedAt>>
    /\ UNCHANGED <<mode, sent>>

(* The options panel and /radialping                                       *)
SetMode(m) ==
    /\ mode' = m
    /\ UNCHANGED <<wheel, poller, cursor, mouse, looking, sent, openedAt>>

-----------------------------------------------------------------------------
(* The player.                                                             *)

MoveMouse ==
    /\ \E at \in Slots \cup {Nothing}, over \in Points \cup {Nothing} :
          mouse' = [mouse EXCEPT !.at = at, !.over = over]
    /\ UNCHANGED <<wheel, poller, mode, cursor, looking, sent, openedAt>>
Click ==
    /\ mouse' = [mouse EXCEPT !.button = ~@]
    /\ UNCHANGED <<wheel, poller, mode, cursor, looking, sent, openedAt>>
Look ==
    /\ looking' = ~looking
    /\ UNCHANGED <<wheel, poller, mode, cursor, mouse, sent, openedAt>>

WheelNext ==
    \/ Update \/ FadeOut \/ OnBinding \/ PingAtCursor \/ Poll
    \/ \E m \in {"direct", "relaxed"} : SetMode(m)
    \/ MoveMouse \/ Click \/ Look

WheelSpec == WheelInit /\ [][WheelNext]_wheelVars

-----------------------------------------------------------------------------

WheelTypeOK ==
    /\ wheel.tween \in {"none", "in", "out"} /\ wheel.selected \in Slots \cup {Nothing}
    /\ poller \in BOOLEAN /\ cursor \in {"pin", "nil"} /\ mode \in {"direct", "relaxed"}

(* The addon's cursor is up while the wheel is open, and otherwise only    *)
(* while the relaxed mode waits for its click; a wheel that is closed or   *)
(* fading selects nothing and owes nobody a mouselook; and the ping it     *)
(* sent is of the slot the cursor pointed to, for the place the wheel was  *)
(* opened over, wherever the cursor went to choose (OpenWheel, CloseWheel, *)
(* onUpdate, RadialPing_OnBinding, relaxedPoller).                         *)
CursorTellsTheTruth ==
    /\ WheelTypeOK
    /\ IsWheelOpen => cursor = "pin"
    /\ cursor = "pin" => IsWheelOpen \/ poller
    /\ ~IsWheelOpen => wheel.selected = Nothing /\ ~wheel.wasLooking
    /\ sent.slot # Nothing =>
          sent.slot = sent.wanted /\ sent.opened \in {sent.point, Nothing}

-----------------------------------------------------------------------------
(***************************************************************************)
(* How a ping is shown (RadialPing/World.lua): one frame per sender, which *)
(* the sender's next ping takes over in whatever state the last one left   *)
(* it.  A frame rises once, and turns into a pointer at the screen's edge  *)
(* while its place, or its unit, is not in view.                           *)
(*                                                                         *)
(* Time is left out but for its order: a rise may complete, and a lifetime *)
(* end, at any update.  Where a place is on the screen is what the native  *)
(* projection says, which may change with every bubble.                     *)
(***************************************************************************)
VARIABLES
    bubble,  \* the frame of activePings[sender]
    parts,   \* the textures of it that are shown, and "blip" on the minimap
    raw      \* lastRawX, lastRawY: "in" or "out" of the margins, or "nil"

frameVars == <<bubble, parts, raw>>

Marker == {"bg", "pin", "flipbook", "stroke"}
Pointer == {"clampedBg", "clampedPointer"}

(* createFrame                                                             *)
FrameInit ==
    /\ bubble = [shown |-> FALSE, world |-> TRUE, risen |-> FALSE, clamped |-> FALSE]
    /\ parts = {"bg", "pin"} /\ raw = "nil"

-----------------------------------------------------------------------------
(* One update.                                                             *)

(* setClampedState                                                         *)
Clamped(f) == Pointer
Unclamped(f) ==
    {"bg"} \cup (IF f.world THEN {"pin"} ELSE {"flipbook"})
           \cup (IF f.risen THEN {"flipbook", "stroke"} ELSE {})
ClampedState(f) == IF f.clamped THEN Clamped(f) ELSE Unclamped(f)

(* ConvertWorldToScreen: no answer without a world frame or a size of the  *)
(* screen, and none when the client faults.                                *)
ProjectToUi(c) == c.frame /\ c.sized
LuaWorldToScreen(c) ==
    IF ProjectToUi(c) /\ ~c.faults THEN [raw |-> c.raw, visible |-> c.visible] ELSE [raw |-> "nil"]
Projections == {LuaWorldToScreen(c) : c \in [frame : BOOLEAN, sized : BOOLEAN, faults : BOOLEAN,
                                              raw : {"in", "out"}, visible : BOOLEAN]}

(* updatePosition: the last answer counts while there is none, and without *)
(* any the foot of the screen.  Behind the camera a place is not visible   *)
(* wherever it projects to.                                                *)
RawOf(p, last) ==
    CASE p.raw # "nil" -> p.raw
      [] p.raw = "nil" /\ last # "nil" -> last
      [] OTHER -> "out"
IsClamped(p, last) == RawOf(p, last) = "out" \/ (p.raw # "nil" /\ ~p.visible)

(* updateRise shows what a marker gains when it has risen ...              *)
RisenParts(f, done) == IF done /\ ~f.risen THEN {"flipbook", "stroke"} ELSE {}

(* ... and onUpdate takes it back from a frame that is only a pointer.     *)
ShownWhileRising(f, risen) == ClampedState(f) \cup risen
ShownWhile(f, risen) == IF f.clamped THEN Pointer ELSE ClampedState(f) \cup risen

(* onUpdate of the frame f, before the end of its lifetime.  `done': its   *)
(* rise is over; `blip': the client can tell where the player is.          *)
Updated(f, last) ==
    \E p \in Projections, done, blip \in BOOLEAN :
       LET g == [f EXCEPT !.clamped = IsClamped(p, last)]
       IN  /\ bubble' = [g EXCEPT !.risen = @ \/ done]
           /\ raw' = RawOf(p, last)
           /\ parts' = ShownWhile(g, RisenParts(g, done)) \cup (IF blip THEN {"blip"} ELSE {})

(* ApplyPing, for a place or for a unit, ends with an update.              *)
Renewed(world) == [shown |-> TRUE, world |-> world, risen |-> FALSE, clamped |-> FALSE]
ApplyPing(world) == Updated(Renewed(world), "nil")

OnUpdate == bubble.shown /\ Updated(bubble, raw)

Expire ==
    /\ bubble.shown
    /\ bubble' = [bubble EXCEPT !.shown = FALSE] /\ parts' = parts \ {"blip"}
    /\ UNCHANGED raw

FrameNext ==
    \/ \E world \in BOOLEAN : ApplyPing(world)
    \/ OnUpdate \/ Expire

FrameSpec == FrameInit /\ [][FrameNext]_frameVars

-----------------------------------------------------------------------------

FrameTypeOK == raw \in {"in", "out", "nil"}
               /\ parts \subseteq Marker \cup Pointer \cup {"blip"}

(* Whatever ping of whatever kind had the frame before, and whenever the   *)
(* place went out of view while the frame was rising: a frame is either a  *)
(* pointer or a marker, a marker of a place stands on its pin and one of a *)
(* unit never does, the ring turns only around a marker that has risen,    *)
(* and nothing of an expired ping stays on the minimap (the comment in     *)
(* onUpdate: the pointer is "the only visible representation").            *)
OneRepresentation ==
    /\ FrameTypeOK
    /\ ~bubble.shown => "blip" \notin parts
    /\ bubble.shown =>
         IF bubble.clamped THEN parts \ {"blip"} = Pointer
         ELSE /\ parts \cap Pointer = {} /\ "bg" \in parts
              /\ "pin" \in parts <=> bubble.world
              /\ "stroke" \in parts <=> bubble.risen
              /\ "flipbook" \in parts <=> bubble.risen \/ ~bubble.world
=============================================================================
