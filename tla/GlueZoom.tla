------------------------------- MODULE GlueZoom -------------------------------
(***************************************************************************)
(* The head zoom of the character-create screen (WxlGlueZoom.cpp).  The    *)
(* wheel sets a goal the zoom glides to; the camera hook narrows the field *)
(* of view, and the hook on the device's DrawIndexedPrimitive scales the   *)
(* character's placement matrix, just before the card reads it.            *)
(*                                                                         *)
(* A matrix is kept as the engine's turn and the scales multiplied on to   *)
(* it; a scale, like a zoom, is named by the race and the point of the     *)
(* glide it was computed for.  Everything runs on the client's one thread, *)
(* but draws come at any point of a frame: also after the screen changed   *)
(* and before its first camera.                                            *)
(***************************************************************************)
EXTENDS Integers, Sequences

CONSTANTS
    Instances,   \* the model instances the client may draw
    CharModels,  \* those of a model with attachment point 29, which characters have
    RaceOf,      \* [Instances -> race]: the hash of the model's name
    ScreenOf,    \* [Instances -> "create", "select" or "world"]
    Notches,     \* wheel notches from no zoom to the nearest
    Turns        \* bound: headings of a character

ASSUME GlueAssumption == Notches \in Nat /\ CharModels \subseteq Instances

VARIABLES
    screen,      \* which screen the client is on, the instance it shows, and
                 \* whether the camera of this frame is set up
    camera,      \* CharCreateCamera() # nullptr; the field outlives the screen
    hooked,      \* EnsureDIPHook found a device when the extension was installed
    dragging,    \* IsDragging()
    zoom,        \* s_t and s_tGoal
    tracked,     \* s_onCharCreate, s_inst, and the race of s_nativeNameHash
    rotBase, lastWritten,
    placement,   \* per instance, its placement matrix
    fov          \* what the create camera's field of view was divided by

glueVars == <<screen, camera, hooked, dragging, zoom, tracked, rotBase, lastWritten,
              placement, fov>>

NoRace == "none"
Matrix(turn, scales) == [turn |-> turn, scales |-> scales]
Identity == Matrix(0, <<>>)
Showing(name) == {i \in CharModels : ScreenOf[i] = name}

(* The only call of it is Install's, be there a device yet or not.         *)
EnsureDIPHook == hooked \in BOOLEAN

GlueInit ==
    /\ \E i \in Showing("select") : screen = [name |-> "select", shows |-> i, ready |-> FALSE]
    /\ camera = FALSE /\ EnsureDIPHook /\ dragging = FALSE
    /\ zoom = [t |-> 0, goal |-> 0]
    /\ tracked = [onCreate |-> FALSE, inst |-> NoRace, race |-> NoRace]
    /\ rotBase = Identity /\ lastWritten = Identity
    /\ placement = [i \in Instances |-> Identity] /\ fov = <<>>

-----------------------------------------------------------------------------
(* The client.                                                             *)

(* Another screen, or another race on this one: the engine makes the       *)
(* instance anew.  The create frame's camera field may keep its value.     *)
Show(i) ==
    /\ screen' = [name |-> ScreenOf[i], shows |-> i,
                  ready |-> screen.ready /\ ScreenOf[i] = screen.name]
    /\ camera' \in IF ScreenOf[i] = "create" THEN {TRUE} ELSE {camera, FALSE}
    /\ placement' = [placement EXCEPT ![i] = Identity]
    /\ UNCHANGED <<hooked, dragging, zoom, tracked, rotBase, lastWritten, fov>>

Button ==
    /\ dragging' = ~dragging
    /\ UNCHANGED <<screen, camera, hooked, zoom, tracked, rotBase, lastWritten, placement, fov>>

(* A drag turns the character: the engine computes the matrix afresh.      *)
Turn(to) ==
    /\ dragging
    /\ placement' = [placement EXCEPT ![screen.shows] = Matrix(to, <<>>)]
    /\ UNCHANGED <<screen, camera, hooked, dragging, zoom, tracked, rotBase, lastWritten, fov>>

-----------------------------------------------------------------------------
(* The extension's subscribers and hooks.                                  *)

(* OnInput, for a wheel message of one notch.                              *)
WheelNotch(d) ==
    /\ camera /\ zoom.goal + d \in 0 .. Notches
    /\ zoom' = [zoom EXCEPT !.goal = @ + d]
    /\ UNCHANGED <<screen, camera, hooked, dragging, tracked, rotBase, lastWritten, placement, fov>>

(* OnFrame: t glides to its goal and never past it.                        *)
Glides == {t \in 0 .. Notches :
             IF zoom.t <= zoom.goal THEN t \in zoom.t .. zoom.goal ELSE t \in zoom.goal .. zoom.t}
Frame ==
    /\ IF camera
       THEN /\ \E t \in Glides : zoom' = [zoom EXCEPT !.t = t]
            /\ UNCHANGED tracked
       ELSE /\ tracked' = [tracked EXCEPT !.onCreate = FALSE, !.inst = NoRace]
            /\ UNCHANGED zoom
    /\ screen' = [screen EXCEPT !.ready = FALSE]
    /\ UNCHANGED <<camera, hooked, dragging, rotBase, lastWritten, placement, fov>>

At(race) == [race |-> race, t |-> zoom.t]

(* HookedSetupWProj with the camera of the screen.  The field of view is   *)
(* always derived from the base the first call found.                      *)
FovOfLast == Append(fov, At(tracked.race))
FovOfBase == <<At(tracked.race)>>
SetupWorldProjection ==
    /\ LET create == camera /\ screen.name = "create" IN
       /\ tracked' = [tracked EXCEPT !.onCreate = create]
       /\ fov' = IF create THEN FovOfBase ELSE fov
    /\ screen' = [screen EXCEPT !.ready = TRUE]
    /\ UNCHANGED <<camera, hooked, dragging, zoom, rotBase, lastWritten, placement>>

(* Units of the world stand away from the origin.                          *)
IsGluePlacement(i) == ScreenOf[i] # "world"

HasAttachment29(i) == i \in CharModels

IsCharCreate(i) == tracked.onCreate /\ HasAttachment29(i) /\ IsGluePlacement(i)

(* A model of another name than the last: its numbers are looked up or     *)
(* measured, and the zoom starts over.                                     *)
ResetForRace ==
    /\ zoom' = [t |-> 0, goal |-> 0]
    /\ rotBase' = Identity /\ lastWritten' = Identity

(* HookedDrawTri, for the character on screen or what stands around it.    *)
OnScreen == {screen.shows} \cup {i \in Instances \ CharModels : ScreenOf[i] = screen.name}
DrawTri(i) ==
    /\ screen.ready /\ i \in OnScreen
    /\ IF ~IsCharCreate(i) THEN UNCHANGED <<tracked, zoom, rotBase, lastWritten>>
       ELSE /\ tracked' = [tracked EXCEPT !.inst = i, !.race = RaceOf[i]]
            /\ IF RaceOf[i] = tracked.race THEN UNCHANGED <<zoom, rotBase, lastWritten>>
               ELSE ResetForRace
    /\ UNCHANGED <<screen, camera, hooked, dragging, placement, fov>>

(* HookedDIP, before any draw.  The engine's matrix is taken up while the  *)
(* button is down, and only when it is not what this hook wrote.           *)
TakesAlways(pl) == dragging
TakesUp(pl) == dragging /\ pl # lastWritten
ApplyScale(m, scales) == Matrix(m.turn, m.scales \o scales)
ScaleAt(t) == IF t = 0 THEN <<>> ELSE <<At(tracked.race)>>
DrawIndexedPrimitive ==
    /\ hooked
    /\ tracked.inst # NoRace /\ tracked.onCreate /\ camera /\ IsCharCreate(tracked.inst)
    /\ LET pl == placement[tracked.inst]
           base == IF TakesUp(pl) THEN pl ELSE rotBase
           written == ApplyScale(base, ScaleAt(zoom.t))
       IN /\ rotBase' = base /\ lastWritten' = written
          /\ placement' = [placement EXCEPT ![tracked.inst] = written]
    /\ UNCHANGED <<screen, camera, hooked, dragging, zoom, tracked, fov>>

GlueNext ==
    \/ \E i \in CharModels : Show(i)
    \/ \E i \in Instances : DrawTri(i)
    \/ Button \/ Frame \/ SetupWorldProjection \/ DrawIndexedPrimitive
    \/ \E to \in Turns : Turn(to)
    \/ \E d \in {-1, 1} : WheelNotch(d)

GlueSpec == GlueInit /\ [][GlueNext]_glueVars

-----------------------------------------------------------------------------

GlueTypeOK ==
    /\ screen.shows \in CharModels /\ screen.name = ScreenOf[screen.shows]
    /\ camera \in BOOLEAN /\ hooked \in BOOLEAN /\ dragging \in BOOLEAN
    /\ zoom \in [t : 0 .. Notches, goal : 0 .. Notches]
    /\ tracked.onCreate \in BOOLEAN /\ tracked.inst \in Instances \cup {NoRace}

(* A character of the selection screen, a unit of the world and the props  *)
(* of any screen are never scaled, whatever the create screen left behind; *)
(* on the create screen a scale is never put on a matrix that already carries one, it is that of  *)
(* the character's own race, and the field of view is divided only once.   *)
ZoomsOnlyOnce ==
    /\ GlueTypeOK
    /\ \A i \in Instances :
         /\ ScreenOf[i] # "create" \/ i \notin CharModels => placement[i].scales = <<>>
         /\ Len(placement[i].scales) <= 1
         /\ \A k \in 1 .. Len(placement[i].scales) : placement[i].scales[k].race = RaceOf[i]
    /\ Len(fov) <= 1
=============================================================================
