----------------------------- MODULE RenderDevice -----------------------------
(***************************************************************************)
(* The graphics device and those who keep objects on it: the core's vtable *)
(* hooks and events (client/CWorldScene/Render.cpp), the overlay           *)
(* (engine/ui/ImGuiHost.cpp), the unit outline (Outline.cpp), the quest    *)
(* marker (QuestMarker.cpp) and the water band (WaterBand.cpp).            *)
(*                                                                         *)
(* The client resets its device, which fails while an object of the        *)
(* default pool lives on it, or releases it and creates another, which     *)
(* nothing announces.  A device stays alive, and its address taken, while  *)
(* an object made on it is.                                                *)
(***************************************************************************)
EXTENDS Integers, FiniteSets

CONSTANTS
    Devices,    \* addresses a device can have
    NoDevice

ASSUME DeviceAssumption == NoDevice \notin Devices

OutlineObjects == {"shaders", "mask", "blur"}
Objects == OutlineObjects \cup {"vb", "texture", "backend", "font", "scratch", "bandPS"}
DefaultPool == {"mask", "blur", "vb", "font", "scratch"}
OwnerOf(o) == CASE o \in OutlineObjects       -> "outline"
                [] o \in {"vb", "texture"}    -> "marker"
                [] o \in {"backend", "font"}  -> "overlay"
                [] o \in {"scratch", "bandPS"} -> "water"

VARIABLES
    loaded,     \* the extensions in the process
    dev,        \* the client's device
    shared,     \* every device has the same vtable
    hooked,     \* the devices whose vtable carries the hooks
    hookedDevice, orig, \* g_hookedDevice; what g_origPresent leads to
    installed,  \* Install ran
    stage,      \* of the frame: before its first batch, in the world, in the UI
    lost,       \* the last Reset failed
    inWorld,
    on,         \* the device each object was made on
    home, listed, stamped, mask, \* Outline: device_, count_ > 0, stamped_, the mask's content
    ready,      \* QuestMarker: m_deviceReady
    overlay,    \* ImGuiHost: g_ready, g_failed, g_open
    misused, blockers, stale, starved, recycled \* what went wrong so far

hooks == <<hooked, hookedDevice, orig>>
outline == <<home, listed, stamped, mask>>
seen == <<misused, blockers, stale, starved, recycled>>
deviceVars == <<loaded, dev, shared, hooks, installed, stage, lost, inWorld, on, outline,
                ready, overlay, seen>>

DeviceInit ==
    /\ loaded \in SUBSET {"outline", "marker", "water"} /\ shared \in BOOLEAN
    /\ dev = NoDevice /\ hooked = {} /\ hookedDevice = NoDevice /\ orig = "native"
    /\ installed = FALSE /\ stage = "idle" /\ lost = FALSE /\ inWorld = FALSE
    /\ on = [o \in Objects |-> NoDevice]
    /\ home = NoDevice /\ listed = FALSE /\ stamped = FALSE /\ mask = {}
    /\ ready = FALSE /\ overlay = "none"
    /\ misused = FALSE /\ blockers = {} /\ stale = FALSE /\ starved = FALSE /\ recycled = FALSE

(* Whether the outline hands one of these objects to another device.       *)
Foreign(used, at) == \E o \in used : at[o] # dev
Without(gone) == [o \in Objects |-> IF o \in gone THEN NoDevice ELSE on[o]]

-----------------------------------------------------------------------------
(* The hooks on the device.                                                *)

Hooked == dev \in hooked

SwapVtbl(d) ==
    /\ hooked' = hooked \cup (IF shared THEN Devices ELSE {d})
    /\ orig' = IF d \in hooked THEN "hook" ELSE orig
EnsureUnguarded(d) ==
    IF d \in {NoDevice, hookedDevice} THEN UNCHANGED hooks ELSE
    /\ hookedDevice' = d
    /\ SwapVtbl(d)
EnsureDeviceHooks(d) ==
    IF d \in {NoDevice, hookedDevice} THEN UNCHANGED hooks ELSE
    /\ hookedDevice' = d
    /\ IF d \in hooked THEN UNCHANGED <<hooked, orig>> ELSE SwapVtbl(d)

Install ==
    /\ ~installed /\ installed' = TRUE
    /\ EnsureDeviceHooks(dev)
    /\ UNCHANGED <<loaded, dev, shared, stage, lost, inWorld, on, outline, ready, overlay, seen>>

(* The client creates its first device, or releases it for another one.    *)
CreateDevice ==
    /\ stage = "idle"
    /\ \E d \in Devices :
          /\ \A o \in Objects : on[o] # d
          /\ dev' = d
          /\ hooked' = IF shared THEN hooked ELSE hooked \ {d}
          /\ recycled' = (recycled \/ (hookedDevice = d /\ ~shared))
    /\ lost' = FALSE
    /\ UNCHANGED <<loaded, shared, hookedDevice, orig, installed, stage, inWorld, on,
                   outline, ready, overlay, misused, blockers, stale, starved>>

-----------------------------------------------------------------------------
(* Reset, and what OnDeviceLost and OnDeviceReset make of it.              *)

MarkerReleaseTextureOnly == {"texture"}
MarkerRelease == {"texture", "vb"}
OutlineRelease == IF "outline" \in loaded THEN {"mask", "blur"} ELSE {}
Overlay == IF overlay \in {"closed", "open"} THEN {"font"} ELSE {}

(* InitDevice: no device or no texture still makes it ready.               *)
InitDevice ==
    /\ ready' = TRUE
    /\ \E x \in {dev, NoDevice} : on' = [on EXCEPT !["texture"] = IF ready THEN @ ELSE x]

Reset(possible) ==
    /\ stage = "idle" /\ dev # NoDevice
    /\ LET freed == IF Hooked THEN OutlineRelease \cup MarkerRelease \cup Overlay ELSE {}
           left == {o \in DefaultPool \ freed : on[o] = dev}
           ok == possible /\ left = {}
           back(x) == [o \in Objects |->
                         IF ~ok \/ ~Hooked THEN Without(freed)[o] ELSE
                         IF o = "texture" /\ "marker" \in loaded THEN x ELSE
                         IF o \in Overlay THEN on["backend"] ELSE Without(freed)[o]]
       IN  /\ lost' = ~ok
           /\ blockers' = blockers \cup {OwnerOf(o) : o \in left}
           /\ \E x \in {dev, NoDevice} : on' = back(x)
           /\ ready' = IF Hooked THEN "marker" \in loaded /\ ok ELSE ready
           /\ stamped' = (stamped /\ ~Hooked)
           /\ mask' = IF "mask" \in freed THEN {} ELSE mask
    /\ UNCHANGED <<loaded, dev, shared, hooks, installed, stage, inWorld, home, listed,
                   overlay, misused, stale, starved, recycled>>

-----------------------------------------------------------------------------
(* A frame: batches, the end of the world pass, the end of the scene.      *)

Drawing == dev # NoDevice /\ ~lost

StampAnyDevice == listed
MayStamp == listed /\ home = dev
(* StampSilhouette.                                                        *)
Stamp ==
    /\ stamped' = TRUE /\ mask' = mask \cup {"new"}
    /\ misused' = (misused \/ Foreign({"shaders", "mask"}, on))

(* OnM2Batch: a solid batch of a listed unit is drawn into the mask too.   *)
OnM2Batch ==
    /\ Drawing /\ inWorld /\ stage \in {"idle", "world"} /\ stage' = "world"
    /\ IF installed /\ "outline" \in loaded /\ MayStamp
          /\ on["shaders"] # NoDevice /\ on["mask"] # NoDevice
       THEN Stamp
       ELSE UNCHANGED <<stamped, mask, misused>>
    /\ UNCHANGED <<loaded, dev, shared, hooks, installed, lost, inWorld, on, home, listed,
                   ready, overlay, blockers, stale, starved, recycled>>

(* What a frame's quest marker makes or finds: its texture, its vertices.  *)
MarkerFrame ==
    {m \in [texture : {on["texture"], dev, NoDevice}, vb : {on["vb"], dev, NoDevice}] :
        /\ ready => m.texture = on["texture"]
        /\ on["vb"] # NoDevice \/ m.texture = NoDevice => m.vb = on["vb"]}
(* What the water band makes once and keeps.                               *)
Band == {b \in [{"scratch", "bandPS"} -> Devices \cup {NoDevice}] :
            \A o \in DOMAIN b : IF on[o] = NoDevice THEN b[o] \in {dev, NoDevice} ELSE b[o] = on[o]}

(* hkWorldFinalize: the hooks, then OnWorldRenderEnd.                      *)
WorldFinalize ==
    /\ Drawing /\ inWorld /\ stage \in {"idle", "world"} /\ stage' = "ui"
    /\ IF installed THEN EnsureDeviceHooks(dev) ELSE UNCHANGED hooks
    /\ \E draws \in {d \in BOOLEAN : d => installed /\ "marker" \in loaded},
          m \in MarkerFrame, b \in Band :
          LET wet == installed /\ "water" \in loaded IN
          /\ on' = [o \in Objects |->
                IF draws /\ o \in {"texture", "vb"} THEN m[o] ELSE
                IF wet /\ o \in {"scratch", "bandPS"} THEN b[o] ELSE on[o]]
          /\ ready' = (ready \/ draws)
    /\ UNCHANGED <<loaded, dev, shared, installed, lost, inWorld, outline, overlay, seen>>

Aged(content) == IF content = {} THEN {} ELSE {"old"}

(* EnsureResources: what is left of the outline's objects on a new device. *)
Discard == IF home = dev THEN {} ELSE OutlineObjects

(* Outline::OnEndScene, when the objects in `made` could be created.       *)
ClearForgotten(content) == Aged(content)
ClearMask(content) == {}
(* OutlinePass blurs the mask and lays it over the frame.                  *)
OutlinePass(content) ==
    /\ stale' = (stale \/ "old" \in content)
    /\ misused' = (misused \/ Foreign(OutlineObjects, on'))
RebuildTargets == listed' \in BOOLEAN

OutlineOnEndScene(kept, made) ==
    LET complete == made = {o \in OutlineObjects : kept[o] = NoDevice}
        content == IF kept["mask"] = NoDevice THEN {} ELSE mask
    IN  /\ home' = dev /\ stamped' = FALSE
        /\ IF complete /\ stamped
           THEN OutlinePass(content) /\ mask' = ClearMask(content)
           ELSE mask' = Aged(content) /\ UNCHANGED <<stale, misused>>
        /\ starved' = (starved \/ (stamped /\ ~complete))
        /\ IF complete THEN RebuildTargets ELSE listed' = (listed /\ home = dev)

(* ImGuiHost OnEndScene: made on the first device it sees, for good.       *)
OverlayOnEndScene ==
    IF overlay = "none" THEN {<<"closed", dev, NoDevice>>, <<"failed", NoDevice, NoDevice>>}
    ELSE {<<overlay, on["backend"], IF overlay = "open" THEN on["backend"] ELSE on["font"]>>}

EndScene ==
    /\ Drawing /\ stage' = "idle"
    /\ IF ~Hooked THEN UNCHANGED <<on, outline, overlay, misused, stale, starved>> ELSE
       \E u \in OverlayOnEndScene :
       LET kept == IF "outline" \in loaded THEN Without(Discard) ELSE on IN
       \E made \in SUBSET {o \in OutlineObjects : "outline" \in loaded /\ kept[o] = NoDevice} :
          /\ on' = [o \in Objects |-> IF o \in made THEN dev ELSE IF o = "backend" THEN u[2] ELSE
                                      IF o = "font" THEN u[3] ELSE kept[o]]
          /\ overlay' = u[1]
          /\ IF "outline" \in loaded THEN OutlineOnEndScene(kept, made)
             ELSE UNCHANGED <<outline, misused, stale, starved>>
    /\ UNCHANGED <<loaded, dev, shared, hooks, installed, lost, inWorld, ready, blockers, recycled>>

-----------------------------------------------------------------------------

(* F9: only a live overlay opens and closes.                               *)
OnInput ==
    /\ overlay \in {"closed", "open"}
    /\ overlay' = IF overlay = "open" THEN "closed" ELSE "open"
    /\ UNCHANGED <<loaded, dev, shared, hooks, installed, stage, lost, inWorld, on, outline,
                   ready, seen>>

(* OnWorldEnter and OnWorldLeave of the quest marker.                      *)
WorldEnter ==
    /\ stage = "idle" /\ ~inWorld /\ dev # NoDevice /\ inWorld' = TRUE
    /\ IF installed /\ "marker" \in loaded THEN InitDevice ELSE UNCHANGED <<on, ready>>
    /\ UNCHANGED <<loaded, dev, shared, hooks, installed, stage, lost, outline, overlay, seen>>

WorldLeave ==
    /\ stage = "idle" /\ inWorld /\ inWorld' = FALSE
    /\ IF installed /\ "marker" \in loaded THEN on' = Without(MarkerRelease) /\ ready' = FALSE
       ELSE UNCHANGED <<on, ready>>
    /\ UNCHANGED <<loaded, dev, shared, hooks, installed, stage, lost, outline, overlay, seen>>

DeviceNext ==
    \/ Install \/ CreateDevice \/ Reset(TRUE) \/ Reset(FALSE)
    \/ OnM2Batch \/ WorldFinalize \/ EndScene
    \/ OnInput \/ WorldEnter \/ WorldLeave

DeviceSpec == DeviceInit /\ [][DeviceNext]_deviceVars

-----------------------------------------------------------------------------

DeviceTypeOK ==
    /\ dev \in Devices \cup {NoDevice} /\ on \in [Objects -> Devices \cup {NoDevice}]
    /\ hooked \subseteq Devices /\ {hookedDevice, home} \subseteq Devices \cup {NoDevice}
    /\ stage \in {"idle", "world", "ui"} /\ overlay \in {"none", "failed", "closed", "open"}
    /\ mask \subseteq {"new", "old"} /\ (on["mask"] = NoDevice => mask = {})
    /\ (on["font"] # NoDevice => on["font"] = on["backend"])

(* However devices are reset and replaced, once a world frame got to the   *)
(* UI its device carries the hooks, and their originals are the device's   *)
(* own functions (EnsureDeviceHooks) - unless a device came to life at the *)
(* address of the one hooked last, with a vtable of its own.               *)
HooksFollowDevice ==
    /\ DeviceTypeOK
    /\ orig = "native"
    /\ (installed /\ stage = "ui" /\ ~recycled) => Hooked

(* "Subscribers ... must ... release their DEFAULT-pool resources before   *)
(* the native Reset, or the Reset fails" (Render.cpp:194): nothing but the *)
(* water band's scratch target is ever in the way of a Reset.              *)
OnlyWaterBlocksReset == recycled \/ blockers \subseteq {"water"}

(* The two promises of Render.cpp to its subscribers, over resets and      *)
(* replacements in any order.                                              *)
DeviceFollowed == HooksFollowDevice /\ OnlyWaterBlocksReset

(* "handing the old ones to the new device faults the driver"              *)
(* (Outline.cpp:99): the outline never draws with another device's         *)
(* objects, whenever the device is replaced; the marker and the water band *)
(* do.  "the mask starts empty and is wiped at the end of every frame that *)
(* wrote into it" (Outline.cpp:355): no composite shows an older frame's   *)
(* silhouettes, unless a frame that stamped ended without all its targets. *)
OutlineShowsItsFrame == ~misused /\ (stale => starved)
=============================================================================
