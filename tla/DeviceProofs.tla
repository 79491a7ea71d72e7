----------------------------- MODULE DeviceProofs -----------------------------
(***************************************************************************)
(* Proofs about the graphics device and those who keep objects on it       *)
(* (RenderDevice): the hooks follow the device, everybody but the water    *)
(* band lets go of his objects before a Reset, and the outline shows its   *)
(* own frame.  About the events of the client (ClientEvents): they tell    *)
(* the truth, and everybody due one hears it once.  And about group pings  *)
(* (RadialPing): a marker comes to rest at the last ping relayed.  About   *)
(* the post-process pipeline (PostProcess): the surfaces come back as they *)
(* were lent, nothing is freed under the GPU, a frame shows its world.     *)
(***************************************************************************)
EXTENDS RenderDevice, ClientEvents, RadialPing, PostProcess, FiniteSetTheorems, SequenceTheorems,
        NaturalsInduction, WellFoundedInduction, TLAPS

USE DeviceAssumption DEF DeviceAssumption

(* The objects of the default pool whose owner answers OnDeviceLost, and   *)
(* the overlay's backend, which the overlay's font is made again on.       *)
Followed == {"mask", "blur", "vb", "font", "backend"}

DeviceTypes ==
    /\ DeviceTypeOK
    /\ on \in [Objects -> Devices \cup {NoDevice}]
    /\ dev \in Devices \cup {NoDevice} /\ hookedDevice \in Devices \cup {NoDevice}
    /\ home \in Devices \cup {NoDevice} /\ hooked \subseteq Devices
    /\ stage \in {"idle", "world", "ui"} /\ stage # "idle" => dev # NoDevice
    /\ installed \in BOOLEAN /\ recycled \in BOOLEAN /\ stamped \in BOOLEAN

(* Unless an address came back with another vtable, the device hooked last *)
(* carries the hooks, and so does every device with a followed object: it  *)
(* was hooked when the object was made, and stays until it is gone.        *)
HookInv ==
    /\ orig = "native"
    /\ ~recycled =>
        /\ hookedDevice # NoDevice => hookedDevice \in hooked
        /\ installed /\ stage = "ui" => dev \in hooked
        /\ \A o \in Followed : on[o] # NoDevice => on[o] \in hooked
        /\ blockers \subseteq {"water"}

(* Who owns what: an extension that is not there made nothing, the font is *)
(* that of an overlay that came up, and the outline's objects are those of *)
(* the device it calls home.                                               *)
OwnerInv ==
    /\ \A o \in OutlineObjects : on[o] # NoDevice => "outline" \in loaded /\ on[o] = home
    /\ on["font"] # NoDevice => overlay \in {"closed", "open"}

(* While no frame that stamped lacked a target, the mask holds silhouettes *)
(* of this frame only, and none unless one was stamped.                    *)
MaskInv ==
    /\ ~misused
    /\ ~starved => ~stale /\ mask \subseteq {"new"} /\ (mask # {} => stamped)

DeviceInv == DeviceTypes /\ HookInv /\ OwnerInv /\ MaskInv

LEMMA DeviceInitInv == DeviceInit => DeviceInv
  BY DEF DeviceInit, DeviceInv, DeviceTypes, DeviceTypeOK, HookInv, OwnerInv, MaskInv, Followed,
         Objects, OutlineObjects

(* EnsureDeviceHooks leaves its device hooked, and no other unhooked.      *)
LEMMA EnsureHooks ==
    ASSUME DeviceTypes, HookInv, EnsureDeviceHooks(dev)
    PROVE  /\ hooked \subseteq hooked' /\ hooked' \subseteq Devices
           /\ hookedDevice' \in Devices \cup {NoDevice} /\ orig' = "native"
           /\ ~recycled => /\ hookedDevice' # NoDevice => hookedDevice' \in hooked'
                           /\ dev # NoDevice => dev \in hooked'
<1>1. CASE dev \in {NoDevice, hookedDevice}
  BY <1>1 DEF EnsureDeviceHooks, hooks, DeviceTypes, HookInv
<1>2. CASE dev \notin {NoDevice, hookedDevice}
  BY <1>2 DEF EnsureDeviceHooks, SwapVtbl, DeviceTypes, HookInv
<1>3. QED
  BY <1>1, <1>2

LEMMA InstallInv == DeviceInv /\ Install => DeviceInv'
<1> SUFFICES ASSUME DeviceInv, Install PROVE DeviceInv'
  OBVIOUS
<1>1. UNCHANGED <<loaded, dev, stage, inWorld, on, outline, ready, overlay, seen>>
  BY DEF Install
<1>2. DeviceTypes'
  BY <1>1, EnsureHooks DEF Install, DeviceInv, DeviceTypes, DeviceTypeOK, outline, seen
<1>3. HookInv'
  BY <1>1, EnsureHooks DEF Install, DeviceInv, DeviceTypes, HookInv, outline, seen
<1>4. OwnerInv' /\ MaskInv'
  BY <1>1 DEF DeviceInv, OwnerInv, MaskInv, outline, seen
<1>5. QED
  BY <1>2, <1>3, <1>4 DEF DeviceInv

LEMMA CreateDeviceInv == DeviceInv /\ CreateDevice => DeviceInv'
<1> SUFFICES ASSUME DeviceInv, CreateDevice PROVE DeviceInv'
  OBVIOUS
<1>1. UNCHANGED <<loaded, hookedDevice, orig, installed, stage, inWorld, on, outline, ready, overlay,
                  misused, blockers, stale, starved>> /\ stage = "idle"
  BY DEF CreateDevice
<1>2. PICK d \in Devices :
        /\ \A o \in Objects : on[o] # d
        /\ dev' = d
        /\ hooked' = IF shared THEN hooked ELSE hooked \ {d}
        /\ recycled' = (recycled \/ (hookedDevice = d /\ ~shared))
  BY DEF CreateDevice
<1>3. DeviceTypes'
  BY <1>1, <1>2 DEF DeviceInv, DeviceTypes, DeviceTypeOK, outline
<1>4. \A o \in Followed : on[o] # d
  BY <1>2 DEF Followed, Objects, OutlineObjects
<1>5. HookInv'
  BY <1>1, <1>2, <1>4 DEF DeviceInv, DeviceTypes, HookInv, outline
<1>6. OwnerInv' /\ MaskInv'
  BY <1>1 DEF DeviceInv, OwnerInv, MaskInv, outline
<1>7. QED
  BY <1>3, <1>5, <1>6 DEF DeviceInv

(* What is still on the device when a Reset comes, whatever OnDeviceLost   *)
(* freed, is the water band's.                                             *)
LEMMA OnlyWaterIsLeft ==
    ASSUME DeviceInv, ~recycled, NEW o \in DefaultPool, on[o] = dev, dev # NoDevice,
           o \notin (IF Hooked THEN OutlineRelease \cup MarkerRelease \cup Overlay ELSE {})
    PROVE  OwnerOf(o) = "water"
<1>1. o \in {"mask", "blur", "vb", "font", "scratch"}
  BY DEF DefaultPool
<1>2. CASE o = "scratch"
  BY <1>2 DEF OwnerOf, OutlineObjects
<1>3. ASSUME o \in Followed PROVE FALSE
  <2>1. dev \in hooked
    BY <1>3 DEF DeviceInv, HookInv
  <2>2. o \notin OutlineRelease \cup MarkerRelease \cup Overlay
    BY <2>1 DEF Hooked
  <2>3. o \notin {"mask", "blur"}
    BY <2>2 DEF OutlineRelease, DeviceInv, OwnerInv, OutlineObjects
  <2>4. o # "vb"
    BY <2>2 DEF MarkerRelease
  <2>5. o # "font"
    BY <2>2 DEF Overlay, DeviceInv, OwnerInv
  <2>6. QED
    BY <1>1, <1>3, <2>3, <2>4, <2>5 DEF Followed
<1>4. QED
  BY <1>1, <1>2, <1>3 DEF Followed

LEMMA ResetInv == ASSUME DeviceInv, NEW possible \in BOOLEAN, Reset(possible) PROVE DeviceInv'
<1> DEFINE freed == IF Hooked THEN OutlineRelease \cup MarkerRelease \cup Overlay ELSE {}
           left == {o \in DefaultPool \ freed : on[o] = dev}
           ok == possible /\ left = {}
           back(x) == [o \in Objects |->
                         IF ~ok \/ ~Hooked THEN Without(freed)[o] ELSE
                         IF o = "texture" /\ "marker" \in loaded THEN x ELSE
                         IF o \in Overlay THEN on["backend"] ELSE Without(freed)[o]]
<1>1. /\ stage = "idle" /\ dev # NoDevice
      /\ blockers' = blockers \cup {OwnerOf(o) : o \in left}
      /\ stamped' = (stamped /\ ~Hooked)
      /\ mask' = IF "mask" \in freed THEN {} ELSE mask
      /\ UNCHANGED <<loaded, dev, shared, hooks, installed, stage, inWorld, home, listed,
                     overlay, misused, stale, starved, recycled>>
  BY DEF Reset
<1>2. PICK x \in {dev, NoDevice} : on' = back(x)
  BY DEF Reset
<1>3. \A o \in Objects : Without(freed)[o] = IF o \in freed THEN NoDevice ELSE on[o]
  BY DEF Without
<1>4. on' \in [Objects -> Devices \cup {NoDevice}] /\ x \in Devices \cup {NoDevice}
  <2>1. "backend" \in Objects
    BY DEF Objects
  <2>2. QED
    BY <1>2, <1>3, <2>1 DEF DeviceInv, DeviceTypes
<1> HIDE DEF back, ok
<1>5. \A o \in Objects \ {"texture", "font"} : on'[o] = IF o \in freed THEN NoDevice ELSE on[o]
  BY <1>2, <1>3 DEF back, Overlay
<1>6. on'["font"] # NoDevice => on'["font"] = on["backend"] /\ overlay \in {"closed", "open"}
  <2>1. "font" \in Objects /\ (on["font"] # NoDevice => on["font"] = on["backend"])
    BY DEF Objects, DeviceInv, DeviceTypes, DeviceTypeOK
  <2>2. on'["font"] = on["font"] \/ on'["font"] = NoDevice
           \/ ("font" \in Overlay /\ on'["font"] = on["backend"])
    <3>1. on'["font"] = back(x)["font"]
      BY <1>2
    <3>2. Without(freed)["font"] \in {NoDevice, on["font"]}
      BY <1>3, <2>1
    <3>3. QED
      BY <2>1, <3>1, <3>2 DEF back
  <2>3. QED
    BY <2>1, <2>2 DEF DeviceInv, OwnerInv, Overlay
<1>7. on'["backend"] = on["backend"]
  <2>1. "backend" \in Objects /\ "backend" \notin freed
    BY DEF Objects, OutlineRelease, MarkerRelease, Overlay
  <2>2. QED
    BY <1>5, <2>1
<1>8. \A o \in OutlineObjects : on'[o] = on[o] \/ on'[o] = NoDevice
  BY <1>5 DEF OutlineObjects, Objects
<1>9. mask' = {} \/ (mask' = mask /\ on'["mask"] = on["mask"])
  <2>1. "mask" \in Objects
    BY DEF Objects, OutlineObjects
  <2>2. QED
    BY <1>1, <1>5, <2>1
<1>10. mask # {} => on["mask"] # NoDevice
  BY DEF DeviceInv, DeviceTypes, DeviceTypeOK
<1>11. mask' # {} => ~Hooked
  <2>1. SUFFICES ASSUME mask' # {}, Hooked PROVE FALSE
    OBVIOUS
  <2>2. "mask" \notin OutlineRelease
    BY <1>1, <2>1
  <2>3. "outline" \in loaded
    BY <1>1, <1>10, <2>1 DEF DeviceInv, OwnerInv, OutlineObjects
  <2>4. QED
    BY <2>2, <2>3 DEF OutlineRelease
<1>12. DeviceTypes'
  <2>1. mask' \subseteq {"new", "old"} /\ (on'["mask"] = NoDevice => mask' = {})
    BY <1>9, <1>10 DEF DeviceInv, DeviceTypes, DeviceTypeOK
  <2>2. stamped' \in BOOLEAN
    BY <1>1 DEF DeviceInv, DeviceTypes, Hooked
  <2>3. DeviceTypeOK'
    BY <1>1, <1>4, <1>6, <1>7, <2>1 DEF DeviceInv, DeviceTypes, DeviceTypeOK, hooks
  <2>4. QED
    BY <1>1, <1>4, <2>2, <2>3 DEF DeviceInv, DeviceTypes, hooks
<1>13. HookInv'
  <2>1. ~recycled => blockers' \subseteq {"water"}
    <3>1. ~recycled => \A o \in left : OwnerOf(o) = "water"
      BY <1>1, OnlyWaterIsLeft
    <3>2. QED
      BY <1>1, <3>1 DEF DeviceInv, HookInv
  <2>2. \A o \in {"mask", "blur", "vb", "backend"} : on'[o] = on[o] \/ on'[o] = NoDevice
    <3>1. \A o \in {"mask", "blur", "vb", "backend"} : o \in Objects \ {"texture", "font"}
      BY DEF Objects, OutlineObjects
    <3>2. QED
      BY <1>5, <3>1
  <2>3. \A o \in Followed : ~recycled /\ on'[o] # NoDevice => on'[o] \in hooked
    BY <1>6, <2>2 DEF DeviceInv, HookInv, Followed
  <2>4. QED
    BY <1>1, <2>1, <2>3 DEF DeviceInv, HookInv, hooks
<1>14. OwnerInv'
  BY <1>1, <1>6, <1>8 DEF DeviceInv, OwnerInv
<1>15. MaskInv'
  <2>1. ~starved => mask' \subseteq {"new"} /\ (mask' # {} => stamped')
    BY <1>1, <1>9, <1>11 DEF DeviceInv, MaskInv
  <2>2. QED
    BY <1>1, <2>1 DEF DeviceInv, MaskInv
<1>16. QED
  BY <1>12, <1>13, <1>14, <1>15 DEF DeviceInv

(* A stamp is drawn with objects of this device: the outline's are of its  *)
(* home, and only a unit that is listed at home is drawn.                  *)
LEMMA OnM2BatchInv == DeviceInv /\ OnM2Batch => DeviceInv'
<1> SUFFICES ASSUME DeviceInv, OnM2Batch PROVE DeviceInv'
  OBVIOUS
<1>1. /\ dev # NoDevice /\ stage' = "world"
      /\ UNCHANGED <<loaded, dev, shared, hooks, installed, lost, inWorld, on, home, listed,
                     ready, overlay, blockers, stale, starved, recycled>>
  BY DEF OnM2Batch, Drawing
<1>2. \/ UNCHANGED <<stamped, mask, misused>>
      \/ /\ stamped' = TRUE /\ mask' = mask \cup {"new"} /\ on["mask"] # NoDevice /\ ~misused'
  <2>1. CASE UNCHANGED <<stamped, mask, misused>>
    BY <2>1
  <2>2. CASE ~UNCHANGED <<stamped, mask, misused>>
    <3>1. Stamp /\ MayStamp /\ on["shaders"] # NoDevice /\ on["mask"] # NoDevice
      BY <2>2 DEF OnM2Batch
    <3>2. ~Foreign({"shaders", "mask"}, on)
      BY <3>1 DEF Foreign, MayStamp, DeviceInv, OwnerInv, OutlineObjects
    <3>3. QED
      BY <3>1, <3>2 DEF Stamp, DeviceInv, MaskInv
  <2>3. QED
    BY <2>1, <2>2
<1>3. DeviceTypes'
  BY <1>1, <1>2 DEF DeviceInv, DeviceTypes, DeviceTypeOK, hooks
<1>4. HookInv' /\ OwnerInv'
  BY <1>1 DEF DeviceInv, HookInv, OwnerInv, hooks
<1>5. MaskInv'
  BY <1>1, <1>2 DEF DeviceInv, MaskInv
<1>6. QED
  BY <1>3, <1>4, <1>5 DEF DeviceInv

LEMMA WorldFinalizeInv == DeviceInv /\ WorldFinalize => DeviceInv'
<1> SUFFICES ASSUME DeviceInv, WorldFinalize PROVE DeviceInv'
  OBVIOUS
<1>1. /\ dev # NoDevice /\ stage' = "ui"
      /\ IF installed THEN EnsureDeviceHooks(dev) ELSE UNCHANGED hooks
      /\ UNCHANGED <<loaded, dev, shared, installed, lost, inWorld, outline, overlay, seen>>
  BY DEF WorldFinalize, Drawing
<1>2. PICK draws \in {d \in BOOLEAN : d => installed /\ "marker" \in loaded},
           m \in MarkerFrame, b \in Band :
        on' = [o \in Objects |->
                IF draws /\ o \in {"texture", "vb"} THEN m[o] ELSE
                IF installed /\ "water" \in loaded /\ o \in {"scratch", "bandPS"} THEN b[o] ELSE on[o]]
  BY DEF WorldFinalize
<1>3. /\ hooked \subseteq hooked' /\ hooked' \subseteq Devices
      /\ hookedDevice' \in Devices \cup {NoDevice} /\ orig' = "native"
      /\ ~recycled => /\ hookedDevice' # NoDevice => hookedDevice' \in hooked'
                      /\ installed => dev \in hooked'
  <2>1. CASE installed
    BY <1>1, <2>1, EnsureHooks DEF DeviceInv
  <2>2. CASE ~installed
    BY <1>1, <2>2 DEF DeviceInv, DeviceTypes, HookInv, hooks
  <2>3. QED
    BY <2>1, <2>2
<1>4. \A o \in Objects \ {"texture", "vb", "scratch", "bandPS"} : on'[o] = on[o]
  BY <1>2
<1>5. m \in [texture : {on["texture"], dev, NoDevice}, vb : {on["vb"], dev, NoDevice}]
  BY DEF MarkerFrame
<1>6. on'["vb"] = on["vb"] \/ on'["vb"] = NoDevice \/ (installed /\ on'["vb"] = dev)
  <2>1. "vb" \in Objects /\ m["vb"] \in {on["vb"], dev, NoDevice}
    BY <1>5 DEF Objects
  <2>2. QED
    BY <1>2, <2>1
<1>7. on' \in [Objects -> Devices \cup {NoDevice}]
  <2>1. \A o \in {"texture", "vb"} : m[o] \in Devices \cup {NoDevice}
    <3>1. on["texture"] \in Devices \cup {NoDevice} /\ on["vb"] \in Devices \cup {NoDevice}
      BY DEF Objects, DeviceInv, DeviceTypes
    <3>2. QED
      BY <1>5, <3>1 DEF DeviceInv, DeviceTypes
  <2>2. \A o \in {"scratch", "bandPS"} : b[o] \in Devices \cup {NoDevice}
    BY DEF Band
  <2>3. \A o \in Objects : on[o] \in Devices \cup {NoDevice}
    BY DEF DeviceInv, DeviceTypes
  <2>4. QED
    BY <1>2, <2>1, <2>2, <2>3
<1>8. \A o \in OutlineObjects \cup {"font", "backend"} : on'[o] = on[o]
  BY <1>4 DEF Objects, OutlineObjects
<1>9. DeviceTypes'
  <2>1. DeviceTypeOK'
    BY <1>1, <1>3, <1>7, <1>8 DEF DeviceInv, DeviceTypes, DeviceTypeOK, OutlineObjects, outline
  <2>2. QED
    BY <1>1, <1>3, <1>7, <2>1 DEF DeviceInv, DeviceTypes, outline, seen
<1>10. HookInv'
  <2>1. \A o \in Followed : ~recycled /\ on'[o] # NoDevice => on'[o] \in hooked'
    <3>1. \A o \in Followed \ {"vb"} : on'[o] = on[o]
      BY <1>8 DEF Followed, OutlineObjects
    <3>2. \A o \in Followed : ~recycled /\ on[o] # NoDevice => on[o] \in hooked
      BY DEF DeviceInv, HookInv
    <3>3. ~recycled /\ installed => dev \in hooked'
      BY <1>3
    <3>4. QED
      BY <1>3, <1>6, <3>1, <3>2, <3>3 DEF Followed
  <2>2. QED
    BY <1>1, <1>3, <2>1 DEF DeviceInv, HookInv, seen
<1>11. OwnerInv' /\ MaskInv'
  BY <1>1, <1>8 DEF DeviceInv, OwnerInv, MaskInv, outline, seen
<1>12. QED
  BY <1>9, <1>10, <1>11 DEF DeviceInv

(* The end of a hooked scene: whatever of the outline could not be made,   *)
(* all it has is on this device.                                           *)
LEMMA EndSceneHooked == DeviceInv /\ EndScene /\ Hooked => DeviceInv'
<1> SUFFICES ASSUME DeviceInv, EndScene, Hooked PROVE DeviceInv'
  OBVIOUS
<1> DEFINE kept == IF "outline" \in loaded THEN Without(Discard) ELSE on
<1>1. /\ dev # NoDevice /\ stage' = "idle" /\ dev \in hooked
      /\ UNCHANGED <<loaded, dev, shared, hooks, installed, lost, inWorld, ready, blockers, recycled>>
  BY DEF EndScene, Drawing, Hooked
<1>2. PICK u \in OverlayOnEndScene,
           built \in SUBSET {o \in OutlineObjects : "outline" \in loaded /\ kept[o] = NoDevice} :
        /\ on' = [o \in Objects |-> IF o \in built THEN dev ELSE IF o = "backend" THEN u[2] ELSE
                                    IF o = "font" THEN u[3] ELSE kept[o]]
        /\ overlay' = u[1]
        /\ IF "outline" \in loaded THEN OutlineOnEndScene(kept, built)
           ELSE UNCHANGED <<outline, misused, stale, starved>>
  BY DEF EndScene
<1>3. kept \in [Objects -> Devices \cup {NoDevice}]
  BY DEF Without, DeviceInv, DeviceTypes
<1>4. /\ \A o \in Objects \ OutlineObjects : kept[o] = on[o]
      /\ \A o \in OutlineObjects : kept[o] = on[o] \/ kept[o] = NoDevice
      /\ \A o \in OutlineObjects : "outline" \in loaded /\ kept[o] # NoDevice => kept[o] = dev
  <2>1. \A o \in Objects : Without(Discard)[o] = IF o \in Discard THEN NoDevice ELSE on[o]
    BY DEF Without
  <2>2. OutlineObjects \subseteq Objects
    BY DEF Objects
  <2>3. QED
    BY <2>1, <2>2 DEF Discard, DeviceInv, OwnerInv
<1> HIDE DEF kept
<1>5. built \subseteq OutlineObjects /\ OutlineObjects \subseteq Objects
      /\ "backend" \notin OutlineObjects /\ "font" \notin OutlineObjects
      /\ "backend" \in Objects /\ "font" \in Objects
  BY DEF OutlineObjects, Objects
<1>6. /\ \A o \in OutlineObjects : on'[o] = IF o \in built THEN dev ELSE kept[o]
      /\ \A o \in Objects \ (OutlineObjects \cup {"backend", "font"}) : on'[o] = on[o]
      /\ on'["backend"] = u[2] /\ on'["font"] = u[3]
  BY <1>2, <1>4, <1>5
<1>7. /\ overlay' \in {"none", "failed", "closed", "open"}
      /\ on'["backend"] \in {on["backend"], dev, NoDevice}
      /\ on'["font"] # NoDevice => on'["font"] = on'["backend"] /\ overlay' \in {"closed", "open"}
  <2>1. CASE overlay = "none"
    <3>1. u = <<"closed", dev, NoDevice>> \/ u = <<"failed", NoDevice, NoDevice>>
      BY <2>1 DEF OverlayOnEndScene
    <3>2. QED
      BY <1>2, <1>6, <3>1
  <2>2. CASE overlay # "none"
    <3>1. u = <<overlay, on["backend"], IF overlay = "open" THEN on["backend"] ELSE on["font"]>>
      BY <2>2 DEF OverlayOnEndScene
    <3>2. QED
      BY <1>2, <1>6, <3>1 DEF DeviceInv, DeviceTypes, DeviceTypeOK, OwnerInv
  <2>3. QED
    BY <2>1, <2>2
<1>8. on' \in [Objects -> Devices \cup {NoDevice}]
  <2>1. on["backend"] \in Devices \cup {NoDevice} /\ dev \in Devices \cup {NoDevice}
    BY <1>5 DEF DeviceInv, DeviceTypes
  <2>2. u[2] \in Devices \cup {NoDevice} /\ u[3] \in Devices \cup {NoDevice}
    BY <1>6, <1>7, <2>1
  <2>3. QED
    BY <1>2, <1>3, <2>1, <2>2
<1>9. HookInv'
  <2>1. \A o \in Followed : on'[o] = on[o] \/ on'[o] = NoDevice \/ on'[o] = dev \/ on'[o] = on["backend"]
    <3>1. "vb" \in Objects \ (OutlineObjects \cup {"backend", "font"})
      BY DEF Objects, OutlineObjects
    <3>2. QED
      BY <1>4, <1>6, <1>7, <3>1 DEF Followed, OutlineObjects
  <2>2. \A o \in Followed \cup {"backend"} : ~recycled /\ on[o] # NoDevice => on[o] \in hooked
    BY DEF DeviceInv, HookInv, Followed
  <2>3. \A o \in Followed : ~recycled /\ on'[o] # NoDevice => on'[o] \in hooked
    BY <1>1, <2>1, <2>2
  <2>4. QED
    BY <1>1, <2>3 DEF DeviceInv, HookInv, hooks
<1>10. CASE "outline" \in loaded
  <2> DEFINE complete == built = {o \in OutlineObjects : kept[o] = NoDevice}
             content == IF kept["mask"] = NoDevice THEN {} ELSE mask
  <2>1. /\ home' = dev /\ stamped' = FALSE
        /\ IF complete /\ stamped
           THEN OutlinePass(content) /\ mask' = ClearMask(content)
           ELSE mask' = Aged(content) /\ UNCHANGED <<stale, misused>>
        /\ starved' = (starved \/ (stamped /\ ~complete))
    BY <1>2, <1>10 DEF OutlineOnEndScene
  <2>2. "mask" \in OutlineObjects
    BY DEF OutlineObjects
  <2>3. \A o \in OutlineObjects : on'[o] = dev \/ on'[o] = NoDevice
    BY <1>4, <1>6, <1>10
  <2>4. complete => \A o \in OutlineObjects : on'[o] = dev
    BY <1>4, <1>6, <1>10
  <2>5. mask' # {} => mask \cap content # {} /\ kept["mask"] # NoDevice /\ mask' = {"old"}
                      /\ ~(complete /\ stamped)
    BY <2>1 DEF Aged, ClearMask
  <2> HIDE DEF content
  <2>6. DeviceTypes'
    <3>1. kept["mask"] # NoDevice => on'["mask"] # NoDevice
      BY <1>1, <1>6, <2>2
    <3>2. DeviceTypeOK'
      BY <1>1, <1>7, <1>8, <2>1, <2>5, <3>1 DEF DeviceInv, DeviceTypes, DeviceTypeOK, hooks
    <3>3. QED
      BY <1>1, <1>8, <2>1, <3>2 DEF DeviceInv, DeviceTypes, hooks
  <2>7. OwnerInv'
    BY <1>1, <1>7, <1>10, <2>1, <2>3 DEF OwnerInv
  <2>8. ~misused'
    BY <2>1, <2>4 DEF OutlinePass, Foreign, DeviceInv, MaskInv
  <2>9. ~starved' => ~stale' /\ mask' = {}
    <3>1. SUFFICES ASSUME ~starved' PROVE ~stale' /\ mask' = {}
      OBVIOUS
    <3>2. /\ ~starved /\ (stamped => complete)
          /\ ~stale /\ mask \subseteq {"new"} /\ (mask # {} => stamped)
      BY <2>1, <3>1 DEF DeviceInv, DeviceTypes, MaskInv
    <3>3. content \subseteq {"new"}
      BY <3>2 DEF content
    <3>4. QED
      BY <2>1, <2>5, <3>2, <3>3 DEF OutlinePass, ClearMask
  <2>10. QED
    BY <1>9, <2>6, <2>7, <2>8, <2>9 DEF DeviceInv, MaskInv
<1>11. CASE "outline" \notin loaded
  <2>1. UNCHANGED <<outline, misused, stale, starved>> /\ built = {}
    BY <1>2, <1>11
  <2>2. \A o \in OutlineObjects : on'[o] = on[o]
    BY <1>6, <1>5, <1>11, <2>1 DEF kept
  <2>3. "mask" \in OutlineObjects
    BY DEF OutlineObjects
  <2>4. DeviceTypes'
    BY <1>1, <1>7, <1>8, <2>1, <2>2, <2>3 DEF DeviceInv, DeviceTypes, DeviceTypeOK, hooks, outline
  <2>5. OwnerInv' /\ MaskInv'
    BY <1>1, <1>7, <2>1, <2>2 DEF DeviceInv, OwnerInv, MaskInv, outline
  <2>6. QED
    BY <1>9, <2>4, <2>5 DEF DeviceInv
<1>12. QED
  BY <1>10, <1>11

LEMMA OverlayInv == DeviceInv /\ OnInput => DeviceInv'
  BY DEF OnInput, DeviceInv, DeviceTypes, DeviceTypeOK, HookInv, OwnerInv, MaskInv, hooks, outline, seen

(* The marker's objects come and go with the world; only the vertex buffer *)
(* is of the default pool, and it is never made here.                      *)
LEMMA WorldInv == DeviceInv /\ (WorldEnter \/ WorldLeave) => DeviceInv'
<1> SUFFICES ASSUME DeviceInv, WorldEnter \/ WorldLeave PROVE DeviceInv'
  OBVIOUS
<1>1. /\ stage = "idle"
      /\ UNCHANGED <<loaded, dev, shared, hooks, installed, stage, lost, outline, overlay, seen>>
  BY DEF WorldEnter, WorldLeave
<1>2. /\ on' \in [Objects -> Devices \cup {NoDevice}]
      /\ \A o \in Objects \ {"texture"} : on'[o] = on[o] \/ (o = "vb" /\ on'[o] = NoDevice)
  <2>1. CASE WorldEnter
    BY <2>1 DEF WorldEnter, InitDevice, DeviceInv, DeviceTypes
  <2>2. CASE WorldLeave
    BY <2>2 DEF WorldLeave, Without, MarkerRelease, DeviceInv, DeviceTypes
  <2>3. QED
    BY <2>1, <2>2
<1>3. \A o \in OutlineObjects \cup {"font", "backend"} : on'[o] = on[o]
  BY <1>2 DEF Objects, OutlineObjects
<1>4. on'["vb"] \in {on["vb"], NoDevice}
  BY <1>2 DEF Objects
<1>5. DeviceTypes'
  BY <1>1, <1>2, <1>3 DEF DeviceInv, DeviceTypes, DeviceTypeOK, OutlineObjects, hooks, outline, seen
<1>6. HookInv'
  <2>1. \A o \in Followed : on'[o] \in {on[o], NoDevice}
    BY <1>3, <1>4 DEF Followed, OutlineObjects
  <2>2. QED
    BY <1>1, <2>1 DEF DeviceInv, HookInv, hooks, seen
<1>7. OwnerInv' /\ MaskInv'
  BY <1>1, <1>3 DEF DeviceInv, OwnerInv, MaskInv, outline, seen
<1>8. QED
  BY <1>5, <1>6, <1>7 DEF DeviceInv

LEMMA DeviceNextInv == DeviceInv /\ [DeviceNext]_deviceVars => DeviceInv'
<1> SUFFICES ASSUME DeviceInv, [DeviceNext]_deviceVars PROVE DeviceInv'
  OBVIOUS
<1>1. CASE Reset(TRUE) \/ Reset(FALSE)
  <2>1. TRUE \in BOOLEAN /\ FALSE \in BOOLEAN
    OBVIOUS
  <2>2. QED
    BY <1>1, <2>1, ResetInv
<1>2. CASE EndScene
  <2>1. CASE Hooked
    BY <1>2, <2>1, EndSceneHooked
  <2>2. CASE ~Hooked
    <3>1. stage' = "idle"
          /\ UNCHANGED <<loaded, dev, shared, hooks, installed, lost, inWorld, ready, blockers, recycled,
                         on, outline, overlay, misused, stale, starved>>
      BY <1>2, <2>2 DEF EndScene
    <3>2. DeviceTypes'
      BY <3>1 DEF DeviceInv, DeviceTypes, DeviceTypeOK, hooks, outline
    <3>3. QED
      BY <3>1, <3>2 DEF DeviceInv, HookInv, OwnerInv, MaskInv, hooks, outline
  <2>3. QED
    BY <2>1, <2>2
<1>3. CASE UNCHANGED deviceVars
  BY <1>3 DEF deviceVars, DeviceInv, DeviceTypes, DeviceTypeOK, HookInv, OwnerInv, MaskInv, hooks, outline, seen
<1>4. QED
  BY <1>1, <1>2, <1>3, InstallInv, CreateDeviceInv, OnM2BatchInv, WorldFinalizeInv, OverlayInv, WorldInv
     DEF DeviceNext

(* However devices are reset and replaced, and whoever is loaded: a world  *)
(* frame at the UI has the hooks on its device, whose own functions they   *)
(* lead to, and nothing but the water band's target is in the way of a     *)
(* Reset (Render.cpp:194).                                                 *)
THEOREM DeviceFollowedAlways == DeviceSpec => []DeviceFollowed
<1>1. DeviceInv => DeviceFollowed
  BY DEF DeviceInv, DeviceTypes, HookInv, DeviceFollowed, HooksFollowDevice, OnlyWaterBlocksReset, Hooked
<1>2. QED
  BY <1>1, DeviceInitInv, DeviceNextInv, PTL DEF DeviceSpec

(* The outline never draws with another device's objects, and composites   *)
(* no older frame's silhouettes unless a frame that stamped had lacked a   *)
(* target (Outline.cpp:99, :355).                                          *)
THEOREM OutlineShowsItsFrameAlways == DeviceSpec => []OutlineShowsItsFrame
<1>1. DeviceInv => OutlineShowsItsFrame
  BY DEF DeviceInv, MaskInv, OutlineShowsItsFrame
<1>2. QED
  BY <1>1, DeviceInitInv, DeviceNextInv, PTL DEF DeviceSpec

-----------------------------------------------------------------------------
(* The client's events.                                                    *)

HIDE DeviceAssumption DEF DeviceAssumption

DetourNames == {"ObjectUpdate", "ObjectDestroy", "TargetSet", "PlaySound", "SlotDispatch", "SlotClear", "DoodadSpawn",
                "FramePump", "WorldEnter"}
Steps == {"between", "native", "walk", "handler"}
Worlds == [objects : SUBSET Labels, target : Labels \cup {Nobody}, sounds : SUBSET Labels,
           slot : Labels \cup {Nobody}, doodads : SUBSET Labels, map : Labels \cup {Nobody}]
Frames == [fn : DetourNames, arg : Labels, todo : Seq(Events \cup {"native"}), step : Steps, next : Nat \ {0},
           event : Events, carried : Labels \cup {Nobody}, nested : BOOLEAN, emission : Nat]
Emissions == [event : Events, due : Seq(Subscribers), heard : Seq(Subscribers)]

EventTypes ==
    /\ buckets \in [Events -> Seq(Subscribers)] /\ world \in Worlds
    /\ calls \in Seq(Frames) /\ emissions \in Seq(Emissions)

(* How far a call is: what its detour has left is the end of its steps,    *)
(* and what it runs or emits the step before.                              *)
Left(call) == Len(call.todo)
Last(call) == Detours[call.fn][Len(Detours[call.fn]) - Left(call)]
InOrder(call) ==
    /\ Left(call) <= Len(Detours[call.fn])
    /\ \A i \in 1 .. Left(call) : call.todo[i] = Detours[call.fn][Len(Detours[call.fn]) - Left(call) + i]
    /\ call.step # "between" => Left(call) < Len(Detours[call.fn])
    /\ call.step = "native" => Last(call) = "native"
    /\ call.step \in {"walk", "handler"} => Last(call) = call.event

(* Only a handler and the client's own world change call anything.         *)
Below ==
    \A k \in 1 .. Len(calls) - 1 :
        calls[k].nested /\ (calls[k].step = "handler" \/ (calls[k].step = "native" /\ calls[k].fn = "WorldEnter"))

(* What the innermost call found or did still holds: it is to be told.     *)
ToldNow(call) ==
    /\ call.step = "between" /\ Left(call) = Len(Detours[call.fn]) => Callable(call.fn, call.arg)
    /\ call.step \in {"native", "between"} /\ Left(call) > 0 /\ Head(call.todo) # "native" =>
          Told(Head(call.todo), IF call.fn = "WorldEnter" THEN world.map ELSE call.arg)
    /\ call.step \in {"walk", "handler"} /\ ~call.nested => Told(call.event, call.carried)

(* A call that walks an event's list has its own record of the emission,   *)
(* which holds the list and as many hearers as the walk passed; a record   *)
(* that no call walks any more is full.                                    *)
Follows(b, log, call) ==
    /\ call.emission \in DOMAIN log /\ log[call.emission].due = b[call.event]
    /\ Len(log[call.emission].heard) = call.next - 1 /\ call.next - 1 <= Len(b[call.event])
Settled(log, stack, n) ==
    log[n].heard = log[n].due \/ \E k \in DOMAIN stack : Walks(stack[k]) /\ stack[k].emission = n
Recorded(b, log, stack) ==
    /\ \A k \in DOMAIN stack : Walks(stack[k]) => Follows(b, log, stack[k])
    /\ \A j, k \in DOMAIN stack :
          Walks(stack[j]) /\ Walks(stack[k]) /\ stack[j].emission = stack[k].emission => j = k
    /\ \A n \in DOMAIN log : InTurn(log[n]) /\ Settled(log, stack, n)

EventInv ==
    /\ EventTypes /\ Below /\ Recorded(buckets, emissions, calls)
    /\ \A k \in DOMAIN calls : InOrder(calls[k])
    /\ Running => ToldNow(Top)

LEMMA DetoursKnown ==
    /\ DOMAIN Detours = DetourNames
    /\ \A fn \in DetourNames : Detours[fn] \in Seq(Events \cup {"native"}) /\ Len(Detours[fn]) \in 2 .. 3
    /\ \A fn \in DetourNames : Len(Detours[fn]) = 3 <=> fn = "WorldEnter"
    /\ \A fn \in DetourNames : \A i \in 1 .. Len(Detours[fn]) - 1 : Detours[fn][i] = "native" <=> Detours[fn][i + 1] # "native"
    /\ \A fn \in DetourNames : \A i \in 1 .. Len(Detours[fn]) :
          Detours[fn][i] = "native" \/ (Detours[fn][i] \in {"OnWorldLeave", "OnWorldEnter"} <=> fn = "WorldEnter")
BY DEF Detours, DetourNames, Events, hkObjUpdate, hkObjDestroy, hkTargetSet, hkPlaySound, hkSlotDispatch, hkSlotClear,
       hkDoodadSpawn, hkFramePump, hkWorldEnter

LEMMA EventInitInv == ClientInit => EventInv
<1> SUFFICES ASSUME ClientInit PROVE EventInv
  OBVIOUS
<1>1. EventTypes
  BY DEF ClientInit, EventTypes, Worlds
<1>2. calls = <<>> /\ ~Running
  BY DEF ClientInit, Running
<1>3. Recorded(buckets, emissions, calls)
  BY <1>2 DEF ClientInit, Recorded
<1>4. QED
  BY <1>1, <1>2, <1>3 DEF EventInv, Below

(* The innermost call goes a step on.                                      *)
LEMMA ReplaceTop ==
    ASSUME EventInv, Running, NEW f \in Frames, InOrder(f), calls' = Innermost(f), UNCHANGED buckets
    PROVE  /\ calls' \in Seq(Frames) /\ Len(calls') = Len(calls) /\ Running' /\ Top' = f
           /\ Below' /\ \A k \in DOMAIN calls' : InOrder(calls'[k])
           /\ Len(calls) \in Nat \ {0} /\ Top = calls[Len(calls)]
           /\ calls'[Len(calls)] = f /\ \A k \in 1 .. Len(calls) - 1 : calls'[k] = calls[k]
<1>1. calls \in Seq(Frames) /\ Len(calls) \in Nat \ {0}
  BY DEF EventInv, EventTypes, Running
<1>2. /\ calls' \in Seq(Frames) /\ Len(calls') = Len(calls) /\ calls'[Len(calls)] = f
      /\ \A k \in 1 .. Len(calls) - 1 : calls'[k] = calls[k]
  BY <1>1 DEF Innermost
<1>3. Running' /\ Top' = f
  BY <1>1, <1>2 DEF Running, Top
<1>4. Below'
  BY <1>1, <1>2 DEF EventInv, Below
<1>5. \A k \in DOMAIN calls' : InOrder(calls'[k])
  BY <1>1, <1>2 DEF EventInv
<1>6. QED
  BY <1>1, <1>2, <1>3, <1>4, <1>5 DEF Top

(* The records stand while the calls that walk stay the same, but for      *)
(* those whose list was walked to its end.                                 *)
LEMMA RecordedKept ==
    ASSUME NEW b, NEW log, NEW stack, NEW other, Recorded(b, log, stack),
           \A k \in DOMAIN other : Walks(other[k]) =>
               /\ k \in DOMAIN stack /\ Walks(stack[k]) /\ other[k].emission = stack[k].emission
               /\ other[k].event = stack[k].event /\ other[k].next = stack[k].next,
           \A k \in DOMAIN stack : Walks(stack[k]) =>
               \/ k \in DOMAIN other /\ Walks(other[k]) /\ other[k].emission = stack[k].emission
               \/ log[stack[k].emission].heard = log[stack[k].emission].due
    PROVE  Recorded(b, log, other)
<1>1. \A k \in DOMAIN other : Walks(other[k]) => Follows(b, log, other[k])
  BY DEF Recorded, Follows
<1>2. \A j, k \in DOMAIN other :
         Walks(other[j]) /\ Walks(other[k]) /\ other[j].emission = other[k].emission => j = k
  BY DEF Recorded
<1>3. \A n \in DOMAIN log : InTurn(log[n]) /\ Settled(log, other, n)
  BY DEF Recorded, Settled
<1>4. QED
  BY <1>1, <1>2, <1>3 DEF Recorded

(* The innermost call goes a step on and walks no list before or after, or *)
(* the same one.                                                           *)
LEMMA StepKeepsRecords ==
    ASSUME EventInv, Running, NEW f \in Frames, InOrder(f), calls' = Innermost(f), UNCHANGED <<buckets, emissions>>,
           Walks(f) => Walks(Top) /\ f.emission = Top.emission /\ f.event = Top.event /\ f.next = Top.next,
           Walks(Top) => Walks(f) \/ emissions[Top.emission].heard = emissions[Top.emission].due
    PROVE  Recorded(buckets, emissions, calls)'
<1>1. PICK n \in Nat \ {0} : n = Len(calls)
  BY ReplaceTop
<1>2. /\ DOMAIN calls = 1 .. n /\ DOMAIN calls' = 1 .. n /\ calls[n] = Top /\ calls'[n] = f
      /\ \A k \in 1 .. n : k = n \/ calls'[k] = calls[k]
  BY <1>1, ReplaceTop DEF EventInv, EventTypes
<1>3. Recorded(buckets, emissions, calls)
  BY DEF EventInv
<1> DEFINE new == calls'
<1> HIDE DEF new
<1>4. Recorded(buckets, emissions, new)
  <2>1. \A k \in DOMAIN new : Walks(new[k]) =>
           /\ k \in DOMAIN calls /\ Walks(calls[k]) /\ new[k].emission = calls[k].emission
           /\ new[k].event = calls[k].event /\ new[k].next = calls[k].next
    BY <1>2 DEF new
  <2>2. \A k \in DOMAIN calls : Walks(calls[k]) =>
           \/ k \in DOMAIN new /\ Walks(new[k]) /\ new[k].emission = calls[k].emission
           \/ emissions[calls[k].emission].heard = emissions[calls[k].emission].due
    BY <1>2 DEF new
  <2>3. QED
    BY <1>3, <2>1, <2>2, RecordedKept
<1>5. QED
  BY <1>4 DEF new, Recorded, Follows, Settled

(* What is told before the client acts was so when it was called, and what *)
(* is told after is what it did.                                           *)
LEMMA TellBefore ==
    ASSUME NEW fn \in DetourNames, NEW x, Callable(fn, x), Head(Detours[fn]) # "native"
    PROVE  Told(Head(Detours[fn]), IF fn = "WorldEnter" THEN world.map ELSE x)
BY DEF DetourNames, Detours, Callable, Told, hkObjUpdate, hkObjDestroy, hkTargetSet, hkPlaySound, hkSlotDispatch,
       hkSlotClear, hkDoodadSpawn, hkFramePump, hkWorldEnter

LEMMA TellAfter ==
    ASSUME world \in Worlds, NEW fn \in DetourNames, NEW x, Callable(fn, x), Head(Detours[fn]) = "native",
           world' = Effect(fn, x)
    PROVE  Told(Detours[fn][2], x)' /\ fn # "WorldEnter"
<1>1. fn \in {"ObjectUpdate", "TargetSet", "SlotDispatch", "DoodadSpawn", "FramePump"}
  BY DEF DetourNames, Detours, hkObjUpdate, hkObjDestroy, hkTargetSet, hkPlaySound, hkSlotDispatch,
         hkSlotClear, hkDoodadSpawn, hkFramePump, hkWorldEnter
<1>2. CASE fn = "ObjectUpdate"
  BY <1>2 DEF Worlds, Detours, hkObjUpdate, Told, Effect
<1>3. CASE fn = "TargetSet"
  BY <1>3 DEF Worlds, Detours, hkTargetSet, Told, Effect
<1>4. CASE fn = "SlotDispatch"
  BY <1>4 DEF Worlds, Detours, hkSlotDispatch, Told, Effect
<1>5. CASE fn = "DoodadSpawn"
  BY <1>5 DEF Worlds, Detours, hkDoodadSpawn, Told, Effect
<1>6. CASE fn = "FramePump"
  BY <1>6 DEF Worlds, Detours, hkFramePump, Told, Effect, Callable
<1>7. QED
  BY <1>1, <1>2, <1>3, <1>4, <1>5, <1>6

LEMMA EffectTyped ==
    ASSUME world \in Worlds, NEW fn \in DetourNames, NEW x \in Labels
    PROVE  Effect(fn, x) \in Worlds
BY DEF Worlds, Effect, DetourNames

LEMMA SubscribeInv ==
    ASSUME EventInv, NEW s \in Subscribers, NEW e \in Events, Subscribe(s, e)
    PROVE  EventInv'
<1>1. /\ ~Running /\ buckets' = [buckets EXCEPT ![e] = Append(@, s)]
      /\ UNCHANGED <<world, calls, begun, emissions>>
  BY DEF Subscribe
<1>2. EventTypes'
  BY <1>1 DEF EventInv, EventTypes
<1>3. calls = <<>> /\ calls' = <<>>
  BY <1>1 DEF Running
<1>4. Recorded(buckets, emissions, calls)'
  BY <1>1, <1>3 DEF EventInv, Recorded, Settled
<1>5. QED
  BY <1>2, <1>3, <1>4 DEF EventInv, Below, Running

LEMMA RunNativeInv == EventInv /\ RunNative => EventInv'
<1> SUFFICES ASSUME EventInv, RunNative PROVE EventInv'
  OBVIOUS
<1>1. /\ Running /\ Top.step = "between" /\ Top.todo # <<>> /\ Head(Top.todo) = "native"
      /\ world' = Effect(Top.fn, Top.arg) /\ calls' = Innermost([Top EXCEPT !.step = "native", !.todo = Tail(@)])
      /\ UNCHANGED <<buckets, begun, emissions>>
  BY DEF RunNative
<1>2. PICK t \in Frames : t = Top /\ InOrder(t) /\ ToldNow(t)
  BY <1>1 DEF EventInv, EventTypes, Running, Top
<1> DEFINE f == [t EXCEPT !.step = "native", !.todo = Tail(@)]
           d == Detours[t.fn]
           todo == t.todo
           rest == f.todo
<1>3. /\ f \in Frames /\ f.fn = t.fn /\ f.arg = t.arg /\ f.step = "native" /\ f.todo = Tail(t.todo)
  <2>1. Tail(t.todo) \in Seq(Events \cup {"native"})
    BY <1>1, <1>2 DEF Frames
  <2>2. QED
    BY <1>2, <2>1 DEF Frames, Steps
<1>4. d \in Seq(Events \cup {"native"}) /\ Len(d) \in 2 .. 3 /\ (Len(d) = 3 <=> t.fn = "WorldEnter")
  BY <1>2, DetoursKnown DEF Frames
<1>5. /\ todo \in Seq(Events \cup {"native"}) /\ todo # <<>> /\ rest = Tail(todo) /\ Head(todo) = "native"
      /\ Len(todo) <= Len(d) /\ \A i \in 1 .. Len(todo) : todo[i] = d[Len(d) - Len(todo) + i]
  BY <1>1, <1>2, <1>3 DEF Frames, InOrder, Left
<1>6. /\ t.fn \in DetourNames /\ t.arg \in Labels /\ t.step = "between" /\ calls' = Innermost(f)
      /\ world' = Effect(t.fn, t.arg) /\ world \in Worlds
      /\ Left(t) = Len(todo) /\ Left(f) = Len(rest) /\ Detours[f.fn] = d /\ f.todo = rest
  BY <1>1, <1>2, <1>3 DEF EventInv, EventTypes, Frames, Left
<1> HIDE DEF f, todo, rest
<1>7. /\ Len(todo) \in 1 .. Len(d) /\ Len(rest) = Len(todo) - 1 /\ todo[1] = "native"
      /\ \A i \in 1 .. Len(rest) : rest[i] = todo[i + 1]
      /\ Len(rest) > 0 => Head(rest) = rest[1] /\ rest # <<>>
  BY <1>4, <1>5
<1> HIDE DEF d
<1>8. \A i \in 1 .. Len(rest) : rest[i] = d[Len(d) - Len(rest) + i]
  BY <1>4, <1>5, <1>7
<1>9. InOrder(f)
  <2>1. d[Len(d) - Len(rest)] = "native" /\ Len(rest) < Len(d)
    BY <1>4, <1>5, <1>7
  <2>2. Len(rest) <= Len(d) /\ f.step = "native"
    BY <1>3, <1>4, <1>7, <2>1
  <2>3. Last(f) = "native"
    BY <1>6, <2>1 DEF Last
  <2>4. \A i \in 1 .. Left(f) : f.todo[i] = Detours[f.fn][Len(Detours[f.fn]) - Left(f) + i]
    BY <1>6, <1>8
  <2>5. QED
    BY <1>6, <2>1, <2>2, <2>3, <2>4 DEF InOrder
<1>10. ToldNow(f)'
  <2>1. Len(rest) # Len(d)
    BY <1>4, <1>7
  <2>2. CASE Len(rest) = 0
    BY <1>3, <1>6, <2>2 DEF ToldNow
  <2>3. CASE Len(todo) = Len(d) /\ Len(rest) # 0
    <3>1. Callable(t.fn, t.arg)
      BY <1>2, <1>6, <2>3 DEF ToldNow, d
    <3>2. Head(d) = "native" /\ Head(rest) = d[2]
      BY <1>4, <1>7, <1>8, <1>5, <2>3
    <3>3. Told(d[2], t.arg)' /\ t.fn # "WorldEnter"
      BY <1>6, <3>1, <3>2, TellAfter DEF d
    <3>4. QED
      BY <1>3, <1>6, <2>1, <3>2, <3>3 DEF ToldNow
  <2>4. CASE Len(todo) # Len(d) /\ Len(rest) # 0
    <3>1. Len(rest) = 1 /\ Len(d) = 3
      <4>1. Len(d) \in 2 .. 3 /\ Len(todo) \in 1 .. Len(d) /\ Len(rest) = Len(todo) - 1
        BY <1>4, <1>7
      <4>2. Len(d) \in Int /\ Len(todo) \in Int /\ Len(rest) \in Int
        BY <4>1
      <4>3. \A a, b, c \in Int : a \in 2 .. 3 /\ b \in 1 .. a /\ c = b - 1 /\ b # a /\ c # 0 => c = 1 /\ a = 3
        OBVIOUS
      <4>4. QED
        BY <2>4, <4>1, <4>2, <4>3
    <3>2. t.fn = "WorldEnter"
      BY <1>4, <3>1
    <3>3. 3 - 1 + 1 = 3 /\ 1 \in 1 .. 1
      OBVIOUS
    <3>4. Head(rest) = rest[1] /\ rest[1] = d[3]
      <4>1. Head(rest) = rest[1]
        BY <1>7, <3>1
      <4>2. rest[1] = d[Len(d) - Len(rest) + 1]
        BY <1>8, <3>1, <3>3
      <4>3. QED
        BY <3>1, <3>3, <4>1, <4>2
    <3>5. Head(rest) = "OnWorldEnter"
      BY <3>2, <3>4 DEF Detours, hkWorldEnter, d
    <3>6. QED
      BY <1>3, <1>6, <3>2, <3>5 DEF ToldNow, Told
  <2>5. QED
    BY <2>2, <2>3, <2>4
<1>11. Recorded(buckets, emissions, calls)'
  <2>1. ~Walks(f) /\ ~Walks(Top)
    BY <1>1, <1>3 DEF Walks
  <2>2. QED
    BY <1>1, <1>3, <1>6, <1>9, <2>1, StepKeepsRecords
<1>12. EventTypes'
  <2>1. world' \in Worlds
    BY <1>6, EffectTyped
  <2>2. QED
    BY <1>1, <1>3, <1>6, <1>9, <2>1, ReplaceTop DEF EventInv, EventTypes
<1>13. QED
  BY <1>1, <1>3, <1>6, <1>9, <1>10, <1>11, <1>12, ReplaceTop DEF EventInv

LEMMA EmitInv == EventInv /\ Emit => EventInv'
<1> SUFFICES ASSUME EventInv, Emit PROVE EventInv'
  OBVIOUS
<1>1. PICK t \in Frames : t = Top /\ InOrder(t) /\ ToldNow(t)
  BY DEF EventInv, EventTypes, Running, Top, Emit
<1>2. PICK map \in Labels \cup {Nobody} : map = world.map
  BY DEF EventInv, EventTypes, Worlds
<1>3. PICK n0 \in Nat : n0 = Len(emissions)
  BY DEF EventInv, EventTypes
<1> DEFINE e == Head(t.todo)
           f == [t EXCEPT !.step = "walk", !.next = 1, !.event = e, !.carried = IF t.fn = "WorldEnter" THEN map ELSE t.arg,
                          !.todo = Tail(@), !.nested = FALSE, !.emission = n0 + 1]
           m0 == [event |-> e, due |-> buckets[e], heard |-> <<>>]
           d == Detours[t.fn]
<1>4. /\ Running /\ t.step = "between" /\ t.todo # <<>> /\ e # "native"
      /\ emissions' = Append(emissions, m0) /\ UNCHANGED <<buckets, world, begun>>
  BY <1>1 DEF Emit
<1>5. t.fn \in DetourNames /\ t.todo \in Seq(Events \cup {"native"}) /\ t.arg \in Labels
  BY DEF Frames
<1>6. e \in Events /\ e = t.todo[1] /\ Len(t.todo) >= 1 /\ Tail(t.todo) \in Seq(Events \cup {"native"})
      /\ Len(Tail(t.todo)) = Len(t.todo) - 1
      /\ \A i \in 1 .. Len(t.todo) - 1 : Tail(t.todo)[i] = t.todo[i + 1]
  BY <1>4, <1>5
<1>7. /\ d \in Seq(Events \cup {"native"}) /\ Len(d) \in 2 .. 3 /\ Len(t.todo) <= Len(d)
      /\ \A i \in 1 .. Len(t.todo) : t.todo[i] = d[Len(d) - Len(t.todo) + i]
  BY <1>1, <1>5, DetoursKnown DEF InOrder, Left
<1>8. PICK n \in 2 .. 3 : n = Len(d)
  BY <1>7
<1>9. PICK m \in 1 .. n : m = Len(t.todo)
  BY <1>8, <1>5, <1>6, <1>7
<1>10. e = d[n - m + 1] /\ n - m + 1 \in 1 .. n /\ Len(Tail(t.todo)) = m - 1
  <2>1. 1 \in 1 .. m /\ n - m + 1 \in 1 .. n
    OBVIOUS
  <2>2. QED
    BY <1>6, <1>7, <1>8, <1>9, <2>1
<1>11. e \in {"OnWorldLeave", "OnWorldEnter"} <=> t.fn = "WorldEnter"
  BY <1>4, <1>5, <1>8, <1>10, DetoursKnown
<1>12. calls' = Innermost(f)
  BY <1>1, <1>2, <1>11, <1>3 DEF Emit, Carried
<1>13. /\ f \in Frames /\ f.fn = t.fn /\ f.step = "walk" /\ f.next = 1 /\ f.event = e /\ f.todo = Tail(t.todo)
      /\ f.carried = (IF t.fn = "WorldEnter" THEN map ELSE t.arg) /\ f.emission = n0 + 1
  <2>1. f.carried \in Labels \cup {Nobody}
    BY <1>5
  <2>2. 1 \in Nat \ {0} /\ FALSE \in BOOLEAN /\ "walk" \in Steps /\ n0 + 1 \in Nat
    BY DEF Steps
  <2>3. QED
    BY <1>6, <2>1, <2>2 DEF Frames
<1> HIDE DEF e, f
<1>14. InOrder(f)
  <2>1. Left(f) = m - 1 /\ Detours[f.fn] = d /\ f.todo = Tail(t.todo)
    BY <1>10, <1>13 DEF Left
  <2> HIDE DEF d
  <2>2. d[n - (m - 1)] = e
    <3>1. n - (m - 1) = n - m + 1
      OBVIOUS
    <3>2. QED
      BY <1>10, <3>1
  <2>3. \A i \in 1 .. m - 1 : f.todo[i] = d[n - (m - 1) + i]
    <3>1. SUFFICES ASSUME NEW i \in 1 .. m - 1 PROVE f.todo[i] = d[n - (m - 1) + i]
      OBVIOUS
    <3>2. i + 1 \in 1 .. m /\ n - m + (i + 1) = n - (m - 1) + i
      OBVIOUS
    <3>3. f.todo[i] = t.todo[i + 1]
      BY <1>6, <1>9, <1>13
    <3>4. t.todo[i + 1] = d[n - m + (i + 1)]
      BY <1>7, <1>8, <1>9, <3>2
    <3>5. QED
      BY <3>2, <3>3, <3>4
  <2>4. Last(f) = f.event
    BY <1>8, <1>13, <2>1, <2>2 DEF Last
  <2>5. m - 1 <= n /\ m - 1 < n
    OBVIOUS
  <2>6. QED
    BY <1>8, <1>13, <2>1, <2>3, <2>4, <2>5 DEF InOrder
<1>15. ToldNow(f)'
  <2>1. Told(e, f.carried)
    BY <1>1, <1>2, <1>4, <1>6, <1>13 DEF ToldNow, Left, e
  <2>2. Told(e, f.carried)'
    BY <1>4, <2>1 DEF Told
  <2>3. QED
    BY <1>13, <2>2 DEF ToldNow
<1>16. /\ m0 \in Emissions /\ m0.due = buckets[e] /\ m0.heard = <<>>
       /\ emissions \in Seq(Emissions) /\ buckets[e] \in Seq(Subscribers)
  BY <1>6 DEF Emissions, EventInv, EventTypes
<1> HIDE DEF m0
<1>17. /\ emissions' \in Seq(Emissions) /\ DOMAIN emissions' = 1 .. n0 + 1 /\ DOMAIN emissions = 1 .. n0
       /\ emissions'[n0 + 1] = m0 /\ \A i \in 1 .. n0 : emissions'[i] = emissions[i]
  BY <1>4, <1>3, <1>16
<1>18. EventTypes'
  BY <1>4, <1>12, <1>13, <1>14, <1>17, ReplaceTop DEF EventInv, EventTypes
<1>19. Recorded(buckets, emissions, calls)'
  <2>1. PICK c \in Nat \ {0} : c = Len(calls)
    BY <1>4, <1>12, <1>13, <1>14, ReplaceTop
  <2>2. /\ DOMAIN calls = 1 .. c /\ DOMAIN calls' = 1 .. c /\ calls[c] = t /\ calls'[c] = f
        /\ \A k \in 1 .. c : k = c \/ calls'[k] = calls[k]
    BY <1>1, <1>4, <1>12, <1>13, <1>14, <2>1, ReplaceTop DEF EventInv, EventTypes
  <2>3. ~Walks(t) /\ f.emission = n0 + 1
    BY <1>4, <1>13 DEF Walks
  <2>4. ASSUME NEW k \in 1 .. c, Walks(calls'[k])
        PROVE  Follows(buckets, emissions', calls'[k]) /\ (k = c \/ calls'[k].emission \in 1 .. n0)
    <3>1. CASE k = c
      <4>1. Len(m0.heard) = 0 /\ 1 - 1 = 0 /\ 0 <= Len(buckets[e]) /\ n0 + 1 \in 1 .. n0 + 1
        BY <1>16
      <4>2. QED
        BY <1>13, <1>16, <1>17, <2>2, <2>3, <3>1, <4>1 DEF Follows
    <3>2. CASE k # c
      <4>1. calls'[k] = calls[k] /\ Follows(buckets, emissions, calls[k])
        BY <2>2, <2>4, <3>2 DEF EventInv, Recorded
      <4>2. calls[k].emission \in 1 .. n0 /\ calls[k].emission \in 1 .. n0 + 1
        BY <1>17, <4>1 DEF Follows
      <4>3. QED
        BY <1>17, <4>1, <4>2 DEF Follows
    <3>3. QED
      BY <3>1, <3>2
  <2>5. \A j, k \in 1 .. c :
           Walks(calls'[j]) /\ Walks(calls'[k]) /\ calls'[j].emission = calls'[k].emission => j = k
    <3>1. n0 + 1 \notin 1 .. n0
      OBVIOUS
    <3>2. QED
      BY <2>2, <2>3, <2>4, <3>1 DEF EventInv, Recorded
  <2>6. ASSUME NEW i \in 1 .. n0 + 1 PROVE InTurn(emissions'[i]) /\ Settled(emissions', calls', i)
    <3>1. CASE i = n0 + 1
      <4>1. InTurn(m0)
        BY <1>16 DEF InTurn
      <4>2. Walks(f)
        BY <1>13 DEF Walks
      <4>3. c \in DOMAIN calls'
        BY <2>2
      <4>4. QED
        BY <1>17, <2>2, <2>3, <3>1, <4>1, <4>2, <4>3 DEF Settled
    <3>2. CASE i # n0 + 1
      <4>1. i \in 1 .. n0 /\ emissions'[i] = emissions[i]
        BY <1>17, <3>2
      <4>2. InTurn(emissions[i]) /\ Settled(emissions, calls, i)
        BY <1>17, <4>1 DEF EventInv, Recorded
      <4>3. QED
        BY <2>2, <2>3, <4>1, <4>2 DEF Settled
    <3>3. QED
      BY <3>1, <3>2
  <2>7. QED
    BY <1>4, <1>17, <2>2, <2>4, <2>5, <2>6 DEF Recorded
<1>20. QED
  BY <1>4, <1>12, <1>13, <1>14, <1>15, <1>18, <1>19, ReplaceTop DEF EventInv

(* The next of the list hears the event, which its record gains.           *)
LEMMA HandleInv == EventInv /\ Handle => EventInv'
<1> SUFFICES ASSUME EventInv, Handle PROVE EventInv'
  OBVIOUS
<1>1. PICK t \in Frames : t = Top /\ InOrder(t) /\ ToldNow(t)
  BY DEF EventInv, EventTypes, Running, Top, Handle
<1> DEFINE f == [t EXCEPT !.step = "handler", !.next = @ + 1]
           list == buckets[t.event]
<1>2. /\ Running /\ t.step = "walk" /\ t.next <= Len(list)
      /\ emissions' = [emissions EXCEPT ![t.emission].heard = Append(@, list[t.next])]
      /\ calls' = Innermost(f) /\ UNCHANGED <<buckets, world, begun>>
  BY <1>1 DEF Handle, InBucket, InListOrder
<1>3. t.next \in Nat \ {0} /\ t.event \in Events /\ list \in Seq(Subscribers)
  BY DEF Frames, EventInv, EventTypes
<1>4. t.next \in 1 .. Len(list) /\ list[t.next] \in Subscribers
  BY <1>2, <1>3
<1>5. /\ f \in Frames /\ f.fn = t.fn /\ f.arg = t.arg /\ f.todo = t.todo /\ f.step = "handler" /\ f.next = t.next + 1
      /\ f.event = t.event /\ f.carried = t.carried /\ f.nested = t.nested /\ f.emission = t.emission
  <2>1. t.next + 1 \in Nat \ {0} /\ "handler" \in Steps
    BY <1>3 DEF Steps
  <2>2. QED
    BY <2>1 DEF Frames
<1> HIDE DEF f
<1>6. InOrder(f)
  BY <1>1, <1>2, <1>5 DEF InOrder, Left, Last
<1>7. ToldNow(f)'
  BY <1>1, <1>2, <1>5 DEF ToldNow, Told
<1>8. PICK c \in Nat \ {0} : c = Len(calls)
  BY <1>2, <1>5, <1>6, ReplaceTop
<1>9. /\ DOMAIN calls = 1 .. c /\ DOMAIN calls' = 1 .. c /\ calls[c] = t /\ calls'[c] = f /\ Walks(t) /\ Walks(f)
      /\ \A k \in 1 .. c : k = c \/ calls'[k] = calls[k]
  BY <1>1, <1>2, <1>5, <1>6, <1>8, ReplaceTop DEF EventInv, EventTypes, Walks
<1> DEFINE n == t.emission
           old == emissions[n]
           new == [old EXCEPT !.heard = Append(@, list[t.next])]
<1>10. Follows(buckets, emissions, t) /\ n \in DOMAIN emissions /\ old \in Emissions /\ InTurn(old)
  BY <1>8, <1>9 DEF EventInv, EventTypes, Recorded, Follows
<1>11. /\ old.due = list /\ old.heard \in Seq(Subscribers) /\ Len(old.heard) = t.next - 1
       /\ \A i \in 1 .. t.next - 1 : old.heard[i] = list[i]
  BY <1>10 DEF Follows, InTurn, Emissions
<1>12. /\ new \in Emissions /\ new.due = list /\ new.heard = Append(old.heard, list[t.next])
  <2>1. Append(old.heard, list[t.next]) \in Seq(Subscribers)
    BY <1>4, <1>11
  <2>2. PICK m \in Emissions : m = old
    BY <1>10
  <2>3. PICK more \in Seq(Subscribers) : more = Append(old.heard, list[t.next])
    BY <2>1
  <2>4. new = [m EXCEPT !.heard = more]
    BY <2>2, <2>3
  <2>5. new \in Emissions /\ new.due = m.due /\ new.heard = more
    BY <2>4 DEF Emissions
  <2>6. QED
    BY <1>11, <2>2, <2>3, <2>5
<1>13. emissions' = [emissions EXCEPT ![n] = new]
  BY <1>2
<1> HIDE DEF new, old, n
<1>14. Len(new.heard) = t.next /\ \A i \in 1 .. t.next : new.heard[i] = list[i]
  <2>1. Len(new.heard) = t.next - 1 + 1 /\ new.heard[t.next - 1 + 1] = list[t.next]
    BY <1>3, <1>4, <1>11, <1>12
  <2>2. \A i \in 1 .. t.next - 1 : new.heard[i] = old.heard[i]
    BY <1>3, <1>4, <1>11, <1>12
  <2>3. \A i \in 1 .. t.next : i = t.next \/ i \in 1 .. t.next - 1
    BY <1>3
  <2>4. t.next - 1 + 1 = t.next
    BY <1>3
  <2>5. QED
    BY <1>11, <2>1, <2>2, <2>3, <2>4
<1>15. InTurn(new)
  <2>1. DOMAIN new.heard = 1 .. t.next
    BY <1>12, <1>14 DEF Emissions
  <2>2. QED
    BY <1>2, <1>12, <1>14, <2>1 DEF InTurn
<1>16. /\ emissions' \in Seq(Emissions) /\ DOMAIN emissions' = DOMAIN emissions /\ emissions'[n] = new
       /\ \A i \in DOMAIN emissions : i # n => emissions'[i] = emissions[i]
  <2>1. emissions \in Seq(Emissions) /\ n \in DOMAIN emissions
    BY <1>10 DEF EventInv, EventTypes, n
  <2>2. QED
    BY <1>12, <1>13, <2>1
<1>17. EventTypes'
  BY <1>2, <1>5, <1>6, <1>16, ReplaceTop DEF EventInv, EventTypes
<1>18. ASSUME NEW k \in 1 .. c, Walks(calls'[k])
       PROVE  /\ Follows(buckets, emissions', calls'[k])
              /\ Walks(calls[k]) /\ calls'[k].emission = calls[k].emission
  <2>1. CASE k = c
    <3>1. t.next + 1 - 1 = t.next
      BY <1>3
    <3>2. n \in DOMAIN emissions /\ n = t.emission
      BY <1>10 DEF n
    <3>3. Follows(buckets, emissions', f)
      <4>1. f.emission = n /\ f.event = t.event /\ f.next = t.next + 1
        BY <1>5, <3>2
      <4>2. new.due = buckets[f.event] /\ Len(new.heard) = f.next - 1 /\ f.next - 1 <= Len(buckets[f.event])
        BY <1>2, <1>12, <1>14, <3>1, <4>1
      <4>3. QED
        BY <1>16, <3>2, <4>1, <4>2 DEF Follows
    <3>4. QED
      BY <1>5, <1>9, <2>1, <3>3
  <2>2. CASE k # c
    <3>1. calls'[k] = calls[k] /\ Follows(buckets, emissions, calls[k])
      BY <1>9, <1>18, <2>2 DEF EventInv, Recorded
    <3>2. calls[k].emission # n
      BY <1>8, <1>9, <1>18, <2>2, <3>1 DEF EventInv, Recorded, n
    <3>3. QED
      BY <1>16, <1>18, <3>1, <3>2 DEF Follows
  <2>3. QED
    BY <2>1, <2>2
<1>19. ASSUME NEW i \in DOMAIN emissions PROVE InTurn(emissions'[i]) /\ Settled(emissions', calls', i)
  <2>1. CASE i = n
    BY <1>5, <1>8, <1>9, <1>15, <1>16, <2>1 DEF Settled, n
  <2>2. CASE i # n
    <3>1. emissions'[i] = emissions[i] /\ InTurn(emissions[i]) /\ Settled(emissions, calls, i)
      BY <1>16, <2>2 DEF EventInv, Recorded
    <3>2. QED
      BY <1>9, <2>2, <3>1 DEF Settled, n
  <2>3. QED
    BY <2>1, <2>2
<1>20. Recorded(buckets, emissions, calls)'
  <2>1. \A j, k \in 1 .. c :
           Walks(calls'[j]) /\ Walks(calls'[k]) /\ calls'[j].emission = calls'[k].emission => j = k
    BY <1>9, <1>18 DEF EventInv, Recorded
  <2>2. QED
    BY <1>2, <1>9, <1>16, <1>18, <1>19, <2>1 DEF Recorded
<1>21. QED
  BY <1>2, <1>5, <1>6, <1>7, <1>17, <1>20, ReplaceTop DEF EventInv

(* Back from a handler, a walk or the client's function.                   *)
LEMMA StepOnInv ==
    ASSUME EventInv, Running, NEW t \in Frames, t = Top, NEW then \in {"walk", "between"},
           calls' = Innermost([t EXCEPT !.step = then]),
           \/ t.step = "handler" /\ then = "walk"
           \/ t.step = "walk" /\ t.next > Len(buckets[t.event]) /\ then = "between"
           \/ t.step = "native" /\ then = "between",
           UNCHANGED <<buckets, world, begun, emissions>>
    PROVE  EventInv'
<1> DEFINE f == [t EXCEPT !.step = then]
<1>1. /\ f \in Frames /\ f.fn = t.fn /\ f.arg = t.arg /\ f.todo = t.todo /\ f.step = then /\ f.next = t.next
      /\ f.event = t.event /\ f.carried = t.carried /\ f.nested = t.nested /\ f.emission = t.emission
      /\ calls' = Innermost(f)
  BY DEF Frames, Steps
<1>2. InOrder(t) /\ ToldNow(t) /\ t.next \in Nat \ {0} /\ t.event \in Events /\ buckets[t.event] \in Seq(Subscribers)
  BY DEF EventInv, EventTypes, Running, Top, Frames
<1> HIDE DEF f
<1>3. InOrder(f)
  BY <1>1, <1>2 DEF InOrder, Left, Last
<1>4. then = "between" => Left(t) < Len(Detours[t.fn])
  BY <1>2 DEF InOrder
<1>5. ToldNow(f)'
  <2>1. CASE t.step = "handler"
    BY <1>1, <1>2, <2>1 DEF ToldNow, Told
  <2>2. CASE t.step = "native"
    BY <1>1, <1>2, <1>4, <2>2 DEF ToldNow, Told, Left
  <2>3. CASE t.step = "walk"
    <3>1. t.fn \in DetourNames /\ t.todo \in Seq(Events \cup {"native"}) /\ Last(t) \in Events
      BY <1>2, <2>3 DEF InOrder, Frames
    <3>2. PICK n \in 2 .. 3 : n = Len(Detours[t.fn])
      BY <3>1, DetoursKnown
    <3>3. CASE Left(t) = 0
      BY <1>1, <1>4, <2>3, <3>3 DEF ToldNow, Left
    <3>4. CASE Left(t) # 0
      <4>1. PICK m \in 1 .. n - 1 : m = Left(t)
        BY <1>4, <2>3, <3>1, <3>2, <3>4 DEF Left
      <4>2. n - m \in 1 .. n - 1 /\ n - m + 1 \in 1 .. n /\ 1 \in 1 .. m
        OBVIOUS
      <4>3. Head(t.todo) = t.todo[1] /\ t.todo[1] = Detours[t.fn][n - m + 1]
        <5>1. Head(t.todo) = t.todo[1]
          BY <3>1, <4>1 DEF Left
        <5>2. t.todo[1] = Detours[t.fn][n - m + 1]
          BY <1>2, <3>2, <4>1, <4>2 DEF InOrder
        <5>3. QED
          BY <5>1, <5>2
      <4>4. Detours[t.fn][n - m] # "native"
        BY <3>1, <3>2, <4>1 DEF Last, Events
      <4>5. Head(t.todo) = "native"
        BY <3>1, <3>2, <4>2, <4>3, <4>4, DetoursKnown
      <4>6. QED
        BY <1>1, <1>4, <2>3, <4>5 DEF ToldNow, Left
    <3>5. QED
      BY <3>3, <3>4
  <2>4. QED
    BY <2>1, <2>2, <2>3
<1>6. EventTypes'
  BY <1>1, <1>3, ReplaceTop DEF EventInv, EventTypes
<1>7. Recorded(buckets, emissions, calls)'
  <2>1. Walks(f) => Walks(t) /\ f.emission = t.emission /\ f.event = t.event /\ f.next = t.next
    BY <1>1 DEF Walks
  <2>2. ASSUME t.step = "walk", t.next > Len(buckets[t.event])
        PROVE  emissions[t.emission].heard = emissions[t.emission].due
    <3>1. Len(calls) \in DOMAIN calls /\ t = calls[Len(calls)] /\ Walks(t)
      BY <2>2 DEF EventInv, EventTypes, Running, Top, Walks
    <3>2. PICK m \in Emissions : m = emissions[t.emission] /\ InTurn(m) /\ Follows(buckets, emissions, t)
      BY <3>1 DEF EventInv, EventTypes, Recorded, Follows
    <3>3. m.heard \in Seq(Subscribers) /\ m.due \in Seq(Subscribers) /\ m.due = buckets[t.event]
      BY <3>2 DEF Emissions, Follows
    <3>4. Len(m.heard) = t.next - 1 /\ t.next - 1 <= Len(m.due)
      BY <3>2, <3>3 DEF Follows
    <3>5. Len(m.heard) = Len(m.due)
      BY <1>2, <2>2, <3>3, <3>4
    <3>6. \A i \in 1 .. Len(m.heard) : m.heard[i] = m.due[i]
      BY <3>2, <3>3 DEF InTurn
    <3>7. QED
      BY <3>2, <3>3, <3>5, <3>6
  <2>3. Walks(t) => Walks(f) \/ emissions[t.emission].heard = emissions[t.emission].due
    BY <1>1, <2>2 DEF Walks
  <2>4. QED
    BY <1>1, <1>3, <2>1, <2>3, StepKeepsRecords
<1>8. QED
  BY <1>1, <1>3, <1>5, <1>6, <1>7, ReplaceTop DEF EventInv

(* A call returns to the one that made it.                                 *)
LEMMA ReturnInv ==
    ASSUME EventInv, Running, Top.step = "between", Top.todo = <<>>,
           calls' = SubSeq(calls, 1, Len(calls) - 1), UNCHANGED <<buckets, world, begun, emissions>>
    PROVE  EventInv'
<1>1. PICK n \in Nat \ {0} : n = Len(calls)
  BY DEF EventInv, EventTypes, Running
<1>2. calls \in Seq(Frames) /\ calls # <<>>
  BY DEF EventInv, EventTypes, Running
<1>3. /\ calls' \in Seq(Frames) /\ Len(calls') = n - 1
      /\ \A k \in 1 .. n - 1 : calls'[k] = calls[k]
  BY <1>1, <1>2
<1>4. EventTypes'
  BY <1>3 DEF EventInv, EventTypes
<1>5. Below' /\ \A k \in DOMAIN calls' : InOrder(calls'[k])
  BY <1>1, <1>2, <1>3 DEF EventInv, Below
<1>6. Recorded(buckets, emissions, calls)'
  <2> DEFINE new == calls'
  <2> HIDE DEF new
  <2>1. DOMAIN calls = 1 .. n /\ DOMAIN new = 1 .. n - 1 /\ \A k \in 1 .. n - 1 : k \in 1 .. n /\ new[k] = calls[k]
    BY <1>1, <1>2, <1>3 DEF new
  <2>2. ~Walks(calls[n]) /\ \A k \in 1 .. n : k = n \/ k \in 1 .. n - 1
    BY <1>1 DEF Walks, Top
  <2>3. Recorded(buckets, emissions, calls)
    BY DEF EventInv
  <2>4. Recorded(buckets, emissions, new)
    BY <2>1, <2>2, <2>3, RecordedKept
  <2>5. QED
    BY <2>4 DEF new, Recorded, Follows, Settled
<1>7. ASSUME Running' PROVE ToldNow(Top)'
  <2>1. n - 1 \in 1 .. n - 1 /\ n - 1 >= 1
    BY <1>1, <1>3, <1>7 DEF Running
  <2>2. PICK t \in Frames : t = calls[n - 1] /\ InOrder(t)
    BY <1>1, <1>2, <2>1 DEF EventInv
  <2>3. t.nested /\ (t.step = "handler" \/ (t.step = "native" /\ t.fn = "WorldEnter"))
    BY <1>1, <2>1, <2>2 DEF EventInv, Below
  <2>4. Top' = t
    BY <1>3, <2>1, <2>2 DEF Top
  <2>5. CASE t.step = "handler"
    BY <2>3, <2>4, <2>5 DEF ToldNow
  <2>6. CASE t.step = "native" /\ t.fn = "WorldEnter"
    <3>1. t.todo \in Seq(Events \cup {"native"})
      BY DEF Frames
    <3>2. ASSUME Left(t) > 0, Head(t.todo) # "native" PROVE Told(Head(t.todo), world.map)
      <4>0. Len(Detours[t.fn]) = 3
        BY <2>6, DetoursKnown DEF DetourNames
      <4>1. PICK m \in 1 .. 2 : m = Left(t)
        <5>1. Left(t) < 3
          BY <2>2, <2>6, <4>0 DEF InOrder
        <5>2. Left(t) \in Nat
          BY <3>1 DEF Left
        <5>3. QED
          BY <3>2, <5>1, <5>2
      <4>2. Head(t.todo) = t.todo[1]
        BY <3>1, <3>2 DEF Left
      <4>3. Len(Detours[t.fn]) = 3 /\ t.fn \in DetourNames
        BY <2>6, DetoursKnown DEF DetourNames
      <4>4. 1 \in 1 .. m /\ 3 - m + 1 \in 1 .. 3
        OBVIOUS
      <4>5. t.todo[1] = Detours[t.fn][3 - m + 1]
        BY <2>2, <4>1, <4>3, <4>4 DEF InOrder
      <4>6. Head(t.todo) \in {"OnWorldLeave", "OnWorldEnter"}
        BY <2>6, <3>2, <4>2, <4>3, <4>4, <4>5, DetoursKnown
      <4>7. QED
        BY <4>6 DEF Told
    <3>3. Left(t) < Len(Detours[t.fn])
      BY <2>2, <2>6 DEF InOrder
    <3>4. QED
      BY <2>4, <2>6, <3>2, <3>3 DEF ToldNow, Told
  <2>7. QED
    BY <2>3, <2>5, <2>6
<1>8. QED
  BY <1>4, <1>5, <1>6, <1>7 DEF EventInv

LEMMA ResumeInv == EventInv /\ Resume => EventInv'
<1> SUFFICES ASSUME EventInv, Resume PROVE EventInv'
  OBVIOUS
<1>1. PICK t \in Frames : t = Top
  BY DEF EventInv, EventTypes, Running, Top, Resume
<1>2. t.next \in Nat /\ t.event \in Events /\ buckets[t.event] \in Seq(Subscribers)
  BY DEF EventInv, EventTypes, Frames
<1>3. CASE Top.step = "handler" /\ calls' = Innermost([Top EXCEPT !.step = "walk"])
  BY <1>1, <1>3, StepOnInv DEF Resume
<1>4. CASE Top.step = "walk" /\ ~InBucket(Top.next) /\ calls' = Innermost([Top EXCEPT !.step = "between"])
  <2>1. t.next > Len(buckets[t.event])
    BY <1>1, <1>2, <1>4 DEF InBucket
  <2>2. QED
    BY <1>1, <1>4, <2>1, StepOnInv DEF Resume
<1>5. CASE Top.step = "native" /\ calls' = Innermost([Top EXCEPT !.step = "between"])
  BY <1>1, <1>5, StepOnInv DEF Resume
<1>6. CASE Top.step = "between" /\ Top.todo = <<>> /\ calls' = SubSeq(calls, 1, Len(calls) - 1)
  BY <1>6, ReturnInv DEF Resume
<1>7. QED
  BY <1>3, <1>4, <1>5, <1>6 DEF Resume

(* A call that begins was allowed to, and only leaves its caller nested.   *)
LEMMA CallInv ==
    ASSUME EventInv, NEW fn \in DOMAIN Detours, NEW x \in Labels, Call(fn, x)
    PROVE  EventInv'
<1> DEFINE new == [fn |-> fn, arg |-> x, todo |-> Detours[fn], step |-> "between", next |-> 1, event |-> "OnUpdate",
                   carried |-> x, nested |-> FALSE, emission |-> 0]
           base == IF Running THEN Innermost([Top EXCEPT !.nested = TRUE]) ELSE calls
<1>1. /\ Callable(fn, x)
      /\ Running => Nests(Top, fn)
      /\ calls' = Append(base, new) /\ UNCHANGED <<buckets, world, emissions>>
  BY DEF Call
<1>2. fn \in DetourNames
  BY DetoursKnown
<1>3. new \in Frames
  <2>1. /\ Detours[fn] \in Seq(Events \cup {"native"}) /\ "between" \in Steps /\ 1 \in Nat \ {0}
        /\ "OnUpdate" \in Events /\ FALSE \in BOOLEAN
    BY <1>2, DetoursKnown DEF Steps, Events
  <2>2. QED
    BY <1>2, <2>1 DEF Frames
<1>4. InOrder(new)
  <2>1. Left(new) = Len(Detours[fn]) /\ Len(Detours[fn]) \in Nat
    BY <1>2, DetoursKnown DEF Left
  <2>2. \A i \in 1 .. Len(Detours[fn]) : Len(Detours[fn]) - Len(Detours[fn]) + i = i
    BY <2>1
  <2>3. new.fn = fn /\ new.todo = Detours[fn] /\ new.step = "between"
    OBVIOUS
  <2> HIDE DEF new
  <2>4. QED
    BY <2>1, <2>2, <2>3 DEF InOrder
<1>5. ToldNow(new)'
  <2>1. Callable(fn, x)'
    BY <1>1 DEF Callable
  <2>2. Head(Detours[fn]) # "native" => Told(Head(Detours[fn]), IF fn = "WorldEnter" THEN world.map ELSE x)
    BY <1>1, <1>2, TellBefore
  <2>3. QED
    BY <1>1, <2>1, <2>2 DEF ToldNow, Told
<1>6. PICK n \in Nat : n = Len(calls)
  BY DEF EventInv, EventTypes
<1>7. /\ base \in Seq(Frames) /\ Len(base) = n /\ \A k \in 1 .. n - 1 : base[k] = calls[k]
      /\ n # 0 => base[n] = [calls[n] EXCEPT !.nested = TRUE] /\ Nests(calls[n], fn)
  <2>1. CASE calls = <<>>
    BY <1>6, <2>1 DEF Running
  <2>2. CASE calls # <<>>
    <3>1. calls \in Seq(Frames) /\ calls[n] \in Frames /\ n # 0 /\ Top = calls[n]
      BY <1>6, <2>2 DEF EventInv, EventTypes, Top
    <3>2. [calls[n] EXCEPT !.nested = TRUE] \in Frames
      BY <3>1 DEF Frames
    <3>3. base = [calls EXCEPT ![n] = [calls[n] EXCEPT !.nested = TRUE]]
      BY <1>6, <2>2, <3>1 DEF Running, Innermost
    <3>4. Nests(calls[n], fn)
      BY <1>1, <2>2, <3>1 DEF Running
    <3> HIDE DEF base
    <3>5. base \in Seq(Frames) /\ Len(base) = n
      BY <1>6, <3>1, <3>2, <3>3
    <3>6. base[n] = [calls[n] EXCEPT !.nested = TRUE] /\ \A k \in 1 .. n - 1 : base[k] = calls[k]
      <4>1. DOMAIN calls = 1 .. n /\ n \in 1 .. n /\ \A k \in 1 .. n - 1 : k \in 1 .. n /\ k # n
        BY <1>6, <3>1
      <4>2. QED
        BY <3>3, <4>1
    <3>7. QED
      BY <3>4, <3>5, <3>6
  <2>3. QED
    BY <2>1, <2>2
<1> HIDE DEF base, new
<1>8. /\ calls' \in Seq(Frames) /\ Len(calls') = n + 1 /\ calls'[n + 1] = new
      /\ \A k \in 1 .. n : calls'[k] = base[k]
  BY <1>1, <1>3, <1>7
<1>9. ASSUME NEW k \in 1 .. n
      PROVE  /\ InOrder(calls'[k]) /\ calls'[k].nested
             /\ calls'[k].step = "handler" \/ (calls'[k].step = "native" /\ calls'[k].fn = "WorldEnter")
             /\ Walks(calls'[k]) <=> Walks(calls[k])
             /\ calls'[k].emission = calls[k].emission /\ calls'[k].event = calls[k].event
             /\ calls'[k].next = calls[k].next
  <2>1. calls'[k] = base[k]
    BY <1>8
  <2>2. calls[k] \in Frames /\ InOrder(calls[k])
    BY <1>6 DEF EventInv, EventTypes
  <2>3. CASE k # n
    <3>1. k \in 1 .. n - 1
      BY <2>3
    <3>2. base[k] = calls[k]
      BY <1>7, <3>1
    <3>3. QED
      BY <1>6, <2>1, <2>2, <3>1, <3>2 DEF EventInv, Below
  <2>4. CASE k = n
    <3>1. base[k] = [calls[k] EXCEPT !.nested = TRUE] /\ Nests(calls[k], fn)
      BY <1>7, <2>4
    <3>2. PICK t \in Frames : t = calls[k]
      BY <2>2
    <3>3. /\ base[k].fn = t.fn /\ base[k].todo = t.todo /\ base[k].step = t.step /\ base[k].next = t.next
          /\ base[k].event = t.event /\ base[k].nested /\ base[k].emission = t.emission
      BY <3>1, <3>2 DEF Frames
    <3>4. PICK b : b = base[k]
      OBVIOUS
    <3>5. InOrder(b)
      BY <2>2, <3>2, <3>3, <3>4 DEF InOrder, Left, Last
    <3>6. b.step = "handler" \/ (b.step = "native" /\ b.fn = "WorldEnter")
      BY <3>1, <3>2, <3>3, <3>4 DEF Nests
    <3>7. Walks(b) <=> Walks(t)
      BY <3>3, <3>4 DEF Walks
    <3>8. QED
      BY <2>1, <3>2, <3>3, <3>4, <3>5, <3>6, <3>7
  <2>5. QED
    BY <2>3, <2>4
<1>10. Below' /\ (\A k \in DOMAIN calls' : InOrder(calls'[k])) /\ Running' /\ Top' = new
  <2>1. \A k \in 1 .. n + 1 : k = n + 1 \/ k \in 1 .. n
    OBVIOUS
  <2>2. (n + 1) - 1 = n /\ n + 1 # 0
    OBVIOUS
  <2>3. Below'
    <3>1. \A k \in 1 .. n :
              calls'[k].nested /\ (calls'[k].step = "handler" \/ (calls'[k].step = "native" /\ calls'[k].fn = "WorldEnter"))
      BY <1>9
    <3>2. Len(calls') - 1 = n
      BY <1>8, <2>2
    <3>3. QED
      BY <3>1, <3>2 DEF Below
  <2>4. \A k \in DOMAIN calls' : InOrder(calls'[k])
    <3>1. DOMAIN calls' = 1 .. n + 1
      BY <1>8
    <3>2. \A k \in 1 .. n : InOrder(calls'[k])
      BY <1>9
    <3>3. InOrder(calls'[n + 1])
      BY <1>4, <1>8
    <3>4. QED
      BY <2>1, <3>1, <3>2, <3>3
  <2>5. Running' /\ Top' = new
    BY <1>8, <2>2 DEF Running, Top
  <2>6. QED
    BY <2>3, <2>4, <2>5
<1>11. Recorded(buckets, emissions, calls)'
  <2> DEFINE after == calls'
  <2> HIDE DEF after
  <2>1. DOMAIN calls = 1 .. n /\ DOMAIN after = 1 .. n + 1
    BY <1>6, <1>8 DEF after, EventInv, EventTypes
  <2>2. ~Walks(after[n + 1])
    BY <1>8 DEF after, new, Walks
  <2>3. \A k \in 1 .. n : k \in 1 .. n + 1 /\ \A i \in 1 .. n + 1 : i = n + 1 \/ i \in 1 .. n
    OBVIOUS
  <2>4. \A k \in 1 .. n :
           /\ Walks(after[k]) <=> Walks(calls[k])
           /\ after[k].emission = calls[k].emission /\ after[k].event = calls[k].event /\ after[k].next = calls[k].next
    BY <1>9 DEF after
  <2>5. Recorded(buckets, emissions, calls)
    BY DEF EventInv
  <2>6. \A k \in 1 .. n + 1 : k = n + 1 \/ k \in 1 .. n
    OBVIOUS
  <2>7. Recorded(buckets, emissions, after)
    BY <2>1, <2>2, <2>3, <2>4, <2>5, <2>6, RecordedKept
  <2>8. QED
    BY <1>1, <2>7 DEF after, Recorded, Follows, Settled
<1>12. EventTypes'
  BY <1>1, <1>8 DEF EventInv, EventTypes
<1>13. QED
  BY <1>1, <1>5, <1>10, <1>11, <1>12 DEF EventInv

LEMMA EventNextInv == EventInv /\ [ClientNext]_eventVars => EventInv'
<1> SUFFICES ASSUME EventInv, [ClientNext]_eventVars PROVE EventInv'
  OBVIOUS
<1>1. CASE UNCHANGED eventVars
  <2>1. UNCHANGED <<buckets, world, calls, begun, emissions>>
    BY <1>1 DEF eventVars
  <2>2. EventTypes' /\ Below' /\ \A k \in DOMAIN calls' : InOrder(calls'[k])
    BY <2>1 DEF EventInv, EventTypes, Below
  <2>3. Recorded(buckets, emissions, calls)'
    BY <2>1 DEF EventInv, Recorded, Follows, Settled
  <2>4. Running' => ToldNow(Top)'
    BY <2>1 DEF EventInv, Running, Top, ToldNow, Told, Callable
  <2>5. QED
    BY <2>1, <2>2, <2>3, <2>4 DEF EventInv
<1>2. QED
  BY <1>1, SubscribeInv, CallInv, RunNativeInv, EmitInv, HandleInv, ResumeInv DEF ClientNext

(* A handler hears of what the client is about to do before it is done and *)
(* of what it did after, and of things as they are unless a handler before *)
(* it called the client back (of the slot that is cleared, which is told   *)
(* too early, nothing is claimed).  Every emission is heard in the order   *)
(* of its list by those it held, each as often as it stands there, and is  *)
(* heard by all of them once its walk is over, also when calls inside      *)
(* calls emitted others meanwhile (Event.cpp:56).                          *)
THEOREM EventsTellTheTruthAlways == ClientSpec => []EventsTellTheTruth
<1>1. EventInv => EventsTellTheTruth
  <2> SUFFICES ASSUME EventInv PROVE EventsTellTheTruth
    OBVIOUS
  <2>1. ASSUME NEW k \in DOMAIN calls, calls[k].step = "handler", k = Len(calls), ~calls[k].nested
        PROVE  Told(calls[k].event, calls[k].carried)
    BY <2>1 DEF EventInv, EventTypes, ToldNow, Running, Top
  <2>2. ASSUME NEW n \in DOMAIN emissions PROVE InTurn(emissions[n]) /\ Settled(emissions, calls, n)
    BY DEF EventInv, Recorded
  <2>3. QED
    BY <2>1, <2>2 DEF EventsTellTheTruth, Settled
<1>2. QED
  BY <1>1, EventInitInv, EventNextInv, PTL DEF ClientSpec

-----------------------------------------------------------------------------
(* The pings of a group (RadialPing.tla).                                  *)

Messages == [kind : {"ping"}, from : Players, id : Nat] \cup [kind : {"party"}, is : BOOLEAN]

PingTypes ==
    /\ where \in [Players -> Maps \cup {None}] /\ group \subseteq Players
    /\ clientHot \subseteq Players /\ serverHot \subseteq Players
    /\ booted \subseteq Players /\ addons \subseteq Players
    /\ listening \subseteq addons /\ listening \subseteq booted
    /\ party \in [Players -> BOOLEAN] /\ made \in [Players -> Nat]
    /\ up \in [Players -> Seq(Nat)] /\ down \in [Players -> Seq(Messages)]
    /\ updates \in [Players -> Seq([kind : {"ping"}, from : Players, id : Nat])]
    /\ marker \in [Players -> [Players -> Nat]] /\ latest \in [Players -> [Players -> Nat]]
    /\ \A p \in Players : Len(updates[p]) <= UpdateLimit
    /\ \A p, s \in Players : marker[p][s] <= made[s] /\ latest[p][s] <= made[s]

IdsFrom(s, q) == {q[k].id : k \in PingsFrom(s, q)}
Ascends(s, q) == \A i, j \in PingsFrom(s, q) : i < j => q[i].id < q[j].id

(* The pings of a sender stay in the order they were made in, all the way  *)
(* through: its requests w, what one client is still sent (d), and what    *)
(* waits there (u); m of them were made.                                   *)
KeepsOrder(s, u, d, w, m) ==
    /\ Ascends(s, u) /\ Ascends(s, d)
    /\ \A n \in IdsFrom(s, u), k \in IdsFrom(s, d) : n < k
    /\ \A n \in IdsFrom(s, u) \cup IdsFrom(s, d) :
          n \in 1 .. m /\ \A k \in DOMAIN w : n < w[k]
    /\ \A k \in DOMAIN w : w[k] \in 1 .. m
    /\ \A j, k \in DOMAIN w : j < k => w[j] < w[k]

(* The last one relayed and neither taken nor lost is the last on the way. *)
Leads(l, ids) == (\A n \in ids : n <= l) /\ (ids # {} => l \in ids)

OnTheWay(p, s) == IdsFrom(s, updates[p]) \cup IdsFrom(s, down[p])
PairInv(p, s) ==
    /\ KeepsOrder(s, updates[p], down[p], up[s], made[s])
    /\ Leads(latest[p][s], OnTheWay(p, s))
    /\ p \notin addons => marker[p][s] = 0
    /\ p \in listening =>
          /\ updates[p] = << >>
          /\ IdsFrom(s, down[p]) = {} =>
                marker[p][s] \in {0, latest[p][s]} \cup (IF p = s THEN {made[s]} ELSE {})
PingInv == PingTypes /\ \A p, s \in Players : PairInv(p, s)

USE PingAssumption

LEMMA NothingFrom ==
    ASSUME NEW s
    PROVE  IdsFrom(s, << >>) = {} /\ PingsFrom(s, << >>) = {} /\ Ascends(s, << >>)
BY DEF IdsFrom, PingsFrom, Ascends

(* What a message adds to a connection or a queue.                         *)
IdOf(s, e) == IF e.kind = "ping" /\ e.from = s THEN {e.id} ELSE {}

(* One more message at the end of q: which positions hold a ping of s.     *)
LEMMA AppendedIndexes ==
    ASSUME NEW s, NEW M, NEW q \in Seq(M), NEW e \in M
    PROVE  /\ \A k \in PingsFrom(s, q) : k \in 1 .. Len(q) /\ Append(q, e)[k] = q[k]
           /\ Append(q, e)[Len(q) + 1] = e
           /\ PingsFrom(s, Append(q, e)) =
                PingsFrom(s, q) \cup (IF e.kind = "ping" /\ e.from = s THEN {Len(q) + 1} ELSE {})
<1> DEFINE a == Append(q, e)
<1>1. /\ DOMAIN a = 1 .. Len(q) + 1 /\ a[Len(q) + 1] = e /\ DOMAIN q = 1 .. Len(q) /\ Len(q) \in Nat
      /\ \A k \in 1 .. Len(q) : a[k] = q[k]
  OBVIOUS
<1>2. PingsFrom(s, a) = PingsFrom(s, q) \cup (IF e.kind = "ping" /\ e.from = s THEN {Len(q) + 1} ELSE {})
  BY <1>1 DEF PingsFrom
<1>3. \A k \in PingsFrom(s, q) : k \in 1 .. Len(q) /\ a[k] = q[k]
  BY <1>1 DEF PingsFrom
<1> QED  BY <1>1, <1>2, <1>3

LEMMA AppendedIds ==
    ASSUME NEW s, NEW M, NEW q \in Seq(M), NEW e \in M
    PROVE  IdsFrom(s, Append(q, e)) = IdsFrom(s, q) \cup IdOf(s, e)
<1> DEFINE a == Append(q, e)
           now == PingsFrom(s, a)
<1>1. /\ \A k \in PingsFrom(s, q) : k \in 1 .. Len(q) /\ a[k] = q[k]
      /\ a[Len(q) + 1] = e
      /\ now = PingsFrom(s, q) \cup (IF e.kind = "ping" /\ e.from = s THEN {Len(q) + 1} ELSE {})
  BY AppendedIndexes
<1>2. IdsFrom(s, a) = {a[k].id : k \in now}  BY DEF IdsFrom
<1>3. {a[k].id : k \in PingsFrom(s, q)} = IdsFrom(s, q)  BY <1>1 DEF IdsFrom
<1> HIDE DEF a, now
<1>4. IdsFrom(s, a) = IdsFrom(s, q) \cup IdOf(s, e)  BY <1>1, <1>2, <1>3 DEF IdOf
<1> QED  BY <1>4 DEF a

(* Appending keeps the order when what comes is newer than what is there.  *)
LEMMA AppendedPing ==
    ASSUME NEW s, NEW M, NEW q \in Seq(M), NEW e \in M,
           Ascends(s, q), \A n \in IdsFrom(s, q), k \in IdOf(s, e) : n < k
    PROVE  Ascends(s, Append(q, e))
<1> DEFINE a == Append(q, e)
           now == PingsFrom(s, a)
<1>1. /\ \A k \in PingsFrom(s, q) : k \in 1 .. Len(q) /\ a[k] = q[k]
      /\ a[Len(q) + 1] = e /\ Len(q) \in Nat
      /\ now = PingsFrom(s, q) \cup (IF e.kind = "ping" /\ e.from = s THEN {Len(q) + 1} ELSE {})
  BY AppendedIndexes
<1> HIDE DEF a
<1> SUFFICES ASSUME NEW i \in now, NEW j \in now, i < j PROVE a[i].id < a[j].id
  BY DEF Ascends, a
<1> HIDE DEF now
<1>2. i \in PingsFrom(s, q)  BY <1>1
<1>3. CASE j \in PingsFrom(s, q)  BY <1>1, <1>2, <1>3 DEF Ascends
<1>4. CASE j \notin PingsFrom(s, q)
  <2>1. j = Len(q) + 1 /\ e.id \in IdOf(s, e)  BY <1>4, <1>1 DEF IdOf
  <2>2. q[i].id \in IdsFrom(s, q)  BY <1>2 DEF IdsFrom
  <2> QED  BY <2>1, <2>2, <1>1, <1>2
<1> QED  BY <1>3, <1>4

(* What leaves from the front is older than what stays.                    *)
LEMMA TakenPing ==
    ASSUME NEW s, NEW M, NEW q \in Seq(M), q # << >>
    PROVE  /\ IdsFrom(s, q) = IdOf(s, Head(q)) \cup IdsFrom(s, Tail(q))
           /\ Ascends(s, q) =>
                 Ascends(s, Tail(q)) /\ \A n \in IdOf(s, Head(q)), k \in IdsFrom(s, Tail(q)) : n < k
<1> DEFINE t == Tail(q)
<1>1. /\ Len(q) \in Nat \ {0} /\ DOMAIN q = 1 .. Len(q) /\ DOMAIN t = 1 .. Len(q) - 1
      /\ Head(q) = q[1] /\ \A k \in 1 .. Len(q) - 1 : t[k] = q[k + 1]
  OBVIOUS
<1>2. \A k \in DOMAIN t : k \in PingsFrom(s, t) <=> k + 1 \in PingsFrom(s, q)
  BY <1>1 DEF PingsFrom
<1>3. \A k \in PingsFrom(s, t) : k \in DOMAIN t /\ k + 1 \in PingsFrom(s, q) /\ t[k] = q[k + 1]
  BY <1>1, <1>2 DEF PingsFrom
<1>4. \A k \in PingsFrom(s, q) : k = 1 \/ (k - 1 \in PingsFrom(s, t) /\ t[k - 1] = q[k])
  <2> SUFFICES ASSUME NEW k \in PingsFrom(s, q), k # 1 PROVE k - 1 \in PingsFrom(s, t) /\ t[k - 1] = q[k]
    OBVIOUS
  <2>1. k \in 1 .. Len(q)  BY <1>1 DEF PingsFrom
  <2>2. k - 1 \in 1 .. Len(q) - 1 /\ (k - 1) + 1 = k  BY <2>1, <1>1
  <2> QED  BY <2>2, <1>1, <1>2
<1>5. 1 \in PingsFrom(s, q) <=> (Head(q).kind = "ping" /\ Head(q).from = s)
  BY <1>1 DEF PingsFrom
<1>6. IdsFrom(s, q) = IdOf(s, Head(q)) \cup IdsFrom(s, t)
  <2>1. ASSUME NEW n \in IdsFrom(s, q) PROVE n \in IdOf(s, Head(q)) \cup IdsFrom(s, t)
    <3>1. PICK k \in PingsFrom(s, q) : n = q[k].id  BY DEF IdsFrom
    <3>2. CASE k = 1  BY <3>1, <3>2, <1>5, <1>1 DEF IdOf
    <3>3. CASE k # 1  BY <3>1, <3>3, <1>4 DEF IdsFrom
    <3> QED  BY <3>2, <3>3
  <2>2. ASSUME NEW n \in IdOf(s, Head(q)) PROVE n \in IdsFrom(s, q)
    BY <1>5, <1>1 DEF IdOf, IdsFrom
  <2>3. ASSUME NEW n \in IdsFrom(s, t) PROVE n \in IdsFrom(s, q)
    BY <1>3 DEF IdsFrom
  <2> QED  BY <2>1, <2>2, <2>3
<1>7. ASSUME Ascends(s, q) PROVE Ascends(s, t)
  <2> SUFFICES ASSUME NEW i \in PingsFrom(s, t), NEW j \in PingsFrom(s, t), i < j PROVE t[i].id < t[j].id
    BY DEF Ascends
  <2>1. i + 1 < j + 1  BY <1>3, <1>1
  <2> QED  BY <2>1, <1>3, <1>7 DEF Ascends
<1>8. ASSUME Ascends(s, q), NEW n \in IdOf(s, Head(q)), NEW m \in IdsFrom(s, t) PROVE n < m
  <2>1. PICK j \in PingsFrom(s, t) : m = t[j].id  BY DEF IdsFrom
  <2>2. 1 \in PingsFrom(s, q) /\ n = q[1].id  BY <1>5, <1>1 DEF IdOf
  <2>3. 1 < j + 1  BY <1>3, <1>1
  <2> QED  BY <2>1, <2>2, <2>3, <1>3, <1>8 DEF Ascends
<1> QED  BY <1>6, <1>7, <1>8

(* Max names an element when the set is bounded.                           *)
LEMMA LastOfSome ==
    ASSUME NEW S \in SUBSET Nat, NEW b \in Nat, S # {}, \A k \in S : k <= b
    PROVE  Max(S) \in S /\ \A k \in S : k <= Max(S)
<1>1. PICK k0 \in S : TRUE  OBVIOUS
<1>2. \A x \in S : b - x \in Nat  OBVIOUS
<1> DEFINE D == {b - x : x \in S}
<1>3. D \in SUBSET Nat /\ D # {}  BY <1>1, <1>2
<1>4. PICK d \in D : \A e \in D : d <= e
  <2> DEFINE R == OpToRel(<, Nat)
  <2>1. IsWellFoundedOn(R, Nat) /\ R = {pair \in Nat \X Nat : pair[1] < pair[2]}
    BY NatLessThanWellFounded DEF OpToRel
  <2> HIDE DEF R
  <2>2. PICK d \in D : \A e \in D : ~(<<e, d>> \in R)
    BY <2>1, <1>3, WFMin
  <2>3. ASSUME NEW e \in D PROVE d <= e
    <3>1. d \in Nat /\ e \in Nat  BY <1>3
    <3> HIDE DEF D
    <3>2. ~(e < d)  BY <3>1, <2>1, <2>2
    <3> QED  BY <3>1, <3>2
  <2> QED  BY <2>3
<1>5. PICK m \in S : d = b - m  BY <1>4
<1>6. \A k \in S : k <= m
  <2> TAKE k \in S
  <2>1. b - k \in D  OBVIOUS
  <2>2. d <= b - k  BY <2>1, <1>4
  <2>3. b - m <= b - k /\ k \in Nat /\ m \in Nat  BY <2>2, <1>5
  <2> QED  BY <2>3
<1>7. m \in S /\ \A k \in S : m >= k  BY <1>6
<1>8. Max(S) = CHOOSE x \in S : \A y \in S : x >= y  BY DEF Max
<1>9. Max(S) \in S /\ \A k \in S : Max(S) >= k  BY <1>7, <1>8
<1> QED  BY <1>9

(* In ascending order the newest has the greatest number.                  *)
LEMMA NewestLeads ==
    ASSUME NEW s, NEW M, NEW q \in Seq(M), Ascends(s, q), \A n \in IdsFrom(s, q) : n \in Nat
    PROVE  /\ IdsFrom(s, q) = {} <=> PingsFrom(s, q) = {}
           /\ IdsFrom(s, q) = {} => NewestFrom(s, q) = 0
           /\ IdsFrom(s, q) # {} => Leads(NewestFrom(s, q), IdsFrom(s, q))
<1>1. IdsFrom(s, q) = {} <=> PingsFrom(s, q) = {}  BY DEF IdsFrom
<1>2. ASSUME IdsFrom(s, q) # {} PROVE Leads(NewestFrom(s, q), IdsFrom(s, q))
  <2> DEFINE P == PingsFrom(s, q)
  <2>1. P \in SUBSET Nat /\ P # {} /\ \A k \in P : k <= Len(q)  BY <1>1, <1>2 DEF PingsFrom
  <2>2. Max(P) \in P /\ \A k \in P : k <= Max(P)
    <3> HIDE DEF P
    <3>1. Len(q) \in Nat  OBVIOUS
    <3> QED  BY <2>1, <3>1, LastOfSome
  <2>3. NewestFrom(s, q) = q[Max(P)].id  BY <2>1 DEF NewestFrom
  <2>4. NewestFrom(s, q) \in IdsFrom(s, q)  BY <2>2, <2>3 DEF IdsFrom
  <2>5. ASSUME NEW n \in IdsFrom(s, q) PROVE n <= NewestFrom(s, q)
    <3>1. PICK k \in P : n = q[k].id  BY DEF IdsFrom
    <3>2. CASE k = Max(P)  BY <3>1, <3>2, <2>3
    <3>3. CASE k # Max(P)
      <4>1. k < Max(P)  BY <3>3, <2>1, <2>2
      <4>2. q[k].id < q[Max(P)].id  BY <4>1, <2>2 DEF Ascends
      <4> QED  BY <4>2, <3>1, <2>3, <2>4
    <3> QED  BY <3>2, <3>3
  <2> QED  BY <2>4, <2>5 DEF Leads
<1>3. IdsFrom(s, q) = {} => NewestFrom(s, q) = 0  BY <1>1 DEF NewestFrom
<1> QED  BY <1>1, <1>2, <1>3

(* A queue and what is still under way, read as one sequence.              *)
LEMMA JoinedPings ==
    ASSUME NEW s, NEW M, NEW u \in Seq(M), NEW d \in Seq(M),
           Ascends(s, u), Ascends(s, d), \A n \in IdsFrom(s, u), k \in IdsFrom(s, d) : n < k
    PROVE  Ascends(s, u \o d) /\ IdsFrom(s, u \o d) = IdsFrom(s, u) \cup IdsFrom(s, d)
<1> DEFINE q == u \o d
<1>0. PICK n \in Nat : n = Len(u)  OBVIOUS
<1>00. PICK m \in Nat : m = Len(d)  OBVIOUS
<1>1. /\ q \in Seq(M) /\ DOMAIN q = 1 .. n + m /\ DOMAIN u = 1 .. n /\ DOMAIN d = 1 .. m
      /\ \A k \in 1 .. n + m : q[k] = IF k <= n THEN u[k] ELSE d[k - n]
  BY <1>0, <1>00
<1>2. \A k \in PingsFrom(s, q) : \/ k \in PingsFrom(s, u) /\ q[k] = u[k]
                                 \/ k > n /\ k - n \in PingsFrom(s, d) /\ q[k] = d[k - n]
  BY <1>1 DEF PingsFrom
<1>3. \A k \in PingsFrom(s, u) : k \in PingsFrom(s, q) /\ q[k] = u[k] /\ k <= n
  BY <1>1 DEF PingsFrom
<1>4. \A k \in PingsFrom(s, d) : k + n \in PingsFrom(s, q) /\ q[k + n] = d[k] /\ k \in Nat
  <2> TAKE k \in PingsFrom(s, d)
  <2>1. k \in 1 .. m  BY <1>1 DEF PingsFrom
  <2>2. k + n \in 1 .. n + m /\ ~(k + n <= n) /\ (k + n) - n = k  BY <2>1
  <2>3. q[k + n] = d[k]  BY <2>2, <1>1
  <2> QED  BY <2>1, <2>2, <2>3, <1>1 DEF PingsFrom
<1>5. IdsFrom(s, q) = IdsFrom(s, u) \cup IdsFrom(s, d)
  <2>1. ASSUME NEW x \in IdsFrom(s, q) PROVE x \in IdsFrom(s, u) \cup IdsFrom(s, d)
    BY <1>2 DEF IdsFrom
  <2>2. ASSUME NEW x \in IdsFrom(s, u) PROVE x \in IdsFrom(s, q)
    BY <1>3 DEF IdsFrom
  <2>3. ASSUME NEW x \in IdsFrom(s, d) PROVE x \in IdsFrom(s, q)
    BY <1>4 DEF IdsFrom
  <2> QED  BY <2>1, <2>2, <2>3
<1>6. Ascends(s, q)
  <2> SUFFICES ASSUME NEW i \in PingsFrom(s, q), NEW j \in PingsFrom(s, q), i < j PROVE q[i].id < q[j].id
    BY DEF Ascends
  <2>0. i \in Nat /\ j \in Nat  BY <1>1 DEF PingsFrom
  <2>1. CASE i \in PingsFrom(s, u) /\ j \in PingsFrom(s, u)
    BY <2>1, <1>3 DEF Ascends
  <2>2. CASE i \in PingsFrom(s, u) /\ j \notin PingsFrom(s, u)
    <3>1. j - n \in PingsFrom(s, d) /\ q[j] = d[j - n]  BY <2>2, <1>2
    <3>2. u[i].id \in IdsFrom(s, u) /\ d[j - n].id \in IdsFrom(s, d)  BY <3>1, <2>2 DEF IdsFrom
    <3> QED  BY <3>1, <3>2, <1>3, <2>2
  <2>3. CASE i \notin PingsFrom(s, u)
    <3>1. i > n /\ i - n \in PingsFrom(s, d) /\ q[i] = d[i - n]  BY <2>3, <1>2
    <3>2. j \notin PingsFrom(s, u)  BY <3>1, <2>0, <1>3
    <3>3. j - n \in PingsFrom(s, d) /\ q[j] = d[j - n]  BY <3>2, <1>2
    <3>4. i - n < j - n  BY <2>0
    <3> QED  BY <3>1, <3>3, <3>4 DEF Ascends
  <2> QED  BY <2>1, <2>2, <2>3
<1> QED  BY <1>5, <1>6

LEMMA MessageIds ==
    ASSUME NEW s, NEW d \in Seq(Messages), NEW e \in Messages
    PROVE  IdsFrom(s, Append(d, e)) = IdsFrom(s, d) \cup IdOf(s, e)
BY AppendedIds

(* What every step keeps of one sender's order.                            *)
LEMMA OrderWhenMade ==
    ASSUME NEW s, NEW u \in Seq(Messages), NEW d \in Seq(Messages), NEW w \in Seq(Nat), NEW m \in Nat,
           KeepsOrder(s, u, d, w, m)
    PROVE  KeepsOrder(s, u, d, w, m + 1) /\ KeepsOrder(s, u, d, Append(w, m + 1), m + 1)
<1> DEFINE more == Append(w, m + 1)
<1>0. PICK n \in Nat : n = Len(w)  OBVIOUS
<1>1. DOMAIN more = 1 .. n + 1 /\ DOMAIN w = 1 .. n /\ more[n + 1] = m + 1 /\ \A k \in 1 .. n : more[k] = w[k]
  BY <1>0
<1> HIDE DEF more
<1>2. \A k \in DOMAIN w : w[k] \in 1 .. m  BY DEF KeepsOrder
<1>3. \A k \in DOMAIN more : more[k] \in 1 .. m + 1  BY <1>1, <1>2
<1>4. ASSUME NEW j \in DOMAIN more, NEW k \in DOMAIN more, j < k PROVE more[j] < more[k]
  <2>1. j \in 1 .. n  BY <1>4, <1>1
  <2>2. CASE k \in 1 .. n  BY <2>1, <2>2, <1>1, <1>4 DEF KeepsOrder
  <2>3. CASE k = n + 1  BY <2>1, <2>3, <1>1, <1>2
  <2> QED  BY <2>2, <2>3, <1>1
<1>5. ASSUME NEW x \in IdsFrom(s, u) \cup IdsFrom(s, d) PROVE x \in 1 .. m + 1 /\ \A k \in DOMAIN more : x < more[k]
  <2>1. x \in 1 .. m /\ \A k \in DOMAIN w : x < w[k]  BY DEF KeepsOrder
  <2> QED  BY <2>1, <1>1
<1>6. KeepsOrder(s, u, d, more, m + 1)  BY <1>3, <1>4, <1>5 DEF KeepsOrder
<1>7. KeepsOrder(s, u, d, w, m + 1)  BY <1>2, <1>5 DEF KeepsOrder
<1> QED  BY <1>6, <1>7 DEF more

LEMMA OrderWhenRead ==
    ASSUME NEW s, NEW u \in Seq(Messages), NEW d \in Seq(Messages), NEW w \in Seq(Nat), NEW m \in Nat,
           KeepsOrder(s, u, d, w, m), w # << >>
    PROVE  /\ KeepsOrder(s, u, d, Tail(w), m) /\ Head(w) \in 1 .. m
           /\ \A x \in IdsFrom(s, u) \cup IdsFrom(s, d) : x < Head(w)
           /\ s \in Players => KeepsOrder(s, u, Append(d, Ping(s, Head(w))), Tail(w), m)
<1> DEFINE t == Tail(w)
           e == Ping(s, Head(w))
           a == Append(d, e)
<1>0. PICK n \in Nat : n = Len(w) /\ n # 0  OBVIOUS
<1>1. DOMAIN t = 1 .. n - 1 /\ DOMAIN w = 1 .. n /\ Head(w) = w[1] /\ \A k \in 1 .. n - 1 : t[k] = w[k + 1]
  BY <1>0
<1>2. \A k \in DOMAIN t : k + 1 \in DOMAIN w /\ t[k] = w[k + 1] /\ 1 < k + 1 /\ k \in Nat  BY <1>1
<1>3. Head(w) \in 1 .. m /\ \A k \in DOMAIN t : t[k] \in 1 .. m /\ Head(w) < t[k]
  BY <1>1, <1>2 DEF KeepsOrder
<1>4. ASSUME NEW j \in DOMAIN t, NEW k \in DOMAIN t, j < k PROVE t[j] < t[k]
  <2>1. j + 1 < k + 1  BY <1>2, <1>4
  <2> QED  BY <2>1, <1>2 DEF KeepsOrder
<1> HIDE DEF t
<1>5. \A x \in IdsFrom(s, u) \cup IdsFrom(s, d) : x \in 1 .. m /\ x < Head(w) /\ \A k \in DOMAIN t : x < t[k]
  <2> TAKE x \in IdsFrom(s, u) \cup IdsFrom(s, d)
  <2>1. x \in 1 .. m /\ \A k \in DOMAIN w : x < w[k]  BY DEF KeepsOrder
  <2>2. 1 \in DOMAIN w  BY <1>0, <1>1
  <2> QED  BY <2>1, <2>2, <1>1, <1>2
<1>6. KeepsOrder(s, u, d, t, m)  BY <1>3, <1>4, <1>5 DEF KeepsOrder
<1>7. ASSUME s \in Players PROVE KeepsOrder(s, u, a, t, m)
  <2>1. e \in Messages /\ IdOf(s, e) = {Head(w)}  BY <1>7, <1>3 DEF Messages, Ping, IdOf
  <2>2. IdsFrom(s, a) = IdsFrom(s, d) \cup {Head(w)}
    <3>1. IdsFrom(s, a) = IdsFrom(s, d) \cup IdOf(s, e)
      <4> HIDE DEF e
      <4> QED  BY <2>1, MessageIds
    <3> QED  BY <3>1, <2>1
  <2>3. Ascends(s, a)
    <3>1. Ascends(s, d) /\ \A x \in IdsFrom(s, d), k \in IdOf(s, e) : x < k  BY <2>1, <1>5 DEF KeepsOrder
    <3> QED  BY <3>1, <2>1, AppendedPing
  <2> HIDE DEF a, e
  <2>4. \A x \in IdsFrom(s, u) \cup IdsFrom(s, a) : x \in 1 .. m /\ \A k \in DOMAIN t : x < t[k]
    BY <2>2, <1>3, <1>5
  <2>5. \A x \in IdsFrom(s, u), k \in IdsFrom(s, a) : x < k
    BY <2>2, <1>5 DEF KeepsOrder
  <2>6. Ascends(s, u)  BY DEF KeepsOrder
  <2> QED  BY <2>3, <2>4, <2>5, <2>6, <1>3, <1>4 DEF KeepsOrder
<1> QED  BY <1>3, <1>5, <1>6, <1>7 DEF t

(* A message that is not the sender's changes nothing for it.              *)
LEMMA OrderOfOthers ==
    ASSUME NEW s, NEW u \in Seq(Messages), NEW d \in Seq(Messages), NEW w, NEW m,
           NEW e \in Messages, KeepsOrder(s, u, d, w, m), IdOf(s, e) = {}
    PROVE  KeepsOrder(s, u, Append(d, e), w, m) /\ IdsFrom(s, Append(d, e)) = IdsFrom(s, d)
<1>1. IdsFrom(s, Append(d, e)) = IdsFrom(s, d) \cup IdOf(s, e)  BY MessageIds
<1>2. Ascends(s, d)  BY DEF KeepsOrder
<1>3. Ascends(s, Append(d, e))
  <2>1. \A x \in IdsFrom(s, d), k \in IdOf(s, e) : x < k  OBVIOUS
  <2> QED  BY <2>1, <1>2, AppendedPing
<1> QED  BY <1>1, <1>3 DEF KeepsOrder

LEMMA OrderWhenLost ==
    ASSUME NEW s, NEW u, NEW d, NEW w, NEW m, KeepsOrder(s, u, d, w, m)
    PROVE  /\ KeepsOrder(s, << >>, d, w, m) /\ KeepsOrder(s, u, << >>, w, m)
           /\ KeepsOrder(s, u, d, << >>, m) /\ KeepsOrder(s, u, << >>, << >>, m)
BY NothingFrom DEF KeepsOrder

LEMMA OrderWhenTaken ==
    ASSUME NEW s, NEW u \in Seq(Messages), NEW d \in Seq(Messages), NEW w, NEW m,
           KeepsOrder(s, u, d, w, m), d # << >>
    PROVE  KeepsOrder(s, u, Tail(d), w, m)
<1>0. Ascends(s, d)  BY DEF KeepsOrder
<1>1. IdsFrom(s, Tail(d)) \subseteq IdsFrom(s, d) /\ Ascends(s, Tail(d))
  <2>1. IdsFrom(s, d) = IdOf(s, Head(d)) \cup IdsFrom(s, Tail(d))  BY TakenPing
  <2>2. Ascends(s, Tail(d))  BY <1>0, TakenPing
  <2> QED  BY <2>1, <2>2
<1> QED  BY <1>1 DEF KeepsOrder

LEMMA OrderWhenQueued ==
    ASSUME NEW s, NEW u \in Seq(Messages), NEW d \in Seq(Messages), NEW w, NEW m \in Nat,
           KeepsOrder(s, u, d, w, m), d # << >>
    PROVE  KeepsOrder(s, Append(u, Head(d)), Tail(d), w, m)
<1> DEFINE e == Head(d)
           a == Append(u, e)
           t == Tail(d)
<1>1. e \in Messages  OBVIOUS
<1>2. IdsFrom(s, d) = IdOf(s, e) \cup IdsFrom(s, t) /\ Ascends(s, t)
      /\ \A n \in IdOf(s, e), k \in IdsFrom(s, t) : n < k
  BY TakenPing DEF KeepsOrder
<1> HIDE DEF t, e
<1>3. IdsFrom(s, a) = IdsFrom(s, u) \cup IdOf(s, e)  BY <1>1, AppendedIds
<1>4. Ascends(s, a)
  <2>1. Ascends(s, u) /\ \A n \in IdsFrom(s, u), k \in IdOf(s, e) : n < k  BY <1>2 DEF KeepsOrder
  <2> QED  BY <2>1, <1>1, AppendedPing
<1> HIDE DEF a
<1>5. \A n \in IdsFrom(s, a), k \in IdsFrom(s, t) : n < k  BY <1>2, <1>3 DEF KeepsOrder
<1> QED  BY <1>2, <1>3, <1>4, <1>5 DEF KeepsOrder, a, e, t

LEMMA OrderWhenDropped ==
    ASSUME NEW s, NEW u \in Seq(Messages), NEW d \in Seq(Messages), NEW w, NEW m,
           KeepsOrder(s, u, d, w, m), u # << >>
    PROVE  KeepsOrder(s, Tail(u), d, w, m)
<1>0. Ascends(s, u)  BY DEF KeepsOrder
<1>1. IdsFrom(s, Tail(u)) \subseteq IdsFrom(s, u) /\ Ascends(s, Tail(u))
  <2>1. IdsFrom(s, u) = IdOf(s, Head(u)) \cup IdsFrom(s, Tail(u))  BY TakenPing
  <2>2. Ascends(s, Tail(u))  BY <1>0, TakenPing
  <2> QED  BY <2>1, <2>2
<1> QED  BY <1>1 DEF KeepsOrder

(* The invariant gives the property that the runs check.                   *)
LEMMA PingInvSettles == ASSUME PingInv PROVE MarkersSettle
<1>1. TypeOK
  <2>1. \A s, p \in Players : marker[p][s] \in 0 .. made[s] /\ latest[p][s] \in 0 .. made[s]
    BY DEF PingInv, PingTypes
  <2>2. {clientHot, serverHot, booted, addons, listening} \subseteq SUBSET Players
    BY DEF PingInv, PingTypes
  <2>3. listening \subseteq addons \cap booted  BY DEF PingInv, PingTypes
  <2>4. ASSUME NEW p \in Players
        PROVE  /\ updates[p] \in Seq([kind : {"ping"}, from : Players, id : Nat])
               /\ Len(updates[p]) <= UpdateLimit
               /\ \A s \in Players : {marker[p][s], latest[p][s]} \subseteq 0 .. made[s]
    BY <2>1 DEF PingInv, PingTypes
  <2>5. where \in [Players -> Maps \cup {None}] /\ group \subseteq Players  BY DEF PingInv, PingTypes
  <2> QED  BY <2>2, <2>3, <2>4, <2>5 DEF TypeOK
<1>2. ASSUME NEW p \in listening PROVE p \in Players /\ updates[p] = << >>
  <2>1. p \in Players  BY DEF PingInv, PingTypes
  <2> QED  BY <2>1 DEF PingInv, PairInv
<1>3. ASSUME NEW p \in listening, NEW s \in Players, ~UnderWay(p, s)
      PROVE  marker[p][s] \in {0, latest[p][s]} \cup (IF p = s THEN {made[s]} ELSE {})
  <2>1. IdsFrom(s, down[p]) = {}  BY <1>3 DEF UnderWay, IdsFrom, PingsFrom
  <2> QED  BY <2>1, <1>2 DEF PingInv, PairInv
<1> QED  BY <1>1, <1>2, <1>3 DEF MarkersSettle

LEMMA PingInit == ASSUME Init PROVE PingInv
<1>1. PingTypes
  <2>1. \A p \in Players : Len(updates[p]) <= UpdateLimit  BY DEF Init
  <2>2. \A p, s \in Players : marker[p][s] <= made[s] /\ latest[p][s] <= made[s]  BY DEF Init, NoMarkers
  <2>3. marker \in [Players -> [Players -> Nat]] /\ latest \in [Players -> [Players -> Nat]]
    BY DEF Init, NoMarkers
  <2> QED  BY <2>1, <2>2, <2>3 DEF Init, PingTypes
<1>2. ASSUME NEW p \in Players, NEW s \in Players PROVE PairInv(p, s)
  <2>1. updates[p] = << >> /\ down[p] = << >> /\ up[s] = << >> /\ made[s] = 0 /\ marker[p][s] = 0
        /\ listening = {}
    BY DEF Init, NoMarkers
  <2>2. KeepsOrder(s, << >>, << >>, << >>, 0)  BY NothingFrom DEF KeepsOrder
  <2>3. Leads(latest[p][s], {})  BY DEF Leads
  <2> QED  BY <2>1, <2>2, <2>3, NothingFrom DEF PairInv, OnTheWay
<1> QED  BY <1>1, <1>2 DEF PingInv

(* What waits in the native queue is a message like what is on its way.    *)
LEMMA WideUpdates ==
    ASSUME PingTypes, NEW p \in Players
    PROVE  updates[p] \in Seq(Messages)
<1> DEFINE Pings == [kind : {"ping"}, from : Players, id : Nat]
<1>1. updates[p] \in Seq(Pings)  BY DEF PingTypes
<1>2. Pings \subseteq Messages  BY DEF Messages
<1> HIDE DEF Pings
<1> QED  BY <1>1, <1>2

(* SendPing: the request is newer than everything under way.               *)
LEMMA SendPingSteps ==
    ASSUME PingInv, NEW x \in Players, SendPing(x) PROVE PingInv'
<1> USE DEF PingTypes
<1>0. PingTypes /\ \A p, s \in Players : PairInv(p, s)  BY DEF PingInv
<1>1. CASE UNCHANGED <<up, marker, made>>
  <2>1. PingTypes'  BY <1>0, <1>1 DEF SendPing, service, interface
  <2>2. ASSUME NEW p \in Players, NEW s \in Players PROVE PairInv(p, s)'
    BY <1>0, <1>1 DEF SendPing, service, interface, PairInv, OnTheWay
  <2> QED  BY <2>1, <2>2 DEF PingInv
<1>2. CASE ~UNCHANGED <<up, marker, made>>
  <2> DEFINE n == made[x] + 1
  <2>0. made[x] \in Nat  BY <1>0
  <2>1. /\ made' = [made EXCEPT ![x] = n]
        /\ up' = up \/ up' = [up EXCEPT ![x] = Append(@, n)]
        /\ marker' = [marker EXCEPT ![x] = [@ EXCEPT ![x] = n]]
        /\ x \in addons /\ UNCHANGED <<service, party, down, updates, interface, latest, events>>
        /\ clientHot' = clientHot \cup {x}
    BY <1>2 DEF SendPing, ApplyPing, Ping
  <2>2. \A s \in Players : made'[s] = (IF s = x THEN n ELSE made[s]) /\ made[s] <= made'[s]
    BY <2>0, <2>1, <1>0
  <2>3. \A p, s \in Players : marker'[p][s] = IF p = x /\ s = x THEN n ELSE marker[p][s]
    BY <2>1, <1>0
  <2>4. PingTypes'
    <3>1. up' \in [Players -> Seq(Nat)]
      <4>1. up[x] \in Seq(Nat) /\ n \in Nat  BY <2>0, <1>0
      <4>2. Append(up[x], n) \in Seq(Nat)  BY <4>1
      <4> HIDE DEF n
      <4> QED  BY <4>2, <2>1, <1>0
    <3>2. marker' \in [Players -> [Players -> Nat]]  BY <2>0, <2>1, <1>0
    <3>3. made' \in [Players -> Nat]  BY <2>0, <2>1, <1>0
    <3>4. \A p, s \in Players : marker'[p][s] <= made'[s] /\ latest'[p][s] <= made'[s]
      <4> TAKE p, s \in Players
      <4>1. marker[p][s] \in Nat /\ latest[p][s] \in Nat /\ made[s] \in Nat /\ made'[s] \in Nat  BY <1>0, <3>3
      <4>2. marker[p][s] <= made[s] /\ latest[p][s] <= made[s] /\ latest' = latest  BY <1>0, <2>1
      <4> QED  BY <4>1, <4>2, <2>2, <2>3
    <3> QED  BY <3>1, <3>2, <3>3, <3>4, <2>1, <1>0 DEF service, interface
  <2>5. ASSUME NEW p \in Players, NEW s \in Players PROVE PairInv(p, s)'
    <3>1. PairInv(p, s)  BY <1>0
    <3>2. KeepsOrder(s, updates[p], down[p], up'[s], made'[s])
      <4>1. KeepsOrder(s, updates[p], down[p], up[s], made[s])  BY <3>1 DEF PairInv
      <4>2. CASE s = x
        <5>1. /\ updates[p] \in Seq(Messages) /\ down[p] \in Seq(Messages) /\ up[s] \in Seq(Nat)
          BY <1>0, WideUpdates
        <5>2. up'[s] = up[s] \/ up'[s] = Append(up[s], n)  BY <2>1, <1>0, <4>2
        <5>3. made'[s] = made[s] + 1 /\ n = made[s] + 1 /\ made[s] \in Nat  BY <4>2, <2>2, <2>0
        <5>4. /\ KeepsOrder(s, updates[p], down[p], up[s], made[s] + 1)
              /\ KeepsOrder(s, updates[p], down[p], Append(up[s], made[s] + 1), made[s] + 1)
          BY <5>1, <5>3, <4>1, OrderWhenMade
        <5> QED  BY <5>2, <5>3, <5>4
      <4>3. CASE s # x
        <5>1. up'[s] = up[s] /\ made'[s] = made[s]  BY <4>3, <2>1, <1>0
        <5> QED  BY <5>1, <4>1
      <4> QED  BY <4>2, <4>3
    <3>3. p \notin addons => marker'[p][s] = 0  BY <3>1, <2>1, <2>3 DEF PairInv
    <3>4. ASSUME p \in listening, IdsFrom(s, down[p]) = {}
          PROVE  marker'[p][s] \in {0, latest[p][s]} \cup (IF p = s THEN {made'[s]} ELSE {})
      BY <3>1, <3>4, <2>2, <2>3 DEF PairInv
    <3>5. updates' = updates /\ down' = down /\ latest' = latest /\ addons' = addons /\ listening' = listening
      BY <2>1 DEF service, interface
    <3> QED  BY <3>1, <3>2, <3>3, <3>4, <3>5 DEF PairInv, OnTheWay
  <2> QED  BY <2>4, <2>5 DEF PingInv
<1> QED  BY <1>1, <1>2

(* The addon takes all that waits: q, with what arrives now at its end.    *)
LEMMA PullTypes ==
    ASSUME PingTypes, NEW p \in Players, NEW q \in Seq(Messages), PullServerPings(p, q),
           \A s \in Players : Ascends(s, q) /\ \A n \in IdsFrom(s, q) : n \in 1 .. made[s]
    PROVE  /\ updates' = [updates EXCEPT ![p] = << >>]
           /\ marker' \in [Players -> [Players -> Nat]]
           /\ \A o, s \in Players :
                 marker'[o][s] = IF o = p /\ IdsFrom(s, q) # {} THEN NewestFrom(s, q) ELSE marker[o][s]
           /\ \A s \in Players : IdsFrom(s, q) # {} => Leads(NewestFrom(s, q), IdsFrom(s, q))
           /\ \A o, s \in Players : marker'[o][s] <= made[s]
<1>1. ASSUME NEW s \in Players
      PROVE  /\ IdsFrom(s, q) = {} <=> PingsFrom(s, q) = {}
             /\ IdsFrom(s, q) # {} => Leads(NewestFrom(s, q), IdsFrom(s, q)) /\ NewestFrom(s, q) \in 1 .. made[s]
  <2>1. Ascends(s, q) /\ \A n \in IdsFrom(s, q) : n \in Nat  OBVIOUS
  <2>2. /\ IdsFrom(s, q) = {} <=> PingsFrom(s, q) = {}
        /\ IdsFrom(s, q) # {} => Leads(NewestFrom(s, q), IdsFrom(s, q))
    BY <2>1, NewestLeads
  <2> QED  BY <2>2 DEF Leads
<1> DEFINE row == [s \in Players |-> IF PingsFrom(s, q) = {} THEN marker[p][s] ELSE NewestFrom(s, q)]
<1>2. marker' = [marker EXCEPT ![p] = row] /\ updates' = [updates EXCEPT ![p] = << >>]
  BY DEF PullServerPings, PingTypes
<1>3. row \in [Players -> Nat] /\ \A s \in Players : row[s] <= made[s]
  <2> SUFFICES ASSUME NEW s \in Players PROVE row[s] \in Nat /\ row[s] <= made[s]  OBVIOUS
  <2>1. marker[p][s] \in Nat /\ marker[p][s] <= made[s] /\ made[s] \in Nat  BY DEF PingTypes
  <2> QED  BY <2>1, <1>1
<1>4. \A s \in Players : row[s] = IF IdsFrom(s, q) # {} THEN NewestFrom(s, q) ELSE marker[p][s]
  BY <1>1
<1> HIDE DEF row
<1>5. marker' \in [Players -> [Players -> Nat]]  BY <1>2, <1>3 DEF PingTypes
<1>6. \A o \in Players : marker'[o] = IF o = p THEN row ELSE marker[o]  BY <1>2 DEF PingTypes
<1>7. \A o, s \in Players :
         marker'[o][s] = IF o = p /\ IdsFrom(s, q) # {} THEN NewestFrom(s, q) ELSE marker[o][s]
  BY <1>4, <1>6
<1>8. \A o, s \in Players : marker'[o][s] <= made[s]  BY <1>3, <1>6 DEF PingTypes
<1> QED  BY <1>1, <1>2, <1>5, <1>7, <1>8

(* LoadAddOn: the first pull empties the queue.                            *)
LEMMA LoadAddOnSteps ==
    ASSUME PingInv, NEW x \in Players, LoadAddOn(x) PROVE PingInv'
<1>0. PingTypes /\ \A p, s \in Players : PairInv(p, s)  BY DEF PingInv
<1>1. CASE x \notin booted
  <2>1. PingTypes'  BY <1>0, <1>1 DEF LoadAddOn, service, PingTypes
  <2>2. ASSUME NEW p \in Players, NEW s \in Players PROVE PairInv(p, s)'
    <3>1. PairInv(p, s)  BY <1>0
    <3> QED  BY <3>1, <1>1 DEF LoadAddOn, service, PairInv, OnTheWay
  <2> QED  BY <2>1, <2>2 DEF PingInv
<1>2. CASE x \in booted
  <2> DEFINE q == updates[x]
  <2>1. /\ x \notin addons /\ addons' = addons \cup {x} /\ listening' = listening \cup {x}
        /\ PullServerPings(x, q)
        /\ UNCHANGED <<where, group, serverHot, party, clientHot, up, down, booted, made, latest, events>>
    BY <1>2 DEF LoadAddOn, service
  <2>2. q \in Seq(Messages)  BY <1>0, WideUpdates
  <2>3. ASSUME NEW s \in Players PROVE Ascends(s, q) /\ \A n \in IdsFrom(s, q) : n \in 1 .. made[s]
    <3>1. PairInv(x, s)  BY <1>0
    <3> QED  BY <3>1 DEF PairInv, KeepsOrder
  <2>4. /\ updates' = [updates EXCEPT ![x] = << >>]
        /\ marker' \in [Players -> [Players -> Nat]]
        /\ \A o, s \in Players :
              marker'[o][s] = IF o = x /\ IdsFrom(s, q) # {} THEN NewestFrom(s, q) ELSE marker[o][s]
        /\ \A s \in Players : IdsFrom(s, q) # {} => Leads(NewestFrom(s, q), IdsFrom(s, q))
        /\ \A o, s \in Players : marker'[o][s] <= made[s]
    <3> HIDE DEF q
    <3> QED  BY <1>0, <2>1, <2>2, <2>3, PullTypes
  <2>5. PingTypes'
    <3>1. updates' \in [Players -> Seq([kind : {"ping"}, from : Players, id : Nat])]
      <4>1. << >> \in Seq([kind : {"ping"}, from : Players, id : Nat])  OBVIOUS
      <4> DEFINE Pings == [kind : {"ping"}, from : Players, id : Nat]
      <4>2. updates \in [Players -> Seq(Pings)] /\ << >> \in Seq(Pings)  BY <1>0, <4>1 DEF PingTypes
      <4> HIDE DEF Pings
      <4>3. updates' \in [Players -> Seq(Pings)]  BY <4>2, <2>4
      <4> QED  BY <4>3 DEF Pings
    <3>2. \A p \in Players : Len(updates'[p]) <= UpdateLimit
      <4> TAKE p \in Players
      <4>1. updates'[p] = << >> \/ updates'[p] = updates[p]  BY <2>4, <1>0 DEF PingTypes
      <4> QED  BY <4>1, <1>0 DEF PingTypes
    <3> QED  BY <3>1, <3>2, <2>1, <2>4, <1>0, <1>2 DEF PingTypes
  <2>6. ASSUME NEW p \in Players, NEW s \in Players PROVE PairInv(p, s)'
    <3>1. PairInv(p, s)  BY <1>0
    <3>2. CASE p # x
      <4>1. updates'[p] = updates[p] /\ marker'[p][s] = marker[p][s]  BY <2>4, <3>2, <1>0 DEF PingTypes
      <4> QED  BY <4>1, <3>1, <3>2, <2>1 DEF PairInv, OnTheWay
    <3>3. CASE p = x
      <4>1. updates'[p] = << >>  BY <2>4, <3>3, <1>0 DEF PingTypes
      <4>2. KeepsOrder(s, << >>, down[p], up[s], made[s])  BY <3>1, OrderWhenLost DEF PairInv
      <4>3. Leads(latest[p][s], IdsFrom(s, q) \cup IdsFrom(s, down[p]))  BY <3>1, <3>3 DEF PairInv, OnTheWay
      <4>4. \A n \in IdsFrom(s, q), k \in IdsFrom(s, down[p]) : n < k  BY <3>1, <3>3 DEF PairInv, KeepsOrder
      <4>5. latest[p][s] \in Nat /\ \A n \in IdsFrom(s, q) \cup IdsFrom(s, down[p]) : n \in Nat
        <5>1. KeepsOrder(s, q, down[p], up[s], made[s])  BY <3>1, <3>3 DEF PairInv
        <5>2. latest[p][s] \in Nat /\ made[s] \in Nat  BY <1>0 DEF PingTypes
        <5> QED  BY <5>1, <5>2 DEF KeepsOrder
      <4>6. IdsFrom(s, << >>) = {}  BY NothingFrom
      <4> HIDE DEF q
      <4>7. Leads(latest[p][s], IdsFrom(s, << >>) \cup IdsFrom(s, down[p]))
        <5>1. ASSUME IdsFrom(s, down[p]) # {}, latest[p][s] \in IdsFrom(s, q) PROVE FALSE
          <6>1. PICK k \in IdsFrom(s, down[p]) : TRUE  BY <5>1
          <6>2. k <= latest[p][s] /\ latest[p][s] < k  BY <4>3, <4>4, <5>1 DEF Leads
          <6> QED  BY <6>2, <4>5
        <5> QED  BY <5>1, <4>3, <4>6 DEF Leads
      <4>8. ASSUME IdsFrom(s, down[p]) = {} PROVE marker'[p][s] \in {0, latest[p][s]}
        <5>1. CASE IdsFrom(s, q) = {}
          <6>1. marker'[p][s] = marker[p][s]  BY <5>1, <2>4
          <6>2. marker[p][s] = 0  BY <3>1, <3>3, <2>1 DEF PairInv
          <6> QED  BY <6>1, <6>2
        <5>2. CASE IdsFrom(s, q) # {}
          <6>1. marker'[p][s] = NewestFrom(s, q) /\ Leads(NewestFrom(s, q), IdsFrom(s, q))
            BY <5>2, <3>3, <2>4
          <6>2. latest[p][s] \in IdsFrom(s, q) /\ \A n \in IdsFrom(s, q) : n <= latest[p][s]
            BY <4>3, <4>8, <5>2 DEF Leads
          <6>3. NewestFrom(s, q) \in IdsFrom(s, q) /\ latest[p][s] <= NewestFrom(s, q)
            BY <6>1, <6>2, <5>2 DEF Leads
          <6>4. NewestFrom(s, q) <= latest[p][s]  BY <6>2, <6>3
          <6>5. NewestFrom(s, q) = latest[p][s]  BY <6>3, <6>4, <4>5
          <6> QED  BY <6>1, <6>5
        <5> QED  BY <5>1, <5>2
      <4>9. p \in addons'  BY <3>3, <2>1
      <4> QED  BY <4>1, <4>2, <4>6, <4>7, <4>8, <4>9, <2>1 DEF PairInv, OnTheWay
    <3> QED  BY <3>2, <3>3
  <2> QED  BY <2>5, <2>6 DEF PingInv
<1> QED  BY <1>1, <1>2

(* A pull empties one queue and leaves the others.                         *)
LEMMA EmptyUpdatesTyped ==
    ASSUME PingTypes, NEW p \in Players, updates' = [updates EXCEPT ![p] = << >>]
    PROVE  /\ updates' \in [Players -> Seq([kind : {"ping"}, from : Players, id : Nat])]
           /\ \A o \in Players : updates'[o] = IF o = p THEN << >> ELSE updates[o]
           /\ \A o \in Players : Len(updates'[o]) <= UpdateLimit
<1> DEFINE Pings == [kind : {"ping"}, from : Players, id : Nat]
<1>1. updates \in [Players -> Seq(Pings)] /\ << >> \in Seq(Pings)  BY DEF PingTypes
<1> HIDE DEF Pings
<1>2. updates' \in [Players -> Seq(Pings)]  BY <1>1
<1>3. \A o \in Players : updates'[o] = IF o = p THEN << >> ELSE updates[o]  BY <1>1
<1>4. \A o \in Players : Len(updates'[o]) <= UpdateLimit
  <2> TAKE o \in Players
  <2>1. Len(updates[o]) <= UpdateLimit /\ Len(<< >>) = 0  BY DEF PingTypes
  <2> QED  BY <1>3, <2>1
<1> QED  BY <1>2, <1>3, <1>4 DEF Pings

(* OnServerPing: pulled at once by one who listens; queued otherwise, and a *)
(* full queue loses its oldest, with the note of it when that was the last. *)
LEMMA OnServerPingSteps ==
    ASSUME PingInv, NEW x \in Players, OnServerPing(x) PROVE PingInv'
<1>0. PingTypes /\ \A p, s \in Players : PairInv(p, s)  BY DEF PingInv
<1> DEFINE e == Head(down[x])
           t == Tail(down[x])
           q == Queued(updates[x], e)
           gone(s) == s \in DroppedBy(x)
<1>1. /\ down[x] \in Seq(Messages) /\ down[x] # << >> /\ updates[x] \in Seq(Messages)
      /\ down \in [Players -> Seq(Messages)]
  BY <1>0, WideUpdates DEF OnServerPing, PingTypes
<1>2. e \in Messages /\ e.kind = "ping" /\ t \in Seq(Messages)  BY <1>1 DEF OnServerPing
<1>3. e \in [kind : {"ping"}, from : Players, id : Nat]  BY <1>2 DEF Messages
<1>4. down' = [down EXCEPT ![x] = t]  BY <1>1 DEF OnServerPing
<1>5. \A p \in Players : down'[p] = IF p = x THEN t ELSE down[p]  BY <1>1, <1>4
<1>6. latest' = [latest EXCEPT ![x] = [s \in Players |-> IF gone(s) THEN 0 ELSE latest[x][s]]]
  BY <1>0 DEF OnServerPing, PingTypes
<1>7. /\ latest' \in [Players -> [Players -> Nat]]
      /\ \A p, s \in Players : latest'[p][s] = IF p = x /\ gone(s) THEN 0 ELSE latest[p][s]
  <2> HIDE DEF gone
  <2> QED  BY <1>6, <1>0 DEF PingTypes
<1>8. q = IF Len(updates[x]) >= UpdateLimit THEN Append(Tail(updates[x]), e) ELSE Append(updates[x], e)
  BY DEF Queued
<1>9. \A p, s \in Players : latest'[p][s] <= made[s]
  <2> TAKE p, s \in Players
  <2>1. latest[p][s] <= made[s] /\ made[s] \in Nat  BY <1>0 DEF PingTypes
  <2> QED  BY <2>1, <1>7
<1>10. ASSUME NEW s \in Players
       PROVE  /\ KeepsOrder(s, updates[x], down[x], up[s], made[s]) /\ made[s] \in Nat
              /\ Leads(latest[x][s], OnTheWay(x, s)) /\ latest[x][s] \in Nat
              /\ KeepsOrder(s, Append(updates[x], e), t, up[s], made[s])
              /\ IdsFrom(s, down[x]) = IdOf(s, e) \cup IdsFrom(s, t)
              /\ IdsFrom(s, Append(updates[x], e)) = IdsFrom(s, updates[x]) \cup IdOf(s, e)
  <2>1. PairInv(x, s)  BY <1>0
  <2>2. KeepsOrder(s, updates[x], down[x], up[s], made[s]) /\ Leads(latest[x][s], OnTheWay(x, s))
    BY <2>1 DEF PairInv
  <2>3. made[s] \in Nat /\ latest[x][s] \in Nat  BY <1>0 DEF PingTypes
  <2>4. KeepsOrder(s, Append(updates[x], Head(down[x])), Tail(down[x]), up[s], made[s])
    BY <1>1, <2>2, <2>3, OrderWhenQueued
  <2>5. IdsFrom(s, down[x]) = IdOf(s, Head(down[x])) \cup IdsFrom(s, Tail(down[x]))
    BY <1>1, TakenPing
  <2> HIDE DEF e
  <2>6. IdsFrom(s, Append(updates[x], e)) = IdsFrom(s, updates[x]) \cup IdOf(s, e)
    BY <1>1, <1>2, MessageIds
  <2> QED  BY <2>2, <2>3, <2>4, <2>5, <2>6 DEF e
<1>11. CASE x \in listening
  <2>1. updates[x] = << >>  BY <1>0, <1>11 DEF PairInv
  <2>2. Len(updates[x]) = 0 /\ ~(Len(updates[x]) >= UpdateLimit)  BY <2>1
  <2>3. q = Append(<< >>, e) /\ \A s \in Players : ~gone(s)  BY <2>1, <2>2, <1>8 DEF DroppedBy
  <2>4. PullServerPings(x, q) /\ UNCHANGED <<service, party, clientHot, up, interface, made, events>>
    BY <1>11 DEF OnServerPing
  <2>5. q \in Seq(Messages)
    <3> HIDE DEF e, q
    <3>1. Append(<< >>, e) \in Seq(Messages)  BY <1>2
    <3> QED  BY <3>1, <2>3
  <2>6. ASSUME NEW s \in Players
        PROVE  Ascends(s, q) /\ (\A n \in IdsFrom(s, q) : n \in 1 .. made[s]) /\ IdsFrom(s, q) = IdOf(s, e)
    <3>1. KeepsOrder(s, q, t, up[s], made[s])  BY <1>10, <2>1, <2>3
    <3>2. IdsFrom(s, q) = IdsFrom(s, << >>) \cup IdOf(s, e)  BY <1>10, <2>1, <2>3
    <3>3. IdsFrom(s, q) = IdOf(s, e)  BY <3>2, NothingFrom
    <3> HIDE DEF q, t
    <3> QED  BY <3>1, <3>3 DEF KeepsOrder
  <2>7. /\ updates' = [updates EXCEPT ![x] = << >>]
        /\ marker' \in [Players -> [Players -> Nat]]
        /\ \A o, s \in Players :
              marker'[o][s] = IF o = x /\ IdsFrom(s, q) # {} THEN NewestFrom(s, q) ELSE marker[o][s]
        /\ \A s \in Players : IdsFrom(s, q) # {} => Leads(NewestFrom(s, q), IdsFrom(s, q))
        /\ \A o, s \in Players : marker'[o][s] <= made[s]
    <3> HIDE DEF q
    <3> QED  BY <1>0, <2>4, <2>5, <2>6, PullTypes
  <2>8. PingTypes'
    <3>1. down' \in [Players -> Seq(Messages)]  BY <1>1, <1>2, <1>4
    <3>2. /\ updates' \in [Players -> Seq([kind : {"ping"}, from : Players, id : Nat])]
          /\ \A o \in Players : Len(updates'[o]) <= UpdateLimit
      BY <2>7, <1>0, EmptyUpdatesTyped
    <3>3. made' = made /\ UNCHANGED <<where, group, serverHot, party, clientHot, up, booted, addons, listening>>
      BY <2>4 DEF service, interface
    <3> QED  BY <3>1, <3>2, <3>3, <2>7, <1>7, <1>9, <1>0 DEF PingTypes
  <2>9. ASSUME NEW p \in Players, NEW s \in Players PROVE PairInv(p, s)'
    <3>1. PairInv(p, s)  BY <1>0
    <3>2. UNCHANGED <<up, made, addons, listening>> /\ latest'[p][s] = latest[p][s]
      BY <2>4, <2>3, <1>7 DEF interface
    <3>3. CASE p # x
      <4>1. updates'[p] = updates[p] /\ down'[p] = down[p]  BY <3>3, <2>7, <1>5, <1>0, EmptyUpdatesTyped
      <4>2. marker'[p][s] = marker[p][s]  BY <3>3, <2>7
      <4> QED  BY <4>1, <4>2, <3>1, <3>2 DEF PairInv, OnTheWay
    <3>4. CASE p = x
      <4>1. updates'[p] = << >> /\ down'[p] = t  BY <3>4, <2>7, <1>5, <1>0, EmptyUpdatesTyped
      <4>2. IdsFrom(s, << >>) = {}  BY NothingFrom
      <4>3. /\ KeepsOrder(s, q, t, up[s], made[s])
            /\ Leads(latest[p][s], IdOf(s, e) \cup IdsFrom(s, t))
            /\ latest[p][s] \in Nat
        BY <1>10, <2>1, <2>3, <3>4, <4>2 DEF OnTheWay
      <4>4. KeepsOrder(s, << >>, t, up[s], made[s])  BY <4>3, OrderWhenLost
      <4>5. IdsFrom(s, q) = IdOf(s, e)  BY <2>6
      <4>6. \A n \in IdOf(s, e), k \in IdsFrom(s, t) : n < k  BY <4>3, <4>5 DEF KeepsOrder
      <4>7. \A n \in IdOf(s, e) \cup IdsFrom(s, t) : n \in Nat
        <5>1. \A n \in IdOf(s, e) \cup IdsFrom(s, t) : n \in 1 .. made[s]  BY <4>3, <4>5 DEF KeepsOrder
        <5> QED  BY <5>1, <1>10
      <4> HIDE DEF q, t, e
      <4>8. Leads(latest[p][s], IdsFrom(s, t))
        <5>1. ASSUME IdsFrom(s, t) # {}, latest[p][s] \in IdOf(s, e) PROVE FALSE
          <6>1. PICK k \in IdsFrom(s, t) : TRUE  BY <5>1
          <6>2. k <= latest[p][s] /\ latest[p][s] < k  BY <4>3, <4>6, <5>1 DEF Leads
          <6>3. k \in Nat /\ latest[p][s] \in Nat  BY <4>3, <4>7
          <6> QED  BY <6>2, <6>3
        <5> QED  BY <5>1, <4>3 DEF Leads
      <4>9. ASSUME IdsFrom(s, t) = {}
            PROVE  marker'[p][s] \in {0, latest[p][s]} \cup (IF p = s THEN {made[s]} ELSE {})
        <5>1. CASE IdOf(s, e) = {}
          <6>1. marker'[p][s] = marker[p][s]  BY <5>1, <4>5, <2>7
          <6>2. IdsFrom(s, down[p]) = {}  BY <5>1, <4>9, <1>10, <3>4
          <6> QED  BY <6>1, <6>2, <3>1, <3>4, <1>11 DEF PairInv
        <5>2. CASE IdOf(s, e) # {}
          <6>1. marker'[p][s] = NewestFrom(s, q) /\ Leads(NewestFrom(s, q), IdOf(s, e))
            BY <5>2, <4>5, <3>4, <2>7
          <6>2. latest[p][s] \in IdOf(s, e) /\ NewestFrom(s, q) \in IdOf(s, e)
            BY <4>3, <4>9, <5>2, <6>1 DEF Leads
          <6>3. NewestFrom(s, q) = latest[p][s]  BY <6>2 DEF IdOf
          <6> QED  BY <6>1, <6>3
        <5> QED  BY <5>1, <5>2
      <4>10. p \in addons  BY <3>4, <1>11, <1>0 DEF PingTypes
      <4> QED  BY <4>1, <4>2, <4>4, <4>8, <4>9, <4>10, <3>2 DEF PairInv, OnTheWay
    <3> QED  BY <3>3, <3>4
  <2> QED  BY <2>8, <2>9 DEF PingInv
<1>12. CASE x \notin listening
  <2>1. /\ updates' = [updates EXCEPT ![x] = q] /\ marker' = marker
        /\ UNCHANGED <<service, party, clientHot, up, interface, made, events>>
    BY <1>12 DEF OnServerPing
  <2> DEFINE Pings == [kind : {"ping"}, from : Players, id : Nat]
  <2>2. updates \in [Players -> Seq(Pings)] /\ e \in Pings /\ Len(updates[x]) <= UpdateLimit
    BY <1>0, <1>3 DEF PingTypes
  <2> HIDE DEF Pings, e
  <2>3. q \in Seq(Pings) /\ Len(q) <= UpdateLimit
    <3>1. PICK w \in Seq(Pings) : w = updates[x]  BY <2>2
    <3>2. PICK n \in Nat : n = Len(w)  BY <3>1
    <3>3. CASE n >= UpdateLimit
      <4>1. w # << >> /\ q = Append(Tail(w), e)  BY <3>1, <3>2, <3>3, <1>8
      <4>2. Tail(w) \in Seq(Pings) /\ Len(Tail(w)) = n - 1  BY <4>1, <3>2
      <4>3. Append(Tail(w), e) \in Seq(Pings) /\ Len(Append(Tail(w), e)) = n  BY <4>2, <2>2, <3>2
      <4> QED  BY <4>1, <4>3, <3>1, <3>2, <2>2
    <3>4. CASE ~(n >= UpdateLimit)
      <4>1. q = Append(w, e)  BY <3>1, <3>2, <3>4, <1>8
      <4>2. Append(w, e) \in Seq(Pings) /\ Len(Append(w, e)) = n + 1  BY <2>2, <3>1, <3>2
      <4> QED  BY <4>1, <4>2, <3>2, <3>4
    <3> QED  BY <3>3, <3>4
  <2> HIDE DEF q
  <2>4. \A p \in Players : updates'[p] = IF p = x THEN q ELSE updates[p]  BY <2>1, <2>2
  <2>5. PingTypes'
    <3>1. down' \in [Players -> Seq(Messages)]  BY <1>1, <1>2, <1>4
    <3>2. updates' \in [Players -> Seq(Pings)]  BY <2>1, <2>2, <2>3
    <3>3. \A p \in Players : Len(updates'[p]) <= UpdateLimit  BY <2>3, <2>4, <1>0 DEF PingTypes
    <3>4. made' = made /\ UNCHANGED <<where, group, serverHot, party, clientHot, up, booted, addons, listening>>
      BY <2>1 DEF service, interface
    <3> QED  BY <3>1, <3>2, <3>3, <3>4, <2>1, <1>7, <1>9, <1>0 DEF PingTypes, Pings
  <2>6. ASSUME NEW p \in Players, NEW s \in Players PROVE PairInv(p, s)'
    <3>1. PairInv(p, s)  BY <1>0
    <3>2. UNCHANGED <<up, made, addons, listening, marker>>  BY <2>1 DEF interface
    <3>3. CASE p # x
      <4>1. updates'[p] = updates[p] /\ down'[p] = down[p] /\ latest'[p][s] = latest[p][s]
        BY <3>3, <2>4, <1>5, <1>7
      <4> QED  BY <4>1, <3>1, <3>2 DEF PairInv, OnTheWay
    <3>4. CASE p = x
      <4> DEFINE u == updates[x]
                 a == Append(u, e)
      <4>1. updates'[p] = q /\ down'[p] = t  BY <3>4, <2>4, <1>5
      <4>2. /\ KeepsOrder(s, u, down[x], up[s], made[s]) /\ KeepsOrder(s, a, t, up[s], made[s])
            /\ IdsFrom(s, down[x]) = IdOf(s, e) \cup IdsFrom(s, t)
            /\ IdsFrom(s, a) = IdsFrom(s, u) \cup IdOf(s, e)
            /\ Leads(latest[x][s], IdsFrom(s, u) \cup IdsFrom(s, down[x]))
            /\ latest[x][s] \in Nat /\ made[s] \in Nat
        BY <1>10 DEF OnTheWay
      <4>3. Leads(latest[x][s], IdsFrom(s, a) \cup IdsFrom(s, t))
        BY <4>2 DEF Leads
      <4>4. CASE ~(Len(u) >= UpdateLimit)
        <5>1. q = a /\ ~gone(s)  BY <4>4, <1>8 DEF DroppedBy
        <5>2. latest'[p][s] = latest[x][s]  BY <5>1, <3>4, <1>7
        <5> QED  BY <5>1, <5>2, <4>1, <4>2, <4>3, <3>1, <3>2, <3>4, <1>12 DEF PairInv, OnTheWay
      <4>5. CASE Len(u) >= UpdateLimit
        <5>1. u \in Seq(Messages) /\ u # << >> /\ a \in Seq(Messages) /\ e \in Messages
              /\ Tail(u) \in Seq(Messages)
          <6>1. u \in Seq(Messages) /\ e \in Messages  BY <1>1, <1>2
          <6>2. u # << >>
            <7>1. u = << >> => Len(u) = 0  OBVIOUS
            <7> QED  BY <7>1, <4>5
          <6> HIDE DEF u
          <6> QED  BY <6>1, <6>2
        <5>2. q = Append(Tail(u), e)  BY <4>5, <1>8
        <5>3. Append(Tail(u), e) = Tail(a)
          <6> HIDE DEF u
          <6> QED  BY <5>1
        <5>4. a # << >> /\ Head(a) = Head(u)
          <6> HIDE DEF u
          <6> QED  BY <5>1
        <5>5. Head(u) \in Messages /\ Head(u).kind = "ping"
          <6>1. u \in Seq(Pings)  BY <2>2
          <6> HIDE DEF u
          <6>2. Head(u) \in Pings  BY <6>1, <5>1
          <6>3. Head(u) \in Messages  BY <5>1
          <6> QED  BY <6>2, <6>3 DEF Pings
        <5> HIDE DEF u
        <5>6. KeepsOrder(s, Tail(a), t, up[s], made[s])
          <6> HIDE DEF a
          <6>1. t \in Seq(Messages)  BY <1>2
          <6> HIDE DEF t
          <6> QED  BY <5>1, <5>4, <4>2, <6>1, OrderWhenDropped
        <5> DEFINE ids == IdsFrom(s, Tail(a)) \cup IdsFrom(s, t)
                   was == IdOf(s, Head(u))
        <5>7. IdsFrom(s, a) = was \cup IdsFrom(s, Tail(a)) /\ \A n \in was, k \in IdsFrom(s, Tail(a)) : n < k
          <6> HIDE DEF a
          <6>1. Ascends(s, a)  BY <4>2 DEF KeepsOrder
          <6>2. IdsFrom(s, a) = IdOf(s, Head(a)) \cup IdsFrom(s, Tail(a))  BY <5>1, <5>4, TakenPing
          <6>3. \A n \in IdOf(s, Head(a)), k \in IdsFrom(s, Tail(a)) : n < k  BY <6>1, <5>1, <5>4, TakenPing
          <6> QED  BY <6>2, <6>3, <5>4
        <5> HIDE DEF a, t, was
        <5>8. \A n \in was, k \in ids : n < k /\ k \in Nat /\ n \in Nat
          <6>1. \A n \in IdsFrom(s, a), k \in IdsFrom(s, t) : n < k  BY <4>2 DEF KeepsOrder
          <6>2. \A k \in IdsFrom(s, a) \cup IdsFrom(s, t) : k \in 1 .. made[s]  BY <4>2 DEF KeepsOrder
          <6>3. \A k \in IdsFrom(s, a) \cup IdsFrom(s, t) : k \in Nat  BY <6>2, <4>2
          <6> QED  BY <6>1, <6>3, <5>7
        <5>9. gone(s) <=> latest[x][s] \in was
          <6>1. gone(s) <=> Head(u) = Ping(s, latest[x][s])  BY <4>5 DEF DroppedBy, u
          <6>2. Head(u) = Ping(s, latest[x][s]) => latest[x][s] \in was  BY DEF Ping, was, IdOf
          <6>3. ASSUME latest[x][s] \in was PROVE Head(u) = Ping(s, latest[x][s])
            <7>1. Head(u).kind = "ping" /\ Head(u).from = s /\ Head(u).id = latest[x][s]
              BY <6>3 DEF was, IdOf
            <7>2. Head(u) \in [kind : {"ping"}, from : Players, id : Nat]
              BY <5>5 DEF Messages
            <7> QED  BY <7>1, <7>2 DEF Ping
          <6> QED  BY <6>1, <6>2, <6>3
        <5>10. Leads(latest[x][s], was \cup ids)
          BY <4>3, <5>7
        <5>11. Leads(latest'[p][s], ids)
          <6>1. CASE latest[x][s] \in was
            <7>1. ids = {}
              <8>1. \A k \in ids : FALSE
                <9> TAKE k \in ids
                <9>1. k <= latest[x][s] /\ latest[x][s] < k /\ k \in Nat /\ latest[x][s] \in Nat
                  BY <5>8, <5>10, <6>1 DEF Leads
                <9> QED  BY <9>1
              <8> QED  BY <8>1
            <7> QED  BY <7>1 DEF Leads
          <6>2. CASE latest[x][s] \notin was
            <7>1. latest'[p][s] = latest[x][s]  BY <6>2, <5>9, <3>4, <1>7
            <7> QED  BY <7>1, <5>10, <6>2 DEF Leads
          <6> QED  BY <6>1, <6>2
        <5> QED  BY <5>2, <5>3, <5>6, <5>11, <4>1, <3>1, <3>2, <3>4, <1>12 DEF PairInv, OnTheWay
      <4> QED  BY <4>4, <4>5
    <3> QED  BY <3>3, <3>4
  <2> QED  BY <2>5, <2>6 DEF PingInv
<1> QED  BY <1>11, <1>12

(* Steps that touch no ping.                                               *)
LEMMA QuietSteps ==
    ASSUME PingInv, UNCHANGED <<where, group, party, up, down, updates, marker, made, latest>>,
           clientHot' \subseteq Players, serverHot' \subseteq Players, booted \subseteq booted',
           booted' \subseteq Players, addons' = addons, listening' = listening
    PROVE  PingInv'
<1>0. PingTypes /\ \A p, s \in Players : PairInv(p, s)  BY DEF PingInv
<1>1. PingTypes'  BY <1>0 DEF PingTypes
<1>2. ASSUME NEW p \in Players, NEW s \in Players PROVE PairInv(p, s)'
  <2>1. PairInv(p, s)  BY <1>0
  <2> QED  BY <2>1 DEF PairInv, OnTheWay
<1> QED  BY <1>1, <1>2 DEF PingInv

(* Travel moves nobody's pings.                                            *)
LEMMA TravelSteps ==
    ASSUME PingInv, NEW x \in Players, Travel(x) PROVE PingInv'
<1>0. PingTypes /\ \A p, s \in Players : PairInv(p, s)  BY DEF PingInv
<1>1. where' \in [Players -> Maps \cup {None}]  BY <1>0 DEF PingTypes, Travel
<1>2. PingTypes'  BY <1>0, <1>1 DEF PingTypes, Travel, interface
<1>3. ASSUME NEW p \in Players, NEW s \in Players PROVE PairInv(p, s)'
  <2>1. PairInv(p, s)  BY <1>0
  <2> QED  BY <2>1 DEF Travel, interface, PairInv, OnTheWay
<1> QED  BY <1>2, <1>3 DEF PingInv

(* Regroup sends word of the group, behind the pings.                      *)
LEMMA RegroupSteps ==
    ASSUME PingInv, NEW x \in Players, Regroup(x) PROVE PingInv'
<1>0. PingTypes /\ \A p, s \in Players : PairInv(p, s)  BY DEF PingInv
<1> DEFINE e == Party(x \in group')
<1>1. e \in Messages /\ \A s \in Players : IdOf(s, e) = {}  BY DEF Messages, Party, IdOf
<1>2. group' \subseteq Players /\ down' = [down EXCEPT ![x] = Append(@, e)]
      /\ UNCHANGED <<where, serverHot, party, clientHot, up, updates, interface, marker, made, latest>>
  BY <1>0 DEF Regroup, PingTypes
<1> HIDE DEF e
<1>3. down \in [Players -> Seq(Messages)]  BY <1>0 DEF PingTypes
<1>4. down' \in [Players -> Seq(Messages)]
      /\ \A p \in Players : down'[p] = IF p = x THEN Append(down[p], e) ELSE down[p]
  BY <1>1, <1>2, <1>3
<1>5. PingTypes'  BY <1>0, <1>2, <1>4 DEF PingTypes, interface
<1>6. ASSUME NEW p \in Players, NEW s \in Players PROVE PairInv(p, s)'
  <2>1. PairInv(p, s)  BY <1>0
  <2>2. updates[p] \in Seq(Messages) /\ down[p] \in Seq(Messages)  BY <1>0, <1>3, WideUpdates
  <2>3. KeepsOrder(s, updates[p], down'[p], up[s], made[s]) /\ IdsFrom(s, down'[p]) = IdsFrom(s, down[p])
    <3>1. KeepsOrder(s, updates[p], down[p], up[s], made[s])  BY <2>1 DEF PairInv
    <3>2. /\ KeepsOrder(s, updates[p], Append(down[p], e), up[s], made[s])
          /\ IdsFrom(s, Append(down[p], e)) = IdsFrom(s, down[p])
      <4>1. e \in Messages /\ IdOf(s, e) = {}  BY <1>1
      <4> DEFINE u == updates[p]
                 d == down[p]
                 w == up[s]
                 m == made[s]
      <4>2. u \in Seq(Messages) /\ d \in Seq(Messages) /\ KeepsOrder(s, u, d, w, m)  BY <2>2, <3>1
      <4> HIDE DEF u, d, w, m
      <4>3. KeepsOrder(s, u, Append(d, e), w, m) /\ IdsFrom(s, Append(d, e)) = IdsFrom(s, d)
        BY ONLY <4>1, <4>2, OrderOfOthers
      <4> QED  BY <4>3 DEF u, d, w, m
    <3> QED  BY <1>4, <3>1, <3>2
  <2> QED  BY <2>1, <2>3, <1>2 DEF interface, PairInv, OnTheWay
<1> QED  BY <1>5, <1>6 DEF PingInv

(* PartyChanged takes that word.                                           *)
LEMMA PartyChangedSteps ==
    ASSUME PingInv, NEW x \in Players, PartyChanged(x) PROVE PingInv'
<1>0. PingTypes /\ \A p, s \in Players : PairInv(p, s)  BY DEF PingInv
<1> DEFINE e == Head(down[x])
           t == Tail(down[x])
<1>1. down \in [Players -> Seq(Messages)] /\ down[x] \in Seq(Messages) /\ down[x] # << >>
  BY <1>0 DEF PartyChanged, PingTypes
<1>2. e \in Messages /\ e.kind = "party" /\ t \in Seq(Messages)  BY <1>1 DEF PartyChanged
<1>3. e.is \in BOOLEAN /\ \A s \in Players : IdOf(s, e) = {}  BY <1>2 DEF Messages, IdOf
<1>4. /\ down' = [down EXCEPT ![x] = t] /\ party' = [party EXCEPT ![x] = e.is]
      /\ UNCHANGED <<service, clientHot, up, updates, interface, marker, made, latest, events>>
  BY <1>1 DEF PartyChanged
<1> HIDE DEF e, t
<1>5. down' \in [Players -> Seq(Messages)] /\ \A p \in Players : down'[p] = IF p = x THEN t ELSE down[p]
  BY <1>1, <1>2, <1>4
<1>6. party' \in [Players -> BOOLEAN]  BY <1>0, <1>3, <1>4 DEF PingTypes
<1>7. PingTypes'  BY <1>0, <1>4, <1>5, <1>6 DEF PingTypes, service, interface
<1>8. ASSUME NEW p \in Players, NEW s \in Players PROVE PairInv(p, s)'
  <2>1. PairInv(p, s)  BY <1>0
  <2>2. KeepsOrder(s, updates[p], down[p], up[s], made[s])  BY <2>1 DEF PairInv
  <2>3. KeepsOrder(s, updates[p], down'[p], up[s], made[s]) /\ IdsFrom(s, down'[p]) = IdsFrom(s, down[p])
    <3>1. CASE p # x  BY <3>1, <1>5, <2>2
    <3>2. CASE p = x
      <4>1. updates[p] \in Seq(Messages)  BY <1>0, WideUpdates
      <4>2. KeepsOrder(s, updates[p], Tail(down[p]), up[s], made[s])
        BY <4>1, <1>1, <2>2, <3>2, OrderWhenTaken
      <4>3. IdsFrom(s, down[p]) = IdOf(s, Head(down[p])) \cup IdsFrom(s, Tail(down[p]))
        BY <1>1, <3>2, TakenPing
      <4> QED  BY <4>2, <4>3, <1>3, <1>5, <3>2 DEF e, t
    <3> QED  BY <3>1, <3>2
  <2> QED  BY <2>1, <2>3, <1>4 DEF service, interface, PairInv, OnTheWay
<1> QED  BY <1>7, <1>8 DEF PingInv

(* HandleRadialPing: the oldest request becomes the newest ping under way. *)
LEMMA HandleRadialPingSteps ==
    ASSUME PingInv, NEW x \in Players, HandleRadialPing(x) PROVE PingInv'
<1>0. PingTypes /\ \A p, s \in Players : PairInv(p, s)  BY DEF PingInv
<1> DEFINE n == Head(up[x])
           e == Ping(x, n)
<1>1. /\ up \in [Players -> Seq(Nat)] /\ up[x] \in Seq(Nat) /\ up[x] # << >>
      /\ down \in [Players -> Seq(Messages)]
      /\ latest \in [Players -> [Players -> Nat]]
  BY <1>0 DEF HandleRadialPing, PingTypes
<1>2. /\ up' = [up EXCEPT ![x] = Tail(@)] /\ serverHot' \subseteq Players
      /\ UNCHANGED <<where, group, party, clientHot, updates, interface, marker, made, events>>
  BY <1>0 DEF HandleRadialPing, PingTypes
<1>3. up' \in [Players -> Seq(Nat)] /\ \A s \in Players : up'[s] = IF s = x THEN Tail(up[x]) ELSE up[s]
  <2>1. Tail(up[x]) \in Seq(Nat)  BY <1>1
  <2> QED  BY <2>1, <1>1, <1>2
<1>4. n \in Nat /\ e \in Messages /\ IdOf(x, e) = {n} /\ \A s \in Players : s # x => IdOf(s, e) = {}
  <2>1. n \in Nat  BY <1>1
  <2> QED  BY <2>1 DEF Messages, Ping, IdOf
<1>5. ASSUME NEW p \in Players, NEW s \in Players
      PROVE  /\ KeepsOrder(s, updates[p], down[p], up'[s], made[s])
             /\ KeepsOrder(s, updates[p], Append(down[p], e), up'[s], made[s])
             /\ IdsFrom(s, Append(down[p], e)) = IdsFrom(s, down[p]) \cup IdOf(s, e)
             /\ s = x => \A k \in IdsFrom(s, updates[p]) \cup IdsFrom(s, down[p]) : k < n /\ k \in Nat
  <2> DEFINE u == updates[p]
             d == down[p]
             w == up[s]
             m == made[s]
  <2>0. PairInv(p, s)  BY <1>0
  <2>1. u \in Seq(Messages) /\ d \in Seq(Messages) /\ w \in Seq(Nat) /\ m \in Nat
        /\ KeepsOrder(s, u, d, w, m)
    BY <2>0, <1>0, WideUpdates DEF PairInv, PingTypes
  <2>2. s = x => w # << >> /\ n = Head(w) /\ up'[s] = Tail(w) /\ e = Ping(s, Head(w))
    BY <1>1, <1>3
  <2>3. s # x => up'[s] = w /\ IdOf(s, e) = {}  BY <1>3, <1>4
  <2>4. e \in Messages  BY <1>4
  <2> HIDE DEF u, d, w, m, n, e
  <2>5. IdsFrom(s, Append(d, e)) = IdsFrom(s, d) \cup IdOf(s, e)  BY ONLY <2>1, <2>4, MessageIds
  <2>6. CASE s = x
    <3>1. /\ KeepsOrder(s, u, d, Tail(w), m) /\ Head(w) \in 1 .. m
          /\ \A k \in IdsFrom(s, u) \cup IdsFrom(s, d) : k < Head(w)
          /\ KeepsOrder(s, u, Append(d, Ping(s, Head(w))), Tail(w), m)
      BY <2>1, <2>2, <2>6, OrderWhenRead
    <3>2. \A k \in IdsFrom(s, u) \cup IdsFrom(s, d) : k \in 1 .. m  BY <2>1 DEF KeepsOrder
    <3>3. KeepsOrder(s, u, d, up'[s], m) /\ KeepsOrder(s, u, Append(d, e), up'[s], m)
      BY <3>1, <2>2, <2>6
    <3>4. n = Head(w) /\ m \in Nat  BY <2>1, <2>2, <2>6
    <3>5. \A k \in IdsFrom(s, u) \cup IdsFrom(s, d) : k < n /\ k \in Nat
      BY ONLY <3>1, <3>2, <3>4
    <3> QED  BY <3>3, <3>5, <2>5 DEF u, d, m
  <2>7. CASE s # x
    <3>1. KeepsOrder(s, u, Append(d, e), w, m)  BY <2>1, <2>3, <2>4, <2>7, OrderOfOthers
    <3> QED  BY <3>1, <2>1, <2>3, <2>5, <2>7 DEF u, d, m
  <2> QED  BY <2>6, <2>7
<1> HIDE DEF e
<1>6. CASE UNCHANGED <<down, latest>>
  <2>1. PingTypes'  BY <1>0, <1>2, <1>3, <1>6 DEF PingTypes, interface
  <2>2. ASSUME NEW p \in Players, NEW s \in Players PROVE PairInv(p, s)'
    <3>1. PairInv(p, s)  BY <1>0
    <3>2. KeepsOrder(s, updates[p], down[p], up'[s], made[s])  BY <1>5
    <3> QED  BY <3>1, <3>2, <1>2, <1>6 DEF interface, PairInv, OnTheWay
  <2> QED  BY <2>1, <2>2 DEF PingInv
<1>7. CASE ~UNCHANGED <<down, latest>>
  <2> DEFINE hears(p) == p \in Audience(x)
  <2>1. /\ down' = [p \in Players |-> IF hears(p) THEN Append(down[p], e) ELSE down[p]]
        /\ latest' = [p \in Players |-> IF hears(p) THEN [latest[p] EXCEPT ![x] = n] ELSE latest[p]]
    BY <1>7 DEF HandleRadialPing, Relay, e
  <2> HIDE DEF hears, n
  <2>2. down' \in [Players -> Seq(Messages)]
        /\ \A p \in Players : down'[p] = IF hears(p) THEN Append(down[p], e) ELSE down[p]
    BY <2>1, <1>1, <1>4
  <2>3. latest' \in [Players -> [Players -> Nat]]
        /\ \A p, s \in Players : latest'[p][s] = IF hears(p) /\ s = x THEN n ELSE latest[p][s]
    BY <2>1, <1>1, <1>4
  <2>4. \A p, s \in Players : latest'[p][s] <= made[s]
    <3> TAKE p, s \in Players
    <3>1. KeepsOrder(x, updates[p], down[p], up[x], made[x])  BY <1>0 DEF PairInv
    <3>2. \A k \in DOMAIN up[x] : up[x][k] \in 1 .. made[x]  BY <3>1 DEF KeepsOrder
    <3>3. 1 \in DOMAIN up[x] /\ n = up[x][1]  BY <1>1 DEF n
    <3>4. n <= made[x] /\ latest[p][s] <= made[s]  BY <3>2, <3>3, <1>0 DEF PingTypes
    <3> QED  BY <3>4, <2>3
  <2>5. PingTypes'  BY <1>0, <1>2, <1>3, <2>2, <2>3, <2>4 DEF PingTypes, interface
  <2>6. ASSUME NEW p \in Players, NEW s \in Players PROVE PairInv(p, s)'
    <3>1. PairInv(p, s)  BY <1>0
    <3>2. CASE ~hears(p)
      <4>1. down'[p] = down[p] /\ latest'[p][s] = latest[p][s]  BY <3>2, <2>2, <2>3
      <4>2. KeepsOrder(s, updates[p], down[p], up'[s], made[s])  BY <1>5
      <4> QED  BY <3>1, <4>1, <4>2, <1>2 DEF interface, PairInv, OnTheWay
    <3>3. CASE hears(p)
      <4>1. down'[p] = Append(down[p], e) /\ latest'[p][s] = IF s = x THEN n ELSE latest[p][s]
        BY <3>3, <2>2, <2>3
      <4>2. KeepsOrder(s, updates[p], down'[p], up'[s], made[s])  BY <4>1, <1>5
      <4>3. IdsFrom(s, down'[p]) = IdsFrom(s, down[p]) \cup IdOf(s, e)  BY <4>1, <1>5
      <4>4. Leads(latest[p][s], IdsFrom(s, updates[p]) \cup IdsFrom(s, down[p]))
        BY <3>1 DEF PairInv, OnTheWay
      <4>5. CASE s = x
        <5>1. IdsFrom(s, down'[p]) = IdsFrom(s, down[p]) \cup {n}  BY <4>3, <4>5, <1>4
        <5>2. \A k \in IdsFrom(s, updates[p]) \cup IdsFrom(s, down[p]) : k < n /\ k \in Nat
          BY <1>5, <4>5
        <5>3. Leads(n, IdsFrom(s, updates[p]) \cup IdsFrom(s, down'[p]))
          BY <5>1, <5>2, <1>4 DEF Leads
        <5>4. latest'[p][s] = n /\ IdsFrom(s, down'[p]) # {}  BY <4>1, <4>5, <5>1
        <5> QED  BY <3>1, <4>2, <5>3, <5>4, <1>2 DEF interface, PairInv, OnTheWay
      <4>6. CASE s # x
        <5>1. IdsFrom(s, down'[p]) = IdsFrom(s, down[p]) /\ latest'[p][s] = latest[p][s]
          BY <4>1, <4>3, <4>6, <1>4
        <5> QED  BY <3>1, <4>2, <5>1, <1>2 DEF interface, PairInv, OnTheWay
      <4> QED  BY <4>5, <4>6
    <3> QED  BY <3>2, <3>3
  <2> QED  BY <2>5, <2>6 DEF PingInv
<1> QED  BY <1>6, <1>7

(* The interface is built anew, by a reload or in a new session.           *)
LEMMA RebuiltSteps ==
    ASSUME PingInv, NEW x \in Players, Rebuilt(x), serverHot' \subseteq Players,
           party' \in [Players -> BOOLEAN],
           up' = up \/ up' = [up EXCEPT ![x] = << >>],
           down' = down \/ down' = [down EXCEPT ![x] = << >>]
    PROVE  PingInv'
<1>0. PingTypes /\ \A p, s \in Players : PairInv(p, s)  BY DEF PingInv
<1>1. /\ booted' = booted \ {x} /\ addons' = addons \ {x} /\ listening' = listening \ {x}
      /\ clientHot' = clientHot \ {x}
      /\ marker' = [marker EXCEPT ![x] = NoMarkers]
      /\ UNCHANGED <<where, group, updates, made>>
  BY DEF Rebuilt
<1>2. /\ up \in [Players -> Seq(Nat)] /\ down \in [Players -> Seq(Messages)]
      /\ << >> \in Seq(Nat) /\ << >> \in Seq(Messages)
  BY <1>0 DEF PingTypes
<1>3. /\ up' \in [Players -> Seq(Nat)] /\ down' \in [Players -> Seq(Messages)]
      /\ \A s \in Players : up'[s] = up[s] \/ up'[s] = << >>
      /\ \A p \in Players : down'[p] = down[p] \/ down'[p] = << >>
      /\ \A p \in Players : p # x => down'[p] = down[p]
  BY <1>2
<1>4. ASSUME NEW p \in Players, NEW s \in Players
      PROVE  /\ KeepsOrder(s, updates[p], down'[p], up'[s], made[s])
             /\ updates[p] \in Seq(Messages) /\ down'[p] \in Seq(Messages) /\ made[s] \in Nat
  <2>0. PairInv(p, s)  BY <1>0
  <2>1. KeepsOrder(s, updates[p], down[p], up[s], made[s])  BY <2>0 DEF PairInv
  <2>2. /\ KeepsOrder(s, updates[p], << >>, up[s], made[s]) /\ KeepsOrder(s, updates[p], down[p], << >>, made[s])
        /\ KeepsOrder(s, updates[p], << >>, << >>, made[s])
    BY <2>1, OrderWhenLost
  <2>3. updates[p] \in Seq(Messages) /\ made[s] \in Nat  BY <1>0, WideUpdates DEF PingTypes
  <2> QED  BY <2>1, <2>2, <2>3, <1>3
<1> DEFINE now(s) == NewestFrom(s, updates[x] \o down'[x])
           ids(s) == IdsFrom(s, updates[x]) \cup IdsFrom(s, down'[x])
<1>5. ASSUME NEW s \in Players
      PROVE  Leads(now(s), ids(s)) /\ now(s) \in Nat /\ now(s) <= made[s]
  <2> DEFINE u == updates[x]
             d == down'[x]
             q == u \o d
             w == up'[s]
  <2>1. /\ u \in Seq(Messages) /\ d \in Seq(Messages) /\ made[s] \in Nat
        /\ KeepsOrder(s, u, d, w, made[s])
    BY <1>4
  <2> HIDE DEF u, d, w
  <2>2. Ascends(s, q) /\ IdsFrom(s, q) = IdsFrom(s, u) \cup IdsFrom(s, d)
    BY <2>1, JoinedPings DEF KeepsOrder
  <2>3. q \in Seq(Messages)  BY <2>1
  <2>4. \A n \in IdsFrom(s, q) : n \in 1 .. made[s]  BY <2>1, <2>2 DEF KeepsOrder
  <2>5. \A n \in IdsFrom(s, q) : n \in Nat  BY <2>4, <2>1
  <2> HIDE DEF q
  <2>6. /\ IdsFrom(s, q) = {} => NewestFrom(s, q) = 0
        /\ IdsFrom(s, q) # {} => Leads(NewestFrom(s, q), IdsFrom(s, q))
    BY <2>2, <2>3, <2>5, NewestLeads
  <2>7. Leads(NewestFrom(s, q), IdsFrom(s, q))  BY <2>6 DEF Leads
  <2>8. NewestFrom(s, q) \in Nat /\ NewestFrom(s, q) <= made[s]
    <3>1. CASE IdsFrom(s, q) = {}  BY <3>1, <2>6, <2>1
    <3>2. CASE IdsFrom(s, q) # {}  BY <3>2, <2>6, <2>4, <2>1 DEF Leads
    <3> QED  BY <3>1, <3>2
  <2> QED  BY <2>2, <2>7, <2>8 DEF u, d, q
<1>6. latest' = [latest EXCEPT ![x] = [s \in Players |-> now(s)]]
  BY <1>0 DEF Rebuilt, PingTypes
<1> HIDE DEF now, ids
<1>7. /\ latest' \in [Players -> [Players -> Nat]]
      /\ \A p, s \in Players : latest'[p][s] = IF p = x THEN now(s) ELSE latest[p][s]
  BY <1>5, <1>6, <1>0 DEF PingTypes
<1>8. /\ marker' \in [Players -> [Players -> Nat]]
      /\ \A p, s \in Players : marker'[p][s] = IF p = x THEN 0 ELSE marker[p][s]
  BY <1>1, <1>0 DEF PingTypes, NoMarkers
<1>9. \A p, s \in Players : marker'[p][s] <= made[s] /\ latest'[p][s] <= made[s]
  <2> TAKE p, s \in Players
  <2>1. marker[p][s] <= made[s] /\ latest[p][s] <= made[s] /\ made[s] \in Nat  BY <1>0 DEF PingTypes
  <2>2. now(s) <= made[s] /\ 0 <= made[s]  BY <2>1, <1>5
  <2>3. marker'[p][s] = IF p = x THEN 0 ELSE marker[p][s]  BY <1>8
  <2>4. latest'[p][s] = IF p = x THEN now(s) ELSE latest[p][s]  BY <1>7
  <2> QED  BY ONLY <2>1, <2>2, <2>3, <2>4
<1>10. PingTypes'
  <2>1. made' = made /\ UNCHANGED <<where, group, updates>>  BY <1>1
  <2>2. listening' \subseteq addons' /\ listening' \subseteq booted' /\ clientHot' \subseteq Players
        /\ booted' \subseteq Players /\ addons' \subseteq Players
    BY <1>1, <1>0 DEF PingTypes
  <2> QED  BY <2>1, <2>2, <1>3, <1>7, <1>8, <1>9, <1>0 DEF PingTypes
<1>11. ASSUME NEW p \in Players, NEW s \in Players PROVE PairInv(p, s)'
  <2>1. PairInv(p, s)  BY <1>0
  <2>2. KeepsOrder(s, updates'[p], down'[p], up'[s], made'[s])  BY <1>4, <1>1
  <2>3. CASE p # x
    <3>1. /\ down'[p] = down[p] /\ latest'[p][s] = latest[p][s] /\ marker'[p][s] = marker[p][s]
          /\ (p \in addons') = (p \in addons) /\ (p \in listening') = (p \in listening)
      BY <2>3, <1>1, <1>3, <1>7, <1>8
    <3> QED  BY <3>1, <2>1, <2>2, <1>1 DEF PairInv, OnTheWay
  <2>4. CASE p = x
    <3>1. latest'[p][s] = now(s) /\ marker'[p][s] = 0 /\ p \notin listening'
      BY <2>4, <1>1, <1>7, <1>8
    <3>2. Leads(now(s), IdsFrom(s, updates'[p]) \cup IdsFrom(s, down'[p]))
      BY <2>4, <1>1, <1>5 DEF ids
    <3> QED  BY <3>1, <3>2, <2>2 DEF PairInv, OnTheWay
  <2> QED  BY <2>3, <2>4
<1> QED  BY <1>10, <1>11 DEF PingInv

(* Every step keeps the invariant.                                         *)
LEMMA PingStep == ASSUME PingInv, [Next]_vars PROVE PingInv'
<1>0. PingTypes  BY DEF PingInv
<1>1. CASE UNCHANGED vars
  BY <1>0, <1>1, QuietSteps DEF vars, service, interface, PingTypes
<1>2. ASSUME NEW x \in Players,
             \/ SendPing(x) \/ ClientCools(x) \/ LoadAddOn(x) \/ Bootstrap(x)
             \/ Deliver(x) \/ HandleRadialPing(x) \/ ServerCools(x)
             \/ Travel(x) \/ Regroup(x) \/ Reload(x) \/ Relog(x)
      PROVE  PingInv'
  <2>1. CASE SendPing(x)  BY <2>1, SendPingSteps
  <2>2. CASE ClientCools(x)
    BY <2>2, <1>0, QuietSteps DEF ClientCools, service, interface, PingTypes
  <2>3. CASE LoadAddOn(x)  BY <2>3, LoadAddOnSteps
  <2>4. CASE Bootstrap(x)
    BY <2>4, <1>0, QuietSteps DEF Bootstrap, service, PingTypes
  <2>5. CASE Deliver(x)  BY <2>5, OnServerPingSteps, PartyChangedSteps DEF Deliver
  <2>6. CASE HandleRadialPing(x)  BY <2>6, HandleRadialPingSteps
  <2>7. CASE ServerCools(x)
    BY <2>7, <1>0, QuietSteps DEF ServerCools, interface, PingTypes
  <2>8. CASE Travel(x)  BY <2>8, TravelSteps
  <2>9. CASE Regroup(x)  BY <2>9, RegroupSteps
  <2>10. CASE Reload(x)
    <3>1. Rebuilt(x) /\ UNCHANGED <<serverHot, party, up, down>>  BY <2>10 DEF Reload
    <3> QED  BY <3>1, <1>0, RebuiltSteps DEF PingTypes
  <2>11. CASE Relog(x)
    <3>1. /\ Rebuilt(x) /\ serverHot' = serverHot \ {x} /\ up' = [up EXCEPT ![x] = << >>]
          /\ down' = [down EXCEPT ![x] = << >>] /\ party' = [party EXCEPT ![x] = x \in group]
      BY <2>11 DEF Relog
    <3>2. serverHot' \subseteq Players  BY <3>1, <1>0 DEF PingTypes
    <3>3. party' \in [Players -> BOOLEAN]
      <4>1. party \in [Players -> BOOLEAN]  BY <1>0 DEF PingTypes
      <4>2. CASE x \in group
        <5>1. party' = [party EXCEPT ![x] = TRUE]  BY <3>1, <4>2
        <5> QED  BY <4>1, <5>1
      <4>3. CASE x \notin group
        <5>0. (x \in group) = FALSE  BY <4>3
        <5>1. party' = [party EXCEPT ![x] = FALSE]  BY <3>1, <5>0, Zenon
        <5> QED  BY <4>1, <5>1
      <4> QED  BY <4>2, <4>3
    <3> QED  BY <3>1, <3>2, <3>3, RebuiltSteps
  <2> QED  BY <1>2, <2>1, <2>2, <2>3, <2>4, <2>5, <2>6, <2>7, <2>8, <2>9, <2>10, <2>11
<1> QED  BY <1>1, <1>2 DEF Next

(* A client that listens has emptied its queue, and its marker for a sender *)
(* with nothing under way is at the last ping relayed to it, or at none    *)
(* (RadialPing.cpp OnServerPing, World.lua pullServerPings), for any       *)
(* players, queue limit and number of pings.                               *)
THEOREM MarkersSettleAlways == Spec => []MarkersSettle
<1>1. Init => PingInv  BY PingInit
<1>2. PingInv /\ [Next]_vars => PingInv'  BY PingStep
<1>3. PingInv => MarkersSettle  BY PingInvSettles
<1> QED  BY <1>1, <1>2, <1>3, PTL DEF Spec

HIDE PingAssumption

-----------------------------------------------------------------------------
(* The post-process pipeline (PostProcess.tla): lists of barriers, what     *)
(* is borrowed and owned at each step of a frame, and its pictures.        *)

LEMMA ResourcesKnown ==
    /\ Owned = {"scene0", "scene1", "resolve", "ao", "aoB", "edges", "blend", "color", "control", "indirect"}
    /\ Resources = Owned \cup {"bb", "ss", "depth"} /\ Borrowed = {"bb", "ss", "depth"}
    /\ Groups = {"scene", "resolve", "Ao", "Smaa", "Cmaa2"}
    /\ Targets.scene = {"scene0", "scene1"} /\ Targets.resolve = {"resolve"} /\ Targets.Ao = {"ao", "aoB"}
    /\ Targets.Smaa = {"edges", "blend"} /\ Targets.Cmaa2 = {"color", "control", "indirect"}
    /\ Effects = {"Ao", "Fxaa", "Smaa", "Cmaa2"}
<1>1. Groups = {"scene", "resolve", "Ao", "Smaa", "Cmaa2"}
  BY DEF Groups, Targets
<1>2. /\ Targets.scene = {"scene0", "scene1"} /\ Targets.resolve = {"resolve"} /\ Targets.Ao = {"ao", "aoB"}
      /\ Targets.Smaa = {"edges", "blend"} /\ Targets.Cmaa2 = {"color", "control", "indirect"}
  BY DEF Targets
<1>3. /\ Targets["scene"] = {"scene0", "scene1"} /\ Targets["resolve"] = {"resolve"} /\ Targets["Ao"] = {"ao", "aoB"}
      /\ Targets["Smaa"] = {"edges", "blend"} /\ Targets["Cmaa2"] = {"color", "control", "indirect"}
  BY DEF Targets
<1>4. Owned = {"scene0", "scene1", "resolve", "ao", "aoB", "edges", "blend", "color", "control", "indirect"}
  <2>1. Owned = Targets["scene"] \cup Targets["resolve"] \cup Targets["Ao"] \cup Targets["Smaa"] \cup Targets["Cmaa2"]
    BY <1>1 DEF Owned
  <2>2. QED
    BY <1>3, <2>1
<1>5. Effects = {"Ao", "Fxaa", "Smaa", "Cmaa2"}
  BY DEF Effects, Chain
<1>6. QED
  BY <1>1, <1>2, <1>4, <1>5 DEF Resources, Borrowed

(* The states of a resource, and what a picture is made of.                *)
States == {"COMMON", "UAV", "RT", "PSR", "NPSR", "SRV", "INDIRECT", "RESOLVE_SOURCE", "RESOLVE_DEST"}
Passes == {"old", "world", "undefined"} \cup Effects

(* A path of barriers that leads from a state to another.                  *)
Brings(from, path, to) ==
    /\ path \in Seq(States \X States)
    /\ path = << >> => to = from
    /\ path # << >> => path[1][1] = from /\ path[Len(path)][2] = to
    /\ \A n \in 2 .. Len(path) : path[n][1] = path[n - 1][2]

LEMMA BringsFurther ==
    ASSUME NEW x, NEW a, NEW y, NEW b, NEW z, Brings(x, a, y), Brings(y, b, z)
    PROVE  Brings(x, a \o b, z)
<1> DEFINE S == States \X States
           c == a \o b
<1>1. a \in Seq(S) /\ b \in Seq(S)
  BY DEF Brings
<1> HIDE DEF S
<1>2. PICK l \in Nat, m \in Nat : l = Len(a) /\ m = Len(b)
  BY <1>1
<1>3. /\ c \in Seq(S) /\ Len(c) = l + m
      /\ \A n \in 1 .. l + m : c[n] = IF n <= l THEN a[n] ELSE b[n - l]
  <2>1. /\ c \in Seq(S) /\ Len(c) = Len(a) + Len(b)
        /\ \A n \in 1 .. Len(a) + Len(b) : c[n] = IF n <= Len(a) THEN a[n] ELSE b[n - Len(a)]
    BY ONLY <1>1, ConcatProperties
  <2> HIDE DEF c
  <2>2. QED
    BY ONLY <1>2, <2>1
<1> HIDE DEF c
<1>4. /\ l = 0 <=> a = << >>
      /\ m = 0 <=> b = << >>
      /\ l + m = 0 <=> c = << >>
  BY ONLY <1>1, <1>2, <1>3, EmptySeq
<1>5. /\ l = 0 => y = x
      /\ l # 0 => a[1][1] = x /\ a[l][2] = y
      /\ m = 0 => z = y
      /\ m # 0 => b[1][1] = y /\ b[m][2] = z
      /\ \A n \in 2 .. l : a[n][1] = a[n - 1][2]
      /\ \A n \in 2 .. m : b[n][1] = b[n - 1][2]
  BY <1>2, <1>4 DEF Brings
<1>6. c = << >> => z = x
  BY <1>2, <1>4, <1>5
<1>7. ASSUME c # << >> PROVE c[1][1] = x /\ c[l + m][2] = z
  <2>1. l + m # 0 /\ 1 \in 1 .. l + m /\ l + m \in 1 .. l + m
    BY <1>2, <1>4, <1>7
  <2>2. CASE l = 0
    <3>1. c[1] = b[1] /\ c[m] = b[m]
      BY <1>2, <1>3, <2>1, <2>2
    <3>2. QED
      BY <1>2, <1>5, <2>1, <2>2, <3>1
  <2>3. CASE l # 0 /\ m = 0
    BY <1>2, <1>3, <1>5, <2>1, <2>3
  <2>4. CASE l # 0 /\ m # 0
    <3>1. 1 <= l /\ ~(l + m <= l) /\ (l + m) - l = m
      BY <1>2, <2>4
    <3>2. c[1] = a[1] /\ c[l + m] = b[m]
      <4>1. c[l + m] = b[(l + m) - l]
        BY <1>3, <2>1, <3>1
      <4>2. QED
        BY <1>3, <2>1, <3>1, <4>1
    <3>3. QED
      BY <1>5, <2>4, <3>2
  <2>5. QED
    BY <2>2, <2>3, <2>4
<1>8. ASSUME NEW n \in 2 .. l + m PROVE c[n][1] = c[n - 1][2]
  <2>1. n \in 1 .. l + m /\ n - 1 \in 1 .. l + m
    BY <1>2, <1>8
  <2>2. CASE n <= l
    <3>1. n \in 2 .. l /\ n - 1 <= l
      BY <1>2, <1>8, <2>2
    <3>2. c[n] = a[n] /\ c[n - 1] = a[n - 1]
      BY <1>3, <2>1, <2>2, <3>1
    <3>3. QED
      BY <1>5, <3>1, <3>2
  <2>3. CASE n = l + 1
    <3>1. ~(n <= l) /\ n - l = 1 /\ n - 1 = l /\ l <= l /\ m # 0
      BY <1>2, <1>8, <2>3
    <3>2. c[n] = b[1] /\ c[n - 1] = a[l] /\ l # 0
      BY <1>3, <1>8, <2>1, <3>1
    <3>3. QED
      BY <1>5, <3>1, <3>2
  <2>4. CASE n > l + 1
    <3>1. PICK k \in Nat : k = n - l
      BY <1>2, <1>8, <2>4
    <3>2. ~(n <= l) /\ ~(n - 1 <= l) /\ (n - 1) - l = k - 1 /\ k \in 2 .. m
      BY <1>2, <1>8, <2>4, <3>1
    <3>3. c[n] = b[k] /\ c[n - 1] = b[k - 1]
      BY <1>3, <2>1, <3>1, <3>2
    <3>4. QED
      BY <1>5, <3>2, <3>3
  <2>5. QED
    BY <1>2, <1>8, <2>2, <2>3, <2>4
<1>9. Len(c) = l + m /\ c \in Seq(States \X States)
  BY <1>3 DEF S
<1>10. Brings(x, c, z)
  BY ONLY <1>6, <1>7, <1>8, <1>9 DEF Brings
<1>11. QED
  BY <1>10 DEF c

LEMMA BringsHere ==
    ASSUME NEW a
    PROVE  Brings(a, << >>, a)
BY DEF Brings

LEMMA BringsThrice ==
    ASSUME NEW a \in States, NEW b \in States, NEW c \in States, NEW d \in States
    PROVE  /\ Brings(a, << <<a, b>> >>, b)
           /\ Brings(a, << <<a, b>>, <<b, c>> >>, c)
           /\ Brings(a, << <<a, b>>, <<b, c>>, <<c, d>> >>, d)
<1> DEFINE e == <<a, b>>
           f == <<b, c>>
           g == <<c, d>>
           S == States \X States
<1>1. /\ e \in S /\ f \in S /\ g \in S
      /\ e[1] = a /\ e[2] = b /\ f[1] = b /\ f[2] = c /\ g[1] = c /\ g[2] = d
  OBVIOUS
<1> HIDE DEF e, f, g, S
<1>2. Brings(a, <<e>>, b)
  <2> DEFINE p == <<e>>
  <2>1. p \in Seq(S) /\ Len(p) = 1 /\ p[1] = e /\ p # << >>
    BY <1>1
  <2> HIDE DEF p
  <2>2. ~(\E n \in 2 .. Len(p) : TRUE)
    BY <2>1
  <2>3. Brings(a, p, b)
    BY <1>1, <2>1, <2>2 DEF Brings, S
  <2>4. QED
    BY <2>3 DEF p
<1>3. Brings(a, <<e, f>>, c)
  <2> DEFINE p == <<e, f>>
  <2>1. p \in Seq(S) /\ Len(p) = 2 /\ p[1] = e /\ p[2] = f /\ p # << >>
    BY <1>1
  <2> HIDE DEF p
  <2>2. \A n \in 2 .. Len(p) : n = 2 /\ n - 1 = 1
    BY <2>1
  <2>3. Brings(a, p, c)
    BY <1>1, <2>1, <2>2 DEF Brings, S
  <2>4. QED
    BY <2>3 DEF p
<1>4. Brings(a, <<e, f, g>>, d)
  <2> DEFINE p == <<e, f, g>>
  <2>1. p \in Seq(S) /\ Len(p) = 3 /\ p[1] = e /\ p[2] = f /\ p[3] = g /\ p # << >>
    BY <1>1
  <2> HIDE DEF p
  <2>2. \A n \in 2 .. Len(p) : (n = 2 /\ n - 1 = 1) \/ (n = 3 /\ n - 1 = 2)
    BY <2>1
  <2>3. Brings(a, p, d)
    BY <1>1, <2>1, <2>2 DEF Brings, S
  <2>4. QED
    BY <2>3 DEF p
<1>5. QED
  BY <1>2, <1>3, <1>4 DEF e, f, g

LEMMA BringsFar ==
    ASSUME NEW a \in States, NEW b \in States, NEW c \in States, NEW d \in States,
           NEW e \in States, NEW f \in States
    PROVE  /\ Brings(a, << <<a, b>>, <<b, c>>, <<c, d>>, <<d, e>> >>, e)
           /\ Brings(a, << <<a, b>>, <<b, c>>, <<c, d>>, <<d, e>>, <<e, f>> >>, f)
<1> DEFINE g == <<a, b>>
           h == <<b, c>>
           i == <<c, d>>
           j == <<d, e>>
           k == <<e, f>>
           S == States \X States
<1>1. /\ g \in S /\ h \in S /\ i \in S /\ j \in S /\ k \in S
      /\ g[1] = a /\ g[2] = b /\ h[1] = b /\ h[2] = c /\ i[1] = c /\ i[2] = d /\ j[1] = d /\ j[2] = e
      /\ k[1] = e /\ k[2] = f
  OBVIOUS
<1> HIDE DEF g, h, i, j, k, S
<1>2. Brings(a, <<g, h, i, j>>, e)
  <2> DEFINE p == <<g, h, i, j>>
  <2>1. p \in Seq(S) /\ Len(p) = 4 /\ p[1] = g /\ p[2] = h /\ p[3] = i /\ p[4] = j /\ p # << >>
    BY <1>1
  <2> HIDE DEF p
  <2>2. \A n \in 2 .. Len(p) : (n = 2 /\ n - 1 = 1) \/ (n = 3 /\ n - 1 = 2) \/ (n = 4 /\ n - 1 = 3)
    BY <2>1
  <2>3. Brings(a, p, e)
    BY <1>1, <2>1, <2>2 DEF Brings, S
  <2>4. QED
    BY <2>3 DEF p
<1>3. Brings(a, <<g, h, i, j, k>>, f)
  <2> DEFINE p == <<g, h, i, j, k>>
  <2>1. /\ p \in Seq(S) /\ Len(p) = 5 /\ p # << >>
        /\ p[1] = g /\ p[2] = h /\ p[3] = i /\ p[4] = j /\ p[5] = k
    BY <1>1
  <2> HIDE DEF p
  <2>2. \A n \in 2 .. Len(p) :
            (n = 2 /\ n - 1 = 1) \/ (n = 3 /\ n - 1 = 2) \/ (n = 4 /\ n - 1 = 3) \/ (n = 5 /\ n - 1 = 4)
    BY <2>1
  <2>3. Brings(a, p, f)
    BY <1>1, <2>1, <2>2 DEF Brings, S
  <2>4. QED
    BY <2>3 DEF p
<1>4. QED
  BY <1>2, <1>3 DEF g, h, i, j, k

LEMMA ListReached ==
    ASSUME NEW st, NEW list, NEW r \in Resources, NEW to, Brings(st[r], list[r], to), st[r] # "gone" \/ list[r] = << >>
    PROVE  Reached(st, list)[r] = to /\ r \notin Mistaken(st, list)
<1> DEFINE p == list[r]
           from == st[r]
<1>1. p \in Seq(States \X States)
  BY DEF Brings
<1>2. Reached(st, list)[r] = IF from = "gone" \/ p = << >> THEN from ELSE p[Len(p)][2]
  BY DEF Reached
<1>3. r \in Mistaken(st, list) => \E n \in DOMAIN p : p[n][1] # IF n = 1 THEN from ELSE p[n - 1][2]
  BY DEF Mistaken
<1>4. /\ p = << >> => to = from
      /\ p # << >> => p[1][1] = from /\ p[Len(p)][2] = to
      /\ \A n \in 2 .. Len(p) : p[n][1] = p[n - 1][2]
  BY DEF Brings
<1> HIDE DEF p, from
<1>5. \A n \in DOMAIN p : p[n][1] = IF n = 1 THEN from ELSE p[n - 1][2]
  <2>1. DOMAIN p = 1 .. Len(p) /\ Len(p) \in Nat
    BY <1>1
  <2>2. ASSUME NEW n \in DOMAIN p PROVE p[n][1] = IF n = 1 THEN from ELSE p[n - 1][2]
    <3>1. p # << >> /\ (n # 1 => n \in 2 .. Len(p))
      BY <2>1, <2>2
    <3>2. QED
      BY <1>4, <3>1
  <2>3. QED
    BY <2>2
<1>6. from # "gone" \/ p = << >>
  BY DEF p, from
<1>7. QED
  BY <1>2, <1>3, <1>4, <1>5, <1>6 DEF p, from

LEMMA GoneStaysGone ==
    ASSUME NEW st, NEW list, NEW r \in Resources, st[r] = "gone"
    PROVE  Reached(st, list)[r] = "gone"
BY DEF Reached

(* The states between the steps of a frame.                                *)
Unwrapped == {"init", "targets", "blit", "resolve", "record", "chain"}
Recording == {"record", "chain"}

FrameLocals == [ss : BOOLEAN, depth : BOOLEAN, resolve : BOOLEAN, src : {"bb", "ss", "resolve"}, cur : 0 .. 2,
           todo : SUBSET Effects, starved : BOOLEAN, out : {"none", "skipped", "aborted", "drawn"}]

PostShape ==
    /\ PostTypeOK
    /\ bb \in Descs /\ gpuReady \in BOOLEAN
    /\ state \in [Resources -> States \cup {"gone"}] /\ sceneState \in [0 .. 1 -> States]
    /\ pic \in [Resources -> Seq(Passes)] /\ frame \in FrameLocals
    /\ step \in {"idle", "present", "unwrap"} \cup Unwrapped

(* What a borrowed surface is used as until it is handed back.             *)
InUse(r) ==
    CASE r = "bb" -> IF frame.src = "bb" THEN "PSR" ELSE "COMMON"
      [] r = "ss" -> IF "ss" \in lent THEN "PSR" ELSE "COMMON"
      [] r = "depth" -> IF "depth" \in lent THEN "SRV" ELSE "COMMON"

StatesKnown ==
    /\ \A i \in 0 .. 1 : Scene(i) \in owned => state[Scene(i)] = sceneState[i]
    /\ \A r \in Targets.Ao \cup Targets.Smaa \cup Targets.Cmaa2 : r \in owned => state[r] = FreshState(r)
    /\ "resolve" \in owned => state["resolve"] = IF step = "chain" /\ frame.resolve THEN "PSR" ELSE "COMMON"
    /\ \A r \in Borrowed : state[r] = IF step = "chain" THEN InUse(r) ELSE "COMMON"

FrameKnown ==
    /\ step \notin Unwrapped => lent = {}
    /\ step \in Unwrapped =>
        /\ gpuReady /\ "bb" \in lent /\ (frame.ss \/ "ss" \notin lent)
        /\ step # "chain" => "depth" \notin lent
        /\ frame.src = IF "ss" \in lent THEN "ss" ELSE IF frame.resolve THEN "resolve" ELSE "bb"
    /\ step \in {"unwrap"} \cup (Unwrapped \ Recording) => ~frame.resolve
    /\ step = "unwrap" => frame.src = "bb"
    /\ step \in Recording =>
        /\ frame.resolve <=> bb.samples > 1 /\ "ss" \notin lent
        /\ frame.resolve => "resolve" \in owned
    /\ step \in Unwrapped \ {"init"} => initFmt # NoFormat
    /\ step \in {"blit", "resolve"} \cup Recording => Targets.scene \subseteq owned
    /\ step \in {"resolve"} \cup Recording => blitBB.fmt = bb.fmt
    /\ step = "chain" =>
        /\ flight = {} /\ (frame.cur = 2 => frame.src = "bb")
        /\ frame.todo \subseteq enabled \cap effects

FlightKnown ==
    /\ flight # {} => gpuReady /\ initFmt # NoFormat /\ Targets.scene \subseteq owned
    /\ raced = {}

WrongKnown ==
    /\ wrong \subseteq Targets.Ao /\ (wrong # {} => failures > 0)
    /\ "ao" \in owned /\ "aoB" \notin owned => failures > 0

World == IF frame.ss THEN "ss" ELSE "bb"
Meant == ~frame.starved /\ bb.fmt = initFmt /\ (frame.ss => frame.src = "ss")
PictureKnown ==
    /\ step \in {"unwrap"} \cup (Unwrapped \ {"chain"}) => pic[World] = <<"world">>
    /\ step = "chain" /\ Meant =>
        /\ Shows(pic[ChainSrc(frame.cur)], PassesShown \ frame.todo)
        /\ \A d \in PassesShown \ frame.todo, e \in frame.todo : Chain[d] < Chain[e]
    /\ ShowsThisFrame

PostInv == PostShape /\ StatesKnown /\ FrameKnown /\ FlightKnown /\ WrongKnown /\ PictureKnown

LEMMA OneElement ==
    ASSUME NEW S, NEW x \in S
    PROVE  <<x>> \in Seq(S)
OBVIOUS

LEMMA OnePass ==
    <<"old">> \in Seq(Passes) /\ <<"world">> \in Seq(Passes) /\ <<"undefined">> \in Seq(Passes)
<1>1. "old" \in Passes /\ "world" \in Passes /\ "undefined" \in Passes
  BY DEF Passes
<1>2. QED
  BY <1>1, OneElement

(* The locals of a frame: each change of them leaves the rest alone.       *)
LEMMA FrameFields ==
    ASSUME NEW f \in FrameLocals
    PROVE  /\ f.ss \in BOOLEAN /\ f.depth \in BOOLEAN /\ f.resolve \in BOOLEAN /\ f.src \in {"bb", "ss", "resolve"}
           /\ f.cur \in 0 .. 2 /\ f.todo \in SUBSET Effects /\ f.starved \in BOOLEAN
           /\ f.out \in {"none", "skipped", "aborted", "drawn"}
BY DEF FrameLocals

LEMMA FrameMade ==
    NoFrame \in FrameLocals
BY DEF NoFrame, FrameLocals

LEMMA FrameStarted ==
    ASSUME NEW g, NEW ss \in BOOLEAN, NEW depth \in BOOLEAN, g = [NoFrame EXCEPT !.ss = ss, !.depth = depth]
    PROVE  /\ g \in FrameLocals
           /\ g.ss = ss /\ g.depth = depth /\ g.resolve = FALSE /\ g.src = "bb"
<1>1. /\ g.ss = ss /\ g.depth = depth /\ g.resolve = FALSE /\ g.src = "bb"
  BY DEF NoFrame
<1>2. g \in FrameLocals
  BY FrameMade DEF FrameLocals
<1>3. QED
  BY <1>1, <1>2

LEMMA FrameEnded ==
    ASSUME NEW f \in FrameLocals, NEW g, NEW o \in {"skipped", "aborted", "drawn"}, g = [f EXCEPT !.out = o]
    PROVE  /\ g \in FrameLocals
           /\ g.out = o /\ g.ss = f.ss /\ g.depth = f.depth /\ g.resolve = f.resolve /\ g.src = f.src
           /\ g.cur = f.cur /\ g.todo = f.todo /\ g.starved = f.starved
<1>1. g \in FrameLocals
  BY DEF FrameLocals
<1>2. /\ g.out = o /\ g.ss = f.ss /\ g.depth = f.depth /\ g.resolve = f.resolve /\ g.src = f.src
      /\ g.cur = f.cur /\ g.todo = f.todo /\ g.starved = f.starved
  BY DEF FrameLocals
<1>3. QED
  BY <1>1, <1>2

LEMMA FrameSource ==
    ASSUME NEW f \in FrameLocals, NEW g, NEW src \in {"bb", "ss"}, g = [f EXCEPT !.src = src]
    PROVE  /\ g \in FrameLocals
           /\ g.src = src /\ g.ss = f.ss /\ g.depth = f.depth /\ g.resolve = f.resolve
           /\ g.cur = f.cur /\ g.todo = f.todo /\ g.starved = f.starved /\ g.out = f.out
<1>1. g \in FrameLocals
  BY DEF FrameLocals
<1>2. /\ g.src = src /\ g.ss = f.ss /\ g.depth = f.depth /\ g.resolve = f.resolve
      /\ g.cur = f.cur /\ g.todo = f.todo /\ g.starved = f.starved /\ g.out = f.out
  BY DEF FrameLocals
<1>3. QED
  BY <1>1, <1>2

LEMMA FrameResolved ==
    ASSUME NEW f \in FrameLocals, NEW g, g = [f EXCEPT !.resolve = TRUE, !.src = "resolve"]
    PROVE  /\ g \in FrameLocals
           /\ g.resolve /\ g.src = "resolve" /\ g.ss = f.ss /\ g.depth = f.depth
           /\ g.cur = f.cur /\ g.todo = f.todo /\ g.starved = f.starved /\ g.out = f.out
<1>1. g \in FrameLocals
  BY DEF FrameLocals
<1>2. /\ g.resolve /\ g.src = "resolve" /\ g.ss = f.ss /\ g.depth = f.depth
      /\ g.cur = f.cur /\ g.todo = f.todo /\ g.starved = f.starved /\ g.out = f.out
  BY DEF FrameLocals
<1>3. QED
  BY <1>1, <1>2

LEMMA PostInitInv ==
    ASSUME PostAssumption, PostInit
    PROVE  PostInv
<1>1. PostShape
  <2>1. PostTypeOK
    <3>1. needsDepth \in BOOLEAN /\ effects \subseteq Effects /\ enabled = {}
      BY DEF PostInit
    <3>2. failures \in 0 .. MaxFailures /\ resets \in 0 .. MaxResets
      BY DEF PostAssumption, PostInit
    <3>3. owned = {} /\ lent = {} /\ flight = {} /\ \A r \in Owned : state[r] = "gone"
      BY ResourcesKnown DEF PostInit
    <3>4. QED
      BY <3>1, <3>2, <3>3 DEF PostTypeOK
  <2>2. pic \in [Resources -> Seq(Passes)]
    <3>1. <<"old">> \in Seq(Passes)
      BY OnePass
    <3>2. QED
      BY <3>1 DEF PostInit
  <2>3. frame \in FrameLocals
    BY FrameMade DEF PostInit
  <2>4. state \in [Resources -> States \cup {"gone"}] /\ sceneState \in [0 .. 1 -> States]
    BY DEF PostInit, States
  <2>5. bb \in Descs /\ gpuReady \in BOOLEAN /\ step = "idle"
    BY DEF PostInit
  <2>6. QED
    BY <2>1, <2>2, <2>3, <2>4, <2>5 DEF PostShape
<1>2. StatesKnown
  BY ResourcesKnown DEF PostInit, StatesKnown, Scene
<1>3. FrameKnown /\ FlightKnown /\ WrongKnown /\ PictureKnown
  BY DEF PostInit, FrameKnown, FlightKnown, WrongKnown, PictureKnown, ShowsThisFrame, Unwrapped, Recording
<1>4. QED
  BY <1>1, <1>2, <1>3 DEF PostInv

(* What a step changes of the frame and leaves of everything else.         *)
LEMMA OnWorldRenderEndInv ==
    ASSUME PostAssumption, PostInv, NEW ss \in BOOLEAN, NEW depth \in BOOLEAN, OnWorldRenderEnd(ss, depth)
    PROVE  PostInv'
<1> DEFINE drawn == IF ss THEN "ss" ELSE "bb"
<1>1. /\ step = "idle" /\ step' \in {"unwrap", "present"}
      /\ pic' = [pic EXCEPT ![drawn] = <<"world">>]
      /\ UNCHANGED <<bb, resets, enabled, failures, effects, gpuReady, initFmt, blitBB, owned, madeFor, state,
                     sceneState, lent, flight, wrong, raced>>
      /\ needsDepth' \in BOOLEAN
  BY DEF OnWorldRenderEnd
<1>2. step' = "unwrap" => frame' \in FrameLocals /\ frame'.ss = ss /\ frame'.resolve = FALSE /\ frame'.src = "bb"
  BY FrameStarted DEF OnWorldRenderEnd
<1>3. step' = "present" => frame' \in FrameLocals /\ frame'.out = "skipped"
  BY FrameMade, FrameEnded DEF OnWorldRenderEnd
<1>4. drawn \in Resources /\ pic \in [Resources -> Seq(Passes)]
  BY ResourcesKnown DEF PostInv, PostShape
<1>5. pic' \in [Resources -> Seq(Passes)] /\ pic'[drawn] = <<"world">>
  BY <1>1, <1>4, OnePass
<1>6. PostShape'
  BY <1>1, <1>2, <1>3, <1>5 DEF PostInv, PostShape, PostTypeOK
<1>7. StatesKnown'
  BY <1>1 DEF PostInv, StatesKnown, InUse
<1>8. FrameKnown'
  BY <1>1, <1>2 DEF PostInv, FrameKnown, Unwrapped, Recording
<1>9. FlightKnown' /\ WrongKnown'
  BY <1>1 DEF PostInv, FlightKnown, WrongKnown
<1>10. PictureKnown'
  BY <1>1, <1>2, <1>3, <1>5 DEF PictureKnown, World, ShowsThisFrame, Unwrapped
<1>11. QED
  BY <1>6, <1>7, <1>8, <1>9, <1>10 DEF PostInv

LEMMA UnwrapInv ==
    ASSUME PostAssumption, PostInv, Unwrap
    PROVE  PostInv'
<1>1. /\ step = "unwrap" /\ step' \in {"init", "present"}
      /\ UNCHANGED <<device, effects, initFmt, blitBB, owned, madeFor, recorded, flight, raced>>
  BY DEF Unwrap
<1>2. /\ gpuReady' \in BOOLEAN /\ (gpuReady => gpuReady')
      /\ step' = "init" => gpuReady'
  BY DEF Unwrap, InitGpu, PostInv, PostShape
<1>3. failures' \in 0 .. MaxFailures /\ (failures > 0 => failures' > 0)
  BY DEF Unwrap, MayFail, PostInv, PostShape, PostTypeOK, PostAssumption
<1>4. frame \in FrameLocals /\ frame.src = "bb" /\ ~frame.resolve /\ lent = {}
  BY <1>1 DEF PostInv, PostShape, FrameKnown, Unwrapped
<1>5. step' = "present" => lent' = {} /\ frame' \in FrameLocals /\ frame'.out = "aborted"
  BY <1>4, FrameEnded DEF Unwrap
<1>6. step' = "init" => \/ lent' = {"bb", "ss"} /\ frame.ss /\ frame' = [frame EXCEPT !.src = "ss"]
                        \/ lent' = {"bb"} /\ (frame' = frame \/ frame' = [frame EXCEPT !.src = "bb"])
  BY DEF Unwrap
<1>7. step' = "init" => /\ frame' \in FrameLocals /\ frame'.ss = frame.ss /\ ~frame'.resolve
                        /\ \/ lent' = {"bb", "ss"} /\ frame'.ss /\ frame'.src = "ss"
                           \/ lent' = {"bb"} /\ frame'.src = "bb"
  BY <1>4, <1>6, FrameSource
<1>8. PostTypeOK'
  <2>1. lent' \subseteq Borrowed
    BY <1>1, <1>5, <1>7 DEF Borrowed
  <2>2. QED
    BY <1>1, <1>3, <2>1 DEF PostInv, PostShape, PostTypeOK, device, recorded
<1>9. PostShape'
  BY <1>1, <1>2, <1>5, <1>7, <1>8 DEF PostInv, PostShape, Unwrapped, device, recorded
<1>10. StatesKnown'
  BY <1>1 DEF PostInv, StatesKnown, InUse, recorded
<1>11. FrameKnown'
  BY <1>1, <1>2, <1>5, <1>7 DEF FrameKnown, Unwrapped, Recording
<1>12. FlightKnown' /\ WrongKnown'
  BY <1>1, <1>2, <1>3 DEF PostInv, FlightKnown, WrongKnown, recorded
<1>13. PictureKnown'
  BY <1>1, <1>5, <1>7 DEF PostInv, PictureKnown, World, ShowsThisFrame, Unwrapped, recorded
<1>14. QED
  BY <1>9, <1>10, <1>11, <1>12, <1>13 DEF PostInv

LEMMA FewAreFinite ==
    ASSUME NEW a, NEW b, NEW c, NEW d, NEW S \in SUBSET {a, b, c, d}
    PROVE  IsFiniteSet(S) /\ Cardinality(S) \in Nat /\ (S # {} => Cardinality(S) > 0)
<1>1. IsFiniteSet({a})
  BY FS_Singleton
<1>2. IsFiniteSet({a} \cup {b})
  BY <1>1, FS_AddElement
<1>3. IsFiniteSet({a} \cup {b} \cup {c})
  BY <1>2, FS_AddElement
<1>4. IsFiniteSet({a} \cup {b} \cup {c} \cup {d})
  BY <1>3, FS_AddElement
<1>5. {a} \cup {b} \cup {c} \cup {d} = {a, b, c, d}
  OBVIOUS
<1>6. IsFiniteSet(S)
  BY <1>4, <1>5, FS_Subset
<1>7. Cardinality(S) \in Nat /\ (Cardinality(S) = 0 <=> S = {})
  BY <1>6, FS_CardinalityType, FS_EmptySet
<1>8. QED
  BY <1>6, <1>7

LEMMA GroupsAreSmall ==
    ASSUME NEW S, S \subseteq Effects \/ \E g \in Groups : S \subseteq Targets[g]
    PROVE  Cardinality(S) \in Nat /\ (S # {} => Cardinality(S) > 0)
<1>1. /\ Targets["scene"] \subseteq {"scene0", "scene1"} /\ Targets["resolve"] \subseteq {"resolve"}
      /\ Targets["Ao"] \subseteq {"ao", "aoB"} /\ Targets["Smaa"] \subseteq {"edges", "blend"}
      /\ Targets["Cmaa2"] \subseteq {"color", "control", "indirect"}
  BY ResourcesKnown
<1>2. PICK a, b, c, d : S \subseteq {a, b, c, d}
  <2>1. CASE S \subseteq Effects
    BY <2>1, ResourcesKnown
  <2>2. CASE \E g \in Groups : S \subseteq Targets[g]
    <3>1. PICK g \in Groups : S \subseteq Targets[g]
      BY <2>2
    <3>2. CASE g = "scene"
      <4>1. S \subseteq {"scene0", "scene1", "scene1", "scene1"}
        BY <1>1, <3>1, <3>2
      <4>2. QED
        BY <4>1
    <3>3. CASE g = "resolve"
      <4>1. S \subseteq {"resolve", "resolve", "resolve", "resolve"}
        BY <1>1, <3>1, <3>3
      <4>2. QED
        BY <4>1
    <3>4. CASE g = "Ao"
      <4>1. S \subseteq {"ao", "aoB", "aoB", "aoB"}
        BY <1>1, <3>1, <3>4
      <4>2. QED
        BY <4>1
    <3>5. CASE g = "Smaa"
      <4>1. S \subseteq {"edges", "blend", "blend", "blend"}
        BY <1>1, <3>1, <3>5
      <4>2. QED
        BY <4>1
    <3>6. CASE g = "Cmaa2"
      <4>1. S \subseteq {"color", "control", "indirect", "indirect"}
        BY <1>1, <3>1, <3>6
      <4>2. QED
        BY <4>1
    <3>7. QED
      BY <3>1, <3>2, <3>3, <3>4, <3>5, <3>6, ResourcesKnown
  <2>3. QED
    BY <2>1, <2>2
<1>3. QED
  BY <1>2, FewAreFinite

(* Targets made anew: some of them, at the cost of as many failures as are *)
(* missing, and none that the GPU may still use if it has been waited for. *)
LEMMA TargetsMade ==
    ASSUME PostAssumption, failures \in 0 .. MaxFailures, NEW g \in Groups, NEW failing \in SUBSET Targets[g],
           NEW key, NEW busy, owned \cap Targets[g] \cap busy = {}, CreateTargets(g, key, failing, busy)
    PROVE  /\ failures' \in 0 .. MaxFailures /\ (failures > 0 => failures' > 0)
           /\ failing # {} => failures' > 0
           /\ owned' = (owned \ Targets[g]) \cup (Targets[g] \ failing)
           /\ raced' = raced
<1>1. Cardinality(failing) \in Nat /\ (failing # {} => Cardinality(failing) > 0)
  BY GroupsAreSmall
<1>2. PICK n \in Nat : n = Cardinality(failing)
  BY <1>1
<1>3. n + failures <= MaxFailures /\ failures' = failures + n
  BY <1>2 DEF CreateTargets
<1>4. PICK f \in Nat, m \in Nat : f = failures /\ m = MaxFailures
  BY DEF PostAssumption
<1>5. failures' \in 0 .. MaxFailures /\ (failures > 0 => failures' > 0) /\ (n > 0 => failures' > 0)
  BY <1>3, <1>4
<1>6. QED
  BY <1>1, <1>2, <1>5 DEF CreateTargets

LEMMA EnsureInitInv ==
    ASSUME PostAssumption, PostInv, EnsureInit
    PROVE  PostInv'
<1>1. /\ step = "init" /\ frame \in FrameLocals
      /\ UNCHANGED <<device, gpuReady, blitBB, owned, madeFor, recorded, flight>>
  BY DEF EnsureInit, PostInv, PostShape
<1>2. raced' = raced
  <2>1. initFmt = NoFormat => flight = {}
    BY DEF PostInv, FlightKnown
  <2>2. flight = {} => UploadRaces = {}
    BY DEF UploadRaces
  <2>3. QED
    BY <2>1, <2>2 DEF EnsureInit
<1>3. effects' \subseteq effects /\ failures' \in 0 .. MaxFailures /\ (failures > 0 => failures' > 0)
  <2>1. CASE initFmt # NoFormat
    BY <2>1 DEF EnsureInit, PostInv, PostShape, PostTypeOK
  <2>2. CASE initFmt = NoFormat
    <3>1. PICK dropped \in SUBSET effects, fill \in BOOLEAN :
            LET n == Cardinality(dropped) + (IF fill THEN 0 ELSE 1) IN
            failures + n <= MaxFailures /\ failures' = failures + n /\ effects' = effects \ dropped
      BY <2>2 DEF EnsureInit
    <3>2. dropped \subseteq Effects
      BY <3>1 DEF PostInv, PostShape, PostTypeOK
    <3>3. PICK c \in Nat : c = Cardinality(dropped)
      BY <3>2, GroupsAreSmall
    <3>4. PICK n \in Nat : n = Cardinality(dropped) + (IF fill THEN 0 ELSE 1)
      BY <3>3
    <3>5. failures + n <= MaxFailures /\ failures' = failures + n
      BY <3>1, <3>4
    <3>6. PICK f \in Nat, m \in Nat : f = failures /\ m = MaxFailures /\ failures \in 0 .. MaxFailures
      BY DEF PostAssumption, PostInv, PostShape, PostTypeOK
    <3>7. QED
      BY <3>1, <3>5, <3>6
  <2>3. QED
    BY <2>1, <2>2
<1>4. \/ step' = "targets" /\ initFmt' # NoFormat /\ UNCHANGED <<lent, frame>>
      \/ step' = "present" /\ initFmt' = initFmt /\ lent' = {} /\ frame' = [frame EXCEPT !.out = "aborted"]
  BY DEF EnsureInit, Abort, PostAssumption, PostInv, PostShape
<1>5. step' = "present" => frame' \in FrameLocals /\ frame'.out = "aborted"
  BY <1>1, <1>4, FrameEnded
<1>6. initFmt # NoFormat => initFmt' # NoFormat
  BY <1>4
<1>7. PostShape'
  BY <1>1, <1>3, <1>4, <1>5 DEF PostInv, PostShape, PostTypeOK, Unwrapped, device, recorded
<1>8. StatesKnown'
  BY <1>1, <1>4 DEF PostInv, StatesKnown, recorded
<1>9. FrameKnown'
  BY <1>1, <1>4 DEF PostInv, FrameKnown, Unwrapped, Recording
<1>10. FlightKnown' /\ WrongKnown'
  BY <1>1, <1>2, <1>3, <1>6 DEF PostInv, FlightKnown, WrongKnown, recorded
<1>11. PictureKnown'
  BY <1>1, <1>4, <1>5 DEF PostInv, PictureKnown, World, ShowsThisFrame, Unwrapped, recorded
<1>12. QED
  BY <1>7, <1>8, <1>9, <1>10, <1>11 DEF PostInv

LEMMA EnsureTargetsInv ==
    ASSUME PostAssumption, PostInv, EnsureTargets
    PROVE  PostInv'
<1>1. /\ step = "targets" /\ frame \in FrameLocals
      /\ UNCHANGED <<device, effects, gpuReady, initFmt, blitBB, wrong>>
  BY DEF EnsureTargets, PostInv, PostShape
<1>2. \/ step' = "blit" /\ Targets.scene \subseteq owned' /\ UNCHANGED <<lent, frame>>
      \/ step' = "present" /\ lent' = {} /\ frame' = [frame EXCEPT !.out = "aborted"]
  BY DEF EnsureTargets, Abort
<1>3. step' = "present" => frame' \in FrameLocals /\ frame'.out = "aborted"
  BY <1>1, <1>2, FrameEnded
<1>4. frame' \in FrameLocals /\ lent' \subseteq lent
  BY <1>1, <1>2, <1>3
<1>5. /\ "bb" \notin Targets.scene /\ "ss" \notin Targets.scene
      /\ World \in Resources /\ World \notin Targets.scene
  BY ResourcesKnown DEF World
<1>6. World' = World \/ step' = "present"
  BY <1>2 DEF World
<1>7. CASE SceneFits
  <2>1. UNCHANGED <<failures, owned, madeFor, flight, raced, state, sceneState, pic>>
    BY <1>7 DEF EnsureTargets
  <2>2. PostShape'
    BY <1>1, <1>2, <1>4, <2>1 DEF PostInv, PostShape, PostTypeOK, Unwrapped, device
  <2>3. StatesKnown'
    BY <1>1, <1>2, <2>1 DEF PostInv, StatesKnown
  <2>4. FrameKnown'
    BY <1>1, <1>2, <2>1 DEF PostInv, FrameKnown, Unwrapped, Recording
  <2>5. FlightKnown' /\ WrongKnown'
    BY <1>1, <2>1 DEF PostInv, FlightKnown, WrongKnown
  <2>6. PictureKnown'
    BY <1>1, <1>2, <1>3, <2>1 DEF PostInv, PictureKnown, World, ShowsThisFrame, Unwrapped
  <2>7. QED
    BY <2>2, <2>3, <2>4, <2>5, <2>6 DEF PostInv
<1>8. CASE ~SceneFits
  <2>1. PICK failing \in SUBSET Targets.scene : CreateScene(failing)
    BY <1>8 DEF EnsureTargets
  <2>2. /\ sceneState' = [i \in 0 .. 1 |-> "COMMON"]
        /\ state' = [r \in Resources |-> IF r \notin Targets.scene THEN state[r]
                                           ELSE IF r \in owned' THEN "COMMON" ELSE "gone"]
        /\ pic' = [r \in Resources |-> IF r \in Targets.scene THEN <<"old">> ELSE pic[r]]
    BY <1>8 DEF EnsureTargets
  <2>3. flight' = {}
    BY <2>1, ResourcesKnown DEF CreateScene, WaitForGpu, PostInv, FlightKnown
  <2>4. CreateTargets("scene", Key, failing, flight')
    BY <2>1 DEF CreateScene
  <2>5. Targets["scene"] = Targets.scene /\ "scene" \in Groups
    BY ResourcesKnown
  <2>6. failures \in 0 .. MaxFailures
    BY DEF PostInv, PostShape, PostTypeOK
  <2>7. /\ failures' \in 0 .. MaxFailures /\ (failures > 0 => failures' > 0)
        /\ owned' = (owned \ Targets.scene) \cup (Targets.scene \ failing)
        /\ raced' = raced
    <3>1. owned \cap Targets["scene"] \cap flight' = {} /\ failing \in SUBSET Targets["scene"]
      BY <2>3, <2>5
    <3>2. QED
      BY <2>4, <2>5, <2>6, <3>1, TargetsMade
  <2>8. \A r \in Resources \ Targets.scene : r \in owned' <=> r \in owned
    BY <2>7
  <2>9. owned' \subseteq Owned
    BY <2>7, ResourcesKnown DEF PostInv, PostShape, PostTypeOK
  <2>10. PostTypeOK'
    <3>1. \A r \in Owned : (state'[r] = "gone") = (r \notin owned')
      BY <2>2, <2>8, ResourcesKnown DEF PostInv, PostShape, PostTypeOK
    <3>2. flight' \subseteq Owned \cup Borrowed
      BY <2>3
    <3>3. QED
      BY <1>1, <1>4, <2>7, <2>9, <3>1, <3>2 DEF PostInv, PostShape, PostTypeOK, device
  <2>11. PostShape'
    <3>1. pic' \in [Resources -> Seq(Passes)]
      BY <2>2, OnePass DEF PostInv, PostShape
    <3>2. state' \in [Resources -> States \cup {"gone"}] /\ sceneState' \in [0 .. 1 -> States]
      BY <2>2 DEF PostInv, PostShape, States
    <3>3. QED
      BY <1>1, <1>2, <1>4, <2>10, <3>1, <3>2 DEF PostInv, PostShape, Unwrapped, device
  <2>12. StatesKnown'
    <3>1. \A i \in 0 .. 1 : Scene(i) \in Targets.scene /\ Scene(i) \in Resources
      BY ResourcesKnown DEF Scene
    <3>2. \A i \in 0 .. 1 : Scene(i) \in owned' => state'[Scene(i)] = sceneState'[i]
      BY <2>2, <3>1
    <3>3. \A r \in Resources \ Targets.scene : state'[r] = state[r]
      BY <2>2
    <3>4. \A r \in Targets.Ao \cup Targets.Smaa \cup Targets.Cmaa2 \cup Borrowed \cup {"resolve"} : r \in Resources \ Targets.scene
      BY ResourcesKnown
    <3>5. \A r \in Targets.Ao \cup Targets.Smaa \cup Targets.Cmaa2 : r \in owned' => state'[r] = FreshState(r)
      BY <2>8, <3>3, <3>4 DEF PostInv, StatesKnown
    <3>6. \A r \in Borrowed : state'[r] = "COMMON"
      BY <1>1, <3>3, <3>4 DEF PostInv, StatesKnown
    <3>7. "resolve" \in owned' => state'["resolve"] = "COMMON"
      BY <1>1, <2>8, <3>3, <3>4 DEF PostInv, StatesKnown
    <3>8. step' # "chain"
      BY <1>2
    <3>9. QED
      BY <3>2, <3>5, <3>6, <3>7, <3>8 DEF StatesKnown
  <2>13. FrameKnown'
    BY <1>1, <1>2 DEF PostInv, FrameKnown, Unwrapped, Recording
  <2>14. FlightKnown'
    BY <2>3, <2>7 DEF PostInv, FlightKnown
  <2>15. WrongKnown'
    <3>1. "ao" \in Resources \ Targets.scene /\ "aoB" \in Resources \ Targets.scene
      BY ResourcesKnown
    <3>2. QED
      BY <1>1, <2>7, <2>8, <3>1 DEF PostInv, WrongKnown
  <2>16. PictureKnown'
    <3>1. pic'[World] = pic[World]
      BY <1>5, <2>2
    <3>2. QED
      BY <1>1, <1>2, <1>3, <1>6, <3>1 DEF PostInv, PictureKnown, ShowsThisFrame, Unwrapped
  <2>17. QED
    BY <2>11, <2>12, <2>13, <2>14, <2>15, <2>16 DEF PostInv
<1>9. QED
  BY <1>7, <1>8

LEMMA EnsureBlitBBInv ==
    ASSUME PostAssumption, PostInv, EnsureBlitBB
    PROVE  PostInv'
<1>1. /\ step = "blit" /\ frame \in FrameLocals
      /\ UNCHANGED <<device, effects, gpuReady, initFmt, owned, madeFor, recorded, raced>>
  BY DEF EnsureBlitBB, PostInv, PostShape
<1>2. \/ step' = "resolve" /\ blitBB' = [fmt |-> bb.fmt, samples |-> bb.samples] /\ UNCHANGED <<failures, lent, frame>>
      \/ step' = "present" /\ lent' = {} /\ frame' = [frame EXCEPT !.out = "aborted"] /\ MayFail
  BY DEF EnsureBlitBB, Abort
<1>3. flight' \subseteq flight
  BY DEF EnsureBlitBB, WaitForGpu
<1>4. step' = "present" => frame' \in FrameLocals /\ frame'.out = "aborted"
  BY <1>1, <1>2, FrameEnded
<1>5. failures' \in 0 .. MaxFailures /\ (failures > 0 => failures' > 0)
  BY <1>2 DEF MayFail, PostInv, PostShape, PostTypeOK, PostAssumption
<1>6. step' = "resolve" => blitBB'.fmt = bb'.fmt
  <2>1. ASSUME step' = "resolve" PROVE blitBB'.fmt = bb'.fmt
    BY <1>1, <1>2, <2>1 DEF device
  <2>2. QED
    BY <2>1
<1>7. PostShape'
  BY <1>1, <1>2, <1>3, <1>4, <1>5 DEF PostInv, PostShape, PostTypeOK, Unwrapped, device, recorded
<1>8. StatesKnown'
  BY <1>1, <1>2 DEF PostInv, StatesKnown, recorded
<1>9. FrameKnown'
  BY <1>1, <1>2, <1>6 DEF PostInv, FrameKnown, Unwrapped, Recording, device
<1>10. FlightKnown' /\ WrongKnown'
  BY <1>1, <1>3, <1>5 DEF PostInv, FlightKnown, WrongKnown, recorded
<1>11. PictureKnown'
  BY <1>1, <1>2, <1>4 DEF PostInv, PictureKnown, World, ShowsThisFrame, Unwrapped, recorded
<1>12. QED
  BY <1>7, <1>8, <1>9, <1>10, <1>11 DEF PostInv

LEMMA EnsureMsaaResolveInv ==
    ASSUME PostAssumption, PostInv, EnsureMsaaResolve
    PROVE  PostInv'
<1> DEFINE resolve == bb.samples > 1 /\ "ss" \notin lent
<1>1. /\ step = "resolve" /\ frame \in FrameLocals
      /\ UNCHANGED <<device, effects, gpuReady, initFmt, blitBB, sceneState, pic, wrong>>
  BY DEF EnsureMsaaResolve, PostInv, PostShape
<1>2. ~frame.resolve /\ frame.src = IF "ss" \in lent THEN "ss" ELSE "bb"
  BY <1>1 DEF PostInv, FrameKnown, Unwrapped, Recording
<1>3. \/ /\ step' = "record" /\ lent' = lent
         /\ ("resolve" \in owned' \/ ~resolve)
         /\ frame' = IF resolve THEN [frame EXCEPT !.resolve = TRUE, !.src = "resolve"] ELSE frame
      \/ step' = "present" /\ lent' = {} /\ frame' = [frame EXCEPT !.out = "aborted"]
  <2>1. CASE ~resolve \/ ("resolve" \in owned /\ madeFor.resolve = Key)
    BY <2>1 DEF EnsureMsaaResolve
  <2>2. CASE resolve /\ ~("resolve" \in owned /\ madeFor.resolve = Key)
    <3>1. PICK failing \in SUBSET {"resolve"} :
            /\ CreateTargets("resolve", Key, failing, WaitForGpu("resolve" \in owned))
            /\ IF failing # {} THEN Abort(frame) ELSE
               /\ frame' = [frame EXCEPT !.resolve = TRUE, !.src = "resolve"]
               /\ step' = "record" /\ UNCHANGED lent
      BY <2>2 DEF EnsureMsaaResolve
    <3>2. failing = {} => "resolve" \in owned'
      BY <3>1, ResourcesKnown DEF CreateTargets
    <3>3. QED
      BY <2>2, <3>1, <3>2 DEF Abort
  <2>3. QED
    BY <2>1, <2>2
<1>4. step' = "present" => frame' \in FrameLocals /\ frame'.out = "aborted"
  BY <1>1, <1>3, FrameEnded
<1>5. step' = "record" =>
        /\ frame' \in FrameLocals /\ frame'.ss = frame.ss /\ (frame'.resolve <=> resolve)
        /\ frame'.src = IF "ss" \in lent THEN "ss" ELSE IF resolve THEN "resolve" ELSE "bb"
  BY <1>1, <1>2, <1>3, FrameResolved
<1>6. /\ failures' \in 0 .. MaxFailures /\ (failures > 0 => failures' > 0)
      /\ flight' \subseteq flight /\ raced' = raced
      /\ owned' \ {"resolve"} = owned \ {"resolve"} /\ owned' \subseteq owned \cup {"resolve"}
      /\ \A r \in Resources \ {"resolve"} : state'[r] = state[r]
      /\ state' \in [Resources -> States \cup {"gone"}]
      /\ (state'["resolve"] = "gone") = ("resolve" \notin owned')
      /\ "resolve" \in owned' => state'["resolve"] = "COMMON"
  <2>1. failures \in 0 .. MaxFailures /\ state \in [Resources -> States \cup {"gone"}]
    BY DEF PostInv, PostShape, PostTypeOK
  <2>2. "resolve" \in owned => state["resolve"] = "COMMON"
    BY <1>1 DEF PostInv, StatesKnown
  <2>3. "resolve" \in Owned /\ "resolve" \in Resources /\ "resolve" \in Groups /\ Targets["resolve"] = {"resolve"}
    BY ResourcesKnown
  <2>4. (state["resolve"] = "gone") = ("resolve" \notin owned)
    BY <2>3 DEF PostInv, PostShape, PostTypeOK
  <2>5. CASE ~resolve \/ ("resolve" \in owned /\ madeFor.resolve = Key)
    BY <2>1, <2>2, <2>4, <2>5 DEF EnsureMsaaResolve
  <2>6. CASE resolve /\ ~("resolve" \in owned /\ madeFor.resolve = Key)
    <3>1. PICK failing \in SUBSET {"resolve"} :
            /\ CreateTargets("resolve", Key, failing, WaitForGpu("resolve" \in owned))
            /\ flight' = WaitForGpu("resolve" \in owned)
            /\ state' = [state EXCEPT !["resolve"] = IF failing = {} THEN "COMMON" ELSE "gone"]
      BY <2>6 DEF EnsureMsaaResolve
    <3>2. owned \cap Targets["resolve"] \cap flight' = {} /\ flight' \subseteq flight
      BY <2>3, <3>1 DEF WaitForGpu
    <3>3. /\ failures' \in 0 .. MaxFailures /\ (failures > 0 => failures' > 0)
          /\ owned' = (owned \ {"resolve"}) \cup ({"resolve"} \ failing)
          /\ raced' = raced
      BY <2>1, <2>3, <3>1, <3>2, TargetsMade
    <3>4. state'["resolve"] = IF failing = {} THEN "COMMON" ELSE "gone"
      BY <2>1, <2>3, <3>1
    <3>5. state' \in [Resources -> States \cup {"gone"}]
      <4>1. (IF failing = {} THEN "COMMON" ELSE "gone") \in States \cup {"gone"}
        BY DEF States
      <4>2. QED
        BY <2>1, <3>1, <4>1
    <3>6. \A r \in Resources \ {"resolve"} : state'[r] = state[r]
      BY <2>1, <3>1
    <3>7. failing = {} <=> "resolve" \in owned'
      BY <3>3
    <3>8. QED
      BY <3>2, <3>3, <3>4, <3>5, <3>6, <3>7
  <2>7. QED
    BY <2>5, <2>6
<1>7. \A r \in Resources \ {"resolve"} : r \in owned' <=> r \in owned
  BY <1>6
<1>8. "resolve" \in Owned /\ Owned \subseteq Resources /\ Borrowed \subseteq Resources \ {"resolve"}
  BY ResourcesKnown
<1>9. PostTypeOK'
  <2>1. \A r \in Owned : (state'[r] = "gone") = (r \notin owned')
    BY <1>6, <1>7, <1>8 DEF PostInv, PostShape, PostTypeOK
  <2>2. lent' \subseteq lent
    BY <1>3
  <2>3. QED
    BY <1>1, <1>6, <1>8, <2>1, <2>2 DEF PostInv, PostShape, PostTypeOK, device
<1>10. PostShape'
  BY <1>1, <1>3, <1>4, <1>5, <1>6, <1>9 DEF PostInv, PostShape, Unwrapped, device
<1>11. StatesKnown'
  <2>1. \A i \in 0 .. 1 : Scene(i) \in Resources \ {"resolve"}
    BY ResourcesKnown DEF Scene
  <2>2. \A i \in 0 .. 1 : Scene(i) \in owned' => state'[Scene(i)] = sceneState'[i]
    BY <1>1, <1>6, <1>7, <2>1 DEF PostInv, StatesKnown
  <2>3. Targets.Ao \cup Targets.Smaa \cup Targets.Cmaa2 \subseteq Resources \ {"resolve"}
    BY ResourcesKnown
  <2>4. \A r \in Targets.Ao \cup Targets.Smaa \cup Targets.Cmaa2 : r \in owned' => state'[r] = FreshState(r)
    BY <1>6, <1>7, <2>3 DEF PostInv, StatesKnown
  <2>5. \A r \in Borrowed : state'[r] = "COMMON"
    BY <1>1, <1>6, <1>8 DEF PostInv, StatesKnown
  <2>6. step' # "chain"
    BY <1>3
  <2>7. QED
    BY <1>6, <2>2, <2>4, <2>5, <2>6 DEF StatesKnown
<1>12. Targets.scene \subseteq Resources \ {"resolve"} /\ "ao" \in Resources \ {"resolve"} /\ "aoB" \in Resources \ {"resolve"}
  BY ResourcesKnown
<1>13. FrameKnown'
  <2>1. CASE step' = "present"
    BY <1>3, <2>1 DEF FrameKnown, Unwrapped, Recording
  <2>2. CASE step' = "record"
    <3>1. lent' = lent /\ (resolve => "resolve" \in owned')
      BY <1>3, <2>2
    <3>2. /\ gpuReady /\ "bb" \in lent /\ (frame.ss \/ "ss" \notin lent) /\ "depth" \notin lent
          /\ initFmt # NoFormat /\ Targets.scene \subseteq owned /\ blitBB.fmt = bb.fmt
      BY <1>1 DEF PostInv, FrameKnown, Unwrapped, Recording
    <3>3. Targets.scene \subseteq owned'
      BY <1>7, <1>12, <3>2
    <3>4. frame'.src = IF "ss" \in lent' THEN "ss" ELSE IF frame'.resolve THEN "resolve" ELSE "bb"
      BY <1>5, <2>2, <3>1
    <3>5. QED
      BY <1>1, <1>5, <2>2, <3>1, <3>2, <3>3, <3>4 DEF FrameKnown, Unwrapped, Recording, device
  <2>3. QED
    BY <1>3, <2>1, <2>2
<1>14. FlightKnown' /\ WrongKnown'
  <2>1. Targets.scene \subseteq owned => Targets.scene \subseteq owned'
    BY <1>7, <1>12
  <2>2. QED
    BY <1>1, <1>6, <1>7, <1>12, <2>1 DEF PostInv, FlightKnown, WrongKnown
<1>15. PictureKnown'
  BY <1>1, <1>3, <1>4, <1>5 DEF PostInv, PictureKnown, World, ShowsThisFrame, Unwrapped
<1>16. QED
  BY <1>10, <1>11, <1>13, <1>14, <1>15 DEF PostInv

LEMMA PresentInv ==
    ASSUME PostAssumption, PostInv, Present
    PROVE  PostInv'
<1>1. /\ step = "present" /\ step' = "idle" /\ frame' = NoFrame
      /\ pic' = [r \in Resources |-> <<"old">>]
      /\ UNCHANGED <<device, failures, effects, gpuReady, initFmt, blitBB, owned, madeFor, state, sceneState,
                   wrong, lent, flight, raced>>
  BY DEF Present
<1>2. PostShape'
  BY <1>1, FrameMade, OnePass DEF PostInv, PostShape, PostTypeOK, device
<1>3. StatesKnown' /\ FrameKnown' /\ FlightKnown' /\ WrongKnown'
  BY <1>1 DEF PostInv, StatesKnown, FrameKnown, FlightKnown, WrongKnown, Unwrapped, Recording
<1>4. PictureKnown'
  BY <1>1 DEF PictureKnown, ShowsThisFrame, Unwrapped
<1>5. QED
  BY <1>2, <1>3, <1>4 DEF PostInv

LEMMA DrawGraphicsPanelInv ==
    ASSUME PostAssumption, PostInv, NEW e \in Effects, DrawGraphicsPanel(e)
    PROVE  PostInv'
<1>1. /\ step = "idle" /\ enabled' = Toggled(e)
      /\ UNCHANGED <<bb, resets, needsDepth, failures, effects, gpuReady, initFmt, blitBB, owned, madeFor, recorded, lent,
                   flight, step, frame, raced>>
  BY DEF DrawGraphicsPanel
<1>2. enabled' \subseteq Effects /\ \A d, f \in enabled' \cap AntiAliasing : d = f
  BY <1>1 DEF Toggled, PostInv, PostShape, PostTypeOK
<1>3. PostShape'
  BY <1>1, <1>2 DEF PostInv, PostShape, PostTypeOK, recorded
<1>4. StatesKnown' /\ FrameKnown' /\ FlightKnown' /\ WrongKnown'
  BY <1>1 DEF PostInv, StatesKnown, FrameKnown, FlightKnown, WrongKnown, Unwrapped, Recording, recorded
<1>5. PictureKnown'
  BY <1>1 DEF PictureKnown, ShowsThisFrame, Unwrapped
<1>6. QED
  BY <1>3, <1>4, <1>5 DEF PostInv

LEMMA OnDeviceLostInv ==
    ASSUME PostAssumption, PostInv, NEW d \in Descs, OnDeviceLost(d)
    PROVE  PostInv'
<1>1. /\ step = "idle" /\ resets < MaxResets /\ flight' = PrepareForReset
      /\ raced' = raced \cup (Borrowed \cap flight')
      /\ bb' = d /\ resets' = resets + 1
      /\ UNCHANGED <<failures, enabled, needsDepth, effects, gpuReady, initFmt, blitBB, owned, madeFor, recorded, lent,
                   step, frame>>
  BY DEF OnDeviceLost
<1>2. flight' = {} /\ raced' = raced
  BY <1>1 DEF PrepareForReset, PostInv, FlightKnown
<1>3. resets' \in 0 .. MaxResets
  BY <1>1 DEF PostInv, PostShape, PostTypeOK, PostAssumption
<1>4. PostShape'
  BY <1>1, <1>2, <1>3 DEF PostInv, PostShape, PostTypeOK, recorded
<1>5. StatesKnown' /\ FrameKnown' /\ FlightKnown' /\ WrongKnown'
  BY <1>1, <1>2 DEF PostInv, StatesKnown, FrameKnown, FlightKnown, WrongKnown, Unwrapped, Recording, recorded
<1>6. PictureKnown'
  BY <1>1 DEF PictureKnown, ShowsThisFrame, Unwrapped
<1>7. QED
  BY <1>4, <1>5, <1>6 DEF PostInv

LEMMA GpuDoneInv ==
    ASSUME PostInv, GpuDone
    PROVE  PostInv'
<1>1. flight' = {}
      /\ UNCHANGED <<device, failures, effects, gpuReady, initFmt, blitBB, owned, madeFor, recorded, lent, step,
                   frame, raced>>
  BY DEF GpuDone
<1>2. PostShape'
  BY <1>1 DEF PostInv, PostShape, PostTypeOK, device, recorded
<1>3. StatesKnown' /\ FrameKnown' /\ FlightKnown' /\ WrongKnown'
  BY <1>1 DEF PostInv, StatesKnown, InUse, FrameKnown, FlightKnown, WrongKnown, Unwrapped, Recording, device, recorded
<1>4. PictureKnown'
  BY <1>1 DEF PostInv, PictureKnown, World, Meant, ChainSrc, PassesShown, ShowsThisFrame, Unwrapped, device, recorded
<1>5. QED
  BY <1>2, <1>3, <1>4 DEF PostInv

(* Pictures: the world as it was drawn, and one pass more.                 *)
LEMMA ShowsTheWorld ==
    Shows(<<"world">>, {})
<1> DEFINE p == <<"world">>
<1>1. Len(p) = 1 /\ p[1] = "world" /\ p # << >>
  OBVIOUS
<1> HIDE DEF p
<1>2. ~(\E n \in 2 .. Len(p) : TRUE)
  BY <1>1
<1>3. Shows(p, {})
  BY <1>1, <1>2 DEF Shows
<1>4. QED
  BY <1>3 DEF p

LEMMA ShowsOneMore ==
    ASSUME NEW p \in Seq(Passes), NEW passes \in SUBSET Effects, NEW e \in Effects, Shows(p, passes),
           \A d \in passes : Chain[d] < Chain[e]
    PROVE  Shows(Append(p, e), passes \cup {e})
<1> DEFINE q == Append(p, e)
<1>1. PICK n \in Nat : n = Len(p)
  OBVIOUS
<1>2. n # 0
  BY <1>1, EmptySeq DEF Shows
<1>3. Len(q) = n + 1 /\ q[n + 1] = e /\ \A k \in 1 .. n : q[k] = p[k]
  BY <1>1
<1>4. q # << >>
  BY <1>1, <1>2, <1>3
<1> HIDE DEF q
<1>5. q[1] = "world"
  BY <1>1, <1>2, <1>3 DEF Shows
<1>6. \A k \in 2 .. n : k \in 1 .. n /\ q[k] = p[k] /\ q[k] \in passes
  <2>1. \A k \in 2 .. n : k \in 1 .. n
    BY <1>1
  <2>2. \A k \in 2 .. n : p[k] \in passes
    BY <1>1 DEF Shows
  <2>3. QED
    BY <1>3, <2>1, <2>2
<1>7. 2 .. n + 1 = (2 .. n) \cup {n + 1}
  BY <1>1, <1>2
<1>8. {q[k] : k \in 2 .. n + 1} = passes \cup {e}
  <2>1. {p[k] : k \in 2 .. n} = passes
    BY <1>1 DEF Shows
  <2>2. QED
    BY <1>3, <1>6, <1>7, <2>1
<1>9. \A j, k \in 2 .. n + 1 : j < k => Chain[q[j]] < Chain[q[k]]
  <2>1. ASSUME NEW j \in 2 .. n + 1, NEW k \in 2 .. n + 1, j < k PROVE Chain[q[j]] < Chain[q[k]]
    <3>1. j \in 2 .. n
      BY <1>1, <2>1
    <3>2. CASE k = n + 1
      BY <1>3, <1>6, <3>1, <3>2
    <3>3. CASE k \in 2 .. n
      BY <1>1, <1>6, <2>1, <3>1, <3>3 DEF Shows
    <3>4. QED
      BY <1>7, <3>2, <3>3
  <2>2. QED
    BY <2>1
<1>10. Shows(q, passes \cup {e})
  BY <1>3, <1>4, <1>5, <1>8, <1>9 DEF Shows
<1>11. QED
  BY <1>10 DEF q

(* A pass for the one format its target has leaves its picture alone.      *)
LEMMA DrawnInFormat ==
    ASSUME NEW picture
    PROVE  /\ Draw(bb.fmt, picture) = picture
           /\ \A e \in Effects : Drawn(EffectInit(e, bb.fmt).passes, picture) = picture
<1>1. FormatOf("scene") = bb.fmt /\ FormatOf("edges") = Packed /\ FormatOf("blend") = Packed /\ FormatOf("color") = Packed
  BY DEF FormatOf
<1>2. Draw(bb.fmt, picture) = picture
  <2> DEFINE s == <<"scene", bb.fmt>>
             ps == <<s>>
  <2>1. s[1] = "scene" /\ s[2] = bb.fmt
    OBVIOUS
  <2> HIDE DEF s
  <2>2. \A k \in DOMAIN ps : ps[k] = s
    OBVIOUS
  <2> HIDE DEF ps
  <2>3. Drawn(ps, picture) = picture
    BY <1>1, <2>1, <2>2 DEF Drawn
  <2>4. QED
    BY <2>3 DEF ps, s, Draw
<1>3. Drawn(EffectInit("Smaa", bb.fmt).passes, picture) = picture
  <2> DEFINE s == <<"scene", bb.fmt>>
             a == <<"edges", Packed>>
             b == <<"blend", Packed>>
             ps == <<a, b, s>>
  <2>1. s[1] = "scene" /\ s[2] = bb.fmt /\ a[1] = "edges" /\ a[2] = Packed /\ b[1] = "blend" /\ b[2] = Packed
    OBVIOUS
  <2>2. EffectInit("Smaa", bb.fmt).passes = ps
    BY DEF EffectInit, SmaaInit
  <2> HIDE DEF s, a, b
  <2>3. \A k \in DOMAIN ps : ps[k] \in {a, b, s}
    OBVIOUS
  <2> HIDE DEF ps
  <2>4. Drawn(ps, picture) = picture
    BY <1>1, <2>1, <2>3 DEF Drawn
  <2>5. QED
    BY <2>2, <2>4
<1>4. Drawn(EffectInit("Cmaa2", bb.fmt).passes, picture) = picture
  <2> DEFINE s == <<"scene", bb.fmt>>
             a == <<"color", Packed>>
             ps == <<a, s>>
  <2>1. s[1] = "scene" /\ s[2] = bb.fmt /\ a[1] = "color" /\ a[2] = Packed
    OBVIOUS
  <2>2. EffectInit("Cmaa2", bb.fmt).passes = ps
    BY DEF EffectInit, Cmaa2Init
  <2> HIDE DEF s, a
  <2>3. \A k \in DOMAIN ps : ps[k] \in {a, s}
    OBVIOUS
  <2> HIDE DEF ps
  <2>4. Drawn(ps, picture) = picture
    BY <1>1, <2>1, <2>3 DEF Drawn
  <2>5. QED
    BY <2>2, <2>4
<1>5. \A e \in {"Ao", "Fxaa"} : EffectInit(e, bb.fmt).passes = << <<"scene", bb.fmt>> >>
  BY DEF EffectInit, AoInit, FxaaInit
<1>6. QED
  BY <1>2, <1>3, <1>4, <1>5, ResourcesKnown DEF Draw

LEMMA PicturesKnown ==
    ASSUME pic \in [Resources -> Seq(Passes)]
    PROVE  /\ \A r \in Resources : Sampled(r) \in Seq(Passes)
           /\ \A passes, picture : picture \in Seq(Passes) => Drawn(passes, picture) \in Seq(Passes)
           /\ \A fmt, picture : picture \in Seq(Passes) => Draw(fmt, picture) \in Seq(Passes)
<1>1. \A r \in Resources : Sampled(r) \in Seq(Passes)
  BY OnePass DEF Sampled
<1>2. \A passes, picture : picture \in Seq(Passes) => Drawn(passes, picture) \in Seq(Passes)
  BY OnePass DEF Drawn
<1>3. QED
  BY <1>1, <1>2 DEF Draw

LEMMA ConcatNothing ==
    << >> \o << >> = << >>
OBVIOUS

(* The barriers of the first part of a list: the resolve leaves both       *)
(* surfaces as it found them, the input ends where it can be read.         *)
Begun(depth, r) ==
    CASE r = frame.src -> "PSR"
      [] r = "depth" /\ depth -> "SRV"
      [] r = "scene0" /\ frame.src # "bb" -> "RT"
      [] OTHER -> state[r]

LEMMA RecordPaths ==
    ASSUME PostInv, step = "record", NEW depth \in BOOLEAN, NEW r \in Resources
    PROVE  LET path == ResolveBarriers(r) \o InputBarriers(depth, r)
           IN  Brings(state[r], path, Begun(depth, r)) /\ (state[r] # "gone" \/ path = << >>)
<1>1. /\ frame.src \in {"bb", "ss", "resolve"} /\ frame.resolve \in BOOLEAN
      /\ frame.src = "resolve" => frame.resolve
      /\ frame.resolve => state["resolve"] = "COMMON"
      /\ state["scene0"] = sceneState[0] /\ sceneState[0] \in States
      /\ state["bb"] = "COMMON" /\ state["ss"] = "COMMON" /\ state["depth"] = "COMMON"
  <2>1. frame.src \in {"bb", "ss", "resolve"} /\ frame.resolve \in BOOLEAN /\ sceneState[0] \in States
    BY FrameFields DEF PostInv, PostShape
  <2>2. /\ frame.src = IF "ss" \in lent THEN "ss" ELSE IF frame.resolve THEN "resolve" ELSE "bb"
        /\ frame.resolve => "resolve" \in owned
        /\ "scene0" \in owned
    BY ResourcesKnown DEF PostInv, FrameKnown, Unwrapped, Recording
  <2>3. frame.resolve => state["resolve"] = "COMMON"
    BY <2>2 DEF PostInv, StatesKnown
  <2>4. state["bb"] = "COMMON" /\ state["ss"] = "COMMON" /\ state["depth"] = "COMMON"
    BY DEF PostInv, StatesKnown, Borrowed
  <2>5. state[Scene(0)] = sceneState[0]
    BY <2>2 DEF PostInv, StatesKnown, Scene
  <2>6. QED
    BY <2>1, <2>2, <2>3, <2>4, <2>5 DEF Scene
<1>2. Brings(state[r], ResolveBarriers(r), state[r])
  <2>1. CASE frame.resolve /\ r = "bb"
    <3>1. ResolveBarriers(r) = << <<"COMMON", "RESOLVE_SOURCE">>, <<"RESOLVE_SOURCE", "COMMON">> >>
      BY <2>1 DEF ResolveBarriers
    <3>2. QED
      BY <1>1, <2>1, <3>1, BringsThrice DEF States
  <2>2. CASE frame.resolve /\ r = "resolve"
    <3>1. ResolveBarriers(r) = << <<"COMMON", "RESOLVE_DEST">>, <<"RESOLVE_DEST", "COMMON">> >>
      BY <2>2 DEF ResolveBarriers
    <3>2. QED
      BY <1>1, <2>2, <3>1, BringsThrice DEF States
  <2>3. CASE ~(frame.resolve /\ r \in {"bb", "resolve"})
    <3>1. ResolveBarriers(r) = << >>
      BY <1>1, <2>3 DEF ResolveBarriers
    <3>2. QED
      BY <3>1, BringsHere
  <2>4. QED
    BY <2>1, <2>2, <2>3
<1>3. Brings(state[r], InputBarriers(depth, r), Begun(depth, r))
  <2>1. CASE r = frame.src
    <3>1. InputBarriers(depth, r) = << <<"COMMON", "PSR">> >> /\ Begun(depth, r) = "PSR" /\ state[r] = "COMMON"
      BY <1>1, <2>1 DEF InputBarriers, Begun
    <3>2. QED
      BY <3>1, BringsThrice DEF States
  <2>2. CASE r = "depth" /\ depth
    <3>1. InputBarriers(depth, r) = << <<"COMMON", "SRV">> >> /\ Begun(depth, r) = "SRV" /\ state[r] = "COMMON"
      BY <1>1, <2>2 DEF InputBarriers, Begun
    <3>2. QED
      BY <3>1, BringsThrice DEF States
  <2>3. CASE r = "scene0" /\ frame.src # "bb"
    <3>1. InputBarriers(depth, r) = SceneTo(0, "RT") /\ Begun(depth, r) = "RT"
      BY <1>1, <2>3 DEF InputBarriers, Begun
    <3>2. CASE sceneState[0] = "RT"
      BY <1>1, <2>3, <3>1, <3>2, BringsHere DEF SceneTo
    <3>3. CASE sceneState[0] # "RT"
      <4>1. InputBarriers(depth, r) = << <<sceneState[0], "RT">> >> /\ "RT" \in States
        BY <3>1, <3>3 DEF SceneTo, States
      <4>2. QED
        BY <1>1, <2>3, <3>1, <4>1, BringsThrice
    <3>4. QED
      BY <3>2, <3>3
  <2>4. CASE ~(r = frame.src) /\ ~(r = "depth" /\ depth) /\ ~(r = "scene0" /\ frame.src # "bb")
    <3>1. InputBarriers(depth, r) = << >> /\ Begun(depth, r) = state[r]
      BY <2>4 DEF InputBarriers, Begun
    <3>2. QED
      BY <3>1, BringsHere
  <2>5. QED
    BY <2>1, <2>2, <2>3, <2>4
<1>4. Brings(state[r], ResolveBarriers(r) \o InputBarriers(depth, r), Begun(depth, r))
  BY <1>2, <1>3, BringsFurther
<1>5. ASSUME state[r] = "gone" PROVE ResolveBarriers(r) = << >> /\ InputBarriers(depth, r) = << >>
  <2>1. r # "bb" /\ r # "depth" /\ r # frame.src /\ (frame.resolve => r # "resolve") /\ r # "scene0"
    BY <1>1, <1>5 DEF States
  <2>2. QED
    BY <2>1, <1>1 DEF ResolveBarriers, InputBarriers
<1>6. QED
  BY <1>4, <1>5, ConcatNothing

LEMMA RecordInv ==
    ASSUME PostAssumption, PostInv, Record
    PROVE  PostInv'
<1>1. /\ step = "record" /\ step' = "chain" /\ flight' = {} /\ raced' = raced
      /\ UNCHANGED <<device, failures, effects, gpuReady, initFmt, blitBB, owned, madeFor>>
  BY DEF Record, BeginFrame
<1> DEFINE src == frame.src
           fill == src # "bb"
           read == IF frame.resolve THEN pic["bb"] ELSE Sampled(src)
           path(depth, r) == ResolveBarriers(r) \o InputBarriers(depth, r)
<1>2. PICK depth \in BOOLEAN :
        /\ Barriers(state, [r \in Resources |-> path(depth, r)])
        /\ lent' = IF depth THEN lent \cup {"depth"} ELSE lent
        /\ sceneState' = IF fill THEN [sceneState EXCEPT ![0] = "RT"] ELSE sceneState
        /\ pic' = IF fill THEN [pic EXCEPT !["scene0"] = Draw(initFmt, read), ![src] = read] ELSE pic
        /\ frame' = [frame EXCEPT !.cur = IF fill THEN 0 ELSE 2, !.depth = depth, !.todo = enabled \cap effects]
  BY DEF Record
<1>3. /\ frame \in FrameLocals /\ src \in {"bb", "ss", "resolve"} /\ frame.resolve \in BOOLEAN /\ frame.ss \in BOOLEAN
      /\ pic \in [Resources -> Seq(Passes)] /\ sceneState \in [0 .. 1 -> States]
      /\ state \in [Resources -> States \cup {"gone"}] /\ enabled \subseteq Effects
      /\ \A r \in Owned : (state[r] = "gone") = (r \notin owned)
  BY FrameFields DEF PostInv, PostShape, PostTypeOK
<1>4. /\ gpuReady /\ "bb" \in lent /\ (frame.ss \/ "ss" \notin lent) /\ "depth" \notin lent
      /\ src = IF "ss" \in lent THEN "ss" ELSE IF frame.resolve THEN "resolve" ELSE "bb"
      /\ (frame.resolve <=> bb.samples > 1 /\ "ss" \notin lent)
      /\ frame.resolve => "resolve" \in owned
      /\ initFmt # NoFormat /\ Targets.scene \subseteq owned /\ blitBB.fmt = bb.fmt
  BY <1>1 DEF PostInv, FrameKnown, Unwrapped, Recording
<1>5. /\ frame' \in FrameLocals /\ frame'.cur = (IF fill THEN 0 ELSE 2) /\ frame'.depth = depth
      /\ frame'.todo = enabled \cap effects /\ frame'.ss = frame.ss /\ frame'.resolve = frame.resolve
      /\ frame'.src = src /\ frame'.starved = frame.starved /\ frame'.out = frame.out
  <2> DEFINE c == IF fill THEN 0 ELSE 2
             t == enabled \cap effects
  <2>1. c \in 0 .. 2 /\ t \in SUBSET Effects /\ frame' = [frame EXCEPT !.cur = c, !.depth = depth, !.todo = t]
    BY <1>2, <1>3
  <2> HIDE DEF c, t
  <2>2. /\ frame' \in FrameLocals /\ frame'.cur = c /\ frame'.depth = depth
        /\ frame'.todo = t /\ frame'.ss = frame.ss /\ frame'.resolve = frame.resolve
        /\ frame'.src = frame.src /\ frame'.starved = frame.starved /\ frame'.out = frame.out
    <3>1. frame \in FrameLocals /\ depth \in BOOLEAN
      BY <1>2, <1>3
    <3>2. frame' \in FrameLocals
      BY ONLY <2>1, <3>1 DEF FrameLocals
    <3>3. /\ frame'.cur = c /\ frame'.depth = depth
          /\ frame'.todo = t /\ frame'.ss = frame.ss /\ frame'.resolve = frame.resolve
          /\ frame'.src = frame.src /\ frame'.starved = frame.starved /\ frame'.out = frame.out
      BY ONLY <2>1, <3>1 DEF FrameLocals
    <3>4. QED
      BY <3>2, <3>3
  <2>3. QED
    BY <2>2 DEF c, t
<1>6. /\ \A r \in Resources : state'[r] = Begun(depth, r)
      /\ wrong' = wrong /\ state' \in [Resources -> States \cup {"gone"}]
  <2> DEFINE list == [r \in Resources |-> path(depth, r)]
  <2>1. \A r \in Resources : /\ Brings(state[r], path(depth, r), Begun(depth, r))
                             /\ (state[r] # "gone" \/ path(depth, r) = << >>)
    BY <1>1, RecordPaths
  <2>2. \A r \in Resources : list[r] = path(depth, r)
    OBVIOUS
  <2>3. state' = Reached(state, list) /\ wrong' = wrong \cup Mistaken(state, list)
    BY <1>2 DEF Barriers
  <2> HIDE DEF list, path
  <2>4. \A r \in Resources : Reached(state, list)[r] = Begun(depth, r) /\ r \notin Mistaken(state, list)
    <3>1. \A r \in Resources : Brings(state[r], list[r], Begun(depth, r)) /\ (state[r] # "gone" \/ list[r] = << >>)
      BY <2>1, <2>2
    <3>2. QED
      BY ONLY <3>1, ListReached
  <2>5. Mistaken(state, list) = {}
    <3>1. Mistaken(state, list) \subseteq Resources
      BY DEF Mistaken
    <3>2. QED
      BY <2>4, <3>1
  <2>6. \A r \in Resources : Begun(depth, r) \in States \cup {"gone"}
    BY <1>3 DEF Begun, States
  <2>7. Reached(state, list) = [r \in Resources |-> Reached(state, list)[r]]
    BY DEF Reached
  <2>8. state' \in [Resources -> States \cup {"gone"}]
    BY <2>3, <2>4, <2>6, <2>7
  <2>9. QED
    BY <2>3, <2>4, <2>5, <2>8
<1>7. Resources = Owned \cup Borrowed /\ Borrowed = {"bb", "ss", "depth"} /\ Targets.scene = {"scene0", "scene1"}
      /\ "resolve" \in Owned /\ "scene0" \in Owned /\ "scene1" \in Owned
      /\ "bb" \notin Owned /\ "ss" \notin Owned /\ "depth" \notin Owned
  BY ResourcesKnown
<1>8. /\ frame.resolve => state["resolve"] = "COMMON"
      /\ state["scene0"] = sceneState[0] /\ state["scene1"] = sceneState[1]
      /\ state["bb"] = "COMMON" /\ state["ss"] = "COMMON" /\ state["depth"] = "COMMON"
      /\ "resolve" \in owned => state["resolve"] = "COMMON"
  <2>1. \A i \in 0 .. 1 : Scene(i) \in owned => state[Scene(i)] = sceneState[i]
    BY DEF PostInv, StatesKnown
  <2>2. state["scene0"] = sceneState[0] /\ state["scene1"] = sceneState[1]
    <3>1. Scene(0) = "scene0" /\ Scene(1) = "scene1"
      BY DEF Scene
    <3>2. QED
      BY <1>4, <1>7, <2>1, <3>1
  <2>3. QED
    BY <1>1, <1>4, <1>7, <2>2 DEF PostInv, StatesKnown
<1>9. PostTypeOK'
  <2>1. \A r \in Owned : (state'[r] = "gone") = (r \notin owned)
    <3>1. \A r \in Owned : (Begun(depth, r) = "gone") = (state[r] = "gone")
      BY <1>3, <1>4, <1>7, <1>8 DEF Begun, States
    <3>2. QED
      BY <1>3, <1>6, <1>7, <3>1
  <2>2. lent' \subseteq Borrowed
    BY <1>2, <1>7 DEF PostInv, PostShape, PostTypeOK
  <2>3. QED
    BY <1>1, <2>1, <2>2 DEF PostInv, PostShape, PostTypeOK, device
<1>10. PostShape'
  <2>1. read \in Seq(Passes) /\ Draw(initFmt, read) \in Seq(Passes)
    <3>1. src \in Resources /\ "bb" \in Resources
      BY <1>3, <1>7
    <3>2. read \in Seq(Passes)
      BY <1>3, <3>1, PicturesKnown
    <3>3. QED
      BY <1>3, <3>2, PicturesKnown
  <2>2. pic' \in [Resources -> Seq(Passes)]
    BY <1>2, <1>3, <2>1
  <2>3. sceneState' \in [0 .. 1 -> States]
    <3>1. "RT" \in States
      BY DEF States
    <3>2. QED
      BY <1>2, <1>3, <3>1
  <2>4. QED
    BY <1>1, <1>5, <1>6, <1>9, <2>2, <2>3 DEF PostInv, PostShape, Unwrapped, device
<1>11. StatesKnown'
  <2>1. \A i \in 0 .. 1 : Scene(i) \in owned' => state'[Scene(i)] = sceneState'[i]
    <3>1. state'["scene1"] = sceneState'[1]
      <4>1. state'["scene1"] = state["scene1"]
        BY <1>3, <1>6, <1>7 DEF Begun
      <4>2. sceneState'[1] = sceneState[1]
        BY <1>2, <1>3
      <4>3. QED
        BY <1>8, <4>1, <4>2
    <3>2. state'["scene0"] = sceneState'[0]
      BY <1>2, <1>3, <1>6, <1>7, <1>8 DEF Begun
    <3>3. QED
      BY <3>1, <3>2 DEF Scene
  <2>2. \A r \in Targets.Ao \cup Targets.Smaa \cup Targets.Cmaa2 : r \in owned' => state'[r] = FreshState(r)
    <3>1. \A r \in Targets.Ao \cup Targets.Smaa \cup Targets.Cmaa2 :
            r \in Resources /\ r \notin {"bb", "ss", "resolve", "depth", "scene0"}
      BY ResourcesKnown
    <3>2. \A r \in Targets.Ao \cup Targets.Smaa \cup Targets.Cmaa2 : state'[r] = state[r]
      BY <1>3, <1>6, <3>1 DEF Begun
    <3>3. QED
      BY <1>1, <3>2 DEF PostInv, StatesKnown
  <2>3. "resolve" \in owned' => state'["resolve"] = IF step' = "chain" /\ frame'.resolve THEN "PSR" ELSE "COMMON"
    BY <1>1, <1>3, <1>4, <1>5, <1>6, <1>7, <1>8 DEF Begun
  <2>4. state'["bb"] = IF frame'.src = "bb" THEN "PSR" ELSE "COMMON"
    BY <1>5, <1>6, <1>7, <1>8 DEF Begun
  <2>5. state'["ss"] = IF "ss" \in lent' THEN "PSR" ELSE "COMMON"
    BY <1>2, <1>4, <1>6, <1>7, <1>8 DEF Begun
  <2>6. state'["depth"] = IF "depth" \in lent' THEN "SRV" ELSE "COMMON"
    BY <1>2, <1>3, <1>4, <1>6, <1>7, <1>8 DEF Begun
  <2>7. \A r \in Borrowed : state'[r] = IF step' = "chain" THEN InUse(r)' ELSE "COMMON"
    BY <1>1, <1>7, <2>4, <2>5, <2>6 DEF InUse
  <2>8. QED
    BY <2>1, <2>2, <2>3, <2>7 DEF StatesKnown
<1>12. FrameKnown'
  <2>1. ("ss" \in lent' <=> "ss" \in lent) /\ "bb" \in lent'
    BY <1>2, <1>4
  <2>2. QED
    BY <1>1, <1>4, <1>5, <2>1 DEF FrameKnown, Unwrapped, Recording, device
<1>13. FlightKnown' /\ WrongKnown'
  BY <1>1, <1>6 DEF PostInv, FlightKnown, WrongKnown
<1>14. PictureKnown'
  <2>1. ASSUME Meant' PROVE pic'[ChainSrc(frame.cur)'] = <<"world">>
    <3>1. ~frame.starved /\ bb.fmt = initFmt /\ (frame.ss => src = "ss")
      BY <1>1, <1>5, <2>1 DEF Meant, device
    <3>2. pic[World] = <<"world">>
      BY <1>1 DEF PostInv, PictureKnown, Unwrapped
    <3>3. CASE ~fill
      <4>1. ChainSrc(frame.cur)' = "bb" /\ World = "bb" /\ pic' = pic
        BY <1>2, <1>5, <3>1, <3>3 DEF ChainSrc, World
      <4>2. QED
        BY <3>2, <4>1
    <3>4. CASE fill
      <4>1. ChainSrc(frame.cur)' = "scene0"
        BY <1>5, <3>4 DEF ChainSrc, Scene
      <4>2. read = <<"world">>
        BY <1>3, <1>4, <3>1, <3>2, <3>4 DEF World, Sampled
      <4>3. Draw(initFmt, read) = read
        BY <3>1, DrawnInFormat
      <4>4. "scene0" # src /\ "scene0" \in Resources
        BY <1>3, <1>7
      <4>5. pic'["scene0"] = Draw(initFmt, read)
        BY <1>2, <1>3, <3>4, <4>4
      <4>6. QED
        BY <4>1, <4>2, <4>3, <4>5
    <3>5. QED
      BY <3>3, <3>4
  <2>2. (PassesShown \ frame.todo)' = {}
    BY <1>1, <1>5 DEF PassesShown, device
  <2>3. Meant' => Shows(pic'[ChainSrc(frame.cur)'], {})
    BY <2>1, ShowsTheWorld
  <2>4. QED
    BY <1>1, <2>2, <2>3 DEF PictureKnown, ShowsThisFrame, Unwrapped
<1>15. QED
  BY <1>10, <1>11, <1>12, <1>13, <1>14 DEF PostInv

(* The passes of an effect leave its targets in the state they found them  *)
(* in, if they found them in the state they are made in.                   *)
LEMMA PassPaths ==
    ASSUME NEW e \in Effects, NEW r \in Resources
    PROVE  /\ Brings(FreshState(r), Pass(e, r), FreshState(r))
           /\ Pass(e, r) # << >> => e \in Groups /\ r \in Targets[e]
           /\ e = "Ao" /\ Pass(e, r) # << >> => frame.depth
<1>1. "COMMON" \in States /\ "RT" \in States /\ "PSR" \in States /\ "NPSR" \in States /\ "UAV" \in States
      /\ "INDIRECT" \in States
  BY DEF States
<1>2. CASE e = "Fxaa"
  <2>1. Pass(e, r) = << >>
    BY <1>2 DEF Pass, Fxaa
  <2>2. QED
    BY <1>2, <2>1, BringsHere
<1>3. CASE e = "Smaa"
  <2>1. Pass(e, r) = Smaa(r) /\ Targets[e] = Targets.Smaa /\ e \in Groups /\ Targets.Smaa = {"edges", "blend"}
    BY <1>3, ResourcesKnown DEF Pass
  <2>2. CASE r \in {"edges", "blend"}
    <3>1. FreshState(r) = "COMMON"
      BY <2>2 DEF FreshState
    <3>2. Smaa(r) = << <<"COMMON", "RT">>, <<"RT", "PSR">>, <<"PSR", "COMMON">> >>
      BY <2>1, <2>2 DEF Smaa
    <3>3. Brings("COMMON", << <<"COMMON", "RT">>, <<"RT", "PSR">>, <<"PSR", "COMMON">> >>, "COMMON")
      BY <1>1, BringsThrice
    <3>4. QED
      BY <1>3, <2>1, <2>2, <3>1, <3>2, <3>3
  <2>3. CASE r \notin {"edges", "blend"}
    <3>1. Pass(e, r) = << >>
      BY <2>1, <2>3 DEF Smaa
    <3>2. QED
      BY <1>3, <3>1, BringsHere
  <2>4. QED
    BY <2>2, <2>3
<1>4. CASE e = "Cmaa2"
  <2>1. Pass(e, r) = Cmaa2(r) /\ Targets[e] = Targets.Cmaa2 /\ e \in Groups
        /\ "color" \in Targets.Cmaa2 /\ "indirect" \in Targets.Cmaa2
    BY <1>4, ResourcesKnown DEF Pass
  <2>2. CASE r = "color"
    <3>1. FreshState(r) = "COMMON"
      BY <2>2 DEF FreshState
    <3>2. Cmaa2(r) = << <<"COMMON", "RT">>, <<"RT", "NPSR">>, <<"NPSR", "UAV">>, <<"UAV", "PSR">>, <<"PSR", "COMMON">> >>
      BY <2>2 DEF Cmaa2
    <3>3. Brings("COMMON", << <<"COMMON", "RT">>, <<"RT", "NPSR">>, <<"NPSR", "UAV">>, <<"UAV", "PSR">>,
                             <<"PSR", "COMMON">> >>, "COMMON")
      BY <1>1, BringsFar
    <3>4. QED
      BY <1>4, <2>1, <2>2, <3>1, <3>2, <3>3
  <2>3. CASE r = "indirect"
    <3>1. FreshState(r) = "UAV"
      BY <2>3 DEF FreshState
    <3>2. Cmaa2(r) = << <<"UAV", "INDIRECT">>, <<"INDIRECT", "UAV">>, <<"UAV", "INDIRECT">>, <<"INDIRECT", "UAV">> >>
      BY <2>3 DEF Cmaa2
    <3>3. Brings("UAV", << <<"UAV", "INDIRECT">>, <<"INDIRECT", "UAV">>, <<"UAV", "INDIRECT">>, <<"INDIRECT", "UAV">> >>,
                "UAV")
      BY <1>1, BringsFar
    <3>4. QED
      BY <1>4, <2>1, <2>3, <3>1, <3>2, <3>3
  <2>4. CASE r # "color" /\ r # "indirect"
    <3>1. Pass(e, r) = << >>
      BY <2>1, <2>4 DEF Cmaa2
    <3>2. QED
      BY <1>4, <3>1, BringsHere
  <2>5. QED
    BY <2>2, <2>3, <2>4
<1>5. CASE e = "Ao"
  <2>1. Pass(e, r) = Ao(r) /\ Targets[e] = Targets.Ao /\ e \in Groups /\ Targets.Ao = {"ao", "aoB"}
    BY <1>5, ResourcesKnown DEF Pass
  <2>2. CASE r = "ao" /\ frame.depth
    <3>1. FreshState(r) = "COMMON"
      BY <2>2 DEF FreshState
    <3>2. Ao(r) = << <<"COMMON", "UAV">>, <<"UAV", "NPSR">>, <<"NPSR", "COMMON">> >>
      BY <2>2 DEF Ao
    <3>3. Brings("COMMON", << <<"COMMON", "UAV">>, <<"UAV", "NPSR">>, <<"NPSR", "COMMON">> >>, "COMMON")
      BY <1>1, BringsThrice
    <3>4. QED
      BY <2>1, <2>2, <3>1, <3>2, <3>3
  <2>3. CASE r = "aoB" /\ frame.depth
    <3>1. FreshState(r) = "COMMON"
      BY <2>3 DEF FreshState
    <3>2. Ao(r) = << <<"COMMON", "UAV">>, <<"UAV", "PSR">>, <<"PSR", "COMMON">> >>
      BY <2>3 DEF Ao
    <3>3. Brings("COMMON", << <<"COMMON", "UAV">>, <<"UAV", "PSR">>, <<"PSR", "COMMON">> >>, "COMMON")
      BY <1>1, BringsThrice
    <3>4. QED
      BY <2>1, <2>3, <3>1, <3>2, <3>3
  <2>4. CASE ~(r = "ao" /\ frame.depth) /\ ~(r = "aoB" /\ frame.depth)
    <3>1. Pass(e, r) = << >>
      BY <2>1, <2>4 DEF Ao
    <3>2. QED
      BY <3>1, BringsHere
  <2>5. QED
    BY <2>2, <2>3, <2>4
<1>6. QED
  BY <1>2, <1>3, <1>4, <1>5, ResourcesKnown

(* Where the barriers of an effect lead: the picture it draws ends as a    *)
(* target, the one it reads where it can be read.                          *)
Passed(st, r) ==
    CASE r = Scene(NextTarget(frame.cur)) -> "RT"
      [] frame.cur # 2 /\ r = Scene(frame.cur) -> "PSR"
      [] OTHER -> st[r]

LEMMA SceneToBrings ==
    ASSUME sceneState \in [0 .. 1 -> States], NEW i \in 0 .. 1, NEW s \in States
    PROVE  Brings(sceneState[i], SceneTo(i, s), s)
<1>1. CASE sceneState[i] = s
  BY <1>1, BringsHere DEF SceneTo
<1>2. CASE sceneState[i] # s
  <2>1. SceneTo(i, s) = << <<sceneState[i], s>> >> /\ sceneState[i] \in States
    BY <1>2 DEF SceneTo
  <2>2. QED
    BY <2>1, BringsThrice
<1>3. QED
  BY <1>1, <1>2

LEMMA EffectPaths ==
    ASSUME PostInv, step = "chain", NEW e \in Effects, NEW draws \in BOOLEAN, NEW st, NEW r \in Resources,
           \A i \in 0 .. 1 : st[Scene(i)] = sceneState[i],
           r \notin Targets.scene /\ draws /\ Pass(e, r) # << >> => st[r] = FreshState(r)
    PROVE  LET path == EffectBarriers(e, draws, r)
           IN  Brings(st[r], path, Passed(st, r)) /\ (st[r] # "gone" \/ path = << >>)
<1>1. /\ frame.cur \in 0 .. 2 /\ sceneState \in [0 .. 1 -> States]
      /\ "RT" \in States /\ "PSR" \in States /\ "gone" \notin States
  BY FrameFields DEF PostInv, PostShape, States
<1> DEFINE dst == NextTarget(frame.cur)
           path == EffectBarriers(e, draws, r)
<1>2. dst \in 0 .. 1 /\ dst # frame.cur /\ (frame.cur # 2 => frame.cur \in 0 .. 1)
  BY <1>1 DEF NextTarget
<1>3. /\ \A i \in 0 .. 1 : Scene(i) \in Targets.scene
      /\ frame.cur # 2 => Scene(dst) # Scene(frame.cur)
      /\ \A i \in 0 .. 1 : st[Scene(i)] # "gone"
  BY <1>1, <1>2, ResourcesKnown DEF Scene, NextTarget
<1>4. CASE r = Scene(dst)
  <2>1. path = SceneTo(dst, "RT") /\ Passed(st, r) = "RT" /\ st[r] = sceneState[dst]
    BY <1>2, <1>3, <1>4 DEF EffectBarriers, Passed
  <2>2. QED
    BY <1>1, <1>2, <1>3, <1>4, <2>1, SceneToBrings
<1>5. CASE frame.cur # 2 /\ r = Scene(frame.cur)
  <2>1. path = SceneTo(frame.cur, "PSR") /\ Passed(st, r) = "PSR" /\ st[r] = sceneState[frame.cur]
    BY <1>2, <1>3, <1>5 DEF EffectBarriers, Passed
  <2>2. QED
    BY <1>1, <1>2, <1>3, <1>5, <2>1, SceneToBrings
<1>6. CASE r # Scene(dst) /\ ~(frame.cur # 2 /\ r = Scene(frame.cur))
  <2>1. Passed(st, r) = st[r]
    BY <1>6 DEF Passed
  <2>2. CASE draws /\ r \notin Targets.scene
    <3>1. path = Pass(e, r)
      BY <1>6, <2>2 DEF EffectBarriers
    <3>2. CASE path = << >>
      BY <2>1, <3>2, BringsHere
    <3>3. CASE path # << >>
      <4>1. st[r] = FreshState(r) /\ FreshState(r) # "gone"
        BY <2>2, <3>1, <3>3 DEF FreshState
      <4>2. QED
        BY <2>1, <3>1, <4>1, PassPaths
    <3>4. QED
      BY <3>2, <3>3
  <2>3. CASE ~(draws /\ r \notin Targets.scene)
    <3>1. path = << >>
      BY <1>6, <2>3 DEF EffectBarriers
    <3>2. QED
      BY <2>1, <3>1, BringsHere
  <2>4. QED
    BY <2>2, <2>3
<1>7. QED
  BY <1>4, <1>5, <1>6

LEMMA RenderEffectInv ==
    ASSUME PostAssumption, PostInv, NEW e \in Effects, RenderEffect(e)
    PROVE  PostInv'
<1> DEFINE mine == IF e \in Groups THEN Targets[e] ELSE {}
           remade == IF Fits(e) THEN {} ELSE mine
           fresh == [r \in Resources |-> IF r \notin remade THEN state[r]
                                        ELSE IF r \in owned' THEN FreshState(r) ELSE "gone"]
           src == ChainSrc(frame.cur)
           dst == NextTarget(frame.cur)
           draws == Draws(e, owned')
           done == IF e = "Ao" /\ ~frame.depth THEN Sampled(src) ELSE Append(Sampled(src), e)
           list == [r \in Resources |-> EffectBarriers(e, draws, r)]
           OfEffects == Targets.Ao \cup Targets.Smaa \cup Targets.Cmaa2
<1>1. /\ step = "chain" /\ e \in frame.todo /\ \A d \in frame.todo : Chain[e] <= Chain[d]
      /\ UNCHANGED <<device, effects, gpuReady, initFmt, blitBB, lent, flight, step>>
  BY DEF RenderEffect
<1>2. PICK failing \in SUBSET mine :
        /\ IF Fits(e) THEN failing = {} /\ UNCHANGED <<failures, owned, madeFor, raced>>
           ELSE CreateTargets(e, bb.size, failing, flight)
        /\ Barriers(fresh, list)
        /\ sceneState' = [i \in 0..1 |-> IF i = dst THEN "RT" ELSE IF i = frame.cur THEN "PSR" ELSE sceneState[i]]
        /\ pic' = IF draws THEN [pic EXCEPT ![Scene(dst)] = Drawn(EffectInit(e, initFmt).passes, done)] ELSE pic
        /\ frame' = [frame EXCEPT !.cur = dst, !.todo = @ \ {e}, !.starved = @ \/ ~draws]
  BY DEF RenderEffect
<1>3. /\ frame \in FrameLocals /\ frame.cur \in 0 .. 2 /\ frame.src \in {"bb", "ss", "resolve"} /\ frame.depth \in BOOLEAN
      /\ pic \in [Resources -> Seq(Passes)] /\ sceneState \in [0 .. 1 -> States]
      /\ state \in [Resources -> States \cup {"gone"}] /\ failures \in 0 .. MaxFailures /\ owned \subseteq Owned
      /\ \A r \in Owned : (state[r] = "gone") = (r \notin owned)
  BY FrameFields DEF PostInv, PostShape, PostTypeOK
<1>4. /\ gpuReady /\ "bb" \in lent /\ (frame.ss \/ "ss" \notin lent)
      /\ frame.src = IF "ss" \in lent THEN "ss" ELSE IF frame.resolve THEN "resolve" ELSE "bb"
      /\ (frame.resolve <=> bb.samples > 1 /\ "ss" \notin lent)
      /\ frame.resolve => "resolve" \in owned
      /\ initFmt # NoFormat /\ Targets.scene \subseteq owned /\ blitBB.fmt = bb.fmt
      /\ flight = {} /\ (frame.cur = 2 => frame.src = "bb")
      /\ frame.todo \subseteq enabled \cap effects
  BY <1>1 DEF PostInv, FrameKnown, Unwrapped, Recording
<1>5. dst \in 0 .. 1 /\ dst # frame.cur /\ draws \in BOOLEAN /\ (frame.cur # 2 => frame.cur \in 0 .. 1)
  BY <1>3 DEF NextTarget, Draws
<1>6. /\ frame' \in FrameLocals /\ frame'.cur = dst /\ frame'.todo = frame.todo \ {e}
      /\ frame'.starved = (frame.starved \/ ~draws)
      /\ frame'.ss = frame.ss /\ frame'.depth = frame.depth
      /\ frame'.resolve = frame.resolve /\ frame'.src = frame.src /\ frame'.out = frame.out
  <2> DEFINE c == NextTarget(frame.cur)
             b == ~Draws(e, owned')
  <2>1. c \in 0 .. 2 /\ b \in BOOLEAN /\ frame \in FrameLocals
        /\ frame' = [frame EXCEPT !.cur = c, !.todo = @ \ {e}, !.starved = @ \/ b]
    BY <1>2, <1>3, <1>5
  <2>2. c = dst /\ b = ~draws
    OBVIOUS
  <2> HIDE DEF c, b, dst, draws
  <2>3. frame' \in FrameLocals
    BY ONLY <2>1 DEF FrameLocals
  <2>4. /\ frame'.cur = c /\ frame'.todo = frame.todo \ {e} /\ frame'.starved = (frame.starved \/ b)
        /\ frame'.ss = frame.ss /\ frame'.depth = frame.depth
        /\ frame'.resolve = frame.resolve /\ frame'.src = frame.src /\ frame'.out = frame.out
    BY ONLY <2>1 DEF FrameLocals
  <2>5. QED
    BY <2>2, <2>3, <2>4
<1>7. /\ Targets.scene = {"scene0", "scene1"} /\ Targets.Ao = {"ao", "aoB"} /\ OfEffects \subseteq Owned
      /\ Owned \subseteq Resources /\ OfEffects \cap {"scene0", "scene1", "resolve", "bb", "ss", "depth"} = {}
      /\ Borrowed = {"bb", "ss", "depth"} /\ Borrowed \subseteq Resources /\ Targets.scene \subseteq Resources
      /\ Borrowed \cap Owned = {} /\ Resources = Owned \cup Borrowed
      /\ "resolve" \in Resources
      /\ \A r \in Owned : r \in OfEffects \cup Targets.scene \cup {"resolve"}
  BY ResourcesKnown
<1>8. /\ remade \subseteq OfEffects
      /\ e \in Groups => mine \in {Targets.Ao, Targets.Smaa, Targets.Cmaa2} /\ Targets[e] \subseteq OfEffects
      /\ e = "Ao" => e \in Groups /\ mine = Targets.Ao
      /\ ~Fits(e) => e \in Groups
  <2>1. e = "Fxaa" => Fits(e) /\ e \notin Groups
    BY ResourcesKnown DEF Fits
  <2>2. e = "Ao" => e \in Groups /\ Targets[e] = Targets.Ao
    BY ResourcesKnown
  <2>3. e = "Smaa" => e \in Groups /\ Targets[e] = Targets.Smaa
    BY ResourcesKnown
  <2>4. e = "Cmaa2" => e \in Groups /\ Targets[e] = Targets.Cmaa2
    BY ResourcesKnown
  <2>5. e \in {"Ao", "Fxaa", "Smaa", "Cmaa2"}
    BY ResourcesKnown
  <2>6. QED
    BY <2>1, <2>2, <2>3, <2>4, <2>5
<1>9. /\ failures' \in 0 .. MaxFailures /\ (failures > 0 => failures' > 0)
      /\ failing # {} => failures' > 0
      /\ owned' = (owned \ remade) \cup (remade \ failing) /\ failing \subseteq remade
      /\ raced' = raced
  <2>1. CASE Fits(e)
    BY <1>2, <1>3, <2>1
  <2>2. CASE ~Fits(e)
    <3>1. e \in Groups /\ mine = Targets[e] /\ remade = mine
      BY <1>8, <2>2
    <3>2. CreateTargets(e, bb.size, failing, flight) /\ owned \cap Targets[e] \cap flight = {}
      BY <1>2, <1>4, <2>2
    <3>3. /\ failures' \in 0 .. MaxFailures /\ (failures > 0 => failures' > 0)
          /\ failing # {} => failures' > 0
          /\ owned' = (owned \ Targets[e]) \cup (Targets[e] \ failing)
          /\ raced' = raced
      BY <1>2, <1>3, <3>1, <3>2, TargetsMade
    <3>4. QED
      BY <1>2, <3>1, <3>3
  <2>3. QED
    BY <2>1, <2>2
<1> HIDE DEF remade, mine
<1>10. /\ \A r \in Resources \ remade : fresh[r] = state[r] /\ (r \in owned' <=> r \in owned)
       /\ \A r \in remade : fresh[r] = IF r \in owned' THEN FreshState(r) ELSE "gone"
       /\ owned' \subseteq Owned
  BY <1>3, <1>7, <1>8, <1>9
<1>11. /\ \A i \in 0 .. 1 : Scene(i) \in Targets.scene /\ fresh[Scene(i)] = sceneState[i]
  <2>1. \A i \in 0 .. 1 : Scene(i) \in Targets.scene /\ Scene(i) \in Resources \ remade /\ Scene(i) \in owned
    BY <1>4, <1>7, <1>8 DEF Scene
  <2>2. QED
    BY <1>10, <2>1 DEF PostInv, StatesKnown
<1>12. \A r \in OfEffects : fresh[r] = IF r \in owned' THEN FreshState(r) ELSE "gone"
  <2>1. ASSUME NEW r \in OfEffects PROVE fresh[r] = IF r \in owned' THEN FreshState(r) ELSE "gone"
    <3>1. CASE r \in remade
      BY <1>10, <3>1
    <3>2. CASE r \notin remade
      <4>1. fresh[r] = state[r] /\ (r \in owned' <=> r \in owned)
        BY <1>7, <1>10, <2>1, <3>2
      <4>2. r \in owned => state[r] = FreshState(r)
        BY <2>1 DEF PostInv, StatesKnown
      <4>3. r \notin owned => state[r] = "gone"
        BY <1>3, <1>7, <2>1
      <4>4. QED
        BY <4>1, <4>2, <4>3
    <3>3. QED
      BY <3>1, <3>2
  <2>2. QED
    BY <2>1
<1>13. fresh \in [Resources -> States \cup {"gone"}]
  <2>1. \A r : FreshState(r) \in States
    BY DEF FreshState, States
  <2>2. QED
    BY <1>3, <2>1
<1> HIDE DEF fresh
<1>14. ASSUME NEW r \in Resources,
              r \notin Targets.scene /\ draws /\ Pass(e, r) # << >>, fresh[r] # FreshState(r)
       PROVE  /\ fresh[r] = "gone" /\ e = "Ao" /\ r \in Targets.Ao /\ r \notin owned' /\ failures' > 0
  <2>1. e \in Groups /\ r \in Targets[e] /\ (e = "Ao" => frame.depth)
    BY <1>14, PassPaths
  <2>2. r \in OfEffects
    BY <1>8, <2>1
  <2>3. fresh[r] = "gone" /\ r \notin owned'
    BY <1>12, <1>14, <2>2
  <2>4. e = "Ao"
    BY <1>14, <2>1, <2>3, ResourcesKnown DEF Draws
  <2>5. r \in Targets.Ao
    BY <2>1, <2>4, ResourcesKnown
  <2>6. failures' > 0
    <3>1. CASE r \in remade
      BY <1>9, <2>3, <3>1
    <3>2. CASE r \notin remade
      <4>1. r \notin owned
        BY <1>10, <1>14, <2>3, <3>2
      <4>2. Fits(e)
        BY <1>8, <2>4, <2>5, <3>2 DEF remade
      <4>3. "ao" \in owned
        BY <2>1, <2>4, <4>2 DEF Fits, AoTargetsFit
      <4>4. r = "aoB"
        BY <1>7, <2>5, <4>1, <4>3
      <4>5. QED
        BY <1>9, <4>1, <4>3, <4>4 DEF PostInv, WrongKnown
    <3>3. QED
      BY <3>1, <3>2
  <2>7. QED
    BY <2>3, <2>4, <2>5, <2>6
<1>15. /\ \A r \in Resources : state'[r] = Passed(fresh, r)
       /\ wrong' \subseteq Targets.Ao /\ (wrong' # {} => failures' > 0)
       /\ state' \in [Resources -> States \cup {"gone"}]
  <2>1. state' = Reached(fresh, list) /\ wrong' = wrong \cup Mistaken(fresh, list)
    BY <1>2 DEF Barriers
  <2>2. \A r \in Resources : list[r] = EffectBarriers(e, draws, r)
    OBVIOUS
  <2> HIDE DEF list, draws
  <2>3. ASSUME NEW r \in Resources
        PROVE  /\ Reached(fresh, list)[r] = Passed(fresh, r)
               /\ r \in Mistaken(fresh, list) => r \in Targets.Ao /\ failures' > 0
    <3>1. CASE r \notin Targets.scene /\ draws /\ Pass(e, r) # << >> => fresh[r] = FreshState(r)
      <4>1. /\ Brings(fresh[r], EffectBarriers(e, draws, r), Passed(fresh, r))
            /\ (fresh[r] # "gone" \/ EffectBarriers(e, draws, r) = << >>)
        BY <1>1, <1>5, <1>11, <3>1, EffectPaths
      <4>2. Brings(fresh[r], list[r], Passed(fresh, r)) /\ (fresh[r] # "gone" \/ list[r] = << >>)
        BY <2>2, <4>1
      <4>3. QED
        BY ONLY <4>2, ListReached, r \in Resources
    <3>2. CASE ~(r \notin Targets.scene /\ draws /\ Pass(e, r) # << >> => fresh[r] = FreshState(r))
      <4>1. fresh[r] = "gone" /\ r \in Targets.Ao /\ failures' > 0
        BY <1>14, <3>2
      <4>2. Reached(fresh, list)[r] = "gone"
        BY <4>1, GoneStaysGone
      <4>3. Passed(fresh, r) = fresh[r]
        BY <1>5, <1>11, <3>2 DEF Passed
      <4>4. QED
        BY <4>1, <4>2, <4>3
    <3>3. QED
      BY <3>1, <3>2
  <2>4. Mistaken(fresh, list) \subseteq Resources
    BY DEF Mistaken
  <2>5. wrong' \subseteq Targets.Ao /\ (wrong' # {} => failures' > 0)
    BY <1>9, <2>1, <2>3, <2>4 DEF PostInv, WrongKnown
  <2>6. \A r \in Resources : Passed(fresh, r) \in States \cup {"gone"}
    BY <1>13 DEF Passed, States
  <2>7. Reached(fresh, list) = [r \in Resources |-> Reached(fresh, list)[r]]
    BY DEF Reached
  <2>8. state' \in [Resources -> States \cup {"gone"}]
    BY <2>1, <2>3, <2>6, <2>7
  <2>9. QED
    BY <2>1, <2>3, <2>5, <2>8
<1> HIDE DEF list
<1>16. \A r \in Resources \ Targets.scene : state'[r] = fresh[r]
  BY <1>5, <1>11, <1>15 DEF Passed
<1>17. \A i \in 0 .. 1 : state'[Scene(i)] = sceneState'[i] /\ sceneState'[i] \in States
  <2>1. ASSUME NEW i \in 0 .. 1 PROVE state'[Scene(i)] = sceneState'[i] /\ sceneState'[i] \in States
    <3>1. sceneState'[i] = IF i = dst THEN "RT" ELSE IF i = frame.cur THEN "PSR" ELSE sceneState[i]
      BY <1>2
    <3>2. state'[Scene(i)] = Passed(fresh, Scene(i))
      BY <1>7, <1>11, <1>15
    <3>3. \A j \in 0 .. 1 : Scene(i) = Scene(j) <=> i = j
      BY DEF Scene
    <3>4. QED
      BY <1>3, <1>5, <1>11, <3>1, <3>2, <3>3 DEF Passed, States
  <2>2. QED
    BY <2>1
<1>18. PostTypeOK'
  <2>1. \A r \in Owned : (state'[r] = "gone") = (r \notin owned')
    <3>1. ASSUME NEW r \in Owned PROVE (state'[r] = "gone") = (r \notin owned')
      <4>1. CASE r \in Targets.scene
        <5>1. PICK i \in 0 .. 1 : r = Scene(i)
          <6>1. Scene(0) = "scene0" /\ Scene(1) = "scene1"
            BY DEF Scene
          <6>2. QED
            BY <1>7, <4>1, <6>1
        <5>2. state'[r] # "gone"
          BY <1>17, <5>1 DEF States
        <5>3. r \in owned'
          BY <1>4, <1>7, <1>8, <1>9, <4>1
        <5>4. QED
          BY <5>2, <5>3
      <4>2. CASE r \in OfEffects
        <5>1. state'[r] = IF r \in owned' THEN FreshState(r) ELSE "gone"
          BY <1>7, <1>12, <1>16, <4>2
        <5>2. QED
          BY <5>1 DEF FreshState
      <4>3. CASE r = "resolve"
        <5>1. r \in Resources \ remade /\ r \notin Targets.scene
          BY <1>7, <1>8, <4>3
        <5>2. QED
          BY <1>3, <1>10, <1>16, <5>1
      <4>4. QED
        BY <1>7, <4>1, <4>2, <4>3
    <3>2. QED
      BY <3>1
  <2>2. QED
    BY <1>1, <1>9, <1>10, <2>1 DEF PostInv, PostShape, PostTypeOK, device
<1>19. src \in Resources /\ Scene(dst) \in Resources
  BY <1>5, <1>7, <1>11 DEF ChainSrc
<1>20. Sampled(src) \in Seq(Passes)
  BY <1>3, <1>19, PicturesKnown
<1>21. PostShape'
  <2>1. e \in Passes
    BY DEF Passes
  <2>2. Append(Sampled(src), e) \in Seq(Passes)
    BY <1>20, <2>1
  <2>3. done \in Seq(Passes)
    BY <1>20, <2>2
  <2>4. Drawn(EffectInit(e, initFmt).passes, done) \in Seq(Passes)
    BY <1>3, <2>3, PicturesKnown
  <2>5. pic' \in [Resources -> Seq(Passes)]
    BY <1>2, <1>3, <2>4
  <2>6. sceneState' \in [0 .. 1 -> States]
    BY <1>2, <1>17
  <2>7. QED
    BY <1>1, <1>6, <1>15, <1>18, <2>5, <2>6 DEF PostInv, PostShape, Unwrapped, device
<1>22. StatesKnown'
  <2>1. \A r \in OfEffects : r \in owned' => state'[r] = FreshState(r)
    <3>1. \A r \in OfEffects : r \in Resources \ Targets.scene
      BY <1>7
    <3>2. QED
      BY <1>12, <1>16, <3>1
  <2>2. \A r \in Borrowed \cup {"resolve"} : state'[r] = state[r] /\ (r \in owned' <=> r \in owned)
    <3>1. \A r \in Borrowed \cup {"resolve"} : r \in Resources \ Targets.scene /\ r \in Resources \ remade
      BY <1>7, <1>8
    <3>2. QED
      BY <1>10, <1>16, <3>1
  <2>3. \A r \in Borrowed : InUse(r)' = InUse(r)
    BY <1>1, <1>6 DEF InUse
  <2>4. "resolve" \in owned' => state'["resolve"] = IF step' = "chain" /\ frame'.resolve THEN "PSR" ELSE "COMMON"
    BY <1>1, <1>6, <2>2 DEF PostInv, StatesKnown
  <2>5. \A r \in Borrowed : state'[r] = IF step' = "chain" THEN InUse(r)' ELSE "COMMON"
    BY <1>1, <2>2, <2>3 DEF PostInv, StatesKnown
  <2>6. QED
    BY <1>17, <2>1, <2>4, <2>5 DEF StatesKnown
<1>23. Targets.scene \subseteq owned' /\ (frame.resolve => "resolve" \in owned')
  BY <1>4, <1>7, <1>8, <1>9
<1>24. FrameKnown'
  BY <1>1, <1>4, <1>5, <1>6, <1>23 DEF FrameKnown, Unwrapped, Recording, device
<1>25. FlightKnown'
  BY <1>1, <1>4, <1>9 DEF PostInv, FlightKnown
<1>26. WrongKnown'
  <2>1. ASSUME "ao" \in owned', "aoB" \notin owned' PROVE failures' > 0
    <3>1. CASE "aoB" \in remade
      BY <1>9, <2>1, <3>1
    <3>2. CASE "aoB" \notin remade
      <4>1. "ao" \notin remade
        BY <1>8, <3>2, ResourcesKnown DEF remade
      <4>2. QED
        BY <1>9, <2>1, <3>2, <4>1 DEF PostInv, WrongKnown
    <3>3. QED
      BY <3>1, <3>2
  <2>2. QED
    BY <1>15, <2>1 DEF WrongKnown
<1>27. ASSUME Meant'
       PROVE  /\ Shows(pic'[ChainSrc(frame.cur)'], (PassesShown \ frame.todo)')
              /\ \A d \in (PassesShown \ frame.todo)', f \in frame'.todo : Chain[d] < Chain[f]
  <2> DEFINE before == PassesShown \ frame.todo
  <2>1. ~frame.starved /\ bb.fmt = initFmt /\ (frame.ss => frame.src = "ss") /\ draws
    BY <1>1, <1>5, <1>6, <1>27, FrameFields DEF Meant, device
  <2>2. Meant
    BY <2>1 DEF Meant
  <2>3. Shows(pic[src], before) /\ \A d \in before, f \in frame.todo : Chain[d] < Chain[f]
    BY <1>1, <2>2 DEF PostInv, PictureKnown
  <2>4. Sampled(src) = pic[src]
    <3>1. CASE frame.cur = 2
      <4>1. bb.samples \in Nat /\ ~(bb.samples > 1)
        BY <1>4, <3>1 DEF PostAssumption, PostInv, PostShape
      <4>2. QED
        BY <3>1, <4>1 DEF ChainSrc, Sampled
    <3>2. CASE frame.cur # 2
      <4>1. src # "bb"
        BY <3>2 DEF ChainSrc, Scene
      <4>2. QED
        BY <4>1 DEF Sampled
    <3>3. QED
      BY <3>1, <3>2
  <2>5. pic'[Scene(dst)] = done
    <3>1. Drawn(EffectInit(e, initFmt).passes, done) = done
      <4>1. Drawn(EffectInit(e, bb.fmt).passes, done) = done
        BY DrawnInFormat
      <4>2. QED
        BY <2>1, <4>1
    <3>2. QED
      BY <1>2, <1>3, <1>19, <2>1, <3>1
  <2>6. ChainSrc(frame.cur)' = Scene(dst)
    BY <1>5, <1>6 DEF ChainSrc
  <2>7. PassesShown' = PassesShown /\ PassesShown \subseteq Effects
    BY <1>1, <1>6 DEF PassesShown, device, PostInv, PostShape, PostTypeOK
  <2>8. e \in PassesShown <=> ~(e = "Ao" /\ ~frame.depth)
    BY <1>1, <1>4 DEF PassesShown
  <2>9. \A d \in before : Chain[d] < Chain[e]
    BY <1>1, <2>3
  <2>10. \A f \in frame.todo \ {e} : Chain[e] < Chain[f]
    <3>1. \A d, f \in Effects : d # f => Chain[d] # Chain[f]
      BY ResourcesKnown DEF Chain
    <3>2. \A f \in Effects : Chain[f] \in Nat
      BY ResourcesKnown DEF Chain
    <3>3. frame.todo \subseteq Effects
      BY <1>3, FrameFields
    <3>4. QED
      BY <1>1, <3>1, <3>2, <3>3
  <2>11. CASE e \in PassesShown
    <3>1. (PassesShown \ frame.todo)' = before \cup {e}
      BY <1>1, <1>6, <2>7, <2>11
    <3>2. done = Append(pic[src], e)
      BY <2>4, <2>8, <2>11
    <3>3. pic[src] \in Seq(Passes) /\ before \in SUBSET Effects
      BY <1>3, <1>19, <2>7
    <3>4. Shows(Append(pic[src], e), before \cup {e})
      BY <2>3, <2>9, <3>3, ShowsOneMore
    <3>5. \A d \in before \cup {e}, f \in frame'.todo : Chain[d] < Chain[f]
      BY <1>6, <2>3, <2>10
    <3>6. QED
      BY <2>5, <2>6, <3>1, <3>2, <3>4, <3>5
  <2>12. CASE e \notin PassesShown
    <3>1. (PassesShown \ frame.todo)' = before
      BY <1>1, <1>6, <2>7, <2>12
    <3>2. done = pic[src]
      BY <2>4, <2>8, <2>12
    <3>3. QED
      BY <1>6, <2>3, <2>5, <2>6, <3>1, <3>2
  <2>13. QED
    BY <2>11, <2>12
<1>28. PictureKnown'
  BY <1>1, <1>27 DEF PictureKnown, ShowsThisFrame, Unwrapped
<1>29. QED
  BY <1>21, <1>22, <1>24, <1>25, <1>26, <1>28 DEF PostInv

(* The last barriers of a list: the backbuffer is done with first, then    *)
(* everything that was only read goes back to where it came from.          *)
Output(r) ==
    CASE r = "bb" -> "COMMON"
      [] frame.cur # 2 /\ r = Scene(frame.cur) -> "PSR"
      [] OTHER -> state[r]
Ended(r) ==
    CASE r \in Borrowed \/ (r = "resolve" /\ frame.resolve) -> "COMMON"
      [] OTHER -> Output(r)

LEMMA EndPaths ==
    ASSUME PostInv, step = "chain", NEW r \in Resources
    PROVE  LET path == OutputBarriers(r) \o RestoreBarriers(r)
           IN  Brings(state[r], path, Ended(r)) /\ (state[r] # "gone" \/ path = << >>)
<1>1. /\ frame.src \in {"bb", "ss", "resolve"} /\ frame.resolve \in BOOLEAN /\ frame.cur \in 0 .. 2
      /\ sceneState \in [0 .. 1 -> States]
  BY FrameFields DEF PostInv, PostShape
<1>2. /\ frame.src = IF "ss" \in lent THEN "ss" ELSE IF frame.resolve THEN "resolve" ELSE "bb"
      /\ frame.resolve => "resolve" \in owned
      /\ Targets.scene \subseteq owned
      /\ frame.cur = 2 => frame.src = "bb"
  BY DEF PostInv, FrameKnown, Unwrapped, Recording
<1>3. /\ state["bb"] = (IF frame.src = "bb" THEN "PSR" ELSE "COMMON")
      /\ state["ss"] = (IF "ss" \in lent THEN "PSR" ELSE "COMMON")
      /\ state["depth"] = (IF "depth" \in lent THEN "SRV" ELSE "COMMON")
      /\ frame.resolve => state["resolve"] = "PSR"
  <2>1. /\ state["bb"] = InUse("bb") /\ state["ss"] = InUse("ss") /\ state["depth"] = InUse("depth")
    BY DEF PostInv, StatesKnown, Borrowed
  <2>2. frame.resolve => state["resolve"] = "PSR"
    BY <1>2 DEF PostInv, StatesKnown
  <2>3. QED
    BY <2>1, <2>2 DEF InUse
<1>4. frame.cur # 2 => /\ state[Scene(frame.cur)] = sceneState[frame.cur] /\ frame.cur \in 0 .. 1
                       /\ Scene(frame.cur) \in {"scene0", "scene1"}
  <2>1. \A i \in 0 .. 1 : Scene(i) \in {"scene0", "scene1"} /\ Scene(i) \in owned
    BY <1>2, ResourcesKnown DEF Scene
  <2>2. QED
    BY <1>1, <2>1 DEF PostInv, StatesKnown
<1>5. "COMMON" \in States /\ "PSR" \in States /\ "RT" \in States /\ "SRV" \in States /\ "gone" \notin States
  BY DEF States
<1>6. Brings(state[r], OutputBarriers(r), Output(r))
  <2>1. CASE r = "bb" /\ frame.cur = 2
    <3>1. OutputBarriers(r) = << <<"PSR", "COMMON">> >> /\ Output(r) = "COMMON" /\ state[r] = "PSR"
      BY <1>2, <1>3, <2>1 DEF OutputBarriers, Output
    <3>2. QED
      BY <1>5, <3>1, BringsThrice
  <2>2. CASE r = "bb" /\ frame.cur # 2
    <3>1. Output(r) = "COMMON" /\ state[r] \in States
      BY <1>3, <1>4, <1>5, <2>2 DEF Output
    <3>2. OutputBarriers(r) = << <<state[r], "RT">>, <<"RT", "COMMON">> >>
      <4>1. CASE frame.src = "bb"
        BY <1>3, <1>4, <2>2, <4>1 DEF OutputBarriers
      <4>2. CASE frame.src # "bb"
        BY <1>3, <1>4, <2>2, <4>2 DEF OutputBarriers
      <4>3. QED
        BY <4>1, <4>2
    <3>3. QED
      BY <1>5, <3>1, <3>2, BringsThrice
  <2>3. CASE frame.cur # 2 /\ r = Scene(frame.cur)
    <3>1. OutputBarriers(r) = SceneTo(frame.cur, "PSR") /\ Output(r) = "PSR" /\ state[r] = sceneState[frame.cur]
      BY <1>4, <2>3 DEF OutputBarriers, Output
    <3>2. QED
      BY <1>1, <1>4, <1>5, <2>3, <3>1, SceneToBrings
  <2>4. CASE r # "bb" /\ ~(frame.cur # 2 /\ r = Scene(frame.cur))
    <3>1. OutputBarriers(r) = << >> /\ Output(r) = state[r]
      BY <2>4 DEF OutputBarriers, Output
    <3>2. QED
      BY <3>1, BringsHere
  <2>5. QED
    BY <2>1, <2>2, <2>3, <2>4
<1>7. Brings(Output(r), RestoreBarriers(r), Ended(r))
  <2>1. CASE (r = "resolve" /\ frame.resolve) \/ (r = "ss" /\ "ss" \in lent)
    <3>1. Output(r) = "PSR"
      BY <1>3, <1>4, <2>1 DEF Output
    <3>2. Ended(r) = "COMMON"
      BY <2>1 DEF Ended, Borrowed
    <3>3. RestoreBarriers(r) = << <<"PSR", "COMMON">> >>
      BY <2>1 DEF RestoreBarriers
    <3>4. QED
      BY <1>5, <3>1, <3>2, <3>3, BringsThrice
  <2>2. CASE r = "depth" /\ "depth" \in lent
    <3>1. Output(r) = "SRV"
      BY <1>3, <1>4, <2>2 DEF Output
    <3>2. Ended(r) = "COMMON"
      BY <2>2 DEF Ended, Borrowed
    <3>3. RestoreBarriers(r) = << <<"SRV", "COMMON">> >>
      BY <2>2 DEF RestoreBarriers
    <3>4. QED
      BY <1>5, <3>1, <3>2, <3>3, BringsThrice
  <2>3. CASE ~((r = "resolve" /\ frame.resolve) \/ (r = "ss" /\ "ss" \in lent)) /\ ~(r = "depth" /\ "depth" \in lent)
    <3>1. RestoreBarriers(r) = << >>
      BY <2>3 DEF RestoreBarriers
    <3>2. Ended(r) = Output(r)
      <4>1. CASE r = "bb"
        BY <1>4, <4>1 DEF Ended, Output, Borrowed
      <4>2. CASE r \in {"ss", "depth"}
        <5>1. Output(r) = "COMMON"
          BY <1>3, <1>4, <2>3, <4>2 DEF Output
        <5>2. QED
          BY <4>2, <5>1 DEF Ended, Borrowed
      <4>3. CASE r \notin {"bb", "ss", "depth"}
        <5>1. ~(r \in Borrowed \/ (r = "resolve" /\ frame.resolve))
          BY <2>3, <4>3 DEF Borrowed
        <5>2. QED
          BY <5>1 DEF Ended
      <4>4. QED
        BY <4>1, <4>2, <4>3
    <3>3. QED
      BY <3>1, <3>2, BringsHere
  <2>4. QED
    BY <2>1, <2>2, <2>3
<1>8. Brings(state[r], OutputBarriers(r) \o RestoreBarriers(r), Ended(r))
  BY <1>6, <1>7, BringsFurther
<1>9. ASSUME state[r] = "gone" PROVE OutputBarriers(r) = << >> /\ RestoreBarriers(r) = << >>
  <2>1. /\ r # "bb" /\ r # "depth" /\ r # "ss" /\ (frame.resolve => r # "resolve")
        /\ frame.cur # 2 => r # Scene(frame.cur)
    BY <1>1, <1>3, <1>4, <1>5, <1>9
  <2>2. QED
    BY <2>1 DEF OutputBarriers, RestoreBarriers
<1>10. QED
  BY <1>8, <1>9, ConcatNothing

LEMMA EndFrameInv ==
    ASSUME PostAssumption, PostInv, EndFrame
    PROVE  PostInv'
<1> DEFINE path(r) == OutputBarriers(r) \o RestoreBarriers(r)
           list == [r \in Resources |-> path(r)]
<1>1. /\ step = "chain" /\ frame.todo = {} /\ step' = "present"
      /\ Barriers(state, list)
      /\ sceneState' = (IF frame.cur = 2 THEN sceneState ELSE [sceneState EXCEPT ![frame.cur] = "PSR"])
      /\ pic' = (IF frame.cur = 2 THEN pic ELSE [pic EXCEPT !["bb"] = Draw(blitBB.fmt, pic[Scene(frame.cur)])])
      /\ flight' = owned \cup lent
      /\ lent' = {} /\ frame' = [frame EXCEPT !.out = "drawn"]
      /\ UNCHANGED <<device, failures, effects, gpuReady, initFmt, blitBB, owned, madeFor, raced>>
  BY DEF EndFrame
<1>2. /\ frame \in FrameLocals /\ frame.cur \in 0 .. 2 /\ frame.resolve \in BOOLEAN
      /\ pic \in [Resources -> Seq(Passes)] /\ sceneState \in [0 .. 1 -> States]
      /\ state \in [Resources -> States \cup {"gone"}] /\ owned \subseteq Owned /\ lent \subseteq Borrowed
      /\ \A r \in Owned : (state[r] = "gone") = (r \notin owned)
  BY FrameFields DEF PostInv, PostShape, PostTypeOK
<1>3. /\ gpuReady /\ initFmt # NoFormat /\ Targets.scene \subseteq owned /\ blitBB.fmt = bb.fmt
      /\ frame.resolve => "resolve" \in owned
  BY <1>1 DEF PostInv, FrameKnown, Unwrapped, Recording
<1>4. /\ frame' \in FrameLocals /\ frame'.ss = frame.ss /\ frame'.depth = frame.depth /\ frame'.src = frame.src
      /\ frame'.starved = frame.starved
  BY <1>1, <1>2, FrameEnded
<1>5. /\ \A r \in Resources : state'[r] = Ended(r)
      /\ wrong' = wrong /\ state' \in [Resources -> States \cup {"gone"}]
  <2>1. \A r \in Resources : Brings(state[r], path(r), Ended(r)) /\ (state[r] # "gone" \/ path(r) = << >>)
    BY <1>1, EndPaths
  <2>2. \A r \in Resources : list[r] = path(r)
    OBVIOUS
  <2>3. state' = Reached(state, list) /\ wrong' = wrong \cup Mistaken(state, list)
    BY <1>1 DEF Barriers
  <2> HIDE DEF list, path
  <2>4. \A r \in Resources : Reached(state, list)[r] = Ended(r) /\ r \notin Mistaken(state, list)
    <3>1. \A r \in Resources : Brings(state[r], list[r], Ended(r)) /\ (state[r] # "gone" \/ list[r] = << >>)
      BY <2>1, <2>2
    <3>2. QED
      BY ONLY <3>1, ListReached
  <2>5. Mistaken(state, list) = {}
    <3>1. Mistaken(state, list) \subseteq Resources
      BY DEF Mistaken
    <3>2. QED
      BY <2>4, <3>1
  <2>6. \A r \in Resources : Ended(r) \in States \cup {"gone"}
    BY <1>2 DEF Ended, Output, States
  <2>7. Reached(state, list) = [r \in Resources |-> Reached(state, list)[r]]
    BY DEF Reached
  <2>8. state' \in [Resources -> States \cup {"gone"}]
    BY <2>3, <2>4, <2>6, <2>7
  <2>9. QED
    BY <2>3, <2>4, <2>5, <2>8
<1> HIDE DEF list
<1>6. /\ Resources = Owned \cup Borrowed /\ Borrowed = {"bb", "ss", "depth"} /\ Targets.scene = {"scene0", "scene1"}
      /\ "resolve" \in Owned /\ "scene0" \in Owned /\ "scene1" \in Owned
      /\ "bb" \notin Owned /\ "ss" \notin Owned /\ "depth" \notin Owned
      /\ Targets.Ao \cup Targets.Smaa \cup Targets.Cmaa2 \subseteq Owned \ {"scene0", "scene1", "resolve"}
  BY ResourcesKnown
<1>7. \A i \in 0 .. 1 : /\ Scene(i) \in Targets.scene /\ Scene(i) \in owned
                        /\ state[Scene(i)] = sceneState[i]
                        /\ \A j \in 0 .. 1 : Scene(i) = Scene(j) <=> i = j
  <2>1. \A i \in 0 .. 1 : Scene(i) \in Targets.scene /\ Scene(i) \in owned
    BY <1>3, <1>6 DEF Scene
  <2>2. \A i, j \in 0 .. 1 : Scene(i) = Scene(j) <=> i = j
    BY DEF Scene
  <2>3. QED
    BY <2>1, <2>2 DEF PostInv, StatesKnown
<1>8. frame.cur # 2 => frame.cur \in 0 .. 1 /\ Scene(frame.cur) \in {"scene0", "scene1"}
  BY <1>2, <1>6, <1>7
<1>9. PostTypeOK'
  <2>1. \A r \in Owned : (state'[r] = "gone") = (r \notin owned')
    <3>1. ASSUME NEW r \in Owned PROVE (state'[r] = "gone") = (state[r] = "gone")
      <4>1. CASE r = "resolve" /\ frame.resolve
        <5>1. state'[r] = "COMMON"
          BY <1>5, <1>6, <4>1 DEF Ended
        <5>2. QED
          BY <1>2, <1>3, <1>6, <4>1, <5>1
      <4>2. CASE frame.cur # 2 /\ r = Scene(frame.cur)
        <5>1. state'[r] = "PSR"
          BY <1>5, <1>6, <1>8, <4>2 DEF Ended, Output
        <5>2. QED
          BY <1>2, <1>7, <1>8, <4>2, <5>1
      <4>3. CASE ~(r = "resolve" /\ frame.resolve) /\ ~(frame.cur # 2 /\ r = Scene(frame.cur))
        <5>1. state'[r] = state[r]
          BY <1>5, <1>6, <3>1, <4>3 DEF Ended, Output
        <5>2. QED
          BY <5>1
      <4>4. QED
        BY <4>1, <4>2, <4>3
    <3>2. QED
      BY <1>1, <1>2, <3>1
  <2>2. flight' \subseteq Owned \cup Borrowed
    BY <1>1, <1>2
  <2>3. QED
    BY <1>1, <2>1, <2>2 DEF PostInv, PostShape, PostTypeOK, device
<1>10. PostShape'
  <2>1. pic' \in [Resources -> Seq(Passes)]
    <3>1. frame.cur # 2 => Draw(blitBB.fmt, pic[Scene(frame.cur)]) \in Seq(Passes)
      BY <1>2, <1>6, <1>8, PicturesKnown
    <3>2. QED
      BY <1>1, <1>2, <3>1
  <2>2. sceneState' \in [0 .. 1 -> States]
    BY <1>1, <1>2 DEF States
  <2>3. QED
    BY <1>1, <1>4, <1>5, <1>9, <2>1, <2>2 DEF PostInv, PostShape, Unwrapped, device
<1>11. StatesKnown'
  <2>1. \A i \in 0 .. 1 : Scene(i) \in owned' => state'[Scene(i)] = sceneState'[i]
    <3>1. ASSUME NEW i \in 0 .. 1 PROVE state'[Scene(i)] = sceneState'[i]
      <4>1. sceneState'[i] = IF frame.cur # 2 /\ i = frame.cur THEN "PSR" ELSE sceneState[i]
        BY <1>1, <1>2
      <4>2. Scene(i) \in {"scene0", "scene1"} /\ Scene(i) \in Resources
        BY <1>6, <1>7
      <4>3. state'[Scene(i)] = Output(Scene(i))
        BY <1>5, <1>6, <4>2 DEF Ended
      <4>4. QED
        BY <1>7, <1>8, <4>1, <4>2, <4>3 DEF Output
    <3>2. QED
      BY <3>1
  <2>2. \A r \in Targets.Ao \cup Targets.Smaa \cup Targets.Cmaa2 : state'[r] = state[r]
    <3>1. \A r \in Targets.Ao \cup Targets.Smaa \cup Targets.Cmaa2 :
            r \in Resources /\ r \notin Borrowed /\ r \notin {"bb", "resolve", "scene0", "scene1"}
      BY <1>6
    <3>2. QED
      BY <1>5, <1>8, <3>1 DEF Ended, Output
  <2>3. \A r \in Targets.Ao \cup Targets.Smaa \cup Targets.Cmaa2 : r \in owned' => state'[r] = FreshState(r)
    BY <1>1, <2>2 DEF PostInv, StatesKnown
  <2>4. "resolve" \in owned' => state'["resolve"] = "COMMON"
    <3>1. CASE frame.resolve
      BY <1>5, <1>6, <3>1 DEF Ended
    <3>2. CASE ~frame.resolve
      <4>1. "resolve" \notin Borrowed /\ "resolve" \notin {"bb", "scene0", "scene1"} /\ "resolve" \in Resources
        BY <1>6
      <4>2. state'["resolve"] = state["resolve"]
        BY <1>5, <1>8, <3>2, <4>1 DEF Ended, Output
      <4>3. QED
        BY <1>1, <3>2, <4>2 DEF PostInv, StatesKnown
    <3>3. QED
      BY <3>1, <3>2
  <2>5. \A r \in Borrowed : state'[r] = "COMMON"
    BY <1>5, <1>6 DEF Ended
  <2>6. QED
    BY <1>1, <2>1, <2>3, <2>4, <2>5 DEF StatesKnown
<1>12. FrameKnown'
  BY <1>1 DEF FrameKnown, Unwrapped, Recording
<1>13. FlightKnown' /\ WrongKnown'
  BY <1>1, <1>3, <1>5 DEF PostInv, FlightKnown, WrongKnown
<1>14. PictureKnown'
  <2>1. ASSUME ~frame'.starved, bb'.fmt = initFmt', frame'.ss => frame'.src = "ss"
        PROVE  Shows(pic'["bb"], PassesShown')
    <3>1. Meant
      BY <1>1, <1>4, <2>1 DEF Meant, device
    <3>2. Shows(pic[ChainSrc(frame.cur)], PassesShown \ frame.todo)
      BY <1>1, <3>1 DEF PostInv, PictureKnown
    <3>3. PassesShown' = PassesShown \ frame.todo
      BY <1>1, <1>4 DEF PassesShown, device
    <3>4. pic'["bb"] = pic[ChainSrc(frame.cur)]
      <4>1. CASE frame.cur = 2
        BY <1>1, <4>1 DEF ChainSrc
      <4>2. CASE frame.cur # 2
        <5>1. Draw(blitBB.fmt, pic[Scene(frame.cur)]) = pic[Scene(frame.cur)]
          <6>1. Draw(bb.fmt, pic[Scene(frame.cur)]) = pic[Scene(frame.cur)]
            BY DrawnInFormat
          <6>2. QED
            BY <1>3, <6>1
        <5>2. QED
          BY <1>1, <1>2, <1>6, <4>2, <5>1 DEF ChainSrc
      <4>3. QED
        BY <4>1, <4>2
    <3>5. QED
      BY <3>2, <3>3, <3>4
  <2>2. QED
    BY <1>1, <2>1 DEF PictureKnown, ShowsThisFrame, Unwrapped
<1>15. QED
  BY <1>10, <1>11, <1>12, <1>13, <1>14 DEF PostInv

LEMMA PostInvNext ==
    ASSUME PostAssumption, PostInv, [PostNext]_postVars
    PROVE  PostInv'
<1>1. ASSUME NEW ss \in BOOLEAN, NEW depth \in BOOLEAN, OnWorldRenderEnd(ss, depth) PROVE PostInv'
  BY <1>1, OnWorldRenderEndInv
<1>2. CASE Unwrap
  BY <1>2, UnwrapInv
<1>3. CASE EnsureInit
  BY <1>3, EnsureInitInv
<1>4. CASE EnsureTargets
  BY <1>4, EnsureTargetsInv
<1>5. CASE EnsureBlitBB
  BY <1>5, EnsureBlitBBInv
<1>6. CASE EnsureMsaaResolve
  BY <1>6, EnsureMsaaResolveInv
<1>7. CASE Record
  BY <1>7, RecordInv
<1>8. CASE EndFrame
  BY <1>8, EndFrameInv
<1>9. CASE Present
  BY <1>9, PresentInv
<1>10. ASSUME NEW e \in Effects, RenderEffect(e) PROVE PostInv'
  BY <1>10, RenderEffectInv
<1>11. ASSUME NEW e \in Effects, DrawGraphicsPanel(e) PROVE PostInv'
  BY <1>11, DrawGraphicsPanelInv
<1>12. ASSUME NEW d \in Descs, OnDeviceLost(d) PROVE PostInv'
  BY <1>12, OnDeviceLostInv
<1>13. CASE GpuDone
  BY <1>13, GpuDoneInv
<1>14. CASE UNCHANGED postVars
  <2>1. PostShape'
    BY <1>14 DEF postVars, PostInv, PostShape, PostTypeOK
  <2>2. StatesKnown'
    BY <1>14 DEF postVars, PostInv, StatesKnown, InUse
  <2>3. FrameKnown' /\ FlightKnown' /\ WrongKnown'
    BY <1>14 DEF postVars, PostInv, FrameKnown, FlightKnown, WrongKnown
  <2>4. PictureKnown'
    BY <1>14 DEF postVars, PostInv, PictureKnown, World, Meant, ChainSrc, PassesShown, ShowsThisFrame
  <2>5. QED
    BY <2>1, <2>2, <2>3, <2>4 DEF PostInv
<1>15. QED
  BY <1>1, <1>2, <1>3, <1>4, <1>5, <1>6, <1>7, <1>8, <1>9, <1>10, <1>11, <1>12, <1>13, <1>14 DEF PostNext

LEMMA PostInvAlways ==
    ASSUME PostAssumption
    PROVE  PostSpec => []PostInv
<1>1. PostInit => PostInv
  BY PostInitInv
<1>2. PostInv /\ [PostNext]_postVars => PostInv'
  BY PostInvNext
<1>3. QED
  BY <1>1, <1>2, PTL DEF PostSpec

(* What a frame borrows comes back in the state it was lent in, and no     *)
(* target, list or surface is freed or used again under the GPU, whatever  *)
(* fails, whenever the device is reset or the GPU finishes.                *)
THEOREM SurfacesKeptAlways ==
    ASSUME PostAssumption
    PROVE  PostSpec => []SurfacesKept
<1>1. PostInv => SurfacesKept
  <2>1. ASSUME PostInv PROVE SurfacesKept
    <3>1. PostTypeOK
      BY <2>1 DEF PostInv, PostShape
    <3>2. step \in {"idle", "present"} => lent = {} /\ \A r \in Borrowed : state[r] = "COMMON"
      BY <2>1 DEF PostInv, FrameKnown, StatesKnown, Unwrapped
    <3>3. wrong \subseteq Targets.Ao /\ (wrong # {} => failures > 0) /\ raced = {}
      BY <2>1 DEF PostInv, WrongKnown, FlightKnown
    <3>4. QED
      BY <3>1, <3>2, <3>3 DEF SurfacesKept, SurfacesComeBack, NothingFreedInFlight
  <2>2. QED
    BY <2>1
<1>2. QED
  BY <1>1, PostInvAlways, PTL

(* A frame that is drawn shows the world of that frame, through exactly    *)
(* the passes that are switched on, in the order of the chain.             *)
THEOREM ShowsThisFrameAlways ==
    ASSUME PostAssumption
    PROVE  PostSpec => []ShowsThisFrame
<1>1. PostInv => ShowsThisFrame
  BY DEF PostInv, PictureKnown
<1>2. QED
  BY <1>1, PostInvAlways, PTL
==============================================================================
