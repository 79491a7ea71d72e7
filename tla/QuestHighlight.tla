---------------------------- MODULE QuestHighlight ----------------------------
(***************************************************************************)
(* The circles under the creatures of the selected quest                   *)
(* (QuestHighlight.cpp).  The extension has no circle of its own: for each *)
(* unit the client tracks it calls the client's own renderer of target     *)
(* circles, and swaps texture stage 0x15 while that renderer projects.     *)
(* Beside it the extension keeps a ring of the units it saw, filled by a   *)
(* hook and, once a frame, by a walk over what is visible.                 *)
(*                                                                         *)
(* The client renders on one thread, so a callback is one step; a fault    *)
(* may cut it short, and what the client drew by then stays drawn.         *)
(***************************************************************************)
EXTENDS Integers, Sequences, FiniteSets

CONSTANTS
    Units,       \* guids
    Entries,     \* creature entries
    MaxEntries,  \* kMaxQuestEntries
    MaxCircles,  \* kMaxUnitCircles
    MaxCachedUnits, \* kMaxCachedUnits
    GuidEntry,   \* the entry packed into a guid
    MaxDevices   \* bound: devices the client goes through

ASSUME CircleAssumption ==
    /\ MaxEntries \in Nat /\ MaxCircles \in Nat /\ MaxDevices \in Nat \ {0}
    /\ MaxCachedUnits \in Nat \ {0}

VARIABLES
    questEntries,  \* g_questEntries, without duplicates
    ring,          \* g_questGxTex: the wrapper of the device it was made for, or 0
    waits,         \* g_questLoadRetryTick lies ahead
    device,        \* the client's device: which wrappers it accepts
    drawn,         \* g_drawnQuestGuids
    swap,          \* g_renderingQuestCircle, g_questTexSwapDone
    picture,       \* the circles of this frame
    cache          \* g_unitCache, g_unitCacheWrite, and whether the walk is on

circleVars == <<questEntries, ring, waits, device, drawn, swap, picture, cache>>

Idle == [rendering |-> FALSE, swapDone |-> FALSE]
Bounded == device < MaxDevices

CircleInit ==
    /\ questEntries = {} /\ ring = 0 /\ waits = FALSE /\ device = 1
    /\ drawn = {} /\ swap = Idle /\ picture = {}
    /\ cache = [guids |-> <<>>, write |-> 0, walking |-> FALSE]

-----------------------------------------------------------------------------
(* The units seen.                                                         *)

(* Each once; a full ring gives up the oldest.                             *)
CacheUnitGuid(u) ==
    IF \E i \in DOMAIN cache.guids : cache.guids[i] = u THEN UNCHANGED cache
    ELSE IF Len(cache.guids) < MaxCachedUnits
    THEN cache' = [cache EXCEPT !.guids = Append(@, u)]
    ELSE cache' = [cache EXCEPT !.guids[cache.write + 1] = u, !.write = (@ + 1) % MaxCachedUnits]

ClearUnitCache == cache' = [cache EXCEPT !.guids = <<>>, !.write = 0]

IsUnitNotPlayer(who) == who.creature /\ ~who.player

(* HkGetObjectByGuid, for whatever the client looks up.                    *)
GetObjectByGuid(u, who) ==
    /\ ~cache.walking
    /\ IsUnitNotPlayer(who) /\ CacheUnitGuid(u)
    /\ UNCHANGED <<questEntries, ring, waits, device, drawn, swap, picture>>

(* RefreshVisibleUnitCache starts over and has the client call back for    *)
(* each visible object, to the end of the list or to a fault.              *)
WorldRenderEnd ==
    /\ ~cache.walking
    /\ cache' = [cache EXCEPT !.guids = <<>>, !.write = 0, !.walking = TRUE]
    /\ UNCHANGED <<questEntries, ring, waits, device, drawn, swap, picture>>

EnumVisibleCb(u, who) ==
    /\ cache.walking
    /\ IsUnitNotPlayer(who) /\ CacheUnitGuid(u)
    /\ UNCHANGED <<questEntries, ring, waits, device, drawn, swap, picture>>

WalkEnds ==
    /\ cache.walking
    /\ cache' = [cache EXCEPT !.walking = FALSE]
    /\ UNCHANGED <<questEntries, ring, waits, device, drawn, swap, picture>>

(* What the object says, or else what its guid does.                       *)
EntryFromObject(u, who) == IF who.entry # 0 THEN who.entry ELSE GuidEntry[u]

-----------------------------------------------------------------------------
(* The quest and the texture.                                              *)

SetQuestHighlightEntries(set) ==
    /\ questEntries' = set
    /\ UNCHANGED <<ring, waits, device, drawn, swap, picture, cache>>

(* LoadQuestRingTexture: either client call may fail or fault.             *)
RingLoads == ring' \in {ring, IF ring = 0 THEN device ELSE ring}

WorldEnter ==
    /\ RingLoads
    /\ UNCHANGED <<questEntries, waits, device, drawn, swap, picture, cache>>
WorldLeave ==
    /\ questEntries' = {}
    /\ ClearUnitCache
    /\ UNCHANGED <<ring, waits, device, drawn, swap, picture>>

RingKept == ring
RingFreed == 0
RingDeviceReset ==
    /\ Bounded
    /\ device' = device + 1
    /\ ring' = RingFreed /\ waits' = FALSE
    /\ UNCHANGED <<questEntries, drawn, swap, picture, cache>>

(* OnFrame, at Present: the next frame starts with no circle drawn.        *)
Present ==
    /\ drawn' = {} /\ picture' = {}
    /\ IF ring = 0 /\ questEntries # {}
       THEN \/ waits' = TRUE /\ RingLoads
            \/ waits /\ UNCHANGED <<waits, ring>>
       ELSE UNCHANGED <<waits, ring>>
    /\ UNCHANGED <<questEntries, device, swap, cache>>

-----------------------------------------------------------------------------
(* The client draws a circle: it binds its own texture, projects, and puts *)
(* the old states back.  HkProjectTex2d stands in the projection.          *)

Native == -1
Circle(u, target, texture) ==
    [unit |-> u, target |-> target, ring |-> ring, texture |-> texture]

(* BeginQuestTextureSwap: what one projection samples when it meets the    *)
(* flags f.                                                                *)
Sampled(f) == IF f.rendering /\ ring # 0 /\ ~f.swapDone THEN ring ELSE Native

(* The circle of the target, which the client draws for itself.            *)
TargetCircle(u) ==
    /\ picture' = picture \cup {Circle(u, TRUE, Sampled(swap))}
    /\ UNCHANGED <<questEntries, ring, waits, device, drawn, swap, cache>>

(* The flags the detour leaves.  A fault jumps over the lines that clear   *)
(* them; the handler clears them again.                                    *)
FaultLeft(fault) ==
    [rendering |-> fault # "none", swapDone |-> fault = "in" /\ ring # 0]
FlagsLeft(fault) == Idle

Qualifies(u, who) ==
    /\ IsUnitNotPlayer(who) /\ ~who.target
    /\ EntryFromObject(u, who) \in questEntries
    /\ who.live /\ who.near
    /\ u \notin drawn /\ Cardinality(drawn) < MaxCircles

(* HkRenderAutoTrack for one unit.  A fault comes before the projection, in *)
(* it, with the texture swapped, or after it.                              *)
AutoTrack(u, who) ==
    /\ Qualifies(u, who)
    /\ drawn' = drawn \cup {u}
    /\ \E fault \in {"none", "before", "in", "after"} :
          /\ swap' = FlagsLeft(fault)
          /\ picture' = IF fault = "before" THEN picture ELSE picture \cup
                           {Circle(u, FALSE, Sampled([swap EXCEPT !.rendering = TRUE]))}
    /\ UNCHANGED <<questEntries, ring, waits, device, cache>>

Whom == [creature : BOOLEAN, player : BOOLEAN, target : BOOLEAN, entry : Entries \cup {0},
         live : BOOLEAN, near : BOOLEAN]

DrawNext ==
    \/ \E set \in SUBSET Entries :
          Cardinality(set) <= MaxEntries /\ SetQuestHighlightEntries(set)
    \/ WorldEnter \/ WorldLeave \/ RingDeviceReset \/ Present
    \/ \E u \in Units : TargetCircle(u)
    \/ \E u \in Units, who \in Whom : AutoTrack(u, who)

CacheNext ==
    \/ WorldRenderEnd \/ WalkEnds
    \/ \E u \in Units, who \in Whom : GetObjectByGuid(u, who) \/ EnumVisibleCb(u, who)

(* The walk has the client's thread to itself.                             *)
CircleNext == (~cache.walking /\ DrawNext) \/ CacheNext

CircleSpec == CircleInit /\ [][CircleNext]_circleVars

-----------------------------------------------------------------------------

CircleTypeOK ==
    /\ questEntries \subseteq Entries /\ Cardinality(questEntries) <= MaxEntries
    /\ ring \in 0 .. MaxDevices /\ device \in 1 .. MaxDevices /\ drawn \subseteq Units
    /\ waits \in BOOLEAN /\ swap \in [rendering : BOOLEAN, swapDone : BOOLEAN]

Rings == {c \in picture : ~c.target}

CirclesDrawn ==
    /\ ring \in {0, device}
    /\ \A c \in picture :
          c.texture = IF c.target \/ c.ring = 0 THEN Native ELSE c.ring
    /\ Cardinality(Rings) <= MaxCircles
    /\ \A c, d \in Rings : c.unit = d.unit => c = d

UnitsCachedOnce ==
    /\ cache \in [guids : Seq(Units), write : 0 .. MaxCachedUnits - 1, walking : BOOLEAN]
    /\ Len(cache.guids) <= MaxCachedUnits
    /\ cache.write # 0 => Len(cache.guids) = MaxCachedUnits
    /\ \A i, j \in DOMAIN cache.guids : cache.guids[i] = cache.guids[j] => i = j

(* Whatever was cut short by a fault before it, the target's circle shows  *)
(* the client's texture and a circle of the quest shows the ring there was *)
(* when it was drawn; that ring was made for this device; a frame has at   *)
(* most MaxCircles of them, one to a unit.  The units seen are in the      *)
(* cache once, however lookups and walks cut short by a fault follow each  *)
(* other, and nothing is given up while there is room.                     *)
CirclesKeepTextures == CircleTypeOK /\ CirclesDrawn /\ UnitsCachedOnce
=============================================================================
