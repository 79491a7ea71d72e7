----------------------------- MODULE ScreenProofs -----------------------------
(***************************************************************************)
(* Proofs about what the extensions draw over the client's picture: the    *)
(* circles of the quest highlight, the zoom of the create screen, the ping *)
(* wheel, the frame of a ping, the moving grass, the pass of the quest     *)
(* marker, the shapes drawn into the world; and about the way of a ping    *)
(* through the scripts' API and the packets.  Each part is proved on its   *)
(* own: an inductive invariant of its actions, and its property.           *)
(***************************************************************************)
EXTENDS QuestHighlight, GlueZoom, PingAddon, GrassMotion, PingApi, MarkerPass, Shapes,
        FiniteSetTheorems, SequenceTheorems, NaturalsInduction, WellFoundedInduction, TLAPS

-----------------------------------------------------------------------------
(* The quest highlight.                                                    *)

(* The flags are only up inside a call of the detour; a frame has a circle *)
(* of the quest for each unit in drawn and for no other.                   *)
CirclesOfDrawn ==
    /\ \A c \in Rings : c.unit \in drawn
    /\ IsFiniteSet(drawn) /\ Cardinality(drawn) <= MaxCircles
    /\ IsFiniteSet(Rings)
CircleInv == CircleTypeOK /\ CirclesDrawn /\ swap = Idle /\ CirclesOfDrawn

(* As many circles as units, since no two circles are of one unit.         *)
LEMMA RingsBounded ==
    ASSUME NEW rings, NEW units, IsFiniteSet(units),
           \A c \in rings : c.unit \in units,
           \A c, d \in rings : c.unit = d.unit => c = d
    PROVE  IsFiniteSet(rings) /\ Cardinality(rings) <= Cardinality(units)
<1> DEFINE unitOf == [c \in rings |-> c.unit]
<1>1. unitOf \in Injection(rings, units)
  BY DEF Injection, IsInjective
<1> QED
  BY <1>1, FS_Injection DEF ExistsInjection

LEMMA CircleInitInv == CircleInit => CircleInv
<1> SUFFICES ASSUME CircleInit
             PROVE  CircleInv
    OBVIOUS
<1>1. Rings = {} /\ IsFiniteSet({}) /\ Cardinality({}) = 0
  BY FS_EmptySet DEF CircleInit, Rings
<1>2. ring \in 0 .. MaxDevices /\ device \in 1 .. MaxDevices /\ Cardinality(questEntries) <= MaxEntries
  BY <1>1, CircleAssumption DEF CircleAssumption, CircleInit
<1>3. Cardinality(Rings) <= MaxCircles /\ Cardinality(drawn) <= MaxCircles
  BY <1>1, CircleAssumption DEF CircleAssumption, CircleInit
<1> QED
  BY <1>1, <1>2, <1>3
     DEF CircleInit, CircleInv, CirclesDrawn, CircleTypeOK, CirclesOfDrawn, Idle

(* A step that draws nothing leaves the circles as they are.               *)
LEMMA NoCircleDrawn ==
    ASSUME CircleInv, UNCHANGED <<drawn, swap, picture>>, CircleTypeOK', (ring \in {0, device})'
    PROVE  CircleInv'
BY DEF CircleInv, CirclesDrawn, CirclesOfDrawn, Rings

LEMMA DrawNextInv == CircleInv /\ [DrawNext]_circleVars => CircleInv'
<1> SUFFICES ASSUME CircleInv, [DrawNext]_circleVars
             PROVE  CircleInv'
    OBVIOUS
<1> USE CircleAssumption DEF CircleAssumption
<1>1. ASSUME NEW set \in SUBSET Entries, Cardinality(set) <= MaxEntries, SetQuestHighlightEntries(set)
      PROVE  CircleInv'
  BY <1>1, NoCircleDrawn DEF SetQuestHighlightEntries, CircleInv, CirclesDrawn, CircleTypeOK
<1>2. CASE WorldEnter
  BY <1>2, NoCircleDrawn DEF WorldEnter, RingLoads, CircleInv, CirclesDrawn, CircleTypeOK
<1>3. CASE WorldLeave
  BY <1>3, NoCircleDrawn, FS_EmptySet DEF WorldLeave, CircleInv, CirclesDrawn, CircleTypeOK
<1>4. CASE RingDeviceReset
  <2>1. ring' = 0 /\ waits' = FALSE /\ device' \in 1 .. MaxDevices /\ UNCHANGED <<questEntries, drawn, swap, picture>>
    BY <1>4 DEF RingDeviceReset, RingFreed, Bounded, CircleInv, CirclesDrawn, CircleTypeOK
  <2>2. CircleTypeOK'
    <3>1. CircleTypeOK /\ 0 \in 0 .. MaxDevices
      BY DEF CircleInv, CirclesDrawn
    <3>2. ring' \in 0 .. MaxDevices /\ waits' \in BOOLEAN
      BY <2>1, <3>1
    <3> QED
      BY <2>1, <3>1, <3>2 DEF CircleTypeOK
  <2> QED
    BY <2>1, <2>2, NoCircleDrawn
<1>5. CASE Present
  <2>1. Rings' = {} /\ drawn' = {} /\ picture' = {} /\ UNCHANGED <<questEntries, device, swap>>
    BY <1>5 DEF Present, Rings
  <2>2. ring' \in {0, device} /\ ring' \in 0 .. MaxDevices /\ waits' \in BOOLEAN
    <3>1. \/ waits' = TRUE /\ RingLoads
          \/ waits' = waits /\ ring' = ring
      BY <1>5 DEF Present
    <3>2. /\ ring \in {0, device} /\ ring \in 0 .. MaxDevices /\ device \in 0 .. MaxDevices
          /\ waits \in BOOLEAN
      BY DEF CircleInv, CirclesDrawn, CircleTypeOK
    <3>3. ring' \in {ring, device}
      BY <3>1 DEF RingLoads
    <3>4. waits' \in BOOLEAN
      BY <3>1, <3>2
    <3> QED
      BY <3>2, <3>3, <3>4
  <2> QED
    BY <2>1, <2>2, FS_EmptySet DEF CircleInv, CirclesDrawn, CircleTypeOK, CirclesOfDrawn
<1>6. ASSUME NEW u \in Units, TargetCircle(u)
      PROVE  CircleInv'
  <2>1. Rings' = Rings /\ UNCHANGED <<questEntries, ring, waits, device, drawn, swap>>
    BY <1>6 DEF TargetCircle, Circle, Rings
  <2>2. Sampled(swap) = Native
    BY DEF Sampled, Idle, CircleInv
  <2>3. \A c \in picture' : c.texture = IF c.target \/ c.ring = 0 THEN Native ELSE c.ring
    BY <1>6, <2>2 DEF TargetCircle, Circle, CircleInv, CirclesDrawn
  <2> QED
    BY <2>1, <2>3 DEF CircleInv, CirclesDrawn, CircleTypeOK, CirclesOfDrawn
<1>7. ASSUME NEW u \in Units, NEW who \in Whom, AutoTrack(u, who)
      PROVE  CircleInv'
  <2> DEFINE own == Circle(u, FALSE, Sampled([swap EXCEPT !.rendering = TRUE]))
  <2>1. /\ u \notin drawn /\ Cardinality(drawn) < MaxCircles /\ drawn' = drawn \cup {u}
        /\ swap' = Idle /\ (picture' = picture \/ picture' = picture \cup {own})
        /\ UNCHANGED <<questEntries, ring, waits, device>>
    BY <1>7 DEF AutoTrack, Qualifies, FlagsLeft
  <2>2. /\ own.unit = u /\ ~own.target
        /\ own.texture = IF own.target \/ own.ring = 0 THEN Native ELSE own.ring
    BY DEF Circle, Sampled, Idle, CircleInv
  <2> HIDE DEF own
  <2>3. Rings' = Rings \/ Rings' = Rings \cup {own}
    BY <2>1, <2>2 DEF Rings
  <2>4. \A c \in picture' : c.texture = IF c.target \/ c.ring = 0 THEN Native ELSE c.ring
    BY <2>1, <2>2 DEF CircleInv, CirclesDrawn
  <2>5. IsFiniteSet(drawn') /\ Cardinality(drawn') <= MaxCircles
    <3>1. IsFiniteSet(drawn) /\ Cardinality(drawn) \in Nat
      BY FS_CardinalityType DEF CircleInv, CirclesOfDrawn
    <3>2. IsFiniteSet(drawn') /\ Cardinality(drawn') = Cardinality(drawn) + 1
      BY <2>1, <3>1, FS_AddElement
    <3> QED
      BY <2>1, <3>1, <3>2
  <2>6. /\ \A c \in Rings' : c.unit \in drawn'
        /\ \A c, d \in Rings' : c.unit = d.unit => c = d
    BY <2>1, <2>2, <2>3 DEF CircleInv, CirclesDrawn, CirclesOfDrawn
  <2>7. IsFiniteSet(Rings') /\ Cardinality(Rings') <= MaxCircles
    <3>1. IsFiniteSet(Rings') /\ Cardinality(Rings') <= Cardinality(drawn')
      BY <2>5, <2>6, RingsBounded
    <3>2. Cardinality(Rings') \in Nat /\ Cardinality(drawn') \in Nat
      BY <2>5, <3>1, FS_CardinalityType
    <3> QED
      BY <2>5, <3>1, <3>2
  <2>8. CircleTypeOK' /\ (ring \in {0, device})'
    BY <2>1 DEF CircleInv, CirclesDrawn, CircleTypeOK, Idle
  <2> QED
    BY <2>1, <2>4, <2>5, <2>6, <2>7, <2>8 DEF CircleInv, CirclesDrawn, CirclesOfDrawn
<1>8. CASE UNCHANGED circleVars
  BY <1>8, NoCircleDrawn DEF circleVars, CircleInv, CirclesDrawn, CircleTypeOK
<1> QED
  BY <1>1, <1>2, <1>3, <1>4, <1>5, <1>6, <1>7, <1>8 DEF DrawNext

(* A unit taken into the cache was not there; the one it takes the place   *)
(* of, if any, is the oldest.                                              *)
LEMMA CacheUnitOnce ==
    ASSUME CircleAssumption, UnitsCachedOnce, NEW u \in Units, CacheUnitGuid(u)
    PROVE  UnitsCachedOnce'
<1> USE DEF CircleAssumption
<1>1. PICK guids \in Seq(Units), write \in 0 .. MaxCachedUnits - 1, walking \in BOOLEAN :
           cache = [guids |-> guids, write |-> write, walking |-> walking]
  BY DEF UnitsCachedOnce
<1>2. /\ Len(guids) \in Nat /\ Len(guids) <= MaxCachedUnits /\ (write # 0 => Len(guids) = MaxCachedUnits)
      /\ \A i, j \in 1 .. Len(guids) : guids[i] = guids[j] => i = j
  BY <1>1 DEF UnitsCachedOnce
<1>3. CASE \E i \in DOMAIN guids : guids[i] = u
  BY <1>1, <1>3 DEF CacheUnitGuid, UnitsCachedOnce
<1>4. CASE ~(\E i \in DOMAIN guids : guids[i] = u) /\ Len(guids) < MaxCachedUnits
  <2> DEFINE more == Append(guids, u)
  <2>1. more \in Seq(Units) /\ Len(more) = Len(guids) + 1
    BY AppendProperties
  <2>2. \A i \in 1 .. Len(more) : more[i] = IF i <= Len(guids) THEN guids[i] ELSE u
    BY <1>2, AppendProperties
  <2>3. \A i \in 1 .. Len(guids) : guids[i] # u
    BY <1>4
  <2> HIDE DEF more
  <2>4. \A i, j \in 1 .. Len(more) : more[i] = more[j] => i = j
    BY <1>2, <2>1, <2>2, <2>3
  <2>5. cache' = [guids |-> more, write |-> write, walking |-> walking]
    BY <1>1, <1>4 DEF CacheUnitGuid, more
  <2>6. QED
    BY <1>2, <1>4, <2>1, <2>4, <2>5 DEF UnitsCachedOnce
<1>5. CASE ~(\E i \in DOMAIN guids : guids[i] = u) /\ ~(Len(guids) < MaxCachedUnits)
  <2> DEFINE more == [guids EXCEPT ![write + 1] = u]
  <2>1. write + 1 \in 1 .. Len(guids) /\ Len(guids) = MaxCachedUnits
    BY <1>2, <1>5
  <2>2. more \in Seq(Units) /\ Len(more) = Len(guids)
    BY <2>1, ExceptSeq
  <2>3. \A i \in 1 .. Len(more) : more[i] = IF i = write + 1 THEN u ELSE guids[i]
    BY <2>1, <2>2
  <2>4. \A i \in 1 .. Len(guids) : guids[i] # u
    BY <1>5
  <2> HIDE DEF more
  <2>5. \A i, j \in 1 .. Len(more) : more[i] = more[j] => i = j
    BY <1>2, <2>2, <2>3, <2>4
  <2>6. cache' = [guids |-> more, write |-> (write + 1) % MaxCachedUnits, walking |-> walking]
    BY <1>1, <1>5 DEF CacheUnitGuid, more
  <2>7. (write + 1) % MaxCachedUnits \in 0 .. MaxCachedUnits - 1
    BY <2>1
  <2>8. QED
    BY <1>2, <2>1, <2>2, <2>5, <2>6, <2>7 DEF UnitsCachedOnce
<1>6. QED
  BY <1>3, <1>4, <1>5

LEMMA CircleNextInv ==
    CircleInv /\ UnitsCachedOnce /\ [CircleNext]_circleVars => CircleInv' /\ UnitsCachedOnce'
<1> SUFFICES ASSUME CircleInv, UnitsCachedOnce, [CircleNext]_circleVars
             PROVE  CircleInv' /\ UnitsCachedOnce'
    OBVIOUS
<1> USE CircleAssumption
<1>1. ASSUME UNCHANGED <<questEntries, ring, waits, device, drawn, swap, picture>>
      PROVE  CircleInv'
  BY <1>1, NoCircleDrawn DEF CircleInv, CirclesDrawn, CircleTypeOK
<1>2. ASSUME cache' \in [guids : {<<>>}, write : {0}, walking : BOOLEAN]
      PROVE  UnitsCachedOnce'
  <2>1. 0 \in 0 .. MaxCachedUnits - 1 /\ <<>> \in Seq(Units) /\ Len(<<>>) = 0 /\ DOMAIN <<>> = {}
    BY DEF CircleAssumption
  <2>2. cache'.guids = <<>> /\ cache'.write = 0
    BY <1>2
  <2>3. cache' \in [guids : Seq(Units), write : 0 .. MaxCachedUnits - 1, walking : BOOLEAN]
    BY <1>2, <2>1
  <2>4. Len(cache'.guids) <= MaxCachedUnits
    BY <2>1, <2>2 DEF CircleAssumption
  <2>5. QED
    BY <2>1, <2>2, <2>3, <2>4 DEF UnitsCachedOnce
<1>3. CASE DrawNext
  <2>1. CASE UNCHANGED cache
    BY <1>3, <2>1, DrawNextInv DEF UnitsCachedOnce
  <2>2. CASE WorldLeave
    <3>1. cache' \in [guids : {<<>>}, write : {0}, walking : BOOLEAN]
      BY <2>2 DEF WorldLeave, ClearUnitCache, UnitsCachedOnce
    <3>2. QED
      BY <1>2, <1>3, <3>1, DrawNextInv
  <2>3. QED
    BY <1>3, <2>1, <2>2 DEF DrawNext, SetQuestHighlightEntries, WorldEnter, RingDeviceReset, Present,
                            TargetCircle, AutoTrack
<1>4. CASE WorldRenderEnd
  <2>1. cache' \in [guids : {<<>>}, write : {0}, walking : BOOLEAN]
    BY <1>4 DEF WorldRenderEnd, UnitsCachedOnce
  <2>2. QED
    BY <1>1, <1>2, <1>4, <2>1 DEF WorldRenderEnd
<1>5. CASE WalkEnds
  BY <1>1, <1>5 DEF WalkEnds, UnitsCachedOnce
<1>6. ASSUME NEW u \in Units, NEW who \in Whom, GetObjectByGuid(u, who) \/ EnumVisibleCb(u, who)
      PROVE  CircleInv' /\ UnitsCachedOnce'
  BY <1>1, <1>6, CacheUnitOnce DEF GetObjectByGuid, EnumVisibleCb
<1>7. CASE UNCHANGED circleVars
  BY <1>7, DrawNextInv DEF circleVars, UnitsCachedOnce
<1>8. QED
  BY <1>3, <1>4, <1>5, <1>6, <1>7 DEF CircleNext, CacheNext

(* Whatever is cut short by a fault, at whichever point of the detour: the *)
(* client's circle shows the client's texture and a quest's the ring there *)
(* was, made for this device; at most kMaxUnitCircles, one to a unit.  And *)
(* the cache of units holds each once, at most kMaxCachedUnits.            *)
THEOREM CirclesKeepTexturesAlways == CircleSpec => []CirclesKeepTextures
<1>1. CircleInit => CircleInv /\ UnitsCachedOnce
  <2>1. CircleInit => UnitsCachedOnce
    BY CircleAssumption, Len(<<>>) = 0, <<>> \in Seq(Units), DOMAIN <<>> = {}
       DEF CircleInit, UnitsCachedOnce, CircleAssumption
  <2>2. QED
    BY <2>1, CircleInitInv
<1>2. CircleInv /\ UnitsCachedOnce => CirclesKeepTextures
  BY DEF CircleInv, CirclesKeepTextures
<1> QED
  BY CircleNextInv, <1>1, <1>2, PTL DEF CircleSpec

-----------------------------------------------------------------------------
(* The glue zoom.                                                          *)

Headings == Turns \cup {0}
Scale == [race : {RaceOf[i] : i \in Instances} \cup {NoRace}, t : 0 .. Notches]
Matrices == [turn : Headings, scales : Seq(Scale)]

(* What is not in the property: what the engine's matrices are taken for,  *)
(* and on which screen the model is that the extension keeps track of.     *)
(* Only the model on screen may be scaled and unknown to the hook, and     *)
(* then it is the tracked one: Show makes a matrix anew.                   *)
Tracking ==
    /\ tracked.inst # NoRace => /\ tracked.inst \in CharModels /\ ScreenOf[tracked.inst] = "create"
                               /\ tracked.race = RaceOf[tracked.inst]
    /\ screen.name = "create" => camera
    /\ screen.ready => (tracked.onCreate <=> screen.name = "create")
Scaling ==
    /\ rotBase.scales = <<>>
    /\ tracked.inst # NoRace /\ placement[tracked.inst].scales # <<>> => placement[tracked.inst] = lastWritten
    /\ placement[screen.shows].scales # <<>> => tracked.inst = screen.shows
GlueTypes ==
    /\ screen \in [name : {ScreenOf[i] : i \in Instances}, shows : Instances, ready : BOOLEAN]
    /\ tracked \in [onCreate : BOOLEAN, inst : Instances \cup {NoRace},
                    race : {RaceOf[i] : i \in Instances} \cup {NoRace}]
    /\ rotBase \in Matrices /\ lastWritten \in Matrices /\ placement \in [Instances -> Matrices]
GlueInv == GlueTypes /\ ZoomsOnlyOnce /\ Tracking /\ Scaling

LEMMA IdentityIsAMatrix ==
    Identity \in Matrices /\ Identity.scales = <<>> /\ Len(<<>>) = 0
BY DEF Identity, Matrix, Matrices, Headings

(* A scale put on an engine's matrix is that of the tracked race.          *)
LEMMA OneScale ==
    ASSUME tracked.race \in {RaceOf[i] : i \in Instances} \cup {NoRace}, zoom.t \in 0 .. Notches
    PROVE  /\ ScaleAt(zoom.t) \in Seq(Scale) /\ Len(ScaleAt(zoom.t)) <= 1
           /\ \A k \in 1 .. Len(ScaleAt(zoom.t)) : ScaleAt(zoom.t)[k].race = tracked.race
<1>1. At(tracked.race) \in Scale /\ At(tracked.race).race = tracked.race
  BY DEF At, Scale
<1>2. <<At(tracked.race)>> \in Seq(Scale) /\ Len(<<At(tracked.race)>>) = 1
  BY <1>1
<1>3. <<>> \in Seq(Scale) /\ Len(<<>>) = 0
  OBVIOUS
<1> QED
  BY <1>1, <1>2, <1>3 DEF ScaleAt

LEMMA GlueInitInv == GlueInit => GlueInv
<1> USE GlueAssumption DEF GlueAssumption
<1>1. Len(<<>>) = 0
  OBVIOUS
<1> SUFFICES ASSUME GlueInit
             PROVE  GlueInv
    OBVIOUS
<1>2. PICK i \in CharModels : screen = [name |-> "select", shows |-> i, ready |-> FALSE] /\ ScreenOf[i] = "select"
  BY DEF GlueInit, EnsureDIPHook, Showing
<1>3. GlueTypes /\ GlueTypeOK
  <2>1. screen \in [name : {ScreenOf[j] : j \in Instances}, shows : Instances, ready : BOOLEAN]
    BY <1>2
  <2>2. zoom \in [t : 0 .. Notches, goal : 0 .. Notches]
    BY GlueAssumption DEF GlueAssumption, GlueInit
  <2> QED
    BY <1>2, <2>1, <2>2, IdentityIsAMatrix DEF GlueInit, EnsureDIPHook, GlueTypes, GlueTypeOK
<1>4. ZoomsOnlyOnce
  BY <1>1, <1>3, IdentityIsAMatrix DEF GlueInit, EnsureDIPHook, ZoomsOnlyOnce
<1>5. Tracking /\ Scaling
  BY <1>2, IdentityIsAMatrix DEF GlueInit, EnsureDIPHook, Tracking, Scaling
<1> QED
  BY <1>3, <1>4, <1>5 DEF GlueInv

LEMMA GlueNextInv == GlueInv /\ [GlueNext]_glueVars => GlueInv'
<1> SUFFICES ASSUME GlueInv, [GlueNext]_glueVars
             PROVE  GlueInv'
    OBVIOUS
<1> USE GlueAssumption DEF GlueAssumption
<1>1. ASSUME NEW i \in CharModels, Show(i)
      PROVE  GlueInv'
  <2>1. GlueTypes'
    BY <1>1, IdentityIsAMatrix DEF Show, GlueInv, GlueTypes
  <2>5. GlueTypeOK'
    BY <1>1, IdentityIsAMatrix DEF Show, GlueInv, GlueTypes, ZoomsOnlyOnce, GlueTypeOK
  <2>2. ZoomsOnlyOnce'
    BY <1>1, IdentityIsAMatrix, <2>5 DEF Show, GlueInv, GlueTypes, ZoomsOnlyOnce
  <2>3. Tracking'
    BY <1>1, IdentityIsAMatrix DEF Show, GlueInv, GlueTypes, ZoomsOnlyOnce, GlueTypeOK, Tracking
  <2>4. Scaling'
    BY <1>1, IdentityIsAMatrix DEF Show, GlueInv, GlueTypes, ZoomsOnlyOnce, GlueTypeOK, Tracking, Scaling
  <2> QED
    BY <2>1, <2>2, <2>3, <2>4 DEF GlueInv
<1>2. CASE Button
  BY <1>2 DEF Button, GlueInv, GlueTypes, ZoomsOnlyOnce, GlueTypeOK, Tracking, Scaling
<1>3. ASSUME NEW to \in Turns, Turn(to)
      PROVE  GlueInv'
  <2>1. Matrix(to, <<>>) \in Matrices /\ Matrix(to, <<>>).scales = <<>>
    BY DEF Matrix, Matrices, Headings
  <2> QED
    BY <1>3, <2>1 DEF Turn, GlueInv, GlueTypes, ZoomsOnlyOnce, GlueTypeOK, Tracking, Scaling
<1>4. ASSUME NEW d \in {-1, 1}, WheelNotch(d)
      PROVE  GlueInv'
  BY <1>4 DEF WheelNotch, GlueInv, GlueTypes, ZoomsOnlyOnce, GlueTypeOK, Tracking, Scaling
<1>5. CASE Frame
  <2>1. GlueTypes'
    BY <1>5 DEF Frame, Glides, GlueInv, GlueTypes
  <2>5. GlueTypeOK'
    BY <1>5 DEF Frame, Glides, GlueInv, GlueTypes, ZoomsOnlyOnce, GlueTypeOK
  <2>2. ZoomsOnlyOnce'
    BY <1>5, <2>5 DEF Frame, Glides, GlueInv, GlueTypes, ZoomsOnlyOnce
  <2>3. Tracking'
    BY <1>5 DEF Frame, Glides, GlueInv, GlueTypes, ZoomsOnlyOnce, GlueTypeOK, Tracking
  <2>4. Scaling'
    BY <1>5 DEF Frame, Glides, GlueInv, GlueTypes, ZoomsOnlyOnce, GlueTypeOK, Tracking, Scaling
  <2> QED
    BY <2>1, <2>2, <2>3, <2>4 DEF GlueInv
<1>6. CASE SetupWorldProjection
  <2>1. Len(FovOfBase) = 1
    BY DEF FovOfBase
  <2>2. /\ \/ tracked' = [tracked EXCEPT !.onCreate = TRUE] /\ camera /\ screen.name = "create"
           \/ tracked' = [tracked EXCEPT !.onCreate = FALSE] /\ ~(camera /\ screen.name = "create")
        /\ fov' \in {FovOfBase, fov}
        /\ screen' = [screen EXCEPT !.ready = TRUE]
        /\ UNCHANGED <<camera, hooked, dragging, zoom, rotBase, lastWritten, placement>>
    <3>1. CASE camera /\ screen.name = "create"
      <4>1. (camera /\ screen.name = "create") = TRUE
        BY <3>1
      <4> QED
        BY <3>1, <4>1, <1>6 DEF SetupWorldProjection
    <3>2. CASE ~(camera /\ screen.name = "create")
      <4>1. (camera /\ screen.name = "create") = FALSE
        BY <3>2
      <4> QED
        BY <3>2, <4>1, <1>6 DEF SetupWorldProjection
    <3> QED
      BY <3>1, <3>2
  <2>3. GlueTypes' /\ GlueTypeOK'
    BY <2>2 DEF GlueInv, GlueTypes, ZoomsOnlyOnce, GlueTypeOK
  <2>4. ZoomsOnlyOnce'
    <3>1. Len(fov') <= 1
      <4>1. Len(fov) <= 1
        BY DEF GlueInv, ZoomsOnlyOnce
      <4>2. fov' = fov \/ fov' = FovOfBase
        BY <2>2
      <4>3. Len(FovOfBase) <= 1
        BY <2>1
      <4> QED
        BY <4>1, <4>2, <4>3
    <3> QED
      BY <2>2, <2>3, <3>1 DEF GlueInv, ZoomsOnlyOnce
  <2>5. Tracking'
    BY <2>2 DEF GlueInv, GlueTypes, ZoomsOnlyOnce, GlueTypeOK, Tracking
  <2>6. Scaling'
    BY <2>2 DEF GlueInv, GlueTypes, Scaling
  <2> QED
    BY <2>3, <2>4, <2>5, <2>6 DEF GlueInv
<1>7. ASSUME NEW i \in Instances, DrawTri(i)
      PROVE  GlueInv'
  <2>1. /\ screen.ready /\ UNCHANGED <<screen, camera, hooked, dragging, placement, fov>>
        /\ i \in OnScreen /\ screen.name = ScreenOf[i]
    BY <1>7 DEF DrawTri, OnScreen, GlueInv, GlueTypes, ZoomsOnlyOnce, GlueTypeOK
  <2>2. CASE ~IsCharCreate(i)
    BY <1>7, <2>1, <2>2
       DEF DrawTri, GlueInv, GlueTypes, ZoomsOnlyOnce, GlueTypeOK, Tracking, Scaling
  <2>3. CASE IsCharCreate(i)
    <3>1. /\ tracked' = [tracked EXCEPT !.inst = i, !.race = RaceOf[i]]
          /\ \/ RaceOf[i] = tracked.race /\ UNCHANGED <<zoom, rotBase, lastWritten>>
             \/ /\ RaceOf[i] # tracked.race
                /\ zoom' = [t |-> 0, goal |-> 0] /\ rotBase' = Identity /\ lastWritten' = Identity
      BY <1>7, <2>3 DEF DrawTri, ResetForRace
    <3>2. tracked.onCreate /\ ScreenOf[i] = "create" /\ tracked'.onCreate /\ i = screen.shows
      BY <2>1, <2>3, <3>1 DEF IsCharCreate, HasAttachment29, OnScreen, GlueInv, GlueTypes, Tracking
    <3>3. GlueTypes'
      BY <2>1, <3>1, IdentityIsAMatrix DEF GlueInv, GlueTypes
    <3>4. zoom' \in [t : 0 .. Notches, goal : 0 .. Notches]
      BY <3>1 DEF GlueInv, ZoomsOnlyOnce, GlueTypeOK
    <3>5. GlueTypeOK'
      BY <2>1, <3>3, <3>4 DEF GlueInv, GlueTypes, ZoomsOnlyOnce, GlueTypeOK
    <3>6. ZoomsOnlyOnce'
      BY <2>1, <3>5 DEF GlueInv, ZoomsOnlyOnce
    <3>7. Tracking'
      <4>1. i \in CharModels
        BY <2>3 DEF IsCharCreate, HasAttachment29
      <4>2. tracked'.inst = i /\ tracked'.race = RaceOf[i] /\ tracked'.onCreate = tracked.onCreate
        BY <3>1 DEF GlueInv, GlueTypes
      <4> QED
        BY <2>1, <3>2, <4>1, <4>2 DEF GlueInv, GlueTypes, Tracking
    <3>8. Scaling'
      BY <2>1, <3>1, <3>2, IdentityIsAMatrix DEF GlueInv, GlueTypes, Tracking, Scaling
    <3> QED
      BY <3>3, <3>6, <3>7, <3>8 DEF GlueInv
  <2> QED
    BY <2>2, <2>3
<1>8. CASE DrawIndexedPrimitive
  <2> DEFINE pl == placement[tracked.inst]
             base == IF TakesUp(pl) THEN pl ELSE rotBase
             written == ApplyScale(base, ScaleAt(zoom.t))
  <2>1. base \in Matrices /\ base.scales = <<>>
    BY <1>8 DEF DrawIndexedPrimitive, TakesUp, GlueInv, GlueTypes, Scaling
  <2>2. /\ ScaleAt(zoom.t) \in Seq(Scale) /\ Len(ScaleAt(zoom.t)) <= 1
        /\ \A k \in 1 .. Len(ScaleAt(zoom.t)) : ScaleAt(zoom.t)[k].race = tracked.race
    BY OneScale DEF GlueInv, GlueTypes, ZoomsOnlyOnce, GlueTypeOK
  <2>3. base.scales \o ScaleAt(zoom.t) = ScaleAt(zoom.t)
    <3> HIDE DEF base
    <3>1. base.scales = <<>> /\ ScaleAt(zoom.t) \in Seq(Scale)
      BY <2>1, <2>2
    <3>2. <<>> \o ScaleAt(zoom.t) = ScaleAt(zoom.t)
      BY <3>1, ConcatEmptySeq
    <3> QED
      BY <3>1, <3>2
  <2>4. written \in Matrices /\ written.scales = ScaleAt(zoom.t)
    BY <2>1, <2>2, <2>3 DEF ApplyScale, Matrix, Matrices
  <2>5. /\ rotBase' = base /\ lastWritten' = written
        /\ placement' = [placement EXCEPT ![tracked.inst] = written]
        /\ tracked.inst \in Instances /\ tracked.inst # NoRace
        /\ UNCHANGED <<screen, camera, hooked, dragging, zoom, tracked, fov>>
    BY <1>8 DEF DrawIndexedPrimitive, GlueInv, GlueTypes
  <2> HIDE DEF pl, base, written
  <2> QED
    BY <2>1, <2>2, <2>4, <2>5 DEF GlueInv, GlueTypes, ZoomsOnlyOnce, GlueTypeOK, Tracking, Scaling
<1>9. CASE UNCHANGED glueVars
  BY <1>9 DEF glueVars, GlueInv, GlueTypes, ZoomsOnlyOnce, GlueTypeOK, Tracking, Scaling
<1> QED
  BY <1>1, <1>2, <1>3, <1>4, <1>5, <1>6, <1>7, <1>8, <1>9 DEF GlueNext

(* Only characters of the create screen are ever scaled, once, and by a    *)
(* scale computed for their own race; the field of view is divided once.   *)
THEOREM ZoomsOnlyOnceAlways == GlueSpec => []ZoomsOnlyOnce
<1>1. GlueInv => ZoomsOnlyOnce
  BY DEF GlueInv
<1> QED
  BY GlueInitInv, GlueNextInv, <1>1, PTL DEF GlueSpec

-----------------------------------------------------------------------------
(* The ping wheel.                                                         *)

(* While the wheel is open its anchor is the place it was opened over.     *)
WheelInv ==
    /\ wheel \in [shown : BOOLEAN, tween : {"none", "in", "out"}, selected : Slots \cup {Nothing},
                  armed : BOOLEAN, wasLooking : BOOLEAN, anchor : Points \cup {Nothing}]
    /\ mouse \in [button : BOOLEAN, at : Slots \cup {Nothing}, over : Points \cup {Nothing}]
    /\ looking \in BOOLEAN
    /\ CursorTellsTheTruth
    /\ IsWheelOpen => wheel.anchor = openedAt

LEMMA WheelInitInv == WheelInit => WheelInv
<1> SUFFICES ASSUME WheelInit
             PROVE  WheelInv
    OBVIOUS
<1>1. /\ wheel \in [shown : BOOLEAN, tween : {"none", "in", "out"}, selected : Slots \cup {Nothing},
                    armed : BOOLEAN, wasLooking : BOOLEAN, anchor : Points \cup {Nothing}]
      /\ wheel.selected = Nothing /\ wheel.wasLooking = FALSE /\ ~IsWheelOpen
  BY DEF WheelInit, IsWheelOpen
<1>2. mouse \in [button : BOOLEAN, at : Slots \cup {Nothing}, over : Points \cup {Nothing}]
  BY DEF WheelInit
<1>3. sent.slot = Nothing
  BY DEF WheelInit
<1> QED
  BY <1>1, <1>2, <1>3 DEF WheelInit, WheelInv, CursorTellsTheTruth, WheelTypeOK

(* OpenWheel keeps the invariant, whoever calls it.                        *)
LEMMA OpenWheelKeeps ==
    ASSUME WheelInv, OpenWheel, poller' \in BOOLEAN, UNCHANGED <<mode, sent>>,
           IsWheelOpen => cursor = "pin"
    PROVE  WheelInv'
<1>1. CASE IsWheelOpen
  BY <1>1 DEF OpenWheel, WheelInv, CursorTellsTheTruth, WheelTypeOK, IsWheelOpen
<1>2. CASE ~IsWheelOpen
  BY <1>2 DEF OpenWheel, WheelInv, CursorTellsTheTruth, WheelTypeOK, IsWheelOpen
<1> QED
  BY <1>1, <1>2

(* So does a wheel that closes, with or without a ping, for the slot the   *)
(* cursor points to.                                                       *)
LEMMA ClosedKeeps ==
    ASSUME WheelInv, NEW w, NEW commit \in BOOLEAN, Closed(w, commit),
           w \in [shown : BOOLEAN, tween : {"none", "in", "out"}, selected : Slots \cup {Nothing},
                  armed : BOOLEAN, wasLooking : BOOLEAN, anchor : Points \cup {Nothing}],
           w.anchor = openedAt, commit => w.selected = mouse.at,
           UNCHANGED <<poller, mode, mouse, openedAt>>
    PROVE  WheelInv'
<1>1. /\ wheel' = [w EXCEPT !.tween = "out", !.wasLooking = FALSE, !.selected = Nothing]
      /\ cursor' = "nil" /\ looking' \in BOOLEAN
  BY DEF Closed, ClosedWith, WheelInv
<1>2. /\ wheel' \in [shown : BOOLEAN, tween : {"none", "in", "out"}, selected : Slots \cup {Nothing},
                     armed : BOOLEAN, wasLooking : BOOLEAN, anchor : Points \cup {Nothing}]
      /\ ~IsWheelOpen' /\ wheel'.selected = Nothing /\ ~wheel'.wasLooking
  BY <1>1 DEF IsWheelOpen
<1>3. sent'.slot # Nothing => sent'.slot = sent'.wanted /\ sent'.opened \in {sent'.point, Nothing}
  <2>1. CASE commit /\ w.selected # Nothing /\ Aim(w) # Nothing
    <3>1. sent' = [slot |-> w.selected, point |-> Aim(w), wanted |-> mouse.at, opened |-> openedAt]
      BY <2>1 DEF Closed
    <3>2. sent'.slot = w.selected /\ sent'.point = Aim(w) /\ sent'.wanted = mouse.at /\ sent'.opened = openedAt
      BY <3>1
    <3> QED
      BY <2>1, <3>2 DEF Aim
  <2>2. CASE ~(commit /\ w.selected # Nothing /\ Aim(w) # Nothing)
    BY <2>2 DEF Closed, WheelInv, CursorTellsTheTruth
  <2> QED
    BY <2>1, <2>2
<1> QED
  BY <1>1, <1>2, <1>3 DEF WheelInv, CursorTellsTheTruth, WheelTypeOK

LEMMA WheelNextInv == WheelInv /\ [WheelNext]_wheelVars => WheelInv'
<1> SUFFICES ASSUME WheelInv, [WheelNext]_wheelVars
             PROVE  WheelInv'
    OBVIOUS
<1>1. CASE Update
  <2>1. PICK t \in {wheel.tween, "none"} :
          LET w == [wheel EXCEPT !.tween = t, !.selected = mouse.at, !.armed = mouse.button] IN
          IF ~mouse.button /\ wheel.armed /\ w.selected # Nothing
          THEN Closed(w, TRUE)
          ELSE wheel' = w /\ UNCHANGED <<cursor, looking, sent>>
    BY <1>1 DEF Update
  <2> DEFINE w == [wheel EXCEPT !.tween = t, !.selected = mouse.at, !.armed = mouse.button]
  <2>2. /\ w \in [shown : BOOLEAN, tween : {"none", "in", "out"}, selected : Slots \cup {Nothing},
                  armed : BOOLEAN, wasLooking : BOOLEAN, anchor : Points \cup {Nothing}]
        /\ w.anchor = openedAt /\ w.selected = mouse.at /\ w.shown /\ w.tween # "out"
    BY <1>1 DEF Update, WheelInv, IsWheelOpen
  <2>3. CASE Closed(w, TRUE)
    BY <1>1, <2>2, <2>3, ClosedKeeps DEF Update
  <2>4. CASE wheel' = w /\ UNCHANGED <<cursor, looking, sent>>
    <3>1. IsWheelOpen /\ IsWheelOpen' /\ UNCHANGED <<poller, mode, mouse, openedAt>>
      BY <1>1, <2>2, <2>4 DEF Update, IsWheelOpen
    <3> QED
      BY <2>2, <2>4, <3>1 DEF WheelInv, CursorTellsTheTruth, WheelTypeOK
  <2> QED
    BY <2>1, <2>3, <2>4
<1>2. CASE FadeOut
  BY <1>2 DEF FadeOut, WheelInv, CursorTellsTheTruth, WheelTypeOK, IsWheelOpen
<1>3. CASE OnBinding
  <2>1. CASE IsWheelOpen
    BY <1>3, <2>1, ClosedKeeps DEF OnBinding, CloseWheel, WheelInv, IsWheelOpen
  <2>2. CASE ~IsWheelOpen /\ mode = "direct"
    BY <1>3, <2>2, OpenWheelKeeps DEF OnBinding, WheelInv, CursorTellsTheTruth, WheelTypeOK
  <2>3. CASE ~IsWheelOpen /\ mode # "direct"
    BY <1>3, <2>3 DEF OnBinding, StopPoller, WheelInv, CursorTellsTheTruth, WheelTypeOK, IsWheelOpen
  <2> QED
    BY <2>1, <2>2, <2>3
<1>4. CASE PingAtCursor
  <2>1. CASE IsWheelOpen
    BY <1>4, <2>1, ClosedKeeps DEF PingAtCursor, CloseWheel, WheelInv, IsWheelOpen
  <2>2. CASE ~IsWheelOpen
    BY <1>4, <2>2 DEF PingAtCursor, CloseWheel, WheelInv, CursorTellsTheTruth, WheelTypeOK, IsWheelOpen
  <2> QED
    BY <2>1, <2>2
<1>5. CASE Poll
  <2>1. CASE mouse.button
    BY <1>5, <2>1, OpenWheelKeeps DEF Poll, WheelInv, CursorTellsTheTruth
  <2>2. CASE ~mouse.button
    BY <1>5, <2>2 DEF Poll, WheelInv, CursorTellsTheTruth, WheelTypeOK, IsWheelOpen
  <2> QED
    BY <2>1, <2>2
<1>6. ASSUME NEW m \in {"direct", "relaxed"}, SetMode(m)
      PROVE  WheelInv'
  BY <1>6 DEF SetMode, WheelInv, CursorTellsTheTruth, WheelTypeOK, IsWheelOpen
<1>7. CASE MoveMouse \/ Click \/ Look
  BY <1>7 DEF MoveMouse, Click, Look, WheelInv, CursorTellsTheTruth, WheelTypeOK, IsWheelOpen
<1>8. CASE UNCHANGED wheelVars
  BY <1>8 DEF wheelVars, WheelInv, CursorTellsTheTruth, WheelTypeOK, IsWheelOpen
<1> QED
  BY <1>1, <1>2, <1>3, <1>4, <1>5, <1>6, <1>7, <1>8 DEF WheelNext

(* The cursor is the wheel's exactly while there is a wheel or a poller    *)
(* for it, and a ping goes where the wheel was opened, for the slot the    *)
(* cursor pointed to.                                                      *)
THEOREM CursorTellsTheTruthAlways == WheelSpec => []CursorTellsTheTruth
<1>1. WheelInv => CursorTellsTheTruth
  BY DEF WheelInv
<1> QED
  BY WheelInitInv, WheelNextInv, <1>1, PTL DEF WheelSpec

-----------------------------------------------------------------------------
(* Ping frames.                                                            *)

PingFrameInv ==
    /\ bubble \in [shown : BOOLEAN, world : BOOLEAN, risen : BOOLEAN, clamped : BOOLEAN]
    /\ OneRepresentation

LEMMA FrameInitInv == FrameInit => PingFrameInv
BY DEF FrameInit, PingFrameInv, OneRepresentation, FrameTypeOK, Marker, Pointer

(* An update shows a frame as what it is, whichever frame it starts from.  *)
LEMMA UpdateShowsOne ==
    ASSUME NEW f \in [shown : BOOLEAN, world : BOOLEAN, risen : BOOLEAN, clamped : BOOLEAN],
           NEW last \in {"in", "out", "nil"}, f.shown, Updated(f, last)
    PROVE  PingFrameInv'
<1>1. PICK p \in Projections, done \in BOOLEAN, blip \in BOOLEAN :
         LET g == [f EXCEPT !.clamped = IsClamped(p, last)]
         IN  /\ bubble' = [g EXCEPT !.risen = @ \/ done]
             /\ raw' = RawOf(p, last)
             /\ parts' = ShownWhile(g, RisenParts(g, done)) \cup (IF blip THEN {"blip"} ELSE {})
  BY DEF Updated
<1> DEFINE clamped == IsClamped(p, last)
           g == [f EXCEPT !.clamped = clamped]
<1>2. raw' \in {"in", "out", "nil"}
  BY <1>1 DEF RawOf, Projections, LuaWorldToScreen
<1>3. clamped \in BOOLEAN
  BY DEF IsClamped
<1> HIDE DEF clamped
<1>4. /\ g \in [shown : BOOLEAN, world : BOOLEAN, risen : BOOLEAN, clamped : BOOLEAN]
      /\ g.shown = f.shown /\ g.world = f.world /\ g.risen = f.risen /\ g.clamped = clamped
  BY <1>3
<1> HIDE DEF g
<1>5. /\ bubble' \in [shown : BOOLEAN, world : BOOLEAN, risen : BOOLEAN, clamped : BOOLEAN]
      /\ bubble'.shown = f.shown /\ bubble'.world = f.world /\ bubble'.clamped = clamped
      /\ bubble'.risen <=> f.risen \/ done
  BY <1>1, <1>4 DEF clamped, g
<1> DEFINE shown == ShownWhile(g, RisenParts(g, done))
<1>6. parts' = shown \/ parts' = shown \cup {"blip"}
  BY <1>1 DEF clamped, g
<1>7. CASE clamped
  <2>1. shown = Pointer
    BY <1>4, <1>7 DEF ShownWhile
  <2>2. parts' \ {"blip"} = Pointer /\ parts' \subseteq Marker \cup Pointer \cup {"blip"}
    BY <1>6, <2>1 DEF Pointer
  <2> QED
    BY <1>2, <1>5, <1>7, <2>2 DEF PingFrameInv, OneRepresentation, FrameTypeOK
<1>8. CASE ~clamped
  <2>1. shown = Unclamped(g) \cup RisenParts(g, done)
    BY <1>4, <1>8 DEF ShownWhile, ClampedState
  <2>2. /\ shown \subseteq Marker /\ "bg" \in shown
        /\ "pin" \in shown <=> f.world
        /\ "stroke" \in shown <=> f.risen \/ done
        /\ "flipbook" \in shown <=> f.risen \/ done \/ ~f.world
    BY <1>4, <2>1 DEF Unclamped, RisenParts, Marker
  <2> HIDE DEF shown
  <2>3. /\ parts' \subseteq Marker \cup {"blip"} /\ parts' \cap Pointer = {} /\ "bg" \in parts'
        /\ "pin" \in parts' <=> f.world
        /\ "stroke" \in parts' <=> f.risen \/ done
        /\ "flipbook" \in parts' <=> f.risen \/ done \/ ~f.world
    BY <1>6, <2>2 DEF Marker, Pointer
  <2> QED
    BY <1>2, <1>5, <1>8, <2>3 DEF PingFrameInv, OneRepresentation, FrameTypeOK
<1> QED
  BY <1>7, <1>8

LEMMA FrameNextInv == PingFrameInv /\ [FrameNext]_frameVars => PingFrameInv'
<1> SUFFICES ASSUME PingFrameInv, [FrameNext]_frameVars
             PROVE  PingFrameInv'
    OBVIOUS
<1>1. ASSUME NEW world \in BOOLEAN, ApplyPing(world)
      PROVE  PingFrameInv'
  BY <1>1, UpdateShowsOne DEF ApplyPing, Renewed
<1>2. CASE OnUpdate
  BY <1>2, UpdateShowsOne DEF OnUpdate, PingFrameInv, OneRepresentation, FrameTypeOK
<1>3. CASE Expire
  BY <1>3 DEF Expire, PingFrameInv, OneRepresentation, FrameTypeOK
<1>4. CASE UNCHANGED frameVars
  BY <1>4 DEF frameVars, PingFrameInv, OneRepresentation, FrameTypeOK
<1> QED
  BY <1>1, <1>2, <1>3, <1>4 DEF FrameNext

(* A frame is a pointer or a marker, of the kind of its last ping, however *)
(* the pings before it left the frame.                                     *)
THEOREM OneRepresentationAlways == FrameSpec => []OneRepresentation
<1>1. PingFrameInv => OneRepresentation
  BY DEF PingFrameInv
<1> QED
  BY FrameInitInv, FrameNextInv, <1>1, PTL DEF FrameSpec

-----------------------------------------------------------------------------
(* Moving grass.                                                           *)

(* A device has the shader bound that was asked for or, for the original,  *)
(* the copy that the capture still holds: a copy is dropped only where     *)
(* nothing is bound any more.                                              *)
BoundAsAsked ==
    /\ gpu.asked \in Shaders \cup {NoShader}
    /\ \/ gpu.bound = gpu.asked
       \/ capture.ours # NoShader /\ gpu.bound = capture.ours /\ gpu.asked = capture.engine
CapturesGrass ==
    capture.ours # NoShader => capture.engine \in GrassShaders /\ capture.ours.from = capture.engine

(* The constants are due at the start of a frame, and an upload in the     *)
(* pass that found a player wrote them.                                    *)
ConstantsWritten ==
    /\ pass.on \/ pass.uploaded => pass.done
    /\ ~pass.done => armed.dirty
    /\ armed.player => grassHooks.upload
    /\ armed.player /\ pass.on /\ ~armed.dirty => pass.const = "now"
    /\ armed.player /\ pass.on /\ pass.uploaded => ~armed.dirty
GrassTypes ==
    /\ grassHooks \in [upload : BOOLEAN, bind : BOOLEAN, draw : BOOLEAN]
    /\ armed \in [pending : BOOLEAN, dirty : BOOLEAN, player : BOOLEAN]
    /\ gpu = [number |-> gpu.number, asked |-> gpu.asked, bound |-> gpu.bound]
    /\ capture = [engine |-> capture.engine, ours |-> capture.ours, failed |-> capture.failed]
    /\ pass = [on |-> pass.on, uploaded |-> pass.uploaded, done |-> pass.done, resident |-> pass.resident,
               const |-> pass.const, last |-> pass.last]
    /\ pass.on \in BOOLEAN /\ pass.uploaded \in BOOLEAN /\ pass.done \in BOOLEAN /\ pass.resident \in BOOLEAN
GrassInv == GrassTypes /\ BoundAsAsked /\ CapturesGrass /\ ConstantsWritten /\ OnlyGrassMoves

LEMMA NoDrawIsFine == NoDraw.by = NoShader /\ NoDraw.grass = FALSE
BY DEF NoDraw

LEMMA GrassInitInv == GrassInit => GrassInv
BY NoDrawIsFine
   DEF GrassInit, NoCapture, GrassInv, GrassTypes, BoundAsAsked, CapturesGrass, ConstantsWritten, OnlyGrassMoves

LEMMA GrassNextInv == GrassInv /\ [GrassNext]_grassVars => GrassInv'
<1> SUFFICES ASSUME GrassInv, [GrassNext]_grassVars
             PROVE  GrassInv'
    OBVIOUS
<1> USE DEF GrassInv
<1>1. ASSUME NEW swapped \in [upload : BOOLEAN, bind : BOOLEAN, draw : BOOLEAN], OnEndScene(swapped)
      PROVE  GrassInv'
  <2>1. /\ grassHooks' \in [upload : BOOLEAN, bind : BOOLEAN, draw : BOOLEAN]
        /\ grassHooks.upload => grassHooks'.upload
    BY <1>1 DEF OnEndScene, EnsureHooks, GrassTypes
  <2>2. /\ pass' = [pass EXCEPT !.on = FALSE, !.uploaded = FALSE, !.done = FALSE, !.const = "old", !.last = NoDraw]
        /\ armed' = [armed EXCEPT !.dirty = TRUE] /\ UNCHANGED <<capture, gpu>>
    BY <1>1 DEF OnEndScene
  <2>5. GrassTypes'
    BY <2>1, <2>2 DEF GrassTypes
  <2>6. ConstantsWritten'
    BY <2>1, <2>2, <2>5 DEF GrassTypes, ConstantsWritten
  <2>7. BoundAsAsked' /\ CapturesGrass' /\ OnlyGrassMoves'
    BY <2>1, <2>2, NoDrawIsFine DEF GrassTypes, BoundAsAsked, CapturesGrass, OnlyGrassMoves
  <2> QED
    BY <2>5, <2>6, <2>7
<1>2. CASE BeginPass
  <2>1. GrassTypes'
    BY <1>2 DEF BeginPass, GrassTypes
  <2>2. ConstantsWritten'
    BY <1>2 DEF BeginPass, GrassTypes, ConstantsWritten
  <2>3. BoundAsAsked' /\ CapturesGrass' /\ OnlyGrassMoves'
    BY <1>2 DEF BeginPass, GrassTypes, BoundAsAsked, CapturesGrass, OnlyGrassMoves
  <2> QED
    BY <2>1, <2>2, <2>3
<1>3. CASE PlayerMoves
  <2>1. PICK there \in BOOLEAN : pass' = [pass EXCEPT !.resident = there]
    BY <1>3 DEF PlayerMoves
  <2>2. UNCHANGED <<grassHooks, capture, armed, gpu>>
    BY <1>3 DEF PlayerMoves
  <2>3. GrassTypes'
    BY <2>1, <2>2 DEF GrassTypes
  <2>4. ConstantsWritten'
    BY <2>1, <2>2 DEF GrassTypes, ConstantsWritten
  <2>5. BoundAsAsked' /\ CapturesGrass' /\ OnlyGrassMoves'
    BY <2>1, <2>2 DEF GrassTypes, BoundAsAsked, CapturesGrass, OnlyGrassMoves
  <2> QED
    BY <2>3, <2>4, <2>5
<1>4. CASE hkChunkUpload
  <2>1. CASE ~grassHooks.upload
    <3>5. GrassTypes'
      BY <1>4, <2>1 DEF hkChunkUpload, GrassTypes
    <3>6. ConstantsWritten'
      BY <1>4, <2>1, <3>5 DEF hkChunkUpload, GrassTypes, ConstantsWritten
    <3>7. BoundAsAsked' /\ CapturesGrass' /\ OnlyGrassMoves'
      BY <1>4, <2>1, NoDrawIsFine DEF hkChunkUpload, GrassTypes, BoundAsAsked, CapturesGrass, OnlyGrassMoves
    <3> QED
      BY <3>5, <3>6, <3>7
  <2>2. CASE grassHooks.upload /\ armed.dirty
    <3>1. /\ armed' = [pending |-> TRUE, dirty |-> FALSE, player |-> pass.resident]
          /\ pass' = [pass EXCEPT !.uploaded = TRUE, !.const = WriteFrameConstants(pass.const)]
          /\ pass.resident => WriteFrameConstants(pass.const) = "now"
          /\ UNCHANGED <<grassHooks, capture, gpu>>
      BY <1>4, <2>2 DEF hkChunkUpload, WriteFrameConstants, ReadPlayer
    <3>2. GrassTypes'
      BY <3>1 DEF GrassTypes
    <3>3. ConstantsWritten'
      BY <1>4, <2>2, <3>1 DEF hkChunkUpload, GrassTypes, ConstantsWritten
    <3>4. BoundAsAsked' /\ CapturesGrass' /\ OnlyGrassMoves'
      BY <3>1 DEF GrassTypes, BoundAsAsked, CapturesGrass, OnlyGrassMoves
    <3> QED
      BY <3>2, <3>3, <3>4
  <2>3. CASE grassHooks.upload /\ ~armed.dirty
    <3>1. /\ armed' = [pending |-> TRUE, dirty |-> FALSE, player |-> armed.player]
          /\ pass' = [pass EXCEPT !.uploaded = TRUE]
          /\ UNCHANGED <<grassHooks, capture, gpu>>
      BY <1>4, <2>3 DEF hkChunkUpload, GrassTypes
    <3>2. GrassTypes'
      BY <3>1 DEF GrassTypes
    <3>3. ConstantsWritten'
      BY <1>4, <2>3, <3>1 DEF hkChunkUpload, GrassTypes, ConstantsWritten
    <3>4. BoundAsAsked' /\ CapturesGrass' /\ OnlyGrassMoves'
      BY <3>1 DEF GrassTypes, BoundAsAsked, CapturesGrass, OnlyGrassMoves
    <3> QED
      BY <3>2, <3>3, <3>4
  <2> QED
    BY <2>1, <2>2, <2>3
<1>5. ASSUME NEW s \in Shaders, hkSetVertexShader(s)
      PROVE  GrassInv'
  <2>1. /\ gpu'.asked = s /\ gpu'.number = gpu.number
        /\ gpu' = [number |-> gpu'.number, asked |-> gpu'.asked, bound |-> gpu'.bound]
        /\ \/ gpu'.bound = s
           \/ s = capture.engine /\ capture.ours # NoShader /\ gpu'.bound = capture.ours
        /\ UNCHANGED <<grassHooks, capture, armed, pass>>
    BY <1>5 DEF hkSetVertexShader, GrassTypes
  <2> QED
    BY <2>1 DEF GrassTypes, BoundAsAsked, CapturesGrass, ConstantsWritten, OnlyGrassMoves
<1>6. ASSUME NEW grass \in BOOLEAN, NEW succeeds \in BOOLEAN, hkDIP(grass, succeeds)
      PROVE  GrassInv'
  <2> DEFINE s == gpu.bound
             call == [grass |-> grass, by |-> s, asked |-> gpu.asked, const |-> pass.const, player |-> armed.player]
  <2>1. /\ gpu.asked \in IF grass THEN GrassShaders ELSE OtherShaders
        /\ grass => pass.on /\ pass.uploaded
        /\ pass' = [pass EXCEPT !.last = call] /\ UNCHANGED <<grassHooks, gpu>>
    BY <1>6 DEF hkDIP
  <2>2. \/ /\ armed' = [armed EXCEPT !.pending = FALSE] /\ grass
           /\ \/ UNCHANGED capture
              \/ /\ s \notin {capture.ours, capture.engine, capture.failed}
                 /\ capture' = BuildReplacement(s, succeeds)
        \/ UNCHANGED <<armed, capture>>
    BY <1>6 DEF hkDIP, Identified
  <2>3. CapturesGrass' /\ BoundAsAsked'
        /\ capture' = [engine |-> capture'.engine, ours |-> capture'.ours, failed |-> capture'.failed]
    BY <2>1, <2>2 DEF BuildReplacement, Ours, GrassTypes, CapturesGrass, BoundAsAsked
  <2>4. /\ call.grass /\ call.player => call.const = "now"
        /\ IsOurs(s) /\ s # NoShader => call.grass /\ s.from = gpu.asked
    BY <2>1, GrassAssumption
       DEF GrassAssumption, Shaders, IsOurs, GrassTypes, BoundAsAsked, CapturesGrass, ConstantsWritten
  <2>5. pass'.last = call
    BY <2>1 DEF GrassTypes
  <2>6. OnlyGrassMoves'
    BY <2>1, <2>3, <2>4, <2>5 DEF OnlyGrassMoves, IsOurs, CapturesGrass
  <2>7. GrassTypes' /\ ConstantsWritten'
    BY <2>1, <2>2, <2>3 DEF GrassTypes, ConstantsWritten
  <2> QED
    BY <2>3, <2>6, <2>7
<1>7. CASE OnDeviceReset
  BY <1>7, NoDrawIsFine
     DEF OnDeviceReset, NoCapture, GrassTypes, BoundAsAsked, CapturesGrass, ConstantsWritten, OnlyGrassMoves
<1>8. CASE NewDevice
  BY <1>8, NoDrawIsFine
     DEF NewDevice, GrassTypes, BoundAsAsked, CapturesGrass, ConstantsWritten, OnlyGrassMoves
<1>9. CASE UNCHANGED grassVars
  BY <1>9 DEF grassVars, GrassTypes, BoundAsAsked, CapturesGrass, ConstantsWritten, OnlyGrassMoves
<1> QED
  BY <1>1, <1>2, <1>3, <1>4, <1>5, <1>6, <1>7, <1>8, <1>9 DEF GrassNext

(* Only grass is drawn with the copy, which is never a copy of a copy, and *)
(* with constants of its own frame where there is a player.                *)
THEOREM OnlyGrassMovesAlways == GrassSpec => []OnlyGrassMoves
<1>1. GrassInv => OnlyGrassMoves
  BY DEF GrassInv
<1> QED
  BY GrassInitInv, GrassNextInv, <1>1, PTL DEF GrassSpec

-----------------------------------------------------------------------------
(* The way of a ping.  Its proof needs what is at each place of a packet:  *)
(* that a length and then a name can be read back, and that a packet which *)
(* was cut or goes on cannot be.                                           *)

(* What can be written, and what a ping that can be written is.            *)
Spots == Places \cup {"nan", "far", "unit", "nil"}
Halves == {0} \cup {guid[1] : guid \in UnitGuids} \cup {guid[2] : guid \in UnitGuids}
Wire == Characters \cup ({"type", "first", "last", "half", "length"} \X (Nat \cup Spots \cup Halves))
ShortNames == {name \in Seq(Characters) : Len(name) <= MaxUnitName}
Pings == [type : 0 .. 3, place : Spots, guid : UnitGuids \cup {NoGuid}, name : ShortNames]

Packet(u) == Head5(u) \o AppendString(u.name)

(* What is at each place of a packet.                                      *)
HoldsName(bytes, at, name) ==
    /\ at + Len(name) <= Len(bytes) /\ bytes[at][2] = Len(name)
    /\ \A i \in 1 .. Len(name) : bytes[at + i] = name[i]
HoldsHead(bytes, u) ==
    /\ bytes \in Seq(Wire) /\ bytes[1][2] = u.type /\ bytes[2][2] = u.place
    /\ bytes[4][2] = u.guid[1] /\ bytes[5][2] = u.guid[2]

(* all is s and then t.                                                    *)
Joined2(all, s, t, n, m) ==
    /\ Len(all) = n + m
    /\ \A i \in 1 .. n : all[i] = s[i]
    /\ \A i \in 1 .. m : all[n + i] = t[i]

LEMMA Joints ==
    ASSUME NEW S, NEW s \in Seq(S), NEW t \in Seq(S), NEW n \in Nat, NEW m \in Nat, Len(s) = n, Len(t) = m
    PROVE  s \o t \in Seq(S) /\ Joined2(s \o t, s, t, n, m)
<1> DEFINE all == s \o t
<1>1. /\ all \in Seq(S) /\ Len(all) = n + m
      /\ \A i \in 1 .. n + m : all[i] = IF i <= n THEN s[i] ELSE t[i - n]
  BY ConcatProperties
<1> HIDE DEF all
<1>2. \A i \in 1 .. n : all[i] = s[i]
  BY <1>1
<1>3. ASSUME NEW i \in 1 .. m PROVE all[n + i] = t[i]
  <2>1. n + i \in 1 .. n + m /\ ~(n + i <= n) /\ (n + i) - n = i
    OBVIOUS
  <2>2. QED
    BY <1>1, <2>1
<1>4. QED
  BY <1>1, <1>2, <1>3 DEF all, Joined2

LEMMA AppendStringShape ==
    ASSUME PingAssumption, NEW bytes \in Seq(Wire), NEW name \in ShortNames, NEW n, n = Len(bytes)
    PROVE  LET all == bytes \o AppendString(name) IN
           /\ all \in Seq(Wire) /\ Len(all) = n + 1 + Len(name) /\ HoldsName(all, n + 1, name)
           /\ \A i \in 1 .. n : all[i] = bytes[i]
<1> DEFINE head == <<<<"length", Len(name)>>>>
           tail == head \o name
           all == bytes \o tail
<1>1. name \in Seq(Wire) /\ Len(name) \in Nat /\ n \in Nat
  <2>1. Characters \subseteq Wire
    BY DEF Wire
  <2>2. QED
    BY <2>1 DEF ShortNames
<1>2. head \in Seq(Wire) /\ Len(head) = 1 /\ head[1] = <<"length", Len(name)>>
  BY <1>1 DEF Wire
<1> HIDE DEF head
<1>3. /\ tail \in Seq(Wire) /\ Len(tail) = 1 + Len(name) /\ tail[1] = <<"length", Len(name)>>
      /\ \A i \in 1 .. Len(name) : tail[1 + i] = name[i]
  <2>1. tail \in Seq(Wire) /\ Joined2(tail, head, name, 1, Len(name))
    BY <1>1, <1>2, Joints
  <2>2. 1 \in 1 .. 1
    OBVIOUS
  <2>3. QED
    BY <1>2, <2>1, <2>2 DEF Joined2
<1>4. AppendString(name) = tail
  BY DEF AppendString, tail, head
<1> HIDE DEF tail
<1>5. all \in Seq(Wire) /\ Joined2(all, bytes, tail, n, 1 + Len(name))
  <2>1. 1 + Len(name) \in Nat
    BY <1>1
  <2>2. QED
    BY <1>1, <1>3, <2>1, Joints
<1> HIDE DEF all
<1>6. HoldsName(all, n + 1, name)
  <2>1. all[n + 1] = tail[1]
    <3>1. 1 \in 1 .. 1 + Len(name)
      BY <1>1
    <3>2. \A i \in 1 .. 1 + Len(name) : all[n + i] = tail[i]
      BY <1>5 DEF Joined2
    <3>3. QED
      BY <3>1, <3>2
  <2>2. \A i \in 1 .. Len(name) : all[n + 1 + i] = name[i]
    <3>1. SUFFICES ASSUME NEW i \in 1 .. Len(name) PROVE all[n + 1 + i] = name[i]
      OBVIOUS
    <3>2. 1 + i \in 1 .. 1 + Len(name) /\ n + (1 + i) = n + 1 + i
      BY <1>1
    <3>3. QED
      BY <1>3, <1>5, <3>2 DEF Joined2
  <2>3. n + 1 + Len(name) <= Len(all)
    BY <1>1, <1>5 DEF Joined2
  <2>4. QED
    BY <1>3, <2>1, <2>2, <2>3 DEF HoldsName
<1>7. Len(all) = n + 1 + Len(name)
  BY <1>1, <1>5 DEF Joined2
<1>8. QED
  BY <1>4, <1>5, <1>6, <1>7 DEF all, Joined2

LEMMA Head5Shape ==
    ASSUME PingAssumption, NEW u \in Pings
    PROVE  HoldsHead(Head5(u), u) /\ Len(Head5(u)) = 5
<1> DEFINE a == <<<<"type", u.type>>>>
           b == <<<<"first", u.place>>, <<"last", u.place>>>>
           c == <<<<"half", u.guid[1]>>, <<"half", u.guid[2]>>>>
<1>1. Head5(u) = (a \o b) \o c
  BY DEF Head5, PlaceBytes, Half
<1>2. u.type \in Nat /\ u.place \in Spots /\ u.guid[1] \in Halves /\ u.guid[2] \in Halves
  BY DEF Pings, Halves, NoGuid
<1>3. a \in Seq(Wire) /\ Len(a) = 1 /\ a[1][2] = u.type
  BY <1>2 DEF Wire
<1>4. b \in Seq(Wire) /\ Len(b) = 2 /\ b[1][2] = u.place
  BY <1>2 DEF Wire
<1>5. c \in Seq(Wire) /\ Len(c) = 2 /\ c[1][2] = u.guid[1] /\ c[2][2] = u.guid[2]
  BY <1>2 DEF Wire
<1> DEFINE ab == a \o b
           abc == ab \o c
<1> HIDE DEF a, b, c
<1>6. ab \in Seq(Wire) /\ Joined2(ab, a, b, 1, 2)
  BY <1>3, <1>4, Joints
<1> HIDE DEF ab
<1>7. 1 + 2 = 3 /\ 1 + 1 = 2 /\ 3 + 2 = 5 /\ 3 + 1 = 4 /\ 1 \in 1 .. 1 /\ 1 \in 1 .. 2 /\ 2 \in 1 .. 2 /\ 1 \in 1 .. 3 /\ 2 \in 1 .. 3
  OBVIOUS
<1>8. ab \in Seq(Wire) /\ Len(ab) = 3 /\ ab[1][2] = u.type /\ ab[2][2] = u.place
  BY <1>3, <1>4, <1>6, <1>7 DEF Joined2
<1>9. abc \in Seq(Wire) /\ Joined2(abc, ab, c, 3, 2)
  BY <1>5, <1>8, Joints
<1> HIDE DEF abc
<1>10. Len(abc) = 5 /\ HoldsHead(abc, u)
  BY <1>5, <1>7, <1>8, <1>9 DEF HoldsHead, Joined2
<1>11. QED
  BY <1>1, <1>10 DEF ab, abc

LEMMA PacketShape ==
    ASSUME PingAssumption, NEW u \in Pings, NEW n \in Nat, n = Len(u.name)
    PROVE  /\ HoldsHead(Packet(u), u) /\ Len(Packet(u)) = 6 + n /\ HoldsName(Packet(u), 6, u.name)
<1> DEFINE h == Head5(u)
           all == h \o AppendString(u.name)
<1>1. HoldsHead(h, u) /\ Len(h) = 5 /\ h \in Seq(Wire)
  BY Head5Shape DEF HoldsHead
<1>2. u.name \in ShortNames
  BY DEF Pings
<1> HIDE DEF h
<1>3. /\ all \in Seq(Wire) /\ Len(all) = 5 + 1 + Len(u.name) /\ HoldsName(all, 5 + 1, u.name)
      /\ \A i \in 1 .. 5 : all[i] = h[i]
  BY <1>1, <1>2, AppendStringShape
<1> HIDE DEF all
<1>4. 5 + 1 = 6 /\ 1 \in 1 .. 5 /\ 2 \in 1 .. 5 /\ 4 \in 1 .. 5 /\ 5 \in 1 .. 5
  OBVIOUS
<1>5. HoldsHead(all, u)
  BY <1>1, <1>3, <1>4 DEF HoldsHead
<1>6. Len(all) = 6 + n /\ HoldsName(all, 6, u.name)
  BY <1>3, <1>4
<1>7. QED
  BY <1>5, <1>6 DEF Packet, all, h

LEMMA ResponseShape ==
    ASSUME PingAssumption, NEW u \in Pings, NEW from \in ShortNames,
           NEW n \in Nat, n = Len(u.name), NEW m \in Nat, m = Len(from)
    PROVE  LET all == Response(u, from) IN
           /\ HoldsHead(all, u) /\ Len(all) = 7 + n + m
           /\ HoldsName(all, 6, u.name) /\ HoldsName(all, 7 + n, from)
<1> DEFINE p == Packet(u)
           all == p \o AppendString(from)
<1>1. HoldsHead(p, u) /\ Len(p) = 6 + n /\ HoldsName(p, 6, u.name) /\ p \in Seq(Wire)
  BY PacketShape DEF HoldsHead
<1>2. Response(u, from) = all
  BY DEF Response, Packet
<1> HIDE DEF p
<1>3. /\ all \in Seq(Wire) /\ Len(all) = 6 + n + 1 + Len(from) /\ HoldsName(all, 6 + n + 1, from)
      /\ \A i \in 1 .. 6 + n : all[i] = p[i]
  <2>1. 6 + n = Len(p)
    BY <1>1
  <2>2. QED
    BY <1>1, <2>1, AppendStringShape
<1> HIDE DEF all
<1>4. 6 + n + 1 = 7 + n /\ 1 \in 1 .. 6 + n /\ 2 \in 1 .. 6 + n /\ 4 \in 1 .. 6 + n /\ 5 \in 1 .. 6 + n /\ 6 \in 1 .. 6 + n
  OBVIOUS
<1>5. HoldsHead(all, u)
  BY <1>1, <1>3, <1>4 DEF HoldsHead
<1>6. HoldsName(all, 6, u.name)
  <2>1. \A i \in 1 .. n : 6 + i \in 1 .. 6 + n
    OBVIOUS
  <2>2. 6 + n <= Len(all)
    BY <1>3, <1>4
  <2>3. QED
    BY <1>1, <1>3, <1>4, <2>1, <2>2 DEF HoldsName
<1>7. Len(all) = 7 + n + m /\ HoldsName(all, 7 + n, from)
  BY <1>3, <1>4
<1>8. QED
  BY <1>2, <1>5, <1>6, <1>7

LEMMA ReadsName ==
    ASSUME PingAssumption, NEW bytes \in Seq(Wire), NEW at \in Nat \ {0}, NEW name \in ShortNames, HoldsName(bytes, at, name)
    PROVE  ReadString(bytes, at) = [ok |-> TRUE, value |-> name, next |-> at + Len(name) + 1]
<1>1. PICK n \in Nat : n = Len(name) /\ n <= MaxUnitName
  BY DEF ShortNames
<1>2. PICK len \in Nat : len = Len(bytes)
  OBVIOUS
<1>3. at + n <= len /\ bytes[at][2] = n /\ \A i \in 1 .. n : bytes[at + i] = name[i]
  BY <1>1, <1>2 DEF HoldsName
<1> DEFINE part == SubSeq(bytes, at + 1, at + n)
<1>4. \A i \in at + 1 .. at + n : bytes[i] \in Wire
  <2>1. \A i \in at + 1 .. at + n : i \in 1 .. len
    BY <1>3
  <2>2. QED
    BY <1>2, <2>1
<1>5. part \in Seq(Wire) /\ Len(part) = n /\ \A i \in 1 .. n : part[i] = bytes[at + i]
  <2>1. /\ part \in Seq(Wire)
        /\ Len(part) = IF at + 1 <= at + n THEN at + n - (at + 1) + 1 ELSE 0
        /\ \A i \in 1 .. at + n - (at + 1) + 1 : part[i] = bytes[at + 1 + i - 1]
    BY <1>4, SubSeqProperties
  <2>2. at + n - (at + 1) + 1 = n /\ (at + 1 <= at + n <=> n # 0) /\ \A i \in 1 .. n : at + 1 + i - 1 = at + i
    OBVIOUS
  <2> HIDE DEF part
  <2>3. QED
    BY <2>1, <2>2
<1> HIDE DEF part
<1>6. part = name
  <2>1. name \in Seq(Characters)
    BY DEF ShortNames
  <2>2. \A i \in 1 .. Len(part) : part[i] = name[i]
    BY <1>3, <1>5
  <2>3. Len(part) = Len(name)
    BY <1>1, <1>5
  <2>4. QED
    BY ONLY <1>5, <2>1, <2>2, <2>3, SeqEqual
<1>7. at <= len /\ at + n + 1 = at + Len(name) + 1
  BY <1>1, <1>3
<1>8. QED
  BY <1>1, <1>2, <1>3, <1>6, <1>7 DEF ReadString, part

LEMMA ReadFails ==
    ASSUME NEW bytes, NEW at \in Nat, NEW n \in Nat, NEW len \in Nat, len = Len(bytes),
           at > len \/ (bytes[at][2] = n /\ at + n > len)
    PROVE  ~ReadString(bytes, at).ok
<1>1. ~(at <= len /\ bytes[at][2] <= MaxUnitName /\ at + bytes[at][2] <= len)
  OBVIOUS
<1>2. ReadString(bytes, at) = Bad
  BY <1>1 DEF ReadString
<1>3. QED
  BY <1>2 DEF Bad

LEMMA ShortNamesOf ==
    ASSUME PingAssumption
    PROVE  /\ \A name \in Seq(Characters) : Shortened(name) \in ShortNames
           /\ \A name \in ShortNames : Clean(name) \in ShortNames
           /\ << >> \in ShortNames
<1>1. ASSUME NEW name \in Seq(Characters) PROVE Shortened(name) \in ShortNames
  <2>1. PICK n \in Nat : n = Len(name) /\ DOMAIN name = 1 .. n
    OBVIOUS
  <2>2. PICK k \in Nat : k <= MaxUnitName /\ DOMAIN name \cap (1 .. MaxUnitName) = 1 .. k /\ k <= n
    <3>1. CASE n <= MaxUnitName
      <4>1. DOMAIN name \cap (1 .. MaxUnitName) = 1 .. n
        BY <2>1, <3>1 DEF PingAssumption
      <4>2. QED
        BY <3>1, <4>1
    <3>2. CASE ~(n <= MaxUnitName)
      <4>1. DOMAIN name \cap (1 .. MaxUnitName) = 1 .. MaxUnitName
        BY <2>1, <3>2 DEF PingAssumption
      <4>2. QED
        BY <3>2, <4>1 DEF PingAssumption
    <3>3. QED
      BY <3>1, <3>2
  <2>3. Shortened(name) = [i \in 1 .. k |-> name[i]]
    BY <2>2 DEF Shortened
  <2>4. \A i \in 1 .. k : name[i] \in Characters
    BY <2>1, <2>2
  <2>5. Shortened(name) \in Seq(Characters) /\ Len(Shortened(name)) = k
    BY <2>3, <2>4
  <2>6. QED
    BY <2>2, <2>5 DEF ShortNames
<1>2. ASSUME NEW name \in ShortNames PROVE Clean(name) \in ShortNames
  <2>1. PICK n \in Nat : n = Len(name) /\ DOMAIN name = 1 .. n /\ n <= MaxUnitName
    BY DEF ShortNames
  <2>2. \A i \in 1 .. n : name[i] \in Characters
    BY <2>1 DEF ShortNames
  <2>3. Clean(name) = [i \in 1 .. n |-> IF name[i] = Colon THEN Blank ELSE name[i]]
    BY <2>1 DEF Clean
  <2>4. Clean(name) \in Seq(Characters) /\ Len(Clean(name)) = n
    BY <2>2, <2>3 DEF PingAssumption
  <2>5. QED
    BY <2>1, <2>4 DEF ShortNames
<1>3. << >> \in ShortNames
  BY DEF ShortNames, PingAssumption
<1>4. QED
  BY <1>1, <1>2, <1>3

LEMMA GuidIsPair ==
    ASSUME PingAssumption, NEW u \in Pings
    PROVE  u.guid = <<u.guid[1], u.guid[2]>>
<1>1. u.guid \in UnitGuids \/ u.guid = <<0, 0>>
  BY DEF Pings, NoGuid
<1>2. QED
  BY <1>1 DEF PingAssumption

Says(u, from) == [type |-> u.type, place |-> u.place, guid |-> u.guid, name |-> u.name, sender |-> from]

(* Of a packet that was cut short or goes on nothing is heard.             *)
LEMMA HearsOnlyWhole ==
    ASSUME PingAssumption, NEW u \in Pings, NEW from \in ShortNames, NEW bytes \in Altered(Response(u, from)), NEW meant
    PROVE  \/ OnServerPing(bytes, meant) = received
           \/ /\ bytes = Response(u, from)
              /\ OnServerPing(bytes, meant) = [means |-> meant, at |-> "picked", says |-> Says(u, from)]
<1> DEFINE all == Response(u, from)
           first == ReadString(bytes, 6)
           second == ReadString(bytes, first.next)
<1>1. PICK n, m \in Nat : n = Len(u.name) /\ m = Len(from)
  BY DEF Pings, ShortNames
<1>2. /\ HoldsHead(all, u) /\ Len(all) = 7 + n + m /\ HoldsName(all, 6, u.name) /\ HoldsName(all, 7 + n, from)
      /\ all \in Seq(Wire)
  BY <1>1, ResponseShape DEF HoldsHead
<1>3. OnServerPing(bytes, meant) # received =>
         /\ first.ok /\ second.ok /\ second.next = Len(bytes) + 1
         /\ OnServerPing(bytes, meant) =
              [means |-> meant, at |-> "picked",
               says |-> PullOne(LuaPopServerPing(Joined(ReadHead(bytes), [name |-> first.value, sender |-> second.value])))]
  BY DEF OnServerPing, FixedResponse, Complete
<1>4. u.name \in ShortNames
  BY DEF Pings
<1> HIDE DEF all
<1>5. ASSUME NEW b \in Seq(Wire), HoldsName(b, 6, u.name), HoldsName(b, 7 + n, from)
      PROVE  /\ ReadString(b, 6) = [ok |-> TRUE, value |-> u.name, next |-> 7 + n]
             /\ ReadString(b, 7 + n) = [ok |-> TRUE, value |-> from, next |-> 8 + n + m]
  <2>1. 6 + n + 1 = 7 + n /\ 7 + n + m + 1 = 8 + n + m /\ 6 \in Nat \ {0} /\ 7 + n \in Nat \ {0}
    OBVIOUS
  <2>2. ReadString(b, 6) = [ok |-> TRUE, value |-> u.name, next |-> 6 + n + 1]
    BY <1>1, <1>4, <1>5, <2>1, ReadsName
  <2>3. ReadString(b, 7 + n) = [ok |-> TRUE, value |-> from, next |-> 7 + n + m + 1]
    BY <1>1, <1>5, <2>1, ReadsName
  <2>4. QED
    BY <2>1, <2>2, <2>3
<1>6. CASE bytes = all
  <2>1. first = [ok |-> TRUE, value |-> u.name, next |-> 7 + n] /\ second = [ok |-> TRUE, value |-> from, next |-> 8 + n + m]
    <3>1. /\ ReadString(bytes, 6) = [ok |-> TRUE, value |-> u.name, next |-> 7 + n]
          /\ ReadString(bytes, 7 + n) = [ok |-> TRUE, value |-> from, next |-> 8 + n + m]
      BY <1>2, <1>5, <1>6
    <3>2. first.next = 7 + n
      BY <3>1
    <3>3. QED
      BY <3>1, <3>2
  <2>2. ReadHead(bytes) = [type |-> u.type, place |-> u.place, guid |-> u.guid]
    BY <1>2, <1>6, GuidIsPair DEF ReadHead, HoldsHead
  <2>3. Joined(ReadHead(bytes), [name |-> first.value, sender |-> second.value]) = Says(u, from)
    BY <2>1, <2>2 DEF Joined, Says
  <2>4. PullOne(LuaPopServerPing(Says(u, from))) = Says(u, from)
    BY GuidIsPair DEF PullOne, LuaPopServerPing, Says
  <2>5. QED
    BY <1>3, <1>6, <2>3, <2>4 DEF all
<1>7. CASE bytes = all \o <<Letter>>
  <2>1. <<Letter>> \in Seq(Wire) /\ Len(<<Letter>>) = 1
    BY DEF PingAssumption, Wire
  <2>2. PICK one \in Seq(Wire) : one = <<Letter>> /\ Len(one) = 1
    BY <2>1
  <2>3. bytes \in Seq(Wire) /\ Joined2(bytes, all, one, 7 + n + m, 1)
    <3>1. 7 + n + m \in Nat /\ 1 \in Nat /\ Len(all) = 7 + n + m /\ all \in Seq(Wire) /\ bytes = all \o one
      BY <1>2, <1>7, <2>2
    <3>2. QED
      BY <2>2, <3>1, Joints
  <2>4. /\ Len(bytes) = 7 + n + m + 1
        /\ \A i \in 1 .. 7 + n + m : bytes[i] = all[i]
    BY <2>3 DEF Joined2
  <2>5. /\ 6 \in 1 .. 7 + n + m /\ 7 + n \in 1 .. 7 + n + m
        /\ \A i \in 1 .. n : 6 + i \in 1 .. 7 + n + m
        /\ \A i \in 1 .. m : 7 + n + i \in 1 .. 7 + n + m
        /\ 6 + n <= 7 + n + m + 1 /\ 7 + n + m <= 7 + n + m + 1 /\ 8 + n + m # 7 + n + m + 1 + 1
    OBVIOUS
  <2>6. HoldsName(bytes, 6, u.name) /\ HoldsName(bytes, 7 + n, from)
    BY <1>1, <1>2, <2>4, <2>5 DEF HoldsName
  <2>7. second.next = 8 + n + m
    BY <1>5, <2>3, <2>6
  <2>8. QED
    BY <1>3, <2>4, <2>5, <2>7
<1>8. ASSUME NEW k \in 0 .. Len(all) - 1, bytes = SubSeq(all, 1, k) PROVE ~first.ok \/ ~second.ok
  <2>1. k \in Nat /\ k < 7 + n + m
    BY <1>2, <1>8
  <2>2. bytes \in Seq(Wire) /\ Len(bytes) = k /\ \A i \in 1 .. k : bytes[i] = all[i]
    <3>1. \A i \in 1 .. k : all[i] \in Wire
      <4>1. \A i \in 1 .. k : i \in 1 .. 7 + n + m
        BY <2>1
      <4>2. QED
        BY <1>2, <4>1
    <3>2. /\ SubSeq(all, 1, k) \in Seq(Wire)
          /\ Len(SubSeq(all, 1, k)) = IF 1 <= k THEN k - 1 + 1 ELSE 0
          /\ \A i \in 1 .. k - 1 + 1 : SubSeq(all, 1, k)[i] = all[1 + i - 1]
      BY <2>1, <3>1, SubSeqProperties
    <3>3. k - 1 + 1 = k /\ (~(1 <= k) => k = 0) /\ \A i \in 1 .. k : 1 + i - 1 = i
      BY <2>1
    <3>4. QED
      BY <1>8, <3>2, <3>3
  <2>3. CASE 6 + n > k
    <3>1. 6 > k \/ bytes[6][2] = n
      BY <1>1, <1>2, <2>1, <2>2 DEF HoldsName
    <3>2. QED
      BY <2>1, <2>2, <2>3, <3>1, ReadFails
  <2>4. CASE ~(6 + n > k)
    <3>1. HoldsName(bytes, 6, u.name)
      <4>1. 6 \in 1 .. k /\ (\A i \in 1 .. n : 6 + i \in 1 .. k) /\ 6 + n <= k
        BY <2>1, <2>4
      <4>2. QED
        BY <1>1, <1>2, <2>2, <4>1 DEF HoldsName
    <3>2. 6 + n + 1 = 7 + n /\ 6 \in Nat \ {0} /\ 7 + n \in Nat /\ 7 + n + m > k
      BY <2>1
    <3>3. first.next = 7 + n
      BY <1>1, <1>4, <2>2, <3>1, <3>2, ReadsName
    <3>4. 7 + n > k \/ bytes[7 + n][2] = m
      <4>1. all[7 + n][2] = m
        BY <1>1, <1>2 DEF HoldsName
      <4>2. ~(7 + n > k) => 7 + n \in 1 .. k
        BY <2>1
      <4>3. QED
        BY <2>2, <4>1, <4>2
    <3>5. ~ReadString(bytes, 7 + n).ok
      BY <2>1, <2>2, <3>2, <3>4, ReadFails
    <3>6. QED
      BY <3>3, <3>5
  <2>5. QED
    BY <2>3, <2>4
<1>9. QED
  BY <1>3, <1>6, <1>7, <1>8 DEF Altered, all

Targets == [place : Places, guid : UnitGuids \cup {NoGuid}]

(* What is under way is the packet of a ping, with the subject it was made *)
(* for; and what was heard is what the server meant.                       *)
Sent(r) ==
    \E u \in Pings :
        /\ r.bytes = Packet(u) /\ r.aimed = TRUE
        /\ \/ r.means = u
           \/ \E subject : r.means = Joined(u, [subject |-> subject]) /\ PingNames[u.type + 1] = subject
HeardAsMeant(r) ==
    /\ r = [means |-> r.means, says |-> r.says, at |-> r.at]
    /\ \/ r.means = << >> /\ r.says = << >> /\ r.at = "picked"
       \/ /\ r.means.intact = TRUE
          /\ \A field \in DOMAIN r.says : r.says[field] = r.means[field]
          /\ FollowsUnit(r.says) => r.says.place = "unit"

PingInv ==
    /\ under \in Things
    /\ hit = NoHit \/ (fresh = TRUE /\ hit \in Targets)
    /\ request = NoRequest \/ Sent(request)
    /\ HeardAsMeant(received)

LEMMA PingInitInv == ApiInit => PingInv
BY DEF ApiInit, PingInv, Things, HeardAsMeant, NoUpdate

LEMMA PickedTarget ==
    ASSUME PingAssumption, under \in Things
    PROVE  LuaPickCursor = NoHit \/ LuaPickCursor \in Targets
BY DEF Things, LuaPickCursor, Targets

LEMMA FiniteTarget ==
    ASSUME PingAssumption, NEW target \in Targets
    PROVE  Finite(target.place) /\ target.place \in Spots /\ target.guid \in UnitGuids \cup {NoGuid}
BY DEF Targets, Finite, PingAssumption, Spots

LEMMA SendsPing ==
    ASSUME PingAssumption, NEW t \in Nat, NEW place \in Spots, NEW guid \in UnitGuids \cup {NoGuid}, NEW name \in Seq(Characters),
           t % 256 <= 3, Finite(place)
    PROVE  \E u \in Pings : /\ LuaSendServerPing(t, place, guid, name) = [bytes |-> Packet(u), means |-> u, aimed |-> TRUE]
                            /\ u.type = t % 256
<1> DEFINE u == [type |-> Byte(t), place |-> place, guid |-> guid, name |-> Clean(Shortened(name))]
<1>1. Clean(Shortened(name)) \in ShortNames
  BY ShortNamesOf
<1>2. Byte(t) \in 0 .. 3 /\ Byte(t) = t % 256
  BY DEF Byte
<1>3. u \in Pings /\ u.type = t % 256 /\ u.place = place
  BY <1>1, <1>2 DEF Pings
<1>4. LuaSendServerPing(t, place, guid, name) = [bytes |-> Head5(u) \o AppendString(u.name), means |-> u, aimed |-> TRUE]
  BY <1>2 DEF LuaSendServerPing
<1>5. QED
  BY <1>3, <1>4 DEF Packet

(* The type that a subject has on the wire names that subject.             *)
LEMMA SubjectSent ==
    ASSUME NEW t \in 0 .. 4
    PROVE  /\ PingCode(SubjectName(t)) \in 0 .. 3
           /\ PingNames[PingCode(SubjectName(t)) + 1] = SubjectName(t)
<1>1. SubjectName(t) \in {"Assist", "Attack", "OnMyWay", "Warning"}
  BY DEF SubjectName, SubjectNames
<1>2. \E k \in 1 .. 4 : PingNames[k] = SubjectName(t)
  BY <1>1 DEF PingNames
<1>3. PICK k \in 1 .. 4 : PingNames[k] = SubjectName(t) /\ PingCode(SubjectName(t)) = k - 1
  BY <1>2 DEF PingCode
<1>4. k - 1 \in 0 .. 3 /\ (k - 1) + 1 = k
  OBVIOUS
<1>5. QED
  BY <1>3, <1>4

LEMMA AddonSendsInv ==
    ASSUME PingAssumption, PingInv, NEW t \in 0 .. 4, NEW target \in Targets, NEW grouped \in BOOLEAN,
           AddonSends(t, target, TRUE, grouped)
    PROVE  request' = NoRequest \/ Sent(request')
<1> DEFINE code == PingCode(SubjectName(t))
<1>1. code \in 0 .. 3 /\ PingNames[code + 1] = SubjectName(t)
  BY SubjectSent
<1>2. code % 256 = code /\ code \in Nat
  BY <1>1
<1>3. Finite(target.place) /\ target.place \in Spots /\ target.guid \in UnitGuids \cup {NoGuid} /\ << >> \in Seq(Characters)
  BY FiniteTarget
<1> HIDE DEF code
<1>4. PICK u \in Pings :
         /\ LuaSendServerPing(code, target.place, target.guid, << >>) = [bytes |-> Packet(u), means |-> u, aimed |-> TRUE]
         /\ u.type = code
  <2>1. code \in Nat /\ code % 256 <= 3
    BY <1>1, <1>2
  <2>2. \E u \in Pings :
           /\ LuaSendServerPing(code, target.place, target.guid, << >>) = [bytes |-> Packet(u), means |-> u, aimed |-> TRUE]
           /\ u.type = code % 256
    BY <1>3, <2>1, SendsPing
  <2>3. QED
    BY <1>2, <2>2
<1>5. CASE request' = request
  BY <1>5 DEF PingInv
<1>6. CASE request' # request
  <2>1. request' = [[bytes |-> Packet(u), means |-> u, aimed |-> TRUE]
                       EXCEPT !.aimed = (TRUE /\ Finite(target.place)), !.means = Joined(@, [subject |-> SubjectName(t)])]
    BY <1>4, <1>6 DEF AddonSends, code
  <2>2. request'.bytes = Packet(u) /\ request'.means = Joined(u, [subject |-> SubjectName(t)])
    BY <2>1
  <2>3. request'.aimed = TRUE
    BY <1>3, <2>1
  <2>4. QED
    BY <1>1, <1>4, <2>2, <2>3 DEF Sent
<1>7. QED
  BY <1>5, <1>6

(* Whichever functions of the API are those of another extension, one pick *)
(* makes at most one ping.                                                 *)
LEMMA SendPickedInv ==
    ASSUME PingAssumption, PingInv, NEW t \in 0 .. 4, NEW target, target = NoHit \/ target \in Targets,
           NEW isFresh, target = NoHit \/ isFresh = TRUE, NEW grouped \in BOOLEAN, SendPicked(t, target, isFresh, grouped)
    PROVE  /\ hit' = NoHit \/ (fresh' = TRUE /\ hit' \in Targets)
           /\ request' = NoRequest \/ Sent(request')
<1>1. CASE target = NoHit \/ ~sender.loaded
  <2>1. hit' = target /\ fresh' = isFresh /\ request' = request
    BY <1>1 DEF SendPicked
  <2>2. QED
    BY <2>1 DEF PingInv
<1>2. CASE ~(target = NoHit \/ ~sender.loaded)
  <2>1. AddonSends(t, target, isFresh, grouped) /\ hit' = NoHit /\ target \in Targets /\ isFresh = TRUE
    BY <1>2 DEF SendPicked
  <2>2. AddonSends(t, target, TRUE, grouped)
    BY <2>1
  <2>3. QED
    BY <2>1, <2>2, AddonSendsInv
<1>3. QED
  BY <1>1, <1>2

LEMMA ApiCallInv ==
    ASSUME PingAssumption, PingInv, ApiCall,
           \/ SetHitTestPingTarget \/ ClearHitTestPingInfo
           \/ \E grouped \in BOOLEAN :
                 \/ SetHitTestTargetAndSendPing(grouped)
                 \/ \E t \in 0 .. 4 : SendHitTestPing(t, grouped) \/ SendMacroPing(t, grouped)
    PROVE  PingInv'
<1>1. under' = under /\ received' \in {received, NoUpdate}
  BY DEF ApiCall, Follows
<1>2. HeardAsMeant(NoUpdate)
  BY DEF HeardAsMeant, NoUpdate
<1>3. LuaPickCursor = NoHit \/ LuaPickCursor \in Targets
  BY PickedTarget DEF PingInv
<1>4. Warning \in 0 .. 4
  BY DEF Warning
<1>5. /\ hit' = NoHit \/ (fresh' = TRUE /\ hit' \in Targets)
      /\ request' = NoRequest \/ Sent(request')
  <2>1. CASE SetHitTestPingTarget \/ ClearHitTestPingInfo
    BY <1>3, <2>1 DEF SetHitTestPingTarget, ClearHitTestPingInfo, PingInv
  <2>2. ASSUME NEW t \in 0 .. 4, NEW grouped \in BOOLEAN, SendPicked(t, hit, fresh, grouped)
        PROVE  /\ hit' = NoHit \/ (fresh' = TRUE /\ hit' \in Targets)
               /\ request' = NoRequest \/ Sent(request')
    <3>1. hit = NoHit \/ (fresh = TRUE /\ hit \in Targets)
      BY DEF PingInv
    <3>2. QED
      BY <2>2, <3>1, SendPickedInv
  <2>3. ASSUME NEW t \in 0 .. 4, NEW grouped \in BOOLEAN, SendPicked(t, LuaPickCursor, TRUE, grouped)
        PROVE  /\ hit' = NoHit \/ (fresh' = TRUE /\ hit' \in Targets)
               /\ request' = NoRequest \/ Sent(request')
    BY <1>3, <2>3, SendPickedInv
  <2>4. ASSUME NEW grouped \in BOOLEAN, SetHitTestTargetAndSendPing(grouped)
        PROVE  \E t \in 0 .. 4 : SendPicked(t, hit, fresh, grouped) \/ SendPicked(t, LuaPickCursor, TRUE, grouped)
    BY <1>4, <2>4 DEF SetHitTestTargetAndSendPing
  <2>5. QED
    BY <2>1, <2>2, <2>3, <2>4 DEF SendHitTestPing, SendMacroPing
<1>6. QED
  BY <1>1, <1>2, <1>5 DEF PingInv

(* What the server makes of a packet that a client built.                  *)
LEMMA Relayed ==
    ASSUME PingAssumption, NEW u \in Pings, NEW found \in BOOLEAN, NEW name \in UnitNames
    PROVE  LET update == HandleRadialPing(Packet(u), found, name) IN
           update = << >> \/ (update \in Pings /\ (update.guid # NoGuid => update.place = "unit"))
<1> DEFINE bytes == Packet(u)
           read == ReadString(bytes, FixedRequest)
           head == [type |-> u.type, place |-> u.place, guid |-> u.guid]
           update == HandleRadialPing(bytes, found, name)
<1>1. PICK n \in Nat : n = Len(u.name)
  BY DEF Pings, ShortNames
<1>2. HoldsHead(bytes, u) /\ HoldsName(bytes, 6, u.name) /\ bytes \in Seq(Wire)
  BY <1>1, PacketShape DEF HoldsHead
<1>3. read.value = u.name
  <2>1. 6 \in Nat \ {0} /\ u.name \in ShortNames
    BY DEF Pings
  <2>2. QED
    BY <1>2, <2>1, ReadsName DEF FixedRequest
<1>4. ReadHead(bytes) = head
  BY <1>2, GuidIsPair DEF ReadHead, HoldsHead
<1>5. Clean(u.name) \in ShortNames /\ Shortened(name) \in ShortNames /\ << >> \in ShortNames
  BY ShortNamesOf DEF Pings, PingAssumption
<1>6. \/ update = << >>
      \/ u.guid = NoGuid /\ update = Joined(head, [name |-> Clean(u.name)])
      \/ update = Joined([head EXCEPT !.place = "unit"], [name |-> Shortened(name)])
      \/ update = Joined([head EXCEPT !.guid = NoGuid], [name |-> << >>])
  <2> HIDE DEF bytes, head
  <2>1. CASE u.guid = NoGuid
    BY <1>3, <1>4, <2>1 DEF HandleRadialPing, head
  <2>2. CASE u.guid # NoGuid
    BY <1>3, <1>4, <2>2 DEF HandleRadialPing, head
  <2>3. QED
    BY <2>1, <2>2
<1> HIDE DEF bytes, read, update
<1>7. Joined(head, [name |-> Clean(u.name)]) = [type |-> u.type, place |-> u.place, guid |-> u.guid, name |-> Clean(u.name)]
  BY DEF Joined
<1>8. Joined([head EXCEPT !.place = "unit"], [name |-> Shortened(name)])
         = [type |-> u.type, place |-> "unit", guid |-> u.guid, name |-> Shortened(name)]
  BY DEF Joined
<1>9. Joined([head EXCEPT !.guid = NoGuid], [name |-> << >>])
         = [type |-> u.type, place |-> u.place, guid |-> NoGuid, name |-> << >>]
  BY DEF Joined
<1>10. u.type \in 0 .. 3 /\ u.place \in Spots /\ u.guid \in UnitGuids \cup {NoGuid} /\ "unit" \in Spots
  BY DEF Pings, Spots
<1>11. QED
  BY <1>5, <1>6, <1>7, <1>8, <1>9, <1>10 DEF Pings, update, bytes

LEMMA RelayInv ==
    ASSUME PingAssumption, PingInv, NEW found \in BOOLEAN, NEW name \in UnitNames, NEW from \in ShortNames,
           Relay(found, name, from)
    PROVE  PingInv'
<1>1. /\ request # NoRequest /\ request' = NoRequest /\ UNCHANGED <<under, hit, fresh, sender, theirs>>
  BY DEF Relay
<1>2. PICK u \in Pings : request.bytes = Packet(u)
  BY <1>1 DEF PingInv, Sent
<1> DEFINE update == HandleRadialPing(Packet(u), found, name)
<1>3. \/ update = << >> /\ received' = received
      \/ /\ update # << >>
         /\ \E bytes \in Altered(Response(update, from)) :
               received' = OnServerPing(bytes, Joined(update, [sender |-> from, intact |-> bytes = Response(update, from)]))
  BY <1>2 DEF Relay
<1>4. update = << >> \/ (update \in Pings /\ (update.guid # NoGuid => update.place = "unit"))
  BY <1>2, Relayed
<1> HIDE DEF update
<1>5. HeardAsMeant(received')
  <2>1. CASE received' = received
    BY <2>1 DEF PingInv
  <2>2. CASE received' # received
    <3>1. PICK v \in Pings : v = update /\ (v.guid # NoGuid => v.place = "unit")
      BY <1>3, <1>4, <2>2
    <3>2. PICK bytes \in Altered(Response(v, from)) :
             received' = OnServerPing(bytes, Joined(v, [sender |-> from, intact |-> bytes = Response(v, from)]))
      BY <1>3, <2>2, <3>1
    <3>3. /\ bytes = Response(v, from)
          /\ received' = [means |-> Joined(v, [sender |-> from, intact |-> bytes = Response(v, from)]), at |-> "picked",
                           says |-> Says(v, from)]
      BY <2>2, <3>2, HearsOnlyWhole
    <3>4. (bytes = Response(v, from)) = TRUE
      BY <3>3
    <3>5. received' = [means |-> Joined(v, [sender |-> from, intact |-> TRUE]), at |-> "picked", says |-> Says(v, from)]
      BY <3>3, <3>4
    <3>6. PICK yes : yes = TRUE /\ received'.means = Joined(v, [sender |-> from, intact |-> yes])
      BY <3>5
    <3>7. v = [type |-> v.type, place |-> v.place, guid |-> v.guid, name |-> v.name]
      BY DEF Pings
    <3>8. Joined(v, [sender |-> from, intact |-> yes])
            = [type |-> v.type, place |-> v.place, guid |-> v.guid, name |-> v.name, sender |-> from, intact |-> yes]
      BY <3>7 DEF Joined
    <3>9. /\ received'.says = Says(v, from)
          /\ received' = [means |-> received'.means, says |-> received'.says, at |-> received'.at]
      BY <3>5
    <3>10. received'.means.intact = TRUE
      BY <3>6, <3>8
    <3>11. \A field \in DOMAIN Says(v, from) : Says(v, from)[field] = received'.means[field]
      BY <3>6, <3>8 DEF Says
    <3>12. FollowsUnit(Says(v, from)) => Says(v, from).place = "unit"
      BY <3>1 DEF FollowsUnit, Says
    <3>13. QED
      BY <3>9, <3>10, <3>11, <3>12 DEF HeardAsMeant
  <2>3. QED
    BY <2>1, <2>2
<1>6. QED
  BY <1>1, <1>5 DEF PingInv
LEMMA ScriptInv ==
    ASSUME PingAssumption, PingInv, NEW t \in {3, 4, 256}, NEW place \in Places \cup {"nan", "far"},
           NEW guid \in UnitGuids \cup {NoGuid}, NEW name \in UnitNames, ScriptSends(t, place, guid, name)
    PROVE  PingInv'
<1>1. request' = NoRequest \/ Sent(request')
  <2>1. CASE Byte(t) > 3 \/ ~Finite(place)
    BY <2>1 DEF ScriptSends, LuaSendServerPing
  <2>2. CASE ~(Byte(t) > 3 \/ ~Finite(place))
    <3>1. t \in Nat /\ t % 256 <= 3 /\ Finite(place) /\ place \in Spots /\ name \in Seq(Characters)
      BY <2>2 DEF Byte, Spots, PingAssumption
    <3>2. PICK u \in Pings : LuaSendServerPing(t, place, guid, name) = [bytes |-> Packet(u), means |-> u, aimed |-> TRUE]
      BY <3>1, SendsPing
    <3>3. request'.bytes = Packet(u) /\ request'.means = u /\ request'.aimed = TRUE
      BY <3>2 DEF ScriptSends
    <3>4. QED
      BY <3>3 DEF Sent
  <2>3. QED
    BY <2>1, <2>2
<1>2. HeardAsMeant(NoUpdate)
  BY DEF HeardAsMeant, NoUpdate
<1>3. QED
  BY <1>1, <1>2 DEF PingInv, ScriptSends, Follows

LEMMA PositionInv ==
    ASSUME PingInv, NEW u, UpdatePosition(u)
    PROVE  PingInv'
<1>1. received'.means = received.means /\ received'.says = received.says /\ received.says # << >>
  BY DEF UpdatePosition, FollowsUnit, PingInv, HeardAsMeant
<1>2. received' = [means |-> received'.means, says |-> received'.says, at |-> received'.at]
  BY DEF UpdatePosition, PingInv, HeardAsMeant
<1>3. HeardAsMeant(received')
  BY <1>1, <1>2 DEF PingInv, HeardAsMeant
<1>4. QED
  BY <1>3 DEF PingInv, UpdatePosition

LEMMA PingStep ==
    ASSUME PingAssumption, PingInv, [ApiNext]_apiVars
    PROVE  PingInv'
<1>1. ASSUME NEW thing \in Things, PointAt(thing) PROVE PingInv'
  BY <1>1 DEF PointAt, PingInv
<1>2. CASE (SetHitTestPingTarget \/ ClearHitTestPingInfo) /\ ApiCall
  BY <1>2, ApiCallInv
<1>3. ASSUME NEW grouped \in BOOLEAN, SetHitTestTargetAndSendPing(grouped) /\ ApiCall PROVE PingInv'
  BY <1>3, ApiCallInv
<1>4. ASSUME NEW grouped \in BOOLEAN, NEW t \in 0 .. 4,
             (SendHitTestPing(t, grouped) \/ SendMacroPing(t, grouped)) /\ ApiCall
      PROVE  PingInv'
  BY <1>4, ApiCallInv
<1>5. ASSUME NEW found \in BOOLEAN, NEW name \in UnitNames, NEW senderName \in UnitNames,
             Relay(found, name, Shortened(senderName))
      PROVE  PingInv'
  <2>1. Shortened(senderName) \in ShortNames
    BY ShortNamesOf DEF PingAssumption
  <2>2. QED
    BY <1>5, <2>1, RelayInv
<1>6. ASSUME NEW t \in {3, 4, 256}, NEW place \in Places \cup {"nan", "far"}, NEW guid \in UnitGuids \cup {NoGuid},
             NEW name \in UnitNames, ScriptSends(t, place, guid, name)
      PROVE  PingInv'
  BY <1>6, ScriptInv
<1>7. ASSUME NEW u \in UnitStates, UpdatePosition(u) PROVE PingInv'
  BY <1>7, PositionInv
<1>8. CASE LoadAddOn \/ Cool
  BY <1>8 DEF LoadAddOn, Cool, PingInv
<1>9. CASE UNCHANGED apiVars
  BY <1>9 DEF apiVars, PingInv
<1>10. QED
  BY <1>1, <1>2, <1>3, <1>4, <1>5, <1>6, <1>7, <1>8, <1>9 DEF ApiNext

(* The server reads every packet that this side builds, as it was meant.   *)
LEMMA ReadsBack ==
    ASSUME PingAssumption, NEW u \in Pings
    PROVE  ReadBack(Packet(u), u) /\ ReadHead(Packet(u)).type = u.type
<1> DEFINE bytes == Packet(u)
<1>1. PICK n \in Nat : n = Len(u.name) /\ n <= MaxUnitName /\ u.name \in ShortNames
  BY DEF Pings, ShortNames
<1>2. HoldsHead(bytes, u) /\ Len(bytes) = 6 + n /\ HoldsName(bytes, 6, u.name) /\ bytes \in Seq(Wire)
  BY <1>1, PacketShape DEF HoldsHead
<1>3. ReadHead(bytes) = [type |-> u.type, place |-> u.place, guid |-> u.guid]
  BY <1>2, GuidIsPair DEF ReadHead, HoldsHead
<1> HIDE DEF bytes
<1>4. ReadString(bytes, 6) = [ok |-> TRUE, value |-> u.name, next |-> 6 + n + 1]
  <2>1. 6 \in Nat \ {0}
    OBVIOUS
  <2>2. QED
    BY <1>1, <1>2, <2>1, ReadsName
<1>5. 6 + n + 1 = Len(bytes) + 1 /\ Len(bytes) <= 6 + MaxUnitName
  BY <1>1, <1>2 DEF PingAssumption
<1>6. ReadBack(bytes, u)
  BY <1>3, <1>4, <1>5 DEF ReadBack, Complete, FixedRequest
<1>7. QED
  BY <1>3, <1>6 DEF bytes

LEMMA PingsFollow ==
    ASSUME PingAssumption, PingInv
    PROVE  PingsAreAimed
<1>1. ASSUME request # NoRequest
      PROVE  /\ request.aimed /\ ReadBack(request.bytes, request.means)
             /\ "subject" \in DOMAIN request.means =>
                   PingNames[ReadHead(request.bytes).type + 1] = request.means.subject
  <2>1. PICK u \in Pings :
           /\ request.bytes = Packet(u) /\ request.aimed = TRUE
           /\ \/ request.means = u
              \/ \E subject : request.means = Joined(u, [subject |-> subject]) /\ PingNames[u.type + 1] = subject
    BY <1>1 DEF PingInv, Sent
  <2>2. ReadBack(request.bytes, u) /\ ReadHead(request.bytes).type = u.type
    BY <2>1, ReadsBack
  <2>3. u = [type |-> u.type, place |-> u.place, guid |-> u.guid, name |-> u.name]
    BY DEF Pings
  <2>4. CASE request.means = u
    <3>1. "subject" \notin DOMAIN request.means
      BY <2>3, <2>4
    <3>2. QED
      BY <2>1, <2>2, <2>4, <3>1
  <2>5. ASSUME NEW subject, request.means = Joined(u, [subject |-> subject]), PingNames[u.type + 1] = subject
        PROVE  ReadBack(request.bytes, request.means) /\ PingNames[ReadHead(request.bytes).type + 1] = request.means.subject
    <3>1. request.means = [type |-> u.type, place |-> u.place, guid |-> u.guid, name |-> u.name, subject |-> subject]
      BY <2>3, <2>5 DEF Joined
    <3>2. QED
      BY <2>2, <2>5, <3>1 DEF ReadBack
  <2>6. QED
    BY <2>1, <2>4, <2>5
<1>2. ASSUME received # NoUpdate
      PROVE  /\ received.means.intact
             /\ \A field \in DOMAIN received.says : received.says[field] = received.means[field]
             /\ FollowsUnit(received.says) => received.says.place = "unit"
  BY <1>2 DEF PingInv, HeardAsMeant, NoUpdate
<1>3. QED
  BY <1>1, <1>2 DEF PingsAreAimed

(* For every name length that the packets allow, every name and every      *)
(* unit: a pick makes at most one ping, with the subject that was asked    *)
(* for; the server reads what the client built (BuildPingRequest), a       *)
(* member of the group reads what the server wrote, and nothing of a       *)
(* packet that was cut or goes on (OnServerPing).                          *)
THEOREM PingsAreAimedAlways == ApiSpec => []PingsAreAimed
<1>1. ApiInit => PingInv
  BY PingInitInv
<1>2. PingInv /\ [ApiNext]_apiVars => PingInv'
  BY PingAssumption, PingStep
<1>3. PingInv => PingsAreAimed
  BY PingAssumption, PingsFollow
<1>4. QED
  BY <1>1, <1>2, <1>3, PTL DEF ApiSpec

-----------------------------------------------------------------------------
(* The pass of the quest marker (MarkerPass.tla).                          *)

MarkerInv ==
    /\ markers \in Seq(MarkerQuests)
    /\ corpse \in BOOLEAN /\ dead \in BOOLEAN /\ diamond \in BOOLEAN
    /\ settings \in [enabled : BOOLEAN, showMarker : BOOLEAN, showOffscreen : BOOLEAN]
    /\ inMap \in BOOLEAN /\ valid \in BOOLEAN /\ corpseValid \in BOOLEAN
    /\ DrawsInPlace

Distinct(s) == s \in Seq(MarkerQuests) /\ IsInjective(s)

LEMMA DistinctHold ==
    ASSUME NEW s, Distinct(s)
    PROVE  ToSet(s) \subseteq MarkerQuests
BY DEF Distinct, ToSet

LEMMA NoneDistinct == Distinct(<< >>)
BY DEF Distinct, IsInjective

(* SetMarker: a quest is there once, and taken away where it is.           *)
LEMMA SetDistinct ==
    ASSUME NEW s, Distinct(s), NEW q \in MarkerQuests, ~Contains(s, q)
    PROVE  Distinct(Append(s, q))
<1> DEFINE t == Append(s, q)
<1>1. PICK n \in Nat : n = Len(s) /\ DOMAIN s = 1 .. n  BY DEF Distinct
<1>2. t \in Seq(MarkerQuests) /\ DOMAIN t = 1 .. n + 1 /\ t[n + 1] = q /\ \A k \in 1 .. n : t[k] = s[k]
  BY <1>1 DEF Distinct
<1> HIDE DEF t
<1>3. \A k \in 1 .. n : s[k] # q  BY <1>1 DEF Contains
<1>4. IsInjective(t)
  <2> SUFFICES ASSUME NEW a \in 1 .. n + 1, NEW b \in 1 .. n + 1, t[a] = t[b] PROVE a = b
    BY <1>2 DEF IsInjective
  <2>1. CASE a \in 1 .. n /\ b \in 1 .. n  BY <2>1, <1>1, <1>2 DEF Distinct, IsInjective
  <2>2. CASE a = n + 1 /\ b \in 1 .. n  BY <2>2, <1>2, <1>3
  <2>3. CASE b = n + 1 /\ a \in 1 .. n  BY <2>3, <1>2, <1>3
  <2>4. CASE a = n + 1 /\ b = n + 1  BY <2>4
  <2> QED  BY <2>1, <2>2, <2>3, <2>4
<1> QED  BY <1>2, <1>4 DEF t, Distinct

LEMMA TakenDistinct ==
    ASSUME NEW s, Distinct(s), NEW i \in 1 .. Len(s)
    PROVE  Distinct(RemoveAt(s, i))
<1> DEFINE u == SubSeq(s, 1, i - 1)
           v == SubSeq(s, i + 1, Len(s))
           t == u \o v
<1>1. PICK n \in Nat : n = Len(s) /\ DOMAIN s = 1 .. n /\ i \in 1 .. n  BY DEF Distinct
<1>2. /\ u \in Seq(MarkerQuests) /\ Len(u) = i - 1 /\ \A k \in 1 .. i - 1 : u[k] = s[k]
      /\ v \in Seq(MarkerQuests) /\ Len(v) = n - i /\ \A k \in 1 .. n - i : v[k] = s[k + i]
  BY <1>1 DEF Distinct
<1> HIDE DEF u, v
<1>3. t \in Seq(MarkerQuests) /\ DOMAIN t = 1 .. n - 1
      /\ \A k \in 1 .. n - 1 : t[k] = IF k < i THEN u[k] ELSE v[k - (i - 1)]
  BY <1>1, <1>2
<1> HIDE DEF t
<1>4. \A k \in 1 .. n - 1 : t[k] = IF k < i THEN s[k] ELSE s[k + 1]
  <2> TAKE k \in 1 .. n - 1
  <2>1. CASE k < i  BY <2>1, <1>1, <1>2, <1>3
  <2>2. CASE ~(k < i)
    <3>1. k - (i - 1) \in 1 .. n - i /\ (k - (i - 1)) + i = k + 1  BY <2>2, <1>1
    <3> QED  BY <3>1, <2>2, <1>2, <1>3
  <2> QED  BY <2>1, <2>2
<1>5. IsInjective(t)
  <2> SUFFICES ASSUME NEW a \in 1 .. n - 1, NEW b \in 1 .. n - 1, t[a] = t[b] PROVE a = b
    BY <1>3 DEF IsInjective
  <2> DEFINE at(k) == IF k < i THEN k ELSE k + 1
  <2>1. at(a) \in 1 .. n /\ at(b) \in 1 .. n /\ s[at(a)] = s[at(b)]  BY <1>1, <1>4
  <2>2. at(a) = at(b)  BY <2>1, <1>1 DEF Distinct, IsInjective
  <2> QED  BY <2>2, <1>1
<1> QED  BY <1>3, <1>5 DEF t, u, v, Distinct, RemoveAt

(* Min names an element of a set of numbers that has some.                 *)
LEMMA FirstOfSome ==
    ASSUME NEW S \in SUBSET Nat, S # {}
    PROVE  Min(S) \in S /\ \A k \in S : Min(S) <= k
<1> DEFINE R == OpToRel(<, Nat)
<1>1. IsWellFoundedOn(R, Nat) /\ R = {pair \in Nat \X Nat : pair[1] < pair[2]}
  BY NatLessThanWellFounded DEF OpToRel
<1> HIDE DEF R
<1>2. PICK d \in S : \A e \in S : ~(<<e, d>> \in R)
  BY <1>1, WFMin
<1>3. \A e \in S : d <= e
  <2> TAKE e \in S
  <2>1. ~(e < d)  BY <1>1, <1>2
  <2> QED  BY <2>1
<1>4. Min(S) = CHOOSE x \in S : \A y \in S : x <= y  BY DEF Min
<1> QED  BY <1>3, <1>4

LEMMA RemovedDistinct ==
    ASSUME NEW s, Distinct(s), NEW q
    PROVE  Distinct(RemoveFirst(s, q))
<1>1. CASE ~\E i \in 1 .. Len(s) : s[i] = q  BY <1>1 DEF RemoveFirst
<1>2. CASE \E i \in 1 .. Len(s) : s[i] = q
  <2> DEFINE I == {i \in 1 .. Len(s) : s[i] = q}
  <2>1. I # {} /\ I \in SUBSET Nat  BY <1>2
  <2>2. RemoveFirst(s, q) = RemoveAt(s, Min(I))  BY <1>2 DEF RemoveFirst, SelectInSeq
  <2>3. Min(I) \in I
    <3> HIDE DEF I
    <3> QED  BY <2>1, FirstOfSome
  <2> QED  BY <2>2, <2>3, TakenDistinct
<1> QED  BY <1>1, <1>2

(* What is within reach, and how much room it takes.                       *)
LEMMA ReachBounded ==
    ASSUME MarkerInv, NEW place
    PROVE  /\ IsFiniteSet(InReach(place)) /\ Filled(place) \in Nat
           /\ Filled(place) <= Cardinality(MarkerQuests) /\ Cardinality(MarkerQuests) \in Nat
<1> DEFINE R == InReach(place)
           f == [i \in R |-> markers[i]]
<1>1. markers \in Seq(MarkerQuests) /\ IsInjective(markers)  BY DEF MarkerInv, DrawsInPlace, MarkerTypeOK
<1>2. R \subseteq DOMAIN markers  BY DEF InReach
<1>3. f \in Injection(R, MarkerQuests)  BY <1>1, <1>2 DEF Injection, IsInjective
<1>4. IsFiniteSet(R) /\ Cardinality(R) <= Cardinality(MarkerQuests)
  BY <1>3, MarkerAssumption, FS_Injection DEF MarkerAssumption
<1> QED  BY <1>4, MarkerAssumption, FS_CardinalityType DEF Filled, MarkerAssumption

(* A marker whose vertices nobody wrote comes after one out of reach.      *)
LEMMA MarkerWritten ==
    ASSUME MarkerInv, NEW place, NEW i \in DOMAIN markers, place[markers[i]] # "far"
    PROVE  LET draw == MarkerDraw(place, i)
           IN  draw.what = "marker" /\ draw.in = Camera /\ (draw.written \/ draw.skipped)
<1> DEFINE R == InReach(place)
<1>1. i \in Nat \ {0} /\ i \in R /\ 1 .. i \subseteq DOMAIN markers
  BY DEF MarkerInv, InReach, Near
<1>2. ASSUME 1 .. i - 1 \ R = {} PROVE i <= Filled(place)
  <2>1. 1 .. i \subseteq R
    <3> SUFFICES ASSUME NEW k \in 1 .. i PROVE k \in R  OBVIOUS
    <3>1. k = i \/ k \in 1 .. i - 1  BY <1>1
    <3> QED  BY <3>1, <1>1, <1>2
  <2>2. Cardinality(1 .. i) = i
    <3>1. i \in Int /\ 1 \in Int /\ ~(1 > i)  BY <1>1
    <3>2. Cardinality(1 .. i) = i - 1 + 1  BY <3>1, FS_Interval
    <3> QED  BY <3>1, <3>2
  <2>3. IsFiniteSet(R) /\ 1 .. i \in SUBSET R  BY <2>1, ReachBounded
  <2>4. Cardinality(1 .. i) <= Cardinality(R)
    <3> HIDE DEF R
    <3> QED  BY <2>3, FS_Subset
  <2> QED  BY <2>2, <2>4 DEF Filled
<1> QED  BY <1>2 DEF MarkerDraw, Draw, AfterDiamond

(* What every draw has to find, and what the draws of each section do.     *)
Placed(draw) ==
    /\ (draw.in.space = "world") <=> draw.what \in {"corpse", "marker"}
    /\ draw.in.depth <=> draw.in.space = "world"
    /\ draw.what # "corpse" => draw.in.alphaTest = "client"
    /\ draw.what = "marker" => draw.written \/ draw.skipped

LEMMA SectionsPlaced ==
    /\ \A ahead : \A draw \in CorpseDraws(ahead) : Placed(draw)
    /\ \A draw \in DiamondDraws : Placed(draw)
    /\ \A place : \A draw \in IndicatorDraws(place) : Placed(draw)
<1>1. ASSUME NEW ahead, NEW draw \in CorpseDraws(ahead) PROVE Placed(draw)
  <2>1. draw = Draw("corpse", [Camera EXCEPT !.alphaTest = "cut"])  BY DEF CorpseDraws
  <2>2. draw.what = "corpse" /\ draw.in.space = "world" /\ draw.in.depth = TRUE
    BY <2>1 DEF Draw, Camera
  <2> QED  BY <2>2 DEF Placed
<1>2. ASSUME NEW draw, draw \in DiamondDraws \/ \E place : draw \in IndicatorDraws(place) PROVE Placed(draw)
  <2>1. draw = Draw("diamond", Screen(Camera)) \/ draw = Draw("indicator", Screen(Camera))
    BY <1>2 DEF DiamondDraws, IndicatorDraws, AfterDiamond
  <2>2. /\ draw.what \in {"diamond", "indicator"} /\ draw.in.space = "screen"
        /\ draw.in.depth = FALSE /\ draw.in.alphaTest = "client"
    <3>1. Screen(Camera) = [space |-> "screen", depth |-> FALSE, alphaTest |-> "client"]
      BY DEF Camera, Screen
    <3>2. draw.in = Screen(Camera) /\ draw.what \in {"diamond", "indicator"}  BY <2>1 DEF Draw
    <3> QED  BY <3>1, <3>2
  <2> QED  BY <2>2 DEF Placed
<1> QED  BY <1>1, <1>2

(* The draws of section 2.                                                 *)
LEMMA MarkersPlaced ==
    ASSUME MarkerInv, NEW place
    PROVE  \A draw \in MarkerDraws(place) : Placed(draw)
<1> SUFFICES ASSUME NEW draw \in MarkerDraws(place) PROVE Placed(draw)  OBVIOUS
<1>1. PICK i \in DOMAIN markers : draw = MarkerDraw(place, i) /\ place[markers[i]] \in {"onscreen", "aside"}
  BY DEF MarkerDraws
<1>2. draw.what = "marker" /\ draw.in = Camera /\ (draw.written \/ draw.skipped)
  BY <1>1, MarkerWritten
<1> QED  BY <1>2 DEF Placed, Camera

(* Everything the pass sets is among what it puts back.                    *)
LEMMA NothingLeft ==
    /\ Left(Setup \cup {"transforms"}) = {}
    /\ Left(Setup \cup {"transforms", "stream", "format"}) = {}
    /\ Left(Setup \cup {"transforms", "stream", "format", "alphaTest"}) = {}
BY DEF Left, Setup, Captured

(* The parts of the invariant, for one step to give the ones it changes.   *)
Told ==
    /\ Distinct(markers)
    /\ corpse \in BOOLEAN /\ dead \in BOOLEAN /\ diamond \in BOOLEAN
    /\ settings \in [enabled : BOOLEAN, showMarker : BOOLEAN, showOffscreen : BOOLEAN]
    /\ inMap \in BOOLEAN
DeviceSide ==
    /\ texture \in {"unready", "missing", "loaded"} /\ warmup \in 0 .. 3
    /\ capacity \in 0 .. Cardinality(MarkerQuests) + 5
Answers ==
    /\ valid \in BOOLEAN /\ corpseValid \in BOOLEAN
    /\ valid => number.fresh \/ corpseValid
FrameRight ==
    /\ frame.corpseDue => frame.corpseShown \/ ~settings.showMarker
    /\ frame.left = {} /\ \A draw \in frame.draws : Placed(draw)

(* Together they are the invariant.                                        *)
LEMMA MarkerParts == MarkerInv <=> Told /\ DeviceSide /\ Answers /\ FrameRight
<1>1. ASSUME Told PROVE IsInjective(markers) /\ ToSet(markers) \subseteq MarkerQuests /\ markers \in Seq(MarkerQuests)
  BY <1>1, DistinctHold DEF Told, Distinct
<1>2. ASSUME Told, DeviceSide, Answers, FrameRight PROVE MarkerInv
  BY <1>1, <1>2 DEF Told, DeviceSide, Answers, FrameRight, MarkerInv, DrawsInPlace, MarkerTypeOK, Placed
<1>3. ASSUME MarkerInv PROVE Told /\ DeviceSide /\ Answers /\ FrameRight
  BY <1>3 DEF Told, DeviceSide, Answers, FrameRight, MarkerInv, DrawsInPlace, MarkerTypeOK, Placed, Distinct
<1> QED  BY <1>2, <1>3

LEMMA BetweenRight == ASSUME Between PROVE FrameRight'
BY DEF Between, FrameRight, NoFrame

(* What the addon's script functions set.                                  *)
LEMMA ScriptTold == ASSUME Told, Script PROVE Told'
<1>1. UNCHANGED inMap  BY DEF Script
<1>2. ASSUME NEW q \in MarkerQuests, NEW active \in BOOLEAN, SetMarker(q, active) PROVE Told'
  <2>1. Distinct(markers')
    <3>1. Distinct(markers)  BY DEF Told
    <3>2. CASE ~active  BY <3>1, <3>2, <1>2, RemovedDistinct DEF SetMarker
    <3>3. CASE active /\ Contains(markers, q)  BY <3>1, <3>3, <1>2 DEF SetMarker
    <3>4. CASE active /\ ~Contains(markers, q)  BY <3>1, <3>4, <1>2, SetDistinct DEF SetMarker
    <3> QED  BY <3>2, <3>3, <3>4
  <2> QED  BY <2>1, <1>1, <1>2 DEF SetMarker, Told, Distinct
<1>3. ASSUME ClearAllMarkers PROVE Told'
  BY <1>1, <1>3, NoneDistinct DEF ClearAllMarkers, Told, Distinct
<1>4. ASSUME NEW on \in BOOLEAN, SetCorpse(on) \/ SetDeadState(on) \/ SetTrackerDiamond(on) PROVE Told'
  BY <1>1, <1>4 DEF SetCorpse, SetDeadState, SetTrackerDiamond, Told, Distinct
<1>5. ASSUME NEW s \in [enabled : BOOLEAN, showMarker : BOOLEAN, showOffscreen : BOOLEAN], ReloadSettings(s)
      PROVE  Told'
  <2>1. markers' = markers \/ markers' = << >>  BY <1>5 DEF ReloadSettings
  <2>2. Distinct(markers')  BY <2>1, NoneDistinct DEF Told
  <2>3. diamond' \in BOOLEAN /\ settings' = s /\ UNCHANGED <<corpse, dead>>
    BY <1>5 DEF ReloadSettings, Told
  <2> QED  BY <1>1, <2>2, <2>3 DEF Told, Distinct
<1> QED  BY <1>2, <1>3, <1>4, <1>5 DEF Script

LEMMA ForgetTold ==
    ASSUME Told, Forget, diamond' \in BOOLEAN, settings' = settings, inMap' \in BOOLEAN
    PROVE  Told' /\ Answers'
BY NoneDistinct DEF Told, Answers, Forget, Distinct

(* Every step keeps the invariant.                                         *)
LEMMA MarkerStep == ASSUME MarkerInv, [MarkerNext]_markerVars PROVE MarkerInv'
<1>0. Told /\ DeviceSide /\ Answers /\ FrameRight  BY MarkerParts
<1>00. /\ Cardinality(MarkerQuests) \in Nat
       /\ \A place : Filled(place) \in Nat /\ Filled(place) <= Cardinality(MarkerQuests)
  BY ReachBounded
<1> SUFFICES Told' /\ DeviceSide' /\ Answers' /\ FrameRight'
  <2>1. (Told /\ DeviceSide /\ Answers /\ FrameRight => MarkerInv)'  BY MarkerParts, PTL
  <2> QED  BY <2>1
<1>1. CASE UNCHANGED markerVars
  BY <1>0, <1>1 DEF markerVars, toldBy, onDevice, labels, Told, DeviceSide, Answers, FrameRight, Distinct
<1>2. CASE Script
  <2>1. UNCHANGED <<inMap, onDevice, warmup, labels>> /\ Between  BY <1>2 DEF Script
  <2> QED  BY <1>0, <1>2, <2>1, ScriptTold, BetweenRight DEF onDevice, labels, DeviceSide, Answers
<1>3. CASE OnWorldEnter
  <2>1. Between /\ inMap' = TRUE /\ Forget /\ diamond' = FALSE /\ warmup' = 0
        /\ UNCHANGED <<settings, capacity, number>> /\ \E found \in BOOLEAN : texture' = Initialised(found)
    BY <1>3 DEF OnWorldEnter
  <2>2. DeviceSide'  BY <1>0, <2>1 DEF DeviceSide, Initialised
  <2> QED  BY <1>0, <2>1, <2>2, ForgetTold, BetweenRight
<1>4. CASE OnWorldLeave
  <2>1. Between /\ inMap' = FALSE /\ Forget /\ texture' = "unready" /\ capacity' = 0
        /\ UNCHANGED <<settings, diamond, warmup, number>>
    BY <1>4 DEF OnWorldLeave
  <2>2. DeviceSide'  BY <1>0, <1>00, <2>1 DEF DeviceSide
  <2>3. diamond' \in BOOLEAN  BY <1>0, <2>1 DEF Told
  <2> QED  BY <1>0, <2>1, <2>2, <2>3, ForgetTold, BetweenRight
<1>5. CASE LogOut
  <2>1. Between /\ inMap' = FALSE /\ UNCHANGED <<toldBy, onDevice, warmup, labels>>  BY <1>5 DEF LogOut
  <2> QED  BY <1>0, <2>1, BetweenRight DEF toldBy, onDevice, labels, Told, DeviceSide, Answers, Distinct
<1>6. CASE DeviceReset
  <2>1. Between /\ capacity' = 0 /\ texture' \in {"loaded", "missing"} /\ UNCHANGED <<toldBy, inMap, warmup, labels>>
    BY <1>6 DEF DeviceReset
  <2> QED  BY <1>0, <1>00, <2>1, BetweenRight DEF toldBy, labels, Told, DeviceSide, Answers, Distinct
<1>7. CASE SkipFrame
  <2>1. /\ valid' = FALSE /\ UNCHANGED <<toldBy, inMap, onDevice, warmup, corpseValid>>
        /\ frame'.left = {} /\ frame'.draws = {} /\ (frame'.corpseDue => corpse)
    BY <1>7 DEF SkipFrame, Return, ValidCleared, NoFrame
  <2>2. corpse => ~settings.showMarker  BY <1>7 DEF SkipFrame, NothingToDraw
  <2> QED  BY <1>0, <2>1, <2>2 DEF toldBy, onDevice, Told, DeviceSide, Answers, FrameRight, Distinct
<1>8. CASE GhostFrame
  <2>1. Between /\ Forget /\ diamond' = FALSE /\ UNCHANGED <<settings, inMap, onDevice, warmup>>
    BY <1>8 DEF GhostFrame
  <2>2. DeviceSide'  BY <1>0, <2>1 DEF DeviceSide, onDevice
  <2>3. inMap' \in BOOLEAN  BY <1>0, <2>1 DEF Told
  <2> QED  BY <1>0, <2>1, <2>2, <2>3, ForgetTold, BetweenRight
<1>9. CASE UnreadyFrame
  <2>1. /\ valid' = FALSE /\ UNCHANGED <<toldBy, inMap, capacity, corpseValid>>
        /\ frame'.left = {} /\ frame'.draws = {} /\ frame'.corpseDue = FALSE
    BY <1>9, NothingLeft DEF UnreadyFrame, Return, ValidCleared, NoFrame
  <2>2. texture' \in {"unready", "missing", "loaded"} /\ warmup' \in 0 .. 3
    BY <1>9, <1>0 DEF UnreadyFrame, Initialised, Loads, DeviceSide
  <2> QED  BY <1>0, <2>1, <2>2 DEF toldBy, Told, DeviceSide, Answers, FrameRight, Distinct
<1>10. CASE FlatCameraFrame
  <2>1. /\ valid' = corpseValid /\ UNCHANGED <<toldBy, inMap, capacity, warmup, corpseValid>>
        /\ frame'.left = {} /\ frame'.draws = {} /\ frame'.corpseDue = FALSE /\ texture' = "loaded"
    BY <1>10, NothingLeft DEF FlatCameraFrame, Ready, Loads, NoFrame
  <2> QED  BY <1>0, <2>1 DEF toldBy, Told, DeviceSide, Answers, FrameRight, Distinct
<1>11. CASE FrameWithoutMarkers
  <2>1. PICK place \in [MarkerQuests -> {"onscreen", "aside", "behind", "far"}], ahead \in BOOLEAN :
        /\ capacity' = capacity \/ capacity' = 0 \/ capacity' = Grown(place)
        /\ corpseValid' = corpse
        /\ frame' = Shown(CorpseDraws(ahead) \cup DiamondDraws, {"transforms", "stream", "format", "alphaTest"})
    BY <1>11 DEF FrameWithoutMarkers
  <2>2. valid' = corpse /\ UNCHANGED <<toldBy, inMap, warmup>> /\ texture' = "loaded"
    BY <1>11 DEF FrameWithoutMarkers, Ready, Loads
  <2>3. /\ frame'.draws = CorpseDraws(ahead) \cup DiamondDraws /\ frame'.left = {}
        /\ frame'.corpseDue = corpse /\ frame'.corpseShown = corpse
    BY <2>1, NothingLeft DEF Shown
  <2>4. FrameRight'  BY <2>3, SectionsPlaced DEF FrameRight
  <2>5. capacity' \in 0 .. Cardinality(MarkerQuests) + 5
    <3>1. Filled(place) \in Nat /\ Filled(place) <= Cardinality(MarkerQuests)  BY <1>00
    <3> QED  BY <1>0, <1>00, <2>1, <3>1 DEF Grown, DeviceSide
  <2> QED  BY <1>0, <2>1, <2>2, <2>4, <2>5 DEF toldBy, Told, DeviceSide, Answers, Distinct
<1>12. CASE FrameWithMarkers
  <2>1. PICK place \in [MarkerQuests -> {"onscreen", "aside", "behind", "far"}], projects \in BOOLEAN :
        /\ MarkersDue(place) /\ capacity' = Grown(place) /\ corpseValid' = FALSE
        /\ frame' = Shown(DiamondDraws \cup MarkerDraws(place) \cup IndicatorDraws(place),
                          {"transforms", "stream", "format"})
        /\ LET first == Candidate(place)
               stored == place[first] = "onscreen" /\ projects
           IN  /\ valid' = stored
               /\ number' = IF stored THEN [quest |-> first, fresh |-> TRUE] ELSE Stale
    BY <1>12 DEF FrameWithMarkers
  <2>2. UNCHANGED <<toldBy, inMap, warmup>> /\ texture' = "loaded" /\ ~corpse
    BY <1>12, <2>1 DEF FrameWithMarkers, Ready, Loads, MarkersDue
  <2>3. /\ frame'.draws = DiamondDraws \cup MarkerDraws(place) \cup IndicatorDraws(place)
        /\ frame'.left = {} /\ frame'.corpseDue = corpse
    BY <2>1, NothingLeft DEF Shown
  <2>4. FrameRight'  BY <2>2, <2>3, SectionsPlaced, MarkersPlaced DEF FrameRight
  <2>5. capacity' \in 0 .. Cardinality(MarkerQuests) + 5
    <3>1. Filled(place) \in Nat /\ Filled(place) <= Cardinality(MarkerQuests)  BY <1>00
    <3> QED  BY <1>0, <1>00, <2>1, <3>1 DEF Grown, DeviceSide
  <2>6. valid' \in BOOLEAN /\ (valid' => number'.fresh)
    BY <2>1
  <2> QED  BY <1>0, <2>1, <2>2, <2>4, <2>5, <2>6 DEF toldBy, Told, DeviceSide, Answers, Distinct
<1> QED  BY <1>1, <1>2, <1>3, <1>4, <1>5, <1>6, <1>7, <1>8, <1>9, <1>10, <1>11, <1>12
     DEF MarkerNext, OnWorldRenderEnd

LEMMA MarkerStart == ASSUME MarkerInit PROVE MarkerInv
<1>1. Cardinality(MarkerQuests) \in Nat
  BY MarkerAssumption, FS_CardinalityType DEF MarkerAssumption
<1>2. Told /\ DeviceSide /\ Answers /\ FrameRight
  <2>1. Told  BY NoneDistinct DEF MarkerInit, Told
  <2>2. DeviceSide
    <3>1. capacity = 0 /\ warmup = 0 /\ texture = "unready"  BY DEF MarkerInit
    <3>2. 0 \in 0 .. Cardinality(MarkerQuests) + 5  BY <1>1
    <3> QED  BY <3>1, <3>2 DEF DeviceSide
  <2>4. Answers  BY DEF MarkerInit, Answers
  <2>3. FrameRight  BY DEF MarkerInit, FrameRight, NoFrame
  <2> QED  BY <2>1, <2>2, <2>3, <2>4
<1> QED  BY <1>2, MarkerParts

(* Whatever is drawn before it, each draw of the pass finds the device as  *)
(* it needs it and reads vertices of its frame, the client gets back every *)
(* setting, and labels go by numbers of the last frame                     *)
(* (QuestMarker::OnWorldRenderEnd), for any set of quests.                 *)
THEOREM DrawsInPlaceAlways == MarkerSpec => []DrawsInPlace
<1>1. MarkerInit => MarkerInv  BY MarkerStart
<1>2. MarkerInv /\ [MarkerNext]_markerVars => MarkerInv'  BY MarkerStep
<1>3. MarkerInv => DrawsInPlace  BY DEF MarkerInv
<1> QED  BY <1>1, <1>2, <1>3, PTL DEF MarkerSpec

-----------------------------------------------------------------------------
(* The shapes drawn into the world.                                        *)

(* A set of numbers has a least one.                                       *)
LEMMA LeastOfNaturals ==
    ASSUME NEW S, S \subseteq Nat, S # {}
    PROVE  \E x \in S : \A y \in S : x <= y
<1> DEFINE R == OpToRel(<, Nat)
<1>1. IsWellFoundedOn(R, Nat)
  BY NatLessThanWellFounded
<1>2. R = {ss \in Nat \X Nat : ss[1] < ss[2]}
  BY DEF OpToRel
<1> HIDE DEF R
<1>3. PICK x \in S : \A y \in S : ~(<<y, x>> \in R)
  BY <1>1, WFMin
<1>4. \A y \in S : ~(y < x)
  BY <1>2, <1>3
<1>5. QED
  BY <1>3, <1>4

(* A list of lists is flattened by a function that is defined by itself:   *)
(* there is one, and only one.                                             *)
Unfolds(f, q, n) == f = [i \in 1 .. n |-> IF i = 1 THEN q[i] ELSE f[i - 1] \o q[i]]

LEMMA OneUnfolds ==
    ASSUME NEW q, NEW n \in Nat, NEW f, NEW g, Unfolds(f, q, n), Unfolds(g, q, n)
    PROVE  f = g
<1> DEFINE differ == {i \in 1 .. n : f[i] # g[i]}
<1>1. \A i \in 1 .. n : f[i] = IF i = 1 THEN q[i] ELSE f[i - 1] \o q[i]
  BY DEF Unfolds
<1>2. \A i \in 1 .. n : g[i] = IF i = 1 THEN q[i] ELSE g[i - 1] \o q[i]
  BY DEF Unfolds
<1>3. ASSUME differ # {}
      PROVE  FALSE
  <2>1. PICK i \in differ : \A j \in differ : i <= j
    <3>1. differ \subseteq Nat
      OBVIOUS
    <3> HIDE DEF differ
    <3>2. QED
      BY <1>3, <3>1, LeastOfNaturals
  <2>2. CASE i = 1
    BY <1>1, <1>2, <2>1, <2>2
  <2>3. CASE i # 1
    <3>1. i - 1 \in 1 .. n /\ i - 1 \notin differ
      BY <2>1, <2>3
    <3>2. f[i - 1] = g[i - 1]
      BY <3>1
    <3>3. QED
      BY <1>1, <1>2, <2>1, <2>3, <3>2
  <2>4. QED
    BY <2>2, <2>3
<1>4. /\ f = [i \in 1 .. n |-> f[i]]
      /\ g = [i \in 1 .. n |-> g[i]]
  BY DEF Unfolds
<1>5. QED
  BY <1>3, <1>4

(* There is one: each prefix of the list has its own, the least prefix     *)
(* without one would get it from the prefix before it.                     *)
LEMMA SomeUnfolds ==
    ASSUME NEW S, NEW q \in Seq(Seq(S)), NEW n \in 1 .. Len(q)
    PROVE  \E f \in [1 .. n -> Seq(S)] : Unfolds(f, q, n)
<1> DEFINE Good(m) == \E f \in [1 .. m -> Seq(S)] : Unfolds(f, q, m)
           bad == {m \in 1 .. Len(q) : ~Good(m)}
<1>1. ASSUME bad # {}
      PROVE  FALSE
  <2>1. PICK m \in bad : \A j \in bad : m <= j
    <3>1. bad \subseteq Nat
      OBVIOUS
    <3> HIDE DEF bad
    <3>2. QED
      BY <1>1, <3>1, LeastOfNaturals
  <2>2. q[m] \in Seq(S) /\ q[1] \in Seq(S)
    BY <2>1
  <2>3. CASE m = 1
    <3> DEFINE f == [i \in 1 .. 1 |-> q[1]]
    <3>1. f \in [1 .. 1 -> Seq(S)] /\ Unfolds(f, q, 1)
      BY <2>2 DEF Unfolds
    <3>2. QED
      BY <2>1, <2>3, <3>1
  <2>4. CASE m # 1
    <3>1. m - 1 \in 1 .. Len(q) /\ m - 1 \notin bad
      <4>1. m \in 1 .. Len(q) /\ m - 1 \in 1 .. Len(q) /\ ~(m <= m - 1)
        BY <2>1, <2>4
      <4> HIDE DEF bad
      <4>2. QED
        BY <2>1, <4>1
    <3>2. PICK f \in [1 .. m - 1 -> Seq(S)] : Unfolds(f, q, m - 1)
      BY <3>1
    <3> DEFINE g == [i \in 1 .. m |-> IF i = m THEN f[m - 1] \o q[m] ELSE f[i]]
    <3>3. f[m - 1] \o q[m] \in Seq(S)
      BY <2>2, <3>1, <3>2, ConcatProperties
    <3>4. g \in [1 .. m -> Seq(S)]
      BY <3>2, <3>3
    <3>5. \A i \in 1 .. m - 1 : f[i] = IF i = 1 THEN q[i] ELSE f[i - 1] \o q[i]
      BY <3>2 DEF Unfolds
    <3>6. ASSUME NEW i \in 1 .. m
          PROVE  g[i] = IF i = 1 THEN q[i] ELSE g[i - 1] \o q[i]
      <4>1. CASE i = m
        <5>1. g[i - 1] = f[m - 1]
          BY <2>1, <2>4, <4>1
        <5>2. QED
          BY <2>4, <4>1, <5>1
      <4>2. CASE i # m
        <5>1. i \in 1 .. m - 1 /\ g[i] = f[i] /\ (i # 1 => g[i - 1] = f[i - 1])
          BY <2>1, <4>2
        <5>2. QED
          BY <3>5, <5>1
      <4>3. QED
        BY <4>1, <4>2
    <3> DEFINE h == [i \in 1 .. m |-> IF i = 1 THEN q[i] ELSE g[i - 1] \o q[i]]
    <3>7. g = h
      <4>1. \A i \in 1 .. m : g[i] = h[i]
        BY <3>6
      <4>2. QED
        BY <4>1
    <3>8. Unfolds(g, q, m)
      BY <3>7 DEF Unfolds
    <3>9. QED
      BY <2>1, <3>4, <3>8
  <2>5. QED
    BY <2>3, <2>4
<1>2. QED
  BY <1>1

LEMMA FlattenIs ==
    ASSUME NEW S, NEW q \in Seq(Seq(S)), q # << >>, NEW f, Unfolds(f, q, Len(q))
    PROVE  FlattenSeq(q) = f[Len(q)]
<1>1. Len(q) \in Nat /\ Len(q) # 0
  OBVIOUS
<1> DEFINE h == CHOOSE g : Unfolds(g, q, Len(q))
<1>2. Unfolds(h, q, Len(q))
  OBVIOUS
<1>3. h = f
  BY <1>1, <1>2, OneUnfolds
<1>4. FlattenSeq(q) = h[Len(q)]
  BY <1>1, Zenon DEF FlattenSeq, Unfolds
<1>5. QED
  BY <1>3, <1>4

(* Flattening goes list by list.                                           *)
LEMMA FlattenNothing == FlattenSeq(<< >>) = << >>
BY DEF FlattenSeq

LEMMA FlattenAppend ==
    ASSUME NEW S, NEW q \in Seq(Seq(S)), NEW x \in Seq(S)
    PROVE  FlattenSeq(q) \in Seq(S) /\ FlattenSeq(Append(q, x)) = FlattenSeq(q) \o x
<1> DEFINE n == Len(q)
           more == Append(q, x)
<1>1. n \in Nat /\ more \in Seq(Seq(S)) /\ Len(more) = n + 1 /\ more # << >>
  BY AppendProperties
<1>2. \A i \in 1 .. n : more[i] = q[i]
  BY AppendProperties
<1>3. more[n + 1] = x
  BY AppendProperties
<1>4. n + 1 \in 1 .. Len(more)
  BY <1>1
<1>5. PICK f \in [1 .. n + 1 -> Seq(S)] : Unfolds(f, more, n + 1)
  BY <1>1, <1>4, SomeUnfolds
<1>6. FlattenSeq(more) = f[n + 1]
  BY <1>1, <1>5, FlattenIs
<1>7. \A i \in 1 .. n + 1 : f[i] = IF i = 1 THEN more[i] ELSE f[i - 1] \o more[i]
  BY <1>5 DEF Unfolds
<1>8. CASE n = 0
  <2>1. q = << >>
    BY <1>8
  <2>2. FlattenSeq(more) = x
    BY <1>1, <1>3, <1>6, <1>7, <1>8
  <2>3. << >> \o x = x /\ << >> \in Seq(S)
    OBVIOUS
  <2>4. QED
    BY <2>1, <2>2, <2>3, FlattenNothing
<1>9. CASE n # 0
  <2> DEFINE g == [i \in 1 .. n |-> f[i]]
             h == [i \in 1 .. n |-> IF i = 1 THEN q[i] ELSE g[i - 1] \o q[i]]
  <2>1. \A i \in 1 .. n : g[i] = h[i]
    <3>1. ASSUME NEW i \in 1 .. n PROVE g[i] = h[i]
      <4>1. more[i] = q[i] /\ (i # 1 => g[i - 1] = f[i - 1]) /\ g[i] = f[i]
        BY <1>1, <1>2
      <4>2. i \in 1 .. n + 1
        BY <1>1
      <4>3. QED
        BY <1>7, <4>1, <4>2
    <3>2. QED
      BY <3>1
  <2>2. Unfolds(g, q, n)
    <3>1. g = h
      BY <2>1
    <3>2. QED
      BY <3>1 DEF Unfolds
  <2>3. FlattenSeq(q) = f[n]
    <3>1. q # << >>
      BY <1>9
    <3>2. FlattenSeq(q) = g[n]
      BY <2>2, <3>1, FlattenIs
    <3>3. QED
      BY <1>1, <1>9, <3>2
  <2>4. f[n + 1] = f[n] \o x
    <3>1. n + 1 \in 1 .. n + 1 /\ n + 1 # 1 /\ (n + 1) - 1 = n
      BY <1>1, <1>9
    <3>2. f[n + 1] = f[(n + 1) - 1] \o more[n + 1]
      BY <1>7, <3>1
    <3> HIDE DEF n, more
    <3>3. QED
      BY <1>3, <3>1, <3>2
  <2>5. QED
    BY <1>1, <1>5, <1>6, <1>9, <2>3, <2>4
<1>10. QED
  BY <1>8, <1>9

(* Every shape that is asked for is a list of pieces.                      *)
AskedShapes ==
    [kind : Plain, depth : Depths] \cup [kind : RingKinds, depth : Depths, n : Pieces]
      \cup [kind : {"disc"}, depth : Depths, n : Pieces, rings : Pieces]
Content == UNION {Range(Pieced(s)) : s \in AskedShapes}

LEMMA ConcatIsList ==
    ASSUME NEW S, NEW T, NEW a \in Seq(S), NEW b \in Seq(T)
    PROVE  a \o b \in Seq(S \cup T)
<1>1. a \in Seq(S \cup T) /\ b \in Seq(S \cup T)
  BY SeqDef
<1>2. QED
  BY <1>1, ConcatProperties

LEMMA FewAreList ==
    /\ \A a : <<a>> \in Seq({a})
    /\ \A a, b : <<a, b>> \in Seq({a, b})
    /\ \A a, b, c : <<a, b, c>> \in Seq({a, b, c})
OBVIOUS

LEMMA ListOfItsOwn ==
    ASSUME NEW S, NEW q \in Seq(S), NEW T, Range(q) \subseteq T
    PROVE  q \in Seq(T)
<1>1. \A k \in 1 .. Len(q) : q[k] \in T
  BY DEF Range
<1>2. Len(q) \in Nat /\ q = [k \in 1 .. Len(q) |-> q[k]]
  OBVIOUS
<1>3. QED
  BY <1>1, <1>2

(* The pieces of every shape are a finite list.                            *)
LEMMA RingIsList ==
    ASSUME NEW plane, NEW n \in Nat
    PROVE  \E S : Ring(plane, n) \in Seq(S)
<1> DEFINE S == {Ring(plane, n)[i] : i \in 1 .. n}
<1>1. Ring(plane, n) \in [1 .. n -> S]
  BY DEF Ring
<1>2. Ring(plane, n) \in Seq(S)
  BY <1>1
<1>3. QED
  BY <1>2

LEMMA SphereIsList ==
    ASSUME NEW n \in Nat
    PROVE  \E S : Sphere(n) \in Seq(S)
<1>1. PICK A : Ring("xy", n) \in Seq(A)
  BY RingIsList
<1>2. PICK B : Ring("xz", n) \in Seq(B)
  BY RingIsList
<1>3. PICK C : Ring("yz", n) \in Seq(C)
  BY RingIsList
<1>4. Ring("xy", n) \o Ring("xz", n) \in Seq(A \cup B)
  BY <1>1, <1>2, ConcatIsList
<1>5. Sphere(n) \in Seq((A \cup B) \cup C)
  BY <1>3, <1>4, ConcatIsList DEF Sphere
<1>6. QED
  BY <1>5

LEMMA BoxIsList == \E S : Box \in Seq(S)
<1> DEFINE at(i) == <<<<0, 0>>, <<1, 0>>, <<1, 1>>, <<0, 1>>>>[(i % 4) + 1]
           a == [i \in 1 .. 4 |-> {<<at(i), 0>>, <<at(i + 1), 0>>}]
           b == [i \in 1 .. 4 |-> {<<at(i), 1>>, <<at(i + 1), 1>>}]
           c == [i \in 1 .. 4 |-> {<<at(i), 0>>, <<at(i), 1>>}]
           A == {a[i] : i \in 1 .. 4}
           B == {b[i] : i \in 1 .. 4}
           C == {c[i] : i \in 1 .. 4}
<1> HIDE DEF at
<1>1. a \in [1 .. 4 -> A] /\ b \in [1 .. 4 -> B] /\ c \in [1 .. 4 -> C]
  OBVIOUS
<1>2. a \in Seq(A) /\ b \in Seq(B) /\ c \in Seq(C)
  BY <1>1
<1>3. Box = (a \o b) \o c
  BY Zenon DEF Box, at
<1> HIDE DEF a, b, c, A, B, C
<1>4. (a \o b) \o c \in Seq((A \cup B) \cup C)
  BY <1>2, ConcatIsList
<1>5. QED
  BY <1>3, <1>4

(* A disc is flattened twice.                                              *)
LEMMA FlattenIsList ==
    ASSUME NEW S, NEW q \in Seq(Seq(S))
    PROVE  FlattenSeq(q) \in Seq(S)
<1>1. << >> \in Seq(S)
  OBVIOUS
<1>2. QED
  BY <1>1, FlattenAppend

LEMMA DiscIsList ==
    ASSUME NEW n \in Nat, NEW rings \in Nat
    PROVE  \E S : GroundDisc(n, rings) \in Seq(S)
<1> DEFINE S == UNION {Range(Band(r, i - 1, n)) : r \in 1 .. rings, i \in 1 .. n}
           band(r) == [i \in 1 .. n |-> Band(r, i - 1, n)]
           disc == [r \in 1 .. rings |-> FlattenSeq(band(r))]
<1>1. ASSUME NEW r \in 1 .. rings, NEW i \in 1 .. n
      PROVE  Band(r, i - 1, n) \in Seq(S)
  <2>1. \E T : Band(r, i - 1, n) \in Seq(T)
    <3>1. CASE r = 1
      <4>1. Band(r, i - 1, n) = <<{Spot(0, 0), Spot(1, i - 1), Spot(1, ((i - 1) + 1) % n)}>>
        BY <3>1, Zenon DEF Band
      <4>2. QED
        BY <4>1, FewAreList, Zenon
    <3>2. CASE r # 1
      <4>1. PICK a, b : Band(r, i - 1, n) = <<a, b>>
        BY <3>2, Zenon DEF Band
      <4>2. Band(r, i - 1, n) \in Seq({a, b})
        BY <4>1, FewAreList
      <4>3. QED
        BY <4>2
    <3>3. QED
      BY <3>1, <3>2
  <2>2. Range(Band(r, i - 1, n)) \subseteq S
    OBVIOUS
  <2> HIDE DEF S
  <2>3. QED
    BY <2>1, <2>2, ListOfItsOwn
<1> HIDE DEF S
<1>2. ASSUME NEW r \in 1 .. rings
      PROVE  FlattenSeq(band(r)) \in Seq(S)
  <2>1. band(r) \in [1 .. n -> Seq(S)]
    BY <1>1
  <2>2. band(r) \in Seq(Seq(S))
    BY <2>1
  <2> HIDE DEF band
  <2>3. QED
    BY <2>2, FlattenIsList
<1>3. disc \in [1 .. rings -> Seq(S)]
  <2> HIDE DEF band
  <2>1. QED
    BY <1>2
<1>4. disc \in Seq(Seq(S))
  BY <1>3
<1>5. GroundDisc(n, rings) = FlattenSeq(disc)
  BY DEF GroundDisc
<1> HIDE DEF disc
<1>6. QED
  BY <1>4, <1>5, FlattenIsList

LEMMA ShapeIsList ==
    ASSUME NEW s \in AskedShapes
    PROVE  Pieced(s) \in Seq(Content)
<1> USE ShapesAssumption DEF ShapesAssumption
<1>1. \A m \in Pieces : AtLeast(3, m) \in Nat /\ AtLeast(1, m) \in Nat
  BY DEF AtLeast
<1>2. \E S : Pieced(s) \in Seq(S)
  <2>1. CASE s.kind = "box"
    BY <2>1, BoxIsList, Zenon DEF Pieced
  <2>2. CASE s.kind = "cross"
    <3> DEFINE S == {Cross[i] : i \in 1 .. 3}
    <3>1. Cross = [i \in 1 .. 3 |-> Cross[i]]
      BY DEF Cross
    <3>2. \A i \in 1 .. 3 : Cross[i] \in S
      OBVIOUS
    <3> HIDE DEF S
    <3>3. Cross \in Seq(S)
      BY <3>1, <3>2
    <3>4. Pieced(s) = Cross
      BY <2>2 DEF Pieced
    <3>5. QED
      BY <3>3, <3>4
  <2>3. CASE s.kind = "line"
    <3>1. Pieced(s) = <<{"a", "b"}>>
      BY <2>3 DEF Pieced
    <3>2. QED
      BY <3>1, FewAreList, Zenon
  <2>4. CASE s.kind = "triangle"
    <3>1. Pieced(s) = <<{"a", "b", "c"}>>
      BY <2>4 DEF Pieced
    <3>2. QED
      BY <3>1, FewAreList, Zenon
  <2>5. CASE s.kind \in {"arrow", "point"}
    <3>1. Pieced(s) = Arrow(s.kind = "arrow")
      BY <2>5 DEF Pieced
    <3>2. CASE s.kind = "arrow"
      <4>1. Pieced(s) = <<{"from", "to"}, {"to", "left"}, {"to", "right"}>>
        BY <3>1, <3>2, Zenon DEF Arrow
      <4>2. Pieced(s) \in Seq({{"from", "to"}, {"to", "left"}, {"to", "right"}})
        BY <4>1, FewAreList
      <4>3. QED
        BY <4>2
    <3>3. CASE s.kind # "arrow"
      <4>1. Pieced(s) = <<{"from"}>>
        BY <3>1, <3>3, Zenon DEF Arrow
      <4>2. QED
        BY <4>1, FewAreList, Zenon
    <3>4. QED
      BY <3>2, <3>3
  <2>6. CASE s.kind = "circle"
    <3>1. s.n \in Pieces /\ Pieced(s) = Ring("xy", AtLeast(3, s.n))
      BY <2>6 DEF Pieced, AskedShapes, Plain, RingKinds
    <3>2. QED
      BY <1>1, <3>1, RingIsList
  <2>7. CASE s.kind = "sphere"
    <3>1. s.n \in Pieces /\ Pieced(s) = Sphere(AtLeast(3, s.n))
      BY <2>7 DEF Pieced, AskedShapes, Plain, RingKinds
    <3>2. QED
      BY <1>1, <3>1, SphereIsList
  <2>8. CASE s.kind = "ring"
    <3>1. s.n \in Pieces /\ Pieced(s) = Ring("ground", AtLeast(3, s.n))
      BY <2>8 DEF Pieced, AskedShapes, Plain, RingKinds
    <3>2. QED
      BY <1>1, <3>1, RingIsList
  <2>9. CASE s.kind = "disc"
    <3>1. s.n \in Pieces /\ s.rings \in Pieces /\ Pieced(s) = GroundDisc(AtLeast(3, s.n), AtLeast(1, s.rings))
      BY <2>9 DEF Pieced, AskedShapes, Plain, RingKinds
    <3>2. QED
      BY <1>1, <3>1, DiscIsList
  <2>10. s.kind \in Plain \cup RingKinds \cup {"disc"}
    BY DEF AskedShapes
  <2>11. QED
    BY <2>1, <2>2, <2>3, <2>4, <2>5, <2>6, <2>7, <2>8, <2>9, <2>10 DEF Plain, RingKinds
<1>3. PICK S : Pieced(s) \in Seq(S)
  BY <1>2
<1>4. \A k \in 1 .. Len(Pieced(s)) : Pieced(s)[k] \in Content
  BY <1>3 DEF Content, Range
<1>5. Len(Pieced(s)) \in Nat /\ Pieced(s) = [k \in 1 .. Len(Pieced(s)) |-> Pieced(s)[k]]
  BY <1>3
<1>6. QED
  BY <1>4, <1>5

-----------------------------------------------------------------------------

(* What a list shows grows with every shape by the pieces of that shape.   *)
LEMMA PiecesGrow ==
    ASSUME NEW l, NEW q \in Seq(AskedShapes), NEW s \in AskedShapes
    PROVE  /\ PiecesFor(l, q) \in Seq(Content)
           /\ PiecesFor(l, Append(q, s)) =
                 PiecesFor(l, q) \o (IF ListOf(s) = l THEN Pieced(s) ELSE << >>)
<1> DEFINE of(x) == IF ListOf(x) = l THEN Pieced(x) ELSE << >>
           each == [k \in DOMAIN q |-> of(q[k])]
           more == [k \in DOMAIN Append(q, s) |-> of(Append(q, s)[k])]
<1>1. \A x \in AskedShapes : of(x) \in Seq(Content)
  <2>1. << >> \in Seq(Content)
    OBVIOUS
  <2>2. QED
    BY <2>1, ShapeIsList
<1> HIDE DEF of
<1>2. each \in Seq(Seq(Content)) /\ Len(each) = Len(q)
  <2>1. DOMAIN q = 1 .. Len(q) /\ Len(q) \in Nat
    OBVIOUS
  <2>2. \A k \in 1 .. Len(q) : of(q[k]) \in Seq(Content)
    BY <1>1
  <2>3. each \in [1 .. Len(q) -> Seq(Content)]
    BY <2>1, <2>2
  <2>4. QED
    BY <2>1, <2>3
<1>3. more = Append(each, of(s))
  <2>1. /\ DOMAIN Append(q, s) = 1 .. Len(q) + 1 /\ DOMAIN q = 1 .. Len(q) /\ Len(q) \in Nat
        /\ \A k \in 1 .. Len(q) : Append(q, s)[k] = q[k]
        /\ Append(q, s)[Len(q) + 1] = s
    BY AppendProperties
  <2>2. Append(each, of(s)) = [k \in 1 .. Len(q) + 1 |-> IF k <= Len(q) THEN each[k] ELSE of(s)]
    BY <1>2
  <2>3. \A k \in 1 .. Len(q) + 1 : more[k] = IF k <= Len(q) THEN each[k] ELSE of(s)
    BY <2>1
  <2>4. more = [k \in 1 .. Len(q) + 1 |-> more[k]]
    BY <2>1
  <2> HIDE DEF more, each
  <2>5. QED
    BY <2>2, <2>3, <2>4
<1>4. PiecesFor(l, q) = FlattenSeq(each) /\ PiecesFor(l, Append(q, s)) = FlattenSeq(more)
  BY DEF PiecesFor, of
<1>5. of(s) \in Seq(Content)
  BY <1>1
<1> HIDE DEF each, more
<1>6. FlattenSeq(each) \in Seq(Content) /\ FlattenSeq(more) = FlattenSeq(each) \o of(s)
  BY <1>2, <1>3, <1>5, FlattenAppend
<1>7. QED
  BY <1>4, <1>6 DEF of

(* The four lists of a flush, one after another.                           *)
LEMMA FlattenFour ==
    ASSUME NEW S, NEW q \in Seq(Seq(S)), Len(q) = 4
    PROVE  FlattenSeq(q) = ((q[1] \o q[2]) \o q[3]) \o q[4]
<1> DEFINE a == q[1]
           b == q[2]
           c == q[3]
           d == q[4]
<1>0. a \in Seq(S) /\ b \in Seq(S) /\ c \in Seq(S) /\ d \in Seq(S) /\ q = <<a, b, c, d>>
  <2>1. 1 \in 1 .. Len(q) /\ 2 \in 1 .. Len(q) /\ 3 \in 1 .. Len(q) /\ 4 \in 1 .. Len(q)
    OBVIOUS
  <2>2. a \in Seq(S) /\ b \in Seq(S) /\ c \in Seq(S) /\ d \in Seq(S)
    <3>1. PICK R : R = Seq(S)
      OBVIOUS
    <3>2. q \in Seq(R)
      BY <3>1, Zenon
    <3>3. \A k \in 1 .. Len(q) : q[k] \in R
      BY <3>2, ElementOfSeq, Zenon
    <3>4. q[1] \in R /\ q[2] \in R /\ q[3] \in R /\ q[4] \in R
      BY <2>1, <3>3, Zenon
    <3>5. QED
      BY <3>1, <3>4, Zenon
  <2>3. q = [k \in 1 .. 4 |-> q[k]]
    OBVIOUS
  <2>4. q = <<a, b, c, d>>
    BY <2>3
  <2>5. QED
    BY <2>2, <2>4
<1> HIDE DEF a, b, c, d
<1>1. << >> \in Seq(Seq(S)) /\ <<a>> \in Seq(Seq(S)) /\ <<a, b>> \in Seq(Seq(S)) /\ <<a, b, c>> \in Seq(Seq(S))
  BY <1>0
<1>2. /\ <<a>> = Append(<< >>, a)
      /\ <<a, b>> = Append(<<a>>, b)
      /\ <<a, b, c>> = Append(<<a, b>>, c)
      /\ <<a, b, c, d>> = Append(<<a, b, c>>, d)
  OBVIOUS
<1>3. FlattenSeq(<<a>>) = a
  <2>1. FlattenSeq(<<a>>) = << >> \o a
    BY <1>0, <1>1, <1>2, FlattenAppend, FlattenNothing
  <2>2. QED
    BY <1>0, <2>1
<1>4. FlattenSeq(<<a, b>>) = a \o b
  BY <1>0, <1>1, <1>2, <1>3, FlattenAppend
<1>5. FlattenSeq(<<a, b, c>>) = (a \o b) \o c
  BY <1>0, <1>1, <1>2, <1>4, FlattenAppend
<1>6. FlattenSeq(<<a, b, c, d>>) = ((a \o b) \o c) \o d
  BY <1>0, <1>1, <1>2, <1>5, FlattenAppend
<1>7. QED
  BY <1>0, <1>6 DEF a, b, c, d

(* A draw adds its pieces to what its list shows and nothing to another.   *)
LEMMA DrawAdds ==
    ASSUME NEW T, NEW D, \A d \in D : d.pieces \in Seq(T), NEW l, NEW q \in Seq(D), NEW d \in D
    PROVE  /\ PiecesOf(l, q) \in Seq(T)
           /\ PiecesOf(l, Append(q, d)) = PiecesOf(l, q) \o (IF d.list = l THEN d.pieces ELSE << >>)
<1> DEFINE of(x) == IF x.list = l THEN x.pieces ELSE << >>
           each == [k \in DOMAIN q |-> of(q[k])]
           more == [k \in DOMAIN Append(q, d) |-> of(Append(q, d)[k])]
<1>1. \A x \in D : of(x) \in Seq(T)
  <2>1. << >> \in Seq(T)
    OBVIOUS
  <2>2. QED
    BY <2>1
<1> HIDE DEF of
<1>2. each \in Seq(Seq(T)) /\ Len(each) = Len(q)
  <2>1. DOMAIN q = 1 .. Len(q) /\ Len(q) \in Nat
    OBVIOUS
  <2>2. \A k \in 1 .. Len(q) : of(q[k]) \in Seq(T)
    BY <1>1
  <2>3. each \in [1 .. Len(q) -> Seq(T)]
    BY <2>1, <2>2
  <2>4. QED
    BY <2>1, <2>3
<1>3. more = Append(each, of(d))
  <2>1. /\ DOMAIN Append(q, d) = 1 .. Len(q) + 1 /\ DOMAIN q = 1 .. Len(q) /\ Len(q) \in Nat
        /\ \A k \in 1 .. Len(q) : Append(q, d)[k] = q[k]
        /\ Append(q, d)[Len(q) + 1] = d
    BY AppendProperties
  <2>2. Append(each, of(d)) = [k \in 1 .. Len(q) + 1 |-> IF k <= Len(q) THEN each[k] ELSE of(d)]
    BY <1>2
  <2>3. \A k \in 1 .. Len(q) + 1 : more[k] = IF k <= Len(q) THEN each[k] ELSE of(d)
    BY <2>1
  <2>4. more = [k \in 1 .. Len(q) + 1 |-> more[k]]
    BY <2>1
  <2> HIDE DEF more, each
  <2>5. QED
    BY <2>2, <2>3, <2>4
<1>4. PiecesOf(l, q) = FlattenSeq(each) /\ PiecesOf(l, Append(q, d)) = FlattenSeq(more)
  BY DEF PiecesOf, of
<1>5. of(d) \in Seq(T)
  BY <1>1
<1> HIDE DEF each, more
<1>6. FlattenSeq(each) \in Seq(T) /\ FlattenSeq(more) = FlattenSeq(each) \o of(d)
  BY <1>2, <1>3, <1>5, FlattenAppend
<1>7. QED
  BY <1>4, <1>6 DEF of

OneDraw(l, state) ==
    [list |-> l, pieces |-> lists[l],
     gx |-> [state EXCEPT !["zEnable"] = IF l[2] = "tested" THEN 1 ELSE 0]]
DrawOf(l, state) == IF lists[l] = << >> THEN << >> ELSE <<OneDraw(l, state)>>

LEMMA NextDraw ==
    ASSUME NEW T, \A m \in Lists : lists[m] \in Seq(T), NEW state, NEW l \in Lists, NEW m \in Lists,
           NEW q \in Seq({OneDraw(j, state) : j \in Lists})
    PROVE  /\ DrawOf(m, state) \in Seq({OneDraw(j, state) : j \in Lists})
           /\ q \o DrawOf(m, state) \in Seq({OneDraw(j, state) : j \in Lists})
           /\ PiecesOf(l, q \o DrawOf(m, state)) = PiecesOf(l, q) \o (IF m = l THEN lists[m] ELSE << >>)
<1> DEFINE D == {OneDraw(j, state) : j \in Lists}
           d == OneDraw(m, state)
<1>1. \A e \in D : e.pieces \in Seq(T)
  BY DEF OneDraw
<1>2. d \in D /\ d.list = m /\ d.pieces = lists[m]
  BY DEF OneDraw
<1> HIDE DEF d, D
<1>3. q \in Seq(D)
  BY DEF D
<1>4. PiecesOf(l, q) \in Seq(T) /\ PiecesOf(l, Append(q, d)) = PiecesOf(l, q) \o (IF m = l THEN lists[m] ELSE << >>)
  BY <1>1, <1>2, <1>3, DrawAdds
<1>5. CASE lists[m] = << >>
  <2>1. DrawOf(m, state) = << >> /\ << >> \in Seq(D)
    BY <1>5 DEF DrawOf
  <2>2. q \o << >> = q /\ PiecesOf(l, q) \o << >> = PiecesOf(l, q)
    BY <1>3, <1>4
  <2>3. QED
    BY <1>3, <1>5, <2>1, <2>2 DEF D
<1>6. CASE lists[m] # << >>
  <2>1. DrawOf(m, state) = <<d>>
    BY <1>6 DEF DrawOf, d
  <2>2. <<d>> \in Seq(D) /\ q \o <<d>> = Append(q, d) /\ Append(q, d) \in Seq(D)
    BY <1>2, <1>3
  <2>3. QED
    BY <1>4, <2>1, <2>2 DEF D
<1>7. QED
  BY <1>5, <1>6

(* What is drawn of a list is what the list holds.                         *)
LEMMA DrawnShows ==
    ASSUME NEW T, \A m \in Lists : lists[m] \in Seq(T), NEW state
    PROVE  /\ Drawn(state) \in Seq({OneDraw(j, state) : j \in Lists})
           /\ \A l \in Lists : PiecesOf(l, Drawn(state)) = lists[l]
<1> DEFINE D == {OneDraw(j, state) : j \in Lists}
           ft == <<"fill", "tested">>
           lt == <<"line", "tested">>
           fh == <<"fill", "through">>
           lh == <<"line", "through">>
           one == DrawOf(ft, state)
           two == one \o DrawOf(lt, state)
           three == two \o DrawOf(fh, state)
           four == three \o DrawOf(lh, state)
<1>1. Lists = {ft, lt, fh, lh}
  BY DEF Lists, Depths
<1>2. ft # lt /\ ft # fh /\ ft # lh /\ lt # fh /\ lt # lh /\ fh # lh
  OBVIOUS
<1>3. DrawOrder = <<ft, lt, fh, lh>>
  BY DEF DrawOrder
<1> HIDE DEF ft, lt, fh, lh
<1>4. << >> \in Seq(D) /\ << >> \o one = one
  <2>1. one \in Seq(D)
    <3>1. << >> \in Seq(D)
      OBVIOUS
    <3>2. QED
      BY <1>1, <3>1, NextDraw
  <2> HIDE DEF one, D
  <2>2. QED
    BY <2>1
<1>5. \A l : PiecesOf(l, << >>) = << >>
  <2>1. \A l : [k \in DOMAIN << >> |-> IF << >>[k].list = l THEN << >>[k].pieces ELSE << >>] = << >>
    OBVIOUS
  <2>2. QED
    BY <2>1, FlattenNothing DEF PiecesOf
<1>6. ASSUME NEW l \in Lists
      PROVE  /\ one \in Seq(D) /\ two \in Seq(D) /\ three \in Seq(D) /\ four \in Seq(D)
             /\ PiecesOf(l, four) = lists[l]
  <2> DEFINE part(m) == IF m = l THEN lists[m] ELSE << >>
  <2>0. \A m \in Lists, q \in Seq(D) :
          q \o DrawOf(m, state) \in Seq(D) /\ PiecesOf(l, q \o DrawOf(m, state)) = PiecesOf(l, q) \o part(m)
    BY NextDraw
  <2> HIDE DEF part, D
  <2>1. one \in Seq(D) /\ PiecesOf(l, one) = << >> \o part(ft)
    <3>1. << >> \o one \in Seq(D) /\ PiecesOf(l, << >> \o one) = PiecesOf(l, << >>) \o part(ft)
      BY <1>1, <1>4, <2>0
    <3>2. QED
      BY <1>4, <1>5, <3>1
  <2>2. two \in Seq(D) /\ PiecesOf(l, two) = PiecesOf(l, one) \o part(lt)
    <3> HIDE DEF one
    <3>1. QED
      BY <1>1, <2>0, <2>1
  <2>3. three \in Seq(D) /\ PiecesOf(l, three) = PiecesOf(l, two) \o part(fh)
    <3> HIDE DEF two
    <3>1. QED
      BY <1>1, <2>0, <2>2
  <2>4. four \in Seq(D) /\ PiecesOf(l, four) = PiecesOf(l, three) \o part(lh)
    <3> HIDE DEF three
    <3>1. QED
      BY <1>1, <2>0, <2>3
  <2>5. \A q \in Seq(T) : << >> \o q = q /\ q \o << >> = q
    OBVIOUS
  <2>6. << >> \in Seq(T) /\ lists[l] \in Seq(T)
    OBVIOUS
  <2> HIDE DEF one, two, three, four
  <2> USE DEF part
  <2>7. PiecesOf(l, four) = lists[l]
    <3>1. CASE l = ft
      BY <1>2, <2>1, <2>2, <2>3, <2>4, <2>5, <2>6, <3>1
    <3>2. CASE l = lt
      BY <1>2, <2>1, <2>2, <2>3, <2>4, <2>5, <2>6, <3>2
    <3>3. CASE l = fh
      BY <1>2, <2>1, <2>2, <2>3, <2>4, <2>5, <2>6, <3>3
    <3>4. CASE l = lh
      BY <1>2, <2>1, <2>2, <2>3, <2>4, <2>5, <2>6, <3>4
    <3>5. QED
      BY <1>1, <3>1, <3>2, <3>3, <3>4
  <2>8. QED
    BY <2>1, <2>2, <2>3, <2>4, <2>7
<1>7. Drawn(state) = four
  <2> DEFINE q == <<DrawOf(ft, state), DrawOf(lt, state), DrawOf(fh, state), DrawOf(lh, state)>>
  <2>1. Drawn(state) = FlattenSeq([k \in DOMAIN DrawOrder |-> DrawOf(DrawOrder[k], state)])
    BY Zenon DEF Drawn, DrawOf, OneDraw
  <2>2. [k \in DOMAIN DrawOrder |-> DrawOf(DrawOrder[k], state)] = q
    BY <1>3
  <2>3. \A m \in Lists : DrawOf(m, state) \in Seq(D)
    BY <1>4, NextDraw
  <2>4. FlattenSeq(q) = four
    <3>1. /\ DrawOf(ft, state) \in Seq(D) /\ DrawOf(lt, state) \in Seq(D)
          /\ DrawOf(fh, state) \in Seq(D) /\ DrawOf(lh, state) \in Seq(D)
      BY <1>1, <2>3
    <3>2. q \in Seq(Seq(D)) /\ Len(q) = 4
      BY <3>1
    <3>3. q[1] = DrawOf(ft, state) /\ q[2] = DrawOf(lt, state) /\ q[3] = DrawOf(fh, state) /\ q[4] = DrawOf(lh, state)
      OBVIOUS
    <3> HIDE DEF D, q
    <3>4. FlattenSeq(q) = ((q[1] \o q[2]) \o q[3]) \o q[4]
      BY <3>2, FlattenFour
    <3>5. QED
      BY <3>3, <3>4
  <2>5. QED
    BY <2>1, <2>2, <2>4
<1>8. QED
  <2> HIDE DEF one, two, three, four
  <2>1. QED
    BY <1>1, <1>6, <1>7

-----------------------------------------------------------------------------
(* What the device is left with.                                           *)

LEMMA StateMet ==
    ASSUME NEW sceneDepth \in BOOLEAN
    PROVE  /\ "zEnable" \in DOMAIN FlushState(sceneDepth)
           /\ \A slot \in Bound \cup {"zWrite", "fog", "lighting"} : FlushState(sceneDepth)[slot] = "off"
           /\ \A slot \in Transforms : FlushState(sceneDepth)[slot] # "found"
           /\ ~sceneDepth => FlushState(sceneDepth)["depth"] = gx["depth"]
<1>1. ASSUME NEW slot \in Bound \cup {"zWrite", "fog", "lighting"}
      PROVE  FlushState(sceneDepth)[slot] = "off"
  <2>1. slot \in SlotsOf /\ slot \notin Shading /\ slot \in Off
    BY DEF SlotsOf, TouchedStates, Bound, Shading, Off
  <2>2. slot \notin TouchedStages \cup Transforms \cup {Format, "zEnable"}
    BY DEF TouchedStages, Transforms, Bound, Format
  <2>3. QED
    BY <2>1, <2>2 DEF FlushState
<1>2. ASSUME NEW slot \in Transforms
      PROVE  FlushState(sceneDepth)[slot] # "found"
  <2>1. slot \in SlotsOf /\ slot \notin Shading \cup Off \cup TouchedStages \cup {Format, "zEnable"}
    BY DEF SlotsOf, TouchedStages, Bound, Transforms, Shading, Off, Format
  <2>2. FlushState(sceneDepth)[slot] = EyeCamera[slot]
    BY <2>1 DEF FlushState
  <2>3. CASE slot = "world"
    BY <2>2, <2>3 DEF EyeCamera
  <2>4. CASE slot = "view"
    BY <2>2, <2>4 DEF EyeCamera
  <2>5. CASE slot = "projection"
    BY <2>2, <2>5 DEF EyeCamera
  <2>6. QED
    BY <2>3, <2>4, <2>5 DEF Transforms
<1>3. ASSUME ~sceneDepth
      PROVE  FlushState(sceneDepth)["depth"] = gx["depth"]
  <2>1. "depth" \in SlotsOf /\ "depth" \notin Shading \cup Off \cup TouchedStages \cup Transforms \cup {Format, "zEnable"}
    BY DEF SlotsOf, TouchedStages, Bound, Transforms, Shading, Off, Format
  <2>2. QED
    BY <1>3, <2>1 DEF FlushState
<1>4. "zEnable" \in DOMAIN FlushState(sceneDepth)
  BY DEF FlushState, SlotsOf, TouchedStates
<1>5. QED
  BY <1>1, <1>2, <1>3, <1>4

(* The lists hold the pieces of what was asked for since the last flush.   *)
ShapesInv ==
    /\ asked \in Seq(AskedShapes)
    /\ lists = [l \in Lists |-> PiecesFor(l, asked)]
    /\ gx = [slot \in SlotsOf |-> gx[slot]]

LEMMA NothingAsked == \A l : PiecesFor(l, << >>) = << >>
<1>1. \A l : [k \in DOMAIN << >> |-> IF ListOf(<< >>[k]) = l THEN Pieced(<< >>[k]) ELSE << >>] = << >>
  OBVIOUS
<1>2. QED
  BY <1>1, FlattenNothing DEF PiecesFor

(* The two actions that change the lists.                                  *)
LEMMA AskKeepsShapes ==
    ASSUME ShapesInv, NEW s \in AskedShapes, Ask(s)
    PROVE  ShapesInv' /\ asked' # << >>
<1>1. asked' = Append(asked, s) /\ asked' \in Seq(AskedShapes) /\ asked' # << >>
  BY DEF Ask, ShapesInv
<1>2. ListOf(s) \in Lists
  BY DEF ListOf, Lists, AskedShapes
<1>3. ASSUME NEW l \in Lists
      PROVE  lists'[l] = PiecesFor(l, asked')
  <2>1. PiecesFor(l, asked) \in Seq(Content)
        /\ PiecesFor(l, asked') = PiecesFor(l, asked) \o (IF ListOf(s) = l THEN Pieced(s) ELSE << >>)
    BY <1>1, PiecesGrow DEF ShapesInv
  <2>2. lists[l] = PiecesFor(l, asked) /\ lists'[l] = IF l = ListOf(s) THEN lists[l] \o Pieced(s) ELSE lists[l]
    BY <1>2 DEF Ask, ShapesInv
  <2>3. PiecesFor(l, asked) \o << >> = PiecesFor(l, asked)
    BY <2>1
  <2>4. QED
    BY <2>1, <2>2, <2>3
<1>4. lists' = [l \in Lists |-> lists'[l]] /\ UNCHANGED gx
  BY DEF Ask, ShapesInv
<1>5. lists' = [l \in Lists |-> PiecesFor(l, asked')]
  BY <1>3, <1>4
<1>6. QED
  BY <1>1, <1>4, <1>5 DEF ShapesInv

LEMMA FlushKeepsShapes ==
    ASSUME ShapesInv, NEW hasDevice \in BOOLEAN, NEW graphicsUp \in BOOLEAN, NEW sceneDepth \in BOOLEAN,
           Flush(hasDevice, graphicsUp, sceneDepth)
    PROVE  ShapesInv' /\ FlushShows
<1>1. asked' = << >> /\ asked' \in Seq(AskedShapes) /\ lists' = [l \in Lists |-> << >>]
  BY DEF Flush, Clear
<1>2. lists' = [l \in Lists |-> PiecesFor(l, asked')]
  BY <1>1, NothingAsked
<1>3. \A l \in Lists : lists[l] = PiecesFor(l, asked) /\ lists[l] \in Seq(Content)
  <2>1. ASSUME NEW l \in Lists PROVE PiecesFor(l, asked) \in Seq(Content)
    <3>1. CASE AskedShapes = {}
      <4>1. asked = << >> /\ << >> \in Seq(Content)
        BY <3>1 DEF ShapesInv
      <4>2. QED
        BY <4>1, NothingAsked
    <3>2. CASE AskedShapes # {}
      BY <3>2, PiecesGrow DEF ShapesInv
    <3>3. QED
      BY <3>1, <3>2
  <2>2. QED
    BY <2>1 DEF ShapesInv
<1>4. CASE ~(hasDevice /\ Pending /\ graphicsUp)
  <2>1. flushed' = << >> /\ UNCHANGED gx
    BY <1>4 DEF Flush
  <2>2. DOMAIN << >> = {}
    OBVIOUS
  <2>3. FlushShows
    BY <2>1, <2>2 DEF FlushShows
  <2>4. QED
    BY <1>1, <1>2, <2>1, <2>3 DEF ShapesInv
<1>5. CASE hasDevice /\ Pending /\ graphicsUp
  <2> DEFINE state == FlushState(sceneDepth)
             last == [state EXCEPT !["zEnable"] = 0]
  <2>1. flushed' = Drawn(state) /\ gx' = Restored(last, gx, sceneDepth)
    BY <1>5 DEF Flush
  <2>2. Drawn(state) \in Seq({OneDraw(j, state) : j \in Lists})
        /\ \A l \in Lists : PiecesOf(l, Drawn(state)) = lists[l]
    BY <1>3, DrawnShows
  <2>3. /\ "zEnable" \in DOMAIN state
        /\ \A slot \in Bound \cup {"zWrite", "fog", "lighting"} : state[slot] = "off"
        /\ \A slot \in Transforms : state[slot] # "found"
        /\ ~sceneDepth => state["depth"] = gx["depth"]
    BY StateMet
  <2>4. gx' = [slot \in SlotsOf |-> gx'[slot]]
    BY <2>1 DEF Restored
  <2> HIDE DEF state
  <2>5. \A l \in Lists : MetRight(OneDraw(l, state))
    <3> SUFFICES ASSUME NEW l \in Lists
                 PROVE  MetRight(OneDraw(l, state))
      OBVIOUS
    <3> DEFINE d == OneDraw(l, state)
    <3>1. /\ d.list = l
          /\ d.gx = [state EXCEPT !["zEnable"] = IF l[2] = "tested" THEN 1 ELSE 0]
      BY DEF OneDraw
    <3>2. d.gx["zEnable"] = IF l[2] = "tested" THEN 1 ELSE 0
      BY <2>3, <3>1
    <3>3. \A slot : slot # "zEnable" => d.gx[slot] = state[slot]
      BY <3>1
    <3>4. "zEnable" \notin Bound \cup {"zWrite", "fog", "lighting"} \cup Transforms
      BY DEF Bound, Transforms
    <3> HIDE DEF d
    <3>5. MetRight(d)
      BY <2>3, <3>1, <3>2, <3>3, <3>4 DEF MetRight
    <3>6. QED
      BY <3>5 DEF d
  <2>6. \A k \in DOMAIN flushed' : MetRight(flushed'[k])
    <3>1. \A k \in DOMAIN flushed' : flushed'[k] \in {OneDraw(j, state) : j \in Lists}
      BY <2>1, <2>2
    <3>2. QED
      BY <2>5, <3>1
  <2>7. ASSUME NEW slot \in SlotsOf \ {Format}
        PROVE  gx'[slot] = gx[slot]
    <3>1. CASE slot = "depth" /\ ~sceneDepth
      <4>1. slot \notin TouchedStages \cup TouchedStates \cup Transforms \cup Bound
        BY <3>1 DEF TouchedStages, TouchedStates, Transforms, Bound
      <4>2. last["depth"] = state["depth"]
        OBVIOUS
      <4> HIDE DEF last
      <4>3. gx'[slot] = last[slot]
        BY <2>1, <3>1, <4>1 DEF Restored
      <4>4. QED
        BY <2>3, <3>1, <4>2, <4>3
    <3>2. CASE ~(slot = "depth" /\ ~sceneDepth)
      <4>1. slot \in TouchedStages \cup TouchedStates \cup Transforms \cup Bound \cup (IF sceneDepth THEN {"depth"} ELSE {})
        BY <3>2 DEF SlotsOf
      <4> HIDE DEF last
      <4>2. QED
        BY <2>1, <4>1 DEF Restored
    <3>3. QED
      BY <3>1, <3>2
  <2>8. \A l \in Lists : PiecesOf(l, flushed') = PiecesFor(l, asked)
    BY <1>3, <2>1, <2>2
  <2>9. QED
    BY <1>1, <1>2, <2>4, <2>6, <2>7, <2>8 DEF ShapesInv, FlushShows
<1>6. QED
  BY <1>4, <1>5

LEMMA ShapesStep ==
    ASSUME ShapesInv, [ShapesNext]_shapeVars
    PROVE  ShapesInv' /\ (asked' = << >> /\ asked # << >> => FlushShows)
<1>1. ASSUME NEW s \in AskedShapes, Ask(s)
      PROVE  ShapesInv' /\ asked' # << >>
  BY <1>1, AskKeepsShapes
<1>2. ASSUME NEW hasDevice \in BOOLEAN, NEW graphicsUp \in BOOLEAN, NEW sceneDepth \in BOOLEAN,
             Flush(hasDevice, graphicsUp, sceneDepth)
      PROVE  ShapesInv' /\ FlushShows
  BY <1>2, FlushKeepsShapes
<1>3. ASSUME ClientDraws
      PROVE  ShapesInv' /\ asked' = asked
  BY <1>3 DEF ClientDraws, ShapesInv, Found
<1>4. ASSUME UNCHANGED shapeVars
      PROVE  ShapesInv' /\ asked' = asked
  BY <1>4 DEF shapeVars, ShapesInv
<1>5. /\ \A depth \in Depths, kind \in Plain : [kind |-> kind, depth |-> depth] \in AskedShapes
      /\ \A depth \in Depths, kind \in RingKinds, n \in Pieces : [kind |-> kind, depth |-> depth, n |-> n] \in AskedShapes
      /\ \A depth \in Depths, n, rings \in Pieces :
           [kind |-> "disc", depth |-> depth, n |-> n, rings |-> rings] \in AskedShapes
  BY DEF AskedShapes
<1>6. QED
  BY <1>1, <1>2, <1>3, <1>4, <1>5 DEF ShapesNext

-----------------------------------------------------------------------------
(* How often the pieces of a set are in a list: what a shape's corners and *)
(* edges are counted by.                                                   *)
Hits(p, Z) == Cardinality({k \in DOMAIN p : p[k] \in Z})

LEMMA HitsCount ==
    ASSUME NEW T, NEW p \in Seq(T), NEW Z
    PROVE  /\ IsFiniteSet({k \in DOMAIN p : p[k] \in Z}) /\ Hits(p, Z) \in Nat
           /\ Hits(p, Z) = 0 <=> \A k \in 1 .. Len(p) : p[k] \notin Z
<1> DEFINE H == {k \in DOMAIN p : p[k] \in Z}
<1>1. Len(p) \in Nat /\ DOMAIN p = 1 .. Len(p)
  OBVIOUS
<1>2. IsFiniteSet(1 .. Len(p))
  BY <1>1, FS_Interval
<1>3. H \subseteq 1 .. Len(p)
  BY <1>1
<1>4. IsFiniteSet(H)
  BY <1>2, <1>3, FS_Subset
<1>5. Cardinality(H) \in Nat /\ (Cardinality(H) = 0 <=> H = {})
  BY <1>4, FS_CardinalityType, FS_EmptySet
<1>6. H = {} <=> \A k \in 1 .. Len(p) : p[k] \notin Z
  BY <1>1
<1>7. Hits(p, Z) = Cardinality(H)
  BY DEF Hits
<1> HIDE DEF H
<1>8. QED
  BY <1>4, <1>5, <1>6, <1>7 DEF H

LEMMA HitsConcat ==
    ASSUME NEW T, NEW p \in Seq(T), NEW q \in Seq(T), NEW Z
    PROVE  Hits(p \o q, Z) = Hits(p, Z) + Hits(q, Z)
<1> DEFINE A == {k \in 1 .. Len(p) : p[k] \in Z}
           B == {k \in 1 .. Len(q) : q[k] \in Z}
           C == {k \in 1 .. Len(p) + Len(q) : (p \o q)[k] \in Z}
           D == {k \in C : k > Len(p)}
           move == [k \in B |-> k + Len(p)]
<1>1. /\ Len(p) \in Nat /\ Len(q) \in Nat /\ Len(p \o q) = Len(p) + Len(q)
      /\ DOMAIN p = 1 .. Len(p) /\ DOMAIN q = 1 .. Len(q) /\ DOMAIN (p \o q) = 1 .. Len(p) + Len(q)
  BY ConcatProperties
<1>2. /\ \A k \in 1 .. Len(p) : (p \o q)[k] = p[k]
      /\ \A k \in 1 .. Len(q) : (p \o q)[k + Len(p)] = q[k]
  BY <1>1
<1>3. Hits(p, Z) = Cardinality(A) /\ Hits(q, Z) = Cardinality(B) /\ Hits(p \o q, Z) = Cardinality(C)
  BY <1>1 DEF Hits
<1>4. IsFiniteSet(A) /\ IsFiniteSet(B)
  BY <1>1, HitsCount
<1>5. C = A \cup D /\ A \cap D = {}
  BY <1>1, <1>2
<1>6. move \in Bijection(B, D)
  <2>1. \A k \in B : k + Len(p) \in D
    BY <1>1, <1>2
  <2>2. \A k, l \in B : k + Len(p) = l + Len(p) => k = l
    BY <1>1
  <2>3. \A d \in D : \E k \in B : k + Len(p) = d
    <3>1. ASSUME NEW d \in D PROVE \E k \in B : k + Len(p) = d
      <4>1. d - Len(p) \in 1 .. Len(q) /\ (d - Len(p)) + Len(p) = d /\ (p \o q)[d] \in Z
        BY <1>1
      <4>2. q[d - Len(p)] \in Z
        BY <1>2, <4>1
      <4>3. QED
        BY <4>1, <4>2
    <3>2. QED
      BY <3>1
  <2> HIDE DEF B, D
  <2>4. QED
    BY <2>1, <2>2, <2>3 DEF Bijection, Injection, Surjection, IsInjective
<1> HIDE DEF A, B, C, D, move
<1>7. IsFiniteSet(D) /\ Cardinality(D) = Cardinality(B)
  BY <1>4, <1>6, FS_Bijection DEF ExistsBijection
<1>8. Cardinality(A) \in Nat /\ Cardinality(D) \in Nat /\ Cardinality(A \cap D) = 0
  BY <1>4, <1>5, <1>7, FS_CardinalityType, FS_EmptySet
<1>9. Cardinality(C) = Cardinality(A) + Cardinality(D)
  <2>1. Cardinality(A \cup D) = Cardinality(A) + Cardinality(D) - Cardinality(A \cap D)
    BY <1>4, <1>7, FS_Union
  <2>2. Cardinality(C) = Cardinality(A) + Cardinality(D) - 0
    BY <1>5, <1>8, <2>1
  <2>3. QED
    BY <1>8, <2>2
<1>10. QED
  BY <1>3, <1>7, <1>9

LEMMA HitsOne ==
    ASSUME NEW a, NEW Z
    PROVE  Hits(<<a>>, Z) = IF a \in Z THEN 1 ELSE 0
<1>1. {k \in DOMAIN <<a>> : <<a>>[k] \in Z} = IF a \in Z THEN {1} ELSE {}
  OBVIOUS
<1>2. QED
  BY <1>1, FS_Singleton, FS_EmptySet DEF Hits

LEMMA HitsTwo ==
    ASSUME NEW a, NEW b, NEW Z
    PROVE  Hits(<<a, b>>, Z) = (IF a \in Z THEN 1 ELSE 0) + (IF b \in Z THEN 1 ELSE 0)
<1>1. <<a>> \in Seq({a, b}) /\ <<b>> \in Seq({a, b}) /\ <<a, b>> = <<a>> \o <<b>>
  <2>1. <<a>> \in Seq({a, b}) /\ <<b>> \in Seq({a, b}) /\ <<a, b>> \in Seq({a, b})
    OBVIOUS
  <2>2. <<a>> \o <<b>> = [k \in 1 .. 2 |-> IF k <= 1 THEN <<a>>[k] ELSE <<b>>[k - 1]]
    BY <2>1
  <2>3. <<a, b>> = [k \in 1 .. 2 |-> IF k <= 1 THEN <<a>>[k] ELSE <<b>>[k - 1]]
    OBVIOUS
  <2>4. QED
    BY <2>1, <2>2, <2>3
<1>2. Hits(<<a>> \o <<b>>, Z) = Hits(<<a>>, Z) + Hits(<<b>>, Z)
  <2>1. \A p, q \in Seq({a, b}) : Hits(p \o q, Z) = Hits(p, Z) + Hits(q, Z)
    BY HitsConcat
  <2>2. <<a>> \in Seq({a, b}) /\ <<b>> \in Seq({a, b})
    BY <1>1
  <2>3. QED
    BY <2>1, <2>2, Zenon
<1>3. QED
  BY <1>1, <1>2, HitsOne

(* Where all hits are in two lists of a list of lists.                     *)
HitsAt(f, Z, j) == IF j \in 1 .. Len(f) THEN Hits(f[j], Z) ELSE 0

LEMMA FlattenHits ==
    ASSUME NEW T, NEW f \in Seq(Seq(T)), NEW Z, NEW a \in Nat, NEW b \in Nat, a # b,
           \A j \in 1 .. Len(f) : j \notin {a, b} => Hits(f[j], Z) = 0
    PROVE  FlattenSeq(f) \in Seq(T) /\ Hits(FlattenSeq(f), Z) = HitsAt(f, Z, a) + HitsAt(f, Z, b)
<1> DEFINE first(k) == [j \in 1 .. k |-> f[j]]
           upTo(k, j) == IF j \in 1 .. k THEN Hits(f[j], Z) ELSE 0
           Wrong == {k \in 0 .. Len(f) : Hits(FlattenSeq(first(k)), Z) # upTo(k, a) + upTo(k, b)}
<1>1. Len(f) \in Nat /\ DOMAIN f = 1 .. Len(f) /\ f = first(Len(f))
  OBVIOUS
<1>2. \A j \in 1 .. Len(f) : f[j] \in Seq(T)
  <2>1. PICK R : R = Seq(T)
    OBVIOUS
  <2>2. f \in Seq(R)
    BY <2>1, Zenon
  <2>3. \A k \in 1 .. Len(f) : f[k] \in R
    BY <2>2, ElementOfSeq, Zenon
  <2>4. QED
    BY <2>1, <2>3, Zenon
<1>3. \A j \in 1 .. Len(f) : Hits(f[j], Z) \in Nat
  BY <1>2, HitsCount
<1>4. \A k \in 0 .. Len(f) : first(k) \in Seq(Seq(T)) /\ Len(first(k)) = k
  <2>1. ASSUME NEW k \in 0 .. Len(f) PROVE first(k) \in Seq(Seq(T)) /\ Len(first(k)) = k
    <3>1. k \in Nat /\ first(k) \in [1 .. k -> Seq(T)]
      BY <1>1, <1>2
    <3>2. QED
      BY <3>1
  <2>2. QED
    BY <2>1
<1>5. \A k \in 0 .. Len(f) : FlattenSeq(first(k)) \in Seq(T)
  <2>1. << >> \in Seq(T)
    OBVIOUS
  <2>2. QED
    BY <1>4, <2>1, FlattenAppend
<1>6. Wrong = {}
  <2>1. SUFFICES ASSUME Wrong # {} PROVE FALSE
    OBVIOUS
  <2>2. Wrong \subseteq Nat
    BY <1>1
  <2> HIDE DEF Wrong, first, upTo
  <2>3. PICK k \in Wrong : \A l \in Wrong : k <= l
    BY <2>1, <2>2, LeastOfNaturals
  <2>4. /\ k \in 0 .. Len(f) /\ Hits(FlattenSeq(first(k)), Z) # upTo(k, a) + upTo(k, b)
        /\ \A l \in 0 .. Len(f) : l < k => Hits(FlattenSeq(first(l)), Z) = upTo(l, a) + upTo(l, b)
    BY <1>1, <2>3 DEF Wrong
  <2>5. CASE k = 0
    <3>1. first(0) = << >>
      BY DEF first
    <3>2. Hits(<< >>, Z) = 0
      <4>1. {i \in DOMAIN << >> : << >>[i] \in Z} = {}
        OBVIOUS
      <4>2. QED
        BY <4>1, FS_EmptySet DEF Hits
    <3>3. Hits(FlattenSeq(first(k)), Z) = 0
      BY <2>5, <3>1, <3>2, FlattenNothing
    <3>4. upTo(0, a) = 0 /\ upTo(0, b) = 0
      BY DEF upTo
    <3>5. QED
      BY <2>4, <2>5, <3>3, <3>4
  <2>6. CASE k # 0
    <3> DEFINE l == k - 1
               old == FlattenSeq(first(l))
    <3>1. l \in 0 .. Len(f) /\ l < k /\ k \in 1 .. Len(f) /\ l + 1 = k
      BY <1>1, <2>4, <2>6
    <3>2. first(k) = Append(first(l), f[k])
      <4>1. Append(first(l), f[k]) = [j \in 1 .. l + 1 |-> IF j <= l THEN first(l)[j] ELSE f[k]]
        BY <1>4, <3>1
      <4>2. QED
        BY <3>1, <4>1 DEF first
    <3>3. FlattenSeq(first(k)) = old \o f[k]
      BY <1>2, <1>4, <3>1, <3>2, FlattenAppend
    <3>4. Hits(old \o f[k], Z) = Hits(old, Z) + Hits(f[k], Z)
      BY <1>2, <1>5, <3>1, HitsConcat
    <3>5. Hits(old, Z) = upTo(l, a) + upTo(l, b)
      BY <2>4, <3>1
    <3>6. upTo(l, a) \in Nat /\ upTo(l, b) \in Nat /\ Hits(f[k], Z) \in Nat
      BY <1>3, <3>1 DEF upTo
    <3>7. upTo(l, a) + upTo(l, b) + Hits(f[k], Z) = upTo(k, a) + upTo(k, b)
      <4>1. k = a => upTo(l, a) = 0 /\ upTo(k, a) = Hits(f[k], Z) /\ upTo(k, b) = upTo(l, b)
        BY <3>1 DEF upTo
      <4>2. k = b => upTo(l, b) = 0 /\ upTo(k, b) = Hits(f[k], Z) /\ upTo(k, a) = upTo(l, a)
        BY <3>1 DEF upTo
      <4>3. k \notin {a, b} => Hits(f[k], Z) = 0 /\ upTo(k, a) = upTo(l, a) /\ upTo(k, b) = upTo(l, b)
        BY <3>1 DEF upTo
      <4> HIDE DEF l
      <4>4. QED
        BY <3>6, <4>1, <4>2, <4>3
    <3> HIDE DEF l, old
    <3>8. QED
      BY <2>4, <3>3, <3>4, <3>5, <3>7
  <2>7. QED
    BY <2>5, <2>6
<1>7. Hits(FlattenSeq(first(Len(f))), Z) = upTo(Len(f), a) + upTo(Len(f), b)
  <2> HIDE DEF first, upTo
  <2>1. QED
    BY <1>1, <1>6
<1>8. Len(f) \in 0 .. Len(f)
  BY <1>1
<1>9. QED
  BY <1>1, <1>5, <1>7, <1>8 DEF HitsAt

LEMMA UsesAreHits ==
    ASSUME NEW T, NEW p \in Seq(T), NEW c
    PROVE  Uses(p, c) = Hits(p, {t \in T : c \subseteq t})
<1>1. \A k \in DOMAIN p : p[k] \in T
  OBVIOUS
<1>2. {k \in DOMAIN p : c \subseteq p[k]} = {k \in DOMAIN p : p[k] \in {t \in T : c \subseteq t}}
  BY <1>1
<1>3. QED
  BY <1>2 DEF Uses, Hits

LEMMA UsesConcat ==
    ASSUME NEW T, NEW p \in Seq(T), NEW q \in Seq(T), NEW c
    PROVE  /\ p \o q \in Seq(T) /\ Uses(p \o q, c) = Uses(p, c) + Uses(q, c)
           /\ Uses(p, c) \in Nat /\ Uses(q, c) \in Nat
<1> DEFINE Z == {t \in T : c \subseteq t}
<1>1. p \o q \in Seq(T)
  BY ConcatProperties
<1>2. Uses(p \o q, c) = Hits(p \o q, Z) /\ Uses(p, c) = Hits(p, Z) /\ Uses(q, c) = Hits(q, Z)
  <2>1. \A r \in Seq(T) : Uses(r, c) = Hits(r, Z)
    BY UsesAreHits
  <2> HIDE DEF Z
  <2>2. QED
    BY <1>1, <2>1
<1> HIDE DEF Z
<1>3. Hits(p \o q, Z) = Hits(p, Z) + Hits(q, Z)
  BY HitsConcat
<1>4. Hits(p, Z) \in Nat /\ Hits(q, Z) \in Nat
  BY HitsCount
<1>5. QED
  BY <1>1, <1>2, <1>3, <1>4

LEMMA Counts ==
    /\ \A a, b : a # b => IsFiniteSet({a, b}) /\ Cardinality({a, b}) = 2
    /\ \A a, b, c : a # b /\ b # c /\ a # c => IsFiniteSet({a, b, c}) /\ Cardinality({a, b, c}) = 3
<1>1. ASSUME NEW a, NEW b, a # b PROVE IsFiniteSet({a, b}) /\ Cardinality({a, b}) = 2
  <2>1. {a, b} = {a} \cup {b} /\ b \notin {a}
    BY <1>1
  <2>2. IsFiniteSet({a}) /\ Cardinality({a}) = 1
    BY FS_Singleton
  <2>3. IsFiniteSet({a} \cup {b}) /\ Cardinality({a} \cup {b}) = Cardinality({a}) + 1
    BY <2>1, <2>2, FS_AddElement
  <2>4. QED
    BY <2>1, <2>2, <2>3
<1>2. ASSUME NEW a, NEW b, NEW c, a # b, b # c, a # c PROVE IsFiniteSet({a, b, c}) /\ Cardinality({a, b, c}) = 3
  <2>1. {a, b, c} = {a, b} \cup {c} /\ c \notin {a, b}
    BY <1>2
  <2>2. IsFiniteSet({a, b}) /\ Cardinality({a, b}) = 2
    BY <1>1, <1>2
  <2>3. IsFiniteSet({a, b} \cup {c}) /\ Cardinality({a, b} \cup {c}) = Cardinality({a, b}) + 1
    BY <2>1, <2>2, FS_AddElement
  <2>4. QED
    BY <2>1, <2>2, <2>3
<1>3. QED
  BY <1>1, <1>2

LEMMA NextCorner ==
    ASSUME NEW n \in Nat, n # 0, NEW k \in 1 .. n
    PROVE  k % n = IF k = n THEN 0 ELSE k
OBVIOUS

(* A closed line: each corner ends one piece and starts another.           *)
LEMMA RingCloses ==
    ASSUME NEW plane, NEW n \in Nat, n >= 3
    PROVE  /\ \A k \in 1 .. n : \A corner \in Ring(plane, n)[k] : Uses(Ring(plane, n), {corner}) = 2 /\ corner[1] = plane
           /\ \A x : x[1] # plane => Uses(Ring(plane, n), {x}) = 0
<1> DEFINE to(k) == IF k = n THEN 0 ELSE k
           turn == [k \in 1 .. n |-> {<<plane, k - 1>>, <<plane, to(k)>>}]
<1>1. Ring(plane, n) = turn
  <2>1. ASSUME NEW k \in 1 .. n PROVE k % n = to(k)
    <3>1. n # 0
      OBVIOUS
    <3>2. QED
      BY <3>1, NextCorner
  <2>2. Ring(plane, n) = [k \in 1 .. n |-> {<<plane, k - 1>>, <<plane, k % n>>}]
    BY DEF Ring
  <2> HIDE DEF to
  <2>3. QED
    BY <2>1, <2>2
<1>2. ASSUME NEW j \in 0 .. n - 1
      PROVE  Cardinality({k \in 1 .. n : <<plane, j>> \in turn[k]}) = 2
  <2> DEFINE before == IF j = 0 THEN n ELSE j
  <2>1. \A k \in 1 .. n : <<plane, j>> \in turn[k] <=> k = j + 1 \/ k = before
    OBVIOUS
  <2>2. {k \in 1 .. n : <<plane, j>> \in turn[k]} = {j + 1, before} /\ j + 1 # before
    <3>1. j + 1 \in 1 .. n /\ before \in 1 .. n /\ j + 1 # before
      OBVIOUS
    <3> HIDE DEF turn, before
    <3>2. QED
      BY <2>1, <3>1
  <2> HIDE DEF before, turn
  <2>3. Cardinality({j + 1, before}) = 2
    BY <2>2, Counts
  <2>4. QED
    BY <2>2, <2>3
<1>3. \A c : Uses(turn, {c}) = Cardinality({k \in 1 .. n : c \in turn[k]})
  <2>1. DOMAIN turn = 1 .. n
    OBVIOUS
  <2> HIDE DEF turn
  <2>2. \A c : {k \in DOMAIN turn : {c} \subseteq turn[k]} = {k \in 1 .. n : c \in turn[k]}
    BY <2>1
  <2>3. QED
    BY <2>2 DEF Uses
<1>4. \A k \in 1 .. n : \A corner \in turn[k] : \E j \in 0 .. n - 1 : corner = <<plane, j>>
  OBVIOUS
<1>5. \A x : x[1] # plane => Uses(turn, {x}) = 0
  <2>1. ASSUME NEW x, x[1] # plane PROVE Uses(turn, {x}) = 0
    <3>1. {k \in 1 .. n : x \in turn[k]} = {}
      <4>1. \A k \in 1 .. n : x \in turn[k] => x[1] = plane
        OBVIOUS
      <4> HIDE DEF turn
      <4>2. QED
        BY <2>1, <4>1
    <3> HIDE DEF turn
    <3>2. QED
      BY <1>3, <3>1, FS_EmptySet
  <2>2. QED
    BY <2>1
<1>6. \A j \in 0 .. n - 1 : <<plane, j>>[1] = plane
  OBVIOUS
<1> HIDE DEF turn
<1>7. ASSUME NEW k \in 1 .. n, NEW corner \in turn[k]
      PROVE  Uses(turn, {corner}) = 2 /\ corner[1] = plane
  <2>1. PICK j \in 0 .. n - 1 : corner = <<plane, j>>
    BY <1>4
  <2>2. Uses(turn, {corner}) = Cardinality({i \in 1 .. n : <<plane, j>> \in turn[i]})
    BY <1>3, <2>1
  <2>3. QED
    BY <1>2, <1>6, <2>1, <2>2
<1>8. QED
  BY <1>1, <1>5, <1>7

LEMMA ConcatPieces ==
    ASSUME NEW T, NEW p \in Seq(T), NEW q \in Seq(T), NEW s, s = p \o q, NEW k \in DOMAIN s
    PROVE  s[k] \in Range(p) \cup Range(q)
<1>1. /\ Len(p) \in Nat /\ Len(q) \in Nat /\ DOMAIN p = 1 .. Len(p) /\ DOMAIN q = 1 .. Len(q)
      /\ DOMAIN (p \o q) = 1 .. Len(p) + Len(q)
  BY ConcatProperties
<1>2. CASE k <= Len(p)
  <2>1. k \in DOMAIN p /\ (p \o q)[k] = p[k]
    BY <1>1, <1>2
  <2>2. QED
    BY <2>1 DEF Range
<1>3. CASE k > Len(p)
  <2>1. k - Len(p) \in 1 .. Len(q)
    BY <1>1, <1>3
  <2>2. (p \o q)[k] = q[k - Len(p)]
    BY <1>1, <1>3
  <2>3. QED
    BY <1>1, <2>1, <2>2 DEF Range
<1>4. QED
  BY <1>1, <1>2, <1>3

LEMMA ThreePieces ==
    ASSUME NEW T, NEW a \in Seq(T), NEW b \in Seq(T), NEW c \in Seq(T), NEW s, s = (a \o b) \o c,
           NEW k \in DOMAIN s
    PROVE  s[k] \in Range(a) \cup Range(b) \cup Range(c)
<1>1. PICK r : r = a \o b
  OBVIOUS
<1>2. r \in Seq(T)
  BY <1>1, UsesConcat
<1>3. \A i \in DOMAIN r : r[i] \in Range(a) \cup Range(b)
  BY <1>1, ConcatPieces
<1>4. s[k] \in Range(r) \cup Range(c)
  BY <1>1, <1>2, ConcatPieces
<1>5. QED
  BY <1>3, <1>4 DEF Range

LEMMA SphereCloses ==
    ASSUME NEW n \in Nat, n >= 3, NEW k \in DOMAIN Sphere(n), NEW corner \in Sphere(n)[k]
    PROVE  Uses(Sphere(n), {corner}) = 2
<1> DEFINE a == Ring("xy", n)
           b == Ring("xz", n)
           c == Ring("yz", n)
<1>1. PICK T : a \in Seq(T) /\ b \in Seq(T) /\ c \in Seq(T)
  <2>1. PICK A, B, C : a \in Seq(A) /\ b \in Seq(B) /\ c \in Seq(C)
    BY RingIsList
  <2> HIDE DEF a, b, c
  <2>2. a \in Seq((A \cup B) \cup C) /\ b \in Seq((A \cup B) \cup C) /\ c \in Seq((A \cup B) \cup C)
    BY <2>1, SeqDef
  <2>3. QED
    BY <2>2
<1>2. DOMAIN a = 1 .. n /\ DOMAIN b = 1 .. n /\ DOMAIN c = 1 .. n
  BY DEF Ring
<1>3. /\ \A i \in 1 .. n : \A x \in a[i] : Uses(a, {x}) = 2 /\ x[1] = "xy"
      /\ \A x : x[1] # "xy" => Uses(a, {x}) = 0
  BY RingCloses
<1>4. /\ \A i \in 1 .. n : \A x \in b[i] : Uses(b, {x}) = 2 /\ x[1] = "xz"
      /\ \A x : x[1] # "xz" => Uses(b, {x}) = 0
  BY RingCloses
<1>5. /\ \A i \in 1 .. n : \A x \in c[i] : Uses(c, {x}) = 2 /\ x[1] = "yz"
      /\ \A x : x[1] # "yz" => Uses(c, {x}) = 0
  BY RingCloses
<1>6. Sphere(n) = (a \o b) \o c
  BY DEF Sphere
<1> HIDE DEF a, b, c
<1>7. /\ Uses(Sphere(n), {corner}) = (Uses(a, {corner}) + Uses(b, {corner})) + Uses(c, {corner})
      /\ \/ \E i \in DOMAIN a : corner \in a[i]
         \/ \E i \in DOMAIN b : corner \in b[i]
         \/ \E i \in DOMAIN c : corner \in c[i]
  <2>1. Uses(Sphere(n), {corner}) = (Uses(a, {corner}) + Uses(b, {corner})) + Uses(c, {corner})
    <3>1. a \o b \in Seq(T) /\ Uses(a \o b, {corner}) = Uses(a, {corner}) + Uses(b, {corner})
      BY <1>1, UsesConcat
    <3>2. \A r \in Seq(T) : Uses(r \o c, {corner}) = Uses(r, {corner}) + Uses(c, {corner})
      BY <1>1, UsesConcat
    <3>3. QED
      BY <1>6, <3>1, <3>2
  <2>2. Sphere(n)[k] \in Range(a) \cup Range(b) \cup Range(c)
    BY <1>6, <1>1, ThreePieces
  <2>3. QED
    BY <2>1, <2>2 DEF Range
<1>8. "xy" # "xz" /\ "xy" # "yz" /\ "xz" # "yz"
  OBVIOUS
<1>9. CASE \E i \in DOMAIN a : corner \in a[i]
  <2>1. Uses(a, {corner}) = 2 /\ corner[1] = "xy"
    BY <1>2, <1>3, <1>9
  <2>2. Uses(b, {corner}) = 0 /\ Uses(c, {corner}) = 0
    BY <1>4, <1>5, <1>8, <2>1
  <2>3. QED
    BY <1>6, <1>7, <2>1, <2>2
<1>10. CASE \E i \in DOMAIN b : corner \in b[i]
  <2>1. Uses(b, {corner}) = 2 /\ corner[1] = "xz"
    BY <1>2, <1>4, <1>10
  <2>2. Uses(a, {corner}) = 0 /\ Uses(c, {corner}) = 0
    BY <1>3, <1>5, <1>8, <2>1
  <2>3. QED
    BY <1>6, <1>7, <2>1, <2>2
<1>11. CASE \E i \in DOMAIN c : corner \in c[i]
  <2>1. Uses(c, {corner}) = 2 /\ corner[1] = "yz"
    BY <1>2, <1>5, <1>11
  <2>2. Uses(a, {corner}) = 0 /\ Uses(b, {corner}) = 0
    BY <1>3, <1>4, <1>8, <2>1
  <2>3. QED
    BY <1>6, <1>7, <2>1, <2>2
<1>12. QED
  BY <1>7, <1>9, <1>10, <1>11

LEMMA BoxCloses ==
    ASSUME NEW k \in DOMAIN Box, NEW corner \in Box[k]
    PROVE  Uses(Box, {corner}) = 3
<1> DEFINE at(i) == <<<<0, 0>>, <<1, 0>>, <<1, 1>>, <<0, 1>>>>[(i % 4) + 1]
           a == [i \in 1 .. 4 |-> {<<at(i), 0>>, <<at(i + 1), 0>>}]
           b == [i \in 1 .. 4 |-> {<<at(i), 1>>, <<at(i + 1), 1>>}]
           c == [i \in 1 .. 4 |-> {<<at(i), 0>>, <<at(i), 1>>}]
           T == {a[i] : i \in 1 .. 4} \cup {b[i] : i \in 1 .. 4} \cup {c[i] : i \in 1 .. 4}
<1>1. Box = (a \o b) \o c
  BY Zenon DEF Box
<1>2. at(1) = <<1, 0>> /\ at(2) = <<1, 1>> /\ at(3) = <<0, 1>> /\ at(4) = <<0, 0>> /\ at(5) = <<1, 0>>
  <2>1. 1 % 4 = 1 /\ 2 % 4 = 2 /\ 3 % 4 = 3 /\ 4 % 4 = 0 /\ 5 % 4 = 1
    OBVIOUS
  <2>2. QED
    BY <2>1
<1> HIDE DEF at
<1>3. at(5) = at(1) /\ \A i, j \in 1 .. 4 : at(i) = at(j) => i = j
  <2>1. \A i \in 1 .. 4 : i = 1 \/ i = 2 \/ i = 3 \/ i = 4
    OBVIOUS
  <2>2. QED
    BY <1>2, <2>1
<1>4. a \in Seq(T) /\ b \in Seq(T) /\ c \in Seq(T)
  <2>1. a \in [1 .. 4 -> T] /\ b \in [1 .. 4 -> T] /\ c \in [1 .. 4 -> T]
    <3> HIDE DEF a, b, c
    <3>1. DOMAIN a = 1 .. 4 /\ DOMAIN b = 1 .. 4 /\ DOMAIN c = 1 .. 4
      BY DEF a, b, c
    <3>2. \A i \in 1 .. 4 : a[i] \in T /\ b[i] \in T /\ c[i] \in T
      OBVIOUS
    <3>3. a = [i \in 1 .. 4 |-> a[i]] /\ b = [i \in 1 .. 4 |-> b[i]] /\ c = [i \in 1 .. 4 |-> c[i]]
      BY DEF a, b, c
    <3> HIDE DEF T
    <3>4. QED
      BY <3>2, <3>3
  <2>2. \A S : [1 .. 4 -> S] \subseteq Seq(S)
    BY SeqDef
  <2> HIDE DEF a, b, c, T
  <2>3. QED
    BY <2>1, <2>2
<1>5. ASSUME NEW i \in 1 .. 4
      PROVE  /\ Uses(a, {<<at(i), 0>>}) = 2 /\ Uses(a, {<<at(i), 1>>}) = 0
             /\ Uses(b, {<<at(i), 1>>}) = 2 /\ Uses(b, {<<at(i), 0>>}) = 0
             /\ Uses(c, {<<at(i), 0>>}) = 1 /\ Uses(c, {<<at(i), 1>>}) = 1
  <2> DEFINE before == IF i = 1 THEN 4 ELSE i - 1
  <2>1. DOMAIN a = 1 .. 4 /\ DOMAIN b = 1 .. 4 /\ DOMAIN c = 1 .. 4
    OBVIOUS
  <2>2. \A j \in 1 .. 4 : at(i) = at(j + 1) <=> j = before
    <3>1. \A j \in 1 .. 4 : j = 1 \/ j = 2 \/ j = 3 \/ j = 4
      OBVIOUS
    <3>2. QED
      BY <1>2, <3>1
  <2>3. before \in 1 .. 4 /\ before # i
    OBVIOUS
  <2>4. /\ \A j \in 1 .. 4 : <<at(i), 0>> \in a[j] <=> j = i \/ j = before
        /\ \A j \in 1 .. 4 : <<at(i), 1>> \in b[j] <=> j = i \/ j = before
        /\ \A j \in 1 .. 4 : <<at(i), 1>> \notin a[j] /\ <<at(i), 0>> \notin b[j]
        /\ \A j \in 1 .. 4 : <<at(i), 0>> \in c[j] <=> j = i
        /\ \A j \in 1 .. 4 : <<at(i), 1>> \in c[j] <=> j = i
    <3> HIDE DEF before
    <3>1. \A j \in 1 .. 4 : at(i) = at(j) <=> j = i
      BY <1>3
    <3>2. QED
      BY <2>2, <3>1
  <2> HIDE DEF a, b, c, before
  <2>5. /\ {j \in DOMAIN a : {<<at(i), 0>>} \subseteq a[j]} = {i, before}
        /\ {j \in DOMAIN b : {<<at(i), 1>>} \subseteq b[j]} = {i, before}
        /\ {j \in DOMAIN a : {<<at(i), 1>>} \subseteq a[j]} = {}
        /\ {j \in DOMAIN b : {<<at(i), 0>>} \subseteq b[j]} = {}
        /\ {j \in DOMAIN c : {<<at(i), 0>>} \subseteq c[j]} = {i}
        /\ {j \in DOMAIN c : {<<at(i), 1>>} \subseteq c[j]} = {i}
    BY <2>1, <2>3, <2>4
  <2>6. Cardinality({i, before}) = 2 /\ Cardinality({}) = 0 /\ Cardinality({i}) = 1
    BY <2>3, Counts, FS_EmptySet, FS_Singleton
  <2>7. QED
    BY <2>5, <2>6 DEF Uses
<1>6. \A i \in 1 .. 4 : /\ \A x \in a[i] : \E j \in 1 .. 4 : x = <<at(j), 0>>
                        /\ \A x \in b[i] : \E j \in 1 .. 4 : x = <<at(j), 1>>
                        /\ \A x \in c[i] : \E j \in 1 .. 4 : x = <<at(j), 0>> \/ x = <<at(j), 1>>
  <2>1. \A i \in 1 .. 4 : \E j \in 1 .. 4 : at(i + 1) = at(j)
    <3>1. \A i \in 1 .. 4 : i = 4 \/ i + 1 \in 1 .. 4
      OBVIOUS
    <3>2. QED
      BY <1>3, <3>1
  <2>2. QED
    BY <2>1
<1>7. DOMAIN a = 1 .. 4 /\ DOMAIN b = 1 .. 4 /\ DOMAIN c = 1 .. 4
  OBVIOUS
<1> HIDE DEF a, b, c, T
<1>8. /\ Uses(Box, {corner}) = (Uses(a, {corner}) + Uses(b, {corner})) + Uses(c, {corner})
      /\ \/ \E i \in DOMAIN a : corner \in a[i]
         \/ \E i \in DOMAIN b : corner \in b[i]
         \/ \E i \in DOMAIN c : corner \in c[i]
  <2>1. Uses(Box, {corner}) = (Uses(a, {corner}) + Uses(b, {corner})) + Uses(c, {corner})
    <3>1. a \o b \in Seq(T) /\ Uses(a \o b, {corner}) = Uses(a, {corner}) + Uses(b, {corner})
      BY <1>4, UsesConcat
    <3>2. \A r \in Seq(T) : Uses(r \o c, {corner}) = Uses(r, {corner}) + Uses(c, {corner})
      BY <1>4, UsesConcat
    <3>3. QED
      BY <1>1, <3>1, <3>2
  <2>2. Box[k] \in Range(a) \cup Range(b) \cup Range(c)
    BY <1>1, <1>4, ThreePieces
  <2>3. QED
    BY <2>1, <2>2 DEF Range
<1>9. PICK j \in 1 .. 4 : corner = <<at(j), 0>> \/ corner = <<at(j), 1>>
  BY <1>6, <1>7, <1>8
<1>10. CASE corner = <<at(j), 0>>
  <2>1. Uses(a, {corner}) = 2 /\ Uses(b, {corner}) = 0 /\ Uses(c, {corner}) = 1
    BY <1>5, <1>10, Zenon
  <2>2. Uses(Box, {corner}) = (2 + 0) + 1
    BY <1>8, <2>1, Zenon
  <2>3. QED
    BY <1>1, <2>2
<1>11. CASE corner = <<at(j), 1>>
  <2>1. Uses(a, {corner}) = 0 /\ Uses(b, {corner}) = 2 /\ Uses(c, {corner}) = 1
    BY <1>5, <1>11, Zenon
  <2>2. Uses(Box, {corner}) = (0 + 2) + 1
    BY <1>8, <2>1, Zenon
  <2>3. QED
    BY <1>1, <2>2
<1>12. QED
  BY <1>9, <1>10, <1>11

(* The triangles of a disc: around the middle, and two for every piece of  *)
(* a further ring.                                                         *)
After(i, n) == IF i + 1 = n THEN 0 ELSE i + 1
Before(i, n) == IF i = 0 THEN n - 1 ELSE i - 1
Fan(i, n) == {Spot(0, 0), Spot(1, i), Spot(1, After(i, n))}
Inner(r, i, n) == {Spot(r - 1, i), Spot(r, i), Spot(r, After(i, n))}
Outer(r, i, n) == {Spot(r - 1, i), Spot(r, After(i, n)), Spot(r - 1, After(i, n))}
Triangles(n, rings) == UNION {Range(Band(r, i - 1, n)) : r \in 1 .. rings, i \in 1 .. n}
Row(r, n) == [i \in 1 .. n |-> Band(r, i - 1, n)]
With(n, rings, e) == {t \in Triangles(n, rings) : e \subseteq t}

LEMMA SpotsDiffer ==
    \A r, i, q, j \in Nat : Spot(r, i) = Spot(q, j) <=> r = q /\ (r = 0 \/ i = j)
BY DEF Spot

LEMMA BandIs ==
    ASSUME NEW n \in Nat, n >= 3, NEW r, NEW i \in 0 .. n - 1
    PROVE  Band(r, i, n) = IF r = 1 THEN <<Fan(i, n)>> ELSE <<Inner(r, i, n), Outer(r, i, n)>>
<1>1. n # 0 /\ i + 1 \in 1 .. n
  OBVIOUS
<1>2. (i + 1) % n = After(i, n)
  BY <1>1, NextCorner DEF After
<1>3. Band(r, i, n) = IF r = 1 THEN <<{Spot(0, 0), Spot(1, i), Spot(1, (i + 1) % n)}>>
                      ELSE <<{Spot(r - 1, i), Spot(r, i), Spot(r, (i + 1) % n)},
                             {Spot(r - 1, i), Spot(r, (i + 1) % n), Spot(r - 1, (i + 1) % n)}>>
  BY Zenon DEF Band
<1>4. QED
  BY <1>2, <1>3, Zenon DEF Fan, Inner, Outer

LEMMA BandsAreLists ==
    ASSUME NEW n \in Nat, NEW rings \in Nat, NEW r \in 1 .. rings, NEW i \in 1 .. n
    PROVE  Band(r, i - 1, n) \in Seq(Triangles(n, rings))
<1>1. \E T : Band(r, i - 1, n) \in Seq(T)
  <2>1. CASE r = 1
    <3>1. Band(r, i - 1, n) = <<{Spot(0, 0), Spot(1, i - 1), Spot(1, ((i - 1) + 1) % n)}>>
      BY <2>1, Zenon DEF Band
    <3>2. QED
      BY <3>1, FewAreList, Zenon
  <2>2. CASE r # 1
    <3>1. PICK a, b : Band(r, i - 1, n) = <<a, b>>
      BY <2>2, Zenon DEF Band
    <3>2. Band(r, i - 1, n) \in Seq({a, b})
      BY <3>1, FewAreList
    <3>3. QED
      BY <3>2
  <2>3. QED
    BY <2>1, <2>2
<1>2. Range(Band(r, i - 1, n)) \subseteq Triangles(n, rings)
  BY DEF Triangles
<1>3. QED
  BY <1>1, <1>2, ListOfItsOwn

LEMMA RowsAreLists ==
    ASSUME NEW n \in Nat, NEW rings \in Nat, NEW r \in 1 .. rings
    PROVE  Row(r, n) \in Seq(Seq(Triangles(n, rings))) /\ Len(Row(r, n)) = n
<1>1. Row(r, n) \in [1 .. n -> Seq(Triangles(n, rings))]
  BY BandsAreLists DEF Row
<1>2. QED
  BY <1>1

(* The uses of an edge by one band, by one ring, by the disc.              *)
LEMMA BandUses ==
    ASSUME NEW n \in Nat, n >= 3, NEW rings \in Nat, NEW r \in 1 .. rings, NEW i \in 0 .. n - 1, NEW e
    PROVE  Hits(Band(r, i, n), With(n, rings, e)) =
             IF r = 1 THEN IF e \subseteq Fan(i, n) THEN 1 ELSE 0
             ELSE (IF e \subseteq Inner(r, i, n) THEN 1 ELSE 0) + (IF e \subseteq Outer(r, i, n) THEN 1 ELSE 0)
<1>1. Range(Band(r, i, n)) \subseteq Triangles(n, rings)
  <2>1. i + 1 \in 1 .. n /\ (i + 1) - 1 = i
    OBVIOUS
  <2>2. QED
    BY <2>1 DEF Triangles
<1>2. Band(r, i, n) = IF r = 1 THEN <<Fan(i, n)>> ELSE <<Inner(r, i, n), Outer(r, i, n)>>
  BY BandIs
<1>3. CASE r = 1
  <2>1. Fan(i, n) \in Triangles(n, rings)
    <3>1. 1 \in DOMAIN <<Fan(i, n)>> /\ <<Fan(i, n)>>[1] = Fan(i, n)
      OBVIOUS
    <3>2. QED
      BY <1>1, <1>2, <1>3, <3>1 DEF Range
  <2>2. Fan(i, n) \in With(n, rings, e) <=> e \subseteq Fan(i, n)
    BY <2>1 DEF With
  <2>3. QED
    BY <1>2, <1>3, <2>2, HitsOne
<1>4. CASE r # 1
  <2> DEFINE a == Inner(r, i, n)
             b == Outer(r, i, n)
  <2> HIDE DEF a, b
  <2>1. a \in Triangles(n, rings) /\ b \in Triangles(n, rings)
    <3>1. 1 \in DOMAIN <<a, b>> /\ <<a, b>>[1] = a /\ 2 \in DOMAIN <<a, b>> /\ <<a, b>>[2] = b
      OBVIOUS
    <3>2. Band(r, i, n) = <<a, b>>
      BY <1>2, <1>4 DEF a, b
    <3>3. QED
      BY <1>1, <3>1, <3>2 DEF Range
  <2>2. (a \in With(n, rings, e) <=> e \subseteq a) /\ (b \in With(n, rings, e) <=> e \subseteq b)
    BY <2>1 DEF With
  <2>3. Hits(<<a, b>>, With(n, rings, e)) = (IF e \subseteq a THEN 1 ELSE 0) + (IF e \subseteq b THEN 1 ELSE 0)
    BY <2>2, HitsTwo
  <2>4. QED
    BY <1>2, <1>4, <2>3 DEF a, b
<1>5. QED
  BY <1>3, <1>4

LEMMA RowUses ==
    ASSUME NEW n \in Nat, NEW rings \in Nat, NEW r \in 1 .. rings, NEW Z, NEW a \in 0 .. n - 1, NEW b \in 0 .. n - 1, a # b,
           \A i \in 0 .. n - 1 : i \notin {a, b} => Hits(Band(r, i, n), Z) = 0
    PROVE  Hits(FlattenSeq(Row(r, n)), Z) = Hits(Band(r, a, n), Z) + Hits(Band(r, b, n), Z)
<1>1. Row(r, n) \in Seq(Seq(Triangles(n, rings))) /\ Len(Row(r, n)) = n
  BY RowsAreLists
<1>2. \A i \in 1 .. n : Row(r, n)[i] = Band(r, i - 1, n)
  BY DEF Row
<1>3. \A j \in 1 .. Len(Row(r, n)) : j \notin {a + 1, b + 1} => Hits(Row(r, n)[j], Z) = 0
  <2>1. ASSUME NEW j \in 1 .. Len(Row(r, n)), j \notin {a + 1, b + 1} PROVE Hits(Row(r, n)[j], Z) = 0
    <3>1. j \in 1 .. n /\ j - 1 \in 0 .. n - 1 /\ j - 1 \notin {a, b}
      BY <1>1, <2>1
    <3>2. QED
      BY <1>2, <3>1
  <2>2. QED
    BY <2>1
<1>4. a + 1 \in Nat /\ b + 1 \in Nat /\ a + 1 # b + 1 /\ a + 1 \in 1 .. n /\ b + 1 \in 1 .. n
      /\ (a + 1) - 1 = a /\ (b + 1) - 1 = b
  OBVIOUS
<1>5. Hits(FlattenSeq(Row(r, n)), Z) = HitsAt(Row(r, n), Z, a + 1) + HitsAt(Row(r, n), Z, b + 1)
  BY <1>1, <1>3, <1>4, FlattenHits
<1>6. HitsAt(Row(r, n), Z, a + 1) = Hits(Band(r, a, n), Z) /\ HitsAt(Row(r, n), Z, b + 1) = Hits(Band(r, b, n), Z)
  BY <1>1, <1>2, <1>4 DEF HitsAt
<1>7. QED
  BY <1>5, <1>6

LEMMA DiscUses ==
    ASSUME NEW n \in Nat, NEW rings \in Nat, NEW r \in 1 .. rings, NEW Z,
           \A q \in 1 .. rings : q \notin {r, r + 1} => Hits(FlattenSeq(Row(q, n)), Z) = 0
    PROVE  /\ GroundDisc(n, rings) \in Seq(Triangles(n, rings))
           /\ Hits(GroundDisc(n, rings), Z) =
                Hits(FlattenSeq(Row(r, n)), Z) + (IF r < rings THEN Hits(FlattenSeq(Row(r + 1, n)), Z) ELSE 0)
<1> DEFINE disc == [q \in 1 .. rings |-> FlattenSeq(Row(q, n))]
<1>1. GroundDisc(n, rings) = FlattenSeq(disc)
  BY DEF GroundDisc, Row
<1>2. \A q \in 1 .. rings : FlattenSeq(Row(q, n)) \in Seq(Triangles(n, rings))
  <2>1. \A q \in 1 .. rings : Row(q, n) \in Seq(Seq(Triangles(n, rings)))
    BY RowsAreLists
  <2>2. << >> \in Seq(Triangles(n, rings))
    OBVIOUS
  <2>3. QED
    BY <2>1, <2>2, FlattenAppend
<1>3. disc \in [1 .. rings -> Seq(Triangles(n, rings))]
  BY <1>2
<1>4. disc \in Seq(Seq(Triangles(n, rings))) /\ Len(disc) = rings
  BY <1>3
<1>5. \A q \in 1 .. rings : disc[q] = FlattenSeq(Row(q, n))
  OBVIOUS
<1> HIDE DEF disc
<1>6. r \in Nat /\ r + 1 \in Nat /\ r # r + 1
  OBVIOUS
<1>7. FlattenSeq(disc) \in Seq(Triangles(n, rings)) /\ Hits(FlattenSeq(disc), Z) = HitsAt(disc, Z, r) + HitsAt(disc, Z, r + 1)
  <2>1. \A j \in 1 .. Len(disc) : j \notin {r, r + 1} => Hits(disc[j], Z) = 0
    BY <1>4, <1>5
  <2>2. PICK m : m = r + 1
    OBVIOUS
  <2>3. m \in Nat /\ r # m /\ \A j \in 1 .. Len(disc) : j \notin {r, m} => Hits(disc[j], Z) = 0
    BY <1>6, <2>1, <2>2
  <2>4. r \in Nat /\ r # m /\ m \in Nat
    BY <1>6, <2>3
  <2>5. \A j \in 1 .. Len(disc) : j \notin {r, m} => Hits(disc[j], Z) = 0
    BY <2>3
  <2>6. disc \in Seq(Seq(Triangles(n, rings)))
    BY <1>4
  <2>7. FlattenSeq(disc) \in Seq(Triangles(n, rings)) /\ Hits(FlattenSeq(disc), Z) = HitsAt(disc, Z, r) + HitsAt(disc, Z, m)
    BY <2>4, <2>5, <2>6, FlattenHits, Zenon
  <2>8. QED
    BY <2>2, <2>7
<1>8. /\ HitsAt(disc, Z, r) = Hits(FlattenSeq(Row(r, n)), Z)
      /\ HitsAt(disc, Z, r + 1) = IF r < rings THEN Hits(FlattenSeq(Row(r + 1, n)), Z) ELSE 0
  BY <1>4, <1>5, <1>6 DEF HitsAt
<1>9. QED
  BY <1>1, <1>7, <1>8

(* Around a ring, and which corners a triangle has.                        *)
LEMMA Around ==
    ASSUME NEW n \in Nat, n >= 3, NEW i \in 0 .. n - 1
    PROVE  /\ After(i, n) \in 0 .. n - 1 /\ Before(i, n) \in 0 .. n - 1
           /\ After(i, n) # i /\ Before(i, n) # i /\ After(After(i, n), n) # i
           /\ \A j \in 0 .. n - 1 : After(j, n) = i <=> j = Before(i, n)
<1>1. After(i, n) \in 0 .. n - 1 /\ Before(i, n) \in 0 .. n - 1 /\ After(i, n) # i /\ Before(i, n) # i
  BY DEF After, Before
<1>2. After(After(i, n), n) # i
  BY DEF After
<1>3. \A j \in 0 .. n - 1 : After(j, n) = i <=> j = Before(i, n)
  BY DEF After, Before
<1>4. QED
  BY <1>1, <1>2, <1>3

LEMMA CornersOf ==
    ASSUME NEW n \in Nat, n >= 3, NEW i \in 0 .. n - 1, NEW r \in Nat, r >= 1, NEW q \in Nat, NEW j \in Nat
    PROVE  /\ Spot(q, j) \in Fan(i, n) <=> q = 0 \/ (q = 1 /\ (j = i \/ j = After(i, n)))
           /\ r >= 2 => /\ Spot(q, j) \in Inner(r, i, n) <=>
                             (q = r - 1 /\ j = i) \/ (q = r /\ (j = i \/ j = After(i, n)))
                        /\ Spot(q, j) \in Outer(r, i, n) <=>
                             (q = r - 1 /\ (j = i \/ j = After(i, n))) \/ (q = r /\ j = After(i, n))
<1>1. After(i, n) \in Nat /\ i \in Nat
  BY Around
<1>2. Spot(q, j) \in Fan(i, n) <=> q = 0 \/ (q = 1 /\ (j = i \/ j = After(i, n)))
  <2>1. /\ Spot(q, j) = Spot(0, 0) <=> q = 0
        /\ Spot(q, j) = Spot(1, i) <=> q = 1 /\ j = i
        /\ Spot(q, j) = Spot(1, After(i, n)) <=> q = 1 /\ j = After(i, n)
    BY <1>1, SpotsDiffer
  <2>2. QED
    BY <2>1, Zenon DEF Fan
<1>3. ASSUME r >= 2
      PROVE  /\ Spot(q, j) = Spot(r - 1, i) <=> q = r - 1 /\ j = i
             /\ Spot(q, j) = Spot(r, i) <=> q = r /\ j = i
             /\ Spot(q, j) = Spot(r, After(i, n)) <=> q = r /\ j = After(i, n)
             /\ Spot(q, j) = Spot(r - 1, After(i, n)) <=> q = r - 1 /\ j = After(i, n)
  <2>1. r - 1 \in Nat /\ r - 1 # 0 /\ r # 0
    BY <1>3
  <2>2. QED
    BY <1>1, <2>1, SpotsDiffer
<1>4. QED
  BY <1>2, <1>3, Zenon DEF Inner, Outer

(* How many triangles of a band have an edge, and how many of the disc     *)
(* when only two bands of two rings can have it.                           *)
Shared(r, i, n, e) ==
    IF r = 1 THEN IF e \subseteq Fan(i, n) THEN 1 ELSE 0
    ELSE (IF e \subseteq Inner(r, i, n) THEN 1 ELSE 0) + (IF e \subseteq Outer(r, i, n) THEN 1 ELSE 0)

LEMMA EdgeUses ==
    ASSUME NEW n \in Nat, n >= 3, NEW rings \in Nat, NEW e, NEW r \in 1 .. rings,
           NEW a \in 0 .. n - 1, NEW b \in 0 .. n - 1, a # b,
           \A q \in 1 .. rings, i \in 0 .. n - 1 :
              (q \notin {r, r + 1} \/ i \notin {a, b}) => Shared(q, i, n, e) = 0
    PROVE  Uses(GroundDisc(n, rings), e) =
             (Shared(r, a, n, e) + Shared(r, b, n, e))
             + (IF r < rings THEN Shared(r + 1, a, n, e) + Shared(r + 1, b, n, e) ELSE 0)
<1> DEFINE Z == With(n, rings, e)
<1>1. \A q \in 1 .. rings, i \in 0 .. n - 1 : Hits(Band(q, i, n), Z) = Shared(q, i, n, e)
  BY BandUses DEF Shared
<1> HIDE DEF Z
<1>2. \A q \in 1 .. rings : Hits(FlattenSeq(Row(q, n)), Z) = Shared(q, a, n, e) + Shared(q, b, n, e)
  <2>1. ASSUME NEW q \in 1 .. rings
        PROVE  Hits(FlattenSeq(Row(q, n)), Z) = Shared(q, a, n, e) + Shared(q, b, n, e)
    <3>1. \A i \in 0 .. n - 1 : i \notin {a, b} => Hits(Band(q, i, n), Z) = 0
      BY <1>1
    <3>2. Hits(FlattenSeq(Row(q, n)), Z) = Hits(Band(q, a, n), Z) + Hits(Band(q, b, n), Z)
      BY <3>1, RowUses
    <3>3. QED
      BY <1>1, <3>2
  <2>2. QED
    BY <2>1
<1>3. \A q \in 1 .. rings : q \notin {r, r + 1} => Hits(FlattenSeq(Row(q, n)), Z) = 0
  BY <1>2
<1>4. /\ GroundDisc(n, rings) \in Seq(Triangles(n, rings))
      /\ Hits(GroundDisc(n, rings), Z) =
           Hits(FlattenSeq(Row(r, n)), Z) + (IF r < rings THEN Hits(FlattenSeq(Row(r + 1, n)), Z) ELSE 0)
  BY <1>3, DiscUses
<1>5. Uses(GroundDisc(n, rings), e) = Hits(GroundDisc(n, rings), Z)
  BY <1>4, UsesAreHits DEF Z, With
<1>6. r < rings => r + 1 \in 1 .. rings
  OBVIOUS
<1>7. QED
  BY <1>2, <1>4, <1>5, <1>6

(* A spoke of the first ring lies between two triangles around the middle. *)
LEMMA SpokeUses ==
    ASSUME NEW n \in Nat, n >= 3, NEW rings \in Nat, rings >= 1, NEW i \in 0 .. n - 1
    PROVE  Uses(GroundDisc(n, rings), {Spot(0, 0), Spot(1, i)}) = 2
<1> DEFINE e == {Spot(0, 0), Spot(1, i)}
           b == Before(i, n)
<1>1. b \in 0 .. n - 1 /\ b # i /\ \A j \in 0 .. n - 1 : After(j, n) = i <=> j = b
  BY Around
<1>2. \A j \in 0 .. n - 1 : e \subseteq Fan(j, n) <=> j = i \/ j = b
  <2>1. \A j \in 0 .. n - 1 : /\ Spot(0, 0) \in Fan(j, n)
                              /\ Spot(1, i) \in Fan(j, n) <=> i = j \/ i = After(j, n)
    BY CornersOf
  <2>2. QED
    BY <1>1, <2>1
<1>3. \A q \in 1 .. rings, j \in 0 .. n - 1 : q # 1 => ~ e \subseteq Inner(q, j, n) /\ ~ e \subseteq Outer(q, j, n)
  <2>1. ASSUME NEW q \in 1 .. rings, NEW j \in 0 .. n - 1, q # 1
        PROVE  Spot(0, 0) \notin Inner(q, j, n) /\ Spot(0, 0) \notin Outer(q, j, n)
    BY <2>1, CornersOf
  <2>2. QED
    BY <2>1
<1> HIDE DEF e, b
<1>4. \A q \in 1 .. rings, j \in 0 .. n - 1 : Shared(q, j, n, e) = IF q = 1 /\ j \in {i, b} THEN 1 ELSE 0
  BY <1>2, <1>3 DEF Shared
<1>5. Uses(GroundDisc(n, rings), e) =
        (Shared(1, i, n, e) + Shared(1, b, n, e))
        + (IF 1 < rings THEN Shared(2, i, n, e) + Shared(2, b, n, e) ELSE 0)
  <2>1. 1 \in 1 .. rings /\ 1 + 1 = 2
    OBVIOUS
  <2>2. \A q \in 1 .. rings, j \in 0 .. n - 1 :
           (q \notin {1, 2} \/ j \notin {i, b}) => Shared(q, j, n, e) = 0
    BY <1>4
  <2>3. QED
    BY <1>1, <2>1, <2>2, EdgeUses
<1>6. Shared(1, i, n, e) = 1 /\ Shared(1, b, n, e) = 1
  BY <1>1, <1>4
<1>7. 1 < rings => Shared(2, i, n, e) = 0 /\ Shared(2, b, n, e) = 0
  BY <1>1, <1>4
<1>8. QED
  BY <1>5, <1>6, <1>7 DEF e

(* A piece of a ring has a triangle inside it and, but for the last ring,  *)
(* one outside.                                                            *)
LEMMA PieceUses ==
    ASSUME NEW n \in Nat, n >= 3, NEW rings \in Nat, NEW r \in 1 .. rings, NEW i \in 0 .. n - 1
    PROVE  Uses(GroundDisc(n, rings), {Spot(r, i), Spot(r, After(i, n))}) = IF r < rings THEN 2 ELSE 1
<1> DEFINE b == After(i, n)
           e == {Spot(r, i), Spot(r, b)}
<1>1. b \in 0 .. n - 1 /\ b # i /\ After(b, n) # i
  BY Around
<1>2. \A j \in 0 .. n - 1 : (i = j \/ i = After(j, n)) /\ (b = j \/ b = After(j, n)) => j = i
  BY <1>1
<1>3. \A j \in 0 .. n - 1 : e \subseteq Fan(j, n) <=> r = 1 /\ j = i
  <2>1. \A j \in 0 .. n - 1 : /\ Spot(r, i) \in Fan(j, n) <=> r = 1 /\ (i = j \/ i = After(j, n))
                              /\ Spot(r, b) \in Fan(j, n) <=> r = 1 /\ (b = j \/ b = After(j, n))
    BY <1>1, CornersOf
  <2> HIDE DEF b
  <2>2. QED
    BY <1>2, <2>1 DEF b
<1>4. ASSUME NEW q \in 1 .. rings, NEW j \in 0 .. n - 1, q # 1
      PROVE  /\ e \subseteq Inner(q, j, n) <=> q = r /\ j = i
             /\ e \subseteq Outer(q, j, n) <=> q = r + 1 /\ j = i
  <2>1. /\ Spot(r, i) \in Inner(q, j, n) <=> (r = q - 1 /\ i = j) \/ (r = q /\ (i = j \/ i = After(j, n)))
        /\ Spot(r, b) \in Inner(q, j, n) <=> (r = q - 1 /\ b = j) \/ (r = q /\ (b = j \/ b = After(j, n)))
        /\ Spot(r, i) \in Outer(q, j, n) <=> (r = q - 1 /\ (i = j \/ i = After(j, n))) \/ (r = q /\ i = After(j, n))
        /\ Spot(r, b) \in Outer(q, j, n) <=> (r = q - 1 /\ (b = j \/ b = After(j, n))) \/ (r = q /\ b = After(j, n))
    BY <1>1, <1>4, CornersOf
  <2>2. q \in Nat /\ r \in Nat /\ (r = q - 1 <=> q = r + 1) /\ r # r + 1
    OBVIOUS
  <2>3. b = After(i, n)
    OBVIOUS
  <2> HIDE DEF b
  <2>4. e \subseteq Inner(q, j, n) <=> q = r /\ j = i
    BY <1>1, <1>2, <2>1, <2>2, <2>3
  <2>5. e \subseteq Outer(q, j, n) <=> q = r + 1 /\ j = i
    BY <1>1, <1>2, <2>1, <2>2, <2>3
  <2>6. QED
    BY <2>4, <2>5
<1> HIDE DEF e, b
<1>5. \A q \in 1 .. rings, j \in 0 .. n - 1 :
         Shared(q, j, n, e) = IF j = i /\ (q = r \/ q = r + 1) THEN 1 ELSE 0
  <2>1. ASSUME NEW q \in 1 .. rings, NEW j \in 0 .. n - 1
        PROVE  Shared(q, j, n, e) = IF j = i /\ (q = r \/ q = r + 1) THEN 1 ELSE 0
    <3>1. CASE q = 1
      BY <1>3, <3>1 DEF Shared
    <3>2. CASE q # 1
      BY <1>4, <3>2 DEF Shared
    <3>3. QED
      BY <3>1, <3>2
  <2>2. QED
    BY <2>1
<1>6. Uses(GroundDisc(n, rings), e) =
        (Shared(r, i, n, e) + Shared(r, b, n, e))
        + (IF r < rings THEN Shared(r + 1, i, n, e) + Shared(r + 1, b, n, e) ELSE 0)
  <2>1. \A q \in 1 .. rings, j \in 0 .. n - 1 :
           (q \notin {r, r + 1} \/ j \notin {i, b}) => Shared(q, j, n, e) = 0
    BY <1>5
  <2>2. QED
    BY <1>1, <2>1, EdgeUses
<1>7. Shared(r, i, n, e) = 1 /\ Shared(r, b, n, e) = 0
  BY <1>1, <1>5
<1>8. r < rings => Shared(r + 1, i, n, e) = 1 /\ Shared(r + 1, b, n, e) = 0
  BY <1>1, <1>5
<1>9. QED
  BY <1>6, <1>7, <1>8 DEF e, b

(* Across a further ring, an edge lies between a band and the band before  *)
(* it, or between the two triangles of one band.                           *)
LEMMA AcrossUses ==
    ASSUME NEW n \in Nat, n >= 3, NEW rings \in Nat, NEW r \in 2 .. rings, NEW i \in 0 .. n - 1
    PROVE  /\ Uses(GroundDisc(n, rings), {Spot(r - 1, i), Spot(r, i)}) = 2
           /\ Uses(GroundDisc(n, rings), {Spot(r - 1, i), Spot(r, After(i, n))}) = 2
<1> DEFINE after == After(i, n)
           b == Before(i, n)
           e == {Spot(r - 1, i), Spot(r, i)}
           f == {Spot(r - 1, i), Spot(r, after)}
<1>1. /\ after \in 0 .. n - 1 /\ b \in 0 .. n - 1 /\ after # i /\ b # i /\ After(after, n) # i
      /\ \A j \in 0 .. n - 1 : After(j, n) = i <=> j = b
  BY Around
<1>2. \A j \in 0 .. n - 1 : After(j, n) # j
  BY Around
<1>3. \A j \in 0 .. n - 1 : (after = After(j, n) \/ after = j) /\ (i = j \/ i = After(j, n)) => j = i
  BY <1>1
<1>4. r \in Nat /\ r - 1 \in Nat /\ r \in 1 .. rings /\ r # 1 /\ r # 0
  OBVIOUS
<1>5. \A j \in 0 .. n - 1 : ~ e \subseteq Fan(j, n) /\ ~ f \subseteq Fan(j, n)
  <2>1. \A j \in 0 .. n - 1 : Spot(r, i) \notin Fan(j, n) /\ Spot(r, after) \notin Fan(j, n)
    BY <1>1, <1>4, CornersOf
  <2>2. QED
    BY <2>1
<1>6. ASSUME NEW q \in 1 .. rings, NEW j \in 0 .. n - 1, q # 1
      PROVE  /\ e \subseteq Inner(q, j, n) <=> q = r /\ j = i
             /\ e \subseteq Outer(q, j, n) <=> q = r /\ j = b
             /\ f \subseteq Inner(q, j, n) <=> q = r /\ j = i
             /\ f \subseteq Outer(q, j, n) <=> q = r /\ j = i
  <2>1. /\ Spot(r - 1, i) \in Inner(q, j, n) <=>
             (r - 1 = q - 1 /\ i = j) \/ (r - 1 = q /\ (i = j \/ i = After(j, n)))
        /\ Spot(r, i) \in Inner(q, j, n) <=> (r = q - 1 /\ i = j) \/ (r = q /\ (i = j \/ i = After(j, n)))
        /\ Spot(r, after) \in Inner(q, j, n) <=>
             (r = q - 1 /\ after = j) \/ (r = q /\ (after = j \/ after = After(j, n)))
    BY <1>1, <1>4, <1>6, CornersOf
  <2>2. /\ Spot(r - 1, i) \in Outer(q, j, n) <=>
             (r - 1 = q - 1 /\ (i = j \/ i = After(j, n))) \/ (r - 1 = q /\ i = After(j, n))
        /\ Spot(r, i) \in Outer(q, j, n) <=>
             (r = q - 1 /\ (i = j \/ i = After(j, n))) \/ (r = q /\ i = After(j, n))
        /\ Spot(r, after) \in Outer(q, j, n) <=>
             (r = q - 1 /\ (after = j \/ after = After(j, n))) \/ (r = q /\ after = After(j, n))
    BY <1>1, <1>4, <1>6, CornersOf
  <2>3. /\ q \in Nat /\ (r - 1 = q - 1 <=> q = r)
        /\ ~ (r - 1 = q /\ r = q - 1) /\ ~ (r - 1 = q /\ r = q) /\ ~ (r = q - 1 /\ r - 1 = q - 1)
    BY <1>4
  <2>4. after = After(i, n)
    OBVIOUS
  <2> HIDE DEF after, b
  <2>5. e \subseteq Inner(q, j, n) <=> q = r /\ j = i
    BY <1>2, <2>1, <2>3
  <2>6. e \subseteq Outer(q, j, n) <=> q = r /\ j = b
    BY <1>1, <1>2, <2>2, <2>3
  <2>7. f \subseteq Inner(q, j, n) <=> q = r /\ j = i
    BY <2>1, <2>3, <2>4
  <2>8. f \subseteq Outer(q, j, n) <=> q = r /\ j = i
    BY <1>1, <1>3, <2>2, <2>3, <2>4
  <2>9. QED
    BY <2>5, <2>6, <2>7, <2>8
<1> HIDE DEF e, f, b
<1>7. \A q \in 1 .. rings, j \in 0 .. n - 1 :
         /\ Shared(q, j, n, e) = IF q = r /\ j \in {i, b} THEN 1 ELSE 0
         /\ Shared(q, j, n, f) = IF q = r /\ j = i THEN 2 ELSE 0
  <2>1. ASSUME NEW q \in 1 .. rings, NEW j \in 0 .. n - 1
        PROVE  /\ Shared(q, j, n, e) = IF q = r /\ j \in {i, b} THEN 1 ELSE 0
               /\ Shared(q, j, n, f) = IF q = r /\ j = i THEN 2 ELSE 0
    <3>1. CASE q = 1
      BY <1>4, <1>5, <3>1 DEF Shared
    <3>2. CASE q # 1
      BY <1>1, <1>6, <3>2 DEF Shared
    <3>3. QED
      BY <3>1, <3>2
  <2>2. QED
    BY <2>1
<1>8. \A d \in {e, f} :
        Uses(GroundDisc(n, rings), d) =
          (Shared(r, i, n, d) + Shared(r, b, n, d))
          + (IF r < rings THEN Shared(r + 1, i, n, d) + Shared(r + 1, b, n, d) ELSE 0)
  <2>1. ASSUME NEW d, d \in {e, f}
        PROVE  Uses(GroundDisc(n, rings), d) =
                 (Shared(r, i, n, d) + Shared(r, b, n, d))
                 + (IF r < rings THEN Shared(r + 1, i, n, d) + Shared(r + 1, b, n, d) ELSE 0)
    <3>1. \A q \in 1 .. rings, j \in 0 .. n - 1 :
             (q \notin {r, r + 1} \/ j \notin {i, b}) => Shared(q, j, n, d) = 0
      BY <1>7, <2>1
    <3>2. QED
      BY <1>1, <1>4, <3>1, EdgeUses
  <2>2. QED
    BY <2>1
<1>9. r < rings => r + 1 \in 1 .. rings /\ r + 1 # r
  BY <1>4
<1>10. Uses(GroundDisc(n, rings), e) = 2
  <2>1. Shared(r, i, n, e) = 1 /\ Shared(r, b, n, e) = 1
    BY <1>1, <1>4, <1>7
  <2>2. r < rings => Shared(r + 1, i, n, e) = 0 /\ Shared(r + 1, b, n, e) = 0
    BY <1>1, <1>7, <1>9
  <2>3. QED
    BY <1>8, <2>1, <2>2
<1>11. Uses(GroundDisc(n, rings), f) = 2
  <2>1. Shared(r, i, n, f) = 2 /\ Shared(r, b, n, f) = 0
    BY <1>1, <1>4, <1>7
  <2>2. r < rings => Shared(r + 1, i, n, f) = 0 /\ Shared(r + 1, b, n, f) = 0
    BY <1>1, <1>7, <1>9
  <2>3. QED
    BY <1>8, <2>1, <2>2
<1>12. QED
  BY <1>10, <1>11 DEF e, f

(* A triangle whose edges are shared as they should be, R the rim.         *)
Meets(p, R, edge) == Uses(p, edge) = IF edge \subseteq R THEN 1 ELSE 2
Fits(p, R, t) == Cardinality(t) = 3 /\ \A edge \in {e \in SUBSET t : Cardinality(e) = 2} : Meets(p, R, edge)

LEMMA TriangleCloses ==
    ASSUME NEW p, NEW R, NEW a, NEW b, NEW c, a # b, b # c, a # c,
           Meets(p, R, {a, b}), Meets(p, R, {b, c}), Meets(p, R, {a, c})
    PROVE  Fits(p, R, {a, b, c})
<1> DEFINE t == {a, b, c}
<1>1. Cardinality(t) = 3
  BY Counts
<1>2. ASSUME NEW edge \in SUBSET t, Cardinality(edge) = 2
      PROVE  edge = {a, b} \/ edge = {b, c} \/ edge = {a, c}
  <2>1. edge # {} /\ edge # {a} /\ edge # {b} /\ edge # {c} /\ edge # t
    <3>1. Cardinality({}) = 0 /\ Cardinality({a}) = 1 /\ Cardinality({b}) = 1 /\ Cardinality({c}) = 1
      BY FS_EmptySet, FS_Singleton
    <3>2. QED
      BY <1>1, <1>2, <3>1
  <2>2. CASE a \in edge /\ b \in edge
    <3>1. c \notin edge
      BY <2>1, <2>2
    <3>2. QED
      BY <2>2, <3>1
  <2>3. CASE a \in edge /\ b \notin edge
    <3>1. c \in edge
      BY <2>1, <2>3
    <3>2. QED
      BY <2>3, <3>1
  <2>4. CASE a \notin edge
    <3>1. b \in edge /\ c \in edge
      BY <2>1, <2>4
    <3>2. QED
      BY <2>4, <3>1
  <2>5. QED
    BY <2>2, <2>3, <2>4
<1>3. ASSUME NEW edge \in {e \in SUBSET t : Cardinality(e) = 2}
      PROVE  Meets(p, R, edge)
  <2>1. edge = {a, b} \/ edge = {b, c} \/ edge = {a, c}
    BY <1>2
  <2>2. QED
    BY <2>1
<1>4. QED
  BY <1>1, <1>3 DEF Fits

LEMMA DiscPieces ==
    ASSUME NEW n \in Nat, n >= 3, NEW rings \in Nat, rings >= 1, NEW k \in DOMAIN GroundDisc(n, rings)
    PROVE  \E i \in 0 .. n - 1 :
              \/ GroundDisc(n, rings)[k] = Fan(i, n)
              \/ \E r \in 2 .. rings : \/ GroundDisc(n, rings)[k] = Inner(r, i, n)
                                       \/ GroundDisc(n, rings)[k] = Outer(r, i, n)
<1>1. GroundDisc(n, rings) \in Seq(Triangles(n, rings))
  <2>1. \A p : Hits(p, {}) = 0
    <3>1. \A p : {j \in DOMAIN p : p[j] \in {}} = {}
      OBVIOUS
    <3>2. QED
      BY <3>1, FS_EmptySet DEF Hits
  <2>2. 1 \in 1 .. rings
    OBVIOUS
  <2>3. QED
    BY <2>1, <2>2, DiscUses
<1>2. GroundDisc(n, rings)[k] \in Triangles(n, rings)
  BY <1>1
<1>3. PICK r \in 1 .. rings, j \in 1 .. n : GroundDisc(n, rings)[k] \in Range(Band(r, j - 1, n))
  BY <1>2 DEF Triangles
<1>4. j - 1 \in 0 .. n - 1
  OBVIOUS
<1>5. Band(r, j - 1, n) = IF r = 1 THEN <<Fan(j - 1, n)>> ELSE <<Inner(r, j - 1, n), Outer(r, j - 1, n)>>
  BY <1>4, BandIs
<1>6. CASE r = 1
  <2>1. GroundDisc(n, rings)[k] \in Range(<<Fan(j - 1, n)>>)
    BY <1>3, <1>5, <1>6
  <2>2. GroundDisc(n, rings)[k] = Fan(j - 1, n)
    BY <2>1 DEF Range
  <2>3. QED
    BY <1>4, <2>2
<1>7. CASE r # 1
  <2>1. GroundDisc(n, rings)[k] \in Range(<<Inner(r, j - 1, n), Outer(r, j - 1, n)>>)
    BY <1>3, <1>5, <1>7
  <2>2. GroundDisc(n, rings)[k] = Inner(r, j - 1, n) \/ GroundDisc(n, rings)[k] = Outer(r, j - 1, n)
    BY <2>1 DEF Range
  <2>3. r \in 2 .. rings
    BY <1>7
  <2>4. QED
    BY <1>4, <2>2, <2>3
<1>8. QED
  BY <1>6, <1>7

(* A disc is one surface: every edge lies between two triangles, but for   *)
(* those of the rim.                                                       *)
LEMMA DiscCloses ==
    ASSUME NEW n \in Nat, n >= 3, NEW rings \in Nat, rings >= 1, NEW k \in DOMAIN GroundDisc(n, rings),
           NEW R, R = {<<rings, i>> : i \in 0 .. n - 1}
    PROVE  Fits(GroundDisc(n, rings), R, GroundDisc(n, rings)[k])
<1> DEFINE D == GroundDisc(n, rings)
<1>1. \A q \in 0 .. rings, j \in 0 .. n - 1 : Spot(q, j) \in R <=> q = rings
  BY DEF Spot
<1>2. PICK i \in 0 .. n - 1 :
              \/ D[k] = Fan(i, n)
              \/ \E r \in 2 .. rings : D[k] = Inner(r, i, n) \/ D[k] = Outer(r, i, n)
  BY DiscPieces
<1>3. After(i, n) \in 0 .. n - 1 /\ After(i, n) # i
  BY Around
<1> DEFINE next == After(i, n)
<1> HIDE DEF D, next
<1>4. CASE D[k] = Fan(i, n)
  <2> DEFINE a == Spot(0, 0)
             b == Spot(1, i)
             c == Spot(1, next)
  <2>1. a # b /\ b # c /\ a # c
    BY <1>3, SpotsDiffer DEF next
  <2>2. 0 \in 0 .. rings /\ 1 \in 0 .. rings /\ 1 \in 1 .. rings /\ 0 \in 0 .. n - 1 /\ rings # 0 /\ (1 < rings <=> rings # 1)
    OBVIOUS
  <2>3. a \notin R /\ (b \in R <=> rings = 1) /\ (c \in R <=> rings = 1)
    BY <1>1, <1>3, <2>2 DEF next
  <2>4. Uses(D, {a, b}) = 2 /\ Uses(D, {a, c}) = 2
    BY <1>3, SpokeUses DEF D, next
  <2>5. Uses(D, {b, c}) = IF 1 < rings THEN 2 ELSE 1
    BY <2>2, PieceUses DEF D, next
  <2>6. D[k] = {a, b, c}
    BY <1>4, Zenon DEF Fan, next
  <2> HIDE DEF a, b, c
  <2>7. Meets(D, R, {a, b}) /\ Meets(D, R, {b, c}) /\ Meets(D, R, {a, c})
    BY <2>2, <2>3, <2>4, <2>5 DEF Meets
  <2>8. Fits(D, R, {a, b, c})
    BY <2>1, <2>7, TriangleCloses, Zenon
  <2>9. QED
    BY <2>6, <2>8 DEF D
<1>5. ASSUME NEW r \in 2 .. rings, D[k] = Inner(r, i, n) \/ D[k] = Outer(r, i, n)
      PROVE  Fits(D, R, D[k])
  <2> DEFINE a == Spot(r - 1, i)
             b == Spot(r, i)
             c == Spot(r, next)
             d == Spot(r - 1, next)
  <2>1. /\ r \in Nat /\ r - 1 \in Nat /\ r # 0 /\ r - 1 # 0 /\ r # r - 1
        /\ r \in 0 .. rings /\ r - 1 \in 0 .. rings /\ r \in 1 .. rings /\ r - 1 \in 1 .. rings
        /\ r - 1 # rings /\ r - 1 < rings /\ (r < rings <=> r # rings)
    OBVIOUS
  <2>2. a # b /\ b # c /\ a # c /\ c # d /\ a # d
    BY <1>3, <2>1, SpotsDiffer DEF next
  <2>3. a \notin R /\ d \notin R /\ (b \in R <=> r = rings) /\ (c \in R <=> r = rings)
    BY <1>1, <1>3, <2>1 DEF next
  <2>4. Uses(D, {a, b}) = 2 /\ Uses(D, {a, c}) = 2
    BY AcrossUses DEF D, next
  <2>5. Uses(D, {d, c}) = 2
    BY <1>3, AcrossUses DEF D, next
  <2>6. Uses(D, {b, c}) = IF r < rings THEN 2 ELSE 1
    BY <2>1, PieceUses DEF D, next
  <2>7. Uses(D, {a, d}) = 2
    <3>1. PICK q : q = r - 1
      OBVIOUS
    <3>2. q \in 1 .. rings /\ q < rings
      BY <2>1, <3>1
    <3>3. Uses(D, {Spot(q, i), Spot(q, After(i, n))}) = IF q < rings THEN 2 ELSE 1
      BY <3>2, PieceUses DEF D
    <3>4. Uses(D, {Spot(q, i), Spot(q, After(i, n))}) = 2
      BY <3>2, <3>3
    <3>5. QED
      BY <3>1, <3>4 DEF next
  <2>8. D[k] = {a, b, c} \/ D[k] = {a, c, d}
    BY <1>5, Zenon DEF Inner, Outer, next
  <2> HIDE DEF a, b, c, d
  <2>9. {c, d} = {d, c}
    OBVIOUS
  <2>10. Meets(D, R, {a, b}) /\ Meets(D, R, {a, c}) /\ Meets(D, R, {c, d}) /\ Meets(D, R, {a, d})
    BY <2>3, <2>4, <2>5, <2>7, <2>9 DEF Meets
  <2>11. Meets(D, R, {b, c})
    BY <2>1, <2>3, <2>6 DEF Meets
  <2>12. Fits(D, R, {a, b, c}) /\ Fits(D, R, {a, c, d})
    BY <2>2, <2>10, <2>11, TriangleCloses, Zenon
  <2>13. QED
    BY <2>8, <2>12
<1>6. QED
  BY <1>2, <1>4, <1>5 DEF D

(* Whatever is asked for closes.                                           *)
LEMMA ShapesClose ==
    ASSUME NEW s \in AskedShapes
    PROVE  ShapeCloses(s)
<1>1. \A n \in Pieces : /\ AtLeast(3, n) \in Nat /\ AtLeast(3, n) >= 3
                        /\ AtLeast(1, n) \in Nat /\ AtLeast(1, n) >= 1
  BY ShapesAssumption DEF AtLeast
<1>2. ASSUME s.kind \in RingKinds PROVE Degree(s, 2)
  <2>1. s.n \in Pieces
    BY <1>2 DEF AskedShapes, RingKinds, Plain
  <2> DEFINE n == AtLeast(3, s.n)
  <2>2. n \in Nat /\ n >= 3
    BY <1>1, <2>1
  <2> HIDE DEF n
  <2>3. \A plane : \A k \in DOMAIN Ring(plane, n) : \A corner \in Ring(plane, n)[k] : Uses(Ring(plane, n), {corner}) = 2
    <3>1. \A plane : DOMAIN Ring(plane, n) = 1 .. n
      BY DEF Ring
    <3>2. ASSUME NEW plane
          PROVE  \A k \in 1 .. n : \A corner \in Ring(plane, n)[k] :
                    Uses(Ring(plane, n), {corner}) = 2 /\ corner[1] = plane
      BY <2>2, RingCloses
    <3>3. QED
      BY <3>1, <3>2, Zenon
  <2>4. \A k \in DOMAIN Sphere(n) : \A corner \in Sphere(n)[k] : Uses(Sphere(n), {corner}) = 2
    BY <2>2, SphereCloses
  <2>5. Pieced(s) = Ring("xy", n) \/ Pieced(s) = Sphere(n) \/ Pieced(s) = Ring("ground", n)
    <3>1. s.kind = "circle" \/ s.kind = "sphere" \/ s.kind = "ring"
      BY <1>2 DEF RingKinds
    <3>2. CASE s.kind = "circle"
      BY <3>2 DEF Pieced, n
    <3>3. CASE s.kind = "sphere"
      BY <3>3 DEF Pieced, n
    <3>4. CASE s.kind = "ring"
      BY <3>4 DEF Pieced, n
    <3>5. QED
      BY <3>1, <3>2, <3>3, <3>4
  <2>6. QED
    BY <2>3, <2>4, <2>5 DEF Degree
<1>3. ASSUME s.kind = "box" PROVE Degree(s, 3)
  <2>1. Pieced(s) = Box
    BY <1>3 DEF Pieced
  <2>2. QED
    BY <2>1, BoxCloses DEF Degree
<1>4. ASSUME s.kind = "disc" PROVE Closed3(s)
  <2>1. s.n \in Pieces /\ s.rings \in Pieces
    BY <1>4 DEF AskedShapes, RingKinds, Plain
  <2> DEFINE n == AtLeast(3, s.n)
             rings == AtLeast(1, s.rings)
  <2>2. n \in Nat /\ n >= 3 /\ rings \in Nat /\ rings >= 1
    BY <1>1, <2>1
  <2>3. Pieced(s) = GroundDisc(n, rings)
    BY <1>4 DEF Pieced
  <2>4. Rim(s) = {<<rings, i>> : i \in 0 .. n - 1}
    BY DEF Rim
  <2> HIDE DEF n, rings
  <2>5. \A k \in DOMAIN GroundDisc(n, rings) :
           Fits(GroundDisc(n, rings), Rim(s), GroundDisc(n, rings)[k])
    BY <2>2, <2>4, DiscCloses
  <2>6. QED
    BY <2>3, <2>5, Zenon DEF Closed3, Fits, Meets
<1>5. QED
  BY <1>2, <1>3, <1>4 DEF ShapeCloses

(* A flush draws what was asked for since the flush before it or nothing   *)
(* of it, with the state each list needs, and puts all but the vertex      *)
(* format back; and what was asked for closes: each corner of a ring ends  *)
(* as many pieces as it starts, a box has three edges at every corner, and *)
(* a disc on the ground, however many rings and pieces it is asked for     *)
(* with, is one surface without seams that ends at its rim (Gfx.cpp).      *)
THEOREM ShapesAsAskedAlways == ShapesSpec => ShapesAsAsked
<1>1. ShapesInit => ShapesInv
  <2>1. ShapesInit => asked \in Seq(AskedShapes) /\ lists = [l \in Lists |-> PiecesFor(l, asked)]
    BY NothingAsked DEF ShapesInit
  <2>2. QED
    BY <2>1 DEF ShapesInit, ShapesInv, Found
<1>2. ShapesInv /\ [ShapesNext]_shapeVars => ShapesInv'
  BY ShapesStep
<1>3. ShapesInv => \A k \in DOMAIN asked : ShapeCloses(asked[k])
  <2>1. ShapesInv => \A k \in DOMAIN asked : asked[k] \in AskedShapes
    BY DEF ShapesInv
  <2>2. QED
    BY <2>1, ShapesClose
<1>4. ShapesInv /\ [ShapesNext]_shapeVars
        => [asked' = << >> /\ asked # << >> =>
              FlushShows /\ \A k \in DOMAIN asked : ShapeCloses(asked[k])]_shapeVars
  BY <1>3, ShapesStep
<1>5. QED
  BY <1>1, <1>2, <1>4, PTL DEF ShapesSpec, ShapesAsAsked

=============================================================================
