------------------------------- MODULE Shapes --------------------------------
(***************************************************************************)
(* Shapes in the world (game/Gfx.cpp).  A module queues shapes as often as *)
(* it likes and flushes once a frame, where the world has just been drawn.  *)
(* The flush changes a good part of the device's state, draws up to four   *)
(* lists and puts the state back.  Corners of shapes have names instead of *)
(* coordinates; a segment or a triangle is the set of its corners.         *)
(***************************************************************************)
EXTENDS Integers, Sequences, FiniteSets, SequencesExt

CONSTANTS Pieces,    \* segments and rings that callers ask for
          MaxShapes  \* bound: shapes between two flushes

ASSUME ShapesAssumption == Pieces \subseteq Int

VARIABLES lists,   \* [list, depth] -> sequence of segments or triangles
          asked,   \* shapes asked for since the last flush
          gx,      \* a value for each state of the device
          flushed  \* what the last flush drew, each list with the device it met

shapeVars == <<lists, asked, gx, flushed>>

Depths == {"tested", "through"}
Lists == {"fill", "line"} \X Depths

(* A ring of n pieces starts at angle 0 and ends at a full turn.           *)
Ring(plane, n) == [i \in 1 .. n |-> {<<plane, i - 1>>, <<plane, i % n>>}]
Box == LET at(i) == <<<<0, 0>>, <<1, 0>>, <<1, 1>>, <<0, 1>>>>[(i % 4) + 1]
       IN  [i \in 1 .. 4 |-> {<<at(i), 0>>, <<at(i + 1), 0>>}]
             \o [i \in 1 .. 4 |-> {<<at(i), 1>>, <<at(i + 1), 1>>}]
             \o [i \in 1 .. 4 |-> {<<at(i), 0>>, <<at(i), 1>>}]
Sphere(n) == Ring("xy", n) \o Ring("xz", n) \o Ring("yz", n)
Cross == [axis \in 1 .. 3 |-> {<<axis, -1>>, <<axis, 1>>}]
\* Without a direction to point in, an arrow has no barbs.
Arrow(pointing) ==
    IF pointing THEN <<{"from", "to"}, {"to", "left"}, {"to", "right"}>> ELSE <<{"from"}>>

(* A disc on the ground: triangles around the middle, then a band of two   *)
(* triangles per piece for every further ring.                             *)
Spot(r, i) == IF r = 0 THEN <<0, 0>> ELSE <<r, i>>
BandOpen(r, i, n) ==
    IF r = 1 THEN <<{Spot(0, 0), Spot(1, i), Spot(1, i + 1)}>>
    ELSE <<{Spot(r - 1, i), Spot(r, i), Spot(r, i + 1)}, {Spot(r - 1, i), Spot(r, i + 1), Spot(r - 1, i + 1)}>>
Band(r, i, n) ==
    LET next == (i + 1) % n
    IN  IF r = 1 THEN <<{Spot(0, 0), Spot(1, i), Spot(1, next)}>>
        ELSE <<{Spot(r - 1, i), Spot(r, i), Spot(r, next)}, {Spot(r - 1, i), Spot(r, next), Spot(r - 1, next)}>>
GroundDisc(n, rings) ==
    FlattenSeq([r \in 1 .. rings |-> FlattenSeq([i \in 1 .. n |-> Band(r, i - 1, n)])])

AtLeast(least, n) == IF n < least THEN least ELSE n
Plain == {"box", "cross", "line", "triangle", "arrow", "point"}
RingKinds == {"circle", "sphere", "ring"}
ListOf(s) == <<IF s.kind \in {"triangle", "disc"} THEN "fill" ELSE "line", s.depth>>
Pieced(s) ==
    CASE s.kind = "box" -> Box
      [] s.kind = "cross" -> Cross
      [] s.kind = "line" -> <<{"a", "b"}>>
      [] s.kind = "triangle" -> <<{"a", "b", "c"}>>
      [] s.kind \in {"arrow", "point"} -> Arrow(s.kind = "arrow")
      [] s.kind = "circle" -> Ring("xy", AtLeast(3, s.n))
      [] s.kind = "sphere" -> Sphere(AtLeast(3, s.n))
      [] s.kind = "ring" -> Ring("ground", AtLeast(3, s.n))
      [] s.kind = "disc" -> GroundDisc(AtLeast(3, s.n), AtLeast(1, s.rings))

-----------------------------------------------------------------------------

(* What the flush writes, by the tables from which it restores.            *)
TouchedStates ==
    {"zEnable", "shadeMode", "zWrite", "alphaTest", "srcBlend", "destBlend", "cullMode",
     "zFunc", "alphaBlend", "fog", "stencil", "lighting", "colorWrite", "scissor"}
TouchedStages == {"0 colorOp", "0 colorArg1", "0 alphaOp", "0 alphaArg1", "1 colorOp"}
Bound == {"vs", "ps", "tex"}
Transforms == {"world", "view", "projection"}
Format == "format"
SlotsOf == {Format, "depth"} \cup TouchedStates \cup TouchedStages \cup Bound \cup Transforms

Found == [slot \in SlotsOf |-> "found"]
Shading == {"shadeMode", "srcBlend", "destBlend", "cullMode", "zFunc", "alphaBlend", "colorWrite"}
Off == Bound \cup {"zWrite", "alphaTest", "fog", "stencil", "lighting", "scissor"}
EyeCamera == [world |-> "about the eye", view |-> "scene", projection |-> "scene"]
FlushState(sceneDepth) ==
    [slot \in SlotsOf |->
       CASE slot \in Shading -> "shape"
         [] slot \in Off -> "off"
         [] slot \in TouchedStages -> IF slot = "1 colorOp" THEN "off" ELSE "diffuse"
         [] slot \in Transforms -> EyeCamera[slot]
         [] slot = Format -> "diffuse"
         [] slot = "zEnable" -> 1
         [] OTHER -> IF sceneDepth THEN "scene" ELSE gx[slot]]
Restored(now, old, sceneDepth) ==
    [slot \in SlotsOf |->
        IF slot \in TouchedStages \cup TouchedStates \cup Transforms \cup Bound
                            \cup (IF sceneDepth THEN {"depth"} ELSE {})
        THEN old[slot] ELSE now[slot]]

ShapesInit ==
    /\ lists = [l \in Lists |-> << >>] /\ asked = << >>
    /\ gx = Found /\ flushed = << >>

Ask(s) ==
    /\ Len(asked) < MaxShapes
    /\ lists' = [lists EXCEPT ![ListOf(s)] = @ \o Pieced(s)]
    /\ asked' = Append(asked, s) /\ flushed' = << >>
    /\ UNCHANGED gx

Clear == lists' = [l \in Lists |-> << >>]
Pending == \E l \in Lists : lists[l] # << >>

\* Fills before lines, shapes that the world may hide before the others.
DrawOrder == <<<<"fill", "tested">>, <<"line", "tested">>, <<"fill", "through">>, <<"line", "through">>>>
Drawn(state) ==
    LET Draw(l) == [list |-> l, pieces |-> lists[l],
                    gx |-> [state EXCEPT !["zEnable"] = IF l[2] = "tested" THEN 1 ELSE 0]]
    IN  FlattenSeq([k \in DOMAIN DrawOrder |->
                      IF lists[DrawOrder[k]] = << >> THEN << >> ELSE <<Draw(DrawOrder[k])>>])

FlushKept(hasDevice, graphicsUp, sceneDepth) ==
    /\ asked' = << >>
    /\ IF hasDevice /\ Pending /\ graphicsUp
       THEN LET state == FlushState(sceneDepth)
                last == [state EXCEPT !["zEnable"] = 0]
            IN  Clear /\ flushed' = Drawn(state) /\ gx' = Restored(last, gx, sceneDepth)
       ELSE flushed' = << >> /\ UNCHANGED <<gx, lists>>

\* Nothing is drawn without a device, its matrices or shapes; the queues are
\* emptied all the same.
Flush(hasDevice, graphicsUp, sceneDepth) ==
    /\ Clear /\ asked' = << >>
    /\ IF hasDevice /\ Pending /\ graphicsUp
       THEN LET state == FlushState(sceneDepth)
                last == [state EXCEPT !["zEnable"] = 0]
            IN  flushed' = Drawn(state) /\ gx' = Restored(last, gx, sceneDepth)
       ELSE flushed' = << >> /\ UNCHANGED gx

\* The client draws on, with states of its own.
ClientDraws == gx' = Found /\ flushed' = << >> /\ UNCHANGED <<lists, asked>>

ShapesNext ==
    \/ \E depth \in Depths :
          \/ \E kind \in Plain : Ask([kind |-> kind, depth |-> depth])
          \/ \E kind \in RingKinds, n \in Pieces : Ask([kind |-> kind, depth |-> depth, n |-> n])
          \/ \E n, rings \in Pieces : Ask([kind |-> "disc", depth |-> depth, n |-> n, rings |-> rings])
    \/ \E hasDevice, graphicsUp, sceneDepth \in BOOLEAN : Flush(hasDevice, graphicsUp, sceneDepth)
    \/ ClientDraws

ShapesSpec == ShapesInit /\ [][ShapesNext]_shapeVars

-----------------------------------------------------------------------------

\* How many pieces have these corners.
Uses(pieces, corners) == Cardinality({k \in DOMAIN pieces : corners \subseteq pieces[k]})
Rim(s) == {<<AtLeast(1, s.rings), i>> : i \in 0 .. AtLeast(3, s.n) - 1}
Closed3(s) ==
    LET pieces == Pieced(s)
    IN  \A k \in DOMAIN pieces : Cardinality(pieces[k]) = 3 /\
          \A edge \in {e \in SUBSET pieces[k] : Cardinality(e) = 2} :
             Uses(pieces, edge) = IF edge \subseteq Rim(s) THEN 1 ELSE 2
Degree(s, d) == LET pieces == Pieced(s) IN
    \A k \in DOMAIN pieces : \A corner \in pieces[k] : Uses(pieces, {corner}) = d

\* A ring closes, a box has three edges at every corner, and a disc is one
\* surface without seams that ends at its rim.
ShapeCloses(s) ==
    /\ s.kind \in RingKinds => Degree(s, 2)
    /\ s.kind = "box" => Degree(s, 3)
    /\ s.kind = "disc" => Closed3(s)

PiecesFor(l, shapes) ==
    FlattenSeq([k \in DOMAIN shapes |-> IF ListOf(shapes[k]) = l THEN Pieced(shapes[k]) ELSE << >>])
PiecesOf(l, draws) == FlattenSeq([k \in DOMAIN draws |-> IF draws[k].list = l THEN draws[k].pieces ELSE << >>])
MetRight(d) ==
    /\ \A slot \in Bound \cup {"zWrite", "fog", "lighting"} : d.gx[slot] = "off"
    /\ \A slot \in Transforms : d.gx[slot] # "found"
    /\ d.gx["zEnable"] = 1 <=> d.list[2] = "tested"

FlushShows ==
    /\ flushed' # << >> => \A l \in Lists : PiecesOf(l, flushed') = PiecesFor(l, asked)
    /\ \A k \in DOMAIN flushed' : MetRight(flushed'[k])
    /\ \A slot \in SlotsOf \ {Format} : gx'[slot] = gx[slot]

(* A flush draws what was asked for since the flush before it, or nothing  *)
(* of it: shapes asked for while there is no device must not turn up       *)
(* later.  Every list meets the state it needs, and the device is as it    *)
(* was found but for the vertex format, which Gfx.cpp:364 sets and nothing *)
(* puts back (Gfx.hpp:140: "The device is left as it was found").          *)
ShapesAsAsked ==
    [][asked' = << >> /\ asked # << >> =>
         FlushShows /\ \A k \in DOMAIN asked : ShapeCloses(asked[k])]_shapeVars
==============================================================================
