----------------------------- MODULE MCConverters -----------------------------
(* What works on files: the patcher, and the converters of textures and      *)
(* models, one at a time.  A behaviour belongs to the part chosen in its     *)
(* first state, and the state of the others rests.                           *)
EXTENDS Patcher, TextureConverters, ModelConverter, TLC

CONSTANTS signed, tailed, full
VARIABLE part

(* Three client builds: one laid out like the client, with a signature       *)
(* behind its sections; one in which the second edit lies in a zero-filled   *)
(* tail, before the section of the imports; one without room for a header.   *)
Section(name, va, vsize, raw, rsize) ==
    [name |-> name, va |-> va, vsize |-> vsize, raw |-> raw, rsize |-> rsize]

Plain == <<Section(".text", 4, 3, 2, 4), Section(".rdata", 8, 3, 6, 4), Section(".data", 12, 6, 10, 2)>>
Tailed == <<Section(".text", 4, 3, 2, 4), Section(".data", 8, 6, 6, 2), Section(".rdata", 16, 3, 8, 4)>>

MCStockOf == [b \in Builds |->
    [build |-> b, large |-> FALSE, top |-> 20,
     room |-> IF b = full THEN 3 ELSE 4,
     sections |-> IF b = tailed THEN Tailed ELSE Plain,
     imports |-> IF b = tailed THEN 16 ELSE 8,
     bytes |-> IF b = tailed
               THEN <<"h", "h", "t0", "t1", "t2", Zero, "d0", "d1", "user", "gdi", Zero, Zero>>
               ELSE <<"h", "h", "t0", "t1", "t2", Zero, "user", "gdi", Zero, Zero,
                      "d0", "d1", "signature">>]]

MCEdits == <<[va |-> 5, units |-> <<"e1", "e2">>], [va |-> 13, units |-> <<"e3">>]>>
MCThunks == <<"thunks">>

AnyOf(S) == CHOOSE x \in S : TRUE

\* Texture files: of any format, with holes in their table, or cut short.
BlpOf(enc, w, h, count, hole, cut) ==
    LET Dims(i) == <<Half(w, i), Half(h, i)>>
        Has(i) == i < count /\ i # hole
        start == IF enc = "paletted" THEN Header + Palette ELSE Header
        off[i \in Nat] == IF i = 0 THEN start
                          ELSE off[i - 1] + IF Has(i - 1) THEN BytesOf(enc, Dims(i - 1)) ELSE 0
    IN  [format |-> "blp", converted |-> FALSE, enc |-> enc, w |-> w, h |-> h, whole |-> cut = 0,
         off |-> [i \in Entries |-> IF Has(i) THEN off[i] ELSE 0],
         size |-> [i \in Entries |-> IF Has(i) THEN BytesOf(enc, Dims(i)) ELSE 0],
         n |-> IF cut = 0 THEN off[count] ELSE off[count - cut] + 1,
         pieces |-> {[at |-> off[i], dims |-> Dims(i)] : i \in {k \in 0 .. count - 1 : Has(k)}}]
DdsOf(enc, w, h, mips, cut) ==
    LET Dims(i) == <<Half(w, i), Half(h, i)>>
        off[i \in Nat] == IF i = 0 THEN 128 ELSE off[i - 1] + BytesOf(enc, Dims(i - 1))
        m == IF mips = 0 THEN 1 ELSE mips
    IN  [format |-> "dds", converted |-> FALSE, enc |-> enc, w |-> w, h |-> h, whole |-> cut = 0, mips |-> mips,
         starts |-> [i \in 0 .. Levels |-> off[i]], n |-> IF cut = 0 THEN off[m] ELSE off[m - cut] + 1,
         pieces |-> {[at |-> off[i], dims |-> Dims(i)] : i \in 0 .. m - 1}]
Pictures == {<<8, 4>>, <<5, 2>>, <<1, 1>>, <<2, 8>>}
TextureSources ==
    {BlpOf(e, d[1], d[2], count, hole, cut) : e \in {"dxt1", "dxt5", "bgra", "bgr", "paletted"},
        d \in Pictures, count \in {1, 3, 4}, hole \in {1, 9}, cut \in {0, 1}}
    \cup {DdsOf(e, d[1], d[2], m, cut) : e \in {"dxt1", "dxt3"}, d \in Pictures, m \in {0, 1, 3, 5}, cut \in {0, 1}}
ClampedEdges == [least |-> 2, most |-> 4]

TexelShades == {<<0, 0, 0>>, <<8, 4, 8>>, <<255, 255, 255>>, <<200, 10, 90>>}
Endpoints == {<<0, 0, 0>>, <<31, 63, 31>>, <<2, 3, 1>>, <<20, 5, 30>>}
Palettes == {<<0, 0, 0>>, <<3, 1, 2>>, <<255, 255, 255>>, <<200, 10, 90>>, <<200, 90, 10>>}

\* Libraries of two collections, of which one may be an overlay, a sequence
\* and a bone twice; ids whose slot is wrong or whose track is empty.
Id(i, slot, times) == [id |-> i, slot |-> slot, times |-> times]
Bone(name, loc, rot, scale) == [name |-> name, loc |-> loc, rot |-> rot, scale |-> scale]
Collections ==
    {[conc |-> c, ids |-> <<Id(i, s, t), Id(22, 3, <<4, 9>>), Id(51, 5, <<2, 30>>), Id(i, s, <<1>>)>>] :
        c \in {0, 1}, i \in {11, 21}, s \in {2, 3}, t \in {<< >>, <<0, 7, 7, 20>>, <<-3, 5, 40>>}}
LibraryOf(stcs, stand, walk) ==
    [bones |-> <<Bone("root", 11, 12, 13), Bone("arm", 21, 22, 23), Bone("root", 21, 22, 23)>>, stcs |-> stcs,
     seqs |-> <<[name |-> "stand", start |-> 0, end |-> 20, stcs |-> stand],
                [name |-> "walk", start |-> 5, end |-> 18, stcs |-> walk],
                [name |-> "stand", start |-> 0, end |-> 7, stcs |-> << >>]>>]
AnimLibraries ==
    {LibraryOf(<<a, b>>, stand, walk) : a \in Collections, b \in Collections,
        stand \in {<<1, 2>>, <<2, 3, 1>>}, walk \in {<< >>, <<2>>}}
OwnTracks ==
    [LibraryOf(<<[conc |-> 0, ids |-> <<Id(31, 2, <<3, 6>>), Id(21, 2, <<0, 50>>)>>],
                 [conc |-> 1, ids |-> << >>]>>, <<2, 1>>, <<2>>)
       EXCEPT !.bones = <<Bone("wing", 31, 32, 33), Bone("arm", 21, 22, 23)>>]
AnimSkeletons ==
    {[bones |-> <<[name |-> "root"], [name |-> "arm"], [name |-> "wing"], [name |-> "spark"]>>,
      emitters |-> <<[bone |-> 4, rate |-> 51], [bone |-> 2, rate |-> 0]>>, self |-> OwnTracks]}
Mapped(name, id, scale) == [name |-> name, id |-> id, scale |-> scale]
AnimMaps ==
    {<<Mapped("stand", 0, <<1, 1>>), Mapped("walk", 4, <<13, 20>>), Mapped("walk", 8, <<1, 1>>),
       Mapped("none", 9, <<1, 1>>), Mapped("stand", 4, <<1, 1>>)>>,
     <<Mapped("none", 0, <<1, 1>>)>>,
     [k \in 1 .. 8 |-> Mapped("stand", 3, <<1, 1>>)],
     <<Mapped("walk", 2, <<13, 20>>), Mapped("stand", 0, <<1, 1>>), Mapped("stand", 6, <<2, 1>>),
       Mapped("walk", 2, <<1, 1>>)>>}

\* Models of two regions; materials without image, sharing one, or five.
Slots(diffuse, emissive, mask) == (0 :> diffuse) @@ (4 :> emissive) @@ (8 :> mask)
MaterialSets ==
    {<< >>,
     <<[blend |-> 0, images |-> Slots(<<"a", "wing">>, NoImage, <<"b", "wing">>), scrolls |-> FALSE],
       [blend |-> 2, images |-> Slots(NoImage, <<"a", "glow">>, <<"a", "dust">>), scrolls |-> TRUE],
       [blend |-> 0, images |-> Slots(NoImage, NoImage, <<"b", "dust">>), scrolls |-> TRUE]>>,
     [k \in 1 .. 5 |-> [blend |-> IF k = 3 THEN 1 ELSE 0, scrolls |-> k > 3,
                        images |-> Slots(<<"a", ToString(k)>>, NoImage, NoImage)]]}
Weighed(w, bl) == [w |-> w, bl |-> bl]
Weights == {<<0, 0, 0, 0>>, <<255, 0, 0, 0>>, <<1, 1, 1, 0>>, <<0, 2, 2, 3>>, <<0, 255, 255, 0>>, <<1, 0, 255, 255>>}
\* Four vertices and what may be left over, with and without additions.
ModelOf(a, b, lookup, mats, version, cells, extent, bone, ribbons) ==
    [format |-> IF ribbons = 1 THEN {"uv1", "colour"} ELSE {}, vertBytes |-> IF ribbons = 1 THEN 169 ELSE 128,
     verts |-> <<Weighed(a, <<0, 1, 1, 0>>), Weighed(b, <<1, 0, 1, 1>>),
                 Weighed(a, <<1, 1, 0, 0>>), Weighed(b, <<0, 0, 0, 0>>)>>,
     faces |-> <<0, 1, 0, 1, 1, 0>>, lookup |-> lookup, nbones |-> 4, materials |-> mats,
     regions |-> <<[firstVert |-> 0, numVerts |-> 2, firstFace |-> 0, numFaces |-> 3, firstLookup |-> 0],
                   [firstVert |-> 2, numVerts |-> 2, firstFace |-> 3, numFaces |-> 3, firstLookup |-> 1]>>,
     matm |-> <<[standard |-> TRUE, index |-> 1], [standard |-> FALSE, index |-> 2],
                [standard |-> TRUE, index |-> 9], [standard |-> TRUE, index |-> 2]>>,
     batches |-> <<[region |-> 1, matref |-> 0], [region |-> 0, matref |-> 1], [region |-> 1, matref |-> 3]>>,
     parVersion |-> version, ribVersion |-> 9,
     particles |-> IF mats = << >> THEN << >>
                   ELSE <<[matref |-> 0, cells |-> cells], [matref |-> 3, cells |-> <<0, 255>>],
                          [matref |-> 2, cells |-> <<4, 2>>]>>,
     ribbons |-> IF mats = << >> THEN << >>
                 ELSE SubSeq(<<[bone |-> 2, extent |-> extent, matref |-> 0],
                               [bone |-> bone, extent |-> 1, matref |-> 3]>>, 1, ribbons)]
SkinFiles ==
    {ModelOf(a, b, lookup, mats, version, cells, extent, bone, ribbons) :
        a \in Weights, b \in Weights, lookup \in {<<0, 3, 1>>, <<3, 2, 2>>, <<2, 1, 0>>}, mats \in MaterialSets,
        version \in {24, 23}, cells \in {<<0, 0>>, <<1, 2>>}, extent \in {0, 2}, bone \in {3, 9}, ribbons \in 0 .. 2}
TextureModes == [skin : BOOLEAN, prefix : BOOLEAN]

AnyFile == AnyOf(TextureSources)
AnyBlock == AnyOf(Dxt1Blocks)
AnySkeleton == AnyOf(AnimSkeletons)
AnyMap == AnyOf(AnimMaps)
AnyModel == ParseModel(AnyOf(SkinFiles))

FilesRest == asset = AnyFile /\ job = NoJob /\ done = 0 /\ texture = NoTexture
PixelsRest == /\ stage = "block" /\ texels = << >> /\ block = AnyBlock
              /\ counts = << >> /\ boxes = << >>
AnimsRest == /\ model = AnySkeleton /\ map = AnyMap /\ lib = NoLibrary
             /\ bake = Unbaked /\ m2 = << >> /\ step = "parsed"
PatcherRest == PatcherInit /\ target = Stock(signed)
SkinRest == mdl = AnyModel /\ written = << >> /\ skin = << >> /\ phase = "parsed"

Init == \/ part = "files" /\ FilesInit /\ PixelsRest /\ AnimsRest /\ SkinRest /\ PatcherRest
        \/ part = "pixels" /\ FilesRest /\ PixelsInit /\ AnimsRest /\ SkinRest /\ PatcherRest
        \/ part = "anims" /\ FilesRest /\ PixelsRest /\ AnimsInit /\ SkinRest /\ PatcherRest
        \/ part = "skin" /\ FilesRest /\ PixelsRest /\ AnimsRest /\ SkinInit /\ PatcherRest
        \/ part = "patcher" /\ FilesRest /\ PixelsRest /\ AnimsRest /\ SkinRest /\ PatcherInit

Converts(A) == A /\ UNCHANGED patcherVars

Next == /\ UNCHANGED part
        /\ \/ part = "files" /\ Converts(FilesNext) /\ UNCHANGED <<pixelVars, animVars, skinVars>>
           \/ part = "pixels" /\ Converts(PixelsNext) /\ UNCHANGED <<fileVars, animVars, skinVars>>
           \/ part = "anims" /\ Converts(AnimsNext) /\ UNCHANGED <<fileVars, pixelVars, skinVars>>
           \/ part = "skin" /\ Converts(SkinNext) /\ UNCHANGED <<fileVars, pixelVars, animVars>>
           \/ part = "patcher" /\ PatcherNext /\ UNCHANGED <<fileVars, pixelVars, animVars, skinVars>>

Spec == Init /\ [][Next]_<<part, fileVars, pixelVars, animVars, skinVars, patcherVars>>

-------------------------------------------------------------------------------

(* A converted model is the source's: its bones follow the tracks that the *)
(* map asks for (M2Anims), its triangles, vertices, batches, emitters and  *)
(* trails find what the source gave them (M2Build).                        *)
ModelsMatch == AnimationsMatch /\ SkinFitsModel
===============================================================================
