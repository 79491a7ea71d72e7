---------------------------- MODULE ModelConverter ----------------------------
(***************************************************************************)
(* The animations of a converted model (assets/shared/models/m3): a        *)
(* library of tracks is parsed (Md34.cpp), the sequences that a map names  *)
(* are baked onto the model's bones and emitters, an ambient sequence of   *)
(* the model itself fills bones that stand still, and BuildM2 writes the   *)
(* table of sequences, its hash, and for every bone and emitter a track    *)
(* with an entry per sequence.  What a transform is, is left out: a baked  *)
(* key says when it is, and between which keys of which track it was taken.*)
(***************************************************************************)
EXTENDS Integers, Sequences, SequencesExt

CONSTANTS Skeletons,  \* [bones |-> names, emitters |-> [bone, rate], self |-> a library file]
          Libraries,  \* animation library files
          Maps,       \* sequence maps: [name, id, scale]; a scale is a fraction
          Ambients,   \* names of ambient sequences
          NoRate      \* the rate of an emitter that follows no track

VARIABLES model, map,
          lib,    \* the parsed library, if there is one
          bake,   \* sequences, and the keys of each bone and emitter in each
          m2,     \* what BuildM2 wrote
          step

animVars == <<model, map, lib, bake, m2, step>>

NoTrack == [layer |-> 0, times |-> << >>]
LeastOr(found, otherwise) == IF found = {} THEN otherwise ELSE CHOOSE k \in found : \A j \in found : k <= j
Sorted(S, Before(_, _)) ==
    [k \in 1 .. Cardinality(S) |-> CHOOSE x \in S : Cardinality({y \in S : Before(y, x)}) = k - 1]
Latest(S) == CHOOSE k \in S : \A j \in S : j <= k
Named(recs, name) == LeastOr({k \in DOMAIN recs : recs[k].name = name}, 0)
\* lround(t * scale)
Scaled(t, scale) == (2 * t * scale[1] + scale[2]) \div (2 * scale[2])
Unscaled == <<1, 1>>

(* Names and ids are emplaced in hash maps: of equal ones the first counts.*)
ParseAnimLib(file) ==
    [seqs  |-> file.seqs,
     bones |-> [name \in {file.bones[k].name : k \in DOMAIN file.bones} |-> file.bones[Named(file.bones, name)]],
     stcs  |-> [c \in DOMAIN file.stcs |->
                  LET ids == file.stcs[c].ids
                  IN  [conc |-> file.stcs[c].conc,
                       ids  |-> [i \in {ids[k].id : k \in DOMAIN ids} |->
                                   ids[LeastOr({k \in DOMAIN ids : ids[k].id = i}, 0)]]]]]

\* A collection has a track if it knows the id, for that slot, and the track
\* is there and has keys.
Tracks(l, c, id, slot) ==
    /\ c \in DOMAIN l.stcs /\ id \in DOMAIN l.stcs[c].ids
    /\ l.stcs[c].ids[id].slot = slot /\ l.stcs[c].ids[id].times # << >>
Track(l, c, id) == [layer |-> c, times |-> l.stcs[c].ids[id].times]

Conc(l, c) == IF c \in DOMAIN l.stcs THEN l.stcs[c].conc ELSE 0
\* Overlay layers behind the primary ones, otherwise in the file's order.
LayersOfFile(l, seq) == seq.stcs
Layers(l, seq) ==
    LET Before(a, b) == \/ Conc(l, seq.stcs[a]) < Conc(l, seq.stcs[b])
                        \/ Conc(l, seq.stcs[a]) = Conc(l, seq.stcs[b]) /\ a < b
        order == Sorted(DOMAIN seq.stcs, Before)
    IN  [k \in DOMAIN order |-> seq.stcs[order[k]]]
ResolveLayered(l, layers, id, slot) ==
    LET k == LeastOr({k \in DOMAIN layers : Tracks(l, layers[k], id, slot)}, 0)
    IN  IF k = 0 THEN NoTrack ELSE Track(l, layers[k], id)

(* The keys around a time, and how far it is from one to the other.        *)
Sample(t, time) ==
    LET n == Len(t.times)
        lo == Latest({k \in DOMAIN t.times : t.times[k] <= time})
    IN  IF n = 0 THEN <<0, 0>>                                   \* the bone's rest
        ELSE IF time <= t.times[1] THEN <<1, 0>>
        ELSE IF time >= t.times[n] THEN <<n, 0>>
        ELSE <<lo, time - t.times[lo]>>

Duration(seq) == seq.end - seq.start
InRange(tracks, seq) ==
    {0, Duration(seq)} \cup {time \in UNION {Range(t.times) : t \in tracks} : 0 <= time /\ time <= Duration(seq)}
NoKeys == << >>
BakedKeys(tracks, seq, scale) ==
    IF \A c \in DOMAIN tracks : tracks[c] = NoTrack THEN NoKeys
    ELSE LET at == Sorted(InRange(Range(tracks), seq), <)
         IN  [k \in DOMAIN at |-> [time |-> Scaled(at[k], scale), at |-> at[k],
                                   from |-> [c \in DOMAIN tracks |-> Sample(tracks[c], at[k])]]]
BoneTracks(l, layers, b) ==
    IF b.name \notin DOMAIN l.bones THEN <<NoTrack, NoTrack, NoTrack>>
    ELSE LET ids == l.bones[b.name]
         IN  <<ResolveLayered(l, layers, ids.loc, 2), ResolveLayered(l, layers, ids.rot, 3),
               ResolveLayered(l, layers, ids.scale, 2)>>
RateTracks(l, layers, e) == <<IF e.rate = NoRate THEN NoTrack ELSE ResolveLayered(l, layers, e.rate, 5)>>

-----------------------------------------------------------------------------

NoLibrary == ParseAnimLib([seqs |-> << >>, bones |-> << >>, stcs |-> << >>])
Unbaked == [seqs |-> << >>, tracks |-> << >>, rates |-> << >>]
AnimsInit ==
    /\ model \in Skeletons /\ map \in Maps
    /\ lib \in {NoLibrary} \cup {ParseAnimLib(f) : f \in Libraries} /\ bake = Unbaked /\ m2 = << >> /\ step = "parsed"

PickedEntries == SelectSeq(map, LAMBDA e : Named(lib.seqs, e.name) # 0)
SourceOf(e) == lib.seqs[Named(lib.seqs, e.name)]
BakeSequences ==
    /\ step = "parsed"
    /\ IF PickedEntries = << >> THEN step' = "nothing to bake" /\ bake' = bake
       ELSE /\ bake' =
                 [seqs   |-> [s \in DOMAIN PickedEntries |->
                                [id |-> PickedEntries[s].id, duration |-> Scaled(Duration(SourceOf(PickedEntries[s])), PickedEntries[s].scale)]],
                  tracks |-> [b \in DOMAIN model.bones |-> [s \in DOMAIN PickedEntries |->
                                LET q == SourceOf(PickedEntries[s])
                                IN  BakedKeys(BoneTracks(lib, Layers(lib, q), model.bones[b]), q, PickedEntries[s].scale)]],
                  rates  |-> [e \in DOMAIN model.emitters |-> [s \in DOMAIN PickedEntries |->
                                LET q == SourceOf(PickedEntries[s])
                                IN  BakedKeys(RateTracks(lib, Layers(lib, q), model.emitters[e]), q, PickedEntries[s].scale)]]]
            /\ step' = "baked"
    /\ UNCHANGED <<model, map, lib, m2>>

StaticBake ==
    /\ step = "nothing to bake" \/ (step = "parsed" /\ lib = NoLibrary)
    /\ bake' = [seqs   |-> <<[id |-> 0, duration |-> 1000]>>,
                tracks |-> [b \in DOMAIN model.bones |-> <<NoKeys>>],
                rates  |-> [e \in DOMAIN model.emitters |-> <<NoKeys>>]]
    /\ step' = "baked" /\ UNCHANGED <<model, map, lib, m2>>

Animated(per) == \E s \in DOMAIN per : per[s] # NoKeys
(* Its keys keep the time of their own sequence.                           *)
OverlayAmbient(name) ==
    LET self == ParseAnimLib(model.self)
        q == self.seqs[Named(self.seqs, name)]
    IN  /\ step = "baked" /\ Named(self.seqs, name) # 0
        /\ bake' = [bake EXCEPT !.tracks = [b \in DOMAIN @ |->
              IF Animated(@[b]) THEN @[b]
              ELSE LET keys == BakedKeys(BoneTracks(self, Layers(self, q), model.bones[b]), q, Unscaled)
                   IN  [s \in DOMAIN bake.seqs |-> keys]]]
        /\ step' = "overlaid" /\ UNCHANGED <<model, map, lib, m2>>

-----------------------------------------------------------------------------

(* BuildM2.  Sequences of one id are variations: a chain from the first.   *)
(* The share of a variation is computed and not written: each has 32767.   *)
Variation(s) == Len(SelectSeq(SubSeq(bake.seqs, 1, s - 1), LAMBDA q : q.id = bake.seqs[s].id))
NextVariation(s) == LeastOr({t \in DOMAIN bake.seqs : s < t /\ bake.seqs[t].id = bake.seqs[s].id}, -1)

(* Open addressing, twice as large as it has entries; ids in order.        *)
Empty == -1
Ids == {bake.seqs[s].id : s \in DOMAIN bake.seqs}
Probe(table, n, id, Stops(_)) == (id + LeastOr({d \in 0 .. n - 1 : Stops(table[(id + d) % n])}, n)) % n
SeqHashTable ==
    LET n == 2 * Cardinality(Ids)
        Put(table, id) ==
            LET i == Probe(table, n, id, LAMBDA e : e = Empty)
            IN  [table EXCEPT ![i] = LeastOr({s \in DOMAIN bake.seqs : bake.seqs[s].id = id}, 0)]
    IN  FoldLeft(Put, [i \in 0 .. n - 1 |-> Empty], Sorted(Ids, <))

EmitterBones == {model.emitters[e].bone : e \in DOMAIN model.emitters}
\* A bone that stands still has no track, but for the rotation of an emitter.
BoneTrack(b, channel) ==
    IF Animated(bake.tracks[b]) THEN [s \in DOMAIN bake.tracks[b] |-> bake.tracks[b][s]]
    ELSE IF channel = 2 /\ b \in EmitterBones THEN [s \in DOMAIN bake.seqs |-> "tilt"]
    ELSE << >>
\* An emitter's own rate where its sequence has no track of it.
BakedOrStaticFloatTrack(e) ==
    [s \in DOMAIN bake.seqs |-> IF bake.rates[e][s] = NoKeys THEN "own rate" ELSE bake.rates[e][s]]
\* What hides no texture in any sequence, also in a model without one.
FullOpacity == [s \in 1 .. Max({1, Len(bake.seqs)}) |-> "full"]
BuildM2 ==
    /\ step \in {"baked", "overlaid"}
    /\ m2' = [seqs  |-> [s \in DOMAIN bake.seqs |->
                           [id |-> bake.seqs[s].id, variation |-> Variation(s), duration |-> bake.seqs[s].duration,
                            frequency |-> 32767, next |-> NextVariation(s)]],
              table |-> SeqHashTable,
              bones |-> [b \in DOMAIN model.bones |-> [channel \in 1 .. 3 |-> BoneTrack(b, channel)]],
              rates |-> [e \in DOMAIN model.emitters |-> BakedOrStaticFloatTrack(e)], weight |-> FullOpacity]
    /\ step' = "built" /\ UNCHANGED <<model, map, lib, bake>>

AnimsNext == BakeSequences \/ StaticBake \/ (\E name \in Ambients : OverlayAmbient(name)) \/ BuildM2

-----------------------------------------------------------------------------

AnimsTypeOK ==
    /\ step \in {"parsed", "nothing to bake", "baked", "overlaid", "built"}
    /\ Len(bake.tracks) \in {0, Len(model.bones)} /\ Len(bake.rates) \in {0, Len(model.emitters)}

\* The client's search: from id % n to the sequence or to an empty slot.
Lookup(id) ==
    LET n == Cardinality(DOMAIN m2.table)
        Stops(e) == e = Empty \/ m2.seqs[e].id = id
    IN  IF \E i \in DOMAIN m2.table : Stops(m2.table[i])
        THEN m2.table[Probe(m2.table, n, id, Stops)] ELSE "never ends"
Chain(id) == SelectSeq([s \in DOMAIN m2.seqs |-> s], LAMBDA s : m2.seqs[s].id = id)
Asked == Ids \cup {map[k].id : k \in DOMAIN map} \cup {id + 2 * Cardinality(Ids) : id \in Ids}
ChainsServe ==
    \A id \in Asked :
        LET chain == Chain(id)
        IN  /\ Lookup(id) = IF chain = << >> THEN Empty ELSE chain[1]
            /\ \A v \in DOMAIN chain :
                 /\ m2.seqs[chain[v]].variation = v - 1
                 /\ m2.seqs[chain[v]].next = IF v < Len(chain) THEN chain[v + 1] ELSE -1

KeysAscend(keys) ==
    /\ keys[1].time = 0
    /\ \A k \in 2 .. Len(keys) : keys[k - 1].time <= keys[k].time /\ keys[k - 1].at < keys[k].at

\* The collections of a sequence that have a track; of them one that runs
\* first is to be followed, and each key of its track to be hit.
Channels(b) == LET ids == lib.bones[b.name] IN <<<<ids.loc, 2>>, <<ids.rot, 3>>, <<ids.scale, 2>>>>
Having(q, channel) == {c \in Range(q.stcs) : Tracks(lib, c, channel[1], channel[2])}
RunningFirst(having) == {c \in having : \A d \in having : Conc(lib, c) <= Conc(lib, d)}
Follows(keys, q, c, channel) ==
    Having(q, channel) # {} => \E l \in RunningFirst(Having(q, channel)) :
        LET times == Track(lib, l, channel[1]).times
        IN  \A time \in {t \in Range(times) : 0 <= t /\ t <= Duration(q)} :
              \E k \in DOMAIN keys : /\ keys[k].at = time /\ keys[k].from[c][2] = 0
                                     /\ times[keys[k].from[c][1]] = time
Moved(b, s) ==
    b.name \in DOMAIN lib.bones /\ \E c \in 1 .. 3 : Having(SourceOf(PickedEntries[s]), Channels(b)[c]) # {}
BoneFollows(b, per) ==
    IF \E s \in DOMAIN PickedEntries : Moved(b, s)
    THEN \A s \in DOMAIN PickedEntries :
            /\ Moved(b, s) <=> per[s] # NoKeys
            /\ Moved(b, s) =>
                 /\ KeysAscend(per[s]) /\ per[s][Len(per[s])].time = bake.seqs[s].duration
                 /\ \A c \in 1 .. 3 : Follows(per[s], SourceOf(PickedEntries[s]), c, Channels(b)[c])
    ELSE \A s \in DOMAIN per : per[s] = per[1] /\ (per[s] # NoKeys => step = "overlaid" /\ KeysAscend(per[s]))

(* A model moves as its source does.  The client finds every id the model  *)
(* has at the first of its variations, and no other id; a chain visits the *)
(* variations in the order of the map (all with one frequency, which       *)
(* M2Build.cpp:576 meant to split).  Baked keys ascend from 0 to the end   *)
(* of their sequence and hit every key of the track they follow, which no  *)
(* overlay layer may take from a primary one; the ambient sequence moves   *)
(* only bones that no baked one moves, and them in all.  Every track that  *)
(* is written has an entry per sequence.                                   *)
AnimationsMatch ==
    /\ AnimsTypeOK
    /\ step \in {"baked", "overlaid"} => \A b \in DOMAIN model.bones : BoneFollows(model.bones[b], bake.tracks[b])
    /\ step = "built" =>
        /\ ChainsServe
        /\ \A b \in DOMAIN m2.bones, c \in 1 .. 3 : Len(m2.bones[b][c]) \in {0, Len(m2.seqs)}
        /\ \A e \in DOMAIN m2.rates : Len(m2.rates[e]) = Len(m2.seqs)
        /\ Len(m2.weight) = Len(m2.seqs)

------------------------------------------------------------------------------
(***************************************************************************)
(* What ties a converted model together (assets/shared/models/m3): a model *)
(* file is parsed (Md34.cpp), its ribbons may become strips of geometry    *)
(* (M3Model.cpp), and M2Build.cpp writes a model image and a skin whose    *)
(* numbers must find each other: triangles their vertices, vertices their  *)
(* bones, batches their material, texture, colour and scrolling, emitters  *)
(* and ribbons their texture.  Indices count from 0 as in the files; of    *)
(* positions, sizes and speeds nothing is kept.                            *)
(***************************************************************************)

CONSTANTS ModelFiles,
          Modes,       \* texture modes: [skin |-> creature-skin slots, prefix |-> given]
          Bands,       \* 64: the bands in which a strip fades
          VertexLimit, \* 2^16: vertex numbers are u16
          BoneLimit    \* 2^8: bone numbers are bytes

ASSUME BandsAssumption == Bands \in Nat \ {0}

VARIABLES mdl,   \* the file, then the parsed model
          written, \* the model image of BuildM2
          skin,  \* the skin of BuildSkin
          phase

skinVars == <<mdl, written, skin, phase>>

NoImage == <<"", "">>           \* an image is its folder and its base name
Nth(seq, i) == seq[i + 1]
Indices(seq) == 0 .. Len(seq) - 1
In(seq, i) == i \in Indices(seq)
LeastIn(S) == CHOOSE x \in S : \A y \in S : x <= y

(* The first of some layers that has an image.                             *)
MaterialImage(m, slots) ==
    LET having == {k \in DOMAIN slots : m.images[slots[k]] # NoImage}
    IN  IF having = {} THEN NoImage ELSE m.images[slots[LeastIn(having)]]
\* Batches and emitters name materials through a table that also lists
\* materials of other kinds: those become material 0.
StandardMaterial(file, ref) ==
    LET r == Nth(file.matm, ref) IN IF r.standard /\ In(file.materials, r.index) THEN r.index ELSE 0
Owners(file, v) ==
    {r \in Indices(file.regions) : LET g == Nth(file.regions, r) IN
        g.firstVert <= v /\ v < g.firstVert + g.numVerts}

(* A file counts its vertices in bytes, and what a format adds to one      *)
(* makes it longer.                                                        *)
UvSetCount(format) == 1 + Cardinality(format \cap {"uv1", "uv2", "uv3"})
ColorBytes(format) == IF "colour" \in format THEN 4 ELSE 0
VertexSize(format) == 32 + 4 * (UvSetCount(format) - 1) + ColorBytes(format)

\* A vertex that several regions claim belongs to the last of them.
Geometry(file) ==
    LET verts == SubSeq(file.verts, 1, file.vertBytes \div VertexSize(file.format))
    IN  [verts |-> verts, faces |-> file.faces, regions |-> file.regions, lookup |-> file.lookup,
         nbones |-> file.nbones,
         vertRegion |-> [i \in DOMAIN verts |->
                           LET o == Owners(file, i - 1) IN IF o = {} THEN 0 ELSE CHOOSE r \in o : \A q \in o : q <= r]]

ParseModel(file) == Geometry(file) @@
    [materials |-> [i \in DOMAIN file.materials |->
                      LET m == file.materials[i]
                      IN  [blend |-> m.blend, diffuse |-> MaterialImage(m, <<0, 4>>), scrolls |-> m.scrolls]],
     batches |-> [i \in DOMAIN file.batches |->
                    [region |-> file.batches[i].region, alpha |-> 0,
                     mat |-> StandardMaterial(file, file.batches[i].matref)]],
     \* Emitters and ribbons of other versions than these are not read.
     particles |-> IF file.parVersion # 24 THEN << >> ELSE
        [i \in DOMAIN file.particles |->
           LET m == StandardMaterial(file, file.particles[i].matref)
           IN  [mat |-> m, image |-> MaterialImage(Nth(file.materials, m), <<0, 8, 4>>),
                cells |-> file.particles[i].cells]],
     ribbons |-> IF file.ribVersion # 9 THEN << >> ELSE
        [i \in DOMAIN file.ribbons |->
           LET m == StandardMaterial(file, file.ribbons[i].matref)
           IN  [bone |-> file.ribbons[i].bone, extent |-> file.ribbons[i].extent,
                mat |-> m, image |-> MaterialImage(Nth(file.materials, m), <<0, 8, 4>>)]]]

SkinInit == mdl \in {ParseModel(f) : f \in ModelFiles} /\ written = << >> /\ skin = << >> /\ phase = "parsed"

(* A ribbon without a bone or an extent is dropped, every other becomes    *)
(* Bands quads, each with a region and a batch of its own; the opacity of  *)
(* a band, known by its number, falls from full (0) to almost nothing.     *)
IsSheet(r) == r.bone < mdl.nbones /\ r.extent > 0
Strip(m, r) ==
    LET verts == Len(m.verts)
        faces == Len(m.faces)
        regions == Len(m.regions)
        Repeat(seq) == FlattenSeq([b \in 1 .. Bands |-> seq])
    IN  [m EXCEPT
          !.verts = @ \o [v \in 1 .. 4 * Bands |-> [w |-> <<255, 0, 0, 0>>, bl |-> <<0, 0, 0, 0>>]],
          !.vertRegion = @ \o [v \in 1 .. 4 * Bands |-> regions + (v - 1) \div 4],
          !.faces = @ \o Repeat(<<0, 1, 2, 1, 3, 2>>),
          !.lookup = Append(@, r.bone),
          !.regions = @ \o [b \in 1 .. Bands |->
                [firstVert |-> verts + 4 * (b - 1), numVerts |-> 4, firstFace |-> faces + 6 * (b - 1),
                 numFaces |-> 6, firstLookup |-> Len(m.lookup)]],
          !.batches = @ \o [b \in 1 .. Bands |-> [region |-> regions + b - 1, mat |-> r.mat, alpha |-> b - 1]]]
RibbonsToMesh ==
    /\ phase = "parsed" /\ mdl.ribbons # << >>
    /\ mdl' = [FoldLeft(Strip, mdl, SelectSeq(mdl.ribbons, IsSheet)) EXCEPT !.ribbons = << >>]
    /\ UNCHANGED <<written, skin, phase>>

-----------------------------------------------------------------------------

BatchAlphas(m) ==
    FoldLeft(LAMBDA seen, b : IF b.alpha = 0 \/ \E k \in DOMAIN seen : seen[k] = b.alpha
                              THEN seen ELSE Append(seen, b.alpha), << >>, m.batches)

(* Weights are scaled to a sum of 255; the first takes what rounding left. *)
Sum4(w) == w[1] + w[2] + w[3] + w[4]
NormalizedLast(w) ==
    LET scaled == [k \in 1 .. 4 |-> (w[k] * 255) \div Sum4(w)]
    IN  IF Sum4(w) \in {0, 255} THEN w ELSE [scaled EXCEPT ![4] = @ + 255 - Sum4(scaled)]
Normalized(w) ==
    LET scaled == [k \in 1 .. 4 |-> (w[k] * 255) \div Sum4(w)]
    IN  IF Sum4(w) = 0 THEN <<255, 0, 0, 0>>
        ELSE IF Sum4(w) = 255 THEN w
        ELSE [scaled EXCEPT ![1] = @ + 255 - Sum4(scaled)]
VertexRecord(m, i) ==
    LET v == m.verts[i]
        w == Normalized(v.w)
        r == Nth(m.regions, m.vertRegion[i])
        Bone(k) == LET li == r.firstLookup + v.bl[k]
                   IN  IF w[k] # 0 /\ In(m.lookup, li) THEN Nth(m.lookup, li) % BoneLimit ELSE 0
    IN  [w |-> w, bone |-> [k \in 1 .. 4 |-> Bone(k)]]

\* A model without materials gets one.
MaterialsOf(m) ==
    IF m.materials = << >> THEN <<[blend |-> 0, diffuse |-> NoImage, scrolls |-> FALSE]>> ELSE m.materials

(* Textures: one for each material, then one for each atlas of emitters    *)
(* and ribbons that is not there yet.  A path keeps an image's base name   *)
(* only, so images of different folders meet.                              *)
PathFor(img) == <<"path", img[2]>>
Placeholder == <<"placeholder", "">>
SkinSlot(mats, i, mode) ==
    mode.skin /\ mats[i].diffuse # NoImage /\ mats[i].blend = 0
Slot(k) == <<"slot", IF k < 2 THEN 11 + k ELSE 13>>
MaterialTexture(mats, i, mode) ==
    IF SkinSlot(mats, i, mode) THEN Slot(Cardinality({j \in 1 .. i - 1 : SkinSlot(mats, j, mode)}))
    ELSE IF mats[i].diffuse # NoImage /\ mode.prefix THEN PathFor(mats[i].diffuse) ELSE Placeholder
Atlas(acc, img, mats) ==
    IF \E k \in Len(mats) + 1 .. Len(acc) : acc[k] = PathFor(img) THEN acc ELSE Append(acc, PathFor(img))
HasAtlas(p, mode) == p.image # NoImage /\ mode.prefix
Textures(m, mode) ==
    LET mats == MaterialsOf(m)
        own == [i \in DOMAIN mats |-> MaterialTexture(mats, i, mode)]
        users == SelectSeq([i \in DOMAIN m.particles |-> m.particles[i].image]
                             \o [i \in DOMAIN m.ribbons |-> m.ribbons[i].image],
                           LAMBDA img : img # NoImage /\ mode.prefix)
    IN  FoldLeft(LAMBDA acc, img : Atlas(acc, img, mats), own, users)
TextureIndex(m, mode, p) ==
    LET mats == MaterialsOf(m)
        t == Textures(m, mode)
    IN  IF HasAtlas(p, mode)
        THEN LeastIn({k \in Len(mats) .. Len(t) - 1 : Nth(t, k) = PathFor(p.image)})
        ELSE IF In(mats, p.mat) THEN p.mat ELSE 0

\* A transform for every scrolling material, -1 for the others.
Scrollers(mats) == SelectSeq([i \in DOMAIN mats |-> i - 1], LAMBDA i : Nth(mats, i).scrolls)
TransformCombos(mats) ==
    [i \in DOMAIN mats |-> IF mats[i].scrolls THEN Cardinality({j \in 1 .. i - 1 : mats[j].scrolls}) ELSE -1]

\* The cells of an atlas in turn, over a life of 32767.
Cells(p) ==
    LET n == p.cells[2] - p.cells[1] + 1
    IN  IF n < 2 THEN <<<<0, p.cells[1]>>, <<32767, p.cells[1]>>>>
        ELSE [k \in 1 .. n |-> <<((k - 1) * 32767) \div (n - 1), p.cells[1] + k - 1>>]

RebasedNot(m, k) == Nth(m.faces, k)
Rebased(m, k) ==
    LET rs == {r \in Indices(m.regions) : LET g == Nth(m.regions, r) IN
                 g.firstFace <= k /\ k < g.firstFace + g.numFaces}
    IN  IF rs = {} THEN Nth(m.faces, k)
        ELSE (Nth(m.regions, CHOOSE r \in rs : \A q \in rs : q <= r).firstVert + Nth(m.faces, k)) % VertexLimit

\* Materials in their order; every other table of an emitter or a trail is
\* a constant of it, so of its record only these references are kept.
BlendMap == <<0, 2, 4, 4, 5, 6, 4, 4>>
Materials(mats) ==
    [blends |-> [i \in DOMAIN mats |-> Nth(BlendMap, IF mats[i].blend < 8 THEN mats[i].blend ELSE 0)],
     unlit  |-> [i \in DOMAIN mats |-> mats[i].blend # 0], combos |-> [i \in DOMAIN mats |-> i - 1]]
Emitter(p, mode) == [texture |-> TextureIndex(mdl, mode, p), cells |-> Cells(p)]
Trail(r, mode) ==
    [texture |-> TextureIndex(mdl, mode, r), mat |-> IF In(MaterialsOf(mdl), r.mat) THEN r.mat ELSE 0]

BuildM2Image(mode) ==
    LET mats == MaterialsOf(mdl)
    IN  [mode       |-> mode,
         vertices   |-> [i \in DOMAIN mdl.verts |-> VertexRecord(mdl, i)],
         colours    |-> BatchAlphas(mdl),
         textures   |-> Textures(mdl, mode),
         materials  |-> Materials(mats),
         transforms |-> Scrollers(mats),
         transformCombos |-> TransformCombos(mats),
         lookup     |-> IF mdl.lookup = << >> THEN <<0>> ELSE mdl.lookup,
         emitters   |-> [i \in DOMAIN mdl.particles |-> Emitter(mdl.particles[i], mode)],
         trails     |-> [i \in DOMAIN mdl.ribbons |-> Trail(mdl.ribbons[i], mode)]]

\* The skin looks at the weights of the source, not at the scaled ones.
SkinBones(v) == [k \in 1 .. 4 |-> IF v.w[k] # 0 THEN v.bl[k] ELSE 0]
ColourIndex(b) ==
    IF b.alpha = 0 THEN -1
    ELSE LeastIn({k \in Indices(BatchAlphas(mdl)) : Nth(BatchAlphas(mdl), k) = b.alpha})
BuildSkin ==
    [triangles |-> [k \in DOMAIN mdl.faces |-> Rebased(mdl, k - 1)],
     bones     |-> [i \in DOMAIN mdl.verts |-> SkinBones(mdl.verts[i])],
     submeshes |-> mdl.regions,
     batches   |-> [i \in DOMAIN mdl.batches |->
                      [submesh |-> mdl.batches[i].region, colour |-> ColourIndex(mdl.batches[i]),
                       mat |-> mdl.batches[i].mat]]]
BuildModel(mode) ==
    /\ phase = "parsed"
    /\ written' = BuildM2Image(mode) /\ skin' = BuildSkin
    /\ phase' = "built" /\ UNCHANGED mdl

SkinNext == RibbonsToMesh \/ \E mode \in Modes : BuildModel(mode)

-----------------------------------------------------------------------------

SkinTypeOK ==
    /\ phase \in {"parsed", "built"} /\ Len(mdl.vertRegion) = Len(mdl.verts)

TrianglesStay ==
    Len(mdl.verts) <= VertexLimit =>
      \A r \in Indices(skin.submeshes), k \in Indices(skin.triangles) :
        LET g == Nth(skin.submeshes, r)
            v == Nth(skin.triangles, k)
        IN  g.firstFace <= k /\ k < g.firstFace + g.numFaces =>
              /\ g.firstVert <= v /\ v < g.firstVert + g.numVerts
              /\ Nth(mdl.vertRegion, v) = r
\* What rounding three weights down to a sum of 255 leaves.
RoundingRest == 2
VerticesAgree ==
    \A i \in DOMAIN mdl.verts :
        LET source == mdl.verts[i].w
            v == written.vertices[i]
            r == Nth(mdl.regions, mdl.vertRegion[i])
        IN  /\ Sum4(v.w) = 255 /\ \A k \in 1 .. 4 : v.w[k] >= 0
            /\ \A k \in 1 .. 4 : LET li == r.firstLookup + skin.bones[i][k] IN
                 source[k] > 0 /\ v.w[k] > 0 /\ In(written.lookup, li) /\ Nth(written.lookup, li) < BoneLimit =>
                     v.bone[k] = Nth(written.lookup, li)
            /\ Sum4(source) > 0 =>
                 \A k \in 1 .. 4 : source[k] = 0 => v.w[k] <= IF k = 1 THEN RoundingRest ELSE 0
BatchesResolve ==
    \A i \in DOMAIN skin.batches :
        LET b == skin.batches[i]
            c == Nth(written.transformCombos, b.mat)
        IN  /\ In(skin.submeshes, b.submesh) /\ In(written.materials.blends, b.mat)
            /\ Nth(written.materials.blends, b.mat) # 0 => Nth(written.materials.unlit, b.mat)
            /\ Nth(written.materials.combos, b.mat) = b.mat /\ In(written.textures, b.mat)
            /\ IF mdl.batches[i].alpha = 0 THEN b.colour = -1
               ELSE Nth(written.colours, b.colour) = mdl.batches[i].alpha
            /\ IF Nth(MaterialsOf(mdl), b.mat).scrolls THEN Nth(written.transforms, c) = b.mat ELSE c = -1
Shown(p, texture) ==
    Nth(written.textures, texture) =
        IF HasAtlas(p, written.mode) THEN PathFor(p.image)
        ELSE MaterialTexture(MaterialsOf(mdl), p.mat + 1, written.mode)
CellsRun(cells) ==
    /\ cells[1][1] = 0 /\ cells[Len(cells)][1] = 32767
    /\ \A k \in 2 .. Len(cells) : cells[k - 1][1] < cells[k][1]

(* Model image and skin are written apart and must agree.  A triangle      *)
(* stays among the vertices of its submesh, as long as vertex numbers do   *)
(* not wrap; weights sum to 255, and where the source has a weight the     *)
(* bone is the same by its number and by the submesh's table.  Where it    *)
(* has none the two differ, because the skin zeroes by source weights      *)
(* (M2Build.cpp:1143) and the model by its own: a vertex without weights   *)
(* gets all of it in the first slot (:724), and one whose first slot had   *)
(* none gets there what rounding left (:728), at most two parts of 255;    *)
(* no other slot gets a weight the source does not give.  A batch finds    *)
(* its material, texture, opacity and scrolling, and what the client       *)
(* blends with the picture behind it is unlit; an emitter or trail finds   *)
(* its picture, no atlas is listed twice, and atlas cells follow each      *)
(* other to the end of a life.                                             *)
SkinFitsModel ==
    /\ SkinTypeOK
    /\ phase = "built" =>
        /\ TrianglesStay /\ VerticesAgree /\ BatchesResolve
        /\ \A i \in DOMAIN written.emitters :
             Shown(mdl.particles[i], written.emitters[i].texture) /\ CellsRun(written.emitters[i].cells)
        /\ \A i \in DOMAIN written.trails :
             Shown(mdl.ribbons[i], written.trails[i].texture) /\ In(written.materials.blends, written.trails[i].mat)
        /\ \A i, j \in Len(written.materials.blends) + 1 .. Len(written.textures) : i # j => written.textures[i] # written.textures[j]
===============================================================================
