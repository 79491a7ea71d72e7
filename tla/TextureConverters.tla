-------------------------- MODULE TextureConverters ---------------------------
(***************************************************************************)
(* The texture converters: BLP to BLP (BlpTranscode.cpp), DDS to BLP       *)
(* (Dds.cpp) and the reader of the quest marker (TextureLoader.cpp), as    *)
(* far as they decide which bytes of which file are which mip level.  What *)
(* a pixel becomes is the second part's subject: the bytes of a level here *)
(* are known by the width and height of the picture they were made from.   *)
(*                                                                         *)
(* A file is its header, its table of offsets and sizes and, under         *)
(* "pieces", what is stored where.  A converted file can be converted      *)
(* again.                                                                  *)
(***************************************************************************)
EXTENDS Integers, Sequences, SequencesExt, FiniteSetsExt

CONSTANTS Levels,         \* the entries of the table: 16 in the format
          Sources,        \* the files that are converted
          Edges,          \* the budgets for the longer edge
          ComponentEdges, \* the clamp of a character component's budget
          MaxConversions

ASSUME LevelsAssumption == Levels \in 1 .. 16 /\ MaxConversions \in Nat

VARIABLES asset,   \* the file: a source, or what it was converted to
          job,     \* the conversion under way and its next level
          done,    \* how many conversions were tried
          texture  \* the quest marker's texture: what it shows of which file

fileVars == <<asset, job, done, texture>>

Header == 148                    \* 0x94
Palette == 1024
Entries == 0 .. Levels - 1
Larger(a, b) == IF a > b THEN a ELSE b
\* The shift by an entry's number.
TwoTo == <<1, 2, 4, 8, 16, 32, 64, 128, 256, 512, 1024, 2048, 4096, 8192, 16384, 32768>>
Shift(x, i) == x \div TwoTo[i + 1]
Half(x, i) == Larger(1, Shift(x, i))
Blocks(x) == (x + 3) \div 4
At(f, i) == <<Half(f.w, i), Half(f.h, i)>>

BlockBytes(enc) == IF enc = "dxt1" THEN 8 ELSE 16
BytesOf(enc, dims) ==
    CASE enc \in {"dxt1", "dxt3", "dxt5"} -> Blocks(dims[1]) * Blocks(dims[2]) * BlockBytes(enc)
      [] enc = "bgra" -> dims[1] * dims[2] * 4
      [] enc = "bgr"  -> dims[1] * dims[2] * 3
      [] enc = "paletted" -> dims[1] * dims[2] * 2

Holds(f, i) == f.size[i] # 0 /\ f.off[i] # 0
Inside(f, i) == f.off[i] + f.size[i] <= f.n
\* The picture that lies at an offset of a file.
Shows(f, at) == IF \E p \in f.pieces : p.at = at THEN (CHOOSE p \in f.pieces : p.at = at).dims ELSE <<0, 0>>

Mips(f) == IF f.mips = 0 THEN 1 ELSE IF f.mips > Levels THEN Levels ELSE f.mips

(* The files that are converted: a level that is there has its length and   *)
(* its picture, whatever holes the table has and wherever the file was cut; *)
(* the levels of a DDS file ("starts") follow each other.                   *)
Compressed == {"dxt1", "dxt3", "dxt5"}
BlpRecords ==
    [format : {"blp"}, converted : BOOLEAN, whole : BOOLEAN,
     enc : Compressed \cup {"bgra", "bgr", "paletted"}, w : Nat \ {0}, h : Nat \ {0},
     off : [Entries -> Nat], size : [Entries -> Nat], n : Nat,
     pieces : SUBSET [at : Nat, dims : Nat \X Nat]]
IsLevel(f, i) ==
    /\ Header <= f.off[i] /\ f.size[i] = BytesOf(f.enc, At(f, i)) /\ Shows(f, f.off[i]) = At(f, i)
    /\ f.whole => Inside(f, i)
IsBlp(f) ==
    /\ f \in BlpRecords
    /\ f.whole => f.size[0] # 0
    /\ \A i \in Entries : IF f.size[i] = 0 THEN f.off[i] = 0 ELSE IsLevel(f, i)
DdsRecords ==
    [format : {"dds"}, converted : {FALSE}, whole : BOOLEAN, enc : Compressed, w : Nat \ {0}, h : Nat \ {0},
     mips : Nat, n : Nat, starts : [0 .. Levels -> Nat], pieces : SUBSET [at : Nat, dims : Nat \X Nat]]
IsDds(f) ==
    /\ f \in DdsRecords
    /\ f.starts[0] = 128
    /\ f.whole => f.starts[1] <= f.n
    /\ \A i \in 0 .. Mips(f) - 1 : /\ f.starts[i + 1] = f.starts[i] + BytesOf(f.enc, At(f, i))
                                   /\ Shows(f, f.starts[i]) = At(f, i)
ASSUME SourcesAssumption ==
    \A f \in Sources : f.converted = FALSE /\ IF f.format = "blp" THEN IsBlp(f) ELSE IsDds(f)

NoLevels == [i \in Entries |-> 0]
Started(enc, w, h, start) ==
    [format |-> "blp", converted |-> TRUE, whole |-> asset.whole, enc |-> enc, w |-> w, h |-> h,
     off |-> NoLevels, size |-> NoLevels, n |-> start, pieces |-> {}]
\* What every converter does with a level: append its bytes, enter them.
Appended(f, i, dims, bytes) ==
    [f EXCEPT !.off[i] = f.n, !.size[i] = bytes, !.n = @ + bytes,
              !.pieces = @ \cup {[at |-> f.n, dims |-> dims]}]

NoJob == [kind |-> "none"]
NoTexture == [enc |-> "none", dims |-> <<0, 0>>, shows |-> <<0, 0>>]
Convert(kind, out, level, more) ==
    job' = [kind |-> kind, out |-> out, level |-> level, more |-> more] /\ UNCHANGED <<asset, done, texture>>
More(out) == Convert(job.kind, out, job.level + 1, job.more)
Finish == asset' = job.out /\ job' = NoJob /\ done' = done + 1 /\ UNCHANGED texture
\* A conversion that refuses its input: the caller serves the file as it is.
Refuse == job' = NoJob /\ done' = done + 1 /\ UNCHANGED <<asset, texture>>
Ready(format) == job = NoJob /\ done < MaxConversions /\ asset.format = format

-----------------------------------------------------------------------------

FilesInit ==
    /\ asset \in Sources /\ job = NoJob /\ done = 0 /\ texture = NoTexture

(* Drops the levels above a budget; header and palette stay as they are.   *)
Fitting(f, edge) == {d \in Entries : Shift(Larger(f.w, f.h), d) <= edge}
Drop(f, edge) == IF Fitting(f, edge) = {} THEN Levels ELSE Min(Fitting(f, edge))
CapBlpMips(edge) ==
    /\ Ready("blp")
    /\ LET d == Drop(asset, edge) IN
       IF /\ Larger(asset.w, asset.h) > edge
          /\ d \in Entries /\ Holds(asset, d) /\ Inside(asset, d)
          /\ Header <= asset.off[0] /\ asset.off[0] <= asset.n
       THEN Convert("cap", Started(asset.enc, Half(asset.w, d), Half(asset.h, d), asset.off[0]), 0, d)
       ELSE Refuse

\* The j-th level of the result is the (drop + j)-th of the source.
SourceLevelSame == job.level
SourceLevel == job.level + job.more
CapLevel ==
    /\ job.kind = "cap"
    /\ LET i == SourceLevel IN
       IF i \in Entries /\ Holds(asset, i) /\ Inside(asset, i)
       THEN More(Appended(job.out, job.level, Shows(asset, asset.off[i]), asset.size[i]))
       ELSE Finish

(* Re-encodes uncompressed levels as DXT5, each in its own place in the    *)
(* table; a level that the file no longer holds ends the conversion.       *)
TranscodeBlp ==
    /\ Ready("blp")
    /\ IF asset.enc \in {"bgra", "bgr"} /\ Holds(asset, 0) /\ asset.off[0] <= asset.n
       THEN Convert("transcode", Started("dxt5", asset.w, asset.h, asset.off[0]), 0, 0)
       ELSE Refuse

Encoded(f, i) == BytesOf("dxt5", At(f, i))
TranscodeLevel ==
    /\ job.kind = "transcode"
    /\ LET i == job.level IN
       IF i \notin Entries THEN Finish
       ELSE IF ~Holds(asset, i) THEN More(job.out)
       ELSE IF asset.off[i] + BytesOf(asset.enc, At(asset, i)) > asset.n THEN Finish
       ELSE More(Appended(job.out, i, Shows(asset, asset.off[i]), Encoded(asset, i)))

(* A DDS file has no table: its levels follow each other, and are copied   *)
(* or, for the light that additive sprites give off, made from DXT1 with   *)
(* an alpha channel.                                                       *)
DdsToBlp(luminanceAlpha) ==
    /\ Ready("dds")
    /\ LET enc == IF luminanceAlpha /\ asset.enc = "dxt1" THEN "dxt5" ELSE asset.enc
       IN  Convert("dds", Started(enc, asset.w, asset.h, Header + Palette), 0, 128)

DdsLevel ==
    /\ job.kind = "dds"
    /\ LET n == BytesOf(asset.enc, At(asset, job.level))
           src == job.more
       IN  IF job.level < Mips(asset) /\ src + n <= asset.n
           THEN Convert("dds", Appended(job.out, job.level, Shows(asset, src),
                                        BytesOf(job.out.enc, At(asset, job.level))),
                        job.level + 1, src + n)
           ELSE Finish

(* One level of a DXT file, the first that fits or else the largest, is    *)
(* the base of a new chain of paletted levels down to a single pixel.      *)
Clamped(edge) == IF edge < ComponentEdges.least THEN ComponentEdges.least
                 ELSE IF edge > ComponentEdges.most THEN ComponentEdges.most ELSE edge
First(f, edge) == LET d == Drop(f, edge) IN IF d < Levels THEN d ELSE Levels - 1
Picked(f, edge) ==
    LET d == First(f, edge) IN IF Holds(f, d) /\ Inside(f, d) THEN d ELSE 0
TextureComponentToPaletted(edge) ==
    /\ Ready("blp")
    /\ LET mip == Picked(asset, Clamped(edge))
           dims == At(asset, mip)
       IN  IF /\ asset.enc \in {"dxt1", "dxt3", "dxt5"} /\ Holds(asset, mip) /\ Inside(asset, mip)
              /\ BytesOf(asset.enc, dims) <= asset.size[mip]
           THEN Convert("component", Started("paletted", dims[1], dims[2], Header + Palette), 0,
                        Shows(asset, asset.off[mip]))
           ELSE Refuse

Downsampled(dims, i) == <<Half(dims[1], i), Half(dims[2], i)>>
EncodePalettedLevel ==
    /\ job.kind = "component"
    /\ LET i == job.level
           dims == At(job.out, i)
       IN  IF i \in Entries /\ (i = 0 \/ At(job.out, i - 1) # <<1, 1>>)
           THEN More(Appended(job.out, i, Downsampled(job.more, i), BytesOf("paletted", dims)))
           ELSE Finish

(* The quest marker reads level 0 into a texture of one level: at once if  *)
(* the driver's pitch is the row size it works out, else row by row.  Its  *)
(* rows are rows of blocks, for the uncompressed format too.               *)
RowSize(f) == Blocks(f.w) * BlockBytes(f.enc)
TrueRow(f) == IF f.enc = "bgra" THEN f.w * 4 ELSE RowSize(f)
CopiedRight(f, pitch) ==
    IF pitch = RowSize(f) THEN pitch = TrueRow(f) ELSE f.enc # "bgra" \/ f.h = 1
LoadBlpTexture(padding) ==
    /\ Ready("blp")
    /\ texture' = IF /\ asset.enc \in {"dxt1", "dxt3", "dxt5", "bgra"}
                     /\ asset.size[0] # 0 /\ Inside(asset, 0)
                  THEN [enc |-> asset.enc, dims |-> At(asset, 0),
                        shows |-> IF CopiedRight(asset, TrueRow(asset) + padding)
                                  THEN Shows(asset, asset.off[0]) ELSE <<0, 0>>]
                  ELSE NoTexture
    /\ done' = done + 1 /\ UNCHANGED <<asset, job>>

Begin == \/ \E e \in Edges : CapBlpMips(e) \/ TextureComponentToPaletted(e)
         \/ TranscodeBlp \/ \E l \in BOOLEAN : DdsToBlp(l)
         \/ \E padding \in {0, 16} : LoadBlpTexture(padding)

FilesNext == Begin \/ CapLevel \/ TranscodeLevel \/ DdsLevel \/ EncodePalettedLevel

-----------------------------------------------------------------------------

FilesTypeOK ==
    /\ done \in 0 .. MaxConversions
    /\ job.kind \in {"none", "cap", "transcode", "dds", "component"}
    /\ asset.format \in {"blp", "dds"}

(* Whatever a file was converted to, and converted to again: each level    *)
(* that its table names lies behind the header, inside the file and apart  *)
(* from the others, has the length of its format and shows the picture at  *)
(* the size that the client expects of that level.  A file that was whole  *)
(* keeps its first level; one that was cut may lose all of them (neither   *)
(* TranscodeBlp nor DdsToBlp refuses it).  And the quest marker shows      *)
(* level 0 of a file, except that rows of an uncompressed one are torn     *)
(* where its row size is not the driver's.                                 *)
LevelsArePictures ==
    /\ FilesTypeOK
    /\ asset.converted =>
        /\ asset.whole => asset.size[0] # 0
        /\ \A i \in Entries : asset.size[i] # 0 =>
            /\ Header <= asset.off[0] /\ Inside(asset, i)
            /\ Shows(asset, asset.off[i]) = At(asset, i)
            /\ asset.size[i] = BytesOf(asset.enc, At(asset, i))
            /\ \A j \in Entries : j # i /\ asset.size[j] # 0 =>
                   asset.off[j] + asset.size[j] <= asset.off[i] \/ asset.off[i] + asset.size[i] <= asset.off[j]
    /\ texture.shows # texture.dims => texture.enc = "bgra"

------------------------------------------------------------------------------
(***************************************************************************)
(* What the texture converters make of pixels: the block compressor of     *)
(* Dxt.hpp and the decoder of BlpTranscode.cpp, the alpha that Dds.cpp     *)
(* derives from luminance, and the median cut behind paletted textures.    *)
(* A block has Spots instead of sixteen texels, a palette PaletteSize      *)
(* instead of 256 entries; every value has its full range.                 *)
(***************************************************************************)

CONSTANTS Spots,        \* the texels of a block
          Alphas,       \* the alpha values and colours of texels
          Shades,
          Packed,       \* 565 endpoints of the DXT1 blocks of a DDS file
          PaletteSize,
          ImageColours, \* the colours of an image that gets a palette
          MostOf        \* how many pixels of a colour an image has

Bytes == 0 .. 255
ASSUME PixelsAssumption ==
    /\ Spots # {} /\ IsFiniteSet(Spots) /\ PaletteSize \in Nat \ {0} /\ MostOf \in Nat \ {0}
    /\ Alphas \subseteq Bytes /\ Shades \subseteq [1 .. 3 -> Bytes] /\ Packed \subseteq [1 .. 3 -> 0 .. 63]
    /\ ImageColours \subseteq [1 .. 3 -> Bytes] /\ IsFiniteSet(ImageColours)

VARIABLES stage,  \* what is being done
          texels, \* the texels of a block: what they should look like
          block,  \* its encoding
          counts,  \* how often the image has each colour
          boxes   \* the boxes of the median cut, sets of colours

pixelVars == <<stage, texels, block, counts, boxes>>

Least(S) == CHOOSE x \in S : \A y \in S : x <= y
Most(S) == CHOOSE x \in S : \A y \in S : y <= x
Abs(x) == IF x < 0 THEN -x ELSE x
Square(x) == x * x
Distance(a, b) == Square(a[1] - b[1]) + Square(a[2] - b[2]) + Square(a[3] - b[3])
\* The first index whose entry is nearest: both compressors test with "<".
NearestOf(d) == Least({k \in DOMAIN d : \A j \in DOMAIN d : d[k] <= d[j]})

Pack565(c) == <<c[1] \div 8, c[2] \div 4, c[3] \div 8>>
Numeral(p) == p[1] * 2048 + p[2] * 32 + p[3]
Unpack565(p) == <<p[1] * 8, p[2] * 4, p[3] * 8>>                                     \* Dxt.hpp
Unpack565Scaled(p) == <<(p[1] * 255) \div 31, (p[2] * 255) \div 63, (p[3] * 255) \div 31>> \* Dds.cpp
Blend(a, b, m, n) == [i \in 1 .. 3 |-> (m * a[i] + n * b[i]) \div (m + n)]

EightAlphas(a0, a1) ==
    [k \in 0 .. 7 |-> IF k = 0 THEN a0 ELSE IF k = 1 THEN a1 ELSE ((8 - k) * a0 + (k - 1) * a1) \div 7]
SixAlphas(a0, a1) ==
    [k \in 0 .. 7 |-> IF k = 0 THEN a0 ELSE IF k = 1 THEN a1 ELSE IF k = 6 THEN 0
                      ELSE IF k = 7 THEN 255 ELSE ((6 - k) * a0 + (k - 1) * a1) \div 5]
FourColours(e0, e1) ==
    [k \in 0 .. 3 |-> IF k = 0 THEN e0 ELSE IF k = 1 THEN e1
                      ELSE IF k = 2 THEN Blend(e0, e1, 2, 1) ELSE Blend(e0, e1, 1, 2)]

-----------------------------------------------------------------------------

Nothing == [kind |-> "none"]
AllKinds == [Spots -> [rgb : Shades, a : Alphas]]
Dxt1Blocks == [kind : {"dxt1"}, c0 : Packed, c1 : Packed, ci : [Spots -> 0 .. 3], alphaDepth : {0, 8}]
PixelsInit ==
    /\ boxes = << >>
    /\ \/ stage = "texels" /\ texels \in AllKinds /\ block = Nothing /\ counts = << >>
       \/ stage = "block" /\ texels = << >> /\ block \in Dxt1Blocks /\ counts = << >>
       \/ /\ stage = "image" /\ texels = << >> /\ block = Nothing
          /\ counts \in [ImageColours -> 0 .. MostOf]

(* CompressBlock: endpoints around the block's values, then the nearest    *)
(* entry for each texel; blocks of one packed colour use index 0.          *)
AlphasOf(t) == {t[s].a : s \in Spots}
Corner(t, Of(_)) == Pack565([i \in 1 .. 3 |-> Of({t[s].rgb[i] : s \in Spots})])
NearestAlphas(t, alphas) == [s \in Spots |-> NearestOf([k \in 0 .. 7 |-> Abs(t[s].a - alphas[k])])]
NearestColours(t, colours) == [s \in Spots |-> NearestOf([k \in 0 .. 3 |-> Distance(t[s].rgb, colours[k])])]
Dxt5Block(t, a0, a1, alphas, c0, c1, colours) ==
    [kind |-> "dxt5", a0 |-> a0, a1 |-> a1, ai |-> NearestAlphas(t, alphas), c0 |-> c0, c1 |-> c1,
     ci |-> IF c0 = c1 THEN [s \in Spots |-> 0] ELSE NearestColours(t, colours)]
CompressBlock ==
    /\ stage = "texels"
    /\ LET a0 == Most(AlphasOf(texels))
           a1 == Least(AlphasOf(texels))
           c0 == Corner(texels, Most)
           c1 == Corner(texels, Least)
       IN  block' = Dxt5Block(texels, a0, a1, EightAlphas(a0, a1),
                              c0, c1, FourColours(Unpack565(c0), Unpack565(c1)))
    /\ stage' = "compressed" /\ UNCHANGED <<texels, counts, boxes>>

(* Dxt1ToDxt5LumaAlpha: decode, derive the alpha, premultiply, encode with *)
(* endpoints 255 and 0 and a table of its own.                             *)
Dxt1Texel(b, s) == FourColours(Unpack565Scaled(b.c0), Unpack565Scaled(b.c1))[b.ci[s]]
Luminance(c) == (c[1] * 77 + c[2] * 151 + c[3] * 28) \div 256
Clamp255(x) == IF x < 0 THEN 0 ELSE IF x > 255 THEN 255 ELSE x
LumaAlpha(c) == Clamp255(Luminance(c) * 2 - 32)
FixedLevels == [k \in 0 .. 7 |-> <<255, 0, 219, 182, 146, 109, 73, 36>>[k + 1]]
Premultiplied(b) ==
    [s \in Spots |-> LET c == Dxt1Texel(b, s) IN
        [rgb |-> [i \in 1 .. 3 |-> (c[i] * LumaAlpha(c)) \div 255], a |-> LumaAlpha(c)]]
LumaBlock(t) ==
    LET c0 == Corner(t, Most)
        c1 == Corner(t, Least)
    IN  Dxt5Block(t, 255, 0, FixedLevels, c0, c1, FourColours(Unpack565Scaled(c0), Unpack565Scaled(c1)))
Dxt1ToDxt5LumaAlpha ==
    /\ stage = "block"
    /\ texels' = Premultiplied(block) /\ block' = LumaBlock(texels')
    /\ stage' = "faded" /\ UNCHANGED <<counts, boxes>>

(* DecodeDxtMip, per texel: the alpha mode and the transparent index go by *)
(* the order of the endpoints, the latter only where the file has alpha.   *)
DecodedAlphas(b) == IF b.a0 > b.a1 THEN EightAlphas(b.a0, b.a1) ELSE SixAlphas(b.a0, b.a1)
PunchesAnyFile(b) == b.kind = "dxt1" /\ Numeral(b.c0) <= Numeral(b.c1)
Punches(b) == b.kind = "dxt1" /\ b.alphaDepth # 0 /\ Numeral(b.c0) <= Numeral(b.c1)
DecodedColours(b) == FourColours(Unpack565(b.c0), Unpack565(b.c1))
PunchedColours(b) ==
    LET e0 == Unpack565(b.c0)
        e1 == Unpack565(b.c1)
    IN  [k \in 0 .. 3 |-> IF k = 0 THEN e0 ELSE IF k = 1 THEN e1
                          ELSE IF k = 2 THEN Blend(e0, e1, 1, 1) ELSE <<0, 0, 0>>]
DecodeDxtTexel(b, s) ==
    [rgb |-> (IF Punches(b) THEN PunchedColours(b) ELSE DecodedColours(b))[b.ci[s]],
     a |-> IF b.kind = "dxt5" THEN DecodedAlphas(b)[b.ai[s]]
           ELSE IF Punches(b) /\ b.ci[s] = 3 THEN 0 ELSE 255]
\* A component texture's pixels come from there.
DecodeDxtMip ==
    /\ stage = "block"
    /\ texels' = [s \in Spots |-> DecodeDxtTexel(block, s)]
    /\ stage' = "decoded" /\ UNCHANGED <<block, counts, boxes>>

-----------------------------------------------------------------------------

(* BuildPalette.  Pixels that are not transparent are counted by the five  *)
(* high bits of each channel; a box is cut at half its pixels along its    *)
(* longest side.  An image of transparent pixels alone has black.          *)
ColorKey(c) == <<c[1] \div 8, c[2] \div 8, c[3] \div 8>>
KeyCenter(k) == [i \in 1 .. 3 |-> (k[i] * 255 + 15) \div 31]
Centre(c) == KeyCenter(ColorKey(c))
Seen == {c \in ImageColours : counts[c] > 0}
\* A colour counts once for each pixel that has it.
Pixels == {p \in Seen \X (1 .. MostOf) : p[2] <= counts[p[1]]}
Total(box) == Cardinality({p \in Pixels : Centre(p[1]) \in box})
Side(box, i) == Most({c[i] : c \in box}) - Least({c[i] : c \in box})
LongestSide(box) == Most({Side(box, i) : i \in 1 .. 3})
Score(box) == LongestSide(box) * (IF Total(box) < 65535 THEN Total(box) ELSE 65535)
\* Red before green before blue.
Axis(box) == Least({i \in 1 .. 3 : Side(box, i) = LongestSide(box)})

StartPalette ==
    /\ stage = "image"
    /\ boxes' = <<IF Seen = {} THEN {<<0, 0, 0>>} ELSE {Centre(c) : c \in Seen}>>
    /\ stage' = "cutting" /\ UNCHANGED <<texels, block, counts>>

Cuttable == {i \in DOMAIN boxes : Score(boxes[i]) > 0}
Best == Least({i \in Cuttable : \A j \in Cuttable : Score(boxes[j]) <= Score(boxes[i])})
\* std::sort leaves colours of one value in any order, so equal ones may be
\* cut apart: a left part ends where the pixels reach the half.
IsCut(box, left) ==
    /\ left # {} /\ left # box
    /\ \A c \in left, d \in box \ left : c[Axis(box)] <= d[Axis(box)]
    /\ LET half == Most({1, Total(box) \div 2}) IN
       /\ Total(left) >= half \/ Cardinality(box \ left) = 1
       /\ \E c \in left : /\ \A d \in left : d[Axis(box)] <= c[Axis(box)]
                          /\ Total(left \ {c}) < half
CutBox ==
    /\ stage = "cutting" /\ Len(boxes) < PaletteSize /\ Cuttable # {}
    /\ \E left \in SUBSET boxes[Best] :
          /\ IsCut(boxes[Best], left)
          /\ boxes' = Append([boxes EXCEPT ![Best] = left], boxes[Best] \ left)
    /\ UNCHANGED <<stage, texels, block, counts>>

FinishPalette ==
    /\ stage = "cutting" /\ (Len(boxes) = PaletteSize \/ Cuttable = {})
    /\ stage' = "palette" /\ UNCHANGED <<texels, block, counts, boxes>>

Average(box) ==
    [i \in 1 .. 3 |-> FoldSet(LAMBDA c, n : n + c[i] * Total({c}), 0, box) \div Most({1, Total(box)})]
\* What is left of the table repeats the last entry.
PaletteEntry(k) == Average(boxes[IF k <= Len(boxes) THEN k ELSE Len(boxes)])
PaletteMap(key) == NearestOf([k \in 1 .. PaletteSize |-> Distance(KeyCenter(key), PaletteEntry(k))])

PixelsNext == CompressBlock \/ Dxt1ToDxt5LumaAlpha \/ DecodeDxtMip
                 \/ StartPalette \/ CutBox \/ FinishPalette

-----------------------------------------------------------------------------

PixelsTypeOK ==
    /\ stage \in {"texels", "compressed", "block", "faded", "decoded", "image", "cutting", "palette"}
    /\ Len(boxes) <= PaletteSize

\* A block's alpha comes back within half a step, its extremes exactly, and
\* each texel gets the decoder's entry nearest to it.
BlockIsNear ==
    stage = "compressed" => \A s \in Spots :
        LET d == DecodeDxtTexel(block, s)
        IN  /\ Abs(d.a - texels[s].a) <= (block.a0 - block.a1) \div 14 + 1
            /\ texels[s].a \in {block.a0, block.a1} => d.a = texels[s].a
            /\ \A k \in 0 .. 3 :
                 Distance(d.rgb, texels[s].rgb) <= Distance(DecodedColours(block)[k], texels[s].rgb)
LightStays ==
    stage = "faded" => \A s \in Spots :
        /\ texels[s].a \in {0, 255} => DecodeDxtTexel(block, s).a = texels[s].a
        /\ texels[s].a = 0 => texels[s].rgb = <<0, 0, 0>>
OpaqueStays == stage = "decoded" /\ block.alphaDepth = 0 => \A s \in Spots : texels[s].a = 255
FewColoursStay ==
    stage = "palette" /\ Cardinality({Centre(c) : c \in Seen}) <= PaletteSize =>
        \A c \in Seen : PaletteEntry(PaletteMap(ColorKey(c))) = Centre(c)

(* What a picture loses on the way is what its format cannot hold.  A      *)
(* block's alpha comes back within half a step, its extremes exactly, also *)
(* where equal endpoints change the decoder's mode; each texel gets the    *)
(* decoder's entry nearest to it.  Black fades to nothing and light stays  *)
(* opaque when alpha is made from luminance.  A file without alpha decodes *)
(* opaque whatever the order of its endpoints (BlpTranscode.cpp:179-181).  *)
(* And an image of no more colours than the palette has entries keeps each *)
(* of them, to the five bits a pixel is counted by.                        *)
ColoursSurvive == PixelsTypeOK /\ BlockIsNear /\ LightStays /\ OpaqueStays /\ FewColoursStay

-----------------------------------------------------------------------------

(* A converted texture is the picture of its source: every level at its    *)
(* own size and place (BlpTranscode, Dds), every texel in the colour and   *)
(* alpha it had, as far as the format can hold them (Dxt, Quantize).       *)
PicturesSurvive == LevelsArePictures /\ ColoursSurvive

TextureSpec ==
    /\ FilesInit /\ PixelsInit
    /\ [][(FilesNext /\ UNCHANGED pixelVars) \/ (PixelsNext /\ UNCHANGED fileVars)]_<<fileVars, pixelVars>>
===============================================================================
