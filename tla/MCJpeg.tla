-------------------------------- MODULE MCJpeg --------------------------------
(***************************************************************************)
(* Instances of Jpeg for TLC: files an encoder writes, with the pictures   *)
(* it was given, and files that are damaged.                               *)
(***************************************************************************)
EXTENDS Jpeg, JpegReference, TLC

CONSTANT Sides   \* widths and heights of pictures

Sparse(values) == [k \in 0..63 |-> IF k \in DOMAIN values THEN values[k] ELSE 0]

Comp(id, h, v) == [id |-> id, h |-> h, v |-> v]
Grey == <<Comp(1, 1, 1)>>
Subsampled(h, v) == <<Comp(1, h, v), Comp(2, 1, 1), Comp(3, 1, 1)>>

OneScan(comps) == [comps |-> comps, ss |-> 0, se |-> 63, ah |-> 0, al |-> 0]
Band(comps, ss, se, ah, al) == [comps |-> comps, ss |-> ss, se |-> se, ah |-> ah, al |-> al]

\* The blocks of a picture, each chosen by its component and place.
WithBlocks(p, Block(_, _)) ==
  LET w(c) == McusAcross(p) * p.comps[c].h
      h(c) == McusDown(p) * p.comps[c].v
  IN p @@ [coefs |-> [c \in DOMAIN p.comps |->
             [b \in (0..(w(c)-1)) \X (0..(h(c)-1)) |-> Block(c, b)]]]

Base(width, height, comps) ==
  [width |-> width, height |-> height, comps |-> comps, progressive |-> FALSE,
   scans |-> <<OneScan([c \in DOMAIN comps |-> c])>>, interval |-> 0, shape |-> "mixed",
   apps |-> <<>>, fill |-> <<>>, tail |-> <<255, 217>>, colour |-> IF Len(comps) = 1 THEN "grey" ELSE "ycc"]

\* Blocks that try the entropy coder: long runs, the last coefficient, codes
\* and numbers short and long, samples outside 0..255.
HardBlocks ==
  <<Sparse(0 :> 10),
    Sparse((0 :> -20) @@ (1 :> 5) @@ (2 :> -1) @@ (63 :> 1)),
    Sparse((0 :> 3) @@ (17 :> -1) @@ (40 :> 2)),
    Sparse((5 :> -3) @@ (60 :> 7)),
    Sparse((0 :> 60) @@ (1 :> 30) @@ (3 :> -17)),
    Sparse((0 :> -70) @@ (1 :> 1) @@ (2 :> -2) @@ (3 :> 3) @@ (4 :> -4) @@ (6 :> 1) @@ (9 :> -1)),
    Sparse((33 :> 1) @@ (34 :> 1) @@ (62 :> -1)),
    [k \in 0..63 |-> IF k % 3 = 0 THEN 0 ELSE (k % 5) - 2]>>

\* Blocks that are nearly flat, of all sorts of levels, for the rows.
LevelBlocks ==
  [i \in 1..33 |-> Sparse((0 :> ((i % 11) - 5) * 9) @@ (1 :> (i % 3) - 1) @@ (2 :> ((i % 5) - 2) * 4))]

AllBlocks == HardBlocks \o LevelBlocks

SingleBlocks ==
  {WithBlocks([Base(8, 8, Grey) EXCEPT !.shape = s], LAMBDA c, b: i) :
     i \in 1..8, s \in {"flat", "mixed"}}
  \union {WithBlocks([Base(8, 8, Grey) EXCEPT !.shape = "skewed"], LAMBDA c, b: i) : i \in 1..6}

MixedBlock(c, b) == ((3*c + b[1] + 2*b[2]) % 8) + 1

\* Scans of one and of several components, with restarts.
EachScan(comps) == [i \in DOMAIN comps |-> OneScan(<<comps[i]>>)]
Intervals ==
  {WithBlocks([Base(17, 9, Subsampled(h, 1)) EXCEPT !.interval = n, !.scans = scans, 
                                                 !.fill = SubSeq(<<255, 255>>, 1, n - 1)],
              MixedBlock) :
     h \in {1, 2}, n \in 0..3, scans \in {<<OneScan(<<1, 2, 3>>)>>, EachScan(<<1, 3, 2>>),
                                         <<OneScan(<<2>>), OneScan(<<1, 3>>)>>}}

\* Progressive scans: bands, and one bit after the other.
Scripts(comps) ==
  LET each(ss, se, ah, al) == [i \in DOMAIN comps |-> Band(<<comps[i]>>, ss, se, ah, al)]
  IN {<<Band(comps, 0, 0, 0, 0)>> \o each(1, 63, 0, 0),
      <<Band(comps, 0, 0, 0, 1)>> \o each(1, 5, 0, 2) \o each(6, 63, 0, 2) \o each(1, 63, 2, 1)
        \o <<Band(comps, 0, 0, 1, 0)>> \o each(1, 63, 1, 0),
      each(0, 0, 0, 0) \o each(1, 20, 0, 1) \o each(1, 20, 1, 0) \o each(21, 63, 0, 0)}

Progressives ==
  {WithBlocks([Base(20, 8, Grey) EXCEPT !.progressive = TRUE, !.interval = n, !.scans = s, !.shape = sh],
              LAMBDA c, b: ((i + 2 * b[1]) % 8) + 1) :
     n \in {0, 2}, s \in Scripts(<<1>>), sh \in {"flat", "mixed"}, i \in 0..3}
  \union {WithBlocks([Base(9, 9, Subsampled(2, 2)) EXCEPT !.progressive = TRUE, !.scans = s], MixedBlock) :
            s \in Scripts(<<1, 2, 3>>)}

LevelBlock(c, b) == 9 + ((13*c + 29*b[1] + 17*b[2]) % 33)

Sampled ==
  {WithBlocks(Base(w, h, Subsampled(s[1], s[2])), LevelBlock) : w \in Sides, h \in Sides, s \in {<<1, 1>>, <<2, 1>>, <<1, 2>>, <<2, 2>>, <<4, 1>>}}
  \union {WithBlocks(Base(17, 5, <<Comp(1, 2, 1), Comp(2, 1, 2), Comp(3, 2, 2)>>), LevelBlock)}

Four == [c \in 1..4 |-> Comp(c, 1, 1)]
Colours ==
  LET Small(comps) == Base(9, 2, comps)
      rgbIds == <<Comp(82, 1, 1), Comp(71, 1, 1), Comp(66, 1, 1)>>
  IN {WithBlocks(p, LevelBlock) : p \in
       {[Small(rgbIds) EXCEPT !.colour = "rgb"],
        [Small(rgbIds) EXCEPT !.colour = "rgb", !.apps = JfifSegment],
        [Small(Subsampled(1, 1)) EXCEPT !.colour = "rgb", !.apps = AdobeSegment(0)],
        [Small(Subsampled(1, 1)) EXCEPT !.apps = AdobeSegment(1)],
        [Small(Subsampled(1, 1)) EXCEPT !.apps = JfifSegment \o AdobeSegment(0)],
        [Small(Four) EXCEPT !.colour = "cmyk", !.apps = AdobeSegment(0)],
        [Small(Four) EXCEPT !.colour = "ycck", !.apps = AdobeSegment(2)],
        [Small(Four) EXCEPT !.apps = AdobeSegment(1)],
        Small(Grey)}}

\* What may stand between segments: comments, padding before the frame, bytes
\* after a scan, fill bytes, a restart, the height again.
Comment == WithLength(254, <<1, 255, 217>>)
Surroundings ==
  {WithBlocks([Base(9, 2, Grey) EXCEPT !.apps = a, !.tail = t, !.scans = <<OneScan(<<1>>)>>], LevelBlock) :
     a \in {<<>>, Comment, JfifSegment \o <<0, 7>>, AdobeSegment(1) \o <<255>>},
     t \in {<<255, 217>>, <<255, 255, 217>>, <<0, 9, 255, 0, 3, 255, 217>>, <<255, 208, 255, 217>>,
            <<255, 220, 0, 4, 0, 2, 255, 217>>, Comment \o <<255, 217>>}}

JpegPictures ==
  SingleBlocks \union Intervals \union Progressives \union Sampled \union Colours
  \union Surroundings

PictureBytes(p) == JpegBytes(p) \o p.tail

\* Files that are not what an encoder writes.
Dot8 == WithBlocks(Base(1, 1, Grey), LevelBlock)
Damaged ==
  LET whole == PictureBytes(Dot8)
      Start == <<255, 216>>
      Sof(h, w, comps) == WithLength(192, <<8>> \o SixteenBits(h) \o SixteenBits(w)
                            \o <<Len(comps) \div 3>> \o comps)
  IN {Start \o s : s \in {<<>>, <<255, 217>>, Comment \o <<0, 0>>, WithLength(221, <<0>>),
        WithLength(219, <<32>>), WithLength(219, <<4>>), WithLength(196, <<32>>),
        WithLength(196, <<0, 3>> \o [i \in 1..15 |-> 0]), <<255, 254, 0, 1>>,
        Sof(0, 1, <<1, 17, 0>>), Sof(1, 0, <<1, 17, 0>>), Sof(1, 1, <<1, 17, 0, 2, 17, 0>>),
        Sof(1, 1, <<1, 80, 0>>), Sof(1, 1, <<1, 17, 4>>),
        Sof(1, 1, <<1, 33, 0, 2, 49, 0, 3, 17, 0>>), Sof(1, 1, <<1, 17, 0>>) \o WithLength(218, <<2>>),
        Sof(1, 1, <<1, 17, 0>>) \o WithLength(218, <<1, 9, 0, 0, 63, 0>>),
        Sof(1, 1, <<1, 17, 0>>) \o <<255, 220, 0, 4, 0, 7>>,
        Sof(1, 1, <<1, 17, 0>>) \o <<255, 217>>}}
     \union {<<>>, <<1, 2>>}
     \union {SubSeq(whole, 1, n) : n \in 1..(Len(whole) - 1)}

AllJpegFiles ==
  LET whole == {[bytes |-> PictureBytes(p), picture |-> p] : p \in JpegPictures}
      damaged == {[bytes |-> b, picture |-> <<>>] : b \in Damaged}
  IN whole \union damaged

-----------------------------------------------------------------------------
Source == jpeg.picture

\* However a picture was coded (in one scan or many, in bands and bit by bit,
\* with restarts, with codes of any length), every sample of its planes is
\* within one of the inverse cosine transform of the coefficients.
ScansDecode ==
  phase \in {"failed", "rows"} /\ pixels = <<>> /\ Source # <<>> =>
    /\ phase = "rows"
    /\ \A c \in DOMAIN frame.comps :
         \A b \in (0..(BlocksX(frame, c) - 1)) \X (0..(BlocksY(frame, c) - 1)) :
           LET ideal == IdealSamples(Coefficients(Source, c, b), c)
               samples == plane[c][b]
           IN /\ samples # Unwritten
              /\ \A i \in 1..64 :
                   Magnitude(64 * samples[i-1] - Larger(0, Smaller(255 * 64, ideal[i]))) <= 64

\* The colour a picture shows at <<x, y>>, from the samples of its planes.
Shows(x, y, pixel) ==
  LET S(c) == Upsampled(Source, c, x, y, LAMBDA i, j: plane[c][<<i \div 8, j \div 8>>][8 * (j % 8) + (i % 8)])
      grey == 1000 * S(1)
      rgb == IdealRgb(S(1), S(2), S(3))
      Limited(i) == Larger(0, Smaller(255000, rgb[i]))
      Black(v) == (v * S(4)) \div 255
      want == CASE Source.colour = "grey" -> <<grey, grey, grey>>
                [] Source.colour = "rgb" -> <<1000 * S(1), 1000 * S(2), 1000 * S(3)>>
                [] Source.colour = "ycc" -> rgb
                [] Source.colour = "cmyk" -> <<Black(1000*S(1)), Black(1000*S(2)), Black(1000*S(3))>>
                [] OTHER -> [i \in 1..3 |-> Black(255000 - Limited(i))]
  IN pixel # Unwritten /\ \A i \in 1..3 : Close(pixel[i], want[i])

\* The one sample that is not taken nearer to its own neighbour: the last but
\* one of a row that is made twice as wide but not higher.
TakenFromBefore(x) ==
  \E c \in DOMAIN Source.comps :
    /\ MostH(Source) = 2 * Source.comps[c].h /\ MostV(Source) = Source.comps[c].v
    /\ LineLength(Source, c) > 1 /\ x = 2 * LineLength(Source, c) - 2

\* Every pixel of the image is the colour of the planes at its place: samples
\* interpolated between the nearest, lines in step with each other to the last,
\* and converted as the components' names and the APP segments say.
RowsShown ==
  phase = "done" =>
    /\ announced = <<frame.width, frame.height>>
    /\ Len(pixels) = frame.height
    /\ Source # <<>> =>
         \A y \in 1..frame.height : \A x \in 1..frame.width :
           TakenFromBefore(x - 1) \/ Shows(x - 1, y - 1, pixels[y][x])
=============================================================================
