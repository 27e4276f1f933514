-------------------------------- MODULE MCPng --------------------------------
(***************************************************************************)
(* Instances of Png for TLC: compressed streams, pictures and orders of    *)
(* chunks, with what an encoder meant by them.                             *)
(***************************************************************************)
EXTENDS Png, PngReference

CONSTANTS MaxChunks, PictureSizes

Chunk(type) == [type |-> type]
HeaderChunk(h) == [type |-> "IHDR", header |-> h]
Header(w, h, depth, color, interlace) ==
  [width |-> w, height |-> h, depth |-> depth, color |-> color, interlace |-> interlace]
PaletteChunk(entries) == [type |-> "PLTE", size |-> 3 * Len(entries), entries |-> entries]
DataChunk(bytes) == [type |-> "IDAT", data |-> bytes]

\* A file also says what it was made from.
File(chunks, source) == [chunks |-> chunks, cut |-> FALSE, source |-> source]

-----------------------------------------------------------------------------
(* Compressed streams                                                        *)

Lit(b) == <<b>>
StoredBlock(bytes) == [type |-> "stored", bytes |-> bytes]
FixedBlock(tokens) == [type |-> "fixed", tokens |-> tokens]
DynamicBlock(literal, distance, tokens) ==
  [type |-> "dynamic", tokens |-> tokens, lengths |-> literal, distances |-> distance]

\* Codes on both sides of FastBits, complete and not.
SmallLengths == {(0 :> 1) @@ (7 :> 3) @@ (256 :> 3) @@ (257 :> 4) @@ (266 :> 4),
                 (0 :> 4) @@ (7 :> 4) @@ (256 :> 2) @@ (257 :> 2) @@ (266 :> 5),
                 (0 :> 6) @@ (7 :> 6) @@ (256 :> 6) @@ (257 :> 7) @@ (266 :> 2)}
SmallDistances == {(0 :> 1) @@ (1 :> 1), (0 :> 5) @@ (1 :> 2) @@ (4 :> 5)}
SmallTokens == {<<Lit(0), Lit(7), <<257, 0, 1, 0>>, Lit(7)>>, <<Lit(0), <<266, 1, 0, 0>>, Lit(7)>>}

Streams ==
  {<<StoredBlock(<<0, 9>>), StoredBlock(<<>>), StoredBlock(<<8>>)>>,
   <<FixedBlock(<<Lit(0), Lit(200)>>), StoredBlock(<<3>>), FixedBlock(<<Lit(5), <<257, 0, 3, 0>>>>)>>,
   <<FixedBlock(<<Lit(0), Lit(143), Lit(144), Lit(255), <<285, 0, 0, 0>>, <<270, 3, 5, 0>>>>)>>,
   <<FixedBlock(<<Lit(1), Lit(2), Lit(3), <<280, 9, 1, 0>>, <<259, 0, 10, 5>>>>)>>}
  \union {<<DynamicBlock(l, d, t)>> : l \in SmallLengths, d \in SmallDistances, t \in SmallTokens}

\* The file of a picture one row high that is as wide as the stream is long.
StreamFile(blocks, bytes, kind) ==
  File(<<HeaderChunk(Header(Len(Inflated(blocks)) - 1, 1, 8, 0, 0)),
         DataChunk(bytes), Chunk("IEND")>>,
       [kind |-> kind, blocks |-> blocks])

\* The streams, and all their beginnings.
StreamFiles ==
  UNION {LET bytes == Deflated(blocks)
         IN {StreamFile(blocks, bytes, "stream")} \union
            {StreamFile(blocks, Take(bytes, n), "cut") : n \in 0..(Len(bytes)-1)} :
           blocks \in Streams}

-----------------------------------------------------------------------------
(* Pictures                                                                  *)

Colors == <<<<9, 8, 7>>, <<1, 2, 3>>, <<0, 0, 255>>, <<200, 100, 50>>>>

\* The samples of a picture: given for a square of four, mixed for the others.
GivenSample(p) ==
  LET h == p.header
  IN [at \in (0..(h.width-1)) \X (0..(h.height-1)) \X (0..(SamplesPerPixel(h.color)-1)) |->
        LET v == (at[1]*at[1]*31 + at[2]*47 + at[3]*11 + at[1]*at[2]*71 + 5) * 37
        IN IF p.square # <<>> THEN p.square[2*at[2] + at[1] + 1]
           ELSE IF h.color = 3 THEN (v % 4) % 2^h.depth ELSE v % 2^h.depth]

\* The filter of row r is chosen by a number: its digits in base five.
FilterOf(n) == [r \in 1..9 |-> (n \div 5^((r-1) % 3)) % 5]

Pictures ==
  [header : {Header(4, 3, depth, 0, i) : depth \in {1, 2, 4, 8, 16}, i \in {0, 1}}
        \union {Header(4, 3, depth, 3, i) : depth \in {1, 2, 4, 8}, i \in {0, 1}}
        \union {Header(4, 3, depth, color, i) : color \in {2, 4, 6}, depth \in {8, 16}, i \in {0, 1}},
   filters : {14}, square : {<<>>}]
  \union [header : {Header(2, 3, 8, 2, 0)}, filters : 0..124, square : {<<>>}]
  \union [header : {Header(w, h, 8, 0, 1) : w \in PictureSizes, h \in PictureSizes}, filters : {44},
          square : {<<>>}]
  \union [header : {Header(2, 2, 8, 0, 0)}, filters : {20},
          square : [1..4 -> {4, 8, 10}]]

RawBytes(p) ==
  LET filter == FilterOf(p.filters)
  IN Filtered(p.header, GivenSample(p), LAMBDA r: filter[r])

PictureFile(p) ==
  LET bytes == Deflated(<<StoredBlock(RawBytes(p))>>)
  IN File(<<HeaderChunk(p.header)>>
           \o (IF p.header.color = 3 THEN <<PaletteChunk(Colors)>> ELSE <<>>)
           \o <<DataChunk(bytes), Chunk("IEND")>>,
          [kind |-> "picture", picture |-> p])

-----------------------------------------------------------------------------
(* Orders of chunks                                                          *)

Dot == Deflated(<<StoredBlock(<<0, 1>>)>>)
Halves == {DataChunk(SubSeq(Dot, 1, 5)), DataChunk(SubSeq(Dot, 6, Len(Dot)))}

OrderChunks ==
  {HeaderChunk(Header(w, 1, 8, 0, 0)) : w \in {1, 2}} \union
  {HeaderChunk(Header(1, 1, 8, 3, 0)), PaletteChunk(Colors), [type |-> "tRNS", size |-> 2],
   DataChunk(Dot), Chunk("IEND"), Chunk("ancillary"), Chunk("critical"), Chunk("CgBI")}

Orders ==
  {<<c>> \o s : c \in {d \in OrderChunks : d.type \in {"IHDR", "CgBI", "PLTE"}},
                s \in UNION {[1..n -> OrderChunks] : n \in 1..(MaxChunks-1)}}

OrderFiles ==
  {[chunks |-> s, cut |-> cut, source |-> [kind |-> "order"]] : s \in Orders, cut \in BOOLEAN}
  \union {File(<<HeaderChunk(Header(1, 1, 8, 0, 0))>> \o s \o <<Chunk("IEND")>>,
               [kind |-> "order"]) :
            s \in UNION {[1..n -> Halves \union {Chunk("ancillary")}] : n \in 1..3}}

AllFiles ==
  LET pictures == {PictureFile(p) : p \in Pictures}
  IN StreamFiles \union pictures \union OrderFiles

-----------------------------------------------------------------------------
Ended == reading \in {"done", "failed"}

\* A stream is inflated to the bytes the compressor was given.
StreamsDecode ==
  Ended /\ file.source.kind = "stream" =>
    stage = "accepted" /\ zout = Inflated(file.source.blocks)

\* A picture is decoded to what the specification says it shows, whatever its
\* depth, colour type, filters and interlacing, and every pixel of it is set.
PicturesDecode ==
  Ended /\ file.source.kind = "picture" =>
    LET p == file.source.picture
    IN reading = "done" /\ image = Shown(p.header, GivenSample(p), Colors)

DataOf(chunks) ==
  LET data == SelectSeq(chunks, LAMBDA c: c.type = "IDAT")
  IN FlattenSeq([i \in DOMAIN data |-> data[i].data])

\* The order of chunks the specification asks for, as far as it matters here:
\* one header, first; a palette before the data that needs it; transparency
\* between them; data, which may be split anywhere but not reordered; and
\* nothing critical the decoder does not know.
WellFormed(chunks) ==
  \E last \in DOMAIN chunks :
    LET Before(type, n) == \E i \in 1..(n-1) : chunks[i].type = type
        indexed == chunks[1].header.color = 3
    IN /\ chunks[last].type = "IEND" /\ ~Before("IEND", last)
       /\ chunks[1].type = "IHDR" /\ Before("IDAT", last)
       /\ \A i \in 2..(last-1) :
            CASE chunks[i].type = "IDAT" -> indexed => Before("PLTE", i)
              [] chunks[i].type = "tRNS" -> ~Before("IDAT", i) /\ (indexed => Before("PLTE", i))
              [] OTHER -> chunks[i].type \in {"PLTE", "ancillary"}
       /\ chunks[1].header.width = 1
       /\ Take(DataOf(SubSeq(chunks, 1, last)), Len(Dot)) = Dot

\* A file is decoded if and only if its chunks are in order, even if the file
\* ends right after the type of its last chunk.
OrdersAccepted ==
  Ended /\ file.source.kind = "order" => ((reading = "done") <=> WellFormed(file.chunks))

\* The size stbi_info announced, from the first chunks only, is the size of
\* the picture stbi_load returns: what the tool's limit on pixels relies on.
InfoAgrees == reading = "done" => info = <<png.header.width, png.header.height>>
=============================================================================
