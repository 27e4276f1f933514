----------------------------- MODULE PngReference -----------------------------
(***************************************************************************)
(* What a PNG encoder writes, from the formats' definitions (RFC 1951 and  *)
(* the PNG specification) and not from the decoder: the reference the      *)
(* decoder of module Png is checked against.                               *)
(***************************************************************************)
EXTENDS Loops, SequencesExt, FiniteSets

-----------------------------------------------------------------------------
(* RFC 1951.  A block is a record: "stored" bytes, or tokens in the "fixed"  *)
(* code or in the code given by two size lists.  A token is <<literal>> or   *)
(* <<length symbol, extra bits, distance symbol, extra bits>>.               *)

\* The code of a symbol is where its codes begin: the space the shorter codes
\* take, and the codes of the same length before it.
CanonicalCode(sizes, s) ==
  LET Space(n) == Cardinality({t \in DOMAIN sizes : sizes[t] = n}) * 2^(sizes[s] - n)
      before == Cardinality({t \in DOMAIN sizes : sizes[t] = sizes[s] /\ t < s})
  IN BitsFromHigh(sizes[s],
       Loop(sizes[s] - 1, before, LAMBDA sum, n: sum + Space(n)))

FixedLengths == [s \in 0..287 |-> IF s \in 0..143 \union 280..287 THEN 8
                                 ELSE IF s \in 144..255 THEN 9 ELSE 7]
FixedDistances == [s \in 0..31 |-> 5]

\* How many extra bits a length or a distance symbol has, and its base.
ExtraOfLength(s) == IF s < 265 \/ s = 285 THEN 0 ELSE (s - 261) \div 4
BaseOfLength(s) ==
  IF s = 285 THEN 258
  ELSE Loop(s - 257, 3, LAMBDA n, i: n + 2^ExtraOfLength(256 + i))
ExtraOfDistance(s) == IF s < 4 THEN 0 ELSE (s - 2) \div 2
BaseOfDistance(s) ==
  Loop(s, 1, LAMBDA n, i: n + 2^ExtraOfDistance(i - 1))

TokenBits(lengths, distances, token) ==
  CanonicalCode(lengths, token[1]) \o
  IF Len(token) = 1 THEN <<>>
  ELSE BitsFromLow(ExtraOfLength(token[1]), token[2]) \o CanonicalCode(distances, token[3])
       \o BitsFromLow(ExtraOfDistance(token[3]), token[4])

TokensBits(lengths, distances, tokens) ==
  FlattenSeq([i \in DOMAIN tokens |-> TokenBits(lengths, distances, tokens[i])])
  \o CanonicalCode(lengths, 256)

\* The head of a dynamic block, its code lengths written in runs.  Every
\* symbol of the code for code lengths is given a code of five bits.
RunBits(run) ==   \* <<symbol, extra bits, their value, length of the run>>
  BitsFromHigh(5, run[1]) \o BitsFromLow(run[2], run[3])

Runs(sizes, first, last) ==
  LET At(s) == IF s \in DOMAIN sizes THEN sizes[s] ELSE 0
      Same(s) == CHOOSE n \in 1..(last - s + 1) :
                   /\ \A t \in s..(s + n - 1) : At(t) = At(s)
                   /\ s + n > last \/ At(s + n) # At(s)
      Run(s, n) ==
        CASE At(s) = 0 /\ n >= 11 -> <<18, 7, Smaller(n, 138) - 11, Smaller(n, 138)>>
          [] At(s) = 0 /\ n \in 3..10 -> <<17, 3, n - 3, n>>
          [] s > first /\ At(s) = At(s-1) /\ n >= 3 -> <<16, 2, Smaller(n, 6) - 3, Smaller(n, 6)>>
          [] OTHER -> <<At(s), 0, 0, 1>>
      from[s \in first..(last+1)] ==
        IF s > last THEN <<>>
        ELSE LET run == Run(s, Same(s)) IN <<run>> \o from[s + run[4]]
  IN from[first]

DynamicHead(lengths, distances) ==
  LET runs == Runs(lengths, 0, 285) \o Runs(distances, 0, 29)
  IN BitsFromLow(5, 286 - 257) \o BitsFromLow(5, 30 - 1) \o BitsFromLow(4, 19 - 4)
     \o FlattenSeq([i \in 1..19 |-> BitsFromLow(3, 5)])
     \o FlattenSeq([i \in DOMAIN runs |-> RunBits(runs[i])])

Bytes(bits) ==
  LET whole == Padded(bits)
  IN [i \in 1..(Len(whole) \div 8) |-> LowestFirst(SubSeq(whole, 8*i - 7, 8*i))]

\* The stream of some blocks, after the zlib header of the usual compressor.
Deflated(blocks) ==
  LET AddBlock(bits, i) ==
        LET block == blocks[i]
            last == BitsFromLow(1, IF i = Len(blocks) THEN 1 ELSE 0)
            head(type) == bits \o last \o BitsFromLow(2, type)
        IN CASE block.type = "stored" ->
                  Padded(head(0)) \o BitsFromLow(16, Len(block.bytes))
                  \o BitsFromLow(16, 65535 - Len(block.bytes))
                  \o BytesFromLow(block.bytes)
             [] block.type = "fixed" ->
                  head(1) \o TokensBits(FixedLengths, FixedDistances, block.tokens)
             [] block.type = "dynamic" ->
                  head(2) \o DynamicHead(block.lengths, block.distances)
                  \o TokensBits(block.lengths, block.distances, block.tokens)
  IN <<120, 1>> \o Bytes(Loop(Len(blocks), <<>>, AddBlock))

\* The bytes some blocks stand for.  A match repeats the last bytes written.
Inflated(blocks) ==
  LET Expand(out, token) ==
        IF Len(token) = 1 THEN Append(out, token[1])
        ELSE LET back == BaseOfDistance(token[3]) + token[4]
             IN out \o [k \in 1..(BaseOfLength(token[1]) + token[2]) |->
                          out[Len(out) - back + 1 + ((k - 1) % back)]]
      Block(out, i) ==
        IF blocks[i].type = "stored" THEN out \o blocks[i].bytes
        ELSE LET tokens == blocks[i].tokens
             IN Loop(Len(tokens), out, LAMBDA o, k: Expand(o, tokens[k]))
  IN Loop(Len(blocks), <<>>, Block)

-----------------------------------------------------------------------------
(* The PNG specification.  A picture is a header and a value for every       *)
(* sample (x, y, channel) of it.                                             *)

SamplesPerPixel(color) == CASE color \in {0, 3} -> 1 [] color = 4 -> 2
                            [] color = 2 -> 3 [] color = 6 -> 4

Abs(n) == IF n < 0 THEN -n ELSE n

PaethPredictor(a, b, c) ==
  LET p == a + b - c
      pa == Abs(p - a)
      pb == Abs(p - b)
      pc == Abs(p - c)
  IN IF pa <= pb /\ pa <= pc THEN a ELSE IF pb <= pc THEN b ELSE c

FilteredByte(type, x, a, b, c) ==
  (x - (CASE type = 0 -> 0 [] type = 1 -> a [] type = 2 -> b
          [] type = 3 -> (a + b) \div 2 [] type = 4 -> PaethPredictor(a, b, c))) % 256

\* The passes of an interlaced picture: which pixel of a square of eight
\* by eight belongs to which.
Adam7 == << <<1,6,4,6,2,6,4,6>>, <<7,7,7,7,7,7,7,7>>, <<5,6,5,6,5,6,5,6>>, <<7,7,7,7,7,7,7,7>>,
            <<3,6,4,6,3,6,4,6>>, <<7,7,7,7,7,7,7,7>>, <<5,6,5,6,5,6,5,6>>, <<7,7,7,7,7,7,7,7>> >>

\* The rows of a pass, each the sequence of the pixels in it.
PassRows(h, p) ==
  LET In(x, y) == p = 0 \/ Adam7[(y % 8) + 1][(x % 8) + 1] = p
      Row(y) == SelectSeq([i \in 1..h.width |-> <<i-1, y>>], LAMBDA at: In(at[1], at[2]))
  IN SelectSeq([j \in 1..h.height |-> Row(j-1)], LAMBDA row: row # <<>>)

\* The bytes of a row: samples packed with the first in the high bits.
PackedRow(h, value, row) ==
  LET n == SamplesPerPixel(h.color)
      bits == FlattenSeq([k \in 1..(n * Len(row)) |->
                BitsFromHigh(h.depth, value[<<row[(k-1) \div n + 1][1], row[(k-1) \div n + 1][2], (k-1) % n>>])])
      whole == Padded(bits)
  IN [i \in 1..(Len(whole) \div 8) |-> HighestFirst(SubSeq(whole, 8*i - 7, 8*i))]

\* The picture's bytes before compression, row r of a pass with filter Type(r).
Filtered(h, value, Type(_)) ==
  LET distance == IF h.depth < 8 THEN 1 ELSE (SamplesPerPixel(h.color) * h.depth) \div 8
      PassBytes(p) ==
        LET pixels == PassRows(h, p)
            rows == Loop(Len(pixels), <<>>,
                         LAMBDA done, r: Append(done, PackedRow(h, value, pixels[r])))
            At(r, k) == IF r = 0 \/ k < 1 THEN 0 ELSE rows[r][k]
        IN FlattenSeq([r \in DOMAIN rows |->
             <<Type(r)>> \o [k \in DOMAIN rows[r] |->
               FilteredByte(Type(r), rows[r][k], At(r, k - distance), At(r - 1, k),
                            At(r - 1, k - distance))]])
  IN IF h.interlace = 0 THEN PassBytes(0) ELSE FlattenSeq([p \in 1..7 |-> PassBytes(p)])

\* What a viewer without alpha shows of the picture, in eight bits.
Shown(h, value, palette) ==
  LET Level(v) == IF h.depth = 16 THEN v \div 256 ELSE (v * 255) \div (2^h.depth - 1)
  IN [at \in (0..(h.width-1)) \X (0..(h.height-1)) |->
        LET V(c) == value[<<at[1], at[2], c>>]
        IN CASE h.color = 3 -> palette[V(0) + 1]
             [] h.color \in {0, 4} -> <<Level(V(0)), Level(V(0)), Level(V(0))>>
             [] h.color \in {2, 6} -> <<Level(V(0)), Level(V(1)), Level(V(2))>>]
=============================================================================
