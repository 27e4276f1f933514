---------------------------- MODULE JpegReference ----------------------------
(***************************************************************************)
(* What a JPEG encoder writes and what it means, from the format's         *)
(* definition (ITU-T T.81, JFIF) and not from the decoder.                 *)
(*                                                                         *)
(* A picture gives its width, height and components (id, h, v); for each   *)
(* component and block the number of its coefficients among CodedBlocks;   *)
(* the scans that send them, as [comps, ss, se, ah, al]; the restart       *)
(* interval; the shape of the Huffman codes; and the APP segments.         *)
(***************************************************************************)
EXTENDS Loops, SequencesExt, FiniteSets

CONSTANT CodedBlocks   \* blocks of 64 coefficients, from 0, in zigzag order

Coefficients(p, c, b) == CodedBlocks[p.coefs[c][b]]

Magnitude(v) == IF v < 0 THEN -v ELSE v

\* Along the diagonals, up and down in turn
ZigzagPlaces ==
  LET Diagonal(s) ==
        LET down == [i \in 1..(s + 1) |-> <<i - 1, s - i + 1>>]
            inside == SelectSeq(down, LAMBDA at: at[1] <= 7 /\ at[2] <= 7)
        IN IF s % 2 = 1 THEN inside ELSE Reverse(inside)
      all == Joined([s \in 1..15 |-> Diagonal(s - 1)])
  IN [k \in 0..63 |-> 8 * all[k+1][1] + all[k+1][2]]

Quant(c, k) == 16 + ((k * 5 + c) % 7)

-----------------------------------------------------------------------------
(* Entropy coding.  A token is a symbol of a table and the bits after it, or *)
(* only bits, with symbol -1.  Component c uses the tables c mod 2; the       *)
(* tables are numbered 1 and 2 for DC (class 0), 3 and 4 for AC (class 1).   *)

Token(class, c, symbol, bits) == [table |-> 2 * class + (c % 2) + 1, symbol |-> symbol, bits |-> bits]

Category(v) == CHOOSE n \in 0..15 : Magnitude(v) < 2^n /\ (n > 0 => Magnitude(v) >= 2^(n-1))
NumberBits(v) ==
  BitsFromHigh(Category(v), IF v > 0 THEN v ELSE v + 2^Category(v) - 1)

\* The end-of-band run so far is sent, with the corrections that belong to it.
Flush(s, c) ==
  LET n == CHOOSE n \in 0..14 : s.eobs >= 2^n /\ s.eobs < 2^(n+1)
  IN IF s.eobs = 0 THEN s
     ELSE [s EXCEPT !.eobs = 0, !.waiting = <<>>, !.out = Append(@,
             Token(1, c, 16 * n, BitsFromHigh(n, s.eobs - 2^n) \o s.waiting))]

EncodeDc(s, scan, c, block) ==
  LET v == block[0] \div 2^scan.al
  IN IF scan.ah > 0 THEN [s EXCEPT !.out = Append(@, Token(0, c, -1, <<v % 2>>))]
     ELSE [s EXCEPT !.pred[c] = v, !.out = Append(@,
             Token(0, c, Category(v - s.pred[c]), NumberBits(v - s.pred[c])))]

Reduced(v, al) == IF v < 0 THEN -(Magnitude(v) \div 2^al) ELSE v \div 2^al

\* Sixteen zeros at a time, each time with the corrections among them.
LongRuns(s, c) ==
  IF s.run < 16 THEN s
  ELSE Loop(s.run \div 16, Flush(s, c), LAMBDA y, i:
         [y EXCEPT !.run = @ - 16, !.fixes = <<>>, !.out = Append(@, Token(1, c, 240, y.fixes))])

EncodeAcFirst(s0, scan, c, block, progressive) ==
  LET first == Larger(scan.ss, 1)
      Sent(s, v) == [s EXCEPT !.run = 0, !.out = Append(@,
                      Token(1, c, 16 * s.run + Category(v), NumberBits(v)))]
      Turn(s, i) ==
        LET v == Reduced(block[first + i - 1], scan.al)
        IN IF v = 0 THEN [s EXCEPT !.run = @ + 1]
           ELSE IF s.run < 16 THEN Sent(Flush(s, c), v) ELSE Sent(LongRuns(s, c), v)
      end == Loop(scan.se - first + 1, [s0 EXCEPT !.run = 0], Turn)
  IN IF end.run = 0 THEN end
     ELSE IF progressive THEN [end EXCEPT !.eobs = @ + 1]
     ELSE [end EXCEPT !.out = Append(@, Token(1, c, 0, <<>>))]

\* A coefficient that becomes one is sent; one that was sent before gets its
\* next bit, which travels with the next symbol.
EncodeAcRefine(s0, scan, c, block) ==
  LET m(k) == Magnitude(block[k]) \div 2^scan.al
      lastNew == Loop(scan.se - scan.ss + 1, 0, LAMBDA e, i:
                   IF m(scan.ss + i - 1) = 1 THEN scan.ss + i - 1 ELSE e)
      Sent(s, k) == [s EXCEPT !.run = 0, !.fixes = <<>>, !.out = Append(@,
                      Token(1, c, 16 * s.run + 1, <<IF block[k] > 0 THEN 1 ELSE 0>> \o s.fixes))]
      Coded(s, k) == IF m(k) > 1 THEN [s EXCEPT !.fixes = Append(@, m(k) % 2)]
                     ELSE Sent(Flush(s, c), k)
      Turn(s, i) ==
        LET k == scan.ss + i - 1
        IN IF m(k) = 0 THEN [s EXCEPT !.run = @ + 1]
           ELSE IF s.run < 16 \/ k > lastNew THEN Coded(s, k) ELSE Coded(LongRuns(s, c), k)
      end == Loop(scan.se - scan.ss + 1, [s0 EXCEPT !.run = 0, !.fixes = <<>>], Turn)
  IN IF end.run = 0 /\ end.fixes = <<>> THEN end
     ELSE [end EXCEPT !.eobs = @ + 1, !.waiting = @ \o end.fixes, !.fixes = <<>>]

EncodeBlock(s, p, scan, c, block) ==
  LET dc == IF scan.ss = 0 THEN EncodeDc(s, scan, c, block) ELSE s
  IN IF scan.se = 0 THEN dc
     ELSE IF scan.ah = 0 THEN EncodeAcFirst(dc, scan, c, block, p.progressive)
     ELSE EncodeAcRefine(dc, scan, c, block)

-----------------------------------------------------------------------------
(* The order of blocks                                                       *)

Most(p, Factor(_)) == CHOOSE m \in 1..4 :
  /\ \E c \in DOMAIN p.comps : Factor(c) = m
  /\ \A c \in DOMAIN p.comps : Factor(c) <= m
MostH(p) == Most(p, LAMBDA c: p.comps[c].h)
MostV(p) == Most(p, LAMBDA c: p.comps[c].v)
Upwards(a, b) == (a + b - 1) \div b
McusAcross(p) == Upwards(p.width, 8 * MostH(p))
McusDown(p) == Upwards(p.height, 8 * MostV(p))
LineLength(p, c) == Upwards(p.width * p.comps[c].h, MostH(p))
LineCount(p, c) == Upwards(p.height * p.comps[c].v, MostV(p))

\* The blocks of each coded unit of a scan
UnitsOf(p, scan) ==
  LET Across(c) == Upwards(LineLength(p, c), 8)
      Down(c) == Upwards(LineCount(p, c), 8)
      Group(c, i, j) == [k \in 1..(p.comps[c].h * p.comps[c].v) |->
        <<c, <<i * p.comps[c].h + ((k-1) % p.comps[c].h), j * p.comps[c].v + ((k-1) \div p.comps[c].h)>>>>]
      w == McusAcross(p)
      c1 == scan.comps[1]
  IN IF Len(scan.comps) = 1
     THEN [n \in 1..(Across(c1) * Down(c1)) |->
             <<<<c1, <<(n-1) % Across(c1), (n-1) \div Across(c1)>>>>>>]
     ELSE [n \in 1..(w * McusDown(p)) |->
             Joined([i \in DOMAIN scan.comps |-> Group(scan.comps[i], (n-1) % w, (n-1) \div w)])]

\* The tokens between two restarts
IntervalTokens(p, scan, units) ==
  LET blocks == Joined(units)
      start == [out |-> <<>>, pred |-> [c \in DOMAIN p.comps |-> 0], run |-> 0, eobs |-> 0,
                waiting |-> <<>>, fixes |-> <<>>]
      Block(s, i) == EncodeBlock(s, p, scan, blocks[i][1], Coefficients(p, blocks[i][1], blocks[i][2]))
      \* a run is sent before it becomes too long
      end == Loop(Len(blocks), start, LAMBDA s, i:
               IF s.eobs < 32767 THEN Block(s, i) ELSE Block(Flush(s, blocks[i][1]), i))
  IN Flush(end, scan.comps[1]).out

ScanTokens(p, scan) ==
  LET units == UnitsOf(p, scan)
      n == IF p.interval = 0 THEN Len(units) ELSE p.interval
  IN Loop(Upwards(Len(units), n), <<>>, LAMBDA out, i: Append(out,
       IntervalTokens(p, scan, SubSeq(units, (i-1) * n + 1, Smaller(i * n, Len(units))))))

-----------------------------------------------------------------------------
(* Codes, segments and files                                                 *)

\* The code of the i-th of n symbols: all of one length, which leaves the code
\* of ones unused; each longer than the one before; or three short ones.
CodeWord(shape, n, i) ==
  LET l == CHOOSE l \in 1..8 : 2^l > n /\ 2^(l-1) <= n
  IN CASE shape = "flat" -> <<l, i - 1>>
       [] shape = "skewed" -> <<i, 2^i - 2>>
       [] shape = "mixed" -> IF i <= 3 THEN <<2, i - 1>> ELSE <<l + 2, 3 * 2^l + i - 4>>

\* The elements of a set, each once.
Listed(S) ==
  Loop(Cardinality(S), <<>>, LAMBDA out, i:
    Append(out, CHOOSE x \in S : \A k \in DOMAIN out : out[k] # x))

SymbolsOf(tokens, table) ==
  Listed({tokens[i].symbol : i \in {i \in DOMAIN tokens :
            tokens[i].table = table /\ tokens[i].symbol >= 0}})

SixteenBits(n) == <<n \div 256, n % 256>>
WithLength(marker, body) == <<255, marker>> \o SixteenBits(Len(body) + 2) \o body

HuffmanSegment(p, table, symbols) ==
  LET n == Len(symbols)
      OfLength(l) == Cardinality({i \in 1..n : CodeWord(p.shape, n, i)[1] = l})
  IN IF n = 0 THEN <<>>
     ELSE WithLength(196, <<16 * ((table - 1) \div 2) + ((table - 1) % 2)>> \o [l \in 1..16 |-> OfLength(l)] \o symbols)

TokenCode(p, symbols, token) ==
  LET i == CHOOSE i \in DOMAIN symbols : symbols[i] = token.symbol
      word == CodeWord(p.shape, Len(symbols), i)
  IN IF token.symbol < 0 THEN token.bits ELSE BitsFromHigh(word[1], word[2]) \o token.bits

\* Bits filled up with ones, in bytes; after a byte of ones a byte of zeros.
StuffedBytes(bits) ==
  LET filled == bits \o [i \in 1..((8 - (Len(bits) % 8)) % 8) |-> 1]
      byte(i) == HighestFirst(SubSeq(filled, 8*i - 7, 8*i))
  IN Joined([i \in 1..(Len(filled) \div 8) |->
              IF byte(i) = 255 THEN <<255, 0>> ELSE <<byte(i)>>])

ScanBytes(p, scan) ==
  LET intervals == ScanTokens(p, scan)
      all == Joined(intervals)
      symbols == <<SymbolsOf(all, 1), SymbolsOf(all, 2), SymbolsOf(all, 3), SymbolsOf(all, 4)>>
      Coded(i) == StuffedBytes(Joined([k \in DOMAIN intervals[i] |->
                    TokenCode(p, symbols[intervals[i][k].table], intervals[i][k])]))
      Name(c) == <<p.comps[c].id, 17 * (c % 2)>>
  IN Joined([i \in 1..4 |-> HuffmanSegment(p, i, symbols[i])])
     \o WithLength(218, <<Len(scan.comps)>>
          \o Joined([i \in DOMAIN scan.comps |-> Name(scan.comps[i])])
          \o <<scan.ss, scan.se, 16 * scan.ah + scan.al>>)
     \o Loop(Len(intervals), <<>>, LAMBDA out, i:
          out \o (IF i > 1 THEN p.fill \o <<255, 208 + ((i - 2) % 8)>> ELSE <<>>) \o Coded(i))

QuantSegment(c, wide) ==
  WithLength(219, <<(IF wide THEN 16 ELSE 0) + c - 1>> \o Joined([k \in 1..64 |->
    IF wide THEN SixteenBits(Quant(c, k - 1)) ELSE <<Quant(c, k - 1)>>]))

FrameSegment(p) ==
  WithLength(IF p.progressive THEN 194 ELSE 192,
    <<8>> \o SixteenBits(p.height) \o SixteenBits(p.width) \o <<Len(p.comps)>>
    \o Joined([c \in DOMAIN p.comps |->
         <<p.comps[c].id, 16 * p.comps[c].h + p.comps[c].v, c - 1>>]))

JfifSegment == WithLength(224, <<74, 70, 73, 70, 0, 1, 2, 0, 0, 1, 0, 1, 0, 0>>)
AdobeSegment(transform) ==
  WithLength(238, <<65, 100, 111, 98, 101, 0, 100, 0, 0, 0, 0, transform>>)

\* All of a file but its end
JpegBytes(p) ==
  <<255, 216>> \o p.apps
  \o Joined([c \in DOMAIN p.comps |-> QuantSegment(c, c % 2 = 0)])
  \o FrameSegment(p)
  \o (IF p.interval = 0 THEN <<>> ELSE WithLength(221, SixteenBits(p.interval)))
  \o Joined([i \in DOMAIN p.scans |-> ScanBytes(p, p.scans[i])])

-----------------------------------------------------------------------------
(* What a picture means                                                      *)

\* 2048 * cos(k * pi / 16), and 4096 times the weight of frequency u at x
Cosine == <<2048, 2009, 1892, 1703, 1448, 1138, 784, 400, 0>>
Weight(x, u) ==
  LET m == ((2*x + 1) * u) % 32
      k == IF m > 16 THEN 32 - m ELSE m
  IN IF u = 0 THEN 1448 ELSE IF k <= 8 THEN Cosine[k + 1] ELSE -Cosine[17 - k]

\* The samples of a block, times 64: the inverse cosine transform, with the
\* level shift, before it is rounded and limited to 0..255.
IdealSamples(block, c) ==
  LET places == ZigzagPlaces
      used == {k \in 0..63 : block[k] # 0}
      At(v, u) == LET ks == {k \in used : places[k] = 8*v + u}
                  IN IF ks = {} THEN 0 ELSE LET k == CHOOSE k \in ks : TRUE IN block[k] * Quant(c, k)
      grid == Loop(64, <<>>, LAMBDA out, i: Append(out, At((i-1) \div 8, (i-1) % 8)))
      Sum8(f(_)) == f(0) + f(1) + f(2) + f(3) + f(4) + f(5) + f(6) + f(7)
      across == Loop(64, <<>>, LAMBDA out, i:   \* <<v, x>>
                  Append(out, Sum8(LAMBDA u: grid[8 * ((i-1) \div 8) + u + 1] * Weight((i-1) % 8, u)) \div 64))
  IN Loop(64, <<>>, LAMBDA out, i:              \* <<y, x>>
       Append(out, 128 * 64 + Sum8(LAMBDA v: across[8 * v + ((i-1) % 8) + 1] * Weight((i-1) \div 8, v)) \div 4096))

\* A row or column of w samples made wider by a factor, centred as JFIF says:
\* which samples the one at position x is made of, with weights that add up to 4.
Between(x, w, factor) ==
  LET near == x \div factor
      other == IF x % 2 = 0 THEN Larger(0, near - 1) ELSE Smaller(w - 1, near + 1)
  IN IF factor = 2 THEN <<near, 3, other, 1>> ELSE <<near, 4, near, 0>>

\* The sample of component c at <<x, y>>, interpolated and rounded once.
Upsampled(p, c, x, y, Value(_, _)) ==
  LET hs == MostH(p) \div p.comps[c].h
      vs == MostV(p) \div p.comps[c].v
      fine == {hs, vs} \subseteq {1, 2}
      a == Between(x, LineLength(p, c), IF fine THEN hs ELSE 1)
      b == Between(y, LineCount(p, c), IF fine THEN vs ELSE 1)
  IN IF ~fine THEN Value(x \div hs, y \div vs)
     ELSE (  b[2] * (a[2] * Value(a[1], b[1]) + a[4] * Value(a[3], b[1]))
           + b[4] * (a[2] * Value(a[1], b[3]) + a[4] * Value(a[3], b[3])) + 8) \div 16

\* JFIF's conversion, in thousandths
IdealRgb(y, cb, cr) ==
  <<1000*y + 1402*(cr - 128), 1000*y - 344*(cb - 128) - 714*(cr - 128), 1000*y + 1772*(cb - 128)>>

\* A colour is shown if each channel is within one of it.
Close(channel, thousandths) ==
  Magnitude(1000 * channel - Larger(0, Smaller(255000, thousandths))) <= 1000
=============================================================================
