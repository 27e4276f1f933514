------------------------------ MODULE JpegEntropy ------------------------------
(***************************************************************************)
(* The entropy decoder of the JPEG reader of the art tool (stb_image.h,    *)
(* stbi__build_huffman to stbi__jpeg_decode_block_prog_ac): Huffman codes  *)
(* and numbers are taken from a bit buffer that is filled from the file    *)
(* until a marker is met, and make up blocks of 64 coefficients.           *)
(*                                                                         *)
(* The part of stbi__jpeg that changes from bit to bit is a record here:   *)
(* pos in the file, bits in the buffer (the next one first), the marker    *)
(* that was met, nomore once there is one, eobRun, and in other modules    *)
(* more.  A result is a pair: what was read, and the record after it.      *)
(***************************************************************************)
EXTENDS Loops, SequencesExt

CONSTANT FastCode   \* FAST_BITS: codes up to this length are looked up

ASSUME FastCodeAssumption == FastCode \in 1..15

VARIABLE jpeg       \* the file: jpeg.bytes

Data == jpeg.bytes

NoMarker == 255

\* Past the end zeros are read.
Get8(pos) == IF pos < Len(Data) THEN Data[pos + 1] ELSE 0
Get16(pos) == Get8(pos) * 256 + Get8(pos + 1)

\* The first position from pos on that does not hold a fill byte.
PastFill(pos) ==
  LET start == Smaller(pos, Len(Data))
  IN CHOOSE p \in start..Len(Data) : Get8(p) # 255 /\ \A q \in start..(p-1) : Get8(q) = 255

-----------------------------------------------------------------------------
(* The bit buffer                                                            *)

\* One turn of grow_buffer_unsafe.  255, 0 stands for the byte 255; 255 and
\* anything else is a marker, and from there on zeros are read.
GrowOnce(z) ==
  LET b == Get8(z.pos)
      after == PastFill(z.pos + 1)
      c == Get8(after)
  IN IF z.nomore THEN [z EXCEPT !.bits = @ \o BitsFromHigh(8, 0)]
     ELSE IF b # 255 THEN [z EXCEPT !.bits = @ \o BitsFromHigh(8, b), !.pos = @ + 1]
     ELSE IF c = 0 THEN [z EXCEPT !.bits = @ \o BitsFromHigh(8, b), !.pos = after + 1]
     ELSE [z EXCEPT !.marker = c, !.nomore = TRUE, !.pos = after + 1]

\* The turn that meets the marker is the last, whatever the buffer holds.
Grow(z) ==
  Loop((24 - Len(z.bits)) \div 8 + 1, z,
       LAMBDA y, i: IF y.nomore /\ ~z.nomore THEN y ELSE GrowOnce(y))

GrowBelow(z, n) == IF Len(z.bits) < n THEN Grow(z) ELSE z

\* What is in front of the buffer; below its bits the word holds zeros.
Ahead(z, n) ==
  HighestFirst([i \in 1..n |-> IF i <= Len(z.bits) THEN z.bits[i] ELSE 0])

Shift(z, n) == [z EXCEPT !.bits = Skip(@, n)]

\* jpeg_get_bits and jpeg_get_bit: without enough bits the answer is zero.
Taken(z, n) == IF Len(z.bits) < n THEN <<0, z>> ELSE <<Ahead(z, n), Shift(z, n)>>
GetBits(z, n) == Taken(GrowBelow(z, n), n)

\* extend_receive: a number of n bits whose first bit tells the sign.
Extended(k, n) == IF k < 2^(n-1) THEN k - 2^n + 1 ELSE k
ExtendTaken(z, n) ==
  IF Len(z.bits) < n THEN <<0, z>> ELSE <<Extended(Ahead(z, n), n), Shift(z, n)>>
ExtendReceive(z, n) == ExtendTaken(GrowBelow(z, n), n)

-----------------------------------------------------------------------------
(* Huffman codes: how many there are of each length, and what they stand for *)

\* code and the number of codes at the start of each length
StartCode(counts) ==
  LET start[j \in 1..17] == IF j = 1 THEN 0 ELSE 2 * (start[j-1] + counts[j-1])
  IN start
CodesBefore(counts) ==
  LET before[j \in 1..17] == IF j = 1 THEN 0 ELSE before[j-1] + counts[j-1]
  IN before

\* What build_huffman accepts
GoodCounts(counts) ==
  /\ CodesBefore(counts)[17] <= 256
  /\ \A j \in 1..16 : counts[j] > 0 => StartCode(counts)[j] + counts[j] - 1 < 2^j

\* build_fast_ac: a short code and the short number after it, read at once.
FastAc(c, size, symbol) ==
  LET bits == symbol % 16
      k == (c % 2^(FastCode - size)) \div 2^(FastCode - size - bits)
      value == Extended(k, bits)
  IN IF bits = 0 \/ size + bits > FastCode THEN <<>>
     ELSE IF value \notin -128..127 \/ <<value, symbol \div 16, size + bits>> = <<0, 0, 0>> THEN <<>>
     ELSE <<[value |-> value, run |-> symbol \div 16, length |-> size + bits]>>

BuildTable(counts, values) ==
  LET start == StartCode(counts)
      before == CodesBefore(counts)
      sizes == FlattenSeq([j \in 1..16 |-> [i \in 1..counts[j] |-> j]])
      \* the code among those of at most FastCode bits that c begins with
      Begins(c, k) == c \div 2^(FastCode - sizes[k]) = start[sizes[k]] + k - 1 - before[sizes[k]]
      \* number 255 of a table is its mark for a code that is not looked up
      short == {k \in DOMAIN sizes : k < 256 /\ sizes[k] <= FastCode}
      fast == [c \in {c \in 0..(2^FastCode - 1) : \E k \in short : Begins(c, k)} |->
                 CHOOSE k \in short : Begins(c, k)]
  IN [size |-> sizes, values |-> values, fast |-> fast,
      maxcode |-> [j \in 1..17 |-> IF j = 17 THEN 65536 ELSE (start[j] + counts[j]) * 2^(16-j)],
      delta |-> [j \in 1..16 |-> before[j] - start[j]],
      fastAc |-> [c \in DOMAIN fast |-> FastAc(c, sizes[fast[c]], values[fast[c]])]]

\* Memory set to zero: a table in which no bits at all stand for zero.
NoTable ==
  [size |-> <<0>>, values |-> <<0>>, fast |-> [c \in 0..(2^FastCode - 1) |-> 1],
   maxcode |-> [j \in 1..17 |-> 0], delta |-> [j \in 1..16 |-> 0],
   fastAc |-> [c \in 0..(2^FastCode - 1) |-> <<>>]]

\* jpeg_huff_decode: the next symbol, or -1.  Codes that are not in the table
\* for short ones are told by their length from the codes of each length.
LongCode(word, h) ==
  CHOOSE n \in (FastCode+1)..17 :
    word < h.maxcode[n] /\ \A m \in (FastCode+1)..(n-1) : word >= h.maxcode[m]

Symbol(z, h, size, index) ==
  IF size > Len(z.bits) THEN <<-1, z>> ELSE <<h.values[index], Shift(z, size)>>

SlowSymbol(z, h, n) ==
  IF n = 17 \/ Ahead(z, n) + h.delta[n] \notin 0..255 THEN <<-1, z>>
  ELSE Symbol(z, h, n, Ahead(z, n) + h.delta[n] + 1)

SymbolAt(z, h, c) ==
  IF c \in DOMAIN h.fast THEN Symbol(z, h, h.size[h.fast[c]], h.fast[c])
  ELSE SlowSymbol(z, h, LongCode(Ahead(z, 16), h))

SymbolAhead(z, h) == SymbolAt(z, h, Ahead(z, FastCode))

HuffDecode(z, h) == SymbolAhead(GrowBelow(z, 16), h)

-----------------------------------------------------------------------------
(* Blocks. A block maps a place, row by row, to its coefficient.  The buffer *)
(* is filled before a symbol, and by huff_decode again when a marker cut the *)
(* first fill short: from then on it gets zeros.                             *)

Dezigzag == <<0, 1, 8, 16, 9, 2, 3, 10, 17, 24, 32, 25, 18, 11, 4, 5,
              12, 19, 26, 33, 40, 48, 41, 34, 27, 20, 13, 6, 7, 14, 21, 28,
              35, 42, 49, 56, 57, 50, 43, 36, 29, 22, 15, 23, 30, 37, 44, 51,
              58, 59, 52, 45, 38, 31, 39, 46, 53, 60, 61, 54, 47, 55, 62, 63,
              63, 63, 63, 63, 63, 63, 63, 63, 63, 63, 63, 63, 63, 63, 63>>
Place(k) == Dezigzag[k + 1]

\* Stored in sixteen bits
Short(v) == ((v + 32768) % 65536) - 32768

Failed(z) == [ok |-> FALSE, z |-> z]

\* The number that is added to the last DC coefficient.
DifferenceOf(number) == [ok |-> TRUE, z |-> number[2], diff |-> number[1]]
DifferenceAfter(symbol) ==
  IF symbol[1] \notin 0..15 THEN Failed(symbol[2])
  ELSE DifferenceOf(IF symbol[1] = 0 THEN <<0, symbol[2]>> ELSE ExtendReceive(symbol[2], symbol[1]))
Difference(z, table) == DifferenceAfter(HuffDecode(GrowBelow(z, 16), table))

\* The rest of the file's state after 2^n ends of blocks, and more[1] more.
EndsOfBlocks(n, more) == [more[2] EXCEPT !.eobRun = 2^n + more[1] - 1]
RunOfEnds(z, n) == EndsOfBlocks(n, IF n = 0 THEN <<0, z>> ELSE GetBits(z, n))

\* The AC coefficients of band, each given whole, as they are decoded in a
\* baseline scan and in the first progressive scan of a band: a run of zeros
\* and a coefficient at a time.  Only a progressive scan can end more than one
\* block at once.  The loop's state s is where it is in file and band.
Entered(s, number, k, scale) ==
  [s EXCEPT !.z = number[2], !.k = k + 1,
            !.data[Place(k)] = Short(number[1] * scale[Place(k)])]

FirstCoded(s, symbol, band, scale) ==
  LET run == symbol[1] \div 16
      bits == symbol[1] % 16
  IN IF symbol[1] < 0 THEN [s EXCEPT !.ok = FALSE]
     ELSE IF symbol[1] = 240 THEN [s EXCEPT !.z = symbol[2], !.k = @ + 16]
     ELSE IF bits # 0 THEN Entered(s, ExtendReceive(symbol[2], bits), s.k + run, scale)
     ELSE IF band.progressive THEN [s EXCEPT !.z = RunOfEnds(symbol[2], run), !.k = 64]
     ELSE [s EXCEPT !.z = symbol[2], !.k = 64]

FirstAt(s, z, c, table, band, scale) ==
  IF c \notin DOMAIN table.fastAc \/ table.fastAc[c] = <<>>
  THEN FirstCoded(s, HuffDecode(z, table), band, scale)
  ELSE IF table.fastAc[c][1].length > Len(z.bits) THEN [s EXCEPT !.ok = FALSE]
  ELSE Entered(s, <<table.fastAc[c][1].value, Shift(z, table.fastAc[c][1].length)>>,
              s.k + table.fastAc[c][1].run, scale)

FirstAhead(s, z, table, band, scale) == FirstAt(s, z, Ahead(z, FastCode), table, band, scale)

AcFirst(z0, block, table, band, scale) ==
  Loop(band.se - band.ss + 1, [ok |-> TRUE, z |-> z0, k |-> band.ss, data |-> block],
       LAMBDA s, i: IF ~s.ok \/ s.k > band.se THEN s
                    ELSE FirstAhead(s, GrowBelow(s.z, 16), table, band, scale))

\* One more bit of what was stored before: a coefficient that is not zero gets
\* the bit, with its own sign.
Corrected(p, bit) == IF p > 0 THEN p + bit ELSE p - bit
CorrectedBy(a, p, b, bit) ==
  [a EXCEPT !.z = b[2], !.k = @ + 1,
            !.data[Place(a.k)] = IF b[1] = 1 /\ (p \div bit) % 2 = 0 THEN Corrected(p, bit) ELSE p]

\* Passes over run zeros, and corrects what is not zero on the way; the zero
\* after them becomes value.
Advance(s, z, run, value, band) ==
  LET Turn(a, i) ==
        IF a.left < 0 \/ a.k > band.se THEN a
        ELSE IF a.data[Place(a.k)] # 0
        THEN CorrectedBy(a, a.data[Place(a.k)], GetBits(a.z, 1), 2^band.al)
        ELSE IF a.left > 0 THEN [a EXCEPT !.left = @ - 1, !.k = @ + 1]
        ELSE [a EXCEPT !.data[Place(a.k)] = value, !.left = -1, !.k = @ + 1]
  IN Loop(band.se - s.k + 1, [ok |-> TRUE, z |-> z, k |-> s.k, data |-> s.data, left |-> run], Turn)

\* One more bit of the AC coefficients of a band.  What ends blocks still
\* corrects the coefficients that are left in them.
NewValue(sign, al) == IF sign[1] = 1 THEN 2^al ELSE -(2^al)
RefineNew(s, sign, run, band) == Advance(s, sign[2], run, NewValue(sign, band.al), band)

RefineCoded(s, symbol, band) ==
  LET run == symbol[1] \div 16
  IN IF symbol[1] < 0 \/ symbol[1] % 16 > 1 THEN [s EXCEPT !.ok = FALSE]
     ELSE IF symbol[1] % 16 = 1 THEN RefineNew(s, GetBits(symbol[2], 1), run, band)
     ELSE Advance(s, IF run = 15 THEN symbol[2] ELSE RunOfEnds(symbol[2], run),
                  IF run = 15 THEN 15 ELSE 64, 0, band)

AcRefine(z0, block, table, band) ==
  LET start == [ok |-> TRUE, z |-> z0, k |-> band.ss, data |-> block, left |-> 0]
  IN IF z0.eobRun > 0
     THEN Advance(start, [z0 EXCEPT !.eobRun = @ - 1], 64, 0, band)
     ELSE Loop(band.se - band.ss + 1, start,
               LAMBDA s, i: IF ~s.ok \/ s.k > band.se THEN s
                            ELSE RefineCoded(s, HuffDecode(s.z, table), band))
=============================================================================
