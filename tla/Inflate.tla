------------------------------- MODULE Inflate -------------------------------
(***************************************************************************)
(* The zlib decoder of the art tool (stb_image.h, "zlib-style huffman      *)
(* encoding" to stbi_zlib_decode_malloc_guesssize_headerflag): a byte      *)
(* stream is read through a bit buffer, one block at a time, each block    *)
(* one symbol at a time.                                                   *)
(*                                                                         *)
(* The bit buffer is kept as the sequence of the bits in it, the next one  *)
(* first: code_buffer is its value and num_bits its length.  A loop of the *)
(* C functions is a sequence of steps here, one per iteration.             *)
(***************************************************************************)
EXTENDS Loops, SequencesExt, FiniteSets

CONSTANT FastBits   \* STBI__ZFAST_BITS: codes up to this length are looked up

ASSUME FastBitsAssumption == FastBits \in 1..15

VARIABLES
  stage,    \* what is read next, "accepted" or "refused" at the end
  zbuf,     \* the reader: bytes not read yet, the bit buffer, hit_zeof_once
  final,    \* the block being read is the last one
  codes,    \* z_length and z_distance of the block being read
  lengths,  \* compute_huffman_codes: the code they are written in, those read
  zout,     \* the bytes decoded so far
  limit     \* the size of the output buffer

inflateVars == <<stage, zbuf, final, codes, lengths, zout, limit>>

-----------------------------------------------------------------------------
(* The bit reader.                                                           *)

Reader(bytes) == [bytes |-> bytes, bits |-> <<>>, hitEof |-> FALSE]

AtEof(z) == z.bytes = <<>>

Byte(z) == IF AtEof(z) THEN 0 ELSE Head(z.bytes)

ByteRead(z) == [z EXCEPT !.bytes = IF AtEof(z) THEN <<>> ELSE Tail(@)]

\* Bytes are added until more than 24 bits are there; past the end they are 0.
\* No bits are ever above those counted, which the code would take for the end.
FillBits(z) ==
  LET wanted == (24 - Len(z.bits)) \div 8 + 1
      read   == Take(z.bytes, wanted)
      zeros  == 8*(wanted - Len(read))
  IN [z EXCEPT !.bits = @ \o BytesFromLow(read) \o [i \in 1..zeros |-> 0],
               !.bytes = Skip(@, wanted)]

Drop(z, n) == [z EXCEPT !.bits = Skip(@, n)]

\* zreceive(n): the value of the next n bits, and the reader after them.
Received(z, n) == <<LowestFirst(Take(z.bits, n)), Drop(z, n)>>
Receive(z, n) == Received(IF Len(z.bits) < n THEN FillBits(z) ELSE z, n)

-----------------------------------------------------------------------------
(* Huffman codes. A size list maps a symbol to the length of its code; a     *)
(* symbol without a code has no entry in it.                                 *)

SizeList(list) ==
  [s \in {s \in 0..(Len(list) - 1) : list[s+1] > 0} |-> list[s+1]]

OfSize(sizes, n) == {s \in DOMAIN sizes : sizes[s] = n}

FirstCode(sizes) ==
  LET first[n \in 1..15] ==
        IF n = 1 THEN 0 ELSE 2 * (first[n-1] + Cardinality(OfSize(sizes, n-1)))
  IN first

\* zbuild_huffman refuses a list with more codes of a length than fit.
Buildable(sizes) ==
  LET first == FirstCode(sizes)
  IN \A n \in 1..15 :
       LET count == Cardinality(OfSize(sizes, n))
       IN count <= 2^n /\ (count > 0 => first[n] + count - 1 < 2^n)

BuildHuffman(sizes) ==
  LET first == FirstCode(sizes)
      ofSize == [n \in 1..15 |->
                   SelectSeq([i \in 1..288 |-> i - 1],
                             LAMBDA s: s \in DOMAIN sizes /\ sizes[s] = n)]
      symbols == FlattenSeq(ofSize)
      before[n \in 1..15] == IF n = 1 THEN 0 ELSE before[n-1] + Len(ofSize[n-1])
      short == {p \in DOMAIN symbols : sizes[symbols[p]] <= FastBits}
      \* the low bits of a buffer that begins with the code at place p
      Slot(p) == LET n == sizes[symbols[p]]
                 IN LowestFirst(BitsFromHigh(n, first[n] + p - 1 - before[n]))
      Begins(j, p) == j % 2^sizes[symbols[p]] = Slot(p)
  IN [fast |-> [j \in {j \in 0..(2^FastBits - 1) : \E p \in short : Begins(j, p)} |->
                  symbols[CHOOSE p \in short : Begins(j, p)]],
      firstCode |-> first,
      firstSymbol |-> before,
      maxCode |-> [n \in 1..16 |-> IF n = 16 THEN 65536
                                   ELSE (first[n] + Len(ofSize[n])) * 2^(16-n)],
      value |-> symbols,
      size |-> sizes]

NoCode == BuildHuffman(<<>>)

\* The buffer always holds 16 bits to look at, or zeros past its end.
Peek(bits, n) == [i \in 1..n |-> IF i <= Len(bits) THEN bits[i] ELSE 0]

SlowPath(z, huffman) ==
  LET k == HighestFirst(Peek(z.bits, 16))
      s == CHOOSE n \in (FastBits+1)..16 :
             /\ k < huffman.maxCode[n]
             /\ \A m \in (FastBits+1)..(n-1) : k >= huffman.maxCode[m]
      b == k \div 2^(16-s) - huffman.firstCode[s] + huffman.firstSymbol[s]
  IN IF s < 16 /\ b + 1 \in DOMAIN huffman.value /\ huffman.size[huffman.value[b+1]] = s
     THEN <<huffman.value[b+1], Drop(z, s)>>
     ELSE <<-1, z>>

LookUp(z, huffman) ==
  LET index == LowestFirst(Peek(z.bits, FastBits))
  IN IF index \in DOMAIN huffman.fast
     THEN LET s == huffman.fast[index] IN <<s, Drop(z, huffman.size[s])>>
     ELSE SlowPath(z, huffman)

\* zhuffman_decode: the next symbol, or -1, and the reader after it.  At the
\* end of the stream 16 bits of padding are lent, once.
HuffmanSymbol(z, huffman) ==
  IF Len(z.bits) >= 16 THEN LookUp(z, huffman)
  ELSE IF ~AtEof(z) THEN LookUp(FillBits(z), huffman)
  ELSE IF z.hitEof THEN <<-1, z>>
  ELSE LookUp([z EXCEPT !.hitEof = TRUE,
                        !.bits = @ \o [i \in 1..16 |-> 0]], huffman)

-----------------------------------------------------------------------------
(* The decoder.                                                              *)

\* stbi__zdefault_length and stbi__zdefault_distance
DefaultLengths ==
  BuildHuffman([s \in 0..287 |-> IF s <= 143 THEN 8 ELSE IF s <= 255 THEN 9
                                 ELSE IF s <= 279 THEN 7 ELSE 8])
DefaultDistances == BuildHuffman([s \in 0..31 |-> 5])

LengthExtra == <<0,0,0,0,0,0,0,0,1,1,1,1,2,2,2,2,3,3,3,3,4,4,4,4,5,5,5,5,0>>
LengthBase == <<3,4,5,6,7,8,9,10,11,13,15,17,19,23,27,31,35,43,51,59,
                67,83,99,115,131,163,195,227,258>>
DistExtra == [d \in 0..29 |-> IF d < 2 THEN 0 ELSE d \div 2 - 1]
DistBase == <<1,2,3,4,5,7,9,13,17,25,33,49,65,97,129,193,257,385,513,769,
              1025,1537,2049,3073,4097,6145,8193,12289,16385,24577>>
\* length_dezigzag
LengthOrder == <<16,17,18,0,8,7,9,6,10,5,11,4,12,3,13,2,14,1,15>>

\* zexpand: the buffer is doubled until it has room for that many bytes.
Expanded(size, needed) ==
  size * 2^(CHOOSE k \in 0..30 : /\ needed <= size * 2^k
                                 /\ k > 0 => needed > size * 2^(k-1))

\* Room for n more bytes, found by doubling the buffer when there is none.
WithRoom(n) == IF Len(zout) + n > limit THEN Expanded(limit, Len(zout) + n) ELSE limit

InflateIdle ==
  /\ stage = "idle" /\ zbuf = Reader(<<>>) /\ final = FALSE
  /\ codes = <<NoCode, NoCode>>
  /\ lengths = [literals |-> 0, total |-> 0, code |-> NoCode, list |-> <<>>]
  /\ zout = <<>> /\ limit = 0

\* do_zlib on these bytes, with room for size bytes of output and perhaps
\* without a zlib header in front.
InflateStart(bytes, size, headed) ==
  /\ stage = "idle"
  /\ stage' = (IF headed THEN "header" ELSE "block") /\ zbuf' = Reader(bytes)
  /\ zout' = <<>> /\ limit' = size
  /\ UNCHANGED <<final, codes, lengths>>

Refuse ==
  /\ stage' = "refused"
  /\ UNCHANGED <<zbuf, final, codes, lengths, zout, limit>>

ParseHeader ==
  /\ stage = "header"
  /\ LET cmf == Byte(zbuf)
         flg == Byte(ByteRead(zbuf))
         rest == ByteRead(ByteRead(zbuf))
         good == /\ ~AtEof(rest)
                 /\ (cmf*256 + flg) % 31 = 0 /\ (flg \div 32) % 2 = 0 /\ cmf % 16 = 8
     IN \/ /\ good
           /\ stage' = "block" /\ zbuf' = Reader(rest.bytes)
           /\ UNCHANGED <<final, codes, lengths, zout, limit>>
        \/ ~good /\ Refuse

BlockHeader ==
  /\ stage = "block"
  /\ \E last \in {Receive(zbuf, 1)} : \E type \in {Receive(last[2], 2)} :
       \/ /\ type[1] = 3
          /\ Refuse
       \/ /\ type[1] # 3
          /\ zbuf' = type[2] /\ final' = (last[1] = 1)
          /\ stage' = <<"stored", "symbols", "code lengths">>[type[1] + 1]
          /\ codes' = IF type[1] = 1 THEN <<DefaultLengths, DefaultDistances>>
                      ELSE codes
          /\ UNCHANGED <<lengths, zout, limit>>

AfterBlock == IF final THEN "accepted" ELSE "block"

\* parse_uncompressed_block: whole bytes left in the bit buffer come first.
Stored ==
  /\ stage = "stored"
  /\ LET aligned == Drop(zbuf, Len(zbuf.bits) % 8)
         drained == Len(aligned.bits) \div 8
         bits == aligned.bits \o BytesFromLow(Take(zbuf.bytes, 4 - drained))
         len == LowestFirst(Peek(bits, 16))
         complement == LowestFirst(Peek(Skip(bits, 16), 16))
         bytes == Skip(zbuf.bytes, 4 - drained)
         good == complement = 65535 - len /\ len <= Len(bytes)
     IN \/ /\ good
           /\ zout' = zout \o Take(bytes, len) /\ limit' = WithRoom(len)
           /\ zbuf' = [zbuf EXCEPT !.bits = <<>>, !.bytes = Skip(bytes, len)]
           /\ stage' = AfterBlock
           /\ UNCHANGED <<final, codes, lengths>>
        \/ ~good /\ Refuse

\* compute_huffman_codes up to its loop
ReadSizes(z, count) ==
  Loop(count, [sizes |-> <<>>, z |-> z],
       LAMBDA got, i: LET size == Receive(got.z, 3)
                      IN [sizes |-> Append(got.sizes, size[1]), z |-> size[2]])

InOrder(sizes) ==
  [s \in {LengthOrder[i] : i \in {j \in DOMAIN sizes : sizes[j] > 0}} |->
     sizes[CHOOSE i \in 1..19 : LengthOrder[i] = s]]

CodeLengthCode ==
  /\ stage = "code lengths"
  /\ \E hlit \in {Receive(zbuf, 5)} : \E hdist \in {Receive(hlit[2], 5)} :
     \E hclen \in {Receive(hdist[2], 4)} : \E read \in {ReadSizes(hclen[2], hclen[1] + 4)} :
     \E sizes \in {InOrder(read.sizes)} :
       \/ /\ Buildable(sizes)
          /\ lengths' = [literals |-> hlit[1] + 257,
                         total |-> hlit[1] + 257 + hdist[1] + 1,
                         code |-> BuildHuffman(sizes), list |-> <<>>]
          /\ zbuf' = read.z /\ stage' = "lengths"
          /\ UNCHANGED <<final, codes, zout, limit>>
       \/ ~Buildable(sizes) /\ Refuse

\* How often a size is repeated, and the reader after that is known.
Repetition(symbol) ==
  CASE symbol[1] < 16 -> <<1, symbol[2]>>
    [] symbol[1] = 16 -> Receive(symbol[2], 2)
    [] symbol[1] = 17 -> Receive(symbol[2], 3)
    [] symbol[1] = 18 -> Receive(symbol[2], 7)

LeastRepetition(c) == CASE c < 16 -> 0 [] c \in {16, 17} -> 3 [] c = 18 -> 11

\* One turn of the loop of compute_huffman_codes
CodeLength ==
  /\ stage = "lengths" /\ Len(lengths.list) < lengths.total
  /\ \E symbol \in {HuffmanSymbol(zbuf, lengths.code)} : \E extra \in {Repetition(symbol)} :
       LET n == Len(lengths.list)
           c == symbol[1]
           times == extra[1] + LeastRepetition(c)
           good == c >= 0 /\ ~(c = 16 /\ n = 0) /\ times <= lengths.total - n
           fill == IF c < 16 THEN c ELSE IF c = 16 THEN lengths.list[n] ELSE 0
       IN \/ /\ good
             /\ lengths' = [lengths EXCEPT !.list = @ \o [i \in 1..times |-> fill]]
             /\ zbuf' = extra[2]
             /\ UNCHANGED <<stage, final, codes, zout, limit>>
          \/ ~good /\ Refuse

\* The end of compute_huffman_codes
BuildCodes ==
  /\ stage = "lengths" /\ Len(lengths.list) = lengths.total
  /\ LET literal == SizeList(Take(lengths.list, lengths.literals))
         distance == SizeList(Skip(lengths.list, lengths.literals))
         good == Buildable(literal) /\ Buildable(distance)
     IN \/ /\ good
           /\ codes' = <<BuildHuffman(literal), BuildHuffman(distance)>>
           /\ stage' = "symbols"
           /\ UNCHANGED <<zbuf, final, lengths, zout, limit>>
        \/ ~good /\ Refuse

\* Mutant: the match is copied in one piece, from what was there before it.
CopiedAtOnce(out, dist, len) ==
  out \o [i \in 1..len |->
            LET at == Len(out) - dist + i IN IF at <= Len(out) THEN out[at] ELSE 0]

\* The bytes a match copies may be bytes it has just written.
Copied(out, dist, len) ==
  Loop(len, out, LAMBDA o, i: Append(o, o[Len(o) + 1 - dist]))

Literal ==
  /\ stage = "symbols"
  /\ \E symbol \in {HuffmanSymbol(zbuf, codes[1])} :
       /\ symbol[1] \in 0..255
       /\ zout' = Append(zout, symbol[1]) /\ limit' = WithRoom(1)
       /\ zbuf' = symbol[2]
       /\ UNCHANGED <<stage, final, codes, lengths>>

\* A symbol that ends the block: refused if padding was consumed.
EndOfBlock ==
  /\ stage = "symbols"
  /\ \E symbol \in {HuffmanSymbol(zbuf, codes[1])} :
       /\ symbol[1] = 256
       /\ LET good == ~(symbol[2].hitEof /\ Len(symbol[2].bits) < 16)
          IN \/ /\ good
                /\ stage' = AfterBlock /\ zbuf' = symbol[2]
                /\ UNCHANGED <<final, codes, lengths, zout, limit>>
             \/ ~good /\ Refuse

\* The distance of a match; a code without a meaning is not read further.
Distance(code) ==
  IF code[1] \in 0..29 THEN Receive(code[2], DistExtra[code[1]]) ELSE code

Match ==
  /\ stage = "symbols"
  /\ \E symbol \in {HuffmanSymbol(zbuf, codes[1])} :
       /\ symbol[1] \in 257..285
       /\ \E len \in {Receive(symbol[2], LengthExtra[symbol[1] - 256])} :
          \E code \in {HuffmanSymbol(len[2], codes[2])} : \E dist \in {Distance(code)} :
            LET count == LengthBase[symbol[1] - 256] + len[1]
                back == DistBase[code[1] + 1] + dist[1]
                good == code[1] \in 0..29 /\ back <= Len(zout)
            IN \/ /\ good
                  /\ zout' = Copied(zout, back, count) /\ limit' = WithRoom(count)
                  /\ zbuf' = dist[2]
                  /\ UNCHANGED <<stage, final, codes, lengths>>
               \/ ~good /\ Refuse

BadSymbol ==
  /\ stage = "symbols"
  /\ HuffmanSymbol(zbuf, codes[1])[1] \notin 0..285
  /\ Refuse

InflateStep ==
  \/ ParseHeader \/ BlockHeader \/ Stored
  \/ CodeLengthCode \/ CodeLength \/ BuildCodes
  \/ Literal \/ Match \/ EndOfBlock \/ BadSymbol

=============================================================================
