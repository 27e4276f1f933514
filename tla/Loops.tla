-------------------------------- MODULE Loops --------------------------------
(***************************************************************************)
(* Counted loops and the bit arithmetic the image code is made of.  Loop   *)
(* does what a fold over 1..n does, as a recursive function: TLC evaluates *)
(* it in linear time.                                                      *)
(***************************************************************************)
EXTENDS Integers, Sequences

\* The state after turns 1 to n of a loop that begins in start.
Loop(n, start, Turn(_, _)) ==
  LET turns[k \in 0..n] == IF k = 0 THEN start ELSE Turn(turns[k-1], k)
  IN turns[n]

\* The first n elements of a sequence, or all of them; and those after them.
Take(seq, n) == SubSeq(seq, 1, IF n < Len(seq) THEN n ELSE Len(seq))
Skip(seq, n) == SubSeq(seq, n + 1, Len(seq))

\* The sequences one after the other: halves first, which needs little depth.
Joined(seqs) ==
  LET part[first \in Nat, last \in Nat] ==
        IF first > last THEN <<>>
        ELSE IF first = last THEN seqs[first]
        ELSE part[first, (first + last) \div 2] \o part[(first + last) \div 2 + 1, last]
  IN part[1, Len(seqs)]

\* The numbers some bits stand for, read from the lowest or from the highest.
LowestFirst(bits) == Loop(Len(bits), 0, LAMBDA v, i: 2*v + bits[Len(bits) + 1 - i])
HighestFirst(bits) == Loop(Len(bits), 0, LAMBDA v, i: 2*v + bits[i])

\* The n bits of a number.
BitsFromLow(n, value) == [i \in 1..n |-> (value \div 2^(i-1)) % 2]
BitsFromHigh(n, value) == [i \in 1..n |-> (value \div 2^(n-i)) % 2]

\* The bits of some bytes, the lowest or the highest of each first.
BytesFromLow(bytes) ==
  [i \in 1..(8*Len(bytes)) |-> (bytes[(i-1) \div 8 + 1] \div 2^((i-1) % 8)) % 2]
BytesFromHigh(bytes) ==
  [i \in 1..(8*Len(bytes)) |-> (bytes[(i-1) \div 8 + 1] \div 2^(7 - ((i-1) % 8))) % 2]

\* Bits filled up with zeros to whole bytes.
Padded(bits) == bits \o [i \in 1..((8 - (Len(bits) % 8)) % 8) |-> 0]

Smaller(a, b) == IF a < b THEN a ELSE b
Larger(a, b) == IF a < b THEN b ELSE a
=============================================================================
