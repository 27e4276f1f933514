------------------------ MODULE CommandReaderProofs ------------------------
(* The commands handled are the lines that were written, however the bytes  *)
(* come: for a buffer of any size, any bytes and reads of any length.       *)
EXTENDS CommandReader, Intervals, SequenceTheorems

-----------------------------------------------------------------------------
(* Sequences joined and cut *)

(* What two sequences one after the other hold, and what cutting them gives back *)
LEMMA Joined ==
  ASSUME NEW S, NEW a \in Seq(S), NEW c \in Seq(S)
  PROVE  /\ a \o c \in Seq(S) /\ Len(a \o c) = Len(a) + Len(c)
         /\ \A i \in 1 .. Len(a) : (a \o c)[i] = a[i]
         /\ \A i \in 1 .. Len(c) : (a \o c)[Len(a) + i] = c[i]
         /\ SubSeq(a \o c, 1, Len(a)) = a
<1>1. a \o c \in Seq(S) /\ Len(a \o c) = Len(a) + Len(c)
  BY ConcatProperties
<1>2. ASSUME NEW i \in 1 .. Len(a)
      PROVE  (a \o c)[i] = a[i]
  OBVIOUS
<1>3. ASSUME NEW i \in 1 .. Len(c)
      PROVE  (a \o c)[Len(a) + i] = c[i]
  OBVIOUS
<1>4. SubSeq(a \o c, 1, Len(a)) = a
  OBVIOUS
<1> QED
  BY <1>1, <1>2, <1>3, <1>4

Associates(a, c, e) == Append(a \o c, e) = a \o Append(c, e)

(* What is appended to the second part is appended to the whole.            *)
LEMMA JoinedAppended ==
  ASSUME NEW S, NEW a \in Seq(S), NEW c \in Seq(S), NEW e \in S
  PROVE  Associates(a, c, e)
BY DEF Associates

(* The length and the bytes of a piece of a sequence.                       *)
LEMMA Piece ==
  ASSUME NEW S, NEW t \in Seq(S), NEW p \in Nat, NEW q \in Nat, p <= q, q <= Len(t)
  PROVE  /\ SubSeq(t, p + 1, q) \in Seq(S) /\ Len(SubSeq(t, p + 1, q)) = q - p
         /\ \A i \in 1 .. q - p : SubSeq(t, p + 1, q)[i] = t[p + i]
<1> DEFINE piece == SubSeq(t, p + 1, q)
<1>1. \A i \in p + 1 .. q : t[i] \in S
  OBVIOUS
<1>2. piece \in Seq(S)
  BY <1>1, SubSeqProperties
<1>3. Len(piece) = IF p + 1 <= q THEN q - (p + 1) + 1 ELSE 0
  BY <1>1, SubSeqProperties
<1>4. ASSUME NEW i \in 1 .. q - p
      PROVE  piece[i] = t[p + i]
  <2>1. i \in 1 .. q - (p + 1) + 1 /\ (p + 1) + i - 1 = p + i
    OBVIOUS
  <2>2. piece[i] = t[(p + 1) + i - 1]
    BY <1>1, <2>1, SubSeqProperties
  <2> QED
    BY <2>1, <2>2
<1> QED
  BY <1>2, <1>3, <1>4

-----------------------------------------------------------------------------
(* What the two recursive definitions compute, one byte at a time *)

Nothing == [line |-> <<>>, lines |-> <<>>]
Speech  == [line : Seq(Bytes), lines : Seq(Seq(Bytes))]
Cuts    == [line : Nat \ {0}, lines : Seq(Seq(Bytes))]

(* What one byte makes of the heard is of the heard's type.                 *)
LEMMA HeardType ==
  ASSUME NEW said \in Speech, NEW b \in Bytes
  PROVE  Heard(said, b) \in Speech
<1>1. Append(said.line, b) \in Seq(Bytes)
  BY DEF Speech
<1>2. Append(said.lines, said.line) \in Seq(Seq(Bytes)) /\ <<>> \in Seq(Bytes)
  BY DEF Speech
<1> QED
  BY <1>1, <1>2 DEF Heard, Speech

(* Said is a recursion over the bytes: nothing is said by no bytes, and one *)
(* more byte is heard after those before it.                                *)
LEMMA SaidUnfolds ==
  ASSUME NEW bytes \in Seq(Bytes)
  PROVE  /\ Said(bytes) \in [0 .. Len(bytes) -> Speech]
         /\ Said(bytes)[0] = Nothing
         /\ \A n \in 1 .. Len(bytes) :
              Said(bytes)[n] = Heard(Said(bytes)[n - 1], bytes[n])
<1> DEFINE Upto(f) == [n \in 0 .. Len(bytes) |->
                         IF n = 0 THEN Nothing ELSE Heard(f[n - 1], bytes[n])]
           Hears == [n \in 1 .. Len(bytes) |->
                      [said \in Speech |-> Heard(said, bytes[n])]]
<1>1. Nothing \in Speech
  BY DEF Nothing, Speech
<1>2. ASSUME NEW n \in 1 .. Len(bytes), NEW said \in Speech
      PROVE  Hears[n][said] = Heard(said, bytes[n]) /\ Hears[n][said] \in Speech
  BY <1>2, HeardType
<1>3. PICK f : Iterates(f, Speech, Len(bytes), Nothing, Hears)
  <2>1. StaysIn(Speech, Len(bytes), Hears)
    BY <1>2 DEF StaysIn
  <2> HIDE DEF Hears
  <2> QED
    BY <1>1, <2>1, Len(bytes) \in Nat, Recursion
<1>4. f = Upto(f)
  <2>1. ASSUME NEW n \in 1 .. Len(bytes)
        PROVE  f[n] = Heard(f[n - 1], bytes[n])
    <3>1. f[n - 1] \in Speech /\ f[n] = Hears[n][f[n - 1]]
      BY <1>3, n - 1 \in 0 .. Len(bytes) DEF Iterates
    <3> QED
      BY <1>2, <3>1
  <2> QED
    BY <1>3, <2>1 DEF Iterates
<1>5. Said(bytes) = CHOOSE g : g = Upto(g)
  BY DEF Said, Nothing
<1>6. Said(bytes) = Upto(Said(bytes))
  <2> HIDE DEF Upto
  <2> QED
    BY <1>4, <1>5
<1>7. ASSUME NEW g, g = Upto(g)
      PROVE  g[0] = Nothing /\ \A n \in 1 .. Len(bytes) : g[n] = Heard(g[n - 1], bytes[n])
  BY <1>7
<1>8. DOMAIN Said(bytes) = 0 .. Len(bytes)
  BY <1>6
<1>9. \A n \in 0 .. Len(bytes) : Said(bytes)[n] \in Speech
  <2> DEFINE T == {n \in 0 .. Len(bytes) : Said(bytes)[n] \in Speech}
  <2>1. 0 \in T
    BY <1>1, <1>6, <1>7
  <2>2. ASSUME NEW n \in 0 .. Len(bytes) - 1, n \in T
        PROVE  n + 1 \in T
    <3>1. Said(bytes)[n + 1] = Heard(Said(bytes)[n], bytes[n + 1])
      <4> HIDE DEF Upto
      <4>1. n + 1 \in 1 .. Len(bytes) /\ (n + 1) - 1 = n
        OBVIOUS
      <4> QED
        BY <1>6, <1>7, <4>1
    <3>2. bytes[n + 1] \in Bytes
      OBVIOUS
    <3> QED
      BY <2>2, <3>1, <3>2, HeardType
  <2> HIDE DEF T
  <2>3. \A n \in 0 .. Len(bytes) : n \in T
    BY <2>1, <2>2, Len(bytes) \in Nat, Induction
  <2> QED
    BY <2>3 DEF T
<1>10. Said(bytes) = [n \in 0 .. Len(bytes) |-> Said(bytes)[n]]
  BY <1>6
<1> QED
  BY <1>6, <1>7, <1>9, <1>10

(* What the first bytes say does not depend on the bytes after them.        *)
LEMMA SaidOfPrefix ==
  ASSUME NEW s \in Seq(Bytes), NEW m \in 0 .. Len(s)
  PROVE  Reference(SubSeq(s, 1, m)) = Said(s)[m]
<1> DEFINE p == SubSeq(s, 1, m)
           T == {n \in 0 .. m : Said(p)[n] = Said(s)[n]}
<1>1. p \in Seq(Bytes) /\ Len(p) = m /\ \A i \in 1 .. m : p[i] = s[i]
  BY SubSeqProperties, ElementOfSeq
<1> HIDE DEF p
<1>2. 0 \in T
  BY <1>1, SaidUnfolds
<1>3. ASSUME NEW n \in 0 .. m - 1, n \in T
      PROVE  n + 1 \in T
  <2>1. n + 1 \in 1 .. Len(p) /\ n + 1 \in 1 .. Len(s) /\ (n + 1) - 1 = n
    BY <1>1
  <2>2. /\ Said(p)[n + 1] = Heard(Said(p)[n], p[n + 1])
        /\ Said(s)[n + 1] = Heard(Said(s)[n], s[n + 1])
    BY <1>1, <2>1, SaidUnfolds
  <2> QED
    BY <1>1, <1>3, <2>1, <2>2
<1>4. m \in T
  <2> HIDE DEF T
  <2> QED
    BY <1>2, <1>3, m \in Nat, m \in 0 .. m, Induction
<1> QED
  BY <1>1, <1>4 DEF Reference, p

(* The loop over the newlines of the buffer, unfolded once.                 *)
LEMMA CutUnfolds ==
  ASSUME NEW s \in Seq(Bytes)
  PROVE  /\ Cut(s) \in [0 .. Len(s) -> Cuts]
         /\ Cut(s)[0] = [line |-> 1, lines |-> <<>>]
         /\ \A n \in 1 .. Len(s) : Cut(s)[n] = CutAt(s, n, Cut(s)[n - 1])
<1> DEFINE start == [line |-> 1, lines |-> <<>>]
           Upto(f) == [n \in 0 .. Len(s) |->
                         IF n = 0 THEN start ELSE CutAt(s, n, f[n - 1])]
           Cutting == [n \in 1 .. Len(s) |-> [cut \in Cuts |-> CutAt(s, n, cut)]]
<1>1. start \in Cuts
  BY DEF Cuts
<1>2. ASSUME NEW n \in 1 .. Len(s), NEW cut \in Cuts
      PROVE  Cutting[n][cut] = CutAt(s, n, cut) /\ CutAt(s, n, cut) \in Cuts
  <2>1. SubSeq(s, cut.line, n - 1) \in Seq(Bytes)
    <3>1. \A i \in cut.line .. n - 1 : s[i] \in Bytes
      BY DEF Cuts
    <3> QED
      BY <3>1, SubSeqProperties DEF Cuts
  <2>2. Append(cut.lines, SubSeq(s, cut.line, n - 1)) \in Seq(Seq(Bytes))
    BY <2>1 DEF Cuts
  <2> QED
    BY <2>2 DEF CutAt, Cuts
<1>3. PICK f : Iterates(f, Cuts, Len(s), start, Cutting)
  <2>1. StaysIn(Cuts, Len(s), Cutting)
    BY <1>2 DEF StaysIn
  <2> HIDE DEF Cutting, start
  <2> QED
    BY <1>1, <2>1, Len(s) \in Nat, Recursion
<1> HIDE DEF Cutting
<1>4. f = Upto(f)
  <2>1. ASSUME NEW n \in 1 .. Len(s)
        PROVE  f[n] = CutAt(s, n, f[n - 1])
    <3>1. f[n - 1] \in Cuts /\ f[n] = Cutting[n][f[n - 1]]
      BY <1>3, n - 1 \in 0 .. Len(s) DEF Iterates
    <3> QED
      BY <1>2, <3>1
  <2> QED
    BY <1>3, <2>1 DEF Iterates
<1>5. Cut(s) = CHOOSE g : g = Upto(g)
  BY DEF Cut
<1>6. Cut(s) = Upto(Cut(s))
  <2> HIDE DEF Upto
  <2> QED
    BY <1>4, <1>5
<1>7. /\ Cut(s)[0] = start
      /\ \A n \in 1 .. Len(s) : Cut(s)[n] = CutAt(s, n, Cut(s)[n - 1])
      /\ Cut(s) = [n \in 0 .. Len(s) |-> Cut(s)[n]]
  <2> DEFINE c == Cut(s)
  <2>1. c = Upto(c)
    BY <1>6
  <2> HIDE DEF c
  <2>2. /\ c[0] = start
        /\ \A n \in 1 .. Len(s) : c[n] = CutAt(s, n, c[n - 1])
        /\ c = [n \in 0 .. Len(s) |-> c[n]]
    BY <2>1
  <2> QED
    BY <2>2 DEF c
<1> HIDE DEF start, Upto
<1>8. \A n \in 0 .. Len(s) : Cut(s)[n] \in Cuts
  <2> DEFINE T == {n \in 0 .. Len(s) : Cut(s)[n] \in Cuts}
  <2>1. 0 \in T
    BY <1>1, <1>7
  <2>2. ASSUME NEW n \in 0 .. Len(s) - 1, n \in T
        PROVE  n + 1 \in T
    <3>1. n + 1 \in 1 .. Len(s) /\ (n + 1) - 1 = n
      OBVIOUS
    <3>2. Cut(s)[n + 1] = CutAt(s, n + 1, Cut(s)[n])
      BY <1>7, <3>1
    <3> QED
      BY <1>2, <2>2, <3>1, <3>2
  <2> HIDE DEF T
  <2>3. \A n \in 0 .. Len(s) : n \in T
    BY <2>1, <2>2, Len(s) \in Nat, Induction
  <2> QED
    BY <2>3 DEF T
<1> QED
  BY <1>7, <1>8 DEF start

-----------------------------------------------------------------------------
(* The loop over the buffer hears what was said *)

(* The line that is being said has no newline in it. *)
LEMMA LineGoesOn ==
  ASSUME NEW t \in Seq(Bytes), NEW n \in 0 .. Len(t)
  PROVE  \A i \in 1 .. Len(Said(t)[n].line) : Said(t)[n].line[i] # Newline
<1> DEFINE Open(k) == \A i \in 1 .. Len(Said(t)[k].line) : Said(t)[k].line[i] # Newline
           T == {k \in 0 .. Len(t) : Open(k)}
<1>1. 0 \in T
  BY SaidUnfolds DEF Nothing
<1>2. ASSUME NEW k \in 0 .. Len(t) - 1, k \in T
      PROVE  k + 1 \in T
  <2>1. k + 1 \in 1 .. Len(t) /\ (k + 1) - 1 = k /\ k \in 0 .. Len(t)
    OBVIOUS
  <2>2. Said(t)[k + 1] = Heard(Said(t)[k], t[k + 1])
    BY <2>1, SaidUnfolds
  <2>5. Said(t)[k].line \in Seq(Bytes) /\ Open(k)
    BY <1>2, <2>1, SaidUnfolds DEF Speech
  <2>3. CASE t[k + 1] = Newline
    BY <2>2, <2>3 DEF Heard
  <2>4. CASE t[k + 1] # Newline
    <3>1. Said(t)[k + 1].line = Append(Said(t)[k].line, t[k + 1])
      BY <2>2, <2>4 DEF Heard
    <3>2. Open(k + 1)
      BY <2>4, <2>5, <3>1
    <3> QED
      BY <3>2
  <2> QED
    BY <2>3, <2>4
<1> HIDE DEF T
<1>3. n \in T
  BY <1>1, <1>2, Len(t) \in Nat, Induction
<1> QED
  BY <1>3 DEF T

(* No newline gets into a line that is said, or into the one that goes on.  *)
LEMMA LettersOnly ==
  ASSUME NEW t \in Seq(Bytes), NEW n \in 0 .. Len(t)
  PROVE  Said(t)[n].line \in Seq(Letters) /\ Said(t)[n].lines \in Seq(Seq(Letters))
<1> DEFINE Plain(k) == /\ Said(t)[k].line \in Seq(Letters)
                       /\ Said(t)[k].lines \in Seq(Seq(Letters))
           T == {k \in 0 .. Len(t) : Plain(k)}
<1>1. 0 \in T
  <2>1. Said(t)[0].line = <<>> /\ Said(t)[0].lines = <<>>
    BY SaidUnfolds DEF Nothing
  <2>2. <<>> \in Seq(Letters) /\ <<>> \in Seq(Seq(Letters))
    OBVIOUS
  <2>3. Plain(0) /\ 0 \in 0 .. Len(t)
    BY <2>1, <2>2
  <2> HIDE DEF Plain
  <2> QED
    BY <2>3
<1>2. ASSUME NEW k \in 0 .. Len(t) - 1, k \in T
      PROVE  k + 1 \in T
  <2>1. k + 1 \in 1 .. Len(t) /\ (k + 1) - 1 = k /\ t[k + 1] \in Bytes
    OBVIOUS
  <2>2. Said(t)[k + 1] = Heard(Said(t)[k], t[k + 1])
    BY <2>1, SaidUnfolds
  <2>3. Plain(k)
    BY <1>2
  <2>4. CASE t[k + 1] = Newline
    <3>1. Append(Said(t)[k].lines, Said(t)[k].line) \in Seq(Seq(Letters))
      BY <2>3
    <3>2. Plain(k + 1)
      BY <2>2, <2>3, <2>4, <3>1 DEF Heard
    <3> QED
      BY <2>1, <3>2
  <2>5. CASE t[k + 1] # Newline
    <3>1. t[k + 1] \in Letters
      BY <2>1, <2>5 DEF Bytes
    <3>2. Append(Said(t)[k].line, t[k + 1]) \in Seq(Letters)
      BY <2>3, <3>1
    <3>3. Plain(k + 1)
      BY <2>2, <2>3, <2>5, <3>2 DEF Heard
    <3> QED
      BY <2>1, <3>3
  <2> QED
    BY <2>4, <2>5
<1> HIDE DEF T
<1>3. n \in T
  BY <1>1, <1>2, Len(t) \in Nat, Induction
<1> QED
  BY <1>3 DEF T

(* Nothing is cut before the first newline. *)
LEMMA NothingToCut ==
  ASSUME NEW s \in Seq(Bytes), NEW m \in 0 .. Len(s),
         \A i \in 1 .. m : s[i] # Newline
  PROVE  Cut(s)[m] = [line |-> 1, lines |-> <<>>]
<1> DEFINE T == {n \in 0 .. m : Cut(s)[n] = [line |-> 1, lines |-> <<>>]}
<1>1. 0 \in T
  BY CutUnfolds
<1>2. ASSUME NEW n \in 0 .. m - 1, n \in T
      PROVE  n + 1 \in T
  <2>1. n + 1 \in 1 .. Len(s) /\ (n + 1) - 1 = n /\ s[n + 1] # Newline
    OBVIOUS
  <2>2. Cut(s)[n + 1] = CutAt(s, n + 1, Cut(s)[n])
    BY <2>1, CutUnfolds
  <2> QED
    BY <1>2, <2>1, <2>2 DEF CutAt
<1> HIDE DEF T
<1>3. m \in T
  BY <1>1, <1>2, m \in Nat, m \in 0 .. m, Induction
<1> QED
  BY <1>3 DEF T

(* The next line starts no later than the bytes that are cut reach. *)
LEMMA CutStarts ==
  ASSUME NEW s \in Seq(Bytes), NEW m \in 0 .. Len(s)
  PROVE  Cut(s)[m].line \in 1 .. m + 1
<1> DEFINE T == {n \in 0 .. Len(s) : Cut(s)[n].line \in 1 .. n + 1}
<1>1. 0 \in T
  BY CutUnfolds
<1>2. ASSUME NEW n \in 0 .. Len(s) - 1, n \in T
      PROVE  n + 1 \in T
  <2>1. n + 1 \in 1 .. Len(s) /\ (n + 1) - 1 = n
    OBVIOUS
  <2>2. Cut(s)[n + 1] = CutAt(s, n + 1, Cut(s)[n])
    BY <2>1, CutUnfolds
  <2> QED
    BY <1>2, <2>1, <2>2 DEF CutAt
<1> HIDE DEF T
<1>3. m \in T
  BY <1>1, <1>2, Len(s) \in Nat, Induction
<1> QED
  BY <1>3 DEF T

(* What has been said when the buffer s is cut up to its n-th byte, if had  *)
(* had been said before.                                                    *)
SaidAfter(had, s, n) ==
  [line |-> SubSeq(s, Cut(s)[n].line, n), lines |-> had \o Cut(s)[n].lines]

(* One byte.  The buffer is no longer than BufferSize, so that every line   *)
(* that ends in it fits.                                                    *)
LEMMA ByteHeard ==
  ASSUME NEW s \in Seq(Bytes), Len(s) <= BufferSize, NEW n \in 0 .. Len(s) - 1,
         NEW had \in Seq(Seq(Bytes))
  PROVE  Heard(SaidAfter(had, s, n), s[n + 1]) = SaidAfter(had, s, n + 1)
<1> DEFINE b    == s[n + 1]
           from == Cut(s)[n].line
           cut  == Cut(s)[n].lines
           left == SubSeq(s, from, n)
<1>1. /\ n + 1 \in 1 .. Len(s) /\ (n + 1) - 1 = n /\ n \in 0 .. Len(s)
      /\ n \in Nat /\ Len(s) \in Nat
  OBVIOUS
<1>2. Cut(s)[n + 1] = CutAt(s, n + 1, Cut(s)[n]) /\ Cut(s)[n] \in Cuts
  BY <1>1, CutUnfolds
<1>3. from \in 1 .. n + 1
  BY <1>1, CutStarts
<1>4. left \in Seq(Bytes) /\ Len(left) = n - from + 1
  <2>1. \A i \in from .. n : s[i] \in Bytes
    BY <1>1, <1>3
  <2>2. from \in Int /\ n \in Int
    BY <1>1, <1>3
  <2> HIDE DEF from
  <2>3. Len(left) = IF from <= n THEN n - from + 1 ELSE 0
    BY <2>1, <2>2, SubSeqProperties
  <2>4. left \in Seq(Bytes)
    BY <2>1, <2>2, SubSeqProperties
  <2> QED
    BY <1>1, <1>3, <2>3, <2>4
<1>5. cut \in Seq(Seq(Bytes))
  BY <1>2 DEF Cuts
<1>6. CASE b # Newline
  <2>1. Cut(s)[n + 1] = Cut(s)[n]
    BY <1>2, <1>6 DEF CutAt
  <2>2. SubSeq(s, from, n + 1) = Append(left, b)
    <3> HIDE DEF from
    <3> QED
      BY <1>1, <1>3, <1>4
  <2>3. Heard(SaidAfter(had, s, n), b) =
          [line |-> Append(left, b), lines |-> had \o cut]
    BY <1>6 DEF Heard, SaidAfter
  <2> QED
    BY <2>1, <2>2, <2>3 DEF SaidAfter
<1>7. CASE b = Newline
  <2>1. Cut(s)[n + 1] = [line |-> n + 2, lines |-> Append(cut, left)]
    BY <1>1, <1>2, <1>7 DEF CutAt
  <2>2. Len(left) < BufferSize
    <3> HIDE DEF from, left
    <3> QED
      BY <1>1, <1>3, <1>4, CommandReaderAssumption
  <2>3. Heard(SaidAfter(had, s, n), b) =
          [line |-> <<>>, lines |-> Append(had \o cut, left)]
    BY <1>7, <2>2 DEF Heard, SaidAfter
  <2>4. SubSeq(s, n + 2, n + 1) = <<>>
    BY <1>1, SubSeqEmpty
  <2>5. Append(had \o cut, left) = had \o Append(cut, left)
    <3> HIDE DEF cut, left
    <3>1. Associates(had, cut, left)
      BY <1>4, <1>5, JoinedAppended
    <3> QED
      BY <3>1 DEF Associates
  <2>6. SaidAfter(had, s, n + 1) =
          [line |-> SubSeq(s, n + 2, n + 1), lines |-> had \o Append(cut, left)]
    BY <2>1 DEF SaidAfter
  <2> QED
    BY <2>3, <2>4, <2>5, <2>6
<1> QED
  BY <1>6, <1>7

(* The k bytes after the w-th of the buffer are those after the p-th of the *)
(* stream.                                                                  *)
SameBytes(s, w, t, p, k) == \A i \in 1 .. k : s[w + i] = t[p + i]

(* The first p bytes of the stream say what the first w of the buffer do.   *)
SaysTheSame(t, p, had, s, w) == Said(t)[p] = SaidAfter(had, s, w)

(* Buffer and stream go on to say the same, over any number of bytes.       *)
LEMMA BytesHeard ==
  ASSUME NEW t \in Seq(Bytes), NEW s \in Seq(Bytes), Len(s) <= BufferSize,
         NEW had \in Seq(Seq(Bytes)),
         NEW p \in Nat, NEW w \in Nat, NEW k \in Nat,
         p + k <= Len(t), w + k = Len(s),
         SameBytes(s, w, t, p, k),
         SaysTheSame(t, p, had, s, w)
  PROVE  SaysTheSame(t, p + k, had, s, w + k)
<1> DEFINE T == {j \in 0 .. k : Said(t)[p + j] = SaidAfter(had, s, w + j)}
<1>1. 0 \in T
  BY DEF SaysTheSame
<1>2. ASSUME NEW j \in 0 .. k - 1, j \in T
      PROVE  j + 1 \in T
  <2>1. /\ p + j + 1 \in 1 .. Len(t) /\ (p + j + 1) - 1 = p + j
        /\ w + j \in 0 .. Len(s) - 1 /\ j + 1 \in 1 .. k
        /\ p + (j + 1) = p + j + 1 /\ w + (j + 1) = (w + j) + 1
    OBVIOUS
  <2>2. Said(t)[p + j + 1] = Heard(Said(t)[p + j], t[p + j + 1])
    BY <2>1, SaidUnfolds
  <2>3. s[(w + j) + 1] = t[p + j + 1]
    <3>1. s[w + (j + 1)] = t[p + (j + 1)]
      BY <2>1 DEF SameBytes
    <3> QED
      BY <2>1, <3>1
  <2>4. Said(t)[p + j] = SaidAfter(had, s, w + j)
    BY <1>2
  <2>5. Said(t)[p + j + 1] = SaidAfter(had, s, (w + j) + 1)
    BY <2>1, <2>2, <2>3, <2>4, ByteHeard
  <2> QED
    BY <2>1, <2>5
<1> HIDE DEF T
<1>3. k \in T
  BY <1>1, <1>2, k \in 0 .. k, Induction
<1> QED
  BY <1>3 DEF T, SaysTheSame

(* A buffer that holds the line so far and what was read next.              *)
LEMMA LoopHears ==
  ASSUME NEW t \in Seq(Bytes), NEW p \in Nat, NEW q \in Nat, p <= q, q <= Len(t),
         Len(Said(t)[p].line \o SubSeq(t, p + 1, q)) <= BufferSize
  PROVE  LET s == Said(t)[p].line \o SubSeq(t, p + 1, q)
         IN  /\ s \in Seq(Bytes)
             /\ Said(t)[q].lines = Said(t)[p].lines \o CompleteLines(s)
             /\ Said(t)[q].line = Remainder(s)
<1> DEFINE line  == Said(t)[p].line
           had   == Said(t)[p].lines
           piece == SubSeq(t, p + 1, q)
           buf     == line \o piece
<1>1. /\ line \in Seq(Bytes) /\ had \in Seq(Seq(Bytes))
      /\ Said(t)[p] = [line |-> line, lines |-> had]
  <2>1. Said(t)[p] \in Speech
    BY SaidUnfolds, p \in 0 .. Len(t)
  <2> QED
    BY <2>1 DEF Speech
<1>2. /\ piece \in Seq(Bytes) /\ Len(piece) = q - p
      /\ \A i \in 1 .. q - p : piece[i] = t[p + i]
  BY Piece
<1>3. \A i \in 1 .. Len(line) : line[i] # Newline
  BY LineGoesOn, p \in 0 .. Len(t)
<1>4. Len(buf) <= BufferSize
  OBVIOUS
<1> HIDE DEF line, had, piece
<1>5. /\ buf \in Seq(Bytes) /\ Len(buf) = Len(line) + Len(piece)
      /\ \A i \in 1 .. Len(line) : buf[i] = line[i]
      /\ \A i \in 1 .. Len(piece) : buf[Len(line) + i] = piece[i]
      /\ SubSeq(buf, 1, Len(line)) = line
  BY <1>1, <1>2, Joined
<1> HIDE DEF buf
<1>6. Said(t)[p] = SaidAfter(had, buf, Len(line))
  <2>1. Cut(buf)[Len(line)] = [line |-> 1, lines |-> <<>>]
    <3>1. Len(line) \in 0 .. Len(buf)
      BY <1>1, <1>2, <1>5
    <3>2. \A i \in 1 .. Len(line) : buf[i] # Newline
      BY <1>3, <1>5
    <3> QED
      BY <1>5, <3>1, <3>2, NothingToCut
  <2>2. had \o <<>> = had
    BY <1>1, ConcatEmptySeq
  <2> QED
    BY <1>1, <1>5, <2>1, <2>2 DEF SaidAfter
<1>7. PICK k \in Nat, w \in Nat : k = q - p /\ w = Len(line)
  <2>1. q - p \in Nat /\ Len(line) \in Nat
    BY <1>1
  <2> QED
    BY <2>1
<1>8. p + k = q /\ w + k = Len(buf)
  BY <1>2, <1>5, <1>7
<1>9. Said(t)[q] = SaidAfter(had, buf, Len(buf))
  <2>1. SameBytes(buf, w, t, p, k)
    BY <1>2, <1>5, <1>7 DEF SameBytes
  <2>2. SaysTheSame(t, p, had, buf, w)
    BY <1>6, <1>7 DEF SaysTheSame
  <2>3. p + k <= Len(t)
    BY <1>8
  <2>4. SaysTheSame(t, p + k, had, buf, w + k)
    BY <1>1, <1>4, <1>5, <1>8, <2>1, <2>2, <2>3, BytesHeard
  <2> QED
    BY <1>8, <2>4 DEF SaysTheSame
<1>10. /\ buf \in Seq(Bytes)
       /\ Said(t)[q].lines = had \o CompleteLines(buf)
       /\ Said(t)[q].line = Remainder(buf)
  <2>1. Said(t)[q] = [line  |-> SubSeq(buf, Cut(buf)[Len(buf)].line, Len(buf)),
                      lines |-> had \o Cut(buf)[Len(buf)].lines]
    BY <1>9, Zenon DEF SaidAfter
  <2>2. Said(t)[q] = [line |-> Remainder(buf), lines |-> had \o CompleteLines(buf)]
    BY <2>1, Zenon DEF Remainder, CompleteLines
  <2> QED
    BY <1>5, <2>2
<1> QED
  BY <1>10 DEF buf, line, had, piece

-----------------------------------------------------------------------------
(* A line that is dropped *)

(* Between p and q the same line goes on. *)
GoesOn(t, p, q) == \A i \in p + 1 .. q : t[i] # Newline

GrowsOnly(t, p, q) ==
  /\ Said(t)[q].lines = Said(t)[p].lines
  /\ Len(Said(t)[q].line) = Len(Said(t)[p].line) + (q - p)

(* Dropping: the bytes up to the first newline are of the line that is      *)
(* dropped, which is heard to its end and not handled.                      *)
LEMMA Skipped ==
  ASSUME NEW t \in Seq(Bytes), NEW p \in Nat, NEW q \in Nat, p <= q, q <= Len(t),
         GoesOn(t, p, q)
  PROVE  GrowsOnly(t, p, q)
<1> DEFINE Goes(j) == /\ Said(t)[p + j].lines = Said(t)[p].lines
                      /\ Len(Said(t)[p + j].line) = Len(Said(t)[p].line) + j
           T == {j \in 0 .. q - p : Goes(j)}
<1>1. Len(Said(t)[p].line) \in Nat
  BY SaidUnfolds, p \in 0 .. Len(t) DEF Speech
<1>2. 0 \in T
  BY <1>1
<1>3. ASSUME NEW j \in 0 .. q - p - 1, j \in T
      PROVE  j + 1 \in T
  <2>1. /\ p + j + 1 \in 1 .. Len(t) /\ (p + j + 1) - 1 = p + j
        /\ p + j \in 0 .. Len(t) /\ p + (j + 1) = p + j + 1
        /\ t[p + j + 1] # Newline
    BY DEF GoesOn
  <2>2. Said(t)[p + j + 1] = Heard(Said(t)[p + j], t[p + j + 1])
    BY <2>1, SaidUnfolds
  <2>3. Said(t)[p + j].line \in Seq(Bytes)
    BY <2>1, SaidUnfolds DEF Speech
  <2>4. /\ Said(t)[p + j + 1].lines = Said(t)[p + j].lines
        /\ Said(t)[p + j + 1].line = Append(Said(t)[p + j].line, t[p + j + 1])
    BY <2>1, <2>2 DEF Heard
  <2>5. Len(Said(t)[p + j + 1].line) = Len(Said(t)[p + j].line) + 1
    BY <2>1, <2>3, <2>4
  <2>6. Goes(j)
    BY <1>3
  <2>7. Goes(j + 1)
    <3>1. Said(t)[p + j + 1].lines = Said(t)[p].lines
      BY <2>4, <2>6
    <3>2. PICK w \in Nat : w = Len(Said(t)[p].line)
      BY <1>1
    <3>3. Len(Said(t)[p + j].line) = w + j
      BY <2>6, <3>2
    <3>4. Len(Said(t)[p + j + 1].line) = w + (j + 1)
      BY <2>5, <3>3
    <3> QED
      BY <2>1, <3>1, <3>2, <3>4
  <2>8. j + 1 \in 0 .. q - p
    OBVIOUS
  <2> HIDE DEF Goes
  <2> QED
    BY <2>7, <2>8
<1> HIDE DEF T
<1>4. q - p \in T
  BY <1>2, <1>3, q - p \in Nat, q - p \in 0 .. q - p, Induction
<1>5. p + (q - p) = q
  OBVIOUS
<1> HIDE DEF Goes
<1>6. Goes(q - p)
  BY <1>4 DEF T
<1> QED
  BY <1>5, <1>6 DEF Goes, GrowsOnly

(* The first newline of a sequence that has one.                            *)
LEMMA FirstBreak ==
  ASSUME NEW s \in Seq(Bytes), Breaks(s) # {}
  PROVE  /\ Min(Breaks(s)) \in 1 .. Len(s)
         /\ s[Min(Breaks(s))] = Newline
         /\ \A i \in 1 .. Min(Breaks(s)) - 1 : s[i] # Newline
<1>1. Breaks(s) \subseteq Nat
  BY DEF Breaks
<1>2. \E n \in Breaks(s) : \A m \in Breaks(s) : n <= m
  BY <1>1, LeastElement
<1>3. /\ Min(Breaks(s)) \in Breaks(s)
      /\ \A m \in Breaks(s) : Min(Breaks(s)) <= m
  BY <1>2 DEF Min
<1>4. PICK first : first = Min(Breaks(s))
  OBVIOUS
<1>5. first \in Breaks(s) /\ \A m \in Breaks(s) : first <= m
  BY <1>3, <1>4
<1>6. /\ first \in 1 .. Len(s) /\ s[first] = Newline
      /\ \A i \in 1 .. first - 1 : s[i] # Newline
  BY <1>5 DEF Breaks
<1> QED
  BY <1>4, <1>6

(* A line is never longer than what it is cut from. *)
LEMMA RemainderFits ==
  ASSUME NEW s \in Seq(Bytes)
  PROVE  Len(Remainder(s)) <= Len(s)
<1> DEFINE from == Cut(s)[Len(s)].line
<1>1. from \in 1 .. Len(s) + 1 /\ Len(s) \in Nat
  BY CutStarts, Len(s) \in 0 .. Len(s)
<1> HIDE DEF from
<1>2. \A i \in from .. Len(s) : s[i] \in Bytes
  BY <1>1
<1>3. Len(SubSeq(s, from, Len(s))) = IF from <= Len(s) THEN Len(s) - from + 1 ELSE 0
  BY <1>1, <1>2, SubSeqProperties
<1> QED
  BY <1>1, <1>3 DEF Remainder, from

-----------------------------------------------------------------------------
(* The inductive invariant *)

(* When p bytes of t were read: what was handled is what was said, and the  *)
(* buffer holds the line that goes on, or that line is too long already.    *)
Understood(t, p, buffer, dropping, lines) ==
  /\ t \in Seq(Bytes) /\ p \in 0 .. Len(t) /\ dropping \in BOOLEAN
  /\ lines = Said(t)[p].lines
  /\ IF dropping THEN buffer = <<>> /\ Len(Said(t)[p].line) >= BufferSize
     ELSE buffer = Said(t)[p].line /\ Len(buffer) < BufferSize

IInv == Understood(stream, taken, data, discarding, handled)

(* The end of a read.  rest is what the loop over the newlines was given.   *)
LEMMA ReadEnds ==
  ASSUME NEW t \in Seq(Bytes), NEW p \in Nat, NEW q \in Nat, p <= q, q <= Len(t),
         NEW rest, rest = Said(t)[p].line \o SubSeq(t, p + 1, q),
         Len(rest) <= BufferSize,
         NEW left, left = Remainder(rest)
  PROVE  Understood(t, q, IF TooLong(left) THEN <<>> ELSE left, TooLong(left),
                    Said(t)[p].lines \o CompleteLines(rest))
<1>1. /\ rest \in Seq(Bytes)
      /\ Said(t)[q].lines = Said(t)[p].lines \o CompleteLines(rest)
      /\ Said(t)[q].line = left
  BY LoopHears
<1>2. Len(left) <= Len(rest)
  BY <1>1, RemainderFits, Zenon
<1>3. Len(left) \in Nat /\ Len(rest) \in Nat
  <2>1. Said(t)[q].line \in Seq(Bytes)
    BY SaidUnfolds, q \in 0 .. Len(t) DEF Speech
  <2> QED
    BY <1>1, <2>1, LenProperties, Zenon
<1>4. TooLong(left) \in BOOLEAN /\ (TooLong(left) <=> Len(left) = BufferSize)
  BY DEF TooLong
<1>5. CASE TooLong(left)
  BY <1>1, <1>4, <1>5, q \in 0 .. Len(t), CommandReaderAssumption DEF Understood
<1>6. CASE ~TooLong(left)
  <2>1. PICK n \in Nat, m \in Nat : n = Len(left) /\ m = Len(rest)
    BY <1>3, Zenon
  <2>2. n <= m /\ m <= BufferSize /\ n # BufferSize
    BY <1>2, <1>4, <1>6, <2>1, Zenon
  <2>3. n < BufferSize
    BY <2>2, CommandReaderAssumption
  <2>4. Len(left) < BufferSize
    BY <2>1, <2>3, Zenon
  <2> QED
    BY <1>1, <1>4, <1>6, <2>4, q \in 0 .. Len(t) DEF Understood
<1> QED
  BY <1>5, <1>6

(* How much a read takes: never nothing, and never more than there is, or   *)
(* than the buffer has room for.                                            *)
Count == IF Available < Room THEN Available ELSE Room

Read == data \o SubSeq(stream, taken + 1, taken + Count)

(* A read never takes more bytes than there are, or than there is room for. *)
LEMMA CountFits ==
  ASSUME IInv, Available > 0
  PROVE  /\ taken \in Nat /\ taken + Count \in Nat /\ Count \in Nat
         /\ taken + Count <= Len(stream)
         /\ stream \in Seq(Bytes) /\ Len(stream) \in Nat
         /\ Len(data) \in Nat /\ Len(data) + Count <= BufferSize
<1>1. stream \in Seq(Bytes) /\ taken \in 0 .. Len(stream) /\ Len(stream) \in Nat
  BY DEF IInv, Understood
<1>2. Len(data) \in Nat /\ Len(data) < BufferSize
  <2>1. CASE discarding
    BY <2>1, CommandReaderAssumption DEF IInv, Understood
  <2>2. CASE ~discarding
    <3>1. data = Said(stream)[taken].line /\ Len(data) < BufferSize
      BY <2>2 DEF IInv, Understood
    <3>2. Said(stream)[taken].line \in Seq(Bytes)
      BY <1>1, SaidUnfolds DEF Speech
    <3> QED
      BY <3>1, <3>2
  <2> QED
    BY <2>1, <2>2
<1> QED
  BY <1>1, <1>2, CommandReaderAssumption DEF Count, Available, Room

(* Into a buffer with a line that goes on. *)
LEMMA LineIsRead ==
  ASSUME IInv, Available > 0, ~discarding,
         NEW left, left = Remainder(Read)
  PROVE  Understood(stream, taken + Count, IF TooLong(left) THEN <<>> ELSE left,
                    TooLong(left), handled \o CompleteLines(Read))
<1>1. data = Said(stream)[taken].line /\ handled = Said(stream)[taken].lines
  BY DEF IInv, Understood
<1>2. Read = Said(stream)[taken].line \o SubSeq(stream, taken + 1, taken + Count)
  BY <1>1 DEF Read
<1>3. Len(Read) <= BufferSize
  <2>1. data \in Seq(Bytes)
    BY <1>1, CountFits, SaidUnfolds, taken \in 0 .. Len(stream) DEF Speech
  <2>2. /\ SubSeq(stream, taken + 1, taken + Count) \in Seq(Bytes)
        /\ Len(SubSeq(stream, taken + 1, taken + Count)) = Count
    <3>1. /\ stream \in Seq(Bytes) /\ taken \in Nat /\ taken + Count \in Nat
          /\ taken <= taken + Count /\ taken + Count <= Len(stream)
          /\ (taken + Count) - taken = Count
      BY CountFits
    <3>2. /\ SubSeq(stream, taken + 1, taken + Count) \in Seq(Bytes)
          /\ Len(SubSeq(stream, taken + 1, taken + Count)) = (taken + Count) - taken
      BY <3>1, Piece
    <3> QED
      BY <3>1, <3>2
  <2>3. Len(Read) = Len(data) + Count
    BY <2>1, <2>2, Joined DEF Read
  <2> QED
    BY <2>3, CountFits
<1>4. /\ stream \in Seq(Bytes) /\ taken \in Nat /\ taken + Count \in Nat
      /\ taken <= taken + Count /\ taken + Count <= Len(stream)
  BY CountFits
<1>5. PICK p, q, rest : p = taken /\ q = taken + Count /\ rest = Read
  OBVIOUS
<1>6. Understood(stream, q, IF TooLong(left) THEN <<>> ELSE left, TooLong(left),
                 Said(stream)[p].lines \o CompleteLines(rest))
  BY <1>2, <1>3, <1>4, <1>5, ReadEnds
<1> QED
  BY <1>1, <1>5, <1>6

(* While a line is dropped the buffer is empty. *)
LEMMA DroppedReads ==
  ASSUME IInv, Available > 0, discarding
  PROVE  /\ Read = SubSeq(stream, taken + 1, taken + Count)
         /\ Read \in Seq(Bytes) /\ Len(Read) = Count
         /\ \A i \in 1 .. Count : Read[i] = stream[taken + i]
<1>1. data = <<>>
  BY DEF IInv, Understood
<1>2. /\ SubSeq(stream, taken + 1, taken + Count) \in Seq(Bytes)
      /\ Len(SubSeq(stream, taken + 1, taken + Count)) = Count
      /\ \A i \in 1 .. Count :
           SubSeq(stream, taken + 1, taken + Count)[i] = stream[taken + i]
  <2>1. taken <= taken + Count /\ (taken + Count) - taken = Count
    BY CountFits
  <2>2. /\ SubSeq(stream, taken + 1, taken + Count) \in Seq(Bytes)
        /\ Len(SubSeq(stream, taken + 1, taken + Count)) = (taken + Count) - taken
        /\ \A i \in 1 .. (taken + Count) - taken :
             SubSeq(stream, taken + 1, taken + Count)[i] = stream[taken + i]
    BY <2>1, CountFits, Piece
  <2> QED
    BY <2>1, <2>2
<1>3. Read = SubSeq(stream, taken + 1, taken + Count)
  BY <1>1, <1>2, ConcatEmptySeq DEF Read
<1> QED
  BY <1>2, <1>3

(* No end of the line that is dropped. *)
LEMMA AllIsDropped ==
  ASSUME IInv, Available > 0, discarding, Breaks(Read) = {}
  PROVE  Understood(stream, taken + Count, data, TRUE, handled)
<1>1. GoesOn(stream, taken, taken + Count)
  <2> SUFFICES ASSUME NEW i \in taken + 1 .. taken + Count
               PROVE  stream[i] # Newline
    BY DEF GoesOn
  <2>1. i - taken \in 1 .. Count /\ taken + (i - taken) = i
    BY CountFits
  <2>2. Read[i - taken] # Newline
    BY <2>1, DroppedReads DEF Breaks
  <2> QED
    BY <2>1, <2>2, DroppedReads
<1>2. /\ Said(stream)[taken + Count].lines = Said(stream)[taken].lines
      /\ Len(Said(stream)[taken + Count].line) = Len(Said(stream)[taken].line) + Count
  <2>1. taken <= taken + Count /\ (taken + Count) - taken = Count
    BY CountFits
  <2>2. GrowsOnly(stream, taken, taken + Count)
    BY <1>1, <2>1, CountFits, Skipped
  <2> QED
    BY <2>1, <2>2 DEF GrowsOnly
<1>3. /\ data = <<>> /\ handled = Said(stream)[taken].lines
      /\ Len(Said(stream)[taken].line) >= BufferSize
  BY DEF IInv, Understood
<1>4. Len(Said(stream)[taken].line) \in Nat
  BY CountFits, SaidUnfolds, taken \in 0 .. Len(stream) DEF Speech
<1>5. Len(Said(stream)[taken + Count].line) >= BufferSize
  BY <1>2, <1>3, <1>4, CountFits, CommandReaderAssumption
<1>6. taken + Count \in 0 .. Len(stream)
  BY CountFits
<1> QED
  BY <1>2, <1>3, <1>5, <1>6, CountFits DEF Understood

(* The line that is dropped ends, and the rest of the read is a buffer that *)
(* has been empty.                                                          *)
LEMMA DropEnds ==
  ASSUME IInv, Available > 0, discarding, Breaks(Read) # {},
         NEW left, left = Remainder(AfterNewline(Read))
  PROVE  Understood(stream, taken + Count, IF TooLong(left) THEN <<>> ELSE left,
                    TooLong(left), handled \o CompleteLines(AfterNewline(Read)))
<1>1. PICK f : f = Min(Breaks(Read))
  OBVIOUS
<1>2. f \in 1 .. Count /\ Read[f] = Newline /\ \A i \in 1 .. f - 1 : Read[i] # Newline
  BY <1>1, DroppedReads, FirstBreak
<1>3. PICK m : m = taken + f
  OBVIOUS
<1>4. /\ m \in Nat /\ m - 1 \in Nat /\ taken <= m - 1 /\ m - 1 <= Len(stream)
      /\ m <= taken + Count /\ m \in 1 .. Len(stream) /\ m - 1 \in 0 .. Len(stream)
      /\ (m - 1) - taken = f - 1 /\ f - 1 \in Nat
  BY <1>2, <1>3, CountFits
<1>5. GoesOn(stream, taken, m - 1)
  <2> SUFFICES ASSUME NEW i \in taken + 1 .. m - 1
               PROVE  stream[i] # Newline
    BY DEF GoesOn
  <2>1. i - taken \in 1 .. f - 1 /\ i - taken \in 1 .. Count /\ taken + (i - taken) = i
    BY <1>2, <1>3, CountFits
  <2> QED
    BY <1>2, <2>1, DroppedReads
<1>6. stream[m] = Newline
  BY <1>2, <1>3, DroppedReads
<1>7. /\ Said(stream)[m - 1].lines = Said(stream)[taken].lines
      /\ Len(Said(stream)[m - 1].line) = Len(Said(stream)[taken].line) + (f - 1)
  <2>1. GrowsOnly(stream, taken, m - 1)
    BY <1>4, <1>5, CountFits, Skipped
  <2> QED
    BY <1>4, <2>1 DEF GrowsOnly
<1>8. /\ handled = Said(stream)[taken].lines
      /\ Len(Said(stream)[taken].line) >= BufferSize
  BY DEF IInv, Understood
<1>9. ~(Len(Said(stream)[m - 1].line) < BufferSize)
  <2>1. Len(Said(stream)[taken].line) \in Nat
    BY CountFits, SaidUnfolds, taken \in 0 .. Len(stream) DEF Speech
  <2> QED
    BY <1>4, <1>7, <1>8, <2>1, CommandReaderAssumption
<1>10. Said(stream)[m] = [line |-> <<>>, lines |-> handled]
  <2>1. Said(stream)[m] = Heard(Said(stream)[m - 1], stream[m])
    BY <1>4, CountFits, SaidUnfolds
  <2> QED
    BY <1>6, <1>7, <1>8, <1>9, <2>1 DEF Heard
<1>11. AfterNewline(Read) = SubSeq(stream, m + 1, taken + Count)
  <2>1. AfterNewline(Read) = SubSeq(Read, f + 1, Count)
    BY <1>1, DroppedReads DEF AfterNewline
  <2>2. /\ SubSeq(Read, f + 1, Count) \in Seq(Bytes)
        /\ Len(SubSeq(Read, f + 1, Count)) = Count - f
        /\ \A i \in 1 .. Count - f : SubSeq(Read, f + 1, Count)[i] = Read[f + i]
    <3>1. /\ f \in Nat /\ Count \in Nat /\ f <= Count
          /\ Read \in Seq(Bytes) /\ Count <= Len(Read)
      BY <1>2, CountFits, DroppedReads
    <3> QED
      BY <3>1, Piece
  <2>3. /\ SubSeq(stream, m + 1, taken + Count) \in Seq(Bytes)
        /\ Len(SubSeq(stream, m + 1, taken + Count)) = (taken + Count) - m
        /\ \A i \in 1 .. (taken + Count) - m :
             SubSeq(stream, m + 1, taken + Count)[i] = stream[m + i]
    <3>1. /\ m \in Nat /\ taken + Count \in Nat /\ m <= taken + Count
          /\ stream \in Seq(Bytes) /\ taken + Count <= Len(stream)
      BY <1>4, CountFits
    <3> QED
      BY <3>1, Piece
  <2>4. (taken + Count) - m = Count - f
    BY <1>2, <1>3, CountFits
  <2>5. ASSUME NEW i \in 1 .. Count - f
        PROVE  Read[f + i] = stream[m + i]
    <3>1. f + i \in 1 .. Count /\ taken + (f + i) = m + i
      BY <1>2, <1>3, CountFits
    <3> QED
      BY <3>1, DroppedReads
  <2> QED
    BY <2>1, <2>2, <2>3, <2>4, <2>5, SeqEqual
<1>12. /\ AfterNewline(Read) = Said(stream)[m].line \o SubSeq(stream, m + 1, taken + Count)
       /\ Len(AfterNewline(Read)) <= BufferSize
  <2>1. /\ SubSeq(stream, m + 1, taken + Count) \in Seq(Bytes)
        /\ Len(SubSeq(stream, m + 1, taken + Count)) = (taken + Count) - m
    BY <1>4, CountFits, Piece
  <2>2. (taken + Count) - m <= BufferSize
    BY <1>2, <1>3, CountFits, CommandReaderAssumption
  <2> QED
    BY <1>10, <1>11, <2>1, <2>2, ConcatEmptySeq
<1>13. Said(stream)[m].lines = handled
  BY <1>10
<1> QED
  BY <1>4, <1>12, <1>13, CountFits, ReadEnds

(* One step per action.                                                     *)
LEMMA Preserved ==
  ASSUME IInv, [Next]_vars
  PROVE  IInv'
<1>1. CASE UNCHANGED vars
  BY <1>1 DEF vars, IInv
<1>2. CASE Write
  <2>1. PICK b \in Bytes : stream' = Append(stream, b)
    BY <1>2 DEF Write
  <2>2. /\ stream \in Seq(Bytes) /\ taken \in 0 .. Len(stream)
        /\ UNCHANGED <<taken, data, discarding, handled>>
    BY <1>2 DEF Write, IInv, Understood
  <2>3. stream' \in Seq(Bytes) /\ taken \in 0 .. Len(stream')
    BY <2>1, <2>2
  <2>4. SubSeq(stream', 1, taken) = SubSeq(stream, 1, taken)
    BY <2>1, <2>2
  <2>5. /\ Said(stream')[taken] = Reference(SubSeq(stream', 1, taken))
        /\ Said(stream)[taken] = Reference(SubSeq(stream, 1, taken))
    BY <2>2, <2>3, SaidOfPrefix
  <2>6. Said(stream')[taken'] = Said(stream)[taken]
    BY <2>2, <2>4, <2>5
  <2> QED
    BY <2>2, <2>3, <2>6 DEF IInv, Understood
<1>3. CASE HangUp
  BY <1>3 DEF HangUp, IInv
<1>4. CASE Turn
  <2>1. stream' = stream
    BY <1>4 DEF Turn
  <2>2. CASE ReadCommands
    <3>1. Available > 0 /\ taken' = taken + Count
      BY <2>2 DEF ReadCommands, Count
    <3>2. CASE ~discarding
      <4>1. /\ handled' = handled \o CompleteLines(Read)
            /\ discarding' = TooLong(Remainder(Read))
            /\ data' = IF TooLong(Remainder(Read)) THEN <<>> ELSE Remainder(Read)
        BY <2>2, <3>2 DEF ReadCommands, Read, Count
      <4> QED
        BY <2>1, <3>1, <3>2, <4>1, LineIsRead DEF IInv
    <3>3. CASE discarding /\ Breaks(Read) = {}
      <4>1. UNCHANGED <<data, discarding, handled>> /\ discarding = TRUE
        BY <2>2, <3>3 DEF ReadCommands, Read, Count, IInv, Understood
      <4> QED
        BY <2>1, <3>1, <3>3, <4>1, AllIsDropped DEF IInv
    <3>4. CASE discarding /\ Breaks(Read) # {}
      <4> DEFINE left == Remainder(AfterNewline(Read))
      <4>1. /\ handled' = handled \o CompleteLines(AfterNewline(Read))
            /\ discarding' = TooLong(left)
            /\ data' = IF TooLong(left) THEN <<>> ELSE left
        BY <2>2, <3>4 DEF ReadCommands, Read, Count
      <4> QED
        BY <2>1, <3>1, <3>4, <4>1, DropEnds DEF IInv
    <3> QED
      BY <3>2, <3>3, <3>4
  <2>3. CASE UNCHANGED <<taken, data, discarding, handled>>
    BY <2>1, <2>3 DEF IInv
  <2> QED
    BY <1>4, <2>2, <2>3 DEF Turn
<1> QED
  BY <1>1, <1>2, <1>3, <1>4 DEF Next

(* Every reachable state satisfies the invariant.                           *)
LEMMA InvariantHolds == Spec => []IInv
<1>1. Init => IInv
  <2> SUFFICES ASSUME Init
               PROVE  IInv
    OBVIOUS
  <2>1. stream = <<>> /\ taken = 0 /\ data = <<>> /\ discarding = FALSE /\ handled = <<>>
    BY DEF Init
  <2>2. <<>> \in Seq(Bytes) /\ Len(<<>>) = 0
    OBVIOUS
  <2>3. Said(<<>>)[0] = Nothing
    BY <2>2, SaidUnfolds
  <2>4. Said(<<>>)[0].line = <<>> /\ Said(<<>>)[0].lines = <<>>
    BY <2>3 DEF Nothing
  <2>5. 0 \in 0 .. Len(<<>>) /\ Len(<<>>) < BufferSize
    BY <2>2, CommandReaderAssumption
  <2>6. Understood(<<>>, 0, <<>>, FALSE, <<>>)
    BY <2>2, <2>4, <2>5 DEF Understood
  <2> QED
    BY <2>1, <2>6 DEF IInv
<1>2. IInv /\ [Next]_vars => IInv'
  BY Preserved
<1> QED
  BY <1>1, <1>2, PTL DEF Spec

(* What was said up to now. *)
LEMMA ReferenceNow ==
  ASSUME IInv
  PROVE  Reference(SubSeq(stream, 1, taken)) = Said(stream)[taken]
BY SaidOfPrefix DEF IInv, Understood

-----------------------------------------------------------------------------
(* The theorems *)

(* Buffer and commands hold letters only: every newline that is read ends a *)
(* line, and the buffer never grows beyond its size.                        *)
THEOREM TypeCorrect == Spec => []TypeOK
<1> DEFINE Flags == open \in BOOLEAN /\ running \in BOOLEAN
<1>1. Init => Flags
  BY DEF Init
<1>2. Flags /\ [Next]_vars => Flags'
  BY DEF Next, vars, Write, HangUp, Turn
<1>3. IInv /\ Flags => TypeOK
  <2> SUFFICES ASSUME IInv, Flags
               PROVE  TypeOK
    OBVIOUS
  <2>1. stream \in Seq(Bytes) /\ taken \in 0 .. Len(stream) /\ discarding \in BOOLEAN
    BY DEF IInv, Understood
  <2>2. handled \in Seq(Seq(Letters))
    BY <2>1, LettersOnly DEF IInv, Understood
  <2>3. data \in Seq(Letters) /\ Len(data) <= BufferSize
    <3>1. CASE discarding
      BY <3>1, CommandReaderAssumption DEF IInv, Understood
    <3>2. CASE ~discarding
      <4>1. data = Said(stream)[taken].line /\ Len(data) < BufferSize
        BY <3>2 DEF IInv, Understood
      <4>2. data \in Seq(Letters)
        BY <2>1, <4>1, LettersOnly
      <4> QED
        BY <4>1, <4>2, CommandReaderAssumption
    <3> QED
      BY <3>1, <3>2
  <2> QED
    BY <2>1, <2>2, <2>3 DEF TypeOK
<1>4. Spec => []Flags
  BY <1>1, <1>2, PTL DEF Spec
<1> QED
  BY <1>3, <1>4, InvariantHolds, PTL

(* However the bytes are cut into reads, read_commands handles the lines    *)
(* that fit its buffer, whole, in order and once each, and no other: it     *)
(* hears what the daemon says.                                              *)
THEOREM HearsWhatIsSaid == Spec => []HandledIsReference
<1>1. IInv => HandledIsReference
  BY ReferenceNow DEF IInv, Understood, HandledIsReference
<1> QED
  BY <1>1, InvariantHolds, PTL

(* The buffer holds the line that goes on and nothing of a line before,     *)
(* unless that line is too long to be handled.                              *)
THEOREM BufferHoldsTheLine == Spec => []BufferIsUnfinishedLine
<1>1. IInv => BufferIsUnfinishedLine
  BY ReferenceNow DEF IInv, Understood, BufferIsUnfinishedLine
<1> QED
  BY <1>1, InvariantHolds, PTL

(* No read is asked for nothing, which read_commands would take for the end *)
(* of stdin.                                                                *)
THEOREM AlwaysRoomForARead == Spec => []RoomForARead
<1>1. IInv => RoomForARead
  <2> SUFFICES ASSUME IInv
               PROVE  RoomForARead
    OBVIOUS
  <2>1. CASE discarding
    BY <2>1, CommandReaderAssumption DEF IInv, Understood, RoomForARead, Room
  <2>2. CASE ~discarding
    <3>1. data = Said(stream)[taken].line /\ Len(data) < BufferSize
      BY <2>2 DEF IInv, Understood
    <3>2. Said(stream)[taken].line \in Seq(Bytes)
      BY SaidUnfolds DEF Speech, IInv, Understood
    <3>3. Len(data) \in Nat
      BY <3>1, <3>2
    <3> QED
      BY <3>1, <3>3, CommandReaderAssumption DEF RoomForARead, Room
  <2> QED
    BY <2>1, <2>2
<1> QED
  BY <1>1, InvariantHolds, PTL
=============================================================================
