---------------------------- MODULE ArtworkProofs ----------------------------
(* The art tool leaves the old picture or all of the new one, keeps shapes, *)
(* resamples by the kernel, blurs by means and lays the front on without a  *)
(* seam: for pictures and targets of any size.                              *)
EXTENDS Artwork, Intervals, SequenceTheorems

-----------------------------------------------------------------------------
(* Numbers *)

(* A number is a multiple of the divisor, and a rest.                       *)
LEMMA QuotientAndRest ==
  ASSUME NEW a \in Int, NEW b \in Nat \ {0}
  PROVE  /\ a \div b \in Int /\ a % b \in 0 .. b - 1
         /\ a = b * (a \div b) + (a % b)
OBVIOUS

(* A number made of a multiple and a rest is taken apart again.            *)
LEMMA QuotientIs ==
  ASSUME NEW b \in Nat \ {0}, NEW q \in Int, NEW r \in 0 .. b - 1
  PROVE  (q * b + r) \div b = q /\ (q * b + r) % b = r
OBVIOUS

(* Rounding is to the nearest number.                                       *)
LEMMA RoundedIsNearest ==
  ASSUME NEW a \in Int, NEW b \in Nat \ {0}
  PROVE  /\ Rounded(a, b) \in Int
         /\ 2 * a - b < 2 * (b * Rounded(a, b))
         /\ 2 * (b * Rounded(a, b)) <= 2 * a + b
<1> DEFINE n == 2 * a + b
           d == 2 * b
<1>1. n \in Int /\ d \in Nat \ {0}
  OBVIOUS
<1>2. /\ n \div d \in Int /\ n % d \in 0 .. d - 1
      /\ n = d * (n \div d) + (n % d)
  BY <1>1, QuotientAndRest
<1>3. Rounded(a, b) = n \div d
  BY DEF Rounded
<1> DEFINE q == n \div d
           r == n % d
<1>4. q \in Int
  BY <1>2
<1> HIDE DEF q, r
<1>5. d * q = 2 * (b * q)
  BY <1>4
<1> QED
  BY <1>1, <1>2, <1>3, <1>4, <1>5 DEF q, r

(* What is clamped lies between the bounds, and is unchanged when it does.  *)
LEMMA Clamped ==
  ASSUME NEW v \in Int, NEW low \in Int, NEW high \in Int, low <= high
  PROVE  /\ Clamp(v, low, high) \in low .. high
         /\ v \in low .. high => Clamp(v, low, high) = v
         /\ v < low => Clamp(v, low, high) = low
         /\ v > high => Clamp(v, low, high) = high
BY DEF Clamp, Smaller, Larger

(* Products of numbers in order are in order.                               *)
LEMMA ProductsInOrder ==
  ASSUME NEW a \in Int, NEW b \in Int, NEW c \in Nat, a <= b
  PROVE  a * c <= b * c /\ c * a <= c * b
OBVIOUS

Sizes == Nat \ {0}

(* a is to c as b is to d, as near as whole numbers come: an operand of     *)
(* ShapeKept.                                                               *)
Apart(a, b, c, d) == LET n == a*d - b*c IN 2 * (IF n < 0 THEN -n ELSE n)

(* The width w of a picture of height h that has the shape of tw and th,    *)
(* where a picture of that height can be so wide.                           *)
LEMMA RoundedSide ==
  ASSUME NEW h \in Sizes, NEW tw \in Sizes, NEW th \in Sizes, NEW w \in Sizes,
         tw * h <= w * th
  PROVE  /\ Rounded(h * tw, th) \in 0 .. w
         /\ Apart(Rounded(h * tw, th), h, tw, th) <= th
<1> DEFINE c == Rounded(h * tw, th)
<1>1. h * tw \in Nat /\ w * th \in Nat
  BY DEF Sizes
<1>2. /\ c \in Int /\ 2 * (h * tw) - th < 2 * (th * c)
      /\ 2 * (th * c) <= 2 * (h * tw) + th
  BY <1>1, RoundedIsNearest DEF Sizes
<1> HIDE DEF c
<1>3. c <= w
  <2> SUFFICES ASSUME w + 1 <= c PROVE FALSE
    BY <1>2 DEF Sizes
  <2>1. th * (w + 1) <= th * c
    BY <1>2, ProductsInOrder DEF Sizes
  <2>2. th * (w + 1) = w * th + th
    BY DEF Sizes
  <2>3. h * tw = tw * h
    BY DEF Sizes
  <2>4. th * c \in Int
    BY <1>2 DEF Sizes
  <2> QED
    BY <1>1, <1>2, <2>1, <2>2, <2>3, <2>4 DEF Sizes
<1>4. c >= 0
  <2> SUFFICES ASSUME c <= -1 PROVE FALSE
    BY <1>2 DEF Sizes
  <2>1. th * c <= th * (-1)
    BY <1>2, ProductsInOrder DEF Sizes
  <2>2. th * (-1) = -th /\ th * c \in Int
    BY <1>2 DEF Sizes
  <2> QED
    BY <1>1, <1>2, <2>1, <2>2 DEF Sizes
<1>5. Apart(c, h, tw, th) <= th
  <2>1. c * th = th * c /\ th * c \in Int
    BY <1>2 DEF Sizes
  <2> QED
    BY <1>1, <1>2, <2>1 DEF Apart, Sizes
<1> QED
  BY <1>2, <1>3, <1>4, <1>5 DEF c

-----------------------------------------------------------------------------
(* Shapes *)

CallOK ==
  /\ job \in Jobs
  /\ job.width \in 1 .. MaxEdge /\ job.height \in 1 .. MaxEdge

SourceWidth == Width(job.picture)
SourceHeight == Height(job.picture)

(* The pictures of a call the tool takes are not empty.                    *)
LEMMA SizesOK ==
  ASSUME CallOK
  PROVE  {SourceWidth, SourceHeight, TargetWidth, TargetHeight} \subseteq Sizes
<1>1. /\ job.picture \in Seq(Seq(0 .. 255))
      /\ job.picture # <<>> /\ job.picture[1] # <<>>
  BY JobsAssumption DEF CallOK
<1>2. Len(job.picture) \in Sizes
  BY <1>1, EmptySeq DEF Sizes
<1>3. job.picture[1] \in Seq(0 .. 255)
  BY <1>1, <1>2, ElementOfSeq DEF Sizes
<1>4. Len(job.picture[1]) \in Sizes
  BY <1>1, <1>3, EmptySeq DEF Sizes
<1>5. MaxEdge \in Nat
  BY DEF MaxEdge
<1>6. TargetWidth \in Sizes /\ TargetHeight \in Sizes
  BY <1>5 DEF CallOK, Sizes, TargetWidth, TargetHeight
<1> QED
  BY <1>2, <1>4, <1>6 DEF SourceWidth, SourceHeight, Width, Height

(* Two sides are as near to a shape as the other two, turned around.        *)
LEMMA ApartTurned ==
  ASSUME NEW a \in Int, NEW b \in Int, NEW c \in Int, NEW d \in Int
  PROVE  Apart(a, b, c, d) = Apart(b, a, d, c) /\ Apart(a, b, c, d) = Apart(c, d, a, b)
<1>1. a * d - b * c = -(b * c - a * d)
  OBVIOUS
<1>2. a * d - b * c = -(c * b - d * a)
  OBVIOUS
<1> QED
  BY <1>1, <1>2 DEF Apart

(* A side that is rounded and then kept to what there is                    *)
LEMMA KeptSide ==
  ASSUME NEW h \in Sizes, NEW tw \in Sizes, NEW th \in Sizes, NEW w \in Sizes,
         tw * h <= w * th
  PROVE  LET c == Clamp(Rounded(h * tw, th), 1, w)
         IN  c \in 1 .. w /\ (c = 1 \/ Apart(c, h, tw, th) <= th)
<1> DEFINE r == Rounded(h * tw, th)
<1>1. r \in 0 .. w /\ Apart(r, h, tw, th) <= th
  BY RoundedSide
<1> HIDE DEF r
<1>2. r \in Int /\ 1 <= w /\ w \in Int
  BY <1>1 DEF Sizes
<1>3. Clamp(r, 1, w) \in 1 .. w
  BY <1>2 DEF Clamp, Smaller, Larger
<1>4. Clamp(r, 1, w) = r \/ Clamp(r, 1, w) = 1
  BY <1>1, <1>2, Clamped
<1> QED
  BY <1>1, <1>3, <1>4 DEF r

(* The crop has the shape of the target, is centred, and touches two edges. *)
LEMMA CropKeepsShape ==
  ASSUME NEW w \in Sizes, NEW h \in Sizes, TargetWidth \in Sizes, TargetHeight \in Sizes
  PROVE  LET crop == Crop(w, h)
         IN  /\ crop.w \in 1..w /\ crop.h \in 1..h /\ (crop.w = w \/ crop.h = h)
             /\ w - crop.w - 2*crop.x \in {0, 1} /\ h - crop.h - 2*crop.y \in {0, 1}
             /\ \/ crop.w = 1 \/ crop.h = 1
                \/ Apart(crop.w, crop.h, TargetWidth, TargetHeight)
                      <= Larger(TargetWidth, TargetHeight)
<1>0. /\ w * TargetHeight \in Int /\ TargetWidth * h \in Int
      /\ TargetWidth * h = h * TargetWidth /\ w * TargetHeight = TargetHeight * w
  BY DEF Sizes
<1>1. CASE w * TargetHeight > TargetWidth * h
  <2> DEFINE c == Clamp(Rounded(h * TargetWidth, TargetHeight), 1, w)
  <2>1. c \in 1 .. w /\ (c = 1 \/ Apart(c, h, TargetWidth, TargetHeight) <= TargetHeight)
    BY <1>0, <1>1, KeptSide
  <2>2. Crop(w, h) = [x |-> (w - c) \div 2, y |-> 0, w |-> c, h |-> h]
    BY <1>1 DEF Crop
  <2> HIDE DEF c
  <2>3. w - c - 2*((w - c) \div 2) \in {0, 1} /\ c \in 1 .. w
    BY <2>1 DEF Sizes
  <2>4. Apart(c, h, TargetWidth, TargetHeight) \in Int
    BY <2>1 DEF Sizes, Apart
  <2>5. c = 1 \/ Apart(c, h, TargetWidth, TargetHeight) <= Larger(TargetWidth, TargetHeight)
    BY <2>1, <2>4 DEF Larger, Sizes
  <2> QED
    BY <2>2, <2>3, <2>5 DEF Sizes
<1>2. CASE ~(w * TargetHeight > TargetWidth * h)
  <2> DEFINE c == Clamp(Rounded(w * TargetHeight, TargetWidth), 1, h)
  <2>1. c \in 1 .. h /\ (c = 1 \/ Apart(c, w, TargetHeight, TargetWidth) <= TargetWidth)
    BY <1>0, <1>2, KeptSide
  <2>2. Crop(w, h) = [x |-> 0, y |-> (h - c) \div 2, w |-> w, h |-> c]
    BY <1>2 DEF Crop
  <2> HIDE DEF c
  <2>3. h - c - 2*((h - c) \div 2) \in {0, 1}
    BY <2>1 DEF Sizes
  <2>4. /\ Apart(c, w, TargetHeight, TargetWidth) \in Int
        /\ Apart(c, w, TargetHeight, TargetWidth) = Apart(w, c, TargetWidth, TargetHeight)
    BY <2>1, ApartTurned DEF Sizes, Apart
  <2>5. c = 1 \/ Apart(w, c, TargetWidth, TargetHeight) <= Larger(TargetWidth, TargetHeight)
    BY <2>1, <2>4 DEF Larger, Sizes
  <2> QED
    BY <2>1, <2>2, <2>3, <2>5 DEF Sizes
<1> QED
  BY <1>1, <1>2

(* The front has the shape of the source and touches two edges of the      *)
(* target.                                                                  *)
LEMMA FrontKeepsShape ==
  ASSUME NEW w \in Sizes, NEW h \in Sizes, TargetWidth \in Sizes, TargetHeight \in Sizes
  PROVE  LET front == FrontSize(w, h)
         IN  /\ front.w \in 1..TargetWidth /\ front.h \in 1..TargetHeight
             /\ front.w = TargetWidth \/ front.h = TargetHeight
             /\ \/ front.w = 1 \/ front.h = 1
                \/ Apart(front.w, front.h, w, h) <= Larger(w, h)
<1>0. /\ w * TargetHeight \in Int /\ TargetWidth * h \in Int
      /\ TargetWidth * h = h * TargetWidth /\ w * TargetHeight = TargetHeight * w
  BY DEF Sizes
<1>1. CASE TargetWidth * h < TargetHeight * w
  <2> DEFINE c == Clamp(Rounded(h * TargetWidth, w), 1, TargetHeight)
  <2>1. c \in 1 .. TargetHeight /\ (c = 1 \/ Apart(c, h, TargetWidth, w) <= w)
    BY <1>0, <1>1, KeptSide
  <2>2. FrontSize(w, h) = [w |-> TargetWidth, h |-> c]
    BY <1>1 DEF FrontSize
  <2> HIDE DEF c
  <2>3. /\ Apart(c, h, TargetWidth, w) \in Int
        /\ Apart(c, h, TargetWidth, w) = Apart(TargetWidth, c, w, h)
    <3>1. c \in Int /\ h \in Int /\ TargetWidth \in Int /\ w \in Int
      BY <2>1 DEF Sizes
    <3>2. c * w - h * TargetWidth = -(TargetWidth * h - c * w)
      BY <3>1
    <3> QED
      BY <3>1, <3>2 DEF Apart
  <2>4. c = 1 \/ Apart(TargetWidth, c, w, h) <= Larger(w, h)
    BY <2>1, <2>3 DEF Larger, Sizes
  <2> QED
    BY <2>1, <2>2, <2>4 DEF Sizes
<1>2. CASE ~(TargetWidth * h < TargetHeight * w)
  <2> DEFINE c == Clamp(Rounded(w * TargetHeight, h), 1, TargetWidth)
  <2>1. c \in 1 .. TargetWidth /\ (c = 1 \/ Apart(c, w, TargetHeight, h) <= h)
    BY <1>0, <1>2, KeptSide
  <2>2. FrontSize(w, h) = [w |-> c, h |-> TargetHeight]
    BY <1>2 DEF FrontSize
  <2> HIDE DEF c
  <2>3. /\ Apart(c, w, TargetHeight, h) \in Int
        /\ Apart(c, w, TargetHeight, h) = Apart(c, TargetHeight, w, h)
    <3>1. c \in Int /\ h \in Int /\ TargetHeight \in Int /\ w \in Int
      BY <2>1 DEF Sizes
    <3>2. c * h - w * TargetHeight = c * h - TargetHeight * w
      BY <3>1
    <3> QED
      BY <3>1, <3>2 DEF Apart
  <2>4. c = 1 \/ Apart(c, TargetHeight, w, h) <= Larger(w, h)
    BY <2>1, <2>3 DEF Larger, Sizes
  <2> QED
    BY <2>1, <2>2, <2>4 DEF Sizes
<1> QED
  BY <1>1, <1>2

(* Where the call is one the tool takes, the shapes are kept.               *)
LEMMA ShapesFollow ==
  ASSUME CallOK
  PROVE  ShapeKept
<1> DEFINE w == SourceWidth
           h == SourceHeight
<1>1. w \in Sizes /\ h \in Sizes /\ TargetWidth \in Sizes /\ TargetHeight \in Sizes
  BY SizesOK
<1>2. w = Width(job.picture) /\ h = Height(job.picture)
  BY DEF SourceWidth, SourceHeight
<1> HIDE DEF w, h
<1> QED
  BY <1>1, <1>2, CropKeepsShape, FrontKeepsShape DEF ShapeKept, Apart
-----------------------------------------------------------------------------
(* Tables *)

(* rows is a table: h rows of w entries each, of any values. *)
Table(rows, w, h) == rows = [y \in 1..h |-> [x \in 1..w |-> rows[y][x]]]

(* A function on the numbers from 1 is a sequence.                          *)
LEMMA FunctionIsSeq ==
  ASSUME NEW S, NEW n \in Nat, NEW s \in [1 .. n -> S]
  PROVE  s \in Seq(S) /\ Len(s) = n
OBVIOUS

(* ... also where nothing is known of its values                            *)
LEMMA SomeSeq ==
  ASSUME NEW n \in Nat, NEW s, s = [i \in 1 .. n |-> s[i]]
  PROVE  s \in Seq({s[i] : i \in 1 .. n}) /\ Len(s) = n
<1>1. s \in [1 .. n -> {s[i] : i \in 1 .. n}]
  OBVIOUS
<1> QED
  BY <1>1, FunctionIsSeq

(* A table is a sequence of rows of the same length.                       *)
LEMMA TableIsSeq ==
  ASSUME NEW rows, NEW w \in Nat, NEW h \in Nat, Table(rows, w, h)
  PROVE  /\ rows \in Seq({rows[y] : y \in 1 .. h}) /\ Len(rows) = h
         /\ \A y \in 1 .. h :
              /\ rows[y] \in Seq({rows[y][x] : x \in 1 .. w}) /\ Len(rows[y]) = w
              /\ rows[y] = [x \in 1 .. w |-> rows[y][x]]
         /\ h # 0 => Width(rows) = w /\ Height(rows) = h
<1>1. rows = [y \in 1 .. h |-> rows[y]]
  BY DEF Table
<1>2. \A y \in 1 .. h : rows[y] = [x \in 1 .. w |-> rows[y][x]]
  BY DEF Table
<1>3. rows \in Seq({rows[y] : y \in 1 .. h}) /\ Len(rows) = h
  BY <1>1, SomeSeq
<1>4. ASSUME NEW y \in 1 .. h
      PROVE  rows[y] \in Seq({rows[y][x] : x \in 1 .. w}) /\ Len(rows[y]) = w
  BY <1>2, SomeSeq
<1>5. h # 0 => Width(rows) = w /\ Height(rows) = h
  <2>1. h # 0 => 1 \in 1 .. h
    OBVIOUS
  <2> QED
    BY <1>3, <1>4, <2>1 DEF Width, Height
<1> QED
  BY <1>2, <1>3, <1>4, <1>5

(* The same of tables that are not empty                                    *)
LEMMA TableSizes ==
  ASSUME NEW rows, NEW w \in Sizes, NEW h \in Sizes, Table(rows, w, h)
  PROVE  /\ Width(rows) = w /\ Height(rows) = h /\ Len(rows) = h
         /\ \A y \in 1 .. h : Len(rows[y]) = w
<1>1. w \in Nat /\ h \in Nat /\ h # 0
  BY DEF Sizes
<1>2. Len(rows) = h /\ \A y \in 1 .. h : Len(rows[y]) = w
  <2>1. rows = [y \in 1 .. h |-> rows[y]]
    BY DEF Table
  <2>2. Len(rows) = h
    BY <1>1, <2>1, SomeSeq
  <2>3. ASSUME NEW y \in 1 .. h
        PROVE  Len(rows[y]) = w
    <3>1. rows[y] = [x \in 1 .. w |-> rows[y][x]]
      BY DEF Table
    <3> QED
      BY <1>1, <3>1, SomeSeq
  <2> QED
    BY <2>2, <2>3
<1>3. Width(rows) = w /\ Height(rows) = h
  <2> HIDE DEF Sizes
  <2> QED
    BY <1>1, TableIsSeq
<1> QED
  BY <1>2, <1>3

(* A table with one more row of the same length is a table.                *)
LEMMA TableGrows ==
  ASSUME NEW rows, NEW w \in Nat, NEW h \in Nat, Table(rows, w, h),
         NEW row, row = [x \in 1 .. w |-> row[x]]
  PROVE  Table(Append(rows, row), w, h + 1)
<1> DEFINE more == Append(rows, row)
           S == {rows[y] : y \in 1 .. h} \cup {row}
<1>1. rows = [y \in 1 .. h |-> rows[y]]
  BY DEF Table
<1>2. rows \in [1 .. h -> S] /\ row \in S
  BY <1>1
<1> HIDE DEF S
<1>3. rows \in Seq(S) /\ Len(rows) = h
  BY <1>2, FunctionIsSeq
<1>4. /\ more = [y \in 1 .. h + 1 |-> more[y]] /\ more[h + 1] = row
      /\ \A y \in 1 .. h : more[y] = rows[y]
  BY <1>2, <1>3
<1> HIDE DEF more
<1>5. ASSUME NEW y \in 1 .. h + 1
      PROVE  more[y] = [x \in 1 .. w |-> more[y][x]]
  <2>1. CASE y = h + 1
    BY <1>4, <2>1
  <2>2. CASE y \in 1 .. h
    BY <1>4, <2>2 DEF Table
  <2> QED
    BY <2>1, <2>2
<1> QED
  BY <1>4, <1>5 DEF Table, more
-----------------------------------------------------------------------------
(* The inductive invariant *)

(* The steps, by what has been made when the tool gets there. *)
Early        == {"start", "stat", "read"}
Ended        == {"failed", "killed"}
Writing      == {"open", "convert", "write", "rename", "done"}
PastFront    == {"compose"} \cup Writing
PastBackdrop == {"darken source", "front"} \cup PastFront
PastLow      == {"blur", "darken low", "backdrop"} \cup PastBackdrop
Decoded      == {"low"} \cup PastLow

Front == FrontSize(SourceWidth, SourceHeight)

(* A picture the ring is making has some of its rows. *)
Growing(rows, w, h) == \E k \in 0 .. h - 1 : Table(rows, w, k)

JobOK ==
  /\ job \in Jobs
  /\ step \in Early \cup Ended \cup Decoded
  /\ step \notin {"start"} \cup Ended => CallOK

(* Each picture has its size once it is made, and no row before. *)
PicturesOK ==
  /\ {"source", "low", "backdrop", "front"} \subseteq DOMAIN img
  /\ step \in Decoded => Table(img.source, SourceWidth, SourceHeight)
  /\ step \in Early => img.low = <<>>
  /\ step = "low" => Growing(img.low, LowWidth, LowHeight)
  /\ step \in PastLow => Table(img.low, LowWidth, LowHeight)
  /\ step \in Early \cup {"low", "blur", "darken low"} => img.backdrop = <<>>
  /\ step = "backdrop" => Growing(img.backdrop, TargetWidth, TargetHeight)
  /\ step \in PastBackdrop => Table(img.backdrop, TargetWidth, TargetHeight)
  /\ step \in Early \cup {"low", "blur", "darken low", "backdrop", "darken source"} =>
       img.front = <<>>
  /\ step = "front" => Growing(img.front, Front.w, Front.h)
  /\ step \in PastFront => Table(img.front, Front.w, Front.h)

TurnOK ==
  /\ step \in Early \cup {"low", "darken low", "backdrop", "darken source", "front", "open"} =>
       turn = 0
  /\ step = "blur" => turn \in 0 .. 5
  /\ step = "compose" => turn \in 0 .. Front.h - 1

Image == RowByRow(img.backdrop)

(* What the file has and what the chunk still holds make the first pixels   *)
(* of the picture.                                                          *)
Written(most) ==
  /\ turn \in 0 .. Pixels
  /\ \E k \in 0 .. turn :
       /\ turn - k <= most
       /\ temp = SubSeq(Image, 1, k) /\ chunk = SubSeq(Image, k + 1, turn)

FilesOK ==
  /\ step = "convert" => Written(ChunkPixels - 1)
  /\ step = "write" => Written(ChunkPixels)
  /\ step = "rename" => temp = Image
  /\ step \notin {"convert", "write", "rename", "done"} \cup Ended =>
       temp = job.before /\ chunk = <<>>
  /\ step = "failed" => temp \in {NoFile, job.before}
  /\ step = "done" => temp = NoFile
  /\ target = IF step = "done" THEN Image ELSE job.before

IInv == JobOK /\ PicturesOK /\ TurnOK /\ FilesOK

-----------------------------------------------------------------------------
(* The sizes stay *)

(* Sizes depend on the arguments alone.                                    *)
LEMMA SameSizes ==
  ASSUME job' = job
  PROVE  /\ SourceWidth' = SourceWidth /\ SourceHeight' = SourceHeight
         /\ TargetWidth' = TargetWidth /\ TargetHeight' = TargetHeight
         /\ LowWidth' = LowWidth /\ LowHeight' = LowHeight
         /\ Front' = Front /\ Pixels' = Pixels /\ CallOK' = CallOK
BY DEF SourceWidth, SourceHeight, TargetWidth, TargetHeight, LowWidth, LowHeight,
       Front, Pixels, CallOK, FrontSize

(* The picture that is blurred is not empty.                               *)
LEMMA LowSizesOK ==
  ASSUME CallOK
  PROVE  LowWidth \in Sizes /\ LowHeight \in Sizes
<1>1. TargetWidth \in Sizes /\ TargetHeight \in Sizes
  BY SizesOK
<1> QED
  BY <1>1 DEF LowWidth, LowHeight, Larger, Downscale, Sizes

(* The front is not empty and fits the target.                             *)
LEMMA FrontSizesOK ==
  ASSUME CallOK
  PROVE  /\ Front.w \in 1 .. TargetWidth /\ Front.h \in 1 .. TargetHeight
         /\ Front.w \in Sizes /\ Front.h \in Sizes
<1>1. /\ TargetWidth \in Sizes /\ TargetHeight \in Sizes
      /\ SourceWidth \in Sizes /\ SourceHeight \in Sizes
  BY SizesOK
<1>2. Front.w \in 1 .. TargetWidth /\ Front.h \in 1 .. TargetHeight
  BY <1>1, FrontKeepsShape DEF Front
<1> QED
  BY <1>1, <1>2 DEF Sizes

(* The invariant holds when the tool starts.                               *)
LEMMA InitIInv ==
  ASSUME Init
  PROVE  IInv
<1> USE DEF Init, Early, Ended, Decoded, PastLow, PastBackdrop, PastFront, Writing
<1>1. JobOK
  BY DEF JobOK
<1>2. PicturesOK
  BY DEF PicturesOK
<1>3. TurnOK
  BY DEF TurnOK
<1>4. FilesOK
  BY DEF FilesOK
<1> QED
  BY <1>1, <1>2, <1>3, <1>4 DEF IInv
-----------------------------------------------------------------------------
(* Each step of the tool keeps the invariant. *)

(* The steps at which the temporary file has not been touched               *)
NotWriting == (Early \cup Decoded) \ {"convert", "write", "rename", "done"}

(* Until the temporary file is opened, nothing is touched.                  *)
LEMMA FilesStay ==
  ASSUME FilesOK, step \in NotWriting, step' \in NotWriting,
         UNCHANGED <<job, chunk, temp, target>>
  PROVE  FilesOK'
BY DEF FilesOK, NotWriting, Early, Ended, Decoded, PastLow, PastBackdrop, PastFront, Writing

(* The checks at the start of a call                                        *)
LEMMA StartKeeps ==
  ASSUME IInv, Start
  PROVE  IInv'
<1> USE DEF IInv, Start, Early, Ended, Decoded, PastLow, PastBackdrop, PastFront, Writing
<1>1. JobOK'
  BY DEF JobOK, CallOK
<1>2. PicturesOK'
  BY DEF PicturesOK
<1>3. TurnOK'
  BY DEF TurnOK
<1>4. FilesOK'
  BY FilesStay DEF NotWriting
<1> QED
  BY <1>1, <1>2, <1>3, <1>4

(* Nothing is made while the source file is downloaded and read.            *)
LEMMA ReadingKeeps ==
  ASSUME IInv, Stat \/ Read \/ Download
  PROVE  IInv'
<1> USE DEF IInv, Stat, Read, Download, Early, Ended, Decoded, PastLow, PastBackdrop,
            PastFront, Writing
<1>1. JobOK'
  BY SameSizes DEF JobOK
<1>2. PicturesOK'
  BY DEF PicturesOK
<1>3. TurnOK'
  BY DEF TurnOK
<1>4. FilesOK'
  BY FilesStay DEF NotWriting
<1> QED
  BY <1>1, <1>2, <1>3, <1>4

(* What a file holds is a table of its width and height.                    *)
LEMMA DecodeKeeps ==
  ASSUME IInv, Decode
  PROVE  IInv'
<1> USE DEF Early, Ended, Decoded, PastLow, PastBackdrop, PastFront, Writing
<1>1. CallOK
  BY DEF IInv, JobOK, Decode
<1>2. JobOK'
  BY <1>1, SameSizes DEF IInv, JobOK, Decode
<1>3. Table(job.picture, SourceWidth, SourceHeight)
  <2> DEFINE rows == job.picture
  <2>1. /\ rows \in Seq(Seq(0 .. 255))
        /\ \A y \in 1 .. Len(rows) : Len(rows[y]) = SourceWidth
    BY <1>1, JobsAssumption DEF CallOK, SourceWidth, Height
  <2> HIDE DEF rows
  <2>2. rows = [y \in 1 .. Len(rows) |-> rows[y]]
    BY <2>1
  <2>3. \A y \in 1 .. Len(rows) : rows[y] = [x \in 1 .. SourceWidth |-> rows[y][x]]
    BY <2>1, ElementOfSeq
  <2>4. Table(rows, SourceWidth, Len(rows))
    BY <2>2, <2>3 DEF Table
  <2> QED
    BY <2>4 DEF rows, SourceHeight, Height
<1>4. PicturesOK'
  <2>1. /\ img'.source = job.picture /\ img'.low = <<>> /\ img'.backdrop = <<>>
        /\ img'.front = <<>> /\ {"source", "low", "backdrop", "front"} \subseteq DOMAIN img'
        /\ step' = "low"
    BY DEF IInv, PicturesOK, Decode
  <2>2. Growing(<<>>, LowWidth, LowHeight)
    <3>1. LowHeight \in Sizes /\ LowWidth \in Sizes
      BY <1>1, LowSizesOK
    <3>2. Table(<<>>, LowWidth, 0) /\ 0 \in 0 .. LowHeight - 1
      BY <3>1 DEF Table, Sizes
    <3> QED
      BY <3>2 DEF Growing
  <2>3. SourceWidth' = SourceWidth /\ SourceHeight' = SourceHeight
        /\ LowWidth' = LowWidth /\ LowHeight' = LowHeight
    BY SameSizes DEF Decode
  <2> QED
    BY <1>3, <2>1, <2>2, <2>3 DEF PicturesOK
<1>5. TurnOK'
  BY DEF TurnOK, IInv, Decode
<1>6. FilesOK'
  BY FilesStay DEF NotWriting, IInv, Decode
<1> QED
  BY <1>2, <1>4, <1>5, <1>6 DEF IInv

Resampled == {"low", "backdrop", "front"}

(* Each resampling makes a picture of its own size from one that is made.   *)
LEMMA ResamplingIs ==
  ASSUME IInv, step \in Resampled
  PROVE  LET r == Resampling(step)
         IN  /\ CallOK /\ r.w \in Sizes /\ r.h \in Sizes
             /\ \E w \in Sizes, h \in Sizes : Table(r.from, w, h)
             /\ step = "low" => r.w = LowWidth /\ r.h = LowHeight
             /\ step = "backdrop" => r.w = TargetWidth /\ r.h = TargetHeight
             /\ step = "front" => r.w = Front.w /\ r.h = Front.h
             /\ Growing(img[step], r.w, r.h)
<1> USE DEF Early, Ended, Decoded, PastLow, PastBackdrop, PastFront, Writing
<1>1. CallOK
  BY DEF IInv, JobOK, Resampled
<1>2. /\ SourceWidth \in Sizes /\ SourceHeight \in Sizes
      /\ TargetWidth \in Sizes /\ TargetHeight \in Sizes
      /\ LowWidth \in Sizes /\ LowHeight \in Sizes
      /\ Front.w \in Sizes /\ Front.h \in Sizes
  BY <1>1, SizesOK, LowSizesOK, FrontSizesOK
<1>3. Table(img.source, SourceWidth, SourceHeight)
  BY DEF IInv, PicturesOK, Resampled
<1>4. Width(img.source) = SourceWidth /\ Height(img.source) = SourceHeight
  BY <1>2, <1>3, TableSizes
<1>5. CASE step = "low"
  <2>1. /\ Resampling(step).from = img.source
        /\ Resampling(step).w = LowWidth /\ Resampling(step).h = LowHeight
    BY <1>5 DEF Resampling
  <2>2. Growing(img.low, LowWidth, LowHeight)
    BY <1>5 DEF IInv, PicturesOK
  <2> QED
    BY <1>1, <1>2, <1>3, <1>5, <2>1, <2>2
<1>6. CASE step = "backdrop"
  <2>1. /\ Resampling(step).from = img.low
        /\ Resampling(step).w = TargetWidth /\ Resampling(step).h = TargetHeight
    BY <1>6 DEF Resampling
  <2>2. Growing(img.backdrop, TargetWidth, TargetHeight) /\ Table(img.low, LowWidth, LowHeight)
    BY <1>6 DEF IInv, PicturesOK
  <2> QED
    BY <1>1, <1>2, <1>6, <2>1, <2>2
<1>7. CASE step = "front"
  <2>1. /\ Resampling(step).from = img.source
        /\ Resampling(step).w = FrontSize(Width(img.source), Height(img.source)).w
        /\ Resampling(step).h = FrontSize(Width(img.source), Height(img.source)).h
    BY <1>7 DEF Resampling
  <2>2. Growing(img.front, Front.w, Front.h)
    BY <1>7 DEF IInv, PicturesOK
  <2>3. FrontSize(Width(img.source), Height(img.source)) = Front
    BY <1>4 DEF Front
  <2> QED
    BY <1>1, <1>2, <1>3, <1>7, <2>1, <2>2, <2>3
<1> QED
  BY <1>5, <1>6, <1>7 DEF Resampled

(* What is common to a copy and a row: the picture is whole when the next   *)
(* step comes, and lacks a row as long as it does not.                      *)
LEMMA ResampledKeeps ==
  ASSUME IInv, step \in Resampled, NEW rows, img' = [img EXCEPT ![step] = rows],
         UNCHANGED <<job, turn, chunk, temp, target>>,
         LET r == Resampling(step)
         IN  \/ step' = AfterResampling(step) /\ Table(rows, r.w, r.h)
             \/ step' = step /\ Growing(rows, r.w, r.h)
  PROVE  IInv'
<1> USE DEF Early, Ended, Decoded, PastLow, PastBackdrop, PastFront, Writing, Resampled
<1> DEFINE r == Resampling(step)
<1>1. /\ CallOK
      /\ step = "low" => r.w = LowWidth /\ r.h = LowHeight
      /\ step = "backdrop" => r.w = TargetWidth /\ r.h = TargetHeight
      /\ step = "front" => r.w = Front.w /\ r.h = Front.h
  BY ResamplingIs
<1>2. \/ step' = AfterResampling(step) /\ Table(rows, r.w, r.h)
      \/ step' = step /\ Growing(rows, r.w, r.h)
  OBVIOUS
<1> HIDE DEF r
<1>3. step' \in {step, AfterResampling(step)}
  BY <1>2
<1>4. JobOK'
  BY <1>1, <1>3, SameSizes DEF IInv, JobOK, AfterResampling
<1>5. /\ {"source", "low", "backdrop", "front"} \subseteq DOMAIN img'
      /\ img'[step] = rows
      /\ \A name \in {"source", "low", "backdrop", "front"} \ {step} : img'[name] = img[name]
  BY DEF IInv, PicturesOK
<1>6. /\ SourceWidth' = SourceWidth /\ SourceHeight' = SourceHeight
      /\ TargetWidth' = TargetWidth /\ TargetHeight' = TargetHeight
      /\ LowWidth' = LowWidth /\ LowHeight' = LowHeight /\ Front' = Front
  BY SameSizes
<1>7. PicturesOK'
  <2>1. CASE step = "low"
    BY <1>1, <1>2, <1>5, <1>6, <2>1 DEF IInv, PicturesOK, AfterResampling
  <2>2. CASE step = "backdrop"
    BY <1>1, <1>2, <1>5, <1>6, <2>2 DEF IInv, PicturesOK, AfterResampling
  <2>3. CASE step = "front"
    BY <1>1, <1>2, <1>5, <1>6, <2>3 DEF IInv, PicturesOK, AfterResampling
  <2> QED
    BY <2>1, <2>2, <2>3
<1>8. TurnOK'
  <2>1. 0 \in 0 .. Front.h - 1
    BY <1>1, FrontSizesOK DEF Sizes
  <2>2. turn' = 0 /\ step' \in {"low", "blur", "backdrop", "darken source", "front", "compose"}
    BY <1>3 DEF IInv, TurnOK, AfterResampling
  <2>3. step' \in {"blur", "compose"} => 0 \in 0 .. 5
    OBVIOUS
  <2> QED
    BY <1>6, <2>1, <2>2, <2>3 DEF TurnOK
<1>9. FilesOK'
  BY <1>3, FilesStay DEF IInv, NotWriting, AfterResampling
<1> QED
  BY <1>4, <1>7, <1>8, <1>9 DEF IInv

(* A picture that is copied has the size that is asked for.                 *)
LEMMA ResampleCopyKeeps ==
  ASSUME IInv, ResampleCopy
  PROVE  IInv'
<1> DEFINE r == Resampling(step)
<1>1. step \in Resampled
  BY DEF ResampleCopy, Resampled
<1>2. PICK w \in Sizes, h \in Sizes : Table(r.from, w, h)
  BY <1>1, ResamplingIs
<1>3. Width(r.from) = w /\ Height(r.from) = h
  BY <1>2, TableSizes
<1>4. r.w = Width(r.from) /\ r.h = Height(r.from)
  BY DEF ResampleCopy, IsIdentity
<1>5. Table(r.from, r.w, r.h)
  BY <1>2, <1>3, <1>4
<1> QED
  BY <1>1, <1>5, ResampledKeeps DEF ResampleCopy

(* A row is as wide as is asked for, and the picture as high when it is     *)
(* whole.                                                                   *)
LEMMA ResampleRowKeeps ==
  ASSUME IInv, ResampleRow
  PROVE  IInv'
<1> DEFINE r == Resampling(step)
           old == img[step]
           entry == Entry(r.kernel, r.part.h, r.h, Len(old))
           capacity == RingCapacity(BuildFilterTable(r.kernel, r.part.h, r.h))
           row == RowOf(r, RowsHeld(r, ring, entry, capacity), entry, capacity)
           last == Len(old) + 1 = r.h
<1>1. step \in Resampled
  BY DEF ResampleRow, Resampled
<1>2. r.w \in Sizes /\ r.h \in Sizes /\ Growing(old, r.w, r.h)
  BY <1>1, ResamplingIs
<1>3. /\ img' = [img EXCEPT ![step] = Append(@, row)]
      /\ step' = IF last THEN AfterResampling(step) ELSE step
      /\ UNCHANGED <<job, turn, chunk, temp, target>>
  BY DEF ResampleRow
<1>4. row = [x \in 1 .. r.w |-> row[x]]
  BY DEF RowOf
<1> HIDE DEF row, entry
<1>5. PICK k \in 0 .. r.h - 1 : Table(old, r.w, k)
  BY <1>2 DEF Growing
<1>6. r.w \in Nat /\ k \in Nat /\ r.h \in Nat
  BY <1>2, <1>5 DEF Sizes
<1>7. Len(old) = k
  BY <1>5, <1>6, TableIsSeq
<1>8. Table(Append(old, row), r.w, k + 1)
  BY <1>4, <1>5, <1>6, TableGrows
<1>9. last \/ Growing(Append(old, row), r.w, r.h)
  BY <1>5, <1>6, <1>7, <1>8 DEF Growing
<1>10. img' = [img EXCEPT ![step] = Append(old, row)]
  BY <1>3
<1>11. \/ step' = AfterResampling(step) /\ Table(Append(old, row), r.w, r.h)
       \/ step' = step /\ Growing(Append(old, row), r.w, r.h)
  BY <1>3, <1>7, <1>8, <1>9
<1> QED
  BY <1>1, <1>3, <1>10, <1>11, ResampledKeeps

(* A blurred picture has the size it had.                                   *)
LEMMA BlurKeepsTable ==
  ASSUME NEW rows, NEW w \in Sizes, NEW h \in Sizes, Table(rows, w, h), NEW radius
  PROVE  Table(BlurRows(rows, radius), w, h)
<1> DEFINE new == BlurRows(rows, radius)
<1>2. Len(rows) = h /\ \A y \in 1 .. h : Len(rows[y]) = w
  BY TableSizes
<1>3. new = [y \in 1 .. h |-> BoxBlur(rows[y], radius)]
  BY <1>2 DEF BlurRows
<1>4. ASSUME NEW y \in 1 .. h
      PROVE  new[y] = [x \in 1 .. w |-> new[y][x]]
  <2>1. new[y] = BoxBlur(rows[y], radius)
    BY <1>3
  <2> DEFINE line == rows[y]
  <2>2. Len(line) = w
    BY <1>2
  <2> HIDE DEF line
  <2>3. BoxBlur(line, radius) = [x \in 1 .. w |-> BoxBlur(line, radius)[x]]
    BY <2>2 DEF BoxBlur
  <2> QED
    BY <2>1, <2>3 DEF line
<1> HIDE DEF new
<1>5. new = [y \in 1 .. h |-> new[y]]
  BY <1>3
<1> QED
  BY <1>4, <1>5 DEF Table, new

(* The columns of a picture are the rows of another.                        *)
LEMMA TransposedIsTable ==
  ASSUME NEW rows, NEW w \in Sizes, NEW h \in Sizes, Table(rows, w, h)
  PROVE  /\ Transposed(rows) = [x \in 1 .. w |-> [y \in 1 .. h |-> rows[y][x]]]
         /\ Table(Transposed(rows), h, w)
<1>1. Width(rows) = w /\ Height(rows) = h
  BY TableSizes
<1>2. Transposed(rows) = [x \in 1 .. w |-> [y \in 1 .. h |-> rows[y][x]]]
  BY <1>1 DEF Transposed
<1> QED
  BY <1>2 DEF Table

(* A blurred picture, or one left unblurred, keeps its size; the counter wraps. *)
LEMMA BlurKeeps ==
  ASSUME IInv, Blur \/ BlurLeftOut
  PROVE  IInv'
<1> USE DEF Early, Ended, Decoded, PastLow, PastBackdrop, PastFront, Writing
<1>1. CallOK /\ step = "blur" /\ step' \in {"blur", "darken low"} /\ turn \in 0 .. 5
  BY DEF IInv, JobOK, TurnOK, Blur, BlurLeftOut
<1>2. UNCHANGED <<job, chunk, temp, target>>
  BY DEF Blur, BlurLeftOut
<1>3. /\ SourceWidth' = SourceWidth /\ SourceHeight' = SourceHeight
      /\ TargetWidth' = TargetWidth /\ TargetHeight' = TargetHeight
      /\ LowWidth' = LowWidth /\ LowHeight' = LowHeight /\ Front' = Front
  BY <1>2, SameSizes
<1>4. LowWidth \in Sizes /\ LowHeight \in Sizes
  BY <1>1, LowSizesOK
<1>5. /\ Table(img'.low, LowWidth, LowHeight)
      /\ {"source", "low", "backdrop", "front"} \subseteq DOMAIN img'
      /\ \A name \in {"source", "backdrop", "front"} : img'[name] = img[name]
  <2>1. /\ Table(img.low, LowWidth, LowHeight)
        /\ {"source", "low", "backdrop", "front"} \subseteq DOMAIN img
    BY <1>1 DEF IInv, PicturesOK
  <2>2. CASE BlurLeftOut
    BY <2>1, <2>2 DEF BlurLeftOut
  <2>3. CASE Blur
    <3> DEFINE radius == Boxes(BlurRadius)[turn \div 2 + 1]
               new == IF turn % 2 = 0 THEN BlurRows(img.low, radius)
                      ELSE Transposed(BlurRows(Transposed(img.low), radius))
    <3>1. img' = [img EXCEPT !.low = new]
      BY <2>3 DEF Blur
    <3>2. Table(new, LowWidth, LowHeight)
      <4> HIDE DEF radius
      <4>1. Table(BlurRows(img.low, radius), LowWidth, LowHeight)
        BY <1>4, <2>1, BlurKeepsTable
      <4>2. Table(Transposed(img.low), LowHeight, LowWidth)
        BY <1>4, <2>1, TransposedIsTable
      <4>3. Table(BlurRows(Transposed(img.low), radius), LowHeight, LowWidth)
        BY <1>4, <4>2, BlurKeepsTable
      <4>4. Table(Transposed(BlurRows(Transposed(img.low), radius)), LowWidth, LowHeight)
        BY <1>4, <4>3, TransposedIsTable
      <4> QED
        BY <4>1, <4>4
    <3> HIDE DEF new
    <3> QED
      BY <2>1, <3>1, <3>2
  <2> QED
    BY <2>2, <2>3
<1>6. JobOK'
  BY <1>1, <1>2, SameSizes DEF IInv, JobOK
<1>7. PicturesOK'
  BY <1>1, <1>3, <1>5 DEF IInv, PicturesOK
<1>8. TurnOK'
  <2>1. step' = "blur" => turn' \in 0 .. 5
    BY <1>1 DEF Blur, BlurLeftOut
  <2>2. step' = "darken low" => turn' = 0
    <3>1. CASE BlurLeftOut
      BY <3>1 DEF BlurLeftOut
    <3>2. CASE Blur
      <4>1. turn' = (turn + 1) % 6 /\ step' = IF turn = 5 THEN "darken low" ELSE step
        BY <3>2 DEF Blur
      <4>2. turn = 5 => (turn + 1) % 6 = 0
        OBVIOUS
      <4> QED
        BY <1>1, <4>1, <4>2
    <3> QED
      BY <3>1, <3>2
  <2> QED
    BY <1>1, <2>1, <2>2 DEF TurnOK
<1>9. FilesOK'
  BY <1>1, <1>2, FilesStay DEF IInv, NotWriting
<1> QED
  BY <1>6, <1>7, <1>8, <1>9 DEF IInv

(* A darkened picture has the size it had.                                  *)
LEMMA DarkenKeepsTable ==
  ASSUME NEW rows, NEW w, NEW h, Table(rows, w, h), NEW hundredths, NEW dimMillis
  PROVE  Table(EnhanceBrightness(rows, hundredths, dimMillis), w, h)
<1>1. DOMAIN rows = 1 .. h /\ \A y \in 1 .. h : DOMAIN rows[y] = 1 .. w
  BY DEF Table
<1> QED
  BY <1>1 DEF Table, EnhanceBrightness

(* A darkened picture keeps its size, and the tool goes on.                *)
LEMMA DarkenKeeps ==
  ASSUME IInv, Darken
  PROVE  IInv'
<1> USE DEF Early, Ended, Decoded, PastLow, PastBackdrop, PastFront, Writing
<1>1. /\ CallOK
      /\ \/ step = "darken low" /\ step' = "backdrop"
         \/ step = "darken source" /\ step' = "front"
  BY DEF IInv, JobOK, Darken
<1>2. UNCHANGED <<job, turn, chunk, temp, target>>
  BY DEF Darken
<1>3. /\ SourceWidth' = SourceWidth /\ SourceHeight' = SourceHeight
      /\ TargetWidth' = TargetWidth /\ TargetHeight' = TargetHeight
      /\ LowWidth' = LowWidth /\ LowHeight' = LowHeight /\ Front' = Front
  BY <1>2, SameSizes
<1>4. /\ Table(img.low, LowWidth, LowHeight) /\ Table(img.source, SourceWidth, SourceHeight)
      /\ {"source", "low", "backdrop", "front"} \subseteq DOMAIN img
  BY <1>1 DEF IInv, PicturesOK
<1>5. /\ Table(img'.low, LowWidth, LowHeight) /\ Table(img'.source, SourceWidth, SourceHeight)
      /\ {"source", "low", "backdrop", "front"} \subseteq DOMAIN img'
      /\ img'.backdrop = img.backdrop /\ img'.front = img.front
  <2>1. CASE step = "darken low"
    <3>1. img' = [img EXCEPT !.low = EnhanceBrightness(img.low, 45, job.dimMillis)]
      BY <2>1 DEF Darken
    <3> QED
      BY <1>4, <3>1, DarkenKeepsTable
  <2>2. CASE step = "darken source"
    <3>1. img' = [img EXCEPT !.source = EnhanceBrightness(img.source, 75, job.dimMillis)]
      BY <2>2 DEF Darken
    <3> QED
      BY <1>4, <3>1, DarkenKeepsTable
  <2> QED
    BY <1>1, <2>1, <2>2
<1>6. \A w \in Sizes, h \in Sizes : Growing(<<>>, w, h)
  <2>1. \A w : Table(<<>>, w, 0)
    BY DEF Table
  <2>2. \A h \in Sizes : 0 \in 0 .. h - 1
    BY DEF Sizes
  <2> QED
    BY <2>1, <2>2 DEF Growing
<1>7. /\ TargetWidth \in Sizes /\ TargetHeight \in Sizes
      /\ Front.w \in Sizes /\ Front.h \in Sizes
  BY <1>1, SizesOK, FrontSizesOK
<1>8. JobOK'
  BY <1>1, <1>2, SameSizes DEF IInv, JobOK
<1>9. PicturesOK'
  BY <1>1, <1>3, <1>5, <1>6, <1>7 DEF IInv, PicturesOK
<1>10. TurnOK'
  BY <1>1, <1>2 DEF IInv, TurnOK
<1>11. FilesOK'
  BY <1>1, <1>2, FilesStay DEF IInv, NotWriting
<1> QED
  BY <1>8, <1>9, <1>10, <1>11 DEF IInv

(* A row that is composed is as wide as the backdrop.                       *)
LEMMA ComposeRowKeeps ==
  ASSUME IInv, ComposeRow
  PROVE  IInv'
<1> USE DEF Early, Ended, Decoded, PastLow, PastBackdrop, PastFront, Writing
<1>1. CallOK /\ step = "compose" /\ step' \in {"compose", "open"}
  BY DEF IInv, JobOK, ComposeRow
<1>2. UNCHANGED <<job, chunk, temp, target>>
  BY DEF ComposeRow
<1>3. /\ SourceWidth' = SourceWidth /\ SourceHeight' = SourceHeight
      /\ TargetWidth' = TargetWidth /\ TargetHeight' = TargetHeight
      /\ LowWidth' = LowWidth /\ LowHeight' = LowHeight /\ Front' = Front
  BY <1>2, SameSizes
<1>4. /\ Table(img.backdrop, TargetWidth, TargetHeight)
      /\ Table(img.front, Front.w, Front.h) /\ turn \in 0 .. Front.h - 1
      /\ {"source", "low", "backdrop", "front"} \subseteq DOMAIN img
  BY <1>1 DEF IInv, PicturesOK, TurnOK
<1>5. PICK line : /\ line = [x \in 1 .. TargetWidth |-> line[x]]
                  /\ img' = [img EXCEPT !.backdrop[PosY + (turn + 1)] = line]
  BY DEF ComposeRow
<1>6. img'.backdrop = [img.backdrop EXCEPT ![PosY + (turn + 1)] = line]
  BY <1>4, <1>5
<1>7. Table(img'.backdrop, TargetWidth, TargetHeight)
  BY <1>4, <1>5, <1>6 DEF Table
<1>8. /\ {"source", "low", "backdrop", "front"} \subseteq DOMAIN img'
      /\ \A name \in {"source", "low", "front"} : img'[name] = img[name]
  BY <1>4, <1>5
<1>9. JobOK'
  BY <1>1, <1>2, SameSizes DEF IInv, JobOK
<1>10. PicturesOK'
  BY <1>1, <1>3, <1>7, <1>8 DEF IInv, PicturesOK
<1>11. TurnOK'
  <2>1. Front.w \in Sizes /\ Front.h \in Sizes
    BY <1>1, FrontSizesOK
  <2>2. Front.w \in Nat /\ Front.h \in Nat /\ Front.h # 0
    BY <2>1 DEF Sizes
  <2>3. Height(img.front) = Front.h
    BY <1>4, <2>1, TableSizes
  <2>4. /\ turn' = IF turn + 1 = Front.h THEN 0 ELSE turn + 1
        /\ step' = IF turn + 1 = Front.h THEN "open" ELSE step
    BY <2>3 DEF ComposeRow
  <2> QED
    BY <1>1, <1>3, <1>4, <2>2, <2>4 DEF TurnOK
<1>12. FilesOK'
  BY <1>1, <1>2, FilesStay DEF IInv, NotWriting
<1> QED
  BY <1>9, <1>10, <1>11, <1>12 DEF IInv
-----------------------------------------------------------------------------
(* Writing the picture *)

(* The picture that is written has all pixels of the backdrop, row by row.  *)
LEMMA ImageIs ==
  ASSUME CallOK, Table(img.backdrop, TargetWidth, TargetHeight)
  PROVE  /\ Pixels \in Sizes /\ Len(Image) = Pixels
         /\ Image \in Seq({Image[i] : i \in 1 .. Pixels})
         /\ \A i \in 1 .. Pixels :
              Image[i] = img.backdrop[(i - 1) \div TargetWidth + 1][((i - 1) % TargetWidth) + 1]
<1>1. TargetWidth \in Sizes /\ TargetHeight \in Sizes
  BY SizesOK
<1>2. Pixels \in Sizes
  <2>1. 1 * TargetHeight <= TargetWidth * TargetHeight
    BY <1>1, ProductsInOrder DEF Sizes
  <2> QED
    BY <1>1, <2>1 DEF Sizes, Pixels
<1>3. Width(img.backdrop) = TargetWidth /\ Height(img.backdrop) = TargetHeight
  BY <1>1, TableSizes
<1>4. Image = [i \in 1 .. Pixels |->
                 img.backdrop[(i - 1) \div TargetWidth + 1][((i - 1) % TargetWidth) + 1]]
  BY <1>3 DEF Image, RowByRow, Pixels
<1>5. Image = [i \in 1 .. Pixels |-> Image[i]]
  BY <1>4
<1>6. Image \in Seq({Image[i] : i \in 1 .. Pixels}) /\ Len(Image) = Pixels
  <2>1. Pixels \in Nat
    BY <1>2 DEF Sizes
  <2> QED
    BY <1>5, <2>1, SomeSeq
<1> QED
  BY <1>2, <1>4, <1>6

(* A part of one row is a part of the picture.                              *)
LEMMA PartOfRow ==
  ASSUME CallOK, Table(img.backdrop, TargetWidth, TargetHeight),
         NEW t \in 0 .. Pixels - 1, NEW n \in Nat, n <= TargetWidth - (t % TargetWidth)
  PROVE  LET x == t % TargetWidth
             row == img.backdrop[t \div TargetWidth + 1]
         IN  /\ x \in 0 .. TargetWidth - 1 /\ t + n <= Pixels
             /\ SubSeq(row, x + 1, x + n) = SubSeq(Image, t + 1, t + n)
<1> DEFINE w == TargetWidth
           h == TargetHeight
           q == t \div w
           x == t % w
           row == img.backdrop[q + 1]
<1>1. w \in Sizes /\ h \in Sizes /\ w \in Nat \ {0} /\ h \in Nat \ {0}
  BY SizesOK DEF Sizes
<1>2. Pixels \in Nat /\ Pixels = w * h
  BY ImageIs DEF Sizes, Pixels
<1>3. q \in Int /\ x \in 0 .. w - 1 /\ t = w * q + x
  <2>1. t \in Int /\ w \in Nat \ {0}
    BY <1>1, <1>2
  <2> QED
    BY <2>1, QuotientAndRest
<1> HIDE DEF q, x
<1>4. q \in 0 .. h - 1
  <2>1. w * q \in Int
    BY <1>1, <1>3
  <2>2. q < h
    <3> SUFFICES ASSUME h <= q PROVE FALSE
      BY <1>1, <1>3
    <3>1. w * h <= w * q
      BY <1>1, <1>3, ProductsInOrder
    <3> QED
      BY <1>1, <1>2, <1>3, <2>1, <3>1
  <2>3. q >= 0
    <3> SUFFICES ASSUME q <= -1 PROVE FALSE
      BY <1>3
    <3>1. w * q <= w * (-1)
      BY <1>1, <1>3, ProductsInOrder
    <3> QED
      BY <1>1, <1>3, <2>1, <3>1
  <2> QED
    BY <1>1, <1>3, <2>2, <2>3
<1>5. t + n <= Pixels
  <2>1. w * (q + 1) <= w * h
    BY <1>1, <1>4, ProductsInOrder
  <2>2. w * (q + 1) = w * q + w /\ w * q \in Int
    BY <1>1, <1>3
  <2>3. n <= w - x
    BY DEF x
  <2> QED
    BY <1>1, <1>2, <1>3, <2>1, <2>2, <2>3
<1>6. ASSUME NEW i \in 1 .. n
      PROVE  Image[t + i] = row[x + i]
  <2>1. x + i - 1 \in 0 .. w - 1
    <3>1. n <= w - x
      BY DEF x
    <3> QED
      BY <1>1, <1>3, <3>1
  <2>2. t + i - 1 = q * w + (x + i - 1)
    BY <1>1, <1>3
  <2>3. (t + i - 1) \div w = q /\ (t + i - 1) % w = x + i - 1
    <3> DEFINE r == x + i - 1
    <3>1. (q * w + r) \div w = q /\ (q * w + r) % w = r
      <4>1. q \in Int /\ r \in 0 .. w - 1 /\ w \in Nat \ {0}
        BY <1>1, <1>3, <2>1
      <4> HIDE DEF r
      <4> QED
        BY <4>1, QuotientIs
    <3> QED
      BY <2>2, <3>1
  <2>4. t + i \in 1 .. Pixels /\ (t + i) - 1 = t + i - 1
    BY <1>2, <1>5
  <2>5. Image[t + i] = img.backdrop[(t + i - 1) \div w + 1][((t + i - 1) % w) + 1]
    BY <2>4, ImageIs
  <2> QED
    BY <1>3, <2>3, <2>5
<1>7. SubSeq(row, x + 1, x + n) = SubSeq(Image, t + 1, t + n)
  <2>1. SubSeq(row, x + 1, x + n) = [i \in 1 .. n |-> row[x + i]]
    BY <1>1, <1>3
  <2>2. SubSeq(Image, t + 1, t + n) = [i \in 1 .. n |-> Image[t + i]]
    BY <1>2
  <2> QED
    BY <1>6, <2>1, <2>2
<1> QED
  BY <1>3, <1>5, <1>7 DEF q, x

(* What is common to the steps that write.                                  *)
LEMMA WritingIs ==
  ASSUME IInv, step \in {"open", "convert", "write", "rename"}
  PROVE  /\ CallOK /\ Table(img.backdrop, TargetWidth, TargetHeight)
         /\ Pixels \in Nat \ {0} /\ ChunkPixels \in Nat \ {0}
<1> USE DEF Early, Ended, Decoded, PastLow, PastBackdrop, PastFront, Writing
<1>1. CallOK /\ Table(img.backdrop, TargetWidth, TargetHeight)
  BY DEF IInv, JobOK, PicturesOK
<1>2. Pixels \in Nat \ {0}
  BY <1>1, ImageIs DEF Sizes
<1> QED
  BY <1>1, <1>2, ArtworkAssumption

(* The pictures are not touched while they are written.                     *)
LEMMA WritingKeeps ==
  ASSUME IInv, step \in {"open", "convert", "write", "rename"},
         step' \in {"convert", "write", "rename", "done"}, UNCHANGED <<job, img>>
  PROVE  JobOK' /\ PicturesOK' /\ TurnOK' /\ Image' = Image /\ Pixels' = Pixels
<1> USE DEF Early, Ended, Decoded, PastLow, PastBackdrop, PastFront, Writing
<1>1. JobOK'
  BY SameSizes DEF IInv, JobOK
<1>2. PicturesOK'
  BY SameSizes DEF IInv, PicturesOK
<1>3. TurnOK'
  BY DEF TurnOK
<1> QED
  BY <1>1, <1>2, <1>3, SameSizes DEF Image

(* The temporary file is empty when it is opened.                           *)
LEMMA OpenTempKeeps ==
  ASSUME IInv, OpenTemp
  PROVE  IInv'
<1>1. /\ step = "open" /\ step' = "convert" /\ temp' = <<>> /\ chunk' = chunk
      /\ turn' = turn /\ UNCHANGED <<job, img, target>>
  BY DEF OpenTemp
<1>2. /\ Pixels \in Nat \ {0} /\ ChunkPixels \in Nat \ {0}
      /\ JobOK' /\ PicturesOK' /\ TurnOK' /\ Image' = Image /\ Pixels' = Pixels
  BY <1>1, WritingIs, WritingKeeps
<1>3. turn = 0 /\ chunk = <<>> /\ target = job.before
  BY <1>1 DEF IInv, TurnOK, FilesOK, Early, Ended
<1>4. SubSeq(Image, 1, 0) = <<>>
  OBVIOUS
<1>5. Written(ChunkPixels - 1)'
  <2>1. /\ turn' = 0 /\ temp' = SubSeq(Image', 1, 0)
        /\ chunk' = SubSeq(Image', 0 + 1, 0)
    BY <1>1, <1>2, <1>3, <1>4
  <2>2. turn' \in 0 .. Pixels' /\ 0 \in 0 .. turn' /\ turn' - 0 <= ChunkPixels - 1
    BY <1>2, <2>1
  <2> QED
    BY <2>1, <2>2 DEF Written
<1>6. FilesOK'
  BY <1>1, <1>3, <1>5 DEF FilesOK, Ended
<1> QED
  BY <1>2, <1>6 DEF IInv

(* What is converted are the next pixels of the picture.                    *)
LEMMA ConvertKeeps ==
  ASSUME IInv, Convert
  PROVE  IInv'
<1> DEFINE x == turn % TargetWidth
           row == img.backdrop[turn \div TargetWidth + 1]
           n == Smaller(TargetWidth - x, ChunkPixels - Len(chunk))
<1>1. /\ step = "convert" /\ turn < Pixels
      /\ chunk' = chunk \o SubSeq(row, x + 1, x + n) /\ turn' = turn + n
      /\ step' = (IF FlushDue(turn + n) THEN "write" ELSE step)
      /\ UNCHANGED <<job, img, temp, target>>
  BY DEF Convert
<1>2. /\ CallOK /\ Table(img.backdrop, TargetWidth, TargetHeight)
      /\ Pixels \in Nat \ {0} /\ ChunkPixels \in Nat \ {0}
      /\ JobOK' /\ PicturesOK' /\ TurnOK' /\ Image' = Image /\ Pixels' = Pixels
  <2>1. step' \in {"convert", "write"}
    BY <1>1
  <2> QED
    BY <1>1, <2>1, WritingIs, WritingKeeps
<1>3. Written(ChunkPixels - 1) /\ target = job.before
  BY <1>1 DEF IInv, FilesOK
<1>4. PICK k \in 0 .. turn : /\ turn - k <= ChunkPixels - 1
                             /\ temp = SubSeq(Image, 1, k)
                             /\ chunk = SubSeq(Image, k + 1, turn)
  BY <1>3 DEF Written
<1>5. turn \in 0 .. Pixels - 1 /\ turn \in Nat /\ k \in Nat
  BY <1>1, <1>2, <1>3, <1>4 DEF Written
<1>6. Len(chunk) = turn - k
  BY <1>4, <1>5
<1>7. /\ n \in Nat \ {0} /\ n <= TargetWidth - (turn % TargetWidth)
      /\ n <= ChunkPixels - (turn - k)
  <2>1. TargetWidth \in Nat \ {0} /\ x \in 0 .. TargetWidth - 1
    BY <1>2, <1>5, SizesOK DEF Sizes
  <2> HIDE DEF x
  <2> QED
    BY <1>2, <1>4, <1>5, <1>6, <2>1 DEF Smaller, x
<1>8. /\ turn + n <= Pixels
      /\ SubSeq(row, x + 1, x + n) = SubSeq(Image, turn + 1, turn + n)
  <2>1. n \in Nat
    BY <1>7
  <2> HIDE DEF n
  <2> QED
    BY <1>2, <1>5, <1>7, <2>1, PartOfRow
<1> HIDE DEF n, x, row
<1>9. chunk' = SubSeq(Image, k + 1, turn + n)
  <2>1. chunk' = SubSeq(Image, k + 1, turn) \o SubSeq(Image, turn + 1, turn + n)
    BY <1>1, <1>4, <1>8
  <2>2. PICK S : Image \in Seq(S) /\ Len(Image) = Pixels
    BY <1>2, ImageIs
  <2>3. /\ k + 1 \in 1 .. Len(Image) + 1 /\ turn \in (k + 1) - 1 .. Len(Image)
        /\ turn + n \in turn .. Len(Image)
    BY <1>4, <1>5, <1>7, <1>8, <2>2
  <2> QED
    BY <2>1, <2>2, <2>3, ConcatAdjacentSubSeq
<1>10. turn' = turn + n /\ temp' = SubSeq(Image, 1, k)
  BY <1>1, <1>4
<1>11. Written(ChunkPixels)' /\ (step' = "convert" => Written(ChunkPixels - 1)')
  <2> DEFINE done == turn + n
  <2>1. done \in 0 .. Pixels /\ k \in 0 .. done /\ done - k <= ChunkPixels
    BY <1>2, <1>4, <1>5, <1>7, <1>8
  <2>2. Len(SubSeq(Image, k + 1, done)) = done - k
    BY <1>5, <2>1
  <2>3. step' = "convert" => Len(chunk') # ChunkPixels
    BY <1>1 DEF FlushDue
  <2>4. step' = "convert" => done - k <= ChunkPixels - 1
    <3>1. step' = "convert" => done - k # ChunkPixels
      BY <1>9, <2>2, <2>3
    <3>2. done - k \in Int
      BY <1>5, <2>1
    <3> QED
      BY <1>2, <2>1, <3>1, <3>2
  <2>5. turn' = done
    BY <1>10
  <2> HIDE DEF done
  <2>6. /\ turn' \in 0 .. Pixels' /\ k \in 0 .. turn' /\ turn' - k <= ChunkPixels
        /\ temp' = SubSeq(Image', 1, k)
    BY <1>2, <1>10, <2>1, <2>5
  <2>7. chunk' = SubSeq(Image', k + 1, turn')
    BY <1>2, <1>9, <2>5 DEF done
  <2>8. step' = "convert" => turn' - k <= ChunkPixels - 1
    BY <2>4, <2>5
  <2> QED
    BY <2>6, <2>7, <2>8 DEF Written
<1>12. FilesOK'
  <2>1. step' \in {"convert", "write"}
    BY <1>1
  <2> QED
    BY <1>1, <1>3, <1>11, <2>1 DEF FilesOK, Ended
<1> QED
  BY <1>2, <1>12 DEF IInv

(* What is written moves from the chunk to the file, in order.              *)
LEMMA WriteKeeps ==
  ASSUME IInv, Write
  PROVE  IInv'
<1>1. PICK n \in 1 .. Len(chunk) :
        /\ temp' = temp \o Take(chunk, n) /\ chunk' = Skip(chunk, n)
        /\ step' = IF n < Len(chunk) THEN step ELSE IF turn < Pixels THEN "convert" ELSE "rename"
  BY DEF Write
<1>2. step = "write" /\ UNCHANGED <<job, img, turn, target>>
  BY DEF Write
<1>3. step' \in {"convert", "write", "rename"}
  BY <1>1, <1>2
<1>4. /\ CallOK /\ Table(img.backdrop, TargetWidth, TargetHeight)
      /\ Pixels \in Nat \ {0} /\ ChunkPixels \in Nat \ {0}
      /\ JobOK' /\ PicturesOK' /\ TurnOK' /\ Image' = Image /\ Pixels' = Pixels
  BY <1>2, <1>3, WritingIs, WritingKeeps
<1>5. Written(ChunkPixels) /\ target = job.before
  BY <1>2 DEF IInv, FilesOK
<1>6. PICK k \in 0 .. turn : /\ turn - k <= ChunkPixels
                             /\ temp = SubSeq(Image, 1, k)
                             /\ chunk = SubSeq(Image, k + 1, turn)
  BY <1>5 DEF Written
<1>7. turn \in 0 .. Pixels /\ turn \in Nat /\ k \in Nat
  BY <1>4, <1>5, <1>6 DEF Written
<1>8. PICK S : Image \in Seq(S) /\ Len(Image) = Pixels
  BY <1>4, ImageIs
<1>9. Len(chunk) = turn - k /\ n \in Nat /\ k + n <= turn
  BY <1>1, <1>6, <1>7
<1>10. Take(chunk, n) = SubSeq(Image, k + 1, k + n)
  <2>1. Take(chunk, n) = SubSeq(chunk, 1, n)
    BY <1>1, <1>9 DEF Take
  <2>2. SubSeq(chunk, 1, n) = [i \in 1 .. n |-> chunk[i]]
    BY <1>9
  <2>3. \A i \in 1 .. n : chunk[i] = Image[k + i]
    BY <1>6, <1>7, <1>9
  <2>4. SubSeq(Image, k + 1, k + n) = [i \in 1 .. n |-> Image[k + i]]
    BY <1>7, <1>9
  <2> QED
    BY <2>1, <2>2, <2>3, <2>4
<1>11. Skip(chunk, n) = SubSeq(Image, (k + n) + 1, turn)
  <2>1. Skip(chunk, n) = [i \in 1 .. turn - (k + n) |-> chunk[n + i]]
    BY <1>7, <1>9 DEF Skip
  <2>2. \A i \in 1 .. turn - (k + n) : chunk[n + i] = Image[(k + n) + i]
    BY <1>6, <1>7, <1>9
  <2>3. SubSeq(Image, (k + n) + 1, turn) = [i \in 1 .. turn - (k + n) |-> Image[(k + n) + i]]
    BY <1>7, <1>9
  <2> QED
    BY <2>1, <2>2, <2>3
<1>12. temp' = SubSeq(Image, 1, k + n)
  <2>1. temp' = SubSeq(Image, 1, k) \o SubSeq(Image, k + 1, k + n)
    BY <1>1, <1>6, <1>10
  <2>2. /\ 1 \in 1 .. Len(Image) + 1 /\ k \in 1 - 1 .. Len(Image)
        /\ k + n \in k .. Len(Image)
    BY <1>7, <1>8, <1>9
  <2> QED
    BY <1>8, <2>1, <2>2, ConcatAdjacentSubSeq
<1>13. /\ turn' \in 0 .. Pixels' /\ k + n \in 0 .. turn' /\ turn' - (k + n) <= ChunkPixels - 1
       /\ temp' = SubSeq(Image', 1, k + n) /\ chunk' = SubSeq(Image', (k + n) + 1, turn')
  <2>1. turn \in 0 .. Pixels /\ k + n \in 0 .. turn /\ turn - (k + n) <= ChunkPixels - 1
    BY <1>1, <1>4, <1>6, <1>7, <1>9
  <2> QED
    BY <1>1, <1>2, <1>4, <1>11, <1>12, <2>1
<1>14. Written(ChunkPixels - 1)' /\ Written(ChunkPixels)'
  <2>1. turn' - (k + n) <= ChunkPixels
    BY <1>2, <1>4, <1>7, <1>9, <1>13
  <2> QED
    BY <1>13, <2>1 DEF Written
<1>15. step' = "rename" => temp' = Image'
  <2> SUFFICES ASSUME step' = "rename" PROVE temp' = Image'
    OBVIOUS
  <2>1. n = Len(chunk) /\ turn = Pixels
    BY <1>1, <1>2, <1>7, <1>4
  <2>2. k + n = Len(Image)
    BY <1>7, <1>8, <1>9, <2>1
  <2> QED
    BY <1>4, <1>8, <1>12, <2>2, SubSeqFull
<1>16. FilesOK'
  BY <1>2, <1>3, <1>5, <1>14, <1>15 DEF FilesOK, Ended
<1> QED
  BY <1>4, <1>16 DEF IInv

(* The target becomes the picture that is written.                          *)
LEMMA RenameKeeps ==
  ASSUME IInv, Rename
  PROVE  IInv'
<1>1. /\ step = "rename" /\ step' = "done" /\ target' = temp /\ temp' = NoFile
      /\ UNCHANGED <<job, img>>
  BY DEF Rename
<1>2. JobOK' /\ PicturesOK' /\ TurnOK' /\ Image' = Image
  BY <1>1, WritingKeeps
<1>3. temp = Image
  BY <1>1 DEF IInv, FilesOK
<1>4. FilesOK'
  BY <1>1, <1>2, <1>3 DEF FilesOK, Ended
<1> QED
  BY <1>2, <1>4 DEF IInv

(* A tool that fails or is killed leaves the target as it was.              *)
LEMMA EndKeeps ==
  ASSUME IInv, Fail \/ Killed
  PROVE  IInv'
<1> USE DEF Early, Ended, Decoded, PastLow, PastBackdrop, PastFront, Writing
<1>1. /\ Running /\ step' \in {"failed", "killed"} /\ UNCHANGED <<job, img, target>>
      /\ (step' = "failed" => temp' = IF step \in {"convert", "write", "rename"} THEN NoFile ELSE temp)
  BY DEF Fail, Killed
<1>2. JobOK'
  BY <1>1 DEF IInv, JobOK
<1>3. PicturesOK'
  BY <1>1 DEF IInv, PicturesOK
<1>4. TurnOK'
  BY <1>1 DEF TurnOK
<1>5. FilesOK'
  <2>1. target' = job'.before
    BY <1>1 DEF IInv, FilesOK, Running
  <2>2. step' = "failed" => temp' \in {NoFile, job'.before}
    BY <1>1 DEF IInv, FilesOK, Running
  <2> QED
    BY <1>1, <2>1, <2>2 DEF FilesOK
<1> QED
  BY <1>2, <1>3, <1>4, <1>5 DEF IInv

-----------------------------------------------------------------------------
(* The theorems *)

(* The invariant holds at all times.                                        *)
THEOREM InductiveInvariant == Spec => []IInv
<1>1. Init => IInv
  BY InitIInv
<1>2. IInv /\ [Next]_artVars => IInv'
  <2> SUFFICES ASSUME IInv, [Next]_artVars
               PROVE  IInv'
    OBVIOUS
  <2>1. CASE Start
    BY <2>1, StartKeeps
  <2>2. CASE Stat \/ Read \/ Download
    BY <2>2, ReadingKeeps
  <2>3. CASE Decode
    BY <2>3, DecodeKeeps
  <2>4. CASE ResampleCopy
    BY <2>4, ResampleCopyKeeps
  <2>5. CASE ResampleRow
    BY <2>5, ResampleRowKeeps
  <2>6. CASE Blur \/ BlurLeftOut
    BY <2>6, BlurKeeps
  <2>7. CASE Darken
    BY <2>7, DarkenKeeps
  <2>8. CASE ComposeRow
    BY <2>8, ComposeRowKeeps
  <2>9. CASE OpenTemp
    BY <2>9, OpenTempKeeps
  <2>10. CASE Convert
    BY <2>10, ConvertKeeps
  <2>11. CASE Write
    BY <2>11, WriteKeeps
  <2>12. CASE Rename
    BY <2>12, RenameKeeps
  <2>13. CASE Fail \/ Killed
    BY <2>13, EndKeeps
  <2>14. CASE UNCHANGED artVars
    <3>1. /\ UNCHANGED <<job, step, img, turn, chunk, temp, target>>
          /\ Image' = Image
      BY <2>14 DEF artVars, Image
    <3> USE DEF IInv
    <3>2. JobOK'
      BY <3>1, SameSizes DEF JobOK
    <3>3. PicturesOK'
      BY <3>1, SameSizes DEF PicturesOK
    <3>4. TurnOK'
      BY <3>1, SameSizes DEF TurnOK
    <3>5. FilesOK'
      BY <3>1, SameSizes DEF FilesOK, Written
    <3> QED
      BY <3>2, <3>3, <3>4, <3>5
  <2> QED
    BY <2>1, <2>2, <2>3, <2>4, <2>5, <2>6, <2>7, <2>8, <2>9, <2>10, <2>11, <2>12, <2>13,
       <2>14 DEF Next
<1> QED
  BY <1>1, <1>2, PTL DEF Spec

(* At all times the target is what it was or all of the new picture.        *)
THEOREM TargetIsOldOrWhole == Spec => []OldOrWhole
<1>1. IInv => OldOrWhole
  BY DEF IInv, FilesOK, OldOrWhole, Image, Ended
<1> QED
  BY <1>1, InductiveInvariant, PTL

(* The crop and the front keep the shapes of the target and the source.     *)
THEOREM ShapesAreKept == Spec => []ShapeKept
<1>1. IInv => ShapeKept
  <2>1. CASE CallOK
    BY <2>1, ShapesFollow
  <2>2. CASE ~CallOK
    BY <2>2 DEF IInv, JobOK, ShapeKept, Ended
  <2> QED
    BY <2>1, <2>2
<1> QED
  BY <1>1, InductiveInvariant, PTL

-----------------------------------------------------------------------------
(* Sums *)

(* A sum is what adding one number after the other leads to.                *)
LEMMA TotalIs ==
  ASSUME NEW n \in Nat, NEW f \in [1 .. n -> Int],
         NEW s \in [0 .. n -> Int], s[0] = 0, \A k \in 1 .. n : s[k] = s[k - 1] + f[k]
  PROVE  Total(f) = s[n]
<1> DEFINE Body(t) == [k \in 0 .. n |-> IF k = 0 THEN 0 ELSE t[k - 1] + f[k]]
           t == CHOOSE t : t = Body(t)
<1>1. Len(f) = n
  BY FunctionIsSeq
<1>2. Total(f) = t[n]
  BY <1>1, Zenon DEF Total, Loop
<1>3. s = Body(s)
  OBVIOUS
<1>4. t = Body(t)
  <2> HIDE DEF Body
  <2> QED
    BY <1>3
<1> HIDE DEF t
<1> DEFINE T == {k \in 0 .. n : t[k] = s[k]}
<1>5. 0 \in T
  BY <1>4
<1>6. ASSUME NEW k \in 0 .. n - 1, k \in T
      PROVE  k + 1 \in T
  <2>1. k + 1 \in 1 .. n /\ (k + 1) - 1 = k
    OBVIOUS
  <2>2. t[k + 1] = t[k] + f[k + 1]
    BY <1>4, <2>1
  <2>3. s[k + 1] = s[k] + f[k + 1]
    BY <2>1
  <2> QED
    BY <1>6, <2>1, <2>2, <2>3
<1>7. n \in T
  <2> HIDE DEF T
  <2> QED
    BY <1>5, <1>6, n \in 0 .. n, Induction
<1> QED
  BY <1>2, <1>7

(* A sum is a number, got by adding one number after the other.             *)
LEMMA TotalAdds ==
  ASSUME NEW n \in Nat, NEW f \in [1 .. n -> Int]
  PROVE  /\ Total(f) \in Int
         /\ \E s \in [0 .. n -> Int] :
              /\ s[0] = 0 /\ \A k \in 1 .. n : s[k] = s[k - 1] + f[k]
              /\ s[n] = Total(f)
<1> DEFINE Step == [k \in 1 .. n |-> [v \in Int |-> v + f[k]]]
<1>1. StaysIn(Int, n, Step)
  BY DEF StaysIn
<1>2. PICK s : Iterates(s, Int, n, 0, Step)
  <2> DEFINE zero == 0
  <2>1. zero \in Int
    OBVIOUS
  <2> HIDE DEF Step, zero
  <2>2. \E s : Iterates(s, Int, n, zero, Step)
    BY <1>1, <2>1, Recursion
  <2> QED
    BY <2>2 DEF zero
<1>3. /\ s \in [0 .. n -> Int] /\ s[0] = 0
      /\ \A k \in 1 .. n : s[k] = s[k - 1] + f[k]
  <2>1. ASSUME NEW k \in 1 .. n
        PROVE  s[k] = s[k - 1] + f[k]
    <3>1. s \in [0 .. n -> Int] /\ s[k] = Step[k][s[k - 1]]
      BY <1>2 DEF Iterates
    <3>2. s[k - 1] \in Int
      BY <3>1
    <3> QED
      BY <3>1, <3>2
  <2> QED
    BY <1>2, <2>1 DEF Iterates
<1>4. Total(f) = s[n]
  BY <1>3, TotalIs
<1>5. s[n] \in Int
  BY <1>3
<1>6. \E q \in [0 .. n -> Int] :
        q[0] = 0 /\ (\A k \in 1 .. n : q[k] = q[k - 1] + f[k]) /\ q[n] = Total(f)
  <2>1. s \in [0 .. n -> Int]
    BY <1>3
  <2> USE <2>1
  <2> WITNESS s \in [0 .. n -> Int]
  <2> QED
    BY <1>3, <1>4
<1> QED
  BY <1>4, <1>5, <1>6

(* A sum falls into two.                                                    *)
LEMMA TotalSplits ==
  ASSUME NEW n \in Nat, NEW m \in Nat, NEW f \in [1 .. n + m -> Int]
  PROVE  Total(f) = Total([k \in 1 .. n |-> f[k]]) + Total([k \in 1 .. m |-> f[n + k]])
<1> DEFINE N == n + m
<1>0. \E s \in [0 .. N -> Int] :
        /\ s[0] = 0 /\ \A k \in 1 .. N : s[k] = s[k - 1] + f[k]
        /\ s[N] = Total(f)
  <2>1. N \in Nat /\ f \in [1 .. N -> Int]
    OBVIOUS
  <2> HIDE DEF N
  <2> QED
    BY <2>1, TotalAdds
<1>1. PICK s \in [0 .. n + m -> Int] :
        /\ s[0] = 0 /\ \A k \in 1 .. n + m : s[k] = s[k - 1] + f[k]
        /\ s[n + m] = Total(f)
  BY <1>0
<1>2. Total([k \in 1 .. n |-> f[k]]) = s[n]
  <2> DEFINE g == [k \in 1 .. n |-> f[k]]
             u == [k \in 0 .. n |-> s[k]]
  <2>1. /\ g \in [1 .. n -> Int] /\ u \in [0 .. n -> Int] /\ u[0] = 0
        /\ \A k \in 1 .. n : u[k] = u[k - 1] + g[k]
    BY <1>1
  <2>2. u[n] = s[n]
    OBVIOUS
  <2> HIDE DEF g, u
  <2> QED
    BY <2>1, <2>2, TotalIs DEF g
<1>3. Total([k \in 1 .. m |-> f[n + k]]) = s[n + m] - s[n]
  <2> DEFINE g == [k \in 1 .. m |-> f[n + k]]
             u == [k \in 0 .. m |-> s[n + k] - s[n]]
  <2>1. g \in [1 .. m -> Int] /\ u \in [0 .. m -> Int] /\ u[0] = 0
    BY <1>1
  <2>2. ASSUME NEW k \in 1 .. m
        PROVE  u[k] = u[k - 1] + g[k]
    <3>1. n + k \in 1 .. n + m /\ (n + k) - 1 = n + (k - 1) /\ k - 1 \in 0 .. m
      OBVIOUS
    <3>2. s[n + k] = s[n + (k - 1)] + f[n + k]
      BY <1>1, <3>1
    <3>3. u[k] = s[n + k] - s[n] /\ u[k - 1] = s[n + (k - 1)] - s[n] /\ g[k] = f[n + k]
      BY <3>1
    <3>4. s[n + k] \in Int /\ s[n + (k - 1)] \in Int /\ s[n] \in Int /\ f[n + k] \in Int
      BY <3>1
    <3> HIDE DEF u, g
    <3> QED
      BY <3>2, <3>3, <3>4
  <2>3. u[m] = s[n + m] - s[n]
    OBVIOUS
  <2> HIDE DEF g, u
  <2> QED
    BY <2>1, <2>2, <2>3, TotalIs DEF g
<1> QED
  BY <1>1, <1>2, <1>3

(* The sum of one number, and of one more                                   *)
LEMMA TotalOfOneMore ==
  ASSUME NEW n \in Nat, NEW f \in [1 .. n + 1 -> Int]
  PROVE  Total(f) = Total([k \in 1 .. n |-> f[k]]) + f[n + 1]
<1> DEFINE N == n + 1
<1>0. \E s \in [0 .. N -> Int] :
        /\ s[0] = 0 /\ \A k \in 1 .. N : s[k] = s[k - 1] + f[k]
        /\ s[N] = Total(f)
  <2>1. N \in Nat /\ f \in [1 .. N -> Int]
    OBVIOUS
  <2> HIDE DEF N
  <2> QED
    BY <2>1, TotalAdds
<1>1. PICK s \in [0 .. n + 1 -> Int] :
        /\ s[0] = 0 /\ \A k \in 1 .. n + 1 : s[k] = s[k - 1] + f[k]
        /\ s[n + 1] = Total(f)
  BY <1>0
<1>2. Total([k \in 1 .. n |-> f[k]]) = s[n]
  <2> DEFINE g == [k \in 1 .. n |-> f[k]]
             u == [k \in 0 .. n |-> s[k]]
  <2>1. /\ g \in [1 .. n -> Int] /\ u \in [0 .. n -> Int] /\ u[0] = 0
        /\ \A k \in 1 .. n : u[k] = u[k - 1] + g[k]
    BY <1>1
  <2>2. u[n] = s[n]
    OBVIOUS
  <2> HIDE DEF g, u
  <2> QED
    BY <2>1, <2>2, TotalIs DEF g
<1>3. s[n + 1] = s[(n + 1) - 1] + f[n + 1] /\ (n + 1) - 1 = n
  BY <1>1
<1> QED
  BY <1>1, <1>2, <1>3

(* Numbers between two bounds have a sum between so many times the bounds.  *)
LEMMA TotalWithin ==
  ASSUME NEW n \in Nat, NEW f \in [1 .. n -> Int], NEW low \in Int, NEW high \in Int,
         \A k \in 1 .. n : f[k] \in low .. high
  PROVE  n * low <= Total(f) /\ Total(f) <= n * high
<1>1. PICK s \in [0 .. n -> Int] :
        /\ s[0] = 0 /\ \A k \in 1 .. n : s[k] = s[k - 1] + f[k]
        /\ s[n] = Total(f)
  BY TotalAdds
<1> DEFINE T == {k \in 0 .. n : k * low <= s[k] /\ s[k] <= k * high}
<1>2. 0 \in T
  BY <1>1
<1>3. ASSUME NEW k \in 0 .. n - 1, k \in T
      PROVE  k + 1 \in T
  <2>1. k + 1 \in 1 .. n /\ (k + 1) - 1 = k /\ k \in 0 .. n
    OBVIOUS
  <2>2. s[k + 1] = s[k] + f[k + 1] /\ f[k + 1] \in low .. high
    BY <1>1, <2>1
  <2>3. (k + 1) * low = k * low + low /\ (k + 1) * high = k * high + high
    OBVIOUS
  <2>4. s[k] \in Int /\ k * low \in Int /\ k * high \in Int
    BY <2>1
  <2>5. k * low <= s[k] /\ s[k] <= k * high
    BY <1>3
  <2>6. (k + 1) * low <= s[k + 1] /\ s[k + 1] <= (k + 1) * high
    BY <2>2, <2>3, <2>4, <2>5
  <2> QED
    BY <2>1, <2>6
<1>4. n \in T
  <2> HIDE DEF T
  <2> QED
    BY <1>2, <1>3, n \in 0 .. n, Induction
<1> QED
  BY <1>1, <1>4

(* The same number n times                                                  *)
LEMMA TotalOfSame ==
  ASSUME NEW n \in Nat, NEW c \in Int
  PROVE  Total([k \in 1 .. n |-> c]) = n * c
<1> DEFINE f == [k \in 1 .. n |-> c]
<1>1. f \in [1 .. n -> Int] /\ \A k \in 1 .. n : f[k] \in c .. c
  OBVIOUS
<1> HIDE DEF f
<1>2. Total(f) \in Int /\ n * c <= Total(f) /\ Total(f) <= n * c
  BY <1>1, TotalAdds, TotalWithin
<1> QED
  BY <1>2 DEF f

(* The sum of the numbers one place on has a number more, and one less.     *)
LEMMA TotalMoves ==
  ASSUME NEW n \in Nat, NEW f \in [1 .. n + 1 -> Int]
  PROVE  Total([k \in 1 .. n |-> f[k + 1]])
           = Total([k \in 1 .. n |-> f[k]]) + f[n + 1] - f[1]
<1>1. Total(f) = Total([k \in 1 .. n |-> f[k]]) + f[n + 1]
  BY TotalOfOneMore
<1>2. Total(f) = Total([k \in 1 .. 1 |-> f[k]]) + Total([k \in 1 .. n |-> f[1 + k]])
  <2>1. 1 + n = n + 1 /\ f \in [1 .. 1 + n -> Int]
    OBVIOUS
  <2> QED
    BY <2>1, TotalSplits
<1>3. Total([k \in 1 .. 1 |-> f[k]]) = f[1]
  <2> DEFINE c == f[1]
  <2>1. [k \in 1 .. 1 |-> f[k]] = [k \in 1 .. 1 |-> c] /\ c \in Int
    OBVIOUS
  <2> HIDE DEF c
  <2>2. Total([k \in 1 .. 1 |-> c]) = 1 * c
    BY <2>1, 1 \in Nat, TotalOfSame
  <2>3. 1 * c = c
    BY <2>1
  <2> QED
    BY <2>1, <2>2, <2>3 DEF c
<1>4. [k \in 1 .. n |-> f[k + 1]] = [k \in 1 .. n |-> f[1 + k]]
  OBVIOUS
<1> DEFINE first == Total([k \in 1 .. n |-> f[k]])
           moved == Total([k \in 1 .. n |-> f[1 + k]])
<1>5. first \in Int /\ moved \in Int
  <2>1. [k \in 1 .. n |-> f[k]] \in [1 .. n -> Int] /\ [k \in 1 .. n |-> f[1 + k]] \in [1 .. n -> Int]
    OBVIOUS
  <2>2. \A g \in [1 .. n -> Int] : Total(g) \in Int
    BY TotalAdds
  <2> QED
    BY <2>1, <2>2
<1>6. Total([k \in 1 .. n |-> f[k + 1]]) = moved
  BY <1>4
<1>7. Total(f) = first + f[n + 1] /\ Total(f) = f[1] + moved
  BY <1>1, <1>2, <1>3
<1>8. f[1] \in Int /\ f[n + 1] \in Int
  OBVIOUS
<1> HIDE DEF first, moved
<1>9. moved = first + f[n + 1] - f[1]
  BY <1>5, <1>7, <1>8
<1> QED
  BY <1>6, <1>9 DEF first

-----------------------------------------------------------------------------
(* The blur is a mean *)

(* A line of numbers, between low and high.                                 *)
Line(line, n, low, high) == line \in [1 .. n -> low .. high]

(* The pixel at a place of a line is one of its pixels; before its first    *)
(* that, and within it the pixel there.                                     *)
LEMMA NearestIs ==
  ASSUME NEW n \in Sizes, NEW low \in Int, NEW high \in Int,
         NEW line, Line(line, n, low, high), NEW i \in Int
  PROVE  /\ Nearest(line, i) = line[Clamp(i, 0, n - 1) + 1]
         /\ Nearest(line, i) \in low .. high
         /\ i <= 0 => Nearest(line, i) = line[1]
<1>1. Len(line) = n /\ n \in Nat /\ 0 <= n - 1
  <2>1. n \in Nat /\ 0 <= n - 1
    BY DEF Sizes
  <2> HIDE DEF Sizes
  <2> QED
    BY <2>1, FunctionIsSeq DEF Line
<1>2. Clamp(i, 0, n - 1) \in 0 .. n - 1
  BY <1>1 DEF Clamp, Smaller, Larger
<1>3. i <= 0 => Clamp(i, 0, n - 1) = 0
  BY <1>1 DEF Clamp, Smaller, Larger, Sizes
<1>4. Nearest(line, i) = line[Clamp(i, 0, n - 1) + 1]
  BY <1>1 DEF Nearest
<1>5. Clamp(i, 0, n - 1) + 1 \in 1 .. n
  BY <1>1, <1>2
<1> QED
  BY <1>3, <1>4, <1>5 DEF Line

(* The sum of a window of a line, around the pixel at a place               *)
Window(line, i, radius) ==
  Total([k \in 1 .. 2 * radius + 1 |-> Nearest(line, i - radius + k - 1)])

(* A line that runs past its edges, whichever way the place is written.     *)
LEMMA WindowIs ==
  ASSUME NEW n \in Sizes, NEW low \in Int, NEW high \in Int,
         NEW line, Line(line, n, low, high), NEW i \in Int, NEW radius \in Nat
  PROVE  /\ [k \in 1 .. 2 * radius + 1 |-> Nearest(line, i - radius + k - 1)]
              \in [1 .. 2 * radius + 1 -> low .. high]
         /\ Window(line, i, radius) \in Int
         /\ (2 * radius + 1) * low <= Window(line, i, radius)
         /\ Window(line, i, radius) <= (2 * radius + 1) * high
<1> DEFINE f == [k \in 1 .. 2 * radius + 1 |-> Nearest(line, i - radius + k - 1)]
           m == 2 * radius + 1
<1>1. m \in Nat /\ f \in [1 .. m -> low .. high]
  BY NearestIs
<1>2. f \in [1 .. m -> Int] /\ \A k \in 1 .. m : f[k] \in low .. high
  <2> HIDE DEF f, m
  <2> QED
    BY <1>1
<1>3. Window(line, i, radius) = Total(f)
  BY DEF Window
<1>4. f \in [1 .. 2 * radius + 1 -> low .. high]
  BY <1>1
<1> HIDE DEF f, m
<1>5. Total(f) \in Int /\ m * low <= Total(f) /\ Total(f) <= m * high
  BY <1>1, <1>2, TotalAdds, TotalWithin
<1> QED
  BY <1>3, <1>4, <1>5 DEF f, m

(* The running sum starts with the sum of the window around the first pixel. *)
LEMMA FirstSumIs ==
  ASSUME NEW n \in Sizes, NEW low \in Int, NEW high \in Int,
         NEW line, Line(line, n, low, high), NEW radius \in Nat
  PROVE  FirstSum(line, radius) = Window(line, 0, radius)
<1> DEFINE a == radius + 1
           f == [k \in 1 .. a + radius |-> Nearest(line, 0 - radius + k - 1)]
           c == line[1]
<1>1. a \in Nat /\ c \in Int /\ f \in [1 .. a + radius -> Int]
  <2>1. c \in Int
    BY DEF Line, Sizes
  <2> QED
    BY <2>1, NearestIs
<1>2. [k \in 1 .. a |-> f[k]] = [k \in 1 .. a |-> c]
  <2>1. ASSUME NEW k \in 1 .. a
        PROVE  f[k] = c
    <3>1. 0 - radius + k - 1 \in Int /\ 0 - radius + k - 1 <= 0 /\ k \in 1 .. a + radius
      OBVIOUS
    <3> QED
      BY <3>1, NearestIs
  <2> QED
    BY <2>1
<1>3. [k \in 1 .. radius |-> f[a + k]] = [k \in 1 .. radius |-> Nearest(line, k)]
  <2>1. ASSUME NEW k \in 1 .. radius
        PROVE  f[a + k] = Nearest(line, k)
    <3>1. a + k \in 1 .. a + radius /\ 0 - radius + (a + k) - 1 = k
      OBVIOUS
    <3> QED
      BY <3>1
  <2> QED
    BY <2>1
<1>4. Window(line, 0, radius) = Total(f)
  <2>1. 2 * radius + 1 = a + radius
    OBVIOUS
  <2> QED
    BY <2>1 DEF Window
<1> HIDE DEF f
<1>5. Total(f) = Total([k \in 1 .. a |-> f[k]]) + Total([k \in 1 .. radius |-> f[a + k]])
  <2> HIDE DEF a
  <2> QED
    BY <1>1, TotalSplits
<1>6. Total([k \in 1 .. a |-> c]) = a * c
  <2> HIDE DEF a, c
  <2> QED
    BY <1>1, TotalOfSame
<1>7. Total(f) = a * c + Total([k \in 1 .. radius |-> Nearest(line, k)])
  BY <1>2, <1>3, <1>5, <1>6
<1> QED
  BY <1>4, <1>7 DEF FirstSum

(* The window around the next pixel gains one pixel and loses another.      *)
LEMMA WindowMoves ==
  ASSUME NEW n \in Sizes, NEW low \in Int, NEW high \in Int,
         NEW line, Line(line, n, low, high), NEW radius \in Nat, NEW i \in Int
  PROVE  Window(line, i, radius) = Window(line, i - 1, radius) + Nearest(line, i + radius)
                                     - Nearest(line, i - 1 - radius)
<1> DEFINE m == 2 * radius + 1
           f == [k \in 1 .. m + 1 |-> Nearest(line, (i - 1) - radius + k - 1)]
<1>1. m \in Nat /\ f \in [1 .. m + 1 -> Int]
  BY NearestIs
<1>2. Window(line, i - 1, radius) = Total([k \in 1 .. m |-> f[k]])
  <2>1. [k \in 1 .. m |-> f[k]] = [k \in 1 .. m |-> Nearest(line, (i - 1) - radius + k - 1)]
    OBVIOUS
  <2> QED
    BY <2>1 DEF Window
<1>3. Window(line, i, radius) = Total([k \in 1 .. m |-> f[k + 1]])
  <2>1. ASSUME NEW k \in 1 .. m
        PROVE  f[k + 1] = Nearest(line, i - radius + k - 1)
    <3>1. k + 1 \in 1 .. m + 1 /\ (i - 1) - radius + (k + 1) - 1 = i - radius + k - 1
      OBVIOUS
    <3> QED
      BY <3>1
  <2>2. [k \in 1 .. m |-> f[k + 1]] = [k \in 1 .. m |-> Nearest(line, i - radius + k - 1)]
    BY <2>1
  <2> QED
    BY <2>2 DEF Window
<1>4. f[m + 1] = Nearest(line, i + radius) /\ f[1] = Nearest(line, i - 1 - radius)
  <2>1. /\ m + 1 \in 1 .. m + 1 /\ (i - 1) - radius + (m + 1) - 1 = i + radius
        /\ 1 \in 1 .. m + 1 /\ (i - 1) - radius + 1 - 1 = i - 1 - radius
    OBVIOUS
  <2> QED
    BY <2>1
<1> HIDE DEF f, m
<1> QED
  BY <1>1, <1>2, <1>3, <1>4, TotalMoves

(* Each running sum is that of the window around its pixel.                 *)
LEMMA SumsAreWindows ==
  ASSUME NEW n \in Sizes, NEW low \in Int, NEW high \in Int,
         NEW line, Line(line, n, low, high), NEW radius \in Nat
  PROVE  \A i \in 0 .. n - 1 : Sums(line, radius)[i] = Window(line, i, radius)
<1> DEFINE N == n - 1
           Body(s) == [i \in 0 .. N |->
                         IF i = 0 THEN FirstSum(line, radius)
                         ELSE s[i - 1] + Nearest(line, i + radius) - Nearest(line, i - 1 - radius)]
           t == CHOOSE s : s = Body(s)
           w == [i \in 0 .. N |-> Window(line, i, radius)]
<1>1. N \in Nat /\ Len(line) = n
  <2>1. n \in Nat /\ N \in Nat
    BY DEF Sizes
  <2> HIDE DEF Sizes
  <2> QED
    BY <2>1, FunctionIsSeq DEF Line
<1>2. Sums(line, radius) = t
  BY <1>1, Zenon DEF Sums
<1>3. w = Body(w)
  <2>1. w[0] = FirstSum(line, radius)
    BY <1>1, FirstSumIs
  <2>2. ASSUME NEW i \in 1 .. N
        PROVE  w[i] = w[i - 1] + Nearest(line, i + radius) - Nearest(line, i - 1 - radius)
    <3>1. i \in Int /\ i \in 0 .. N /\ i - 1 \in 0 .. N
      <4> HIDE DEF N
      <4> QED
        BY <1>1
    <3>2. w[i] = Window(line, i, radius) /\ w[i - 1] = Window(line, i - 1, radius)
      BY <3>1
    <3> HIDE DEF w
    <3> QED
      BY <3>1, <3>2, WindowMoves
  <2> HIDE DEF N
  <2>3. \A i \in 0 .. N : i = 0 \/ i \in 1 .. N
    BY <1>1
  <2>4. \A i \in 0 .. N : w[i] = Body(w)[i]
    <3> HIDE DEF w
    <3> QED
      BY <2>1, <2>2, <2>3
  <2> QED
    BY <2>4
<1>4. t = Body(t)
  <2> HIDE DEF Body, w
  <2> QED
    BY <1>3
<1> HIDE DEF t, w
<1> DEFINE T == {i \in 0 .. N : t[i] = w[i]}
<1>5. 0 \in T
  BY <1>1, <1>3, <1>4
<1>6. ASSUME NEW i \in 0 .. N - 1, i \in T
      PROVE  i + 1 \in T
  <2>1. i + 1 \in 0 .. N /\ i + 1 # 0 /\ (i + 1) - 1 = i
    BY <1>1
  <2>2. t[i] = w[i]
    BY <1>6
  <2> HIDE DEF N
  <2>3. t[i + 1] = t[i] + Nearest(line, (i + 1) + radius) - Nearest(line, (i + 1) - 1 - radius)
    <3>1. t[i + 1] = Body(t)[i + 1]
      BY <1>4
    <3> QED
      BY <2>1, <3>1
  <2>4. w[i + 1] = w[i] + Nearest(line, (i + 1) + radius) - Nearest(line, (i + 1) - 1 - radius)
    <3>1. w[i + 1] = Body(w)[i + 1]
      BY <1>3
    <3> QED
      BY <2>1, <3>1
  <2>5. t[i + 1] = w[i + 1]
    BY <2>2, <2>3, <2>4
  <2> QED
    BY <2>1, <2>5
<1>7. \A i \in 0 .. N : i \in T
  <2> HIDE DEF T, N
  <2> QED
    BY <1>1, <1>5, <1>6, Induction
<1> QED
  BY <1>2, <1>7 DEF w

(* A quotient between two numbers is rounded between them.                  *)
LEMMA RoundedWithin ==
  ASSUME NEW a \in Int, NEW b \in Nat \ {0}, NEW low \in Int, NEW high \in Int,
         b * low <= a, a <= b * high
  PROVE  Rounded(a, b) \in low .. high
<1> DEFINE q == Rounded(a, b)
<1>1. q \in Int /\ 2 * a - b < 2 * (b * q) /\ 2 * (b * q) <= 2 * a + b
  BY RoundedIsNearest
<1> HIDE DEF q
<1>2. b * low \in Int /\ b * high \in Int /\ b * q \in Int
  BY <1>1
<1>3. low <= q
  <2> SUFFICES ASSUME q + 1 <= low PROVE FALSE
    BY <1>1
  <2>1. b * (q + 1) <= b * low
    BY <1>1, ProductsInOrder
  <2>2. b * (q + 1) = b * q + b
    BY <1>1
  <2> QED
    BY <1>1, <1>2, <2>1, <2>2
<1>4. q <= high
  <2> SUFFICES ASSUME high + 1 <= q PROVE FALSE
    BY <1>1
  <2>1. b * (high + 1) <= b * q
    BY <1>1, ProductsInOrder
  <2>2. b * (high + 1) = b * high + b
    OBVIOUS
  <2> QED
    BY <1>1, <1>2, <2>1, <2>2
<1> QED
  BY <1>1, <1>3, <1>4 DEF q

(* The radii of the three boxes                                             *)
LEMMA BoxesAre ==
  ASSUME NEW radius \in Sizes
  PROVE  /\ Boxes(radius) \in [1 .. 3 -> Int]
         /\ Boxes(radius)[1] = radius - 1 /\ Boxes(radius)[2] = radius - 1
         /\ Boxes(radius)[3] = radius
<1> DEFINE Q(w) == w * w <= 4 * radius * radius + 1
                   /\ (w + 1) * (w + 1) > 4 * radius * radius + 1
           ideal == CHOOSE w \in 0 .. 3 * radius : Q(w)
           wl == IF ideal % 2 = 0 THEN ideal - 1 ELSE ideal
           m == Rounded(3*wl*wl + 12*wl + 9 - 12*radius*radius, 4*wl + 4)
<1>1. radius \in Nat /\ radius >= 1
  BY DEF Sizes
<1> DEFINE r2 == radius * radius
<1>2. r2 \in Nat /\ r2 >= radius /\ 4 * radius * radius = 4 * r2
  <2>1. radius * 1 <= radius * radius
    BY <1>1, ProductsInOrder
  <2> QED
    BY <1>1, <2>1
<1>3. 2 * radius \in 0 .. 3 * radius /\ Q(2 * radius)
  <2>1. (2 * radius) * (2 * radius) = 4 * r2
    BY <1>1
  <2>2. (2 * radius + 1) * (2 * radius + 1) = 4 * r2 + 4 * radius + 1
    BY <1>1
  <2> HIDE DEF r2
  <2> QED
    BY <1>1, <1>2, <2>1, <2>2
<1>4. ASSUME NEW w \in 0 .. 3 * radius, Q(w)
      PROVE  w = 2 * radius
  <2>1. w \in Nat
    BY <1>1
  <2>2. ~(w <= 2 * radius - 1)
    <3> SUFFICES ASSUME w + 1 <= 2 * radius PROVE FALSE
      BY <1>1, <2>1
    <3>1. (w + 1) * (w + 1) <= (2 * radius) * (w + 1)
      BY <1>1, <2>1, ProductsInOrder
    <3>2. (2 * radius) * (w + 1) <= (2 * radius) * (2 * radius)
      BY <1>1, <2>1, ProductsInOrder
    <3>3. (2 * radius) * (2 * radius) = 4 * r2
      BY <1>1
    <3>4. (w + 1) * (w + 1) \in Int /\ (2 * radius) * (w + 1) \in Int
      BY <1>1, <2>1
    <3> HIDE DEF r2
    <3> QED
      BY <1>2, <1>4, <3>1, <3>2, <3>3, <3>4
  <2>3. ~(w >= 2 * radius + 1)
    <3> SUFFICES ASSUME 2 * radius + 1 <= w PROVE FALSE
      BY <1>1, <2>1
    <3>1. (2 * radius + 1) * (2 * radius + 1) <= w * (2 * radius + 1)
      BY <1>1, <2>1, ProductsInOrder
    <3>2. w * (2 * radius + 1) <= w * w
      BY <1>1, <2>1, ProductsInOrder
    <3>3. (2 * radius + 1) * (2 * radius + 1) = 4 * r2 + 4 * radius + 1
      BY <1>1
    <3>4. w * w \in Int /\ w * (2 * radius + 1) \in Int
      BY <1>1, <2>1
    <3> HIDE DEF r2
    <3> QED
      BY <1>1, <1>2, <1>4, <3>1, <3>2, <3>3, <3>4
  <2> QED
    BY <1>1, <2>1, <2>2, <2>3
<1>5. ideal = 2 * radius
  <2> HIDE DEF Q
  <2> QED
    BY <1>3, <1>4
<1>6. wl = 2 * radius - 1
  <2>1. (2 * radius) % 2 = 0
    BY <1>1
  <2> HIDE DEF ideal
  <2> QED
    BY <1>5, <2>1
<1>7. m = 2
  <2>1. 3*wl*wl + 12*wl + 9 - 12*radius*radius = 12 * radius
    <3>1. wl * wl = 4 * r2 - 4 * radius + 1 /\ 3*wl*wl = 3 * (wl * wl)
          /\ 12*radius*radius = 12 * r2
      <4> HIDE DEF wl
      <4> QED
        BY <1>1, <1>6
    <3> HIDE DEF wl, r2
    <3> QED
      BY <1>1, <1>2, <1>6, <3>1
  <2>2. 4*wl + 4 = 8 * radius
    <3> HIDE DEF wl
    <3> QED
      BY <1>1, <1>6
  <2>3. Rounded(12 * radius, 8 * radius) = 2
    <3>1. 8 * radius \in Nat \ {0} /\ 12 * radius \in Int
      BY <1>1
    <3> DEFINE n == 12 * radius
               b == 8 * radius
               q == Rounded(n, b)
    <3>2. q \in Int /\ 2 * n - b < 2 * (b * q) /\ 2 * (b * q) <= 2 * n + b
      <4> HIDE DEF n, b
      <4> QED
        BY <3>1, RoundedIsNearest DEF n, b
    <3> HIDE DEF q
    <3>3. b * q = 8 * (radius * q) /\ radius * q \in Int
      BY <1>1, <3>2
    <3>4. radius < radius * q /\ radius * q <= 2 * radius
      BY <1>1, <3>2, <3>3
    <3>5. q <= 2
      <4> SUFFICES ASSUME 3 <= q PROVE FALSE
        BY <3>2
      <4>1. radius * 3 <= radius * q
        BY <1>1, <3>2, ProductsInOrder
      <4> QED
        BY <1>1, <3>3, <3>4, <4>1
    <3>6. q >= 2
      <4> SUFFICES ASSUME q <= 1 PROVE FALSE
        BY <3>2
      <4>1. radius * q <= radius * 1
        BY <1>1, <3>2, ProductsInOrder
      <4> QED
        BY <1>1, <3>3, <3>4, <4>1
    <3> QED
      BY <3>2, <3>5, <3>6 DEF q
  <2> HIDE DEF wl
  <2> QED
    BY <2>1, <2>2, <2>3
<1>8. Boxes(radius) = [i \in 1 .. 3 |-> IF i <= m THEN (wl - 1) \div 2 ELSE (wl + 1) \div 2]
  BY Zenon DEF Boxes
<1> HIDE DEF m, wl
<1>9. (2 * radius - 1 - 1) \div 2 = radius - 1 /\ (2 * radius - 1 + 1) \div 2 = radius
  BY <1>1
<1> QED
  BY <1>1, <1>6, <1>7, <1>8, <1>9

(* The mean over a window of a line, as BlurIsMean states it                *)
Mean(line, i, radius) ==
  Rounded(Total([k \in 1..(2*radius + 1) |->
                   line[Clamp(i - radius + k - 1, 1, Len(line))]]), 2*radius + 1)

(* What a box blur makes of a line of pixels are its means, which are       *)
(* pixels.                                                                  *)
LEMMA BoxBlurIsMean ==
  ASSUME NEW n \in Sizes, NEW line, Line(line, n, 0, 255), NEW radius \in Nat
  PROVE  /\ DOMAIN BoxBlur(line, radius) = 1 .. n
         /\ \A i \in 1 .. n : /\ BoxBlur(line, radius)[i] = Mean(line, i, radius)
                              /\ BoxBlur(line, radius)[i] \in 0 .. 255
<1>1. Len(line) = n /\ n \in Nat
  <2>1. n \in Nat
    BY DEF Sizes
  <2> HIDE DEF Sizes
  <2> QED
    BY <2>1, FunctionIsSeq DEF Line
<1>2. BoxBlur(line, radius) = [i \in 1 .. n |-> Rounded(Sums(line, radius)[i - 1], 2*radius + 1)]
  BY <1>1 DEF BoxBlur
<1>3. ASSUME NEW i \in 1 .. n
      PROVE  /\ BoxBlur(line, radius)[i] = Mean(line, i, radius)
             /\ BoxBlur(line, radius)[i] \in 0 .. 255
  <2>1. i - 1 \in 0 .. n - 1 /\ i - 1 \in Int
    BY <1>1
  <2>2. Sums(line, radius)[i - 1] = Window(line, i - 1, radius)
    BY <2>1, SumsAreWindows
  <2>3. BoxBlur(line, radius)[i] = Rounded(Window(line, i - 1, radius), 2*radius + 1)
    BY <1>2, <2>2
  <2>4. ASSUME NEW k \in 1 .. 2 * radius + 1
        PROVE  Nearest(line, (i - 1) - radius + k - 1)
                 = line[Clamp(i - radius + k - 1, 1, Len(line))]
    <3> DEFINE v == i - radius + k - 1
    <3>1. v \in Int /\ (i - 1) - radius + k - 1 = v - 1 /\ v - 1 \in Int
      OBVIOUS
    <3> HIDE DEF v
    <3>2. Clamp(v - 1, 0, n - 1) + 1 = Clamp(v, 1, n)
      BY <1>1, <3>1 DEF Clamp, Smaller, Larger
    <3>3. Nearest(line, v - 1) = line[Clamp(v - 1, 0, n - 1) + 1]
      BY <3>1, NearestIs
    <3> QED
      BY <1>1, <3>1, <3>2, <3>3 DEF v
  <2>5. [k \in 1 .. 2 * radius + 1 |-> Nearest(line, (i - 1) - radius + k - 1)]
          = [k \in 1..(2*radius + 1) |-> line[Clamp(i - radius + k - 1, 1, Len(line))]]
    BY <2>4
  <2>6. BoxBlur(line, radius)[i] = Mean(line, i, radius)
    BY <2>3, <2>5 DEF Window, Mean
  <2>7. BoxBlur(line, radius)[i] \in 0 .. 255
    <3> DEFINE s == Window(line, i - 1, radius)
               b == 2 * radius + 1
               black == 0
               white == 255
    <3>1. s \in Int /\ b * 0 <= s /\ s <= b * 255
      BY <2>1, WindowIs
    <3>2. b \in Nat \ {0}
      OBVIOUS
    <3>3. BoxBlur(line, radius)[i] = Rounded(s, b)
      BY <2>3
    <3> HIDE DEF s, b
    <3>4. Rounded(s, b) \in 0 .. 255
      <4>1. black \in Int /\ white \in Int /\ b * black <= s /\ s <= b * white
        BY <3>1
      <4> HIDE DEF black, white
      <4>2. Rounded(s, b) \in black .. white
        BY <3>1, <3>2, <4>1, RoundedWithin
      <4> QED
        BY <4>2 DEF black, white
    <3> QED
      BY <3>3, <3>4
  <2> QED
    BY <2>6, <2>7
<1> QED
  BY <1>2, <1>3

-----------------------------------------------------------------------------
(* Weights *)

Kernels == {"triangle", "lanczos3"}

(* A weight is a number, and nothing where the kernel does not reach.       *)
LEMMA FilterIs ==
  ASSUME NEW kernel \in Kernels, NEW u \in Nat, NEW v \in Nat \ {0}
  PROVE  /\ Filter(kernel, u, v) \in Int
         /\ u >= Radius(kernel) * v => Filter(kernel, u, v) = 0
<1>1. CASE kernel = "triangle"
  BY <1>1 DEF Filter, FilterTriangle, Larger, Radius
<1>2. CASE kernel = "lanczos3"
  <2>1. Filter(kernel, u, v) = IF u >= 3*v THEN 0 ELSE Lobes[(8*u) \div v + 1]
    BY <1>2 DEF Filter, FilterLanczos3
  <2>2. Radius(kernel) = 3
    BY <1>2 DEF Radius
  <2>3. \A i \in 1 .. 25 : Lobes[i] \in Int
    BY DEF Lobes
  <2>4. u < 3 * v => (8*u) \div v \in 0 .. 24
    <3> SUFFICES ASSUME u < 3 * v PROVE (8*u) \div v \in 0 .. 24
      OBVIOUS
    <3> DEFINE q == (8*u) \div v
               e == (8*u) % v
    <3>1. q \in Int /\ e \in 0 .. v - 1 /\ 8*u = v * q + e
      <4>1. 8 * u \in Int
        OBVIOUS
      <4> QED
        BY <4>1, QuotientAndRest
    <3> HIDE DEF q, e
    <3>2. v * q \in Int
      BY <3>1
    <3>3. q >= 0
      <4> SUFFICES ASSUME q <= -1 PROVE FALSE
        BY <3>1
      <4>1. v * q <= v * (-1)
        BY <3>1, ProductsInOrder
      <4> QED
        BY <3>1, <3>2, <4>1
    <3>4. q <= 24
      <4> SUFFICES ASSUME 25 <= q PROVE FALSE
        BY <3>1
      <4>1. v * 25 <= v * q
        BY <3>1, ProductsInOrder
      <4> QED
        BY <3>1, <3>2, <4>1
    <3> QED
      BY <3>1, <3>3, <3>4 DEF q
  <2>5. u < 3 * v => Lobes[(8*u) \div v + 1] \in Int
    <3> DEFINE q == (8*u) \div v
    <3>1. u < 3 * v => q \in 0 .. 24
      BY <2>4
    <3> HIDE DEF q
    <3>2. u < 3 * v => Lobes[q + 1] \in Int
      BY <2>3, <3>1
    <3> QED
      BY <3>2 DEF q
  <2> QED
    BY <2>1, <2>2, <2>5
<1> QED
  BY <1>1, <1>2 DEF Kernels

Magnitude(n) == IF n < 0 THEN -n ELSE n

(* The weight of a source sample for a destination sample                   *)
WeightOf(kernel, src, dst, d, s) ==
  Filter(kernel, Magnitude((2*s + 1) * dst - (2*d + 1) * src), 2 * Larger(src, dst))

(* The reach of an entry, in parts of a sample that there are 2*dst of      *)
Support(kernel, src, dst) == 2 * Radius(kernel) * Larger(src, dst)

First(kernel, src, dst, d) ==
  ((2*d + 1) * src - Support(kernel, src, dst)) \div (2*dst)
Last(kernel, src, dst, d) ==
  -((-((2*d + 1) * src + Support(kernel, src, dst))) \div (2*dst))

(* A number divided and multiplied again                                    *)
LEMMA DividedDown ==
  ASSUME NEW a \in Int, NEW b \in Nat \ {0}
  PROVE  a \div b \in Int /\ b * (a \div b) <= a /\ a < b * (a \div b) + b
<1> DEFINE q == a \div b
           e == a % b
<1>1. q \in Int /\ e \in 0 .. b - 1 /\ a = b * q + e
  BY QuotientAndRest
<1> HIDE DEF q, e
<1>2. b * q \in Int
  BY <1>1
<1>3. q \in Int /\ b * q <= a /\ a < b * q + b
  BY <1>1, <1>2
<1> QED
  BY <1>3 DEF q

(* Outside what an entry covers the weights are nothing; and it does not    *)
(* reach further than three times the source to either side.                *)
LEMMA Reach ==
  ASSUME NEW kernel \in Kernels, NEW src \in Sizes, NEW dst \in Sizes, NEW d \in 0 .. dst - 1
  PROVE  LET first == First(kernel, src, dst, d)
             last == Last(kernel, src, dst, d)
         IN  /\ first \in Int /\ last \in Int /\ first <= last
             /\ first >= -(3 * src) - 1 /\ last <= 4 * src + 1
             /\ \A s \in Int : /\ WeightOf(kernel, src, dst, d, s) \in Int
                               /\ s < first \/ s > last => WeightOf(kernel, src, dst, d, s) = 0
<1> DEFINE c == (2*d + 1) * src
           sup == Support(kernel, src, dst)
           wide == Larger(src, dst)
           first == First(kernel, src, dst, d)
           last == Last(kernel, src, dst, d)
<1>0. src \in Nat /\ src >= 1 /\ dst \in Nat /\ dst >= 1 /\ d \in Nat /\ d <= dst - 1
  BY DEF Sizes
<1>1. wide \in Nat /\ wide >= 1 /\ wide <= src * dst
  <2>1. src * dst >= src /\ src * dst >= dst /\ src * dst \in Nat
    <3>1. src * 1 <= src * dst
      BY <1>0, ProductsInOrder
    <3>2. 1 * dst <= src * dst
      BY <1>0, ProductsInOrder
    <3> QED
      BY <1>0, <3>1, <3>2
  <2> QED
    BY <1>0, <2>1 DEF Larger
<1>2. Radius(kernel) \in {1, 3}
  BY DEF Kernels, Radius
<1>3. sup = Radius(kernel) * (2 * wide) /\ sup \in Nat /\ sup >= 2 /\ sup <= 6 * (src * dst)
  <2>1. src * dst \in Nat
    BY <1>0
  <2>2. sup = 2 * Radius(kernel) * wide
    BY DEF Support
  <2> HIDE DEF sup, wide
  <2> QED
    BY <1>1, <1>2, <2>1, <2>2
<1>4. c \in Nat /\ c >= 1 /\ c <= 2 * (src * dst)
  <2>1. 1 * src <= (2*d + 1) * src
    BY <1>0, ProductsInOrder
  <2>2. (2*d + 1) * src <= (2*dst) * src
    BY <1>0, ProductsInOrder
  <2>3. (2*dst) * src = 2 * (src * dst) /\ (2*d + 1) * src \in Int
    BY <1>0
  <2> QED
    BY <1>0, <2>1, <2>2, <2>3
<1> HIDE DEF c, sup, wide
<1> DEFINE b == 2 * dst
<1>5. b \in Nat \ {0}
  BY <1>0
<1>6. /\ first \in Int /\ b * first <= c - sup /\ c - sup < b * first + b
  <2>1. first = (c - sup) \div b
    BY DEF First, c, sup
  <2>2. c - sup \in Int
    BY <1>3, <1>4
  <2> HIDE DEF first, b
  <2> DEFINE a == c - sup
  <2> HIDE DEF a
  <2>3. a \div b \in Int /\ b * (a \div b) <= a /\ a < b * (a \div b) + b
    BY <1>5, <2>2, DividedDown DEF a
  <2> QED
    BY <2>1, <2>3 DEF a
<1>7. /\ last \in Int /\ c + sup <= b * last /\ b * last < c + sup + b
  <2> DEFINE a == -(c + sup)
             q == a \div b
  <2>1. last = -q
    BY DEF Last, c, sup
  <2>2. a \in Int
    BY <1>3, <1>4
  <2> HIDE DEF a
  <2>3. q \in Int /\ b * q <= a /\ a < b * q + b
    <3> HIDE DEF b
    <3> QED
      BY <1>5, <2>2, DividedDown
  <2> HIDE DEF q, last
  <2>4. b * (-q) = -(b * q) /\ b * q \in Int
    BY <1>5, <2>3
  <2> HIDE DEF b
  <2> QED
    BY <1>3, <1>4, <1>5, <2>1, <2>2, <2>3, <2>4 DEF a
<1> HIDE DEF first, last
<1>8. first <= last
  <2> SUFFICES ASSUME last <= first PROVE first <= last
    BY <1>6, <1>7
  <2>1. b * last <= b * first
    BY <1>5, <1>6, <1>7, ProductsInOrder
  <2>2. b * last \in Int /\ b * first \in Int
    BY <1>5, <1>6, <1>7
  <2> HIDE DEF b
  <2> QED
    BY <1>3, <1>4, <1>5, <1>6, <1>7, <2>1, <2>2
<1>9. first >= -(3 * src) - 1
  <2> SUFFICES ASSUME first <= -(3 * src) - 2 PROVE FALSE
    BY <1>0, <1>6
  <2>1. b * first <= b * (-(3 * src) - 2)
    BY <1>0, <1>5, <1>6, ProductsInOrder
  <2>2. b * (-(3 * src) - 2) = -(6 * (src * dst)) - 2 * b
    BY <1>0
  <2>3. src * dst \in Int /\ b * first \in Int
    BY <1>0, <1>6
  <2> HIDE DEF b
  <2> QED
    BY <1>3, <1>4, <1>5, <1>6, <2>1, <2>2, <2>3
<1>10. last <= 4 * src + 1
  <2> SUFFICES ASSUME 4 * src + 2 <= last PROVE FALSE
    BY <1>0, <1>7
  <2>1. b * (4 * src + 2) <= b * last
    BY <1>0, <1>5, <1>7, ProductsInOrder
  <2>2. b * (4 * src + 2) = 8 * (src * dst) + 2 * b
    BY <1>0
  <2>3. src * dst \in Int /\ b * last \in Int
    BY <1>0, <1>7
  <2> HIDE DEF b
  <2> QED
    BY <1>3, <1>4, <1>5, <1>7, <2>1, <2>2, <2>3
<1>11. ASSUME NEW s \in Int
       PROVE  /\ WeightOf(kernel, src, dst, d, s) \in Int
              /\ s < first \/ s > last => WeightOf(kernel, src, dst, d, s) = 0
  <2> DEFINE n == (2*s + 1) * dst - c
             u == Magnitude(n)
             v == 2 * wide
  <2>1. n \in Int /\ (2*s + 1) * dst = b * s + dst /\ b * s \in Int
    BY <1>0, <1>4
  <2>2. u \in Nat /\ v \in Nat \ {0}
    <3> HIDE DEF n
    <3> QED
      BY <1>1, <2>1 DEF Magnitude
  <2>3. WeightOf(kernel, src, dst, d, s) = Filter(kernel, u, v)
    BY DEF WeightOf, c, wide
  <2>4. s < first => n <= -sup
    <3> SUFFICES ASSUME s + 1 <= first PROVE n <= -sup
      BY <1>6
    <3>1. b * (s + 1) <= b * first
      BY <1>5, <1>6, ProductsInOrder
    <3>2. b * (s + 1) = b * s + b /\ b * first \in Int /\ b = 2 * dst
      BY <1>5, <1>6
    <3> HIDE DEF b
    <3> QED
      BY <1>0, <1>3, <1>4, <1>5, <1>6, <2>1, <3>1, <3>2
  <2>5. s > last => n >= sup
    <3> SUFFICES ASSUME last + 1 <= s PROVE n >= sup
      BY <1>7
    <3>1. b * (last + 1) <= b * s
      BY <1>5, <1>7, ProductsInOrder
    <3>2. b * (last + 1) = b * last + b /\ b * last \in Int /\ b = 2 * dst
      BY <1>5, <1>7
    <3> HIDE DEF b
    <3> QED
      BY <1>0, <1>3, <1>4, <1>5, <1>7, <2>1, <3>1, <3>2
  <2> HIDE DEF n
  <2>6. s < first \/ s > last => u >= sup
    BY <1>3, <2>1, <2>4, <2>5 DEF Magnitude
  <2> HIDE DEF u, v
  <2>7. Filter(kernel, u, v) \in Int /\ (u >= Radius(kernel) * v => Filter(kernel, u, v) = 0)
    BY <2>2, FilterIs
  <2>8. sup = Radius(kernel) * v
    BY <1>3 DEF v
  <2> QED
    BY <2>3, <2>6, <2>7, <2>8
<1> QED
  BY <1>6, <1>7, <1>8, <1>9, <1>10, <1>11 DEF first, last

(* What an entry is made of                                                 *)
LEMMA EntryIs ==
  ASSUME NEW kernel \in Kernels, NEW src \in Sizes, NEW dst \in Sizes, NEW d \in 0 .. dst - 1
  PROVE  LET e == Entry(kernel, src, dst, d)
             n == Last(kernel, src, dst, d) - First(kernel, src, dst, d) + 1
         IN  /\ e.min = First(kernel, src, dst, d) /\ n \in Nat \ {0} /\ Len(e.weights) = n
             /\ e.weights \in [1 .. n -> Int]
             /\ e.weights = [k \in 1 .. n |-> WeightOf(kernel, src, dst, d, e.min + k - 1)]
<1> DEFINE first == First(kernel, src, dst, d)
           n == Last(kernel, src, dst, d) - first + 1
           weights == [k \in 1 .. n |-> WeightOf(kernel, src, dst, d, first + k - 1)]
<1>1. Entry(kernel, src, dst, d) = [min |-> first, weights |-> weights]
  BY Zenon DEF Entry, First, Last, Support, WeightOf, Magnitude
<1>2. first \in Int /\ Last(kernel, src, dst, d) \in Int /\ first <= Last(kernel, src, dst, d)
      /\ \A s \in Int : WeightOf(kernel, src, dst, d, s) \in Int
  BY Reach
<1> HIDE DEF first
<1>3. n \in Nat \ {0} /\ weights \in [1 .. n -> Int]
  BY <1>2
<1>4. Len(weights) = n
  <2> HIDE DEF n, weights
  <2> QED
    BY <1>3, FunctionIsSeq
<1> QED
  BY <1>1, <1>3, <1>4 DEF first

(* A sum is that of a part, where there is nothing before and after it.     *)
LEMMA TotalOfPart ==
  ASSUME NEW a \in Nat, NEW n \in Nat, NEW b \in Nat, NEW f \in [1 .. a + (n + b) -> Int],
         \A k \in 1 .. a + (n + b) : k <= a \/ k > a + n => f[k] = 0
  PROVE  Total(f) = Total([k \in 1 .. n |-> f[a + k]])
<1> DEFINE m == n + b
           g == [k \in 1 .. m |-> f[a + k]]
           part == [k \in 1 .. n |-> f[a + k]]
<1>1. m \in Nat /\ f \in [1 .. a + m -> Int] /\ g \in [1 .. n + b -> Int]
      /\ part \in [1 .. n -> Int]
  OBVIOUS
<1>2. Total(f) = Total([k \in 1 .. a |-> f[k]]) + Total(g)
  <2> HIDE DEF m
  <2> QED
    BY <1>1, TotalSplits
<1>3. Total([k \in 1 .. a |-> f[k]]) = 0
  <2>1. [k \in 1 .. a |-> f[k]] = [k \in 1 .. a |-> 0]
    OBVIOUS
  <2>2. Total([k \in 1 .. a |-> 0]) = a * 0
    BY 0 \in Int, TotalOfSame
  <2> QED
    BY <2>1, <2>2
<1>4. /\ [k \in 1 .. n |-> g[k]] = part
      /\ [k \in 1 .. b |-> g[n + k]] = [k \in 1 .. b |-> 0]
  OBVIOUS
<1>5. Total(g) = Total(part) + Total([k \in 1 .. b |-> 0])
  <2>1. g \in [1 .. n + b -> Int]
    BY <1>1
  <2> HIDE DEF g, part
  <2>2. Total(g) = Total([k \in 1 .. n |-> g[k]]) + Total([k \in 1 .. b |-> g[n + k]])
    BY <2>1, TotalSplits
  <2> QED
    BY <1>4, <2>2
<1>6. Total([k \in 1 .. b |-> 0]) = b * 0
  BY 0 \in Int, TotalOfSame
<1>7. Total(part) \in Int
  <2> HIDE DEF part
  <2> QED
    BY <1>1, TotalAdds
<1> HIDE DEF g, part
<1>8. Total(f) = Total(part)
  BY <1>2, <1>3, <1>5, <1>6, <1>7
<1> QED
  BY <1>8 DEF part

(* Samples with their weights                                               *)
Samples(src) == [at : -(3*src) - 1 .. 4*src + 1, weight : Int]

(* The k-th sample a kernel may have                                        *)
Candidate(src, k) == k - 3*src - 2

(* The samples that are kept of the first k                                 *)
Keeps(kept, kernel, src, dst, d) ==
  /\ kept \in [0 .. 7*src + 3 -> Seq(Samples(src))]
  /\ kept[0] = <<>>
  /\ \A k \in 1 .. 7*src + 3 :
       LET s == Candidate(src, k)
           w == WeightOf(kernel, src, dst, d, s)
       IN  kept[k] = IF w = 0 THEN kept[k - 1]
                     ELSE Append(kept[k - 1], [at |-> s, weight |-> w])
  /\ Kernel(kernel, src, dst, d) = kept[7*src + 3]

LEMMA KernelKeeps ==
  ASSUME NEW kernel \in Kernels, NEW src \in Sizes, NEW dst \in Sizes, NEW d \in 0 .. dst - 1
  PROVE  \E kept : Keeps(kept, kernel, src, dst, d)
<1> DEFINE N == 7*src + 3
           S == Seq(Samples(src))
           W(k) == WeightOf(kernel, src, dst, d, Candidate(src, k))
           Step == [k \in 1 .. N |-> [v \in S |->
                      IF W(k) = 0 THEN v
                      ELSE Append(v, [at |-> Candidate(src, k), weight |-> W(k)])]]
           Body(t) == [k \in 0 .. N |->
                         IF k = 0 THEN <<>>
                         ELSE IF W(k) = 0 THEN t[k - 1]
                         ELSE Append(t[k - 1], [at |-> Candidate(src, k), weight |-> W(k)])]
           t == CHOOSE t : t = Body(t)
<1>1. N \in Nat /\ src \in Nat
  BY DEF Sizes
<1>2. Kernel(kernel, src, dst, d) = t[N]
  BY Zenon DEF Kernel, Loop, WeightOf, Magnitude, Candidate
<1>3. ASSUME NEW k \in 1 .. N
      PROVE  [at |-> Candidate(src, k), weight |-> W(k)] \in Samples(src)
  <2>1. Candidate(src, k) \in -(3*src) - 1 .. 4*src + 1
    BY <1>1 DEF Candidate
  <2>2. Candidate(src, k) \in Int
    BY <1>1 DEF Candidate
  <2>3. W(k) \in Int
    BY <2>2, Reach
  <2> QED
    BY <2>1, <2>3 DEF Samples
<1>4. StaysIn(S, N, Step)
  <2> SUFFICES ASSUME NEW k \in 1 .. N, NEW v \in S
               PROVE  Step[k][v] \in S
    BY DEF StaysIn
  <2> DEFINE x == [at |-> Candidate(src, k), weight |-> W(k)]
  <2>1. x \in Samples(src)
    BY <1>3
  <2>2. Step[k][v] = IF W(k) = 0 THEN v ELSE Append(v, x)
    OBVIOUS
  <2> HIDE DEF x, Step, N, W
  <2> QED
    BY <2>1, <2>2
<1>5. <<>> \in S
  OBVIOUS
<1>6. PICK kept : Iterates(kept, S, N, <<>>, Step)
  <2> HIDE DEF Step, N, S
  <2> QED
    BY <1>1, <1>4, <1>5, Recursion
<1>7. /\ kept \in [0 .. N -> S] /\ kept[0] = <<>>
      /\ \A k \in 1 .. N : kept[k] = IF W(k) = 0 THEN kept[k - 1]
              ELSE Append(kept[k - 1], [at |-> Candidate(src, k), weight |-> W(k)])
  <2>1. kept \in [0 .. N -> S] /\ kept[0] = <<>>
    BY <1>6 DEF Iterates
  <2>2. ASSUME NEW k \in 1 .. N
        PROVE  kept[k] = IF W(k) = 0 THEN kept[k - 1]
                 ELSE Append(kept[k - 1], [at |-> Candidate(src, k), weight |-> W(k)])
    <3>1. kept[k] = Step[k][kept[k - 1]]
      BY <1>6 DEF Iterates
    <3>2. k - 1 \in 0 .. N
      BY <1>1
    <3>3. kept[k - 1] \in S
      BY <2>1, <3>2
    <3> HIDE DEF S, N, W
    <3> QED
      BY <3>1, <3>3
  <2> QED
    BY <2>1, <2>2
<1>8. kept = Body(kept)
  <2> HIDE DEF W, N
  <2>1. \A k \in 0 .. N : k = 0 \/ k \in 1 .. N
    BY <1>1
  <2>2. \A k \in 0 .. N : kept[k] = Body(kept)[k]
    BY <1>7, <2>1
  <2>3. kept = [k \in 0 .. N |-> kept[k]]
    BY <1>7
  <2> QED
    BY <2>2, <2>3
<1>9. t = Body(t)
  <2> HIDE DEF Body
  <2> QED
    BY <1>8
<1> HIDE DEF t
<1> DEFINE T == {k \in 0 .. N : t[k] = kept[k]}
<1>10. 0 \in T
  <2> HIDE DEF W, N
  <2>1. 0 \in 0 .. N
    BY <1>1
  <2>2. t[0] = <<>>
    BY <1>9, <2>1
  <2> QED
    BY <1>7, <2>1, <2>2
<1>11. ASSUME NEW k \in 0 .. N - 1, k \in T
       PROVE  k + 1 \in T
  <2> HIDE DEF W, N
  <2>1. k + 1 \in 1 .. N /\ k + 1 \in 0 .. N /\ (k + 1) - 1 = k /\ k + 1 # 0
    BY <1>1
  <2>2. t[k] = kept[k]
    BY <1>11
  <2>3. t[k + 1] = Body(t)[k + 1]
    BY <1>9
  <2>4. t[k + 1] = IF W(k + 1) = 0 THEN t[(k + 1) - 1]
                   ELSE Append(t[(k + 1) - 1], [at |-> Candidate(src, k + 1), weight |-> W(k + 1)])
    BY <2>1, <2>3
  <2>5. kept[k + 1] = IF W(k + 1) = 0 THEN kept[(k + 1) - 1]
                      ELSE Append(kept[(k + 1) - 1], [at |-> Candidate(src, k + 1), weight |-> W(k + 1)])
    BY <1>7, <2>1
  <2> QED
    BY <2>1, <2>2, <2>4, <2>5
<1>12. t[N] = kept[N]
  <2> HIDE DEF T
  <2>1. N \in T
    <3> HIDE DEF N
    <3> QED
      BY <1>1, <1>10, <1>11, N \in 0 .. N, Induction
  <2> QED
    BY <2>1 DEF T
<1>13. Kernel(kernel, src, dst, d) = kept[7*src + 3]
  BY <1>2, <1>12
<1>14. /\ kept \in [0 .. 7*src + 3 -> Seq(Samples(src))] /\ kept[0] = <<>>
       /\ \A k \in 1 .. 7*src + 3 : kept[k] = IF W(k) = 0 THEN kept[k - 1]
              ELSE Append(kept[k - 1], [at |-> Candidate(src, k), weight |-> W(k)])
  BY <1>7
<1> QED
  BY <1>13, <1>14 DEF Keeps

(* The weighted samples of a kernel are those of its entry.                 *)
LEMMA KernelSum ==
  ASSUME NEW kernel \in Kernels, NEW src \in Sizes, NEW dst \in Sizes, NEW d \in 0 .. dst - 1,
         NEW val \in [-(3*src) - 1 .. 4*src + 1 -> Int]
  PROVE  LET samples == Kernel(kernel, src, dst, d)
             entry == Entry(kernel, src, dst, d)
         IN  /\ samples \in Seq(Samples(src))
             /\ Total([i \in 1 .. Len(samples) |-> samples[i].weight * val[samples[i].at]])
                  = Total([k \in 1 .. Len(entry.weights) |->
                             entry.weights[k] * val[entry.min + k - 1]])
             /\ \A k \in 1 .. Len(entry.weights) : entry.min + k - 1 \in -(3*src) - 1 .. 4*src + 1
<1> DEFINE N == 7*src + 3
           W(k) == WeightOf(kernel, src, dst, d, Candidate(src, k))
           F == [k \in 1 .. N |-> W(k) * val[Candidate(src, k)]]
           Sum(samples) == Total([i \in 1 .. Len(samples) |-> samples[i].weight * val[samples[i].at]])
           first == First(kernel, src, dst, d)
           last == Last(kernel, src, dst, d)
           n == last - first + 1
           a == first + 3*src + 1
           entry == Entry(kernel, src, dst, d)
<1>1. N \in Nat /\ src \in Nat
  BY DEF Sizes
<1>2. PICK kept : Keeps(kept, kernel, src, dst, d)
  BY KernelKeeps
<1>3. ASSUME NEW k \in 1 .. N
      PROVE  /\ Candidate(src, k) \in -(3*src) - 1 .. 4*src + 1 /\ W(k) \in Int
             /\ F[k] \in Int /\ F[k] = W(k) * val[Candidate(src, k)]
  <2>1. Candidate(src, k) \in -(3*src) - 1 .. 4*src + 1 /\ Candidate(src, k) \in Int
    BY <1>1 DEF Candidate
  <2>2. W(k) \in Int
    BY <2>1, Reach
  <2>3. val[Candidate(src, k)] \in Int
    BY <2>1
  <2> HIDE DEF W
  <2> QED
    BY <2>1, <2>2, <2>3
<1>4. F \in [1 .. N -> Int]
  <2> HIDE DEF N, W
  <2> QED
    BY <1>3
<1> DEFINE T == {k \in 0 .. N : Sum(kept[k]) = Total([j \in 1 .. k |-> F[j]])}
<1>5. 0 \in T
  <2>1. kept[0] = <<>> /\ Len(<<>>) = 0
    BY <1>2 DEF Keeps
  <2>2. [i \in 1 .. Len(kept[0]) |-> kept[0][i].weight * val[kept[0][i].at]] = <<>>
    BY <2>1
  <2>3. [j \in 1 .. 0 |-> F[j]] = <<>>
    OBVIOUS
  <2>4. 0 \in 0 .. N
    BY <1>1
  <2>5. Sum(kept[0]) = Total([j \in 1 .. 0 |-> F[j]])
    BY <2>2, <2>3
  <2> HIDE DEF Sum, F, N
  <2> QED
    BY <2>4, <2>5
<1>6. ASSUME NEW k \in 0 .. N - 1, k \in T
      PROVE  k + 1 \in T
  <2>1. k + 1 \in 1 .. N /\ k + 1 \in 0 .. N /\ (k + 1) - 1 = k /\ k \in Nat
    BY <1>1
  <2> DEFINE x == [at |-> Candidate(src, k + 1), weight |-> W(k + 1)]
             old == kept[k]
  <2>2. kept[k + 1] = IF W(k + 1) = 0 THEN old ELSE Append(old, x)
    BY <1>2, <2>1 DEF Keeps
  <2>3. old \in Seq(Samples(src))
    <3>1. k \in 0 .. 7*src + 3
      BY <1>1
    <3>2. kept \in [0 .. 7*src + 3 -> Seq(Samples(src))]
      BY <1>2 DEF Keeps
    <3> QED
      BY <3>1, <3>2
  <2>4. Sum(old) = Total([j \in 1 .. k |-> F[j]])
    BY <1>6
  <2>5. Total([j \in 1 .. k + 1 |-> F[j]]) = Total([j \in 1 .. k |-> F[j]]) + F[k + 1]
    <3> DEFINE g == [j \in 1 .. k + 1 |-> F[j]]
    <3>1. g \in [1 .. k + 1 -> Int] /\ g[k + 1] = F[k + 1]
          /\ [j \in 1 .. k |-> g[j]] = [j \in 1 .. k |-> F[j]]
      <4> HIDE DEF F
      <4> QED
        BY <1>1, <1>4, <2>1
    <3> HIDE DEF g, F
    <3>2. Total(g) = Total([j \in 1 .. k |-> g[j]]) + g[k + 1]
      BY <2>1, <3>1, TotalOfOneMore
    <3> QED
      BY <3>1, <3>2 DEF g
  <2>6. Sum(kept[k + 1]) = Sum(old) + F[k + 1]
    <3>1. CASE W(k + 1) = 0
      <4>1. kept[k + 1] = old
        BY <2>2, <3>1
      <4>2. F[k + 1] = 0
        <5>1. F[k + 1] = W(k + 1) * val[Candidate(src, k + 1)]
          BY <1>3, <2>1
        <5>2. val[Candidate(src, k + 1)] \in Int
          BY <1>3, <2>1
        <5> HIDE DEF W, F
        <5> QED
          BY <3>1, <5>1, <5>2
      <4>3. Sum(old) \in Int
        <5> DEFINE g == [i \in 1 .. Len(old) |-> old[i].weight * val[old[i].at]]
        <5>1. Len(old) \in Nat
          BY <2>3
        <5>2. \A i \in 1 .. Len(old) : old[i].weight * val[old[i].at] \in Int
          <6> SUFFICES ASSUME NEW i \in 1 .. Len(old)
                       PROVE  old[i].weight * val[old[i].at] \in Int
            OBVIOUS
          <6>1. old[i] \in Samples(src)
            BY <2>3, ElementOfSeq
          <6>2. old[i].weight \in Int /\ val[old[i].at] \in Int
            BY <6>1 DEF Samples
          <6> QED
            BY <6>2
        <5>3. g \in [1 .. Len(old) -> Int]
          BY <5>2
        <5> HIDE DEF g
        <5>4. Total(g) \in Int
          BY <5>1, <5>3, TotalAdds
        <5> QED
          BY <5>4 DEF g
      <4> HIDE DEF Sum, F
      <4> QED
        BY <4>1, <4>2, <4>3
    <3>2. CASE W(k + 1) # 0
      <4> DEFINE m == Len(old)
                 new == Append(old, x)
                 g == [i \in 1 .. m + 1 |-> new[i].weight * val[new[i].at]]
      <4>1. x \in Samples(src)
        BY <1>3, <2>1 DEF Samples
      <4>2. new \in Seq(Samples(src)) /\ m \in Nat /\ Len(new) = m + 1 /\ new[m + 1] = x
            /\ \A i \in 1 .. m : new[i] = old[i]
        <5> HIDE DEF x
        <5> QED
          BY <2>3, <4>1
      <4>3. ASSUME NEW i \in 1 .. m + 1
            PROVE  new[i].weight * val[new[i].at] \in Int
        <5> HIDE DEF new, m
        <5>1. new[i] \in Samples(src)
          BY <4>2, ElementOfSeq
        <5>2. new[i].weight \in Int /\ val[new[i].at] \in Int
          BY <5>1 DEF Samples
        <5> QED
          BY <5>2
      <4>4. g \in [1 .. m + 1 -> Int]
        <5> HIDE DEF new, m
        <5> QED
          BY <4>3
      <4>5. [i \in 1 .. m |-> g[i]] = [i \in 1 .. m |-> old[i].weight * val[old[i].at]]
        <5> HIDE DEF new, m
        <5> QED
          BY <4>2
      <4>6. g[m + 1] = F[k + 1]
        <5>1. g[m + 1] = x.weight * val[x.at]
          <6> HIDE DEF new, m, x
          <6> QED
            BY <4>2
        <5>2. x.weight = W(k + 1) /\ x.at = Candidate(src, k + 1)
          OBVIOUS
        <5> HIDE DEF g, x, W
        <5> QED
          BY <1>3, <2>1, <5>1, <5>2
      <4>7. Sum(kept[k + 1]) = Total(g) /\ Sum(old) = Total([i \in 1 .. m |-> g[i]])
        <5>1. kept[k + 1] = new
          BY <2>2, <3>2
        <5> HIDE DEF new
        <5> QED
          BY <4>2, <4>5, <5>1
      <4> HIDE DEF g, m, new, F, Sum
      <4>8. Total(g) = Total([i \in 1 .. m |-> g[i]]) + g[m + 1]
        BY <4>2, <4>4, TotalOfOneMore
      <4> QED
        BY <4>6, <4>7, <4>8
    <3> QED
      BY <3>1, <3>2
  <2>7. Sum(kept[k + 1]) = Total([j \in 1 .. k + 1 |-> F[j]])
    <3> HIDE DEF Sum, F, old
    <3> QED
      BY <2>4, <2>5, <2>6
  <2> HIDE DEF Sum, F, N
  <2> QED
    BY <2>1, <2>7
<1>7. N \in T
  <2> HIDE DEF T, N
  <2> QED
    BY <1>1, <1>5, <1>6, N \in 0 .. N, Induction
<1>8. Kernel(kernel, src, dst, d) = kept[N] /\ kept[N] \in Seq(Samples(src))
  BY <1>1, <1>2 DEF Keeps
<1>9. Sum(Kernel(kernel, src, dst, d)) = Total(F)
  <2>1. F = [j \in 1 .. N |-> F[j]]
    OBVIOUS
  <2>2. Sum(kept[N]) = Total([j \in 1 .. N |-> F[j]])
    BY <1>7
  <2> HIDE DEF Sum, F, N
  <2> QED
    BY <1>8, <2>1, <2>2
<1>10. /\ first \in Int /\ last \in Int /\ first <= last
       /\ first >= -(3 * src) - 1 /\ last <= 4 * src + 1
       /\ \A s \in Int : s < first \/ s > last => WeightOf(kernel, src, dst, d, s) = 0
  BY Reach
<1>11. /\ entry.min = first /\ n \in Nat \ {0} /\ Len(entry.weights) = n
       /\ entry.weights = [k \in 1 .. n |-> WeightOf(kernel, src, dst, d, entry.min + k - 1)]
  BY EntryIs
<1> HIDE DEF first, last, entry
<1> DEFINE b == N - a - n
<1>12. a \in Nat /\ b \in Nat /\ N = a + (n + b) /\ n \in Nat
  BY <1>1, <1>10
<1>13. \A k \in 1 .. N : k <= a \/ k > a + n => F[k] = 0
  <2> SUFFICES ASSUME NEW k \in 1 .. N, k <= a \/ k > a + n
               PROVE  F[k] = 0
    OBVIOUS
  <2>1. Candidate(src, k) < first \/ Candidate(src, k) > last
    BY <1>1, <1>10 DEF Candidate
  <2>2. Candidate(src, k) \in Int
    BY <1>1 DEF Candidate
  <2>3. W(k) = 0
    BY <1>10, <2>1, <2>2
  <2>4. F[k] = W(k) * val[Candidate(src, k)] /\ val[Candidate(src, k)] \in Int
    BY <1>3
  <2> HIDE DEF W, F
  <2> QED
    BY <2>3, <2>4
<1>14. Total(F) = Total([k \in 1 .. n |-> F[a + k]])
  <2> HIDE DEF F, N, a, b, n
  <2>1. F \in [1 .. a + (n + b) -> Int]
    BY <1>4, <1>12
  <2>2. \A k \in 1 .. a + (n + b) : k <= a \/ k > a + n => F[k] = 0
    BY <1>12, <1>13
  <2> QED
    BY <1>12, <2>1, <2>2, TotalOfPart
<1>15. ASSUME NEW k \in 1 .. n
       PROVE  F[a + k] = entry.weights[k] * val[entry.min + k - 1]
  <2>1. a + k \in 1 .. N
    <3> HIDE DEF a, b, n, N
    <3> QED
      BY <1>12
  <2>2. Candidate(src, a + k) = entry.min + k - 1
    BY <1>1, <1>10, <1>11 DEF Candidate
  <2>3. entry.weights[k] = W(a + k)
    BY <1>11, <2>2
  <2>4. F[a + k] = W(a + k) * val[Candidate(src, a + k)]
    BY <1>3, <2>1
  <2> HIDE DEF F, W
  <2> QED
    BY <2>2, <2>3, <2>4
<1>16. [k \in 1 .. n |-> F[a + k]]
         = [k \in 1 .. Len(entry.weights) |-> entry.weights[k] * val[entry.min + k - 1]]
  <2> HIDE DEF F, a
  <2> QED
    BY <1>11, <1>15
<1>17. ASSUME NEW k \in 1 .. Len(entry.weights)
       PROVE  entry.min + k - 1 \in -(3*src) - 1 .. 4*src + 1
  BY <1>1, <1>10, <1>11
<1> HIDE DEF F
<1> QED
  BY <1>8, <1>9, <1>14, <1>16, <1>17 DEF entry

(* The weights of a kernel make what those of its entry make.               *)
LEMMA DivisorIs ==
  ASSUME NEW kernel \in Kernels, NEW src \in Sizes, NEW dst \in Sizes, NEW d \in 0 .. dst - 1
  PROVE  LET samples == Kernel(kernel, src, dst, d)
             entry == Entry(kernel, src, dst, d)
         IN  /\ Divisor([i \in 1 .. Len(samples) |-> samples[i].weight]) = Divisor(entry.weights)
             /\ Divisor(entry.weights) \in Int \ {0}
<1> DEFINE samples == Kernel(kernel, src, dst, d)
           entry == Entry(kernel, src, dst, d)
           val == [s \in -(3*src) - 1 .. 4*src + 1 |-> 1]
           n == Len(entry.weights)
<1>1. val \in [-(3*src) - 1 .. 4*src + 1 -> Int]
  OBVIOUS
<1> HIDE DEF val, entry, samples
<1>2. /\ samples \in Seq(Samples(src))
      /\ Total([i \in 1 .. Len(samples) |-> samples[i].weight * val[samples[i].at]])
           = Total([k \in 1 .. n |-> entry.weights[k] * val[entry.min + k - 1]])
      /\ \A k \in 1 .. n : entry.min + k - 1 \in -(3*src) - 1 .. 4*src + 1
  BY <1>1, KernelSum DEF samples, entry
<1>3. n \in Nat /\ entry.weights \in [1 .. n -> Int]
  <2> DEFINE m == Last(kernel, src, dst, d) - First(kernel, src, dst, d) + 1
  <2>1. /\ m \in Nat \ {0} /\ n = m /\ entry.weights \in [1 .. m -> Int]
        /\ entry.weights = [k \in 1 .. m |-> WeightOf(kernel, src, dst, d, entry.min + k - 1)]
    BY EntryIs DEF entry
  <2> HIDE DEF m, n
  <2> QED
    BY <2>1
<1>4. ASSUME NEW i \in 1 .. Len(samples)
      PROVE  samples[i].weight * val[samples[i].at] = samples[i].weight
  <2>1. samples[i] \in Samples(src)
    BY <1>2, ElementOfSeq
  <2>2. samples[i].weight \in Int /\ val[samples[i].at] = 1
    BY <2>1 DEF Samples, val
  <2> QED
    BY <2>2
<1>5. ASSUME NEW k \in 1 .. n
      PROVE  entry.weights[k] * val[entry.min + k - 1] = entry.weights[k]
  <2>1. val[entry.min + k - 1] = 1
    BY <1>2 DEF val
  <2>2. entry.weights[k] \in Int
    BY <1>3
  <2> QED
    BY <2>1, <2>2
<1>6. Total([i \in 1 .. Len(samples) |-> samples[i].weight])
        = Total([k \in 1 .. n |-> entry.weights[k]])
  BY <1>2, <1>4, <1>5
<1>7. [k \in 1 .. n |-> entry.weights[k]] = entry.weights
  BY <1>3
<1>8. Total([i \in 1 .. Len(samples) |-> samples[i].weight]) = Total(entry.weights)
  <2> HIDE DEF n
  <2> QED
    BY <1>6, <1>7
<1>9. Total(entry.weights) \in Int
  <2> HIDE DEF n
  <2> QED
    BY <1>3, TotalAdds
<1>10. Divisor(entry.weights) \in Int \ {0}
  BY <1>9 DEF Divisor
<1>11. Divisor([i \in 1 .. Len(samples) |-> samples[i].weight]) = Divisor(entry.weights)
  BY <1>8 DEF Divisor
<1> QED
  BY <1>10, <1>11 DEF samples, entry

(* The weighted samples are those at the edge past an edge.                 *)
LEMMA SampleIs ==
  ASSUME NEW size \in Sizes, NEW s \in Int
  PROVE  Clamp(s, 0, size - 1) \in 0 .. size - 1
<1>1. size \in Nat /\ size >= 1
  BY DEF Sizes
<1> QED
  BY <1>1 DEF Clamp, Smaller, Larger

-----------------------------------------------------------------------------
(* The ring *)

(* The greatest number of a sequence of numbers, as a loop finds it         *)
LEMMA GreatestCount ==
  ASSUME NEW n \in Nat, NEW table, Len(table) = n,
         \A d \in 1 .. n : Len(table[d].weights) \in Nat
  PROVE  MaxCount(table) \in Nat /\ \A d \in 1 .. n : Len(table[d].weights) <= MaxCount(table)
<1> DEFINE c == [d \in 1 .. n |-> Len(table[d].weights)]
           Step == [d \in 1 .. n |-> [m \in Nat |-> Larger(m, c[d])]]
           Body(t) == [k \in 0 .. n |-> IF k = 0 THEN 0 ELSE Larger(t[k - 1], Len(table[k].weights))]
           t == CHOOSE t : t = Body(t)
<1>1. c \in [1 .. n -> Nat] /\ \A d \in 1 .. n : c[d] = Len(table[d].weights)
  OBVIOUS
<1> HIDE DEF c
<1>2. MaxCount(table) = t[n]
  BY Zenon DEF MaxCount, Loop
<1>3. StaysIn(Nat, n, Step)
  BY <1>1 DEF StaysIn, Larger
<1>4. PICK s : Iterates(s, Nat, n, 0, Step)
  <2> HIDE DEF Step
  <2> QED
    BY <1>3, Recursion
<1>5. /\ s \in [0 .. n -> Nat] /\ s[0] = 0
      /\ \A k \in 1 .. n : s[k] = Larger(s[k - 1], c[k])
  <2>1. s \in [0 .. n -> Nat] /\ s[0] = 0
    BY <1>4 DEF Iterates
  <2>2. ASSUME NEW k \in 1 .. n
        PROVE  s[k] = Larger(s[k - 1], c[k])
    <3>1. s[k] = Step[k][s[k - 1]]
      BY <1>4 DEF Iterates
    <3>2. s[k - 1] \in Nat
      BY <2>1
    <3> QED
      BY <3>1, <3>2
  <2> QED
    BY <2>1, <2>2
<1>6. s = Body(s)
  <2>1. \A k \in 0 .. n : s[k] = Body(s)[k]
    BY <1>1, <1>5
  <2>2. s = [k \in 0 .. n |-> s[k]]
    BY <1>5
  <2> QED
    BY <2>1, <2>2
<1>7. t = Body(t)
  <2> HIDE DEF Body
  <2> QED
    BY <1>6
<1> HIDE DEF t, Step
<1> DEFINE T == {k \in 0 .. n : t[k] = s[k] /\ \A d \in 1 .. k : c[d] <= s[k]}
<1>8. 0 \in T
  BY <1>5, <1>7
<1>9. ASSUME NEW k \in 0 .. n - 1, k \in T
      PROVE  k + 1 \in T
  <2>1. k + 1 \in 1 .. n /\ k + 1 \in 0 .. n /\ (k + 1) - 1 = k /\ k \in Nat /\ k \in 0 .. n
    OBVIOUS
  <2>2. t[k] = s[k] /\ \A d \in 1 .. k : c[d] <= s[k]
    BY <1>9
  <2>3. t[k + 1] = Larger(t[k], c[k + 1])
    BY <1>1, <1>7, <2>1
  <2>4. s[k + 1] = Larger(s[k], c[k + 1]) /\ s[k] \in Nat /\ c[k + 1] \in Nat
    BY <1>1, <1>5, <2>1
  <2>5. s[k + 1] \in Nat /\ s[k] <= s[k + 1] /\ c[k + 1] <= s[k + 1]
    BY <2>4 DEF Larger
  <2>6. \A d \in 1 .. k + 1 : c[d] <= s[k + 1]
    <3> SUFFICES ASSUME NEW d \in 1 .. k + 1 PROVE c[d] <= s[k + 1]
      OBVIOUS
    <3>1. d = k + 1 \/ d \in 1 .. k
      BY <2>1
    <3>2. c[d] \in Nat
      BY <1>1, <2>1
    <3> QED
      BY <2>2, <2>4, <2>5, <3>1, <3>2
  <2> QED
    BY <2>1, <2>2, <2>3, <2>4, <2>6
<1>10. n \in T
  <2> HIDE DEF T
  <2> QED
    BY <1>8, <1>9, n \in 0 .. n, Induction
<1> QED
  BY <1>1, <1>2, <1>5, <1>10

Doubled(size) == Loop(size, 1, LAMBDA c, k: IF c < size THEN 2*c ELSE c)

(* Doubling a number often enough makes it as great as is asked for.        *)
LEMMA DoubledEnough ==
  ASSUME NEW size \in Nat
  PROVE  Doubled(size) \in Nat \ {0} /\ Doubled(size) >= size
<1> DEFINE S == Nat \ {0}
           Step == [k \in 1 .. size |-> [c \in S |-> IF c < size THEN 2*c ELSE c]]
           Body(t) == [k \in 0 .. size |-> IF k = 0 THEN 1
                                           ELSE IF t[k - 1] < size THEN 2*t[k - 1] ELSE t[k - 1]]
           t == CHOOSE t : t = Body(t)
<1>1. Doubled(size) = t[size]
  BY Zenon DEF Doubled, Loop
<1>2. StaysIn(S, size, Step)
  BY DEF StaysIn
<1>3. PICK s : Iterates(s, S, size, 1, Step)
  <2>1. 1 \in S
    OBVIOUS
  <2> HIDE DEF Step, S
  <2> QED
    BY <1>2, <2>1, Recursion
<1>4. /\ s \in [0 .. size -> S] /\ s[0] = 1
      /\ \A k \in 1 .. size : s[k] = IF s[k - 1] < size THEN 2*s[k - 1] ELSE s[k - 1]
  <2>1. s \in [0 .. size -> S] /\ s[0] = 1
    BY <1>3 DEF Iterates
  <2>2. ASSUME NEW k \in 1 .. size
        PROVE  s[k] = IF s[k - 1] < size THEN 2*s[k - 1] ELSE s[k - 1]
    <3>1. s[k] = Step[k][s[k - 1]]
      BY <1>3 DEF Iterates
    <3>2. s[k - 1] \in S
      <4> HIDE DEF S
      <4> QED
        BY <2>1
    <3> QED
      BY <3>1, <3>2
  <2> QED
    BY <2>1, <2>2
<1>5. s = Body(s)
  <2>1. \A k \in 0 .. size : k = 0 \/ k \in 1 .. size
    OBVIOUS
  <2>2. \A k \in 0 .. size : s[k] = Body(s)[k]
    BY <1>4, <2>1
  <2>3. s = [k \in 0 .. size |-> s[k]]
    BY <1>4
  <2> QED
    BY <2>2, <2>3
<1>6. t = Body(t)
  <2> HIDE DEF Body
  <2> QED
    BY <1>5
<1> HIDE DEF t, Step
<1> DEFINE T == {k \in 0 .. size : t[k] = s[k] /\ (s[k] >= size \/ s[k] >= k + 1)}
<1>7. 0 \in T
  BY <1>4, <1>6
<1>8. ASSUME NEW k \in 0 .. size - 1, k \in T
      PROVE  k + 1 \in T
  <2>1. k + 1 \in 1 .. size /\ k + 1 \in 0 .. size /\ (k + 1) - 1 = k /\ k \in 0 .. size
    OBVIOUS
  <2>2. t[k] = s[k] /\ (s[k] >= size \/ s[k] >= k + 1)
    BY <1>8
  <2>3. t[k + 1] = IF t[k] < size THEN 2*t[k] ELSE t[k]
    BY <1>6, <2>1
  <2>4. s[k + 1] = (IF s[k] < size THEN 2*s[k] ELSE s[k]) /\ s[k] \in Nat /\ s[k] >= 1
    BY <1>4, <2>1
  <2>5. s[k + 1] >= size \/ s[k + 1] >= (k + 1) + 1
    BY <2>2, <2>4
  <2> QED
    BY <2>1, <2>2, <2>3, <2>4, <2>5
<1>9. size \in T
  <2> HIDE DEF T
  <2> QED
    BY <1>7, <1>8, size \in 0 .. size, Induction
<1>10. s[size] \in S
  <2> HIDE DEF S
  <2> QED
    BY <1>4
<1> QED
  BY <1>1, <1>9, <1>10

(* The ring has more slots than any entry has rows.                         *)
LEMMA RingHoldsAnEntry ==
  ASSUME NEW kernel \in Kernels, NEW src \in Sizes, NEW dst \in Sizes
  PROVE  LET capacity == RingCapacity(BuildFilterTable(kernel, src, dst))
         IN  /\ capacity \in Nat \ {0}
             /\ \A d \in 0 .. dst - 1 : Len(Entry(kernel, src, dst, d).weights) < capacity
<1> DEFINE table == BuildFilterTable(kernel, src, dst)
           size == MaxCount(table) + 4
           capacity == Doubled(size)
<1>1. dst \in Nat
  BY DEF Sizes
<1>2. table = [d \in 1 .. dst |-> Entry(kernel, src, dst, d - 1)]
  BY DEF BuildFilterTable
<1>3. RingCapacity(table) = capacity
  <2> HIDE DEF table
  <2> QED
    BY Zenon DEF RingCapacity, Doubled
<1> HIDE DEF table
<1>4. Len(table) = dst
  <2>1. table \in [1 .. dst -> {Entry(kernel, src, dst, d - 1) : d \in 1 .. dst}]
    BY <1>2
  <2> QED
    BY <1>1, <2>1, FunctionIsSeq
<1>5. ASSUME NEW d \in 1 .. dst
      PROVE  /\ table[d] = Entry(kernel, src, dst, d - 1)
             /\ Len(table[d].weights) \in Nat
  <2>1. d - 1 \in 0 .. dst - 1
    BY <1>1
  <2>2. Len(Entry(kernel, src, dst, d - 1).weights) \in Nat
    BY <2>1, EntryIs
  <2> QED
    BY <1>2, <2>2
<1>6. MaxCount(table) \in Nat /\ \A d \in 1 .. dst : Len(table[d].weights) <= MaxCount(table)
  BY <1>1, <1>4, <1>5, GreatestCount
<1>7. capacity \in Nat \ {0} /\ capacity >= size
  <2>1. size \in Nat
    BY <1>6
  <2> HIDE DEF size
  <2> QED
    BY <2>1, DoubledEnough
<1> HIDE DEF capacity
<1>8. ASSUME NEW d \in 0 .. dst - 1
      PROVE  Len(Entry(kernel, src, dst, d).weights) < capacity
  <2>1. d + 1 \in 1 .. dst /\ (d + 1) - 1 = d
    BY <1>1
  <2>2. Len(table[d + 1].weights) = Len(Entry(kernel, src, dst, d).weights)
    BY <1>5, <2>1
  <2>3. Len(table[d + 1].weights) \in Nat /\ Len(table[d + 1].weights) <= MaxCount(table)
    BY <1>5, <1>6, <2>1
  <2> QED
    BY <1>6, <1>7, <2>2, <2>3
<1> QED
  BY <1>3, <1>7, <1>8 DEF table

-----------------------------------------------------------------------------
(* Resampling is the kernel *)

PixelOf(r, sy, sx) == r.from[r.part.y + sy + 1][r.part.x + sx + 1]

(* What a resampling is asked for: a part of a picture that is there.       *)
RequestOK(r) ==
  /\ r.kernel \in Kernels
  /\ r.w \in Sizes /\ r.h \in Sizes /\ r.part.w \in Sizes /\ r.part.h \in Sizes
  /\ \A sy \in 0 .. r.part.h - 1, sx \in 0 .. r.part.w - 1 : PixelOf(r, sy, sx) \in 0 .. 255

(* Column x of a source row resampled horizontally                          *)
AcrossAt(r, sy, x) ==
  LET entry == Entry(r.kernel, r.part.w, r.w, x)
  IN Total([k \in 1 .. Len(entry.weights) |->
              entry.weights[k] * PixelOf(r, sy, SampleAt(entry, k, r.part.w))])

(* The horizontal entry of a column covers samples that are there.          *)
LEMMA EntryCovers ==
  ASSUME NEW kernel \in Kernels, NEW src \in Sizes, NEW dst \in Sizes, NEW d \in 0 .. dst - 1
  PROVE  LET entry == Entry(kernel, src, dst, d)
         IN  /\ Len(entry.weights) \in Nat
             /\ \A k \in 1 .. Len(entry.weights) :
                  /\ entry.weights[k] \in Int
                  /\ entry.min + k - 1 \in -(3*src) - 1 .. 4*src + 1
                  /\ entry.min + k - 1 \in Int
                  /\ SampleAt(entry, k, src) \in 0 .. src - 1
<1> DEFINE e == Entry(kernel, src, dst, d)
           m == Last(kernel, src, dst, d) - First(kernel, src, dst, d) + 1
           zero == [s \in -(3*src) - 1 .. 4*src + 1 |-> 0]
<1>1. /\ m \in Nat \ {0} /\ Len(e.weights) = m /\ e.weights \in [1 .. m -> Int]
      /\ e.weights = [k \in 1 .. m |-> WeightOf(kernel, src, dst, d, e.min + k - 1)]
  BY EntryIs
<1>2. zero \in [-(3*src) - 1 .. 4*src + 1 -> Int]
  OBVIOUS
<1> HIDE DEF e, m, zero
<1>3. \A k \in 1 .. Len(e.weights) : e.min + k - 1 \in -(3*src) - 1 .. 4*src + 1
  BY <1>2, KernelSum DEF e
<1>4. src \in Nat
  BY DEF Sizes
<1>5. ASSUME NEW k \in 1 .. Len(e.weights)
      PROVE  /\ e.weights[k] \in Int
             /\ e.min + k - 1 \in -(3*src) - 1 .. 4*src + 1
             /\ e.min + k - 1 \in Int
             /\ SampleAt(e, k, src) \in 0 .. src - 1
  <2>1. e.min + k - 1 \in -(3*src) - 1 .. 4*src + 1 /\ e.min + k - 1 \in Int
    BY <1>3, <1>4
  <2>2. SampleAt(e, k, src) \in 0 .. src - 1
    BY <2>1, SampleIs DEF SampleAt
  <2> QED
    BY <1>1, <2>1, <2>2
<1>6. Len(e.weights) \in Nat
  BY <1>1
<1> QED
  BY <1>5, <1>6 DEF e

(* A row resampled horizontally is a row of numbers.                        *)
LEMMA AcrossIs ==
  ASSUME NEW r, RequestOK(r), NEW sy \in 0 .. r.part.h - 1
  PROVE  /\ Across(r, sy) = [x \in 1 .. r.w |-> AcrossAt(r, sy, x - 1)]
         /\ \A x \in 0 .. r.w - 1 : AcrossAt(r, sy, x) \in Int
<1> DEFINE table == BuildFilterTable(r.kernel, r.part.w, r.w)
<1>1. r.w \in Nat
  BY DEF RequestOK, Sizes
<1>2. \A x \in 1 .. r.w : table[x] = Entry(r.kernel, r.part.w, r.w, x - 1)
  BY DEF BuildFilterTable
<1>3. Across(r, sy) = [x \in 1 .. r.w |->
        Total([k \in 1 .. Len(table[x].weights) |->
                 table[x].weights[k] * PixelOf(r, sy, SampleAt(table[x], k, r.part.w))])]
  BY Zenon DEF Across, Weighted, PixelOf
<1> HIDE DEF table
<1>4. Across(r, sy) = [x \in 1 .. r.w |-> AcrossAt(r, sy, x - 1)]
  BY <1>2, <1>3 DEF AcrossAt
<1>5. ASSUME NEW x \in 0 .. r.w - 1
      PROVE  AcrossAt(r, sy, x) \in Int
  <2> DEFINE e == Entry(r.kernel, r.part.w, r.w, x)
             n == Len(e.weights)
             f == [k \in 1 .. n |-> e.weights[k] * PixelOf(r, sy, SampleAt(e, k, r.part.w))]
  <2>1. n \in Nat /\ \A k \in 1 .. n : e.weights[k] \in Int /\ SampleAt(e, k, r.part.w) \in 0 .. r.part.w - 1
    BY EntryCovers DEF RequestOK
  <2> HIDE DEF e, n
  <2>2. ASSUME NEW k \in 1 .. n
        PROVE  e.weights[k] * PixelOf(r, sy, SampleAt(e, k, r.part.w)) \in Int
    <3>1. PixelOf(r, sy, SampleAt(e, k, r.part.w)) \in 0 .. 255
      BY <2>1 DEF RequestOK
    <3> DEFINE p == PixelOf(r, sy, SampleAt(e, k, r.part.w))
    <3>2. p \in Int
      BY <3>1
    <3> HIDE DEF p
    <3>3. e.weights[k] * p \in Int
      BY <2>1, <3>2
    <3> QED
      BY <3>3 DEF p
  <2>3. f \in [1 .. n -> Int]
    BY <2>2
  <2>4. AcrossAt(r, sy, x) = Total(f)
    BY DEF AcrossAt, e, n
  <2> HIDE DEF f
  <2> QED
    BY <2>1, <2>3, <2>4, TotalAdds
<1> QED
  BY <1>4, <1>5

(* The sum of the rows under an entry, at a column, each from the source    *)
Down(r, x, y) ==
  LET entry == Entry(r.kernel, r.part.h, r.h, y)
  IN Total([k \in 1 .. Len(entry.weights) |->
              entry.weights[k] * AcrossAt(r, SampleAt(entry, k, r.part.h), x)])

(* The kernel of a row, applied to the source                               *)
LEMMA RowOfKernel ==
  ASSUME NEW r, RequestOK(r), NEW sy \in 0 .. r.part.h - 1, NEW x \in 0 .. r.w - 1
  PROVE  LET across == Kernel(r.kernel, r.part.w, r.w, x)
         IN  Total([j \in 1 .. Len(across) |->
                      across[j].weight * PixelOf(r, sy, Clamp(across[j].at, 0, r.part.w - 1))])
               = AcrossAt(r, sy, x)
<1> DEFINE src == r.part.w
           val == [s \in -(3*src) - 1 .. 4*src + 1 |-> PixelOf(r, sy, Clamp(s, 0, src - 1))]
           samples == Kernel(r.kernel, src, r.w, x)
           e == Entry(r.kernel, src, r.w, x)
           n == Len(e.weights)
<1>1. /\ r.kernel \in Kernels /\ src \in Sizes /\ r.w \in Sizes
      /\ \A sx \in 0 .. src - 1 : PixelOf(r, sy, sx) \in 0 .. 255
  BY DEF RequestOK
<1>2. src \in Nat
  BY <1>1 DEF Sizes
<1>3. val \in [-(3*src) - 1 .. 4*src + 1 -> Int]
  <2> SUFFICES ASSUME NEW s \in -(3*src) - 1 .. 4*src + 1
               PROVE  PixelOf(r, sy, Clamp(s, 0, src - 1)) \in Int
    OBVIOUS
  <2>1. s \in Int
    BY <1>2
  <2>2. Clamp(s, 0, src - 1) \in 0 .. src - 1
    <3> HIDE DEF src
    <3> QED
      BY <1>1, <2>1, SampleIs
  <2>3. PixelOf(r, sy, Clamp(s, 0, src - 1)) \in 0 .. 255
    BY <1>1, <2>2
  <2> QED
    BY <2>3
<1> HIDE DEF val, src, samples, e, n
<1>4. /\ samples \in Seq(Samples(src))
      /\ Total([j \in 1 .. Len(samples) |-> samples[j].weight * val[samples[j].at]])
           = Total([k \in 1 .. n |-> e.weights[k] * val[e.min + k - 1]])
      /\ \A k \in 1 .. n : e.min + k - 1 \in -(3*src) - 1 .. 4*src + 1
  BY <1>1, <1>3, KernelSum DEF samples, e, n
<1>5. ASSUME NEW j \in 1 .. Len(samples)
      PROVE  val[samples[j].at] = PixelOf(r, sy, Clamp(samples[j].at, 0, src - 1))
  <2>1. samples[j] \in Samples(src)
    BY <1>4, ElementOfSeq
  <2>2. samples[j].at \in -(3*src) - 1 .. 4*src + 1
    BY <2>1 DEF Samples
  <2> QED
    BY <2>2 DEF val
<1>6. ASSUME NEW k \in 1 .. n
      PROVE  val[e.min + k - 1] = PixelOf(r, sy, SampleAt(e, k, src))
  BY <1>4 DEF val, SampleAt
<1>7. AcrossAt(r, sy, x) = Total([k \in 1 .. n |-> e.weights[k] * PixelOf(r, sy, SampleAt(e, k, src))])
  BY DEF AcrossAt, e, n, src
<1>8. Total([j \in 1 .. Len(samples) |->
               samples[j].weight * PixelOf(r, sy, Clamp(samples[j].at, 0, src - 1))])
        = AcrossAt(r, sy, x)
  BY <1>4, <1>5, <1>6, <1>7
<1> QED
  BY <1>8 DEF samples, src

(* What the reference computes for a pixel                                  *)
LEMMA DirectIs ==
  ASSUME NEW r, RequestOK(r), NEW x \in 0 .. r.w - 1, NEW y \in 0 .. r.h - 1
  PROVE  /\ Down(r, x, y) \in Int
         /\ Direct(r, x, y)
              = Clamp(Rounded(Down(r, x, y),
                              Divisor(Entry(r.kernel, r.part.h, r.h, y).weights)
                                * Divisor(Entry(r.kernel, r.part.w, r.w, x).weights)), 0, 255)
<1> DEFINE src == r.part.h
           wide == r.part.w
           across == Kernel(r.kernel, wide, r.w, x)
           down == Kernel(r.kernel, src, r.h, y)
           Row(i) == Total([j \in 1 .. Len(across) |->
                              across[j].weight * PixelOf(r, Clamp(down[i].at, 0, src - 1),
                                                         Clamp(across[j].at, 0, wide - 1))])
           Weights(samples) == [i \in 1..Len(samples) |-> samples[i].weight]
           e == Entry(r.kernel, src, r.h, y)
           n == Len(e.weights)
           val == [s \in -(3*src) - 1 .. 4*src + 1 |-> AcrossAt(r, Clamp(s, 0, src - 1), x)]
<1>1. Direct(r, x, y) = Clamp(Rounded(Total([i \in 1 .. Len(down) |-> down[i].weight * Row(i)]),
                                      Divisor(Weights(down)) * Divisor(Weights(across))), 0, 255)
  BY Zenon DEF Direct, PixelOf
<1>2. r.kernel \in Kernels /\ src \in Sizes /\ wide \in Sizes /\ r.w \in Sizes /\ r.h \in Sizes
  BY DEF RequestOK
<1>3. src \in Nat
  BY <1>2 DEF Sizes
<1>4. ASSUME NEW s \in Int
      PROVE  Clamp(s, 0, src - 1) \in 0 .. src - 1 /\ AcrossAt(r, Clamp(s, 0, src - 1), x) \in Int
  <2>1. Clamp(s, 0, src - 1) \in 0 .. src - 1
    <3> HIDE DEF src
    <3> QED
      BY <1>2, SampleIs
  <2> DEFINE sy == Clamp(s, 0, src - 1)
  <2>2. sy \in 0 .. r.part.h - 1
    BY <2>1
  <2> HIDE DEF sy
  <2>3. AcrossAt(r, sy, x) \in Int
    BY <2>2, AcrossIs
  <2> QED
    BY <2>1, <2>3 DEF sy
<1>5. val \in [-(3*src) - 1 .. 4*src + 1 -> Int]
  <2> SUFFICES ASSUME NEW s \in -(3*src) - 1 .. 4*src + 1
               PROVE  AcrossAt(r, Clamp(s, 0, src - 1), x) \in Int
    OBVIOUS
  <2>1. s \in Int
    BY <1>3
  <2> QED
    BY <1>4, <2>1
<1> HIDE DEF val, e, n
<1>6. /\ down \in Seq(Samples(src))
      /\ Total([i \in 1 .. Len(down) |-> down[i].weight * val[down[i].at]])
           = Total([k \in 1 .. n |-> e.weights[k] * val[e.min + k - 1]])
      /\ \A k \in 1 .. n : e.min + k - 1 \in -(3*src) - 1 .. 4*src + 1
  <2> HIDE DEF src
  <2> QED
    BY <1>2, <1>5, KernelSum DEF e, n
<1>7. ASSUME NEW i \in 1 .. Len(down)
      PROVE  val[down[i].at] = Row(i)
  <2> HIDE DEF down, across
  <2>1. down[i] \in Samples(src)
    BY <1>6, ElementOfSeq
  <2>2. down[i].at \in -(3*src) - 1 .. 4*src + 1 /\ down[i].at \in Int
    BY <1>3, <2>1 DEF Samples
  <2> DEFINE sy == Clamp(down[i].at, 0, src - 1)
  <2>3. sy \in 0 .. r.part.h - 1
    BY <1>4, <2>2
  <2>4. val[down[i].at] = AcrossAt(r, sy, x)
    BY <2>2 DEF val
  <2> HIDE DEF sy
  <2>5. Total([j \in 1 .. Len(across) |->
                 across[j].weight * PixelOf(r, sy, Clamp(across[j].at, 0, wide - 1))])
          = AcrossAt(r, sy, x)
    BY <2>3, RowOfKernel DEF across
  <2> QED
    BY <2>4, <2>5 DEF sy
<1>8. ASSUME NEW k \in 1 .. n
      PROVE  val[e.min + k - 1] = AcrossAt(r, SampleAt(e, k, src), x)
  BY <1>6 DEF val, SampleAt
<1>9. Total([i \in 1 .. Len(down) |-> down[i].weight * Row(i)]) = Down(r, x, y)
  <2>1. Down(r, x, y) = Total([k \in 1 .. n |-> e.weights[k] * AcrossAt(r, SampleAt(e, k, src), x)])
    BY DEF Down, e, n
  <2> HIDE DEF down, Row, src
  <2> QED
    BY <1>6, <1>7, <1>8, <2>1
<1>10. /\ Divisor(Weights(down)) = Divisor(Entry(r.kernel, src, r.h, y).weights)
       /\ Divisor(Weights(across)) = Divisor(Entry(r.kernel, wide, r.w, x).weights)
  <2>1. Divisor(Weights(down)) = Divisor(Entry(r.kernel, src, r.h, y).weights)
    <3> HIDE DEF src
    <3>1. LET samples == Kernel(r.kernel, src, r.h, y)
          IN  Divisor([j \in 1 .. Len(samples) |-> samples[j].weight])
                = Divisor(Entry(r.kernel, src, r.h, y).weights)
      BY <1>2, DivisorIs
    <3> QED
      BY <3>1
  <2>2. Divisor(Weights(across)) = Divisor(Entry(r.kernel, wide, r.w, x).weights)
    <3> HIDE DEF wide
    <3>1. LET samples == Kernel(r.kernel, wide, r.w, x)
          IN  Divisor([j \in 1 .. Len(samples) |-> samples[j].weight])
                = Divisor(Entry(r.kernel, wide, r.w, x).weights)
      BY <1>2, DivisorIs
    <3> QED
      BY <3>1
  <2> QED
    BY <2>1, <2>2
<1>11. Down(r, x, y) \in Int
  <2> DEFINE f == [k \in 1 .. n |-> e.weights[k] * val[e.min + k - 1]]
  <2>1. n \in Nat /\ \A k \in 1 .. n : e.weights[k] \in Int
    <3> HIDE DEF src
    <3> QED
      BY <1>2, EntryCovers DEF e, n
  <2>2. ASSUME NEW k \in 1 .. n
        PROVE  e.weights[k] * val[e.min + k - 1] \in Int
    <3>1. val[e.min + k - 1] \in Int
      BY <1>5, <1>6
    <3> QED
      BY <2>1, <3>1
  <2>3. f \in [1 .. n -> Int]
    BY <2>2
  <2>4. Down(r, x, y) = Total(f)
    <3>1. f = [k \in 1 .. n |-> e.weights[k] * AcrossAt(r, SampleAt(e, k, src), x)]
      BY <1>8
    <3> QED
      BY <3>1 DEF Down, e, n
  <2> HIDE DEF f
  <2> QED
    BY <2>1, <2>3, <2>4, TotalAdds
<1> HIDE DEF Row, down, across, Weights
<1> QED
  BY <1>1, <1>9, <1>10, <1>11

-----------------------------------------------------------------------------
(* The rows the ring holds *)

(* A source row as the ring holds it                                        *)
RowHeld(r, sy) == [tag |-> sy, row |-> Across(r, sy)]

(* The rings there can be: in some slots, rows of the source                *)
Rings(r, capacity) ==
  UNION {[slots -> {RowHeld(r, sy) : sy \in 0 .. r.part.h - 1}] :
           slots \in SUBSET (0 .. capacity - 1)}

(* A ring that is made to hold a row gives up at most the one in its slot.  *)
LEMMA HoldingIs ==
  ASSUME NEW r, NEW capacity \in Nat \ {0}, r.part.h \in Nat,
         NEW held \in Rings(r, capacity), NEW sy \in 0 .. r.part.h - 1
  PROVE  LET more == Holding(r, held, capacity, sy)
         IN  /\ more \in Rings(r, capacity)
             /\ sy % capacity \in DOMAIN more /\ more[sy % capacity] = RowHeld(r, sy)
             /\ \A slot \in DOMAIN held \ {sy % capacity} :
                  slot \in DOMAIN more /\ more[slot] = held[slot]
<1> DEFINE slot == sy % capacity
           S == {RowHeld(r, i) : i \in 0 .. r.part.h - 1}
           new == [s \in DOMAIN held \cup {slot} |-> IF s = slot THEN RowHeld(r, sy) ELSE held[s]]
<1>1. slot \in 0 .. capacity - 1 /\ RowHeld(r, sy) \in S
  <2>1. sy \in Int
    OBVIOUS
  <2> QED
    BY <2>1, QuotientAndRest
<1>2. PICK slots \in SUBSET (0 .. capacity - 1) : held \in [slots -> S]
  BY DEF Rings
<1>3. \A i, j : RowHeld(r, i).tag = j => i = j
  BY DEF RowHeld
<1>4. Holding(r, held, capacity, sy) = IF slot \in DOMAIN held /\ held[slot].tag = sy THEN held ELSE new
  BY Zenon DEF Holding, IsHeld, RowHeld
<1>5. CASE slot \in DOMAIN held /\ held[slot].tag = sy
  <2>1. held[slot] \in S
    BY <1>2, <1>5
  <2>2. held[slot] = RowHeld(r, sy)
    BY <1>3, <1>5, <2>1
  <2> HIDE DEF slot, S
  <2> QED
    BY <1>4, <1>5, <2>2 DEF slot
<1>6. CASE ~(slot \in DOMAIN held /\ held[slot].tag = sy)
  <2> DEFINE value == RowHeld(r, sy)
  <2> HIDE DEF slot, S, value
  <2>1. new = [s \in slots \cup {slot} |-> IF s = slot THEN value ELSE held[s]]
    BY <1>2 DEF value
  <2>2. value \in S
    BY <1>1 DEF value
  <2> HIDE DEF new
  <2>3. new \in [slots \cup {slot} -> S]
    BY <1>2, <2>1, <2>2
  <2>4. slots \cup {slot} \in SUBSET (0 .. capacity - 1)
    BY <1>1, <1>2
  <2>5. new \in Rings(r, capacity)
    BY <2>3, <2>4 DEF Rings, S
  <2>6. slot \in DOMAIN new /\ new[slot] = value
    BY <2>1
  <2>7. \A s \in DOMAIN held \ {slot} : s \in DOMAIN new /\ new[s] = held[s]
    BY <1>2, <2>1
  <2>8. Holding(r, held, capacity, sy) = new
    BY <1>4, <1>6
  <2> QED
    BY <2>5, <2>6, <2>7, <2>8 DEF slot, value
<1> QED
  BY <1>5, <1>6

(* Samples under an entry that are as far apart as the ring is long are one *)
(* sample, past an edge.                                                    *)
LEMMA SamplesApart ==
  ASSUME NEW size \in Sizes, NEW first \in Int, NEW j \in Nat, NEW k \in Nat, j <= k,
         NEW capacity \in Nat \ {0}, k - j < capacity,
         Clamp(first + j - 1, 0, size - 1) % capacity = Clamp(first + k - 1, 0, size - 1) % capacity
  PROVE  Clamp(first + j - 1, 0, size - 1) = Clamp(first + k - 1, 0, size - 1)
<1> DEFINE a == Clamp(first + j - 1, 0, size - 1)
           b == Clamp(first + k - 1, 0, size - 1)
<1>1. size \in Nat /\ size >= 1
  BY DEF Sizes
<1>2. a \in Nat /\ b \in Nat /\ a <= b /\ b - a <= k - j
  BY <1>1 DEF Clamp, Smaller, Larger
<1>3. a % capacity = b % capacity
  OBVIOUS
<1> HIDE DEF a, b
<1> DEFINE p == a \div capacity
           q == b \div capacity
           t == b % capacity
<1>4. /\ p \in Int /\ q \in Int /\ t \in 0 .. capacity - 1
      /\ a = capacity * p + t /\ b = capacity * q + t
  <2>0. a \in Int /\ b \in Int
    BY <1>2
  <2>1. p \in Int /\ a = capacity * p + (a % capacity)
    BY <2>0, QuotientAndRest
  <2>2. q \in Int /\ t \in 0 .. capacity - 1 /\ b = capacity * q + t
    BY <2>0, QuotientAndRest
  <2> QED
    BY <1>3, <2>1, <2>2
<1> HIDE DEF p, q, t
<1>5. ~(p + 1 <= q)
  <2> SUFFICES ASSUME p + 1 <= q PROVE FALSE
    OBVIOUS
  <2>1. capacity * (p + 1) <= capacity * q
    BY <1>4, ProductsInOrder
  <2>2. capacity * (p + 1) = capacity * p + capacity /\ capacity * p \in Int /\ capacity * q \in Int
    BY <1>4
  <2> QED
    BY <1>2, <1>4, <2>1, <2>2
<1>6. ~(q + 1 <= p)
  <2> SUFFICES ASSUME q + 1 <= p PROVE FALSE
    OBVIOUS
  <2>1. capacity * (q + 1) <= capacity * p
    BY <1>4, ProductsInOrder
  <2>2. capacity * (q + 1) = capacity * q + capacity /\ capacity * p \in Int /\ capacity * q \in Int
    BY <1>4
  <2> QED
    BY <1>2, <1>4, <2>1, <2>2
<1>7. p = q
  BY <1>4, <1>5, <1>6
<1> QED
  BY <1>4, <1>7 DEF a, b
(* An entry begins at a sample.                                             *)
LEMMA EntryBegins ==
  ASSUME NEW kernel \in Kernels, NEW src \in Sizes, NEW dst \in Sizes, NEW d \in 0 .. dst - 1
  PROVE  Entry(kernel, src, dst, d).min \in Int
<1>1. First(kernel, src, dst, d) \in Int
  BY Reach
<1>2. Entry(kernel, src, dst, d).min = First(kernel, src, dst, d)
  BY DEF Entry, First, Support
<1> QED
  BY <1>1, <1>2

(* The ring that has been made to hold the rows under an entry holds them   *)
(* all.                                                                     *)
LEMMA RowsHeldAre ==
  ASSUME NEW r, RequestOK(r), NEW capacity \in Nat \ {0}, NEW held \in Rings(r, capacity),
         NEW y \in 0 .. r.h - 1,
         Len(Entry(r.kernel, r.part.h, r.h, y).weights) < capacity
  PROVE  LET entry == Entry(r.kernel, r.part.h, r.h, y)
             rows == RowsHeld(r, held, entry, capacity)
         IN  /\ rows \in Rings(r, capacity)
             /\ \A k \in 1 .. Len(entry.weights) :
                  rows[SampleAt(entry, k, r.part.h) % capacity]
                    = RowHeld(r, SampleAt(entry, k, r.part.h))
<1> DEFINE entry == Entry(r.kernel, r.part.h, r.h, y)
           n == Len(entry.weights)
           size == r.part.h
           S == Rings(r, capacity)
           Nth(k) == SampleAt(entry, k, size)
           Step == [k \in 1 .. n |-> [rows \in S |-> Holding(r, rows, capacity, Nth(k))]]
           Body(t) == [k \in 0 .. n |-> IF k = 0 THEN held ELSE Holding(r, t[k - 1], capacity, Nth(k))]
           t == CHOOSE t : t = Body(t)
<1>1. /\ r.kernel \in Kernels /\ size \in Sizes /\ r.h \in Sizes /\ size \in Nat
  BY DEF RequestOK, Sizes
<1>2. /\ n \in Nat /\ n < capacity
      /\ \A k \in 1 .. n : Nth(k) \in 0 .. size - 1
  <2> HIDE DEF size
  <2> QED
    BY <1>1, EntryCovers DEF size
<1>3. entry.min \in Int
  BY <1>1, EntryBegins
<1>4. RowsHeld(r, held, entry, capacity) = t[n]
  BY Zenon DEF RowsHeld, Loop
<1>5. ASSUME NEW j \in 1 .. n, NEW k \in 1 .. n, Nth(j) % capacity = Nth(k) % capacity
      PROVE  Nth(j) = Nth(k)
  <2> HIDE DEF entry, n, size
  <2>1. j \in Nat /\ k \in Nat /\ k - j < capacity /\ j - k < capacity
    BY <1>2
  <2>2. CASE j <= k
    BY <1>1, <1>3, <1>5, <2>1, <2>2, SamplesApart DEF SampleAt
  <2>3. CASE k <= j
    BY <1>1, <1>3, <1>5, <2>1, <2>3, SamplesApart DEF SampleAt
  <2> QED
    BY <2>1, <2>2, <2>3
<1> HIDE DEF entry, n, size, Nth
<1>6. ASSUME NEW k \in 1 .. n, NEW rows \in S
      PROVE  LET more == Holding(r, rows, capacity, Nth(k))
             IN  /\ more \in S
                 /\ Nth(k) % capacity \in DOMAIN more /\ more[Nth(k) % capacity] = RowHeld(r, Nth(k))
                 /\ \A slot \in DOMAIN rows \ {Nth(k) % capacity} :
                      slot \in DOMAIN more /\ more[slot] = rows[slot]
  <2>1. Nth(k) \in 0 .. r.part.h - 1 /\ r.part.h \in Nat
    BY <1>1, <1>2 DEF size
  <2> QED
    BY <2>1, HoldingIs
<1>7. StaysIn(S, n, Step)
  <2> HIDE DEF S
  <2> QED
    BY <1>6 DEF StaysIn
<1>8. PICK s : Iterates(s, S, n, held, Step)
  <2> HIDE DEF Step, S
  <2>1. held \in S
    BY DEF S
  <2> QED
    BY <1>2, <1>7, <2>1, Recursion
<1>9. /\ s \in [0 .. n -> S] /\ s[0] = held
      /\ \A k \in 1 .. n : s[k] = Holding(r, s[k - 1], capacity, Nth(k))
  <2> HIDE DEF S
  <2>1. s \in [0 .. n -> S] /\ s[0] = held
    BY <1>8 DEF Iterates
  <2>2. ASSUME NEW k \in 1 .. n
        PROVE  s[k] = Holding(r, s[k - 1], capacity, Nth(k))
    <3>1. s[k] = Step[k][s[k - 1]]
      BY <1>8 DEF Iterates
    <3>2. s[k - 1] \in S
      BY <1>2, <2>1
    <3> QED
      BY <3>1, <3>2
  <2> QED
    BY <2>1, <2>2
<1> HIDE DEF Step, S
<1>10. s = Body(s)
  <2>1. \A k \in 0 .. n : k = 0 \/ k \in 1 .. n
    BY <1>2
  <2>2. \A k \in 0 .. n : s[k] = Body(s)[k]
    BY <1>9, <2>1
  <2>3. s = [k \in 0 .. n |-> s[k]]
    BY <1>9
  <2> QED
    BY <2>2, <2>3
<1>11. t = Body(t)
  <2> HIDE DEF Body
  <2> QED
    BY <1>10
<1> HIDE DEF t
<1> DEFINE Holds(rows, k) == Nth(k) % capacity \in DOMAIN rows
                             /\ rows[Nth(k) % capacity] = RowHeld(r, Nth(k))
           T == {k \in 0 .. n : t[k] = s[k] /\ \A j \in 1 .. k : Holds(s[k], j)}
<1>12. 0 \in T
  BY <1>2, <1>9, <1>11
<1>13. ASSUME NEW k \in 0 .. n - 1, k \in T
       PROVE  k + 1 \in T
  <2>1. k + 1 \in 1 .. n /\ k + 1 \in 0 .. n /\ (k + 1) - 1 = k /\ k \in Nat /\ k \in 0 .. n
    BY <1>2
  <2>2. t[k] = s[k] /\ \A j \in 1 .. k : Holds(s[k], j)
    BY <1>13
  <2>3. t[k + 1] = Holding(r, t[k], capacity, Nth(k + 1))
    BY <1>11, <2>1
  <2>4. s[k + 1] = Holding(r, s[k], capacity, Nth(k + 1)) /\ s[k] \in S
    BY <1>9, <2>1
  <2>5. /\ Holds(s[k + 1], k + 1)
        /\ \A slot \in DOMAIN s[k] \ {Nth(k + 1) % capacity} :
             slot \in DOMAIN s[k + 1] /\ s[k + 1][slot] = s[k][slot]
    BY <1>6, <2>1, <2>4
  <2>6. ASSUME NEW j \in 1 .. k + 1
        PROVE  Holds(s[k + 1], j)
    <3>1. CASE j = k + 1
      BY <2>5, <3>1
    <3>2. CASE j # k + 1
      <4>1. j \in 1 .. k /\ j \in 1 .. n
        <5>1. n \in Nat
          BY <1>2
        <5> QED
          BY <2>1, <3>2, <5>1
      <4>2. Holds(s[k], j)
        BY <2>2, <4>1
      <4>3. CASE Nth(j) % capacity = Nth(k + 1) % capacity
        <5>1. Nth(j) = Nth(k + 1)
          BY <1>5, <2>1, <4>1, <4>3
        <5> QED
          BY <2>5, <5>1
      <4>4. CASE Nth(j) % capacity # Nth(k + 1) % capacity
        BY <2>5, <4>2, <4>4
      <4> QED
        BY <4>3, <4>4
    <3> QED
      BY <3>1, <3>2
  <2> QED
    BY <2>1, <2>2, <2>3, <2>4, <2>6
<1>14. n \in T
  <2> HIDE DEF T
  <2>1. n \in 0 .. n
    BY <1>2
  <2> QED
    BY <1>2, <1>12, <1>13, <2>1, Induction
<1>15. t[n] \in S /\ \A k \in 1 .. n : t[n][Nth(k) % capacity] = RowHeld(r, Nth(k))
  <2>1. n \in 0 .. n
    BY <1>2
  <2> QED
    BY <1>9, <1>14, <2>1
<1> QED
  BY <1>4, <1>15 DEF entry, n, size, Nth, S

(* A number divided by another and rounded is a whole number.               *)
LEMMA RoundedIsWhole ==
  ASSUME NEW a \in Int, NEW b \in Int \ {0}
  PROVE  Rounded(a, b) \in Int
<1>1. CASE b < 0
  <2> DEFINE m == -(2*a + b)
             n == -(2*b)
  <2>1. m \in Int /\ n \in Nat \ {0}
    BY <1>1
  <2>2. Rounded(a, b) = m \div n
    BY <1>1 DEF Rounded
  <2> HIDE DEF m, n
  <2> QED
    BY <2>1, <2>2, QuotientAndRest
<1>2. CASE b > 0
  <2> DEFINE m == 2*a + b
             n == 2*b
  <2>1. m \in Int /\ n \in Nat \ {0}
    BY <1>2
  <2>2. Rounded(a, b) = m \div n
    BY <1>2 DEF Rounded
  <2> HIDE DEF m, n
  <2> QED
    BY <2>1, <2>2, QuotientAndRest
<1> QED
  BY <1>1, <1>2

(* What the reference computes is a pixel.                                  *)
LEMMA DirectIsPixel ==
  ASSUME NEW r, RequestOK(r), NEW x \in 0 .. r.w - 1, NEW y \in 0 .. r.h - 1
  PROVE  Direct(r, x, y) \in 0 .. 255
<1> DEFINE b == Divisor(Entry(r.kernel, r.part.h, r.h, y).weights)
           c == Divisor(Entry(r.kernel, r.part.w, r.w, x).weights)
<1>1. /\ Down(r, x, y) \in Int
      /\ Direct(r, x, y) = Clamp(Rounded(Down(r, x, y), b * c), 0, 255)
  BY DirectIs
<1>2. b \in Int \ {0} /\ c \in Int \ {0}
  <2>1. /\ r.kernel \in Kernels /\ r.w \in Sizes /\ r.h \in Sizes
        /\ r.part.w \in Sizes /\ r.part.h \in Sizes
    BY DEF RequestOK
  <2> QED
    BY <2>1, DivisorIs
<1> HIDE DEF b, c
<1>3. b * c \in Int \ {0}
  BY <1>2
<1> DEFINE v == Rounded(Down(r, x, y), b * c)
<1>4. v \in Int
  <2> DEFINE d == b * c
  <2>1. d \in Int \ {0}
    BY <1>3
  <2> HIDE DEF d
  <2>2. Rounded(Down(r, x, y), d) \in Int
    BY <1>1, <2>1, RoundedIsWhole
  <2> QED
    BY <2>2 DEF d
<1> HIDE DEF v
<1>5. Clamp(v, 0, 255) \in 0 .. 255
  BY <1>4 DEF Clamp, Smaller, Larger
<1> QED
  BY <1>1, <1>5 DEF v

(* A row made from the ring is what the reference computes, and the ring    *)
(* still holds rows of the source.                                          *)
LEMMA RowIsDirect ==
  ASSUME NEW r, RequestOK(r), NEW y \in 0 .. r.h - 1,
         NEW held \in Rings(r, RingCapacity(BuildFilterTable(r.kernel, r.part.h, r.h)))
  PROVE  LET entry == Entry(r.kernel, r.part.h, r.h, y)
             capacity == RingCapacity(BuildFilterTable(r.kernel, r.part.h, r.h))
             rows == RowsHeld(r, held, entry, capacity)
         IN  /\ rows \in Rings(r, capacity)
             /\ RowOf(r, rows, entry, capacity) = [x \in 1 .. r.w |-> Direct(r, x - 1, y)]
<1> DEFINE entry == Entry(r.kernel, r.part.h, r.h, y)
           capacity == RingCapacity(BuildFilterTable(r.kernel, r.part.h, r.h))
           rows == RowsHeld(r, held, entry, capacity)
           n == Len(entry.weights)
           size == r.part.h
           Nth(k) == SampleAt(entry, k, size)
           table == BuildFilterTable(r.kernel, r.part.w, r.w)
<1>1. /\ r.kernel \in Kernels /\ r.w \in Sizes /\ r.h \in Sizes
      /\ r.part.w \in Sizes /\ r.part.h \in Sizes /\ r.w \in Nat
  BY DEF RequestOK, Sizes
<1>2. capacity \in Nat \ {0} /\ n < capacity
  BY <1>1, RingHoldsAnEntry
<1> HIDE DEF capacity
<1>3. /\ rows \in Rings(r, capacity)
      /\ \A k \in 1 .. n : rows[Nth(k) % capacity] = RowHeld(r, Nth(k))
  <2>1. held \in Rings(r, capacity)
    BY DEF capacity
  <2> QED
    BY <1>2, <2>1, RowsHeldAre
<1>4. n \in Nat /\ \A k \in 1 .. n : Nth(k) \in 0 .. r.part.h - 1
  BY <1>1, EntryCovers
<1>5. \A x \in 1 .. r.w : table[x] = Entry(r.kernel, r.part.w, r.w, x - 1)
  BY DEF BuildFilterTable
<1> HIDE DEF rows
<1>6. RowOf(r, rows, entry, capacity)
        = [x \in 1 .. r.w |->
             Clamp(Rounded(Total([k \in 1 .. n |-> entry.weights[k] * rows[Nth(k) % capacity].row[x]]),
                           Divisor(entry.weights) * Divisor(table[x].weights)), 0, 255)]
  BY Zenon DEF RowOf, Weighted
<1> HIDE DEF table
<1>7. ASSUME NEW x \in 1 .. r.w
      PROVE  Clamp(Rounded(Total([k \in 1 .. n |-> entry.weights[k] * rows[Nth(k) % capacity].row[x]]),
                           Divisor(entry.weights) * Divisor(table[x].weights)), 0, 255)
               = Direct(r, x - 1, y)
  <2> DEFINE c == x - 1
  <2>1. c \in 0 .. r.w - 1
    BY <1>1
  <2>2. ASSUME NEW k \in 1 .. n
        PROVE  rows[Nth(k) % capacity].row[x] = AcrossAt(r, Nth(k), c)
    <3>1. rows[Nth(k) % capacity] = RowHeld(r, Nth(k)) /\ Nth(k) \in 0 .. r.part.h - 1
      BY <1>3, <1>4
    <3> DEFINE sy == Nth(k)
    <3> HIDE DEF sy, Nth
    <3>2. Across(r, sy) = [i \in 1 .. r.w |-> AcrossAt(r, sy, i - 1)]
      BY <3>1, AcrossIs DEF sy
    <3> QED
      BY <3>1, <3>2 DEF RowHeld, sy
  <2>3. Total([k \in 1 .. n |-> entry.weights[k] * rows[Nth(k) % capacity].row[x]]) = Down(r, c, y)
    <3> HIDE DEF c
    <3>1. [k \in 1 .. n |-> entry.weights[k] * rows[Nth(k) % capacity].row[x]]
            = [k \in 1 .. n |-> entry.weights[k] * AcrossAt(r, Nth(k), c)]
      BY <2>2
    <3>2. Down(r, c, y) = Total([k \in 1 .. n |-> entry.weights[k] * AcrossAt(r, Nth(k), c)])
      BY DEF Down
    <3> QED
      BY <3>1, <3>2
  <2>4. table[x] = Entry(r.kernel, r.part.w, r.w, c)
    BY <1>5
  <2> HIDE DEF c
  <2>5. Direct(r, c, y)
          = Clamp(Rounded(Down(r, c, y),
                          Divisor(entry.weights) * Divisor(Entry(r.kernel, r.part.w, r.w, c).weights)),
                  0, 255)
    BY <2>1, DirectIs
  <2> HIDE DEF entry, n, Nth
  <2>6. Clamp(Rounded(Total([k \in 1 .. n |-> entry.weights[k] * rows[Nth(k) % capacity].row[x]]),
                      Divisor(entry.weights) * Divisor(table[x].weights)), 0, 255) = Direct(r, c, y)
    BY <2>3, <2>4, <2>5
  <2> QED
    BY <2>6 DEF c
<1> QED
  BY <1>3, <1>6, <1>7 DEF rows, capacity

-----------------------------------------------------------------------------
(* A copy will do *)

(* Samples as far apart as they are wide weigh nothing; one weighs all.     *)
LEMMA WeightAlone ==
  ASSUME NEW kernel \in Kernels, NEW size \in Sizes, NEW d \in 0 .. size - 1
  PROVE  /\ WeightOf(kernel, size, size, d, d) \in Nat \ {0}
         /\ \A s \in Int \ {d} : WeightOf(kernel, size, size, d, s) = 0
<1>1. size \in Nat /\ size >= 1 /\ d \in Nat /\ Larger(size, size) = size
  BY DEF Sizes, Larger
<1> DEFINE v == 2 * size
<1>2. v \in Nat \ {0}
  BY <1>1
<1>3. ASSUME NEW s \in Int
      PROVE  WeightOf(kernel, size, size, d, s) = Filter(kernel, Magnitude(s - d) * v, v)
  <2> DEFINE m == s - d
  <2>1. m \in Int /\ (2*s + 1) * size - (2*d + 1) * size = m * v
    <3>1. (2*s + 1) * size - (2*d + 1) * size = ((2*s + 1) - (2*d + 1)) * size
      BY <1>1
    <3>2. (2*s + 1) - (2*d + 1) = 2 * m
      BY <1>1
    <3>3. (2 * m) * size = m * (2 * size)
      BY <1>1
    <3> QED
      BY <1>1, <3>1, <3>2, <3>3
  <2> HIDE DEF m, v
  <2>2. Magnitude(m * v) = Magnitude(m) * v
    <3>1. CASE m < 0
      <4>1. m * v < 0
        <5>1. m + 1 <= 0 /\ m + 1 \in Int
          BY <2>1, <3>1
        <5>2. (m + 1) * v <= 0 * v
          BY <1>2, <5>1, ProductsInOrder
        <5>3. (m + 1) * v = m * v + v /\ m * v \in Int
          BY <1>2, <2>1
        <5> QED
          BY <1>2, <5>2, <5>3
      <4> QED
        BY <1>2, <2>1, <3>1, <4>1 DEF Magnitude
    <3>2. CASE m >= 0
      <4>1. m * v >= 0
        BY <1>2, <2>1, <3>2
      <4> QED
        BY <1>2, <2>1, <3>2, <4>1 DEF Magnitude
    <3> QED
      BY <2>1, <3>1, <3>2
  <2>3. WeightOf(kernel, size, size, d, s) = Filter(kernel, Magnitude(m * v), v)
    BY <1>1, <2>1 DEF WeightOf, v
  <2> QED
    BY <2>2, <2>3 DEF m
<1> HIDE DEF v
<1>4. Filter(kernel, 0 * v, v) \in Nat \ {0}
  <2>1. 0 * v = 0 /\ (8 * 0) \div v = 0
    BY <1>2
  <2>2. Lobes[1] = 100
    BY DEF Lobes
  <2> QED
    BY <1>2, <2>1, <2>2 DEF Filter, FilterTriangle, FilterLanczos3, Larger, Kernels
<1>5. ASSUME NEW m \in Nat \ {0}
      PROVE  Filter(kernel, m * v, v) = 0
  <2>1. m * v \in Nat
    BY <1>2
  <2>2. CASE m >= Radius(kernel)
    <3>1. Radius(kernel) \in Int
      BY DEF Radius
    <3>2. Radius(kernel) * v <= m * v
      BY <1>2, <2>2, <3>1, ProductsInOrder
    <3> QED
      BY <1>2, <2>1, <3>2, FilterIs
  <2>3. CASE m < Radius(kernel)
    <3>1. kernel = "lanczos3" /\ m \in {1, 2}
      BY <2>3 DEF Radius, Kernels
    <3>2. (8 * (m * v)) \div v = 8 * m
      <4>1. 8 * (m * v) = (8 * m) * v + 0
        BY <1>2
      <4>2. 8 * m \in Int /\ 0 \in 0 .. v - 1
        BY <1>2
      <4>3. ((8 * m) * v + 0) \div v = 8 * m
        BY <1>2, <4>2, QuotientIs
      <4> QED
        BY <4>1, <4>3
    <3>3. Lobes[9] = 0 /\ Lobes[17] = 0
      BY DEF Lobes
    <3>4. m * v < 3 * v
      BY <1>2, <3>1
    <3>5. Filter(kernel, m * v, v) = Lobes[8 * m + 1]
      BY <1>2, <2>1, <3>1, <3>2, <3>4 DEF Filter, FilterLanczos3
    <3> QED
      BY <3>1, <3>3, <3>5
  <2> QED
    BY <2>2, <2>3 DEF Radius
<1>6. WeightOf(kernel, size, size, d, d) \in Nat \ {0}
  <2>1. d \in Int /\ Magnitude(d - d) = 0
    BY <1>1 DEF Magnitude
  <2>2. WeightOf(kernel, size, size, d, d) = Filter(kernel, Magnitude(d - d) * v, v)
    BY <1>3, <2>1
  <2> QED
    BY <1>4, <2>1, <2>2
<1>7. ASSUME NEW s \in Int \ {d}
      PROVE  WeightOf(kernel, size, size, d, s) = 0
  <2>1. Magnitude(s - d) \in Nat \ {0}
    BY <1>1 DEF Magnitude
  <2>2. WeightOf(kernel, size, size, d, s) = Filter(kernel, Magnitude(s - d) * v, v)
    BY <1>3
  <2> QED
    BY <1>5, <2>1, <2>2
<1> QED
  BY <1>6, <1>7

(* The sum of numbers all but one of which are nothing                      *)
LEMMA TotalOfOne ==
  ASSUME NEW n \in Nat, NEW f \in [1 .. n -> Int], NEW i \in 1 .. n,
         \A k \in 1 .. n : k # i => f[k] = 0
  PROVE  Total(f) = f[i]
<1> DEFINE a == i - 1
           b == n - i
           g == [k \in 1 .. 1 |-> f[a + k]]
<1>1. /\ a \in Nat /\ b \in Nat /\ a + (1 + b) = n /\ 1 \in Nat /\ a + 1 = i
      /\ \A k \in 1 .. n : k <= a \/ k > a + 1 => f[k] = 0
  OBVIOUS
<1>2. g[1] = f[i] /\ g \in [1 .. 0 + 1 -> Int]
  BY <1>1
<1> HIDE DEF a, b
<1>3. Total(f) = Total(g)
  <2> DEFINE one == 1
  <2>1. one \in Nat /\ one = 1
    OBVIOUS
  <2> HIDE DEF one
  <2>2. /\ f \in [1 .. a + (one + b) -> Int]
        /\ \A k \in 1 .. a + (one + b) : k <= a \/ k > a + one => f[k] = 0
    BY <1>1, <2>1
  <2>3. a \in Nat /\ b \in Nat
    BY <1>1
  <2> HIDE DEF g
  <2>4. Total(f) = Total([k \in 1 .. one |-> f[a + k]])
    BY <2>1, <2>2, <2>3, TotalOfPart, ZenonT(30)
  <2> QED
    BY <2>1, <2>4 DEF g
<1> HIDE DEF g
<1>4. Total(g) = Total([k \in 1 .. 0 |-> g[k]]) + g[0 + 1]
  BY <1>2, TotalOfOneMore
<1>5. Total([k \in 1 .. 0 |-> g[k]]) = 0
  <2>1. [k \in 1 .. 0 |-> g[k]] = [k \in 1 .. 0 |-> 0]
    OBVIOUS
  <2>2. Total([k \in 1 .. 0 |-> 0]) = 0 * 0
    BY 0 \in Int, 0 \in Nat, TotalOfSame
  <2> QED
    BY <2>1, <2>2
<1>6. g[0 + 1] = f[i] /\ f[i] \in Int
  BY <1>2
<1> QED
  BY <1>3, <1>4, <1>5, <1>6

(* Where a picture keeps its size, a sample counts alone.                   *)
LEMMA EntryAlone ==
  ASSUME NEW kernel \in Kernels, NEW size \in Sizes, NEW d \in 0 .. size - 1,
         NEW val \in [0 .. size - 1 -> Int]
  PROVE  LET entry == Entry(kernel, size, size, d)
             weight == WeightOf(kernel, size, size, d, d)
         IN  /\ Total([k \in 1 .. Len(entry.weights) |->
                         entry.weights[k] * val[SampleAt(entry, k, size)]]) = weight * val[d]
             /\ Divisor(entry.weights) = weight /\ weight \in Nat \ {0}
<1> DEFINE entry == Entry(kernel, size, size, d)
           weight == WeightOf(kernel, size, size, d, d)
           first == First(kernel, size, size, d)
           last == Last(kernel, size, size, d)
           n == last - first + 1
           f == [k \in 1 .. n |-> entry.weights[k] * val[SampleAt(entry, k, size)]]
           i == d - first + 1
<1>1. weight \in Nat \ {0} /\ \A s \in Int \ {d} : WeightOf(kernel, size, size, d, s) = 0
  BY WeightAlone
<1>2. size \in Nat /\ d \in Int
  BY DEF Sizes
<1>3. /\ first \in Int /\ last \in Int
      /\ \A s \in Int : s < first \/ s > last => WeightOf(kernel, size, size, d, s) = 0
  BY Reach
<1>4. first <= d /\ d <= last
  <2> HIDE DEF first, last
  <2> QED
    BY <1>1, <1>2, <1>3
<1>5. /\ entry.min = first /\ n \in Nat /\ Len(entry.weights) = n
      /\ entry.weights \in [1 .. n -> Int]
      /\ entry.weights = [k \in 1 .. n |-> WeightOf(kernel, size, size, d, entry.min + k - 1)]
  BY EntryIs
<1>6. \A k \in 1 .. n : SampleAt(entry, k, size) \in 0 .. size - 1
  BY <1>5, EntryCovers
<1> HIDE DEF entry, first, last
<1>7. i \in 1 .. n /\ first + i - 1 = d
  BY <1>2, <1>3, <1>4
<1>8. ASSUME NEW k \in 1 .. n
      PROVE  /\ entry.weights[k] = WeightOf(kernel, size, size, d, first + k - 1)
             /\ first + k - 1 \in Int /\ (k # i => first + k - 1 # d)
  BY <1>2, <1>3, <1>5
<1> HIDE DEF n, i, weight
<1>9. /\ entry.weights[i] = weight
      /\ \A k \in 1 .. n : k # i => entry.weights[k] = 0
  BY <1>1, <1>7, <1>8 DEF weight
<1>10. SampleAt(entry, i, size) = d
  BY <1>2, <1>5, <1>7 DEF SampleAt, Clamp, Smaller, Larger
<1>11. /\ f \in [1 .. n -> Int] /\ f[i] = weight * val[d]
       /\ \A k \in 1 .. n : k # i => f[k] = 0
  <2>1. ASSUME NEW k \in 1 .. n
        PROVE  entry.weights[k] \in Int /\ val[SampleAt(entry, k, size)] \in Int
    BY <1>5, <1>6
  <2>2. ASSUME NEW k \in 1 .. n
        PROVE  entry.weights[k] * val[SampleAt(entry, k, size)] \in Int
    BY <2>1
  <2>3. \A k \in 1 .. n : k # i => entry.weights[k] * val[SampleAt(entry, k, size)] = 0
    BY <1>9, <2>1
  <2> QED
    BY <1>7, <1>9, <1>10, <2>2, <2>3
<1> HIDE DEF f
<1>12. Total(f) = weight * val[d]
  BY <1>5, <1>7, <1>11, TotalOfOne
<1>13. Total(entry.weights) = weight
  <2> DEFINE g == entry.weights
  <2>1. n \in Nat /\ g \in [1 .. n -> Int] /\ g[i] = weight /\ \A k \in 1 .. n : k # i => g[k] = 0
    BY <1>5, <1>9
  <2> HIDE DEF g
  <2>2. Total(g) = weight
    BY <1>7, <2>1, TotalOfOne
  <2> QED
    BY <2>2 DEF g
<1>14. Divisor(entry.weights) = weight
  BY <1>1, <1>13 DEF Divisor, weight
<1> QED
  BY <1>1, <1>5, <1>12, <1>14 DEF entry, weight, f

(* A multiple divided is what it is a multiple of.                          *)
LEMMA RoundedOfMultiple ==
  ASSUME NEW c \in Nat \ {0}, NEW p \in Int
  PROVE  Rounded(c * p, c) = p
<1> DEFINE b == 2 * c
<1>1. b \in Nat \ {0} /\ c \in 0 .. b - 1
  OBVIOUS
<1>2. 2 * (c * p) + c = p * b + c
  OBVIOUS
<1>3. (p * b + c) \div b = p
  <2> HIDE DEF b
  <2> QED
    BY <1>1, QuotientIs
<1>4. Rounded(c * p, c) = (2 * (c * p) + c) \div b
  BY DEF Rounded
<1> HIDE DEF b
<1> QED
  BY <1>2, <1>3, <1>4

(* A picture that keeps its size keeps its pixels, so that a copy will do.  *)
LEMMA CopyIsDirect ==
  ASSUME NEW r, RequestOK(r), r.part.w = r.w, r.part.h = r.h,
         NEW x \in 0 .. r.w - 1, NEW y \in 0 .. r.h - 1
  PROVE  Direct(r, x, y) = PixelOf(r, y, x)
<1> DEFINE wx == WeightOf(r.kernel, r.w, r.w, x, x)
           wy == WeightOf(r.kernel, r.h, r.h, y, y)
           p == PixelOf(r, y, x)
           column == [sy \in 0 .. r.h - 1 |-> AcrossAt(r, sy, x)]
           line == [sx \in 0 .. r.w - 1 |-> PixelOf(r, y, sx)]
<1>1. r.kernel \in Kernels /\ r.w \in Sizes /\ r.h \in Sizes
  BY DEF RequestOK
<1>2. line \in [0 .. r.w - 1 -> Int] /\ line[x] = p /\ p \in 0 .. 255
  <2>1. \A sx \in 0 .. r.w - 1 : PixelOf(r, y, sx) \in 0 .. 255
    BY DEF RequestOK
  <2>2. \A sx \in 0 .. r.w - 1 : PixelOf(r, y, sx) \in Int
    BY <2>1
  <2> QED
    BY <2>1, <2>2
<1>3. column \in [0 .. r.h - 1 -> Int] /\ column[y] = AcrossAt(r, y, x)
  BY AcrossIs
<1> HIDE DEF line, column
<1>4. AcrossAt(r, y, x) = wx * p /\ wx \in Nat \ {0}
      /\ Divisor(Entry(r.kernel, r.part.w, r.w, x).weights) = wx
  <2> DEFINE entry == Entry(r.kernel, r.w, r.w, x)
  <2>1. /\ Total([k \in 1 .. Len(entry.weights) |->
                    entry.weights[k] * line[SampleAt(entry, k, r.w)]]) = wx * line[x]
        /\ Divisor(entry.weights) = wx /\ wx \in Nat \ {0}
    BY <1>1, <1>2, EntryAlone
  <2>2. ASSUME NEW k \in 1 .. Len(entry.weights)
        PROVE  line[SampleAt(entry, k, r.w)] = PixelOf(r, y, SampleAt(entry, k, r.w))
    <3>1. SampleAt(entry, k, r.w) \in 0 .. r.w - 1
      BY <1>1, EntryCovers
    <3> QED
      BY <3>1 DEF line
  <2>3. AcrossAt(r, y, x) = Total([k \in 1 .. Len(entry.weights) |->
                                     entry.weights[k] * PixelOf(r, y, SampleAt(entry, k, r.w))])
    BY DEF AcrossAt
  <2> HIDE DEF wx
  <2> QED
    BY <1>2, <2>1, <2>2, <2>3
<1>5. Down(r, x, y) = wy * (wx * p) /\ wy \in Nat \ {0}
      /\ Divisor(Entry(r.kernel, r.part.h, r.h, y).weights) = wy
  <2> DEFINE entry == Entry(r.kernel, r.h, r.h, y)
  <2>1. /\ Total([k \in 1 .. Len(entry.weights) |->
                    entry.weights[k] * column[SampleAt(entry, k, r.h)]]) = wy * column[y]
        /\ Divisor(entry.weights) = wy /\ wy \in Nat \ {0}
    BY <1>1, <1>3, EntryAlone
  <2>2. ASSUME NEW k \in 1 .. Len(entry.weights)
        PROVE  column[SampleAt(entry, k, r.h)] = AcrossAt(r, SampleAt(entry, k, r.h), x)
    <3>1. SampleAt(entry, k, r.h) \in 0 .. r.h - 1
      BY <1>1, EntryCovers
    <3> QED
      BY <3>1 DEF column
  <2>3. Down(r, x, y) = Total([k \in 1 .. Len(entry.weights) |->
                                 entry.weights[k] * AcrossAt(r, SampleAt(entry, k, r.h), x)])
    BY DEF Down
  <2> HIDE DEF wx, wy
  <2> QED
    BY <1>3, <1>4, <2>1, <2>2, <2>3
<1>6. Direct(r, x, y)
        = Clamp(Rounded(Down(r, x, y), Divisor(Entry(r.kernel, r.part.h, r.h, y).weights)
                                         * Divisor(Entry(r.kernel, r.part.w, r.w, x).weights)), 0, 255)
  BY DirectIs
<1> HIDE DEF wx, wy, p
<1> DEFINE c == wy * wx
<1>7. c \in Nat \ {0} /\ wy * (wx * p) = c * p
  <2>0. p \in Int
    BY <1>2
  <2>1. wx \in Nat /\ wy \in Nat /\ wx >= 1 /\ wy >= 1
    <3>1. wx \in Nat \ {0}
      BY <1>4
    <3>2. wy \in Nat \ {0}
      BY <1>5
    <3> QED
      BY <3>1, <3>2
  <2>2. wy * 1 <= wy * wx
    BY <2>1, ProductsInOrder
  <2>3. wy * wx \in Nat \ {0}
    BY <2>1, <2>2
  <2>4. wy * (wx * p) = wy * wx * p
    BY <2>0, <2>1
  <2> QED
    BY <2>3, <2>4
<1>8. Direct(r, x, y) = Clamp(Rounded(c * p, c), 0, 255)
  BY <1>4, <1>5, <1>6, <1>7
<1> HIDE DEF c
<1>9. Rounded(c * p, c) = p
  BY <1>2, <1>7, RoundedOfMultiple
<1>10. Clamp(p, 0, 255) = p
  <2>1. p \in 0 .. 255
    BY <1>2
  <2> QED
    BY <2>1 DEF Clamp, Smaller, Larger
<1> QED
  BY <1>8, <1>9, <1>10 DEF p

-----------------------------------------------------------------------------
(* Pixels *)

(* Every value of a picture is a pixel. *)
Grey(rows) == \A y \in DOMAIN rows : \A x \in DOMAIN rows[y] : rows[y][x] \in 0 .. 255

(* A darkened picture is a picture.                                         *)
LEMMA DarkenedIsGrey ==
  ASSUME NEW rows, Grey(rows), NEW hundredths \in Nat, NEW dimMillis \in 0 .. 1000
  PROVE  Grey(EnhanceBrightness(rows, hundredths, dimMillis))
<1> DEFINE new == EnhanceBrightness(rows, hundredths, dimMillis)
           value(p) == Smaller(255, (p * hundredths * (1000 - dimMillis)) \div 100000)
<1>1. new = [y \in DOMAIN rows |-> [x \in DOMAIN rows[y] |-> value(rows[y][x])]]
  BY DEF EnhanceBrightness
<1>2. ASSUME NEW p \in 0 .. 255
      PROVE  value(p) \in 0 .. 255
  <2> DEFINE a == p * hundredths * (1000 - dimMillis)
             q == a \div 100000
  <2>1. p * hundredths \in Nat /\ 1000 - dimMillis \in Nat
    OBVIOUS
  <2>2. a \in Nat
    <3> DEFINE b == p * hundredths
               c == 1000 - dimMillis
    <3>1. b \in Nat /\ c \in Nat
      BY <2>1
    <3> HIDE DEF b, c
    <3>2. b * c \in Nat
      BY <3>1
    <3> QED
      BY <3>2 DEF b, c
  <2> HIDE DEF a
  <2>3. q \in Nat
    BY <2>2
  <2> HIDE DEF q
  <2>4. Smaller(255, q) \in 0 .. 255
    BY <2>3 DEF Smaller
  <2> QED
    BY <2>4 DEF q, a
<1> HIDE DEF new, value
<1>3. ASSUME NEW y \in DOMAIN new, NEW x \in DOMAIN new[y]
      PROVE  new[y][x] \in 0 .. 255
  <2>1. y \in DOMAIN rows /\ x \in DOMAIN rows[y] /\ new[y][x] = value(rows[y][x])
    BY <1>1
  <2>2. rows[y][x] \in 0 .. 255
    BY <2>1 DEF Grey
  <2> DEFINE p == rows[y][x]
  <2>3. value(p) \in 0 .. 255
    <3> HIDE DEF p
    <3>1. p \in 0 .. 255
      BY <2>2 DEF p
    <3> QED
      BY <1>2, <3>1
  <2> QED
    BY <2>1, <2>3
<1> QED
  BY <1>3 DEF Grey, new

(* A blended pixel lies between the two it is made of.                      *)
LEMMA BlendIsBetween ==
  ASSUME NEW alpha \in 0 .. 255, NEW f \in 0 .. 255, NEW b \in 0 .. 255
  PROVE  /\ Blend(alpha, f, b) \in Smaller(b, f) .. Larger(b, f)
         /\ Blend(alpha, f, b) \in 0 .. 255
<1> DEFINE low == Smaller(b, f)
           high == Larger(b, f)
           t == alpha * f + (255 - alpha) * b + 128
           q == (t * 257 + 128) \div 65536
<1>1. /\ low \in 0 .. 255 /\ high \in 0 .. 255 /\ low <= f /\ low <= b /\ f <= high /\ b <= high
      /\ low <= high
  BY DEF Smaller, Larger
<1> HIDE DEF low, high
<1>2. t \in Int /\ 255 * low + 128 <= t /\ t <= 255 * high + 128
  <2>1. /\ alpha * low <= alpha * f /\ alpha * f <= alpha * high
        /\ (255 - alpha) * low <= (255 - alpha) * b /\ (255 - alpha) * b <= (255 - alpha) * high
    <3> DEFINE beta == 255 - alpha
    <3>1. alpha \in Nat /\ beta \in Nat /\ low \in Int /\ high \in Int /\ f \in Int /\ b \in Int
      BY <1>1
    <3> HIDE DEF beta
    <3>2. /\ alpha * low <= alpha * f /\ alpha * f <= alpha * high
          /\ beta * low <= beta * b /\ beta * b <= beta * high
      BY <1>1, <3>1, ProductsInOrder
    <3> QED
      BY <3>2 DEF beta
  <2>2. /\ alpha * low + (255 - alpha) * low = 255 * low
        /\ alpha * high + (255 - alpha) * high = 255 * high
        /\ {alpha * low, alpha * high, alpha * f, (255 - alpha) * b, (255 - alpha) * low,
            (255 - alpha) * high} \subseteq Int
    BY <1>1
  <2> QED
    BY <1>1, <2>1, <2>2
<1> HIDE DEF t
<1>3. q \in low .. high
  BY <1>1, <1>2
<1>4. Blend(alpha, f, b) \in {b, f, q}
  BY DEF Blend, t
<1> HIDE DEF q
<1>5. Blend(alpha, f, b) \in low .. high
  BY <1>1, <1>3, <1>4
<1> QED
  BY <1>1, <1>5 DEF low, high

(* How much of a front shows: nothing at its edges, all of its middle half  *)
LEMMA MaskIs ==
  ASSUME NEW n \in Sizes, NEW free \in Nat, NEW i \in 1 .. n
  PROVE  LET mask == FeatherMask(n, Feather(free, n))[i]
         IN  /\ mask \in 0 .. 255
             /\ i \in {1, n} => mask = 0
             /\ 4*i > n + 4 /\ 4*i <= 3*n => mask = 255
<1> DEFINE feather == Feather(free, n)
           denom == Larger(feather - 1, 1)
           mask == FeatherMask(n, feather)[i]
<1>1. n \in Nat /\ n >= 1 /\ i \in Nat /\ 1 <= i /\ i <= n
  BY DEF Sizes
<1>2. feather \in Nat /\ feather >= 1 /\ (feather = 1 \/ 4 * feather <= n)
  BY <1>1 DEF Feather, Larger, Smaller
<1> HIDE DEF feather
<1>3. denom \in Nat \ {0} /\ (feather = 1 => denom = 1) /\ (feather > 1 => denom = feather - 1)
  BY <1>2 DEF Larger
<1>4. mask = IF i > n - feather THEN (255 * (n - i)) \div denom
             ELSE IF i <= feather THEN (255 * (i - 1)) \div denom ELSE 255
  BY <1>1 DEF FeatherMask
<1> HIDE DEF mask, denom
<1>5. ASSUME NEW k \in Nat, k <= feather - 1
      PROVE  (255 * k) \div denom \in 0 .. 255 /\ (k = 0 => (255 * k) \div denom = 0)
  <2>1. k <= denom
    BY <1>2, <1>3, <1>5
  <2> DEFINE q == (255 * k) \div denom
  <2>2. q \in Int /\ denom * q <= 255 * k /\ 255 * k < denom * q + denom
    BY <1>3, DividedDown
  <2> HIDE DEF q
  <2>3. denom * q \in Int
    BY <1>3, <2>2
  <2>4. q >= 0
    <3> SUFFICES ASSUME q + 1 <= 0 PROVE FALSE
      BY <2>2
    <3>1. denom * (q + 1) <= denom * 0
      BY <1>3, <2>2, ProductsInOrder
    <3>2. denom * (q + 1) = denom * q + denom
      BY <1>3, <2>2
    <3> QED
      BY <1>3, <2>2, <2>3, <3>1, <3>2
  <2>5. q <= 255
    <3> SUFFICES ASSUME 256 <= q PROVE FALSE
      BY <2>2
    <3>1. denom * 256 <= denom * q
      BY <1>3, <2>2, ProductsInOrder
    <3> QED
      BY <1>3, <2>1, <2>2, <2>3, <3>1
  <2>6. k = 0 => q = 0
    <3> SUFFICES ASSUME k = 0, 1 <= q PROVE FALSE
      BY <2>2, <2>4
    <3>1. denom * 1 <= denom * q
      BY <1>3, <2>2, ProductsInOrder
    <3> QED
      BY <1>3, <2>2, <2>3, <3>1
  <2> QED
    BY <2>2, <2>4, <2>5, <2>6 DEF q
<1>6. CASE i > n - feather
  <2>1. n - i \in Nat /\ n - i <= feather - 1 /\ (i \in {1, n} => n - i = 0)
        /\ ~(4*i > n + 4 /\ 4*i <= 3*n)
    BY <1>1, <1>2, <1>6
  <2> DEFINE k == n - i
  <2> HIDE DEF k
  <2>2. (255 * k) \div denom \in 0 .. 255 /\ (k = 0 => (255 * k) \div denom = 0)
    BY <1>5, <2>1 DEF k
  <2>3. mask = (255 * k) \div denom
    BY <1>4, <1>6 DEF k
  <2>4. i \in {1, n} => k = 0
    BY <2>1 DEF k
  <2> QED
    BY <2>1, <2>2, <2>3, <2>4 DEF mask, feather
<1>7. CASE ~(i > n - feather) /\ i <= feather
  <2>1. i - 1 \in Nat /\ i - 1 <= feather - 1 /\ (i \in {1, n} => i - 1 = 0)
        /\ ~(4*i > n + 4 /\ 4*i <= 3*n)
    BY <1>1, <1>2, <1>7
  <2> DEFINE k == i - 1
  <2> HIDE DEF k
  <2>2. (255 * k) \div denom \in 0 .. 255 /\ (k = 0 => (255 * k) \div denom = 0)
    BY <1>5, <2>1 DEF k
  <2>3. mask = (255 * k) \div denom
    BY <1>4, <1>7 DEF k
  <2>4. i \in {1, n} => k = 0
    BY <2>1 DEF k
  <2> QED
    BY <2>1, <2>2, <2>3, <2>4 DEF mask, feather
<1>8. CASE ~(i > n - feather) /\ ~(i <= feather)
  <2>1. i \notin {1, n}
    BY <1>1, <1>2, <1>8
  <2>2. mask = 255
    BY <1>4, <1>8
  <2> QED
    BY <2>1, <2>2 DEF mask, feather
<1> QED
  BY <1>6, <1>7, <1>8

(* The pixels of a table                                                    *)
LEMMA GreyIs ==
  ASSUME NEW rows, NEW w, NEW h, Table(rows, w, h)
  PROVE  Grey(rows) <=> \A y \in 1 .. h, x \in 1 .. w : rows[y][x] \in 0 .. 255
<1>1. DOMAIN rows = 1 .. h
  BY DEF Table
<1>2. ASSUME NEW y \in 1 .. h
      PROVE  DOMAIN rows[y] = 1 .. w
  <2>1. rows[y] = [x \in 1 .. w |-> rows[y][x]]
    BY DEF Table
  <2> QED
    BY <2>1
<1>3. ASSUME Grey(rows), NEW y \in 1 .. h, NEW x \in 1 .. w
      PROVE  rows[y][x] \in 0 .. 255
  BY <1>1, <1>2, <1>3 DEF Grey
<1>4. ASSUME \A y \in 1 .. h, x \in 1 .. w : rows[y][x] \in 0 .. 255
      PROVE  Grey(rows)
  <2> SUFFICES ASSUME NEW y \in DOMAIN rows, NEW x \in DOMAIN rows[y]
               PROVE  rows[y][x] \in 0 .. 255
    BY DEF Grey
  <2>1. y \in 1 .. h
    BY <1>1
  <2>2. x \in 1 .. w
    BY <1>2, <2>1
  <2> QED
    BY <1>4, <2>1, <2>2
<1> QED
  BY <1>3, <1>4

(* A blurred picture has means for pixels.                                  *)
LEMMA BlurredIs ==
  ASSUME NEW rows, NEW w \in Sizes, NEW h \in Sizes, Table(rows, w, h), Grey(rows),
         NEW radius \in Nat
  PROVE  \A y \in 1 .. h, x \in 1 .. w :
           /\ BlurRows(rows, radius)[y][x] = Mean(rows[y], x, radius)
           /\ BlurRows(rows, radius)[y][x] \in 0 .. 255
<1>1. Len(rows) = h
  BY TableSizes
<1> SUFFICES ASSUME NEW y \in 1 .. h, NEW x \in 1 .. w
             PROVE  /\ BlurRows(rows, radius)[y][x] = Mean(rows[y], x, radius)
                    /\ BlurRows(rows, radius)[y][x] \in 0 .. 255
  OBVIOUS
<1> DEFINE line == rows[y]
<1>2. Line(line, w, 0, 255)
  <2>1. line = [i \in 1 .. w |-> line[i]]
    BY DEF Table
  <2>2. \A i \in 1 .. w : line[i] \in 0 .. 255
    BY GreyIs
  <2> HIDE DEF line
  <2> QED
    BY <2>1, <2>2 DEF Line
<1>3. BlurRows(rows, radius)[y] = BoxBlur(line, radius)
  BY <1>1 DEF BlurRows
<1> HIDE DEF line
<1>4. BoxBlur(line, radius)[x] = Mean(line, x, radius) /\ BoxBlur(line, radius)[x] \in 0 .. 255
  BY <1>2, BoxBlurIsMean
<1> QED
  BY <1>3, <1>4 DEF line

-----------------------------------------------------------------------------
(* What the pictures show *)

PixelsOK ==
  /\ \A name \in {"source", "low", "backdrop", "front"} : Grey(img[name])
  /\ step \notin {"start"} \cup Ended => job.dimMillis \in 0 .. 1000

Request == Resampling(step)
Capacity == RingCapacity(BuildFilterTable(Request.kernel, Request.part.h, Request.h))

(* The ring is empty but while rows are resampled; then it holds rows of    *)
(* what is resampled.                                                       *)
RingOK ==
  /\ step \in Resampled => ring = <<>> \/ (~IsIdentity(Request) /\ ring \in Rings(Request, Capacity))
  /\ step \notin Resampled \cup Ended => ring = <<>>

(* The pictures are pixels, and what is resampled is part of one.           *)
LEMMA RequestIs ==
  ASSUME IInv, PixelsOK, step \in Resampled
  PROVE  RequestOK(Request)
<1> USE DEF Early, Ended, Decoded, PastLow, PastBackdrop, PastFront, Writing
<1> DEFINE r == Request
<1>1. CallOK /\ r.w \in Sizes /\ r.h \in Sizes
  BY ResamplingIs DEF Request
<1>2. /\ SourceWidth \in Sizes /\ SourceHeight \in Sizes
      /\ TargetWidth \in Sizes /\ TargetHeight \in Sizes
      /\ LowWidth \in Sizes /\ LowHeight \in Sizes
  BY <1>1, SizesOK, LowSizesOK
<1>3. Table(img.source, SourceWidth, SourceHeight) /\ Grey(img.source)
  BY DEF IInv, PicturesOK, Resampled, PixelsOK
<1>4. Width(img.source) = SourceWidth /\ Height(img.source) = SourceHeight
  BY <1>2, <1>3, TableSizes
<1>5. ASSUME NEW w \in Sizes, NEW h \in Sizes, Table(r.from, w, h), Grey(r.from),
             r.kernel \in Kernels,
             r.part.w \in 1 .. w, r.part.h \in 1 .. h, r.part.x \in Nat, r.part.y \in Nat,
             r.part.x + r.part.w <= w, r.part.y + r.part.h <= h
      PROVE  RequestOK(r)
  <2>1. r.part.w \in Sizes /\ r.part.h \in Sizes /\ w \in Nat /\ h \in Nat
    BY <1>5 DEF Sizes
  <2>2. ASSUME NEW sy \in 0 .. r.part.h - 1, NEW sx \in 0 .. r.part.w - 1
        PROVE  PixelOf(r, sy, sx) \in 0 .. 255
    <3> HIDE DEF r
    <3>1. r.part.y + sy + 1 \in 1 .. h /\ r.part.x + sx + 1 \in 1 .. w
      BY <1>5, <2>1
    <3>2. \A y \in 1 .. h, x \in 1 .. w : r.from[y][x] \in 0 .. 255
      BY <1>5, GreyIs
    <3> QED
      BY <3>1, <3>2 DEF PixelOf
  <2> QED
    BY <1>1, <1>5, <2>1, <2>2 DEF RequestOK
<1>6. CASE step = "low"
  <2> DEFINE crop == Crop(SourceWidth, SourceHeight)
  <2>1. /\ r.from = img.source /\ r.part = Crop(Width(img.source), Height(img.source))
        /\ r.kernel = "triangle"
    BY <1>6 DEF Request, Resampling
  <2>2. r.part = crop
    BY <1>4, <2>1
  <2>3. /\ crop.w \in 1 .. SourceWidth /\ crop.h \in 1 .. SourceHeight
        /\ SourceWidth - crop.w - 2*crop.x \in {0, 1} /\ SourceHeight - crop.h - 2*crop.y \in {0, 1}
    BY <1>2, CropKeepsShape
  <2>4. crop.x \in Int /\ crop.y \in Int
    <3>1. crop.w \in Int /\ crop.h \in Int /\ SourceWidth \in Int /\ SourceHeight \in Int
      BY <1>2, <2>3 DEF Sizes
    <3>2. \/ crop.x = (SourceWidth - crop.w) \div 2 /\ crop.y = 0
          \/ crop.x = 0 /\ crop.y = (SourceHeight - crop.h) \div 2
      BY DEF Crop
    <3> QED
      BY <3>1, <3>2
  <2> HIDE DEF crop
  <2>5. /\ crop.x \in Nat /\ crop.y \in Nat
        /\ crop.x + crop.w <= SourceWidth /\ crop.y + crop.h <= SourceHeight
    BY <1>2, <2>3, <2>4 DEF Sizes
  <2> QED
    BY <1>2, <1>3, <1>5, <2>1, <2>2, <2>3, <2>5 DEF Kernels
<1>7. CASE step = "backdrop"
  <2>1. /\ r.from = img.low
        /\ r.part = [x |-> 0, y |-> 0, w |-> Width(img.low), h |-> Height(img.low)]
        /\ r.kernel = "triangle"
    BY <1>7 DEF Request, Resampling
  <2>2. Table(img.low, LowWidth, LowHeight) /\ Grey(img.low)
    BY <1>7 DEF IInv, PicturesOK, PixelsOK
  <2>3. Width(img.low) = LowWidth /\ Height(img.low) = LowHeight
    BY <1>2, <2>2, TableSizes
  <2>4. r.part.x = 0 /\ r.part.y = 0 /\ r.part.w = LowWidth /\ r.part.h = LowHeight
    BY <2>1, <2>3
  <2>5. LowWidth \in 1 .. LowWidth /\ LowHeight \in 1 .. LowHeight
        /\ 0 + LowWidth <= LowWidth /\ 0 + LowHeight <= LowHeight
    BY <1>2 DEF Sizes
  <2> HIDE DEF r
  <2> QED
    BY <1>2, <1>5, <2>1, <2>2, <2>4, <2>5 DEF Kernels, r
<1>8. CASE step = "front"
  <2>1. /\ r.from = img.source
        /\ r.part = [x |-> 0, y |-> 0, w |-> Width(img.source), h |-> Height(img.source)]
        /\ r.kernel = "lanczos3"
    BY <1>8 DEF Request, Resampling
  <2>2. r.part.x = 0 /\ r.part.y = 0 /\ r.part.w = SourceWidth /\ r.part.h = SourceHeight
    BY <1>4, <2>1
  <2>3. SourceWidth \in 1 .. SourceWidth /\ SourceHeight \in 1 .. SourceHeight
        /\ 0 + SourceWidth <= SourceWidth /\ 0 + SourceHeight <= SourceHeight
    BY <1>2 DEF Sizes
  <2> HIDE DEF r
  <2> QED
    BY <1>2, <1>3, <1>5, <2>1, <2>2, <2>3 DEF Kernels, r
<1> QED
  BY <1>6, <1>7, <1>8 DEF Resampled

ShownInv == IInv /\ PixelsOK /\ RingOK

(* No row is in an empty ring.                                              *)
LEMMA EmptyRing ==
  ASSUME NEW r, NEW capacity
  PROVE  <<>> \in Rings(r, capacity)
<1>1. <<>> \in [{} -> {RowHeld(r, sy) : sy \in 0 .. r.part.h - 1}]
  OBVIOUS
<1>2. {} \in SUBSET (0 .. capacity - 1)
  OBVIOUS
<1> QED
  BY <1>1, <1>2 DEF Rings

(* Steps that make no picture                                               *)
LEMMA PicturesStay ==
  ASSUME PixelsOK, RingOK, UNCHANGED <<job, img, ring>>,
         step \notin Resampled, step' \notin Resampled,
         step \in Ended => step' \in Ended,
         step = "start" => step' \in {"start"} \cup Ended \/ job.dimMillis \in 0 .. 1000
  PROVE  PixelsOK' /\ RingOK'
<1>1. PixelsOK'
  BY DEF PixelsOK, Ended
<1>2. RingOK'
  BY DEF RingOK
<1> QED
  BY <1>1, <1>2

(* A tool that stops in the middle leaves what it made.                     *)
LEMMA PicturesLeft ==
  ASSUME PixelsOK, UNCHANGED <<job, img>>, step' \in Ended
  PROVE  PixelsOK' /\ RingOK'
BY DEF PixelsOK, RingOK, Ended, Resampled

(* What is decoded is pixels.                                               *)
LEMMA DecodedIsGrey ==
  ASSUME ShownInv, Decode
  PROVE  PixelsOK' /\ RingOK'
<1> USE DEF Early, Ended, Decoded, PastLow, PastBackdrop, PastFront, Writing
<1>1. CallOK /\ step = "read" /\ step' = "low" /\ UNCHANGED <<job, ring>>
      /\ img' = [img EXCEPT !.source = job.picture]
  BY DEF ShownInv, IInv, JobOK, Decode
<1>2. Grey(job.picture)
  <2> DEFINE rows == job.picture
  <2>1. rows \in Seq(Seq(0 .. 255))
    BY <1>1, JobsAssumption DEF CallOK
  <2> HIDE DEF rows
  <2>2. DOMAIN rows = 1 .. Len(rows) /\ \A y \in 1 .. Len(rows) : rows[y] \in Seq(0 .. 255)
    BY <2>1, ElementOfSeq
  <2>3. ASSUME NEW y \in DOMAIN rows, NEW x \in DOMAIN rows[y]
        PROVE  rows[y][x] \in 0 .. 255
    <3> DEFINE line == rows[y]
    <3>1. line \in Seq(0 .. 255)
      BY <2>2
    <3> HIDE DEF line
    <3>2. DOMAIN line = 1 .. Len(line)
      BY <3>1
    <3>3. \A i \in 1 .. Len(line) : line[i] \in 0 .. 255
      BY <3>1, ElementOfSeq
    <3> QED
      BY <3>2, <3>3 DEF line
  <2>4. Grey(rows)
    BY <2>3 DEF Grey
  <2> QED
    BY <2>4 DEF rows
<1>3. {"source", "low", "backdrop", "front"} \subseteq DOMAIN img
  BY DEF ShownInv, IInv, PicturesOK
<1>4. PixelsOK'
  BY <1>1, <1>2, <1>3 DEF ShownInv, PixelsOK
<1>5. RingOK'
  BY <1>1 DEF ShownInv, RingOK, Resampled
<1> QED
  BY <1>4, <1>5

(* What is asked for is the same while its picture is made.                 *)
LEMMA SameRequest ==
  ASSUME IInv, step \in Resampled, step' = step, job' = job,
         NEW rows, img' = [img EXCEPT ![step] = rows]
  PROVE  Request' = Request /\ Capacity' = Capacity
<1>1. {"source", "low", "backdrop", "front"} \subseteq DOMAIN img
  BY DEF IInv, PicturesOK
<1>2. TargetWidth' = TargetWidth /\ TargetHeight' = TargetHeight
      /\ LowWidth' = LowWidth /\ LowHeight' = LowHeight
  BY SameSizes
<1>3. CASE step = "low"
  <2>1. img'.source = img.source
    BY <1>1, <1>3
  <2>2. Crop(Width(img.source), Height(img.source))' = Crop(Width(img.source), Height(img.source))
    BY <1>2, <2>1 DEF Crop
  <2>3. Request' = Request
    BY <1>2, <1>3, <2>1, <2>2 DEF Request, Resampling
  <2> QED
    BY <2>3 DEF Capacity
<1>4. CASE step = "backdrop"
  <2>1. img'.low = img.low
    BY <1>1, <1>4
  <2>2. Request' = Request
    BY <1>2, <1>4, <2>1 DEF Request, Resampling
  <2> QED
    BY <2>2 DEF Capacity
<1>5. CASE step = "front"
  <2>1. img'.source = img.source
    BY <1>1, <1>5
  <2>2. FrontSize(Width(img.source), Height(img.source))'
          = FrontSize(Width(img.source), Height(img.source))
    BY <1>2, <2>1 DEF FrontSize
  <2>3. Request' = Request
    BY <1>2, <1>5, <2>1, <2>2 DEF Request, Resampling
  <2> QED
    BY <2>3 DEF Capacity
<1> QED
  BY <1>3, <1>4, <1>5 DEF Resampled

(* With one picture replaced by pixels, all are pixels.                     *)
LEMMA OnePictureIsGrey ==
  ASSUME ShownInv, step \notin {"start"} \cup Ended, job' = job,
         NEW name \in {"source", "low", "backdrop", "front"}, NEW rows, Grey(rows),
         img' = [img EXCEPT ![name] = rows]
  PROVE  PixelsOK'
<1>1. {"source", "low", "backdrop", "front"} \subseteq DOMAIN img
  BY DEF ShownInv, IInv, PicturesOK
<1>2. PixelsOK
  BY DEF ShownInv
<1>3. ASSUME NEW other \in {"source", "low", "backdrop", "front"}
      PROVE  Grey(img'[other])
  <2>1. CASE other = name
    <3>1. img'[other] = rows
      BY <1>1, <2>1
    <3> QED
      BY <3>1
  <2>2. CASE other # name
    <3>1. img'[other] = img[other]
      BY <1>1, <2>2
    <3>2. Grey(img[other])
      BY <1>2 DEF PixelsOK
    <3> QED
      BY <3>1, <3>2
  <2> QED
    BY <2>1, <2>2
<1>4. job'.dimMillis \in 0 .. 1000
  BY <1>2 DEF PixelsOK
<1> QED
  BY <1>3, <1>4 DEF PixelsOK

(* A picture that is copied is one that is there.                           *)
LEMMA CopiedIsGrey ==
  ASSUME ShownInv, ResampleCopy
  PROVE  PixelsOK' /\ RingOK'
<1>1. /\ step \in Resampled /\ img' = [img EXCEPT ![step] = Request.from]
      /\ step' = AfterResampling(step) /\ UNCHANGED <<job, ring>> /\ IsIdentity(Request)
  BY DEF ResampleCopy, Resampled, Request
<1>2. Request.from \in {img.source, img.low}
  BY <1>1 DEF Request, Resampling, Resampled
<1>3. step \in {"low", "backdrop", "front"} /\ step \notin {"start"} \cup Ended
  BY <1>1 DEF Resampled, Ended
<1>4. step' \in {"blur", "darken source", "compose"}
  BY <1>1 DEF AfterResampling, Resampled
<1>5. Grey(Request.from)
  BY <1>2 DEF ShownInv, PixelsOK
<1>6. PixelsOK'
  BY <1>1, <1>3, <1>5, OnePictureIsGrey
<1>7. RingOK'
  BY <1>1, <1>4 DEF ShownInv, RingOK, Resampled
<1> QED
  BY <1>6, <1>7

(* The row that is resampled next is that of the reference.                 *)
LEMMA RowIs ==
  ASSUME ShownInv, ResampleRow
  PROVE  LET y == Len(img[step])
             row == [x \in 1 .. Request.w |-> Direct(Request, x - 1, y)]
         IN  /\ y \in 0 .. Request.h - 1 /\ Table(img[step], Request.w, y)
             /\ img' = [img EXCEPT ![step] = Append(img[step], row)]
             /\ step \in Resampled /\ job' = job
             /\ \/ step' = AfterResampling(step) /\ ring' = <<>>
                \/ step' = step /\ ring' \in Rings(Request, Capacity) /\ ~IsIdentity(Request)
<1> DEFINE old == img[step]
           y == Len(old)
           entry == Entry(Request.kernel, Request.part.h, Request.h, y)
           held == RowsHeld(Request, ring, entry, Capacity)
           row == RowOf(Request, held, entry, Capacity)
           last == y + 1 = Request.h
<1>1. step \in Resampled
  BY DEF ResampleRow, Resampled
<1>2. Request.w \in Sizes /\ Request.h \in Sizes /\ Growing(old, Request.w, Request.h)
  BY <1>1, ResamplingIs DEF ShownInv, Request
<1>3. PICK k \in 0 .. Request.h - 1 : Table(old, Request.w, k)
  BY <1>2 DEF Growing
<1>4. k \in Nat /\ Request.w \in Nat /\ y = k
  <2>1. k \in Nat /\ Request.w \in Nat
    BY <1>2, <1>3 DEF Sizes
  <2> QED
    BY <1>3, <2>1, TableIsSeq
<1>5. ring \in Rings(Request, Capacity)
  BY <1>1, EmptyRing DEF ShownInv, RingOK
<1>6. RequestOK(Request)
  BY <1>1, RequestIs DEF ShownInv
<1>7. /\ held \in Rings(Request, Capacity)
      /\ row = [x \in 1 .. Request.w |-> Direct(Request, x - 1, y)]
  <2>1. y \in 0 .. Request.h - 1
    BY <1>3, <1>4
  <2>2. ring \in Rings(Request, RingCapacity(BuildFilterTable(Request.kernel, Request.part.h, Request.h)))
    BY <1>5 DEF Capacity
  <2> HIDE DEF y
  <2> QED
    BY <1>6, <2>1, <2>2, RowIsDirect DEF Capacity
<1>8. /\ img' = [img EXCEPT ![step] = Append(@, row)]
      /\ step' = IF last THEN AfterResampling(step) ELSE step
      /\ ring' = IF last THEN <<>> ELSE held
      /\ job' = job /\ ~IsIdentity(Request)
  BY DEF ResampleRow, Request, Capacity
<1> HIDE DEF row, held, entry
<1>9. img' = [img EXCEPT ![step] = Append(old, row)]
  BY <1>8
<1> QED
  BY <1>1, <1>3, <1>4, <1>7, <1>8, <1>9

(* A row that is resampled is pixels, and the ring holds rows of the        *)
(* source.                                                                  *)
LEMMA RowIsGrey ==
  ASSUME ShownInv, ResampleRow
  PROVE  PixelsOK' /\ RingOK'
<1> DEFINE old == img[step]
           y == Len(old)
           row == [x \in 1 .. Request.w |-> Direct(Request, x - 1, y)]
           new == Append(old, row)
<1>1. /\ y \in 0 .. Request.h - 1 /\ Table(old, Request.w, y)
      /\ img' = [img EXCEPT ![step] = new]
      /\ step \in Resampled /\ job' = job
      /\ \/ step' = AfterResampling(step) /\ ring' = <<>>
         \/ step' = step /\ ring' \in Rings(Request, Capacity) /\ ~IsIdentity(Request)
  BY RowIs
<1>2. RequestOK(Request) /\ Request.w \in Nat
  <2>1. RequestOK(Request)
    BY <1>1, RequestIs DEF ShownInv
  <2> QED
    BY <2>1 DEF RequestOK, Sizes
<1>3. \A x \in 1 .. Request.w : row[x] \in 0 .. 255
  <2> SUFFICES ASSUME NEW x \in 1 .. Request.w PROVE Direct(Request, x - 1, y) \in 0 .. 255
    OBVIOUS
  <2>1. x - 1 \in 0 .. Request.w - 1
    BY <1>2
  <2> QED
    BY <1>1, <1>2, <2>1, DirectIsPixel
<1>4. row = [x \in 1 .. Request.w |-> row[x]]
  OBVIOUS
<1> HIDE DEF row
<1>5. step \in {"low", "backdrop", "front"} /\ step \notin {"start"} \cup Ended
  BY <1>1 DEF Resampled, Ended
<1>6. Grey(new)
  <2>1. Grey(old)
    BY <1>1 DEF ShownInv, PixelsOK, Resampled
  <2>2. y \in Nat
    BY <1>1
  <2> HIDE DEF y
  <2>3. /\ old \in Seq({old[i] : i \in 1 .. y}) /\ Len(old) = y
    <3> HIDE DEF old, new
    <3>1. old = [i \in 1 .. y |-> old[i]]
      BY <1>1 DEF Table
    <3> QED
      BY <2>2, <3>1, SomeSeq
  <2>4. Table(new, Request.w, y + 1)
    BY <1>1, <1>2, <1>4, <2>2, TableGrows
  <2>5. \A i \in 1 .. y, x \in 1 .. Request.w : old[i][x] \in 0 .. 255
    BY <1>1, <2>1, GreyIs
  <2> DEFINE S == {old[i] : i \in 1 .. y} \cup {row}
  <2>6. new[y + 1] = row /\ \A i \in 1 .. y : new[i] = old[i]
    <3>1. old \in Seq(S) /\ row \in S
      BY <2>3
    <3> HIDE DEF S
    <3> QED
      BY <2>2, <2>3, <3>1
  <2> HIDE DEF new, old
  <2>7. \A i \in 1 .. y + 1, x \in 1 .. Request.w : new[i][x] \in 0 .. 255
    <3> SUFFICES ASSUME NEW i \in 1 .. y + 1, NEW x \in 1 .. Request.w
                 PROVE  new[i][x] \in 0 .. 255
      OBVIOUS
    <3>1. CASE i = y + 1
      BY <1>3, <2>6, <3>1
    <3>2. CASE i \in 1 .. y
      BY <2>5, <2>6, <3>2
    <3>3. i = y + 1 \/ i \in 1 .. y
      BY <2>2
    <3> QED
      BY <3>1, <3>2, <3>3
  <2> QED
    BY <2>4, <2>7, GreyIs
<1> HIDE DEF new, y, old
<1>7. step' \in {step, AfterResampling(step)}
  BY <1>1
<1>8. AfterResampling(step) \in {"blur", "darken source", "compose"}
  BY <1>1 DEF AfterResampling, Resampled
<1>9. PixelsOK'
  BY <1>1, <1>5, <1>6, OnePictureIsGrey
<1>10. RingOK'
  <2>1. CASE step' = AfterResampling(step) /\ ring' = <<>>
    BY <1>8, <2>1 DEF RingOK, Resampled
  <2>2. CASE step' = step /\ ring' \in Rings(Request, Capacity) /\ ~IsIdentity(Request)
    <3>1. Request' = Request /\ Capacity' = Capacity
      BY <1>1, <2>2, SameRequest DEF ShownInv
    <3>2. ring' \in Rings(Request', Capacity') /\ ~IsIdentity(Request')
      BY <2>2, <3>1
    <3> QED
      BY <1>1, <2>2, <3>2 DEF RingOK
  <2> QED
    BY <1>1, <2>1, <2>2
<1> QED
  BY <1>9, <1>10

(* The radius of a half pass                                                *)
PassRadius == IF turn < 4 THEN BlurRadius - 1 ELSE BlurRadius

(* The radius is that of the box whose turn it is.                          *)
LEMMA PassRadiusIs ==
  ASSUME turn \in 0 .. 5, BlurRadius \in Nat, BlurRadius >= 2
  PROVE  PassRadius \in Nat /\ Boxes(BlurRadius)[turn \div 2 + 1] = PassRadius
<1>1. BlurRadius \in Sizes
  BY DEF Sizes
<1>2. /\ Boxes(BlurRadius)[1] = BlurRadius - 1 /\ Boxes(BlurRadius)[2] = BlurRadius - 1
      /\ Boxes(BlurRadius)[3] = BlurRadius
  BY <1>1, BoxesAre
<1>3. turn \div 2 + 1 = IF turn < 2 THEN 1 ELSE IF turn < 4 THEN 2 ELSE 3
  OBVIOUS
<1> QED
  BY <1>2, <1>3 DEF PassRadius

(* The blur has a radius.                                                   *)
LEMMA BlurRadiusIs ==
  ASSUME CallOK
  PROVE  BlurRadius \in Nat /\ BlurRadius >= 2
<1>1. TargetWidth \in Nat
  BY SizesOK DEF Sizes
<1>2. BlurDivisor \in Nat \ {0}
  BY ArtworkAssumption
<1> DEFINE q == TargetWidth \div BlurDivisor
           p == q \div Downscale
<1>3. q \in Int
  BY <1>1, <1>2, QuotientAndRest
<1> HIDE DEF q
<1>4. p \in Int
  BY <1>3 DEF Downscale
<1>5. BlurRadius = Larger(2, p)
  BY DEF BlurRadius, q
<1> HIDE DEF p
<1> QED
  BY <1>4, <1>5 DEF Larger

(* A half pass of the blur makes means along the rows or the columns.       *)
LEMMA PassIs ==
  ASSUME ShownInv, Blur
  PROVE  \A y \in 1 .. LowHeight, x \in 1 .. LowWidth :
           /\ img'.low[y][x] = IF turn % 2 = 0 THEN Mean(img.low[y], x, PassRadius)
                               ELSE Mean([i \in 1 .. LowHeight |-> img.low[i][x]], y, PassRadius)
           /\ img'.low[y][x] \in 0 .. 255
<1> USE DEF Early, Ended, Decoded, PastLow, PastBackdrop, PastFront, Writing
<1> DEFINE radius == Boxes(BlurRadius)[turn \div 2 + 1]
           low == img.low
           new == IF turn % 2 = 0 THEN BlurRows(low, radius)
                  ELSE Transposed(BlurRows(Transposed(low), radius))
<1>1. CallOK /\ step = "blur" /\ turn \in 0 .. 5
  BY DEF ShownInv, IInv, JobOK, TurnOK, Blur
<1>2. PassRadius \in Nat /\ radius = PassRadius
  BY <1>1, BlurRadiusIs, PassRadiusIs
<1>3. LowWidth \in Sizes /\ LowHeight \in Sizes
  BY <1>1, LowSizesOK
<1>4. Table(low, LowWidth, LowHeight) /\ Grey(low)
  BY <1>1 DEF ShownInv, IInv, PicturesOK, PixelsOK
<1>5. img'.low = new
  <2>1. img' = [img EXCEPT !.low = new]
    BY DEF Blur
  <2>2. "low" \in DOMAIN img
    BY DEF ShownInv, IInv, PicturesOK
  <2> HIDE DEF new
  <2> QED
    BY <2>1, <2>2
<1> HIDE DEF radius, low
<1> SUFFICES ASSUME NEW y \in 1 .. LowHeight, NEW x \in 1 .. LowWidth
             PROVE  /\ new[y][x] = IF turn % 2 = 0 THEN Mean(low[y], x, radius)
                                   ELSE Mean([i \in 1 .. LowHeight |-> low[i][x]], y, radius)
                    /\ new[y][x] \in 0 .. 255
  <2> HIDE DEF new
  <2> QED
    BY <1>2, <1>5 DEF low
<1>6. CASE turn % 2 = 0
  <2>1. radius \in Nat
    BY <1>2
  <2>2. /\ BlurRows(low, radius)[y][x] = Mean(low[y], x, radius)
        /\ BlurRows(low, radius)[y][x] \in 0 .. 255
    BY <1>3, <1>4, <2>1, BlurredIs
  <2> QED
    BY <1>6, <2>2
<1>7. CASE turn % 2 # 0
  <2> DEFINE turned == Transposed(low)
             blurred == BlurRows(turned, radius)
  <2>1. /\ turned = [i \in 1 .. LowWidth |-> [j \in 1 .. LowHeight |-> low[j][i]]]
        /\ Table(turned, LowHeight, LowWidth)
    BY <1>3, <1>4, TransposedIsTable
  <2>2. Grey(turned)
    <3>1. \A i \in 1 .. LowWidth, j \in 1 .. LowHeight : low[j][i] \in 0 .. 255
      BY <1>4, GreyIs
    <3>2. \A i \in 1 .. LowWidth, j \in 1 .. LowHeight : turned[i][j] \in 0 .. 255
      BY <2>1, <3>1
    <3> HIDE DEF turned
    <3> QED
      BY <2>1, <3>2, GreyIs, Zenon
  <2> HIDE DEF turned
  <2>3. Table(blurred, LowHeight, LowWidth)
    BY <1>3, <2>1, BlurKeepsTable
  <2>4. blurred[x][y] = Mean(turned[x], y, radius) /\ blurred[x][y] \in 0 .. 255
    <3>1. Table(turned, LowHeight, LowWidth) /\ radius \in Nat
      BY <1>2, <2>1
    <3>2. \A i \in 1 .. LowWidth, j \in 1 .. LowHeight :
            /\ BlurRows(turned, radius)[i][j] = Mean(turned[i], j, radius)
            /\ BlurRows(turned, radius)[i][j] \in 0 .. 255
      BY <1>3, <2>2, <3>1, BlurredIs
    <3> QED
      BY <3>2
  <2> HIDE DEF blurred
  <2>5. Transposed(blurred)[y][x] = blurred[x][y]
    <3>1. Transposed(blurred) = [j \in 1 .. LowHeight |-> [i \in 1 .. LowWidth |-> blurred[i][j]]]
      BY <1>3, <2>3, TransposedIsTable
    <3> QED
      BY <3>1
  <2>6. turned[x] = [i \in 1 .. LowHeight |-> low[i][x]]
    BY <2>1
  <2> QED
    BY <1>7, <2>4, <2>5, <2>6 DEF blurred, turned
<1> QED
  BY <1>6, <1>7

(* The blurred picture is pixels.                                           *)
LEMMA BlurredIsGrey ==
  ASSUME ShownInv, Blur \/ BlurLeftOut
  PROVE  PixelsOK' /\ RingOK'
<1> USE DEF Early, Ended, Decoded, PastLow, PastBackdrop, PastFront, Writing
<1>1. step = "blur" /\ step' \in {"blur", "darken low"} /\ UNCHANGED <<job, ring>>
      /\ \A name \in {"source", "backdrop", "front"} : img'[name] = img[name]
  <2>1. {"source", "low", "backdrop", "front"} \subseteq DOMAIN img
    BY DEF ShownInv, IInv, PicturesOK
  <2> QED
    BY <2>1 DEF Blur, BlurLeftOut
<1>2. Grey(img'.low)
  <2>1. CASE BlurLeftOut
    BY <2>1 DEF ShownInv, PixelsOK, BlurLeftOut
  <2>2. CASE Blur
    <3>1. Table(img'.low, LowWidth', LowHeight')
      <4>1. IInv'
        BY BlurKeeps DEF ShownInv
      <4> QED
        BY <1>1, <4>1 DEF IInv, PicturesOK
    <3>2. LowWidth' = LowWidth /\ LowHeight' = LowHeight
      BY <1>1, SameSizes
    <3>3. \A y \in 1 .. LowHeight, x \in 1 .. LowWidth : img'.low[y][x] \in 0 .. 255
      BY <2>2, PassIs
    <3>4. Table(img'.low, LowWidth, LowHeight)
      BY <3>1, <3>2
    <3> QED
      BY <3>3, <3>4, GreyIs
  <2> QED
    BY <2>1, <2>2
<1>3. PixelsOK'
  <2>1. /\ Grey(img'.source) /\ Grey(img'.backdrop) /\ Grey(img'.front)
        /\ job'.dimMillis \in 0 .. 1000
    BY <1>1 DEF ShownInv, PixelsOK
  <2> QED
    BY <1>2, <2>1 DEF PixelsOK
<1>4. RingOK'
  <2>1. ring' = <<>>
    BY <1>1 DEF ShownInv, RingOK, Resampled
  <2> QED
    BY <1>1, <2>1 DEF RingOK, Resampled
<1> QED
  BY <1>3, <1>4

(* The darkened picture is pixels; the ring is empty when the next is made. *)
LEMMA DarkenedIsShown ==
  ASSUME ShownInv, Darken
  PROVE  PixelsOK' /\ RingOK'
<1>1. /\ UNCHANGED <<job, ring>> /\ step \in {"darken low", "darken source"}
      /\ step' \in {"backdrop", "front"}
  BY DEF Darken
<1>2. job.dimMillis \in 0 .. 1000 /\ Grey(img.low) /\ Grey(img.source)
  <2>1. step \notin {"start"} \cup Ended
    BY <1>1 DEF Ended
  <2> QED
    BY <2>1 DEF ShownInv, PixelsOK
<1> DEFINE d == job.dimMillis
           ofLow == 45
           ofSource == 75
           low == EnhanceBrightness(img.low, ofLow, d)
           source == EnhanceBrightness(img.source, ofSource, d)
<1>3. img' = [img EXCEPT !.low = low] \/ img' = [img EXCEPT !.source = source]
  BY DEF Darken
<1>4. Grey(low) /\ Grey(source)
  <2>1. ofLow \in Nat /\ ofSource \in Nat /\ d \in 0 .. 1000
    BY <1>2
  <2> HIDE DEF d, ofLow, ofSource
  <2>2. Grey(low)
    BY <1>2, <2>1, DarkenedIsGrey, ZenonT(30)
  <2>3. Grey(source)
    BY <1>2, <2>1, DarkenedIsGrey, ZenonT(30)
  <2> QED
    BY <2>2, <2>3
<1> HIDE DEF low, source
<1>5. step \notin {"start"} \cup Ended /\ job' = job
  BY <1>1 DEF Ended
<1>6. PixelsOK'
  BY <1>3, <1>4, <1>5, OnePictureIsGrey
<1>7. RingOK'
  BY <1>1 DEF ShownInv, RingOK, Resampled, Ended
<1> QED
  BY <1>6, <1>7

(* How much of the front shows at a place of it                             *)
LEMMA MaskAtIs ==
  ASSUME NEW front, Width(front) \in Sizes, Height(front) \in Sizes,
         TargetWidth \in Sizes, TargetHeight \in Sizes,
         Width(front) <= TargetWidth, Height(front) <= TargetHeight,
         NEW x \in 1 .. Width(front), NEW y \in 1 .. Height(front)
  PROVE  LET mask == MaskAt(front, x, y)
             w == Width(front)
             h == Height(front)
             Middle(i, n) == 4*i > n + 4 /\ 4*i <= 3*n
         IN  /\ mask \in 0 .. 255
             /\ w < TargetWidth => /\ x \in {1, w} => mask = 0
                                   /\ Middle(x, w) => mask = 255
             /\ w = TargetWidth /\ h < TargetHeight => /\ y \in {1, h} => mask = 0
                                                       /\ Middle(y, h) => mask = 255
             /\ w = TargetWidth /\ h = TargetHeight => mask = 255
<1> DEFINE w == Width(front)
           h == Height(front)
           mask == MaskAt(front, x, y)
<1>1. w \in Nat /\ h \in Nat /\ TargetWidth \in Nat /\ TargetHeight \in Nat
  BY DEF Sizes
<1>2. w \in Sizes /\ h \in Sizes /\ w <= TargetWidth /\ h <= TargetHeight
      /\ x \in 1 .. w /\ y \in 1 .. h
  OBVIOUS
<1>3. mask = IF w < TargetWidth THEN FeatherMask(w, Feather(TargetWidth - w, w))[x]
             ELSE IF h < TargetHeight THEN FeatherMask(h, Feather(TargetHeight - h, h))[y]
             ELSE 255
  BY DEF MaskAt
<1> HIDE DEF w, h, mask
<1>4. CASE w < TargetWidth
  <2> DEFINE free == TargetWidth - w
  <2>1. free \in Nat
    BY <1>1, <1>4
  <2> HIDE DEF free
  <2>2. LET m == FeatherMask(w, Feather(free, w))[x]
        IN  /\ m \in 0 .. 255
            /\ x \in {1, w} => m = 0
            /\ 4*x > w + 4 /\ 4*x <= 3*w => m = 255
    BY <1>2, <2>1, MaskIs
  <2>3. mask = FeatherMask(w, Feather(free, w))[x]
    BY <1>3, <1>4 DEF free
  <2> QED
    BY <1>1, <1>4, <2>2, <2>3 DEF w, h, mask
<1>5. CASE ~(w < TargetWidth) /\ h < TargetHeight
  <2> DEFINE free == TargetHeight - h
  <2>1. free \in Nat
    BY <1>1, <1>5
  <2> HIDE DEF free
  <2>2. LET m == FeatherMask(h, Feather(free, h))[y]
        IN  /\ m \in 0 .. 255
            /\ y \in {1, h} => m = 0
            /\ 4*y > h + 4 /\ 4*y <= 3*h => m = 255
    BY <1>2, <2>1, MaskIs
  <2>3. mask = FeatherMask(h, Feather(free, h))[y]
    BY <1>3, <1>5 DEF free
  <2> QED
    BY <1>1, <1>5, <2>2, <2>3 DEF w, h, mask
<1>6. CASE ~(w < TargetWidth) /\ ~(h < TargetHeight)
  <2>1. mask = 255
    BY <1>3, <1>6
  <2> QED
    BY <1>1, <1>6, <2>1 DEF w, h, mask
<1> QED
  BY <1>4, <1>5, <1>6

(* The front as it is laid on the backdrop                                  *)
LEMMA FrontIs ==
  ASSUME ShownInv, step = "compose"
  PROVE  /\ Width(img.front) \in Sizes /\ Height(img.front) \in Sizes
         /\ TargetWidth \in Sizes /\ TargetHeight \in Sizes
         /\ Width(img.front) <= TargetWidth /\ Height(img.front) <= TargetHeight
         /\ PosX \in Nat /\ PosY \in Nat
         /\ PosX + Width(img.front) <= TargetWidth /\ PosY + Height(img.front) <= TargetHeight
         /\ turn \in 0 .. Height(img.front) - 1
         /\ Table(img.backdrop, TargetWidth, TargetHeight) /\ Grey(img.backdrop)
         /\ Table(img.front, Width(img.front), Height(img.front)) /\ Grey(img.front)
<1> USE DEF Early, Ended, Decoded, PastLow, PastBackdrop, PastFront, Writing
<1>1. CallOK
  BY DEF ShownInv, IInv, JobOK
<1>2. /\ Front.w \in 1 .. TargetWidth /\ Front.h \in 1 .. TargetHeight
      /\ Front.w \in Sizes /\ Front.h \in Sizes
      /\ TargetWidth \in Sizes /\ TargetHeight \in Sizes
  BY <1>1, FrontSizesOK, SizesOK
<1>3. /\ Table(img.backdrop, TargetWidth, TargetHeight) /\ Table(img.front, Front.w, Front.h)
      /\ turn \in 0 .. Front.h - 1 /\ Grey(img.backdrop) /\ Grey(img.front)
  BY DEF ShownInv, IInv, PicturesOK, TurnOK, PixelsOK
<1>4. Width(img.front) = Front.w /\ Height(img.front) = Front.h
  BY <1>2, <1>3, TableSizes
<1>5. /\ PosX \in Nat /\ PosY \in Nat
      /\ PosX + Front.w <= TargetWidth /\ PosY + Front.h <= TargetHeight
  BY <1>2, <1>4 DEF PosX, PosY, Sizes
<1> QED
  BY <1>2, <1>3, <1>4, <1>5

(* A row that is laid over the backdrop changes it where the front is, and  *)
(* there the pixels are blended.                                            *)
LEMMA LaidIs ==
  ASSUME ShownInv, ComposeRow, NEW y \in 1 .. TargetHeight, NEW x \in 1 .. TargetWidth
  PROVE  LET fx == x - PosX
             fy == y - PosY
         IN  img'.backdrop[y][x]
               = IF fy # turn + 1 \/ fx \notin 1 .. Width(img.front) THEN img.backdrop[y][x]
                 ELSE Blend(MaskAt(img.front, fx, fy), img.front[fy][fx], img.backdrop[y][x])
<1>1. step = "compose"
  BY DEF ComposeRow
<1>2. /\ TargetWidth \in Nat /\ TargetHeight \in Nat /\ PosX \in Nat /\ PosY \in Nat
      /\ Height(img.front) \in Nat /\ PosY + Height(img.front) <= TargetHeight
      /\ turn \in 0 .. Height(img.front) - 1
      /\ Table(img.backdrop, TargetWidth, TargetHeight)
  BY <1>1, FrontIs DEF Sizes
<1> DEFINE row == PosY + (turn + 1)
           line == [c \in 1 .. TargetWidth |->
                      IF c - PosX \in 1 .. Width(img.front)
                      THEN Blend(MaskAt(img.front, c - PosX, turn + 1),
                                 img.front[turn + 1][c - PosX], img.backdrop[row][c])
                      ELSE img.backdrop[row][c]]
<1>3. img' = [img EXCEPT !.backdrop[row] = line]
  BY Zenon DEF ComposeRow
<1>4. "backdrop" \in DOMAIN img
  BY DEF ShownInv, IInv, PicturesOK
<1>5. row \in 1 .. TargetHeight /\ (y = row <=> y - PosY = turn + 1)
  BY <1>2
<1>6. img.backdrop = [i \in 1 .. TargetHeight |-> img.backdrop[i]]
  BY <1>2 DEF Table
<1> HIDE DEF row, line
<1>7. img'.backdrop = [img.backdrop EXCEPT ![row] = line]
  BY <1>3, <1>4
<1>8. img'.backdrop[y] = IF y = row THEN line ELSE img.backdrop[y]
  BY <1>5, <1>6, <1>7
<1>9. line[x] = IF x - PosX \in 1 .. Width(img.front)
                THEN Blend(MaskAt(img.front, x - PosX, turn + 1),
                           img.front[turn + 1][x - PosX], img.backdrop[row][x])
                ELSE img.backdrop[row][x]
  BY DEF line
<1> QED
  BY <1>5, <1>8, <1>9

(* The front is laid without a seam.                                        *)
LEMMA LaidPixelIs ==
  ASSUME ShownInv, ComposeRow, NEW y \in 1 .. TargetHeight, NEW x \in 1 .. TargetWidth
  PROVE  LET w == Width(img.front)
             h == Height(img.front)
             Middle(i, n) == 4*i > n + 4 /\ 4*i <= 3*n
             fx == x - PosX
             fy == y - PosY
             old == img.backdrop[y][x]
             new == img'.backdrop[y][x]
             shown == img.front[fy][fx]
         IN  /\ new \in 0 .. 255
             /\ IF fy # turn + 1 \/ fx \notin 1..w THEN new = old
                ELSE /\ new \in Smaller(old, shown)..Larger(old, shown)
                     /\ w < TargetWidth /\ fx \in {1, w} => new = old
                     /\ w = TargetWidth /\ h < TargetHeight /\ fy \in {1, h} => new = old
                     /\ IF w < TargetWidth THEN Middle(fx, w) => new = shown
                        ELSE IF h < TargetHeight THEN Middle(fy, h) => new = shown
                        ELSE new = shown
<1> DEFINE w == Width(img.front)
           h == Height(img.front)
           fx == x - PosX
           fy == y - PosY
           old == img.backdrop[y][x]
           new == img'.backdrop[y][x]
           shown == img.front[fy][fx]
           mask == MaskAt(img.front, fx, fy)
<1>1. step = "compose"
  BY DEF ComposeRow
<1>2. /\ w \in Sizes /\ h \in Sizes /\ TargetWidth \in Sizes /\ TargetHeight \in Sizes
      /\ w <= TargetWidth /\ h <= TargetHeight /\ PosX \in Nat /\ PosY \in Nat
      /\ turn \in 0 .. h - 1
      /\ Table(img.backdrop, TargetWidth, TargetHeight) /\ Grey(img.backdrop)
      /\ Table(img.front, w, h) /\ Grey(img.front)
  BY <1>1, FrontIs
<1>3. old \in 0 .. 255
  BY <1>2, GreyIs
<1>4. new = IF fy # turn + 1 \/ fx \notin 1 .. w THEN old ELSE Blend(mask, shown, old)
  BY LaidIs
<1>5. CASE fy # turn + 1 \/ fx \notin 1 .. w
  <2> HIDE DEF fx, fy, old, new, shown, mask, w, h
  <2>1. new = old
    BY <1>4, <1>5
  <2> QED
    BY <1>3, <1>5, <2>1 DEF fx, fy, old, new, shown, w, h
<1>6. CASE fy = turn + 1 /\ fx \in 1 .. w
  <2>1. fy \in 1 .. h /\ fx \in 1 .. w
    BY <1>2, <1>6 DEF Sizes
  <2>2. shown \in 0 .. 255
    <3> HIDE DEF fx, fy
    <3> QED
      BY <1>2, <2>1, GreyIs
  <2>3. LET Middle(i, n) == 4*i > n + 4 /\ 4*i <= 3*n
        IN  /\ mask \in 0 .. 255
            /\ w < TargetWidth => /\ fx \in {1, w} => mask = 0
                                  /\ Middle(fx, w) => mask = 255
            /\ w = TargetWidth /\ h < TargetHeight => /\ fy \in {1, h} => mask = 0
                                                      /\ Middle(fy, h) => mask = 255
            /\ w = TargetWidth /\ h = TargetHeight => mask = 255
    <3> HIDE DEF fx, fy
    <3> QED
      BY <1>2, <2>1, MaskAtIs
  <2> HIDE DEF fx, fy, old, new, shown, mask, w, h
  <2>4. new = Blend(mask, shown, old)
    BY <1>4, <1>6
  <2>5. Blend(mask, shown, old) \in Smaller(old, shown) .. Larger(old, shown)
        /\ Blend(mask, shown, old) \in 0 .. 255
    <3>1. mask \in 0 .. 255
      BY <2>3
    <3> QED
      BY <1>3, <2>2, <3>1, BlendIsBetween
  <2>6. (mask = 0 => new = old) /\ (mask = 255 => new = shown)
    BY <2>4 DEF Blend
  <2>7. w \in Nat /\ h \in Nat /\ TargetWidth \in Nat /\ TargetHeight \in Nat
    BY <1>2 DEF Sizes
  <2>8. /\ new \in 0 .. 255
        /\ new \in Smaller(old, shown)..Larger(old, shown)
        /\ w < TargetWidth /\ fx \in {1, w} => new = old
        /\ w = TargetWidth /\ h < TargetHeight /\ fy \in {1, h} => new = old
        /\ IF w < TargetWidth THEN 4*fx > w + 4 /\ 4*fx <= 3*w => new = shown
           ELSE IF h < TargetHeight THEN 4*fy > h + 4 /\ 4*fy <= 3*h => new = shown
           ELSE new = shown
    BY <1>2, <2>3, <2>4, <2>5, <2>6, <2>7
  <2> QED
    BY <1>6, <2>8 DEF fx, fy, old, new, shown, w, h
<1> QED
  BY <1>5, <1>6

(* The composed picture is pixels.                                          *)
LEMMA ComposedIsGrey ==
  ASSUME ShownInv, ComposeRow
  PROVE  PixelsOK' /\ RingOK'
<1> USE DEF Early, Ended, Decoded, PastLow, PastBackdrop, PastFront, Writing
<1>1. step = "compose" /\ step' \in {"compose", "open"} /\ UNCHANGED <<job, ring>>
      /\ \A name \in {"source", "low", "front"} : img'[name] = img[name]
  <2>1. {"source", "low", "backdrop", "front"} \subseteq DOMAIN img
    BY DEF ShownInv, IInv, PicturesOK
  <2> QED
    BY <2>1 DEF ComposeRow
<1>2. Table(img'.backdrop, TargetWidth, TargetHeight)
  <2>1. IInv'
    BY ComposeRowKeeps DEF ShownInv
  <2>2. TargetWidth' = TargetWidth /\ TargetHeight' = TargetHeight
    BY <1>1, SameSizes
  <2>3. Table(img'.backdrop, TargetWidth', TargetHeight')
    BY <1>1, <2>1 DEF IInv, PicturesOK
  <2> QED
    BY <2>2, <2>3
<1>3. \A y \in 1 .. TargetHeight, x \in 1 .. TargetWidth : img'.backdrop[y][x] \in 0 .. 255
  BY LaidPixelIs
<1>4. Grey(img'.backdrop)
  BY <1>2, <1>3, GreyIs
<1>5. PixelsOK'
  BY <1>1, <1>4 DEF ShownInv, PixelsOK
<1>6. RingOK'
  BY <1>1 DEF ShownInv, RingOK, Resampled
<1> QED
  BY <1>5, <1>6

-----------------------------------------------------------------------------
(* The theorems about pixels *)

(* The pictures are pixels at all times, and the ring holds rows of what is *)
(* resampled.                                                               *)
THEOREM PicturesArePixels == Spec => []ShownInv
<1>1. Init => PixelsOK /\ RingOK
  <2> SUFFICES ASSUME Init PROVE PixelsOK /\ RingOK
    OBVIOUS
  <2>1. Grey(<<>>)
    BY DEF Grey
  <2>2. /\ img = [source |-> <<>>, low |-> <<>>, backdrop |-> <<>>, front |-> <<>>]
        /\ ring = <<>> /\ step = "start"
    BY DEF Init
  <2> QED
    BY <2>1, <2>2 DEF PixelsOK, RingOK, Resampled
<1>2. IInv /\ IInv' /\ PixelsOK /\ RingOK /\ [Next]_artVars => PixelsOK' /\ RingOK'
  <2> SUFFICES ASSUME IInv, PixelsOK, RingOK, [Next]_artVars
               PROVE  PixelsOK' /\ RingOK'
    OBVIOUS
  <2>0. ShownInv
    BY DEF ShownInv
  <2> USE DEF Resampled, Ended
  <2>1. CASE Start
    BY <2>1, PicturesStay DEF Start
  <2>2. CASE Stat \/ Read \/ Download
    <3>1. CASE Stat
      BY <3>1, PicturesStay DEF Stat
    <3>2. CASE Read
      BY <3>2, PicturesStay DEF Read
    <3>3. CASE Download
      BY <3>3, PicturesStay DEF Download
    <3> QED
      BY <2>2, <3>1, <3>2, <3>3
  <2>3. CASE Decode
    BY <2>0, <2>3, DecodedIsGrey
  <2>4. CASE ResampleCopy
    BY <2>0, <2>4, CopiedIsGrey
  <2>5. CASE ResampleRow
    BY <2>0, <2>5, RowIsGrey
  <2>6. CASE Blur \/ BlurLeftOut
    BY <2>0, <2>6, BlurredIsGrey
  <2>7. CASE Darken
    BY <2>0, <2>7, DarkenedIsShown
  <2>8. CASE ComposeRow
    BY <2>0, <2>8, ComposedIsGrey
  <2>9. CASE OpenTemp \/ Convert \/ Write \/ Rename
    <3>1. /\ UNCHANGED <<job, img, ring>>
          /\ step \in {"open", "convert", "write", "rename"}
          /\ step' \in {"convert", "write", "rename", "done"}
      BY <2>9 DEF OpenTemp, Convert, Write, Rename
    <3> QED
      BY <3>1, PicturesStay
  <2>10. CASE Fail \/ Killed
    BY <2>10, PicturesLeft DEF Fail, Killed
  <2>11. CASE UNCHANGED artVars
    <3>1. UNCHANGED <<job, step, img, ring>>
      BY <2>11 DEF artVars
    <3>2. PixelsOK'
      BY <3>1 DEF PixelsOK
    <3>3. Request' = Request /\ Capacity' = Capacity
      BY <3>1 DEF Request, Capacity, Resampling, Crop, FrontSize, TargetWidth, TargetHeight,
                  LowWidth, LowHeight
    <3>4. RingOK'
      BY <3>1, <3>3 DEF RingOK
    <3> QED
      BY <3>2, <3>4
  <2> QED
    BY <2>1, <2>2, <2>3, <2>4, <2>5, <2>6, <2>7, <2>8, <2>9, <2>10, <2>11 DEF Next
<1> QED
  BY <1>1, <1>2, InductiveInvariant, PTL DEF Spec, ShownInv

(* Every row that is resampled is the mean of the source under the kernel   *)
(* of its place, whatever rows the ring gave up: for every kernel, size and *)
(* number of slots.                                                         *)
THEOREM RowsFollowKernels == Spec => RowsAreKernels
<1> DEFINE Rows == (step \in {"low", "backdrop", "front"}) =>
                     LET r == Resampling(step)
                     IN \A y \in (Len(img[step]) + 1)..Len(img'[step]) :
                          img'[step][y] = [x \in 1..r.w |-> Direct(r, x - 1, y - 1)]
<1>1. ShownInv /\ [Next]_artVars => Rows
  <2> SUFFICES ASSUME ShownInv, [Next]_artVars, step \in Resampled,
                      NEW y \in (Len(img[step]) + 1) .. Len(img'[step])
               PROVE  img'[step][y] = [x \in 1 .. Request.w |-> Direct(Request, x - 1, y - 1)]
    BY DEF Resampled, Request
  <2>1. "low" \in DOMAIN img /\ "backdrop" \in DOMAIN img /\ "front" \in DOMAIN img
    BY DEF ShownInv, IInv, PicturesOK
  <2>2. /\ Request.w \in Sizes /\ Request.h \in Sizes /\ Request.w \in Nat /\ Request.h \in Nat
        /\ Growing(img[step], Request.w, Request.h)
    <3>1. Request.w \in Sizes /\ Request.h \in Sizes /\ Growing(img[step], Request.w, Request.h)
      BY ResamplingIs DEF ShownInv, Request
    <3> QED
      BY <3>1 DEF Sizes
  <2>3. PICK k \in 0 .. Request.h - 1 : Table(img[step], Request.w, k)
    BY <2>2 DEF Growing
  <2>4. k \in Nat /\ Len(img[step]) = k
    <3>1. k \in Nat
      BY <2>2, <2>3
    <3>2. Request.w \in Nat /\ Table(img[step], Request.w, k)
      BY <2>2, <2>3
    <3>3. Len(img[step]) = k
      BY <3>1, <3>2, TableIsSeq, Zenon
    <3> QED
      BY <3>1, <3>3
  <2>5. CASE ResampleRow
    <3> DEFINE row == [x \in 1 .. Request.w |-> Direct(Request, x - 1, k)]
               old == img[step]
    <3>1. img' = [img EXCEPT ![step] = Append(old, row)]
      BY <2>4, <2>5, RowIs
    <3>2. img'[step] = Append(old, row)
      BY <2>1, <3>1 DEF Resampled
    <3> HIDE DEF row, old
    <3> DEFINE S == {old[i] : i \in 1 .. k} \cup {row}
    <3>3. old \in Seq(S) /\ row \in S /\ Len(old) = k
      <4>1. old = [i \in 1 .. k |-> old[i]]
        BY <2>3 DEF Table, old
      <4>2. old \in [1 .. k -> S]
        BY <4>1
      <4> HIDE DEF S
      <4>3. old \in Seq(S) /\ Len(old) = k
        BY <2>4, <4>2, FunctionIsSeq
      <4> QED
        BY <4>3 DEF S
    <3> HIDE DEF S
    <3>4. Len(img'[step]) = k + 1 /\ img'[step][k + 1] = row
      BY <2>4, <3>2, <3>3
    <3>5. y = k + 1 /\ y - 1 = k
      BY <2>4, <3>4
    <3> QED
      BY <3>4, <3>5 DEF row
  <2>6. CASE ResampleCopy
    <3>1. /\ img'[step] = Request.from /\ IsIdentity(Request)
      BY <2>1, <2>6 DEF ResampleCopy, Request, Resampled
    <3>2. PICK w \in Sizes, h \in Sizes : Table(Request.from, w, h)
      BY ResamplingIs DEF ShownInv, Request
    <3>3. Width(Request.from) = w /\ Height(Request.from) = h /\ Len(Request.from) = h
      BY <3>2, TableSizes
    <3>4. /\ Request.part = [x |-> 0, y |-> 0, w |-> w, h |-> h]
          /\ Request.w = w /\ Request.h = h
      BY <3>1, <3>3 DEF IsIdentity
    <3>5. RequestOK(Request)
      BY RequestIs DEF ShownInv
    <3>6. h \in Nat /\ w \in Nat
      BY DEF Sizes
    <3>7. y \in 1 .. h /\ y - 1 \in 0 .. h - 1 /\ (y - 1) + 1 = y
      BY <2>4, <3>1, <3>3, <3>6
    <3>8. ASSUME NEW x \in 1 .. w
          PROVE  Direct(Request, x - 1, y - 1) = Request.from[y][x]
      <4>1. x - 1 \in 0 .. w - 1 /\ 0 + (x - 1) + 1 = x /\ 0 + (y - 1) + 1 = y
        BY <3>6, <3>7
      <4> DEFINE a == x - 1
                 b == y - 1
      <4>2. a \in 0 .. Request.w - 1 /\ b \in 0 .. Request.h - 1
        BY <3>4, <3>7, <4>1
      <4> HIDE DEF a, b
      <4>3. Direct(Request, a, b) = PixelOf(Request, b, a)
        BY <3>4, <3>5, <4>2, CopyIsDirect
      <4>4. PixelOf(Request, y - 1, x - 1) = Request.from[y][x]
        BY <3>4, <4>1 DEF PixelOf
      <4> QED
        BY <4>3, <4>4 DEF a, b
    <3>9. Request.from[y] = [x \in 1 .. w |-> Request.from[y][x]]
      BY <3>2, <3>7 DEF Table
    <3> QED
      BY <3>1, <3>4, <3>8, <3>9
  <2>7. CASE img' = img
    BY <2>4, <2>7
  <2> QED
    <3>1. ResampleRow \/ ResampleCopy \/ img' = img
      BY DEF Next, Start, Stat, Read, Decode, Blur, BlurLeftOut, Darken, ComposeRow, OpenTemp,
             Convert, Write, Rename, Fail, Killed, Download, artVars, Resampled
    <3> QED
      BY <2>5, <2>6, <2>7, <3>1
<1>2. [Next]_artVars /\ ShownInv => [Rows]_artVars
  BY <1>1
<1> QED
  BY <1>2, PicturesArePixels, PTL DEF Spec, RowsAreKernels

(* Each half pass of the blur makes the means over a window along the rows  *)
(* or the columns, for every picture, radius and window.                    *)
THEOREM BlurMakesMeans == Spec => BlurIsMean
<1> DEFINE Means ==
      step = "blur" /\ img' # img =>
        LET radius == IF turn < 4 THEN BlurRadius - 1 ELSE BlurRadius
            MeanOf(line, i) ==
              Rounded(Total([k \in 1..(2*radius + 1) |->
                               line[Clamp(i - radius + k - 1, 1, Len(line))]]), 2*radius + 1)
        IN \A y \in 1..LowHeight, x \in 1..LowWidth :
             img'.low[y][x] = IF turn % 2 = 0 THEN MeanOf(img.low[y], x)
                              ELSE MeanOf([i \in 1..LowHeight |-> img.low[i][x]], y)
<1>1. ShownInv /\ [Next]_artVars => Means
  <2> SUFFICES ASSUME ShownInv, [Next]_artVars, step = "blur", img' # img
               PROVE  \A y \in 1 .. LowHeight, x \in 1 .. LowWidth :
                        img'.low[y][x]
                          = IF turn % 2 = 0 THEN Mean(img.low[y], x, PassRadius)
                            ELSE Mean([i \in 1 .. LowHeight |-> img.low[i][x]], y, PassRadius)
    BY DEF Mean, PassRadius
  <2>1. Blur
    BY DEF Next, Start, Stat, Read, Decode, ResampleCopy, ResampleRow, BlurLeftOut, Darken,
           ComposeRow, OpenTemp, Convert, Write, Rename, Fail, Killed, Download, artVars
  <2> QED
    BY <2>1, PassIs
<1>2. [Next]_artVars /\ ShownInv => [Means]_artVars
  BY <1>1
<1> QED
  BY <1>2, PicturesArePixels, PTL DEF Spec, BlurIsMean

(* The front is laid over the backdrop without a seam, for every size of    *)
(* the target and of the front.                                             *)
THEOREM FrontHasNoSeam == Spec => LaidWithoutSeam
<1> DEFINE Laid ==
      step = "compose" /\ img' # img =>
       LET w == Width(img.front)
           h == Height(img.front)
           Middle(i, n) == 4*i > n + 4 /\ 4*i <= 3*n
       IN \A y \in 1..TargetHeight, x \in 1..TargetWidth :
            LET fx == x - PosX
                fy == y - PosY
                old == img.backdrop[y][x]
                new == img'.backdrop[y][x]
                shown == img.front[fy][fx]
            IN IF fy # turn + 1 \/ fx \notin 1..w THEN new = old
               ELSE /\ new \in Smaller(old, shown)..Larger(old, shown)
                    /\ w < TargetWidth /\ fx \in {1, w} => new = old
                    /\ w = TargetWidth /\ h < TargetHeight /\ fy \in {1, h} => new = old
                    /\ IF w < TargetWidth THEN Middle(fx, w) => new = shown
                       ELSE IF h < TargetHeight THEN Middle(fy, h) => new = shown
                       ELSE new = shown
<1>1. ShownInv /\ [Next]_artVars => Laid
  <2> SUFFICES ASSUME ShownInv, [Next]_artVars, step = "compose", img' # img
               PROVE  Laid
    OBVIOUS
  <2>1. ComposeRow
    BY DEF Next, Start, Stat, Read, Decode, ResampleCopy, ResampleRow, Blur, BlurLeftOut, Darken,
           OpenTemp, Convert, Write, Rename, Fail, Killed, Download, artVars
  <2> QED
    BY <2>1, LaidPixelIs
<1>2. [Next]_artVars /\ ShownInv => [Laid]_artVars
  BY <1>1
<1> QED
  BY <1>2, PicturesArePixels, PTL DEF Spec, LaidWithoutSeam
=============================================================================
