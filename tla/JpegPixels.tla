------------------------------ MODULE JpegPixels ------------------------------
(***************************************************************************)
(* From coefficients to pixels in the JPEG reader of the art tool          *)
(* (stb_image.h, stbi__idct_block, the resample_row functions and the      *)
(* colour conversion), in the integer arithmetic of the code.  A right     *)
(* shift is \div, which rounds down for negative numbers too.              *)
(***************************************************************************)
EXTENDS Loops

CONSTANT Unwritten   \* a sample nothing has been stored in yet

ClampByte(x) == Larger(0, Smaller(255, x))

-----------------------------------------------------------------------------
(* stbi__idct_block                                                          *)

\* One pass over eight numbers: scaled by 2^12, with bias added, then shifted.
Idct1d(s, bias, scale) ==
  LET e == (s[3] + s[7]) * 2217
      t0 == (s[1] + s[5]) * 4096
      t1 == (s[1] - s[5]) * 4096
      t2 == e - s[7] * 7567
      t3 == e + s[3] * 3135
      even == <<t0 + t3, t1 + t2, t1 - t2, t0 - t3>>
      p5 == (s[8] + s[4] + s[6] + s[2]) * 4816
      p1 == p5 - (s[8] + s[2]) * 3685
      p2 == p5 - (s[6] + s[4]) * 10497
      p3 == -((s[8] + s[4]) * 8034)
      p4 == -((s[6] + s[2]) * 1597)
      odd == <<s[2] * 6149 + p1 + p4, s[4] * 12586 + p2 + p3,
               s[6] * 8410 + p2 + p4, s[8] * 1223 + p1 + p3>>
      Out(i) == IF i <= 4 THEN (even[i] + odd[i] + bias) \div scale
                ELSE (even[9-i] - odd[9-i] + bias) \div scale
  IN <<Out(1), Out(2), Out(3), Out(4), Out(5), Out(6), Out(7), Out(8)>>

\* The eight numbers in a row of places, n apart.
Eight(Value(_), first, n) ==
  <<Value(first), Value(first + n), Value(first + 2*n), Value(first + 3*n),
    Value(first + 4*n), Value(first + 5*n), Value(first + 6*n), Value(first + 7*n)>>

\* What the second pass adds: half of 2^17, and 128 for the level shift.
Bias == 65536 + 128 * 2^17

\* Columns, then rows.  That a column of zeros is not computed makes no
\* difference: the first pass gives 4 * s[1] for it.
Idct(block) ==
  LET columns == Loop(8, <<>>, LAMBDA done, i:
                   Append(done, Idct1d(Eight(LAMBDA p: block[p], i - 1, 8), 512, 1024)))
      rows == Loop(8, <<>>, LAMBDA done, j:
                done \o Idct1d(Eight(LAMBDA c: columns[c][j], 1, 1), Bias, 2^17))
  IN [p \in 0..63 |-> ClampByte(rows[p + 1])]

-----------------------------------------------------------------------------
(* Rows of samples made wider and higher.  near is the row of samples the    *)
(* output row is closer to.  A row made of samples nothing was stored in     *)
(* holds what the memory held.                                               *)

\* (a * u + b * v + round) / whole
Mixed(a, u, b, v, round, whole) ==
  IF Unwritten \in {u, v} THEN Unwritten ELSE (a * u + b * v + round) \div whole

ResampleV2(near, far) ==
  [i \in DOMAIN near |-> Mixed(3, near[i], 1, far[i], 2, 4)]

\* The last pair is the exception: its first sample is taken nearer to the
\* sample before.
ResampleH2(near) ==
  LET w == Len(near)
      At(k) ==
        LET i == (k + 1) \div 2
        IN IF w = 1 \/ k = 1 \/ k = 2*w THEN near[i]
           ELSE IF k = 2*w - 1 THEN Mixed(3, near[w-1], 1, near[w], 2, 4)
           ELSE IF k % 2 = 1 THEN Mixed(3, near[i], 1, near[i-1], 2, 4)
           ELSE Mixed(3, near[i], 1, near[i+1], 2, 4)
  IN [k \in 1..(2*w) |-> At(k)]

ResampleHV2(near, far) ==
  LET w == Len(near)
      sum == [i \in 1..w |-> Mixed(3, near[i], 1, far[i], 0, 1)]
      At(k) ==
        LET i == (k + 1) \div 2
        IN IF k = 1 \/ k = 2*w THEN Mixed(1, sum[i], 0, 0, 2, 4)
           ELSE IF k % 2 = 1 THEN Mixed(3, sum[i], 1, sum[i-1], 8, 16)
           ELSE Mixed(3, sum[i], 1, sum[i+1], 8, 16)
  IN [k \in 1..(2*w) |-> At(k)]

ResampleGeneric(near, hs) == [k \in 1..(hs * Len(near)) |-> near[(k - 1) \div hs + 1]]

\* load_jpeg_image's choice among them, by the factors of a component.
UpsampleRow(hs, vs, near, far) ==
  CASE hs = 1 /\ vs = 1 -> near
    [] hs = 1 /\ vs = 2 -> ResampleV2(near, far)
    [] hs = 2 /\ vs = 1 -> ResampleH2(near)
    [] hs = 2 /\ vs = 2 -> ResampleHV2(near, far)
    [] OTHER -> ResampleGeneric(near, hs)

-----------------------------------------------------------------------------
(* Colours                                                                   *)

\* YCbCr_to_RGB_row: twelve bits of fraction, eight more below them.  A part
\* of green is rounded down to a multiple of 2^16 first.
YCbCrToRgb(y, pcb, pcr) ==
  LET base == y * 2^20 + 2^19
      cb == pcb - 128
      cr == pcr - 128
      down == ((-cb * 1410 * 256) \div 65536) * 65536
      Final(v) == ClampByte(v \div 2^20)
  IN <<Final(base + cr * 5743 * 256), Final(base - cr * 2925 * 256 + down),
       Final(base + cb * 7258 * 256)>>

\* blinn_8x8: x * y / 255, rounded
Blinn8x8(x, y) ==
  LET t == x * y + 128
  IN (t + t \div 256) \div 256

\* The pixel made of the samples of all components.
Pixel(samples, isRgb, transform) ==
  LET rgb == YCbCrToRgb(samples[1], samples[2], samples[3])
      Times(x) == Blinn8x8(x, samples[4])
  IN IF \E c \in DOMAIN samples : samples[c] = Unwritten THEN Unwritten
     ELSE IF Len(samples) = 1 THEN <<samples[1], samples[1], samples[1]>>
     ELSE IF Len(samples) = 3 THEN IF isRgb THEN SubSeq(samples, 1, 3) ELSE rgb
     ELSE CASE transform = 0 -> <<Times(samples[1]), Times(samples[2]), Times(samples[3])>>
            [] transform = 2 -> <<Times(255 - rgb[1]), Times(255 - rgb[2]), Times(255 - rgb[3])>>
            [] OTHER -> rgb
=============================================================================
