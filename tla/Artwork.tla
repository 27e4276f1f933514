-------------------------------- MODULE Artwork --------------------------------
(***************************************************************************)
(* The art tool, theater-art (pipeline.c, main.c): it reads a game's hero  *)
(* picture, composes a darkened and blurred backdrop with the picture on   *)
(* top of it, and writes the result where the dimming helper maps it.      *)
(*                                                                         *)
(* A picture is a sequence of rows of one channel: the tool treats its     *)
(* three channels alike and apart.  Arithmetic on floats is exact here;    *)
(* the Lanczos weights are sampled.  Memory that cannot be had, a file     *)
(* that cannot be used and the end of the tool's time are choices of the   *)
(* environment at each step.                                               *)
(***************************************************************************)
EXTENDS ImageFraming, FiniteSets, TLC

CONSTANTS
  Jobs,            \* what the tool may be called for
  MaxTotalPixels,  \* MAX_TOTAL_PIXELS
  ChunkPixels,     \* the pixels written at a time (chunk_bytes)
  BlurDivisor,     \* the target is this many times as wide as the blur's radius
  NoFile, Old      \* no file; the picture an earlier call made

Width(rows) == Len(rows[1])
Height(rows) == Len(rows)

ASSUME ArtworkAssumption ==
  {MaxTotalPixels, ChunkPixels, BlurDivisor} \subseteq Nat \ {0}

\* The arguments are numbers, and what is decoded is a picture.
ASSUME JobsAssumption ==
  \A j \in Jobs :
    /\ {j.width, j.height, j.dimMillis} \subseteq Int
    /\ j.picture \in Seq(Seq(0..255)) /\ j.picture # <<>> /\ j.picture[1] # <<>>
    /\ \A y \in 1..Height(j.picture) : Len(j.picture[y]) = Width(j.picture)

VARIABLES
  job,      \* the arguments, the source file, the picture in it, and what an
            \* earlier call left behind
  disk,     \* how much of the source file has been downloaded
  loading,  \* image_load: st_size and the bytes read
  step,     \* what the tool does next
  img,      \* the pictures being made: source, low, backdrop, front
  ring,     \* the rows resampled horizontally, by slot: [tag, row]
  turn,     \* the half passes blurred, the rows composed, the pixels written
  chunk,    \* pixels not written yet
  temp,     \* <target>.tmp
  target    \* the target

artVars == <<job, disk, loading, step, img, ring, turn, chunk, temp, target>>

\* A number divided by another, to the nearest whole number (round).
Rounded(a, b) ==
  IF b < 0 THEN (-(2*a + b)) \div (-(2*b)) ELSE (2*a + b) \div (2*b)

\* The sum of some numbers
Total(numbers) == Loop(Len(numbers), 0, LAMBDA sum, k: sum + numbers[k])

Clamp(v, low, high) == Smaller(Larger(v, low), high)

-----------------------------------------------------------------------------
(* Resampling                                                                *)

\* A distance is a fraction <<u, v>>; a weight is in parts of what weighs one.
FilterTriangle(u, v) == Larger(0, v - u)

\* filter_lanczos3 in hundredths, sampled at eighths
Lobes == <<100,97,89,76,61,44,27,12,0,-8,-13,-15,-14,-11,-7,-3,0,2,3,3,2,2,1,0,0>>
FilterLanczos3(u, v) == IF u >= 3*v THEN 0 ELSE Lobes[(8*u) \div v + 1]

Filter(kernel, u, v) ==
  IF kernel = "triangle" THEN FilterTriangle(u, v) ELSE FilterLanczos3(u, v)
Radius(kernel) == IF kernel = "triangle" THEN 1 ELSE 3

\* build_filter_table: the source samples under destination sample d, and the
\* weights of them.
Entry(kernel, src, dst, d) ==
  LET wide == Larger(src, dst)
      support == 2 * Radius(kernel) * wide
      first == ((2*d + 1) * src - support) \div (2*dst)
      last == -((-((2*d + 1) * src + support)) \div (2*dst))
      Distance(s) == LET n == (2*s + 1) * dst - (2*d + 1) * src IN IF n < 0 THEN -n ELSE n
  IN [min |-> first,
      weights |-> [k \in 1..(last - first + 1) |->
                     Filter(kernel, Distance(first + k - 1), 2*wide)]]

BuildFilterTable(kernel, src, dst) == [d \in 1..dst |-> Entry(kernel, src, dst, d - 1)]

\* The sample an entry's k-th weight is for; past an edge the one at the edge counts.
SampleAt(entry, k, size) == Clamp(entry.min + k - 1, 0, size - 1)

\* The weighted samples together
Weighted(entry, size, Value(_)) ==
  Total([k \in 1..Len(entry.weights) |-> entry.weights[k] * Value(SampleAt(entry, k, size))])

\* What the weights are divided by, so that they make one.  Weights that cancel,
\* which these filters never give, are left as they are.
Divisor(weights) == IF Total(weights) = 0 THEN 1 ELSE Total(weights)

MaxCount(table) == Loop(Len(table), 0, LAMBDA most, d: Larger(most, Len(table[d].weights)))

\* The slots of the ring: a power of two that holds the rows of every entry.
RingCapacity(table) ==
  LET ringSize == MaxCount(table) + 4
  IN Loop(ringSize, 1, LAMBDA capacity, k: IF capacity < ringSize THEN 2*capacity ELSE capacity)

\* Mutant: a slot in use is taken for the row that belongs there.
IsHeldAnyRow(held, slot, row) == slot \in DOMAIN held

IsHeld(held, slot, row) == slot \in DOMAIN held /\ held[slot].tag = row

-----------------------------------------------------------------------------
(* Blur, brightness, mask and blending                                       *)

\* The radii of the three boxes that stand for a Gaussian of a whole radius.
Boxes(radius) ==
  LET ideal == CHOOSE w \in 0..(3*radius) : w*w <= 4*radius*radius + 1
                                            /\ (w+1)*(w+1) > 4*radius*radius + 1
      wl == IF ideal % 2 = 0 THEN ideal - 1 ELSE ideal
      m == Rounded(3*wl*wl + 12*wl + 9 - 12*radius*radius, 4*wl + 4)
  IN [i \in 1..3 |-> IF i <= m THEN (wl - 1) \div 2 ELSE (wl + 1) \div 2]

\* The pixel at a place of a line; past an edge the pixel at the edge counts.
Nearest(line, i) == line[Clamp(i, 0, Len(line) - 1) + 1]

\* The sum of the window around the first pixel, which counts for those before it
FirstSum(line, radius) ==
  (radius + 1) * line[1] + Total([i \in 1..radius |-> Nearest(line, i)])

\* Mutant: the value that leaves the window is not the one that was added first.
SumsLate(line, radius) ==
  LET sum[i \in 0..(Len(line) - 1)] ==
        IF i = 0 THEN FirstSum(line, radius)
        ELSE sum[i-1] + Nearest(line, i + radius) - Nearest(line, i - radius)
  IN sum

\* A running sum over a window around each pixel
Sums(line, radius) ==
  LET sum[i \in 0..(Len(line) - 1)] ==
        IF i = 0 THEN FirstSum(line, radius)
        ELSE sum[i-1] + Nearest(line, i + radius) - Nearest(line, i - 1 - radius)
  IN sum

\* box_blur_1d on one line
BoxBlur(line, radius) ==
  [i \in 1..Len(line) |-> Rounded(Sums(line, radius)[i-1], 2*radius + 1)]

BlurRows(rows, radius) ==
  [y \in 1..Len(rows) |-> BoxBlur(rows[y], radius)]

Transposed(rows) == [x \in 1..Width(rows) |-> [y \in 1..Height(rows) |-> rows[y][x]]]

\* image_enhance_brightness, by a factor in hundredths and the dimming
EnhanceBrightness(rows, hundredths, dimMillis) ==
  [y \in DOMAIN rows |->
     [x \in DOMAIN rows[y] |->
        Smaller(255, (rows[y][x] * hundredths * (1000 - dimMillis)) \div 100000)]]

\* image_create_feather_mask: the second ramp is written over the first.
FeatherMask(length, feather) ==
  LET denom == Larger(feather - 1, 1)
  IN [i \in 1..length |->
        IF i > length - feather THEN (255 * (length - i)) \div denom
        ELSE IF i <= feather THEN (255 * (i - 1)) \div denom
        ELSE 255]

\* Mutant: the sum is shifted without being spread over the whole range.
BlendShifted(alpha, f, b) == (alpha * f + (255 - alpha) * b + 128) \div 256

\* The blend of image_composite_over
Blend(alpha, f, b) ==
  IF alpha = 0 THEN b ELSE IF alpha = 255 THEN f
  ELSE ((alpha * f + (255 - alpha) * b + 128) * 257 + 128) \div 65536

-----------------------------------------------------------------------------
(* The geometry of render_artwork_pipeline                                   *)

TargetWidth == job.width
TargetHeight == job.height

\* Mutant: the crop takes the shape of the target upside down.
CropTurned(w, h) ==
  IF w * TargetWidth > TargetHeight * h
  THEN LET cropW == Clamp(Rounded(h * TargetHeight, TargetWidth), 1, w)
       IN [x |-> (w - cropW) \div 2, y |-> 0, w |-> cropW, h |-> h]
  ELSE LET cropH == Clamp(Rounded(w * TargetWidth, TargetHeight), 1, h)
       IN [x |-> 0, y |-> (h - cropH) \div 2, w |-> w, h |-> cropH]

\* The part of the source that has the shape of the target
Crop(w, h) ==
  IF w * TargetHeight > TargetWidth * h
  THEN LET cropW == Clamp(Rounded(h * TargetWidth, TargetHeight), 1, w)
       IN [x |-> (w - cropW) \div 2, y |-> 0, w |-> cropW, h |-> h]
  ELSE LET cropH == Clamp(Rounded(w * TargetHeight, TargetWidth), 1, h)
       IN [x |-> 0, y |-> (h - cropH) \div 2, w |-> w, h |-> cropH]

Downscale == 8
LowWidth == Larger(1, TargetWidth \div Downscale)
LowHeight == Larger(1, TargetHeight \div Downscale)
BlurRadius == Larger(2, (TargetWidth \div BlurDivisor) \div Downscale)

\* The size of the whole source when it just fits the target
FrontSize(w, h) ==
  IF TargetWidth * h < TargetHeight * w
  THEN [w |-> TargetWidth, h |-> Clamp(Rounded(h * TargetWidth, w), 1, TargetHeight)]
  ELSE [w |-> Clamp(Rounded(w * TargetHeight, h), 1, TargetWidth), h |-> TargetHeight]

\* Half of the free space and an eighth of the picture, up to a quarter of it
Feather(free, size) ==
  Larger(1, Smaller(size \div 4, free \div 2 + size \div 8))

\* How much of the front shows at column x and row y of it
MaskAt(front, x, y) ==
  IF Width(front) < TargetWidth
  THEN FeatherMask(Width(front), Feather(TargetWidth - Width(front), Width(front)))[x]
  ELSE IF Height(front) < TargetHeight
  THEN FeatherMask(Height(front), Feather(TargetHeight - Height(front), Height(front)))[y]
  ELSE 255

\* What is resampled: part of a picture, to a size, with a filter.
Resampling(name) ==
  LET whole(rows) == [x |-> 0, y |-> 0, w |-> Width(rows), h |-> Height(rows)]
  IN CASE name = "low" ->
            [from |-> img.source, part |-> Crop(Width(img.source), Height(img.source)),
             w |-> LowWidth, h |-> LowHeight, kernel |-> "triangle"]
       [] name = "backdrop" ->
            [from |-> img.low, part |-> whole(img.low),
             w |-> TargetWidth, h |-> TargetHeight, kernel |-> "triangle"]
       [] name = "front" ->
            LET size == FrontSize(Width(img.source), Height(img.source))
            IN [from |-> img.source, part |-> whole(img.source),
                w |-> size.w, h |-> size.h, kernel |-> "lanczos3"]

-----------------------------------------------------------------------------
(* The steps of the tool.                                                    *)

Init ==
  /\ job \in Jobs
  /\ disk \in IF job.downloading THEN {0, Len(job.file)} ELSE {Len(job.file)}
  /\ loading = [size |-> 0, read |-> 0]
  /\ step = "start"
  /\ img = [source |-> <<>>, low |-> <<>>, backdrop |-> <<>>, front |-> <<>>]
  /\ ring = <<>> /\ turn = 0 /\ chunk = <<>>
  /\ temp = job.before /\ target = job.before

\* main, and the checks at the start of render_artwork_pipeline
MaxEdge == 16384
Start ==
  /\ step = "start"
  /\ job.width \in 1..MaxEdge /\ job.height \in 1..MaxEdge /\ job.dimMillis \in 0..1000
  /\ job.width * job.height <= MaxTotalPixels
  /\ step' = "stat"
  /\ UNCHANGED <<job, disk, loading, img, ring, turn, chunk, temp, target>>

\* image_load: the size is taken before the file is read.
Stat ==
  /\ step = "stat" /\ disk > 4
  /\ loading' = [size |-> disk, read |-> 0] /\ step' = "read"
  /\ UNCHANGED <<job, disk, img, ring, turn, chunk, temp, target>>

Read ==
  /\ step = "read" /\ loading.read < loading.size
  /\ disk > loading.read
  /\ loading' = [loading EXCEPT !.read = Smaller(loading.size, disk)]
  /\ UNCHANGED <<job, disk, step, img, ring, turn, chunk, temp, target>>

Decode ==
  /\ step = "read" /\ loading.read = loading.size
  /\ IsValidCompleteImage(Take(job.file, loading.size))
  /\ Width(job.picture) * Height(job.picture) <= MaxTotalPixels
  /\ img' = [img EXCEPT !.source = job.picture] /\ step' = "low"
  /\ UNCHANGED <<job, disk, loading, ring, turn, chunk, temp, target>>

AfterResampling(name) ==
  CASE name = "low" -> "blur" [] name = "backdrop" -> "darken source" [] name = "front" -> "compose"

IsIdentity(r) ==
  /\ r.part = [x |-> 0, y |-> 0, w |-> Width(r.from), h |-> Height(r.from)]
  /\ r.w = Width(r.from) /\ r.h = Height(r.from)

\* resample_separable_subregion: nothing to do but a copy
ResampleCopy ==
  /\ step \in {"low", "backdrop", "front"}
  /\ IsIdentity(Resampling(step))
  /\ img' = [img EXCEPT ![step] = Resampling(step).from] /\ step' = AfterResampling(step)
  /\ UNCHANGED <<job, disk, loading, ring, turn, chunk, temp, target>>

\* A source row resampled horizontally.  A resampled value stands for itself
\* divided by what the weights are divided by.
Across(r, sy) ==
  LET table == BuildFilterTable(r.kernel, r.part.w, r.w)
      row == r.from[r.part.y + sy + 1]
  IN [x \in 1..r.w |-> Weighted(table[x], r.part.w, LAMBDA sx: row[r.part.x + sx + 1])]

\* The ring once it holds a row
Holding(r, held, capacity, sy) ==
  LET slot == sy % capacity
  IN IF IsHeld(held, slot, sy) THEN held
     ELSE [s \in DOMAIN held \cup {slot} |->
             IF s = slot THEN [tag |-> sy, row |-> Across(r, sy)] ELSE held[s]]

\* The ring once it holds all the rows under an entry
RowsHeld(r, held, entry, capacity) ==
  Loop(Len(entry.weights), held,
       LAMBDA rows, k: Holding(r, rows, capacity, SampleAt(entry, k, r.part.h)))

\* The destination row of an entry, from the rows the ring holds
RowOf(r, held, entry, capacity) ==
  LET table == BuildFilterTable(r.kernel, r.part.w, r.w)
  IN [x \in 1..r.w |->
        Clamp(Rounded(Weighted(entry, r.part.h, LAMBDA sy: held[sy % capacity].row[x]),
                      Divisor(entry.weights) * Divisor(table[x].weights)), 0, 255)]

\* resample_separable_subregion: one row
ResampleRow ==
  /\ step \in {"low", "backdrop", "front"}
  /\ ~IsIdentity(Resampling(step))
  /\ LET r == Resampling(step)
         entry == Entry(r.kernel, r.part.h, r.h, Len(img[step]))
         capacity == RingCapacity(BuildFilterTable(r.kernel, r.part.h, r.h))
         held == RowsHeld(r, ring, entry, capacity)
         last == Len(img[step]) + 1 = r.h
     IN /\ img' = [img EXCEPT ![step] = Append(@, RowOf(r, held, entry, capacity))]
        /\ ring' = IF last THEN <<>> ELSE held
        /\ step' = IF last THEN AfterResampling(step) ELSE step
  /\ UNCHANGED <<job, disk, loading, turn, chunk, temp, target>>

\* image_gaussian_blur: each of three boxes along the rows, then the columns.
Blur ==
  /\ step = "blur"
  /\ LET radius == Boxes(BlurRadius)[turn \div 2 + 1]
     IN img' = [img EXCEPT !.low = IF turn % 2 = 0 THEN BlurRows(@, radius)
                                   ELSE Transposed(BlurRows(Transposed(@), radius))]
  /\ turn' = (turn + 1) % 6
  /\ step' = IF turn = 5 THEN "darken low" ELSE step
  /\ UNCHANGED <<job, disk, loading, ring, chunk, temp, target>>

\* Without memory the blur is left out and nobody is told.
BlurLeftOut ==
  /\ step = "blur" /\ turn = 0 /\ step' = "darken low"
  /\ UNCHANGED <<job, disk, loading, img, ring, turn, chunk, temp, target>>

Darken ==
  /\ \/ /\ step = "darken low" /\ step' = "backdrop"
        /\ img' = [img EXCEPT !.low = EnhanceBrightness(@, 45, job.dimMillis)]
     \/ /\ step = "darken source" /\ step' = "front"
        /\ img' = [img EXCEPT !.source = EnhanceBrightness(@, 75, job.dimMillis)]
  /\ UNCHANGED <<job, disk, loading, ring, turn, chunk, temp, target>>

PosX == (TargetWidth - Width(img.front)) \div 2
PosY == (TargetHeight - Height(img.front)) \div 2

\* image_composite_over, one row: the front never hangs over the backdrop.
ComposeRow ==
  /\ step = "compose"
  /\ LET y == turn + 1
         Pixel(x) == IF x - PosX \in 1..Width(img.front)
                     THEN Blend(MaskAt(img.front, x - PosX, y),
                                img.front[y][x - PosX], img.backdrop[PosY + y][x])
                     ELSE img.backdrop[PosY + y][x]
         last == y = Height(img.front)
     IN /\ img' = [img EXCEPT !.backdrop[PosY + y] = [x \in 1..TargetWidth |-> Pixel(x)]]
        /\ turn' = IF last THEN 0 ELSE y
        /\ step' = IF last THEN "open" ELSE step
  /\ UNCHANGED <<job, disk, loading, ring, chunk, temp, target>>

\* image_write_argb
OpenTemp ==
  /\ step = "open"
  /\ temp' = <<>> /\ step' = "convert"
  /\ UNCHANGED <<job, disk, loading, img, ring, turn, chunk, target>>

Pixels == TargetWidth * TargetHeight

RowByRow(rows) ==
  LET w == Width(rows)
  IN [i \in 1..(w * Height(rows)) |-> rows[(i - 1) \div w + 1][((i - 1) % w) + 1]]

\* The chunk is full, or it holds the last of the pixels.
FlushDue(done) == Len(chunk') = ChunkPixels \/ done = Pixels

\* As much of a row as fits in the chunk
Convert ==
  /\ step = "convert" /\ turn < Pixels
  /\ LET x == turn % TargetWidth
         row == img.backdrop[turn \div TargetWidth + 1]
         n == Smaller(TargetWidth - x, ChunkPixels - Len(chunk))
     IN /\ chunk' = chunk \o SubSeq(row, x + 1, x + n)
        /\ turn' = turn + n
        /\ step' = IF FlushDue(turn + n) THEN "write" ELSE step
  /\ UNCHANGED <<job, disk, loading, img, ring, temp, target>>

\* Mutant: a write is taken to have written everything.
WriteShort ==
  /\ step = "write"
  /\ \E n \in 1..Len(chunk) :
       /\ temp' = temp \o Take(chunk, n) /\ chunk' = <<>>
       /\ step' = IF turn < Pixels THEN "convert" ELSE "rename"
  /\ UNCHANGED <<job, disk, loading, img, ring, turn, target>>

\* write_all: a write may take only some of the bytes.
Write ==
  /\ step = "write"
  /\ \E n \in 1..Len(chunk) :
       /\ temp' = temp \o Take(chunk, n) /\ chunk' = Skip(chunk, n)
       /\ step' = IF n < Len(chunk) THEN step ELSE IF turn < Pixels THEN "convert" ELSE "rename"
  /\ UNCHANGED <<job, disk, loading, img, ring, turn, target>>

Rename ==
  /\ step = "rename"
  /\ target' = temp /\ temp' = NoFile /\ step' = "done"
  /\ UNCHANGED <<job, disk, loading, img, ring, turn, chunk>>

-----------------------------------------------------------------------------
Running == step \notin {"done", "failed", "killed"}

\* A call fails or a check refuses: the tool exits with an error.  Once it is
\* open, the temporary file is removed.
Fail ==
  /\ Running
  /\ step' = "failed"
  /\ temp' = IF step \in {"convert", "write", "rename"} THEN NoFile ELSE temp
  /\ UNCHANGED <<job, disk, loading, img, ring, turn, chunk, target>>

\* The daemon kills a tool that takes too long.
Killed ==
  /\ Running /\ step' = "killed"
  /\ UNCHANGED <<job, disk, loading, img, ring, turn, chunk, temp, target>>

\* Steam writes the source file, or begins to write it again.
Download ==
  /\ job.downloading /\ step \in {"start", "stat", "read"}
  /\ \/ disk < Len(job.file) /\ disk' = disk + 1
     \/ job.restarts /\ disk = Len(job.file) /\ disk' = 0
  /\ UNCHANGED <<job, loading, step, img, ring, turn, chunk, temp, target>>

Next ==
  \/ Start \/ Stat \/ Read \/ Decode
  \/ ResampleCopy \/ ResampleRow \/ Blur \/ BlurLeftOut \/ Darken \/ ComposeRow
  \/ OpenTemp \/ Convert \/ Write \/ Rename
  \/ Fail \/ Killed \/ Download

Spec == Init /\ [][Next]_artVars

-----------------------------------------------------------------------------
(* Properties                                                                *)

\* The crop has the shape of the target and the front that of the source, to
\* the nearest pixel; both are centred, within bounds, and as large as can be.
ShapeKept ==
  step \notin {"start", "stat", "read", "failed", "killed"} =>
    LET w == Width(job.picture)
        h == Height(job.picture)
        crop == Crop(w, h)
        front == FrontSize(w, h)
        \* a and b are in the ratio of c and d, as far as whole numbers can be
        Alike(a, b, c, d) == LET n == a*d - b*c IN 2 * (IF n < 0 THEN -n ELSE n) <= Larger(c, d)
    IN /\ crop.w \in 1..w /\ crop.h \in 1..h /\ (crop.w = w \/ crop.h = h)
       /\ w - crop.w - 2*crop.x \in {0, 1} /\ h - crop.h - 2*crop.y \in {0, 1}
       /\ crop.w = 1 \/ crop.h = 1 \/ Alike(crop.w, crop.h, TargetWidth, TargetHeight)
       /\ front.w \in 1..TargetWidth /\ front.h \in 1..TargetHeight
       /\ front.w = TargetWidth \/ front.h = TargetHeight
       /\ front.w = 1 \/ front.h = 1 \/ Alike(front.w, front.h, w, h)

\* The samples that count at a place, and their weights
Kernel(kernel, src, dst, d) ==
  LET Distance(s) == LET n == (2*s + 1) * dst - (2*d + 1) * src IN IF n < 0 THEN -n ELSE n
      Weight(s) == Filter(kernel, Distance(s), 2 * Larger(src, dst))
  IN Loop(7*src + 3, <<>>, LAMBDA kept, k:
       LET s == k - 3*src - 2
       IN IF Weight(s) = 0 THEN kept ELSE Append(kept, [at |-> s, weight |-> Weight(s)]))

\* The mean of the source under the kernel of a place
Direct(r, x, y) ==
  LET across == Kernel(r.kernel, r.part.w, r.w, x)
      down == Kernel(r.kernel, r.part.h, r.h, y)
      Pixel(i, j) == r.from[r.part.y + Clamp(down[i].at, 0, r.part.h - 1) + 1]
                           [r.part.x + Clamp(across[j].at, 0, r.part.w - 1) + 1]
      Row(i) == Total([j \in 1..Len(across) |-> across[j].weight * Pixel(i, j)])
      Weights(samples) == [i \in 1..Len(samples) |-> samples[i].weight]
  IN Clamp(Rounded(Total([i \in 1..Len(down) |-> down[i].weight * Row(i)]),
                   Divisor(Weights(down)) * Divisor(Weights(across))), 0, 255)

\* A resampled pixel is the mean of the source under the kernel of its place,
\* whatever rows the ring had to give up.
RowsAreKernels ==
  [][(step \in {"low", "backdrop", "front"}) =>
       LET r == Resampling(step)
       IN \A y \in (Len(img[step]) + 1)..Len(img'[step]) :
            img'[step][y] = [x \in 1..r.w |-> Direct(r, x - 1, y - 1)]]_artVars

\* Each half pass of the blur is the mean over a window, the pixels at an edge
\* counting for those past it; the windows of radius r are r-1, r-1 and r.
BlurIsMean ==
  [][step = "blur" /\ img' # img =>
       LET radius == IF turn < 4 THEN BlurRadius - 1 ELSE BlurRadius
           Mean(line, i) ==
             Rounded(Total([k \in 1..(2*radius + 1) |->
                              line[Clamp(i - radius + k - 1, 1, Len(line))]]), 2*radius + 1)
       IN \A y \in 1..LowHeight, x \in 1..LowWidth :
            img'.low[y][x] = IF turn % 2 = 0 THEN Mean(img.low[y], x)
                             ELSE Mean([i \in 1..LowHeight |-> img.low[i][x]], y)]_artVars

\* The front is laid over the backdrop without a seam: nothing outside it
\* changes, its edges towards free space vanish, its middle half is unblended.
LaidWithoutSeam ==
  [][step = "compose" /\ img' # img =>
       LET w == Width(img.front)
           h == Height(img.front)
           Middle(i, n) == 4*i > n + 4 /\ 4*i <= 3*n
       IN \A y \in 1..TargetHeight, x \in 1..TargetWidth :
            LET fx == x - PosX
                fy == y - PosY
                old == img.backdrop[y][x]
                new == img'.backdrop[y][x]
                shown == img.front[fy][fx]
            IN IF fy # turn + 1 \/ fx \notin 1..w THEN new = old
               ELSE /\ new \in Smaller(old, shown)..Larger(old, shown)
                    /\ w < TargetWidth /\ fx \in {1, w} => new = old
                    /\ w = TargetWidth /\ h < TargetHeight /\ fy \in {1, h} => new = old
                    /\ IF w < TargetWidth THEN Middle(fx, w) => new = shown
                       ELSE IF h < TargetHeight THEN Middle(fy, h) => new = shown
                       ELSE new = shown]_artVars

\* Whatever fails and whenever the tool is killed, the target is what it was
\* or all of the new picture, and only then does the tool succeed; a tool that
\* fails removes what it wrote.
OldOrWhole ==
  /\ target = IF step = "done" THEN RowByRow(img.backdrop) ELSE job.before
  /\ step \in {"failed", "done"} => temp \in {NoFile, job.before}
=============================================================================
