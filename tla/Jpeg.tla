--------------------------------- MODULE Jpeg ---------------------------------
(***************************************************************************)
(* The JPEG decoder of the art tool (stb_image.h, decode_jpeg_header to    *)
(* load_jpeg_image).  The segments of a file set tables and the frame;     *)
(* a scan is decoded one block at a time, with restarts between intervals; *)
(* at the end marker the planes are made into rows of pixels.              *)
(*                                                                         *)
(* As for PNG the tool reads a file twice, for its size and for its        *)
(* pixels, and asks for three channels.  Memory the decoder has not        *)
(* written is Unwritten, and what is made of it is Unwritten too.          *)
(***************************************************************************)
EXTENDS JpegEntropy, JpegPixels

CONSTANTS
  JpegFiles,      \* the files that may be read
  MaxSide         \* STBI_MAX_DIMENSIONS

VARIABLES
  pass,       \* "info" in stbi_info, "load" in stbi_load
  phase,      \* "start", "header", "segments", "units", "rows", "done" or "failed"
  mark,       \* the marker to be looked at, in "header" and "segments"
  z,          \* where decoding is in the file: see JpegEntropy
  tables,     \* what DQT, DHT, DRI and the APP segments have set
  frame,      \* what the frame header has set
  scanning,   \* the scan header, and the next unit of the scan
  plane,      \* for each component, from block to its 64 samples
  coeff,      \* for each component of a progressive frame, from block to coefficients
  rows,       \* where each component is in its plane as rows are made
  announced,  \* what stbi_info returned: <<width, height>>
  pixels      \* the rows of pixels made so far

jpegVars == <<jpeg, pass, phase, mark, z, tables, frame, scanning, plane, coeff,
              rows, announced, pixels>>

\* stbi__jpeg after memset and decode_jpeg_header's assignments
NoTables ==
  [dc |-> [t \in 1..4 |-> NoTable], ac |-> [t \in 1..4 |-> NoTable],
   dequant |-> [t \in 1..4 |-> [p \in 0..63 |-> 0]],
   interval |-> 0, jfif |-> FALSE, transform |-> -1]
Beginning == [pos |-> 0, bits |-> <<>>, marker |-> NoMarker, nomore |-> FALSE,
              eobRun |-> 0, pred |-> <<0, 0, 0, 0>>, todo |-> 0]

JpegInit ==
  /\ jpeg \in JpegFiles
  /\ pass = "info" /\ phase = "start" /\ mark = NoMarker
  /\ z = Beginning /\ tables = NoTables
  /\ frame = <<>> /\ scanning = <<>> /\ plane = <<>> /\ coeff = <<>>
  /\ rows = <<>> /\ announced = <<>> /\ pixels = <<>>

\* The decoder is not used at all.
JpegIdle ==
  /\ jpeg = [bytes |-> <<>>]
  /\ pass = "info" /\ phase = "idle" /\ mark = NoMarker
  /\ z = Beginning /\ tables = <<>>
  /\ frame = <<>> /\ scanning = <<>> /\ plane = <<>> /\ coeff = <<>>
  /\ rows = <<>> /\ announced = <<>> /\ pixels = <<>>

JpegFail ==
  /\ phase' = "failed"
  /\ UNCHANGED <<jpeg, pass, mark, z, tables, frame, scanning, plane, coeff, rows,
                 announced, pixels>>

-----------------------------------------------------------------------------
(* Segments                                                                  *)

StbSOI == 216
StbEOI == 217
StbSOS == 218
DQT == 219
DNL == 220
DRI == 221
DHT == 196
IsSof(m) == m \in {192, 193, 194}
IsRestart(m) == m \in 208..215
IsApp(m) == m \in 224..239 \union {254}

\* get_marker: <<marker, z after it>>
GetMarker(s) ==
  LET after == PastFill(s.pos + 1)
  IN IF s.marker # NoMarker THEN <<s.marker, [s EXCEPT !.marker = NoMarker]>>
     ELSE IF Get8(s.pos) # 255 THEN <<NoMarker, [s EXCEPT !.pos = @ + 1]>>
     ELSE <<Get8(after), [s EXCEPT !.pos = after + 1]>>

\* The next byte 255 from pos on that Accepts, or none.
Next255(pos, Accepts(_)) ==
  LET here == {p \in pos..(Len(Data)-1) : Get8(p) = 255 /\ Accepts(p)}
  IN IF here = {} THEN Len(Data) ELSE CHOOSE p \in here : \A q \in here : p <= q

\* decode_jpeg_header passes over bytes between segments, until the file ends.
PaddedMarker(s) == GetMarker([s EXCEPT !.pos = Next255(s.pos, LAMBDA p: TRUE)])

\* skip_jpeg_junk_at_end: the next marker after a scan that did not meet one,
\* but not a stuffed zero; none if the file ends first.
SkipJunk(s) ==
  LET p == Next255(s.pos, LAMBDA q: PastFill(q + 1) < Len(Data) /\ Get8(PastFill(q + 1)) # 0)
  IN IF p = Len(Data) THEN [s EXCEPT !.pos = p]
     ELSE [s EXCEPT !.marker = Get8(PastFill(p + 1)), !.pos = PastFill(p + 1) + 1]

\* The tables of a segment at pos, one after the other.  done says how the
\* segment's length was used up.
TableSegment(pos, tableLength, start, Table(_)) ==
  LET Turn(s, i) == IF ~s.ok \/ s.left <= 0 THEN s ELSE Table(s)
      end == Loop((Get16(pos) \div tableLength) + 1,
                  [ok |-> TRUE, left |-> Get16(pos) - 2, pos |-> pos + 2, t |-> start], Turn)
  IN [ok |-> end.ok /\ end.left = 0, pos |-> end.pos, t |-> end.t]

QuantTable(s) ==
  LET q == Get8(s.pos)
      size == IF q \div 16 = 0 THEN 1 ELSE 2
      At(k) == IF size = 1 THEN Get8(s.pos + 1 + k) ELSE Get16(s.pos + 1 + 2*k)
      table == [p \in 0..63 |-> At(CHOOSE k \in 0..63 : Place(k) = p)]
  IN IF q \div 16 > 1 \/ q % 16 > 3 THEN [s EXCEPT !.ok = FALSE]
     ELSE [s EXCEPT !.t.dequant[(q % 16) + 1] = table,
                    !.pos = @ + 1 + 64 * size, !.left = @ - 1 - 64 * size]

HuffmanTable(s) ==
  LET class == Get8(s.pos) \div 16
      t == (Get8(s.pos) % 16) + 1
      counts == [i \in 1..16 |-> Get8(s.pos + i)]
      n == CodesBefore(counts)[17]
      values == [i \in 1..n |-> Get8(s.pos + 16 + i)]
      used == [s EXCEPT !.pos = @ + 17 + n, !.left = @ - 17 - n]
  IN IF class > 1 \/ t > 4 \/ ~GoodCounts(counts) THEN [s EXCEPT !.ok = FALSE]
     ELSE IF class = 0 THEN [used EXCEPT !.t.dc[t] = BuildTable(counts, values)]
     ELSE [used EXCEPT !.t.ac[t] = BuildTable(counts, values)]

\* The name an APP segment starts with, after its length
Named(pos, name) == \A i \in DOMAIN name : Get8(pos + 1 + i) = name[i]
Jfif == <<74, 70, 73, 70, 0>>
Adobe == <<65, 100, 111, 98, 101, 0>>

AppSegment(m, pos, t) ==
  LET l == Get16(pos)
      read == [ok |-> l >= 2, pos |-> pos + l, t |-> t]
  IN IF m = 224 /\ l >= 7 /\ Named(pos, Jfif) THEN [read EXCEPT !.t.jfif = TRUE]
     ELSE IF m = 238 /\ l >= 14 /\ Named(pos, Adobe) THEN [read EXCEPT !.t.transform = Get8(pos + 13)]
     ELSE read

RestartInterval(pos, t) ==
  [ok |-> Get16(pos) = 4, pos |-> pos + 4, t |-> [t EXCEPT !.interval = Get16(pos + 2)]]

ProcessMarker(m, pos, t) ==
  CASE m = DRI -> RestartInterval(pos, t)
    [] m = DQT -> TableSegment(pos, 65, t, QuantTable)
    [] m = DHT -> TableSegment(pos, 17, t, HuffmanTable)
    [] IsApp(m) -> AppSegment(m, pos, t)
    [] OTHER -> [ok |-> FALSE, pos |-> pos, t |-> t]

\* process_frame_header: the frame at pos, for the first reading and for the
\* second, which also needs sampling factors that are whole ratios.
FrameAt(pos, m) ==
  LET n == Get8(pos + 7)
      Comp(i) == [id |-> Get8(pos + 5 + 3*i), h |-> Get8(pos + 6 + 3*i) \div 16,
                  v |-> Get8(pos + 6 + 3*i) % 16, tq |-> Get8(pos + 7 + 3*i) + 1]
  IN [progressive |-> m = 194, precision |-> Get8(pos + 2), length |-> Get16(pos),
      height |-> Get16(pos + 3), width |-> Get16(pos + 5), comps |-> [i \in 1..n |-> Comp(i)]]

GoodFrame(f) ==
  /\ f.precision = 8 /\ f.width \in 1..MaxSide /\ f.height \in 1..MaxSide
  /\ Len(f.comps) \in {1, 3, 4} /\ f.length = 8 + 3 * Len(f.comps)
  /\ \A i \in DOMAIN f.comps :
       f.comps[i].h \in 1..4 /\ f.comps[i].v \in 1..4 /\ f.comps[i].tq <= 4

HMax(f) == CHOOSE h \in {f.comps[i].h : i \in DOMAIN f.comps} : \A i \in DOMAIN f.comps : f.comps[i].h <= h
VMax(f) == CHOOSE v \in {f.comps[i].v : i \in DOMAIN f.comps} : \A i \in DOMAIN f.comps : f.comps[i].v <= v

WholeRatios(f) ==
  \A i \in DOMAIN f.comps : HMax(f) % f.comps[i].h = 0 /\ VMax(f) % f.comps[i].v = 0

Ceiling(a, b) == (a + b - 1) \div b
McuX(f) == Ceiling(f.width, 8 * HMax(f))
McuY(f) == Ceiling(f.height, 8 * VMax(f))

\* The samples of a component that count, and the blocks they are in.
CompX(f, c) == Ceiling(f.width * f.comps[c].h, HMax(f))
CompY(f, c) == Ceiling(f.height * f.comps[c].v, VMax(f))
BlocksX(f, c) == Ceiling(CompX(f, c), 8)
BlocksY(f, c) == Ceiling(CompY(f, c), 8)

\* The blocks there is memory for
Blank(f, c) ==
  [b \in (0..(McuX(f) * f.comps[c].h - 1)) \X (0..(McuY(f) * f.comps[c].v - 1)) |-> Unwritten]

\* process_scan_header: which components, with which tables, which bits.
ScanAt(pos) ==
  LET n == Get8(pos + 2)
      Which(i) == {c \in DOMAIN frame.comps : frame.comps[c].id = Get8(pos + 1 + 2*i)}
      First(cs) == CHOOSE c \in cs : \A d \in cs : c <= d
      last == pos + 3 + 2*n
      full == ~frame.progressive
  IN [good |-> /\ n \in 1..4 /\ n <= Len(frame.comps) /\ Get16(pos) = 6 + 2*n
               /\ \A i \in 1..n : /\ Which(i) # {}
                                  /\ Get8(pos + 2 + 2*i) \div 16 <= 3
                                  /\ Get8(pos + 2 + 2*i) % 16 <= 3
               /\ IF full THEN Get8(last) = 0 /\ Get8(last + 2) = 0
                  ELSE /\ Get8(last) <= Get8(last + 1) /\ Get8(last + 1) <= 63
                       /\ Get8(last + 2) \div 16 <= 13 /\ Get8(last + 2) % 16 <= 13,
      order |-> [i \in 1..n |->
                   [comp |-> IF Which(i) = {} THEN 0 ELSE First(Which(i)),
                    hd |-> (Get8(pos + 2 + 2*i) \div 16) + 1,
                    ha |-> (Get8(pos + 2 + 2*i) % 16) + 1]],
      band |-> [ss |-> Get8(last), se |-> IF full THEN 63 ELSE Get8(last + 1),
                ah |-> Get8(last + 2) \div 16, al |-> Get8(last + 2) % 16,
                progressive |-> frame.progressive],
      unit |-> 0, end |-> last + 3]

-----------------------------------------------------------------------------
(* Scans                                                                     *)

\* jpeg_reset: after a restart, and at the start of a scan
Reset(s, interval) ==
  [s EXCEPT !.bits = <<>>, !.nomore = FALSE, !.pred = <<0, 0, 0, 0>>, !.marker = NoMarker,
            !.eobRun = 0, !.todo = IF interval = 0 THEN 2147483647 ELSE interval]

\* The blocks of a scan in order: a component of its own has its blocks row by
\* row; the blocks of several are interleaved in units of each one's h times v.
Interleaved == Len(scanning.order) > 1

McuBlocks ==
  LET Of(i) ==
        LET comp == frame.comps[scanning.order[i].comp]
        IN [k \in 1..(comp.h * comp.v) |->
              [from |-> scanning.order[i], x |-> (k - 1) % comp.h, y |-> (k - 1) \div comp.h]]
  IN FlattenSeq([i \in DOMAIN scanning.order |-> Of(i)])

UnitCount ==
  LET c == scanning.order[1].comp
  IN IF Interleaved THEN McuX(frame) * McuY(frame) * Len(McuBlocks)
     ELSE BlocksX(frame, c) * BlocksY(frame, c)

UnitAt(n) ==
  LET c == scanning.order[1].comp
      member == McuBlocks[(n % Len(McuBlocks)) + 1]
      comp == frame.comps[member.from.comp]
      mcu == n \div Len(McuBlocks)
  IN IF Interleaved
     THEN [from |-> member.from,
           block |-> <<(mcu % McuX(frame)) * comp.h + member.x,
                       (mcu \div McuX(frame)) * comp.v + member.y>>]
     ELSE [from |-> scanning.order[1],
           block |-> <<n % BlocksX(frame, c), n \div BlocksX(frame, c)>>]

EndsMcu(n) == Interleaved => (n + 1) % Len(McuBlocks) = 0

ZeroBlock == [p \in 0..63 |-> 0]
FitsShort(v) == v \in -32768..32767

\* The DC coefficient of a block, in units of scale, and the prediction for the
\* next one.
DcStored(c, s, dc, scale) ==
  IF ~FitsShort(dc * scale) THEN Failed(s)
  ELSE [ok |-> TRUE, z |-> [s EXCEPT !.pred[c] = dc],
        data |-> [ZeroBlock EXCEPT ![0] = dc * scale]]
WithDc(c, d, scale) ==
  IF d.ok THEN DcStored(c, d.z, d.z.pred[c] + d.diff, scale) ELSE Failed(d.z)

\* decode_block: a whole block of a baseline scan
WithAc(from, dc, quant) ==
  IF dc.ok
  THEN AcFirst(dc.z, dc.data, tables.ac[from.ha], [scanning.band EXCEPT !.ss = 1], quant)
  ELSE dc
BaselineBlock(from) ==
  LET quant == tables.dequant[frame.comps[from.comp].tq]
  IN WithAc(from, WithDc(from.comp, Difference(z, tables.dc[from.hd]), quant[0]), quant)

\* decode_block_prog_dc: the DC coefficient, or one more bit of it
DcRefined(old, b) ==
  [ok |-> TRUE, z |-> b[2],
   data |-> IF old = Unwritten \/ b[1] = 0 THEN old
            ELSE [old EXCEPT ![0] = Short(@ + 2^scanning.band.al)]]
ProgressiveDc(from, old) ==
  IF scanning.band.se # 0 THEN Failed(z)
  ELSE IF scanning.band.ah # 0 THEN DcRefined(old, GetBits(GrowBelow(z, 16), 1))
  ELSE WithDc(from.comp, Difference(z, tables.dc[from.hd]), 2^scanning.band.al)

\* decode_block_prog_ac: some AC coefficients, or one more bit of them.  What
\* was not written before is taken for zero while the bits are read.
AcOfBlock(block, table, band) ==
  IF band.ah # 0 THEN AcRefine(z, block, table, band)
  ELSE IF z.eobRun > 0
  THEN [ok |-> TRUE, z |-> [z EXCEPT !.eobRun = @ - 1], data |-> block]
  ELSE AcFirst(z, block, table, band, [p \in 0..63 |-> 2^band.al])
Kept(old, end) == IF old = Unwritten THEN [end EXCEPT !.data = old] ELSE end
ProgressiveAc(from, old) ==
  IF scanning.band.ss = 0 THEN Failed(z)
  ELSE Kept(old, AcOfBlock(IF old = Unwritten THEN ZeroBlock ELSE old,
                           tables.ac[from.ha], scanning.band))

DecodedUnit(u) ==
  IF ~frame.progressive THEN BaselineBlock(u.from)
  ELSE IF Interleaved \/ scanning.band.ss = 0 THEN ProgressiveDc(u.from, coeff[u.from.comp][u.block])
  ELSE ProgressiveAc(u.from, coeff[u.from.comp][u.block])

\* Mutant: the prediction is kept over a restart.
AfterIntervalKeeping(s) ==
  IF IsRestart(s.marker)
  THEN [z |-> [Reset(s, tables.interval) EXCEPT !.pred = s.pred], ends |-> FALSE]
  ELSE [z |-> s, ends |-> TRUE]

\* At the end of an interval a restart marker is next; without one the scan ends.
AfterInterval(s) ==
  IF IsRestart(s.marker) THEN [z |-> Reset(s, tables.interval), ends |-> FALSE]
  ELSE [z |-> s, ends |-> TRUE]

\* After each unit of the scan
Countdown(s) ==
  IF ~EndsMcu(scanning.unit) THEN [z |-> s, ends |-> FALSE]
  ELSE IF s.todo > 1 THEN [z |-> [s EXCEPT !.todo = @ - 1], ends |-> FALSE]
  ELSE AfterInterval(GrowBelow(s, 24))

\* After a scan: the marker it met, or the next one; a restart there is passed.
PastRestart(m) == IF IsRestart(m[1]) THEN GetMarker(m[2]) ELSE m
AfterScan(s) == PastRestart(GetMarker(IF s.marker = NoMarker THEN SkipJunk(s) ELSE s))

\* The planes of a finished progressive frame: dequantize and idct.
Finished(c) ==
  LET quant == tables.dequant[frame.comps[c].tq]
      Samples(block) ==
        IF block = Unwritten THEN Unwritten
        ELSE Idct([p \in 0..63 |-> Short(block[p] * quant[p])])
      counts == (0..(BlocksX(frame, c) - 1)) \X (0..(BlocksY(frame, c) - 1))
  IN [b \in DOMAIN plane[c] |-> IF b \in counts THEN Samples(coeff[c][b]) ELSE plane[c][b]]

-----------------------------------------------------------------------------
(* The steps                                                                 *)

\* The first two markers: the file's own, and the first segment's.
Soi ==
  /\ phase = "start"
  /\ LET m == GetMarker(z)
         next == GetMarker(m[2])
     IN \/ /\ m[1] = StbSOI
           /\ phase' = "header" /\ mark' = next[1] /\ z' = next[2]
           /\ UNCHANGED <<jpeg, pass, tables, frame, scanning, plane, coeff, rows,
                          announced, pixels>>
        \/ m[1] # StbSOI /\ JpegFail

\* A segment before the frame header
HeaderSegment ==
  /\ phase = "header" /\ ~IsSof(mark)
  /\ LET segment == ProcessMarker(mark, z.pos, tables)
         next == PaddedMarker([z EXCEPT !.pos = segment.pos])
         good == segment.ok /\ next[1] # NoMarker
     IN \/ /\ good
           /\ mark' = next[1] /\ z' = next[2] /\ tables' = segment.t
           /\ UNCHANGED <<jpeg, pass, phase, frame, scanning, plane, coeff, rows,
                          announced, pixels>>
        \/ ~good /\ JpegFail

\* stbi_info ends here: the file is read again from its start.
FrameInfo ==
  /\ phase = "header" /\ IsSof(mark) /\ pass = "info"
  /\ LET f == FrameAt(z.pos, mark)
         good == GoodFrame(f)
     IN \/ /\ good
           /\ announced' = <<f.width, f.height>>
           /\ pass' = "load" /\ phase' = "start" /\ mark' = NoMarker
           /\ z' = Beginning /\ tables' = NoTables
           /\ UNCHANGED <<jpeg, frame, scanning, plane, coeff, rows, pixels>>
        \/ ~good /\ JpegFail

FrameHeader ==
  /\ phase = "header" /\ IsSof(mark) /\ pass = "load"
  /\ LET f == FrameAt(z.pos, mark)
         good == GoodFrame(f) /\ WholeRatios(f)
         next == GetMarker([z EXCEPT !.pos = @ + f.length])
     IN \/ /\ good
           /\ frame' = f /\ phase' = "segments"
           /\ plane' = [c \in DOMAIN f.comps |-> Blank(f, c)]
           /\ coeff' = [c \in DOMAIN f.comps |-> IF f.progressive THEN Blank(f, c)
                                                ELSE [b \in DOMAIN Blank(f, c) |-> <<>>]]
           /\ mark' = next[1] /\ z' = next[2]
           /\ UNCHANGED <<jpeg, pass, tables, scanning, rows, announced, pixels>>
        \/ ~good /\ JpegFail

\* load_jpeg_image's preparation, however decode_jpeg_image ended
RowsBegin ==
  /\ phase' = "rows"
  /\ rows' = [c \in DOMAIN frame.comps |->
                [line0 |-> 0, line1 |-> 0, ypos |-> 0,
                 ystep |-> (VMax(frame) \div frame.comps[c].v) \div 2]]
  /\ UNCHANGED <<jpeg, pass, mark, z, tables, frame, scanning, coeff, announced, pixels>>

EndOfImage ==
  /\ phase = "segments" /\ mark = StbEOI
  /\ plane' = IF frame.progressive THEN [c \in DOMAIN plane |-> Finished(c)] ELSE plane
  /\ RowsBegin

\* A segment between the scans.  One that is not understood ends decoding, with
\* what there is by then; no marker at all is not understood either.
OtherSegment ==
  /\ phase = "segments" /\ mark \notin {StbEOI, StbSOS, DNL}
  /\ LET segment == ProcessMarker(mark, z.pos, tables)
         next == GetMarker([z EXCEPT !.pos = segment.pos])
     IN \/ /\ segment.ok
           /\ mark' = next[1] /\ z' = next[2] /\ tables' = segment.t
           /\ UNCHANGED <<jpeg, pass, phase, frame, scanning, plane, coeff, rows,
                          announced, pixels>>
        \/ ~segment.ok /\ UNCHANGED plane /\ RowsBegin

\* DNL may only repeat the height.
NumberOfLines ==
  /\ phase = "segments" /\ mark = DNL
  /\ LET good == Get16(z.pos) = 4 /\ Get16(z.pos + 2) = frame.height
         next == GetMarker([z EXCEPT !.pos = @ + 4])
     IN \/ /\ good /\ mark' = next[1] /\ z' = next[2]
           /\ UNCHANGED <<jpeg, pass, phase, tables, frame, scanning, plane, coeff, rows,
                          announced, pixels>>
        \/ ~good /\ JpegFail

ScanHeader ==
  /\ phase = "segments" /\ mark = StbSOS
  /\ LET scan == ScanAt(z.pos)
     IN \/ /\ scan.good
           /\ scanning' = scan /\ phase' = "units"
           /\ z' = Reset([z EXCEPT !.pos = scan.end], tables.interval)
           /\ UNCHANGED <<jpeg, pass, mark, tables, frame, plane, coeff, rows,
                          announced, pixels>>
        \/ ~scan.good /\ JpegFail

\* A block that cannot be decoded gives no image at all.  The others are stored;
\* after the last of a scan, or of its last interval, the next marker is found.
StoreUnit(u, data) ==
  IF frame.progressive
  THEN coeff' = [coeff EXCEPT ![u.from.comp][u.block] = data] /\ plane' = plane
  ELSE plane' = [plane EXCEPT ![u.from.comp][u.block] = Idct(data)] /\ coeff' = coeff

ScanUnit ==
  /\ phase = "units"
  /\ \E u \in {UnitAt(scanning.unit)} : \E d \in {DecodedUnit(u)} :
       \/ /\ d.ok
          /\ StoreUnit(u, d.data)
          /\ \E count \in {Countdown(d.z)} :
               \/ /\ count.ends \/ scanning.unit + 1 = UnitCount
                  /\ \E next \in {AfterScan(count.z)} : mark' = next[1] /\ z' = next[2]
                  /\ phase' = "segments" /\ scanning' = scanning
               \/ /\ ~count.ends /\ scanning.unit + 1 # UnitCount
                  /\ scanning' = [scanning EXCEPT !.unit = @ + 1] /\ z' = count.z
                  /\ UNCHANGED <<phase, mark>>
          /\ UNCHANGED <<jpeg, pass, tables, frame, rows, announced, pixels>>
       \/ ~d.ok /\ JpegFail

\* Sample i of a line of a component's plane
SampleOf(c, line, i) ==
  LET block == plane[c][<<i \div 8, line \div 8>>]
  IN IF block = Unwritten THEN Unwritten ELSE block[8 * (line % 8) + (i % 8)]

\* The samples of a component for the next row of pixels.
NextLine(c) ==
  LET hs == HMax(frame) \div frame.comps[c].h
      vs == VMax(frame) \div frame.comps[c].v
      Line(n) == [i \in 1..Ceiling(frame.width, hs) |-> SampleOf(c, n, i - 1)]
      bottom == rows[c].ystep >= vs \div 2
  IN IF bottom THEN UpsampleRow(hs, vs, Line(rows[c].line1), Line(rows[c].line0))
     ELSE UpsampleRow(hs, vs, Line(rows[c].line0), Line(rows[c].line1))

\* Mutant: the last line of the plane is left like the others.
AdvancedPast(c) ==
  IF rows[c].ystep + 1 < VMax(frame) \div frame.comps[c].v
  THEN [rows[c] EXCEPT !.ystep = @ + 1]
  ELSE [line0 |-> rows[c].line1, ystep |-> 0, ypos |-> rows[c].ypos + 1,
        line1 |-> Smaller(rows[c].line1 + 1, 8 * McuY(frame) * frame.comps[c].v - 1)]

\* ... which ends at the last line that counts.
Advanced(c) ==
  IF rows[c].ystep + 1 < VMax(frame) \div frame.comps[c].v
  THEN [rows[c] EXCEPT !.ystep = @ + 1]
  ELSE [line0 |-> rows[c].line1, ystep |-> 0, ypos |-> rows[c].ypos + 1,
        line1 |-> rows[c].line1 + (IF rows[c].ypos + 1 < CompY(frame, c) THEN 1 ELSE 0)]

\* is_rgb: by the names of the components, or by Adobe's segment alone
IsRgb ==
  /\ Len(frame.comps) = 3
  /\ \/ \A c \in 1..3 : frame.comps[c].id = <<82, 71, 66>>[c]
     \/ tables.transform = 0 /\ ~tables.jfif

PixelRow ==
  LET lines == Loop(Len(frame.comps), <<>>, LAMBDA done, c: Append(done, NextLine(c)))
      At(x) == Pixel([c \in DOMAIN lines |-> lines[c][x]], IsRgb, tables.transform)
  IN [x \in 1..frame.width |-> At(x)]

Row ==
  /\ phase = "rows"
  /\ pixels' = Append(pixels, PixelRow)
  /\ rows' = [c \in DOMAIN rows |-> Advanced(c)]
  /\ phase' = IF Len(pixels') = frame.height THEN "done" ELSE "rows"
  /\ UNCHANGED <<jpeg, pass, mark, z, tables, frame, scanning, plane, coeff, announced>>

JpegNext ==
  \/ Soi \/ HeaderSegment \/ FrameInfo \/ FrameHeader
  \/ EndOfImage \/ OtherSegment \/ NumberOfLines \/ ScanHeader \/ ScanUnit
  \/ Row

JpegSpec == JpegInit /\ [][JpegNext]_jpegVars
=============================================================================
