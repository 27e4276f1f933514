--------------------------------- MODULE Png ---------------------------------
(***************************************************************************)
(* The PNG decoder of the art tool (stb_image.h, parse_png_file and what   *)
(* it calls): the chunks of a file are read in order; IEND inflates the    *)
(* image data and turns it into pixels.                                    *)
(*                                                                         *)
(* The tool reads a file twice: stbi_info stops at the first chunk that    *)
(* settles the image's shape, stbi_load reads it all.  It asks for three   *)
(* channels, so alpha is read and dropped, and transparency is not kept.   *)
(***************************************************************************)
EXTENDS Inflate

CONSTANTS
  PngFiles,          \* the files that may be read: sequences of chunks
  MaxDimension,   \* STBI_MAX_DIMENSIONS
  Unset           \* a value nothing has been stored in yet

VARIABLES
  file,     \* the file being read
  rest,     \* the chunks of it not read yet
  scan,     \* "header" in stbi_info, "load" in stbi_load
  reading,  \* "chunks", "inflating", "done" or "failed"
  png,      \* what the chunks read so far have set
  info,     \* what stbi_info returned: <<width, height>>, or Unset
  image     \* the pixels, from <<x, y>> to <<red, green, blue>>, or Unset

pngVars == <<file, rest, scan, reading, png, info, image>>

NothingRead == [header |-> Unset, palette |-> <<>>, paletteLength |-> 0,
                idata |-> Unset, iphone |-> FALSE]

PngInit ==
  /\ file \in PngFiles
  /\ rest = file.chunks /\ scan = "header" /\ reading = "chunks"
  /\ png = NothingRead /\ info = Unset /\ image = Unset
  /\ InflateIdle

\* The file is of another kind.
PngIdle ==
  /\ file = [chunks |-> <<>>, cut |-> FALSE, source |-> [kind |-> "none"]]
  /\ rest = <<>> /\ scan = "header" /\ reading = "idle"
  /\ png = NothingRead /\ info = Unset /\ image = Unset
  /\ InflateIdle

-----------------------------------------------------------------------------
(* From the inflated bytes to pixels.                                        *)

\* s->img_n: the channels stored per pixel
Channels(color) == (IF color \in {2, 6} THEN 3 ELSE 1) + (IF color \in {4, 6} THEN 1 ELSE 0)

RowBytes(h, width) == (Channels(h.color) * width * h.depth + 7) \div 8

\* The distance between a byte and the one the filters take as its left.
FilterBytes(h) == IF h.depth < 8 THEN 1 ELSE (Channels(h.color) * h.depth) \div 8

\* Mutant: a threshold equal to the larger neighbour is not taken for above it.
PaethStrict(a, b, c) ==
  LET threshold == 3*c - (a + b)
      t0 == IF Larger(a, b) < threshold THEN Smaller(a, b) ELSE c
  IN IF threshold < Smaller(a, b) THEN Larger(a, b) ELSE t0

Paeth(a, b, c) ==
  LET threshold == 3*c - (a + b)
      t0 == IF Larger(a, b) <= threshold THEN Smaller(a, b) ELSE c
  IN IF threshold <= Smaller(a, b) THEN Larger(a, b) ELSE t0

\* first_row_filter: what a filter comes down to without a row above.
FirstRowFilter == <<"none", "sub", "none", "avg_first", "sub">>
Filters == <<"none", "sub", "up", "avg", "paeth">>

Predicted(filter, left, up, upLeft) ==
  CASE filter = "none" -> 0
    [] filter = "sub" -> left
    [] filter = "up" -> up
    [] filter = "avg" -> (up + left) \div 2
    [] filter = "avg_first" -> left \div 2
    [] filter = "paeth" -> Paeth(left, up, upLeft)

\* One row, from its filtered bytes and the row above; left of the row are zeros.
Unfiltered(filter, raw, prior, distance) ==
  LET NextByte(cur, k) ==
        LET left == IF k > distance THEN cur[k - distance] ELSE 0
            upLeft == IF k > distance THEN prior[k - distance] ELSE 0
        IN Append(cur, (raw[k] + Predicted(filter, left, prior[k], upLeft)) % 256)
  IN Loop(Len(raw), <<>>, NextByte)

\* create_png_image_raw: the rows of a (pass of a) picture, unfiltered.
RawSize(h, width, height) == (RowBytes(h, width) + 1) * height

RawAcceptable(h, data, width, height) ==
  /\ Len(data) >= RawSize(h, width, height)
  /\ \A y \in 0..(height-1) : data[y * (RowBytes(h, width) + 1) + 1] <= 4

RawRows(h, data, width, height) ==
  LET n == RowBytes(h, width)
      Start(y) == (y-1) * (n + 1) + 1
      Row(rows, y) ==
        LET filters == IF y = 1 THEN FirstRowFilter ELSE Filters
            prior == IF y = 1 THEN [k \in 1..n |-> 0] ELSE rows[y-1]
        IN Append(rows, Unfiltered(filters[data[Start(y)] + 1],
                                   SubSeq(data, Start(y) + 1, Start(y) + n),
                                   prior, FilterBytes(h)))
  IN Loop(height, <<>>, Row)

\* Sample s of a row as eight bits: the high byte of sixteen; fewer bits are
\* scaled to the full range if they are a grey level, not a palette index.
Sample(h, row, s) ==
  CASE h.depth = 16 -> row[2*s + 1]
    [] h.depth = 8 -> row[s + 1]
    [] OTHER ->
         LET perByte == 8 \div h.depth
             byte == row[s \div perByte + 1]
             value == (byte \div 2^(8 - h.depth * ((s % perByte) + 1))) % 2^h.depth
         IN IF h.color = 0 THEN value * (255 \div (2^h.depth - 1)) ELSE value

\* convert_format to three channels
Rgb(h, row, x) ==
  LET n == Channels(h.color)
      S(c) == Sample(h, row, n*x + c)
  IN IF n >= 3 THEN <<S(0), S(1), S(2)>> ELSE <<S(0), S(0), S(0)>>

XOrigin == <<0, 4, 0, 2, 0, 1, 0>>
YOrigin == <<0, 0, 4, 0, 2, 0, 1>>
XSpacing == <<8, 8, 4, 4, 2, 2, 1>>
YSpacing == <<8, 8, 8, 4, 4, 2, 2>>

PassWidth(h, p) == (h.width - XOrigin[p] + XSpacing[p] - 1) \div XSpacing[p]
PassHeight(h, p) == (h.height - YOrigin[p] + YSpacing[p] - 1) \div YSpacing[p]
PassPixel(p, i, j) == <<i * XSpacing[p] + XOrigin[p], j * YSpacing[p] + YOrigin[p]>>

\* A pass without pixels takes no bytes.
PassSize(h, p) ==
  IF PassWidth(h, p) = 0 \/ PassHeight(h, p) = 0 THEN 0
  ELSE RawSize(h, PassWidth(h, p), PassHeight(h, p))

\* The passes of the picture: where its bytes start, its size, and where its
\* pixel (i, j) belongs.
PassStart(h, p) == Loop(p - 1, 0, LAMBDA n, q: n + PassSize(h, q))

Passes(h, data) ==
  IF h.interlace = 0
  THEN <<[data |-> data, width |-> h.width, height |-> h.height,
          at |-> [ij \in (0..(h.width-1)) \X (0..(h.height-1)) |-> ij]]>>
  ELSE [p \in 1..7 |->
          [data |-> Skip(data, PassStart(h, p)),
           width |-> PassWidth(h, p), height |-> PassHeight(h, p),
           at |-> [ij \in (0..(PassWidth(h, p)-1)) \X (0..(PassHeight(h, p)-1)) |->
                     PassPixel(p, ij[1], ij[2])]]]

PassAcceptable(h, pass) ==
  pass.width > 0 /\ pass.height > 0 => RawAcceptable(h, pass.data, pass.width, pass.height)

\* expand_png_palette: an index past the palette finds what was there before.
Coloured(h, rgb) ==
  IF h.color # 3 THEN rgb
  ELSE IF rgb[1] < Len(png.palette) THEN png.palette[rgb[1] + 1] ELSE Unset

\* What one pass stores, and the picture all of them have stored, in order.
Stores(h, pass) ==
  IF pass.width = 0 \/ pass.height = 0 THEN <<>>
  ELSE LET rows == RawRows(h, pass.data, pass.width, pass.height)
       IN [at \in {pass.at[ij] : ij \in DOMAIN pass.at} |->
             LET ij == CHOOSE ij \in DOMAIN pass.at : pass.at[ij] = at
             IN Coloured(h, Rgb(h, rows[ij[2] + 1], ij[1]))]

Picture(h, passes) ==
  LET blank == [at \in (0..(h.width-1)) \X (0..(h.height-1)) |-> Unset]
  IN Loop(Len(passes), blank, LAMBDA picture, p: Stores(h, passes[p]) @@ picture)

-----------------------------------------------------------------------------
(* The chunks.                                                               *)

Started == png.header # Unset

\* The file ends in the chunk being read, which is its last.
Cut == file.cut /\ Len(rest) = 1

PngFail ==
  /\ reading' = "failed"
  /\ UNCHANGED <<file, rest, scan, png, info, image, inflateVars>>

Continue(new) ==
  /\ png' = new /\ rest' = Tail(rest)
  /\ UNCHANGED <<file, scan, reading, info, image, inflateVars>>

\* stbi_info has seen enough: the file is read again from its start.
InfoDone ==
  /\ scan = "header" /\ scan' = "load"
  /\ info' = <<png.header.width, png.header.height>>
  /\ rest' = file.chunks /\ png' = NothingRead
  /\ UNCHANGED <<file, reading, image, inflateVars>>

GoodHeader(h) ==
  /\ h.width \in 1..MaxDimension /\ h.height \in 1..MaxDimension
  /\ h.depth \in {1, 2, 4, 8, 16} /\ h.color \in {0, 2, 3, 4, 6}
  /\ ~(h.color = 3 /\ h.depth = 16)
  /\ h.interlace \in {0, 1}

NextIs(type) == reading = "chunks" /\ rest # <<>> /\ Head(rest).type = type

\* Mutant: a second header replaces the first.
HeaderExpectedAgain(h) == GoodHeader(h)

HeaderExpected(h) == ~Started /\ GoodHeader(h)

ImageHeader ==
  /\ NextIs("IHDR")
  /\ LET h == Head(rest).header
         good == HeaderExpected(h) /\ ~Cut
     IN \/ good /\ Continue([png EXCEPT !.header = h])
        \/ ~good /\ PngFail

Palette ==
  /\ NextIs("PLTE")
  /\ LET entries == Head(rest).entries
         good == /\ Started /\ Len(entries) <= 256 /\ ~Cut
                 /\ Head(rest).size = 3 * Len(entries)
     IN \/ /\ good
           /\ Continue([png EXCEPT !.paletteLength = Len(entries),
                         !.palette = entries \o SubSeq(@, Len(entries) + 1, Len(@))])
        \/ ~good /\ PngFail

\* Transparency settles the number of channels, which is all stbi_info lacked.
Transparency ==
  /\ NextIs("tRNS")
  /\ LET size == Head(rest).size
         channels == Channels(png.header.color)
         ordered == Started /\ png.idata = Unset
         indexed == ordered /\ png.header.color = 3
         good == ordered /\ IF indexed THEN png.paletteLength > 0 /\ size <= png.paletteLength
                            ELSE channels % 2 = 1 /\ size = 2 * channels
     IN \/ (indexed \/ good) /\ InfoDone
        \/ good /\ ~Cut /\ scan = "load" /\ Continue(png)
        \/ ~(IF scan = "header" THEN indexed \/ good ELSE good /\ ~Cut) /\ PngFail

\* Mutant: the data of an indexed picture need no palette.
DataExpectedUnchecked == Started

DataExpected == Started /\ ~(png.header.color = 3 /\ png.paletteLength = 0)

DataBefore == IF png.idata = Unset THEN <<>> ELSE png.idata

ImageData ==
  /\ NextIs("IDAT")
  /\ \/ DataExpected /\ InfoDone
     \/ /\ DataExpected /\ scan = "load" /\ ~Cut
        /\ Continue([png EXCEPT !.idata = DataBefore \o Head(rest).data])
     \/ ~(DataExpected /\ (scan = "header" \/ ~Cut)) /\ PngFail

\* IEND: the image data is inflated.  The first guess of its size is one row
\* of bytes per channel, and a filter byte per row.
ImageEnd ==
  /\ NextIs("IEND")
  /\ \/ Started /\ InfoDone
     \/ /\ Started /\ scan = "load" /\ png.idata # Unset
        /\ reading' = "inflating"
        /\ LET h == png.header
               guess == (((h.width * h.depth + 7) \div 8) * Channels(h.color) + 1) * h.height
           IN InflateStart(png.idata, guess, ~png.iphone)
        /\ UNCHANGED <<file, rest, scan, png, info, image>>
     \/ ~(Started /\ (scan = "header" \/ png.idata # Unset)) /\ PngFail

Iphone == NextIs("CgBI") /\ Continue([png EXCEPT !.iphone = TRUE])

\* A chunk of a type the decoder does not know is skipped if it is ancillary.
OtherChunk ==
  /\ reading = "chunks" /\ rest # <<>>
  /\ \/ Head(rest).type = "ancillary" /\ Started /\ Continue(png)
     \/ Head(rest).type = "ancillary" /\ ~Started /\ PngFail
     \/ Head(rest).type = "critical" /\ PngFail

\* Past the end of the file zeros are read: a critical chunk nobody knows.
EndOfFile == reading = "chunks" /\ rest = <<>> /\ PngFail

Inflates ==
  /\ reading = "inflating"
  /\ InflateStep
  /\ UNCHANGED pngVars

\* create_png_image, once the data is inflated
CreateImage ==
  /\ reading = "inflating" /\ stage \in {"accepted", "refused"}
  /\ LET passes == Passes(png.header, zout)
         good == /\ stage = "accepted"
                 /\ \A p \in DOMAIN passes : PassAcceptable(png.header, passes[p])
     IN \/ /\ good
           /\ image' = Picture(png.header, passes) /\ reading' = "done"
           /\ UNCHANGED <<file, rest, scan, png, info, inflateVars>>
        \/ ~good /\ PngFail

PngNext ==
  \/ ImageHeader \/ Palette \/ Transparency \/ ImageData \/ ImageEnd
  \/ Iphone \/ OtherChunk \/ EndOfFile
  \/ Inflates \/ CreateImage

PngSpec == PngInit /\ [][PngNext]_<<pngVars, inflateVars>>

=============================================================================
