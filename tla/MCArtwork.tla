------------------------------- MODULE MCArtwork -------------------------------
(***************************************************************************)
(* Instances of Artwork for TLC: files that are downloaded while the tool  *)
(* reads them, and pictures of many shapes on targets of many shapes.      *)
(***************************************************************************)
EXTENDS Artwork

CONSTANTS Shapes, Dims   \* <<source width, height, target width, height>>; dim_millis

-----------------------------------------------------------------------------
(* Files: the parts of a JPEG between its first and its last marker, or the  *)
(* chunks of a PNG, and how many bytes of it make a whole picture.           *)

Segment(payload) == <<255, 224, 0, Len(payload) + 2>> \o payload
Scan(coded) == <<255, 218, 0, 2>> \o coded
Scans == {Scan(<<>>), Scan(<<255, 0, 7>>), Scan(<<9, 255, 208, 255, 255, 0>>)}
JpegParts == Scans \union
  {Segment(<<255, 217>>), <<255>>, <<255, 209>>, <<255, 216>>, <<255, 224, 0, 1>>, <<7>>}

\* A part that is neither a segment nor a scan may stand where it is ignored:
\* fill bytes before a marker, any byte in the data of a scan.
Sound(parts) ==
  /\ \E i \in DOMAIN parts : parts[i] \in Scans
  /\ \A i \in DOMAIN parts :
       CASE parts[i] \in {<<255, 216>>, <<255, 224, 0, 1>>} -> FALSE
         [] parts[i] = <<7>> -> i > 1 /\ parts[i-1] \in Scans
         [] OTHER -> TRUE

Glued(parts) == Loop(Len(parts), <<>>, LAMBDA file, i: file \o parts[i])

JpegFile(parts) ==
  LET file == <<255, 216>> \o Glued(parts) \o <<255, 217>>
  IN [file |-> file \o <<0>>, whole |-> IF Sound(parts) THEN Len(file) ELSE Len(file) + 2]

PngChunk(type, payload) == <<0, 0, 0, Len(payload)>> \o type \o payload \o <<1, 2, 3, 4>>
IDAT == <<73, 68, 65, 84>>
PngParts == {PngChunk(IHDR, <<8>>), PngChunk(IDAT, IEND), PngChunk(IEND, <<>>),
             <<128, 0, 0, 0>> \o IDAT \o <<1, 2, 3, 4>>}

PngFile(parts) ==
  LET ends == {i \in DOMAIN parts : parts[i] = PngChunk(IEND, <<>>)}
      last == CHOOSE i \in ends : \A j \in ends : i <= j
      sound == /\ parts[1] = PngChunk(IHDR, <<8>>) /\ ends # {}
               /\ \A i \in 1..last : parts[i][1] = 0
      file == Signature \o Glued(parts)
  IN [file |-> file,
      whole |-> IF sound THEN 8 + Len(Glued(SubSeq(parts, 1, last))) ELSE Len(file) + 1]

Files ==
  {JpegFile(parts) : parts \in UNION {[1..n -> JpegParts] : n \in 1..2}}
  \union {PngFile(parts) : parts \in [1..3 -> PngParts]}

-----------------------------------------------------------------------------
(* Pictures                                                                  *)

Noise(w, h) == [y \in 1..h |-> [x \in 1..w |-> ((x*x*31 + y*47 + x*y*71 + 5) * 37) % 256]]
Checkered(w, h) == [y \in 1..h |-> [x \in 1..w |-> 255 * ((x + y) % 2)]]
Flat(w, h, v) == [y \in 1..h |-> [x \in 1..w |-> v]]

Plain == PngFile(<<PngChunk(IHDR, <<8>>), PngChunk(IEND, <<>>)>>)

Job(picture, w, h, dim, before) ==
  [picture |-> picture, width |-> w, height |-> h, dimMillis |-> dim, before |-> before,
   file |-> Plain.file, whole |-> Plain.whole, downloading |-> FALSE, restarts |-> FALSE]

DownloadJob(file, restarts) ==
  [picture |-> Flat(1, 1, 9), width |-> 1, height |-> 1, dimMillis |-> 0, before |-> NoFile,
   file |-> file.file, whole |-> file.whole, downloading |-> TRUE, restarts |-> restarts]

AllJobs ==
  {DownloadJob(f, FALSE) : f \in Files} \union {DownloadJob(Plain, TRUE)}
  \union UNION {
    {Job(picture, s[3], s[4], dim, NoFile) :
       picture \in {Noise(s[1], s[2]), Checkered(s[1], s[2]), Flat(s[1], s[2], 255),
                    Flat(s[1], s[2], 77)}} : s \in Shapes, dim \in Dims}
  \union {Job(Noise(2, 2), 4, 4, 0, Old)}
  \union {Job(Flat(1, 1, 9), w, h, d, Old) : w \in {0, 1, 16385}, h \in {0, 1}, d \in {0, 1001}}

AllShapes == {<<2,18,3,24>>, <<18,2,24,3>>, <<5,3,16,16>>, <<3,5,16,9>>, <<12,4,24,16>>,
              <<7,7,7,7>>, <<1,9,9,1>>, <<16,12,8,6>>}

-----------------------------------------------------------------------------
(* Property                                                                  *)

\* The framing accepts what has been read of a file if and only if it is a
\* whole picture, however much has been downloaded when the tool looks.
FramingIsExact ==
  step = "read" /\ loading.read = loading.size =>
    (IsValidCompleteImage(Take(job.file, loading.size)) <=> loading.size >= job.whole)
=============================================================================
