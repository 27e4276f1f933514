----------------------------- MODULE ImageFraming -----------------------------
(***************************************************************************)
(* What the art tool checks of a file before it decodes it (pipeline.c,    *)
(* is_valid_complete_image): that the markers or chunks of the container   *)
(* lead to its end, which a download that was interrupted does not have.   *)
(*                                                                         *)
(* A file is the sequence of its bytes; positions in it count from 0.      *)
(***************************************************************************)
EXTENDS Loops

At(data, pos) == data[pos + 1]

SOI == 216   EOI == 217   SOS == 218   Fill == 255
Restarts == 208..215

\* Mutant: any byte 255 ends the data of a scan.
ScanEndUnstuffed(data, start) ==
  LET end[pos \in 0..Len(data)] ==
        IF pos + 1 >= Len(data) \/ At(data, pos) = Fill THEN pos ELSE end[pos + 1]
  IN end[start]

\* The end of the entropy-coded data that starts at a position: the next
\* marker that does not belong to the data, or the last byte of the file.
ScanEnd(data, start) ==
  LET end[pos \in 0..Len(data)] ==
        IF pos + 1 >= Len(data) THEN pos
        ELSE IF At(data, pos) # Fill \/ At(data, pos + 1) = Fill THEN end[pos + 1]
        ELSE IF At(data, pos + 1) \in {0} \union Restarts THEN end[pos + 2]
        ELSE pos
  IN end[start]

\* The last of the fill bytes that start at a position
LastFill(data, start) ==
  LET last[pos \in 0..Len(data)] ==
        IF pos + 1 < Len(data) /\ At(data, pos + 1) = Fill THEN last[pos + 1] ELSE pos
  IN last[start]

\* The position after the segment whose length is at a position; the end of
\* the file if there is no such segment.
SegmentEnd(data, pos) ==
  LET length == At(data, pos) * 256 + At(data, pos + 1)
  IN IF pos + 1 >= Len(data) THEN Len(data) + 1
     ELSE IF length < 2 \/ length > Len(data) - pos THEN Len(data) + 1
     ELSE pos + length

JpegComplete(data) ==
  LET size == Len(data)
      \* the markers from a position on, after a scan or before the first one
      leads[pos \in 0..(size+1), seenScan \in BOOLEAN] ==
        LET marker == At(data, LastFill(data, pos) + 1)
            next == LastFill(data, pos) + 2
            segmentEnd == SegmentEnd(data, next)
        IN /\ pos + 1 < size
           /\ At(data, pos) = Fill
           /\ LastFill(data, pos) + 1 < size
           /\ CASE marker = EOI -> seenScan
                [] marker = SOI -> FALSE
                [] marker \in {1} \union Restarts -> leads[next, seenScan]
                [] marker = SOS -> segmentEnd <= size
                                   /\ leads[ScanEnd(data, segmentEnd), TRUE]
                [] OTHER -> segmentEnd <= size /\ leads[segmentEnd, seenScan]
  IN size >= 4 /\ leads[2, FALSE]

Signature == <<137, 80, 78, 71, 13, 10, 26, 10>>
IHDR == <<73, 72, 68, 82>>
IEND == <<73, 69, 78, 68>>

PngComplete(data) ==
  LET size == Len(data)
      leads[pos \in 0..size] ==
        LET type == SubSeq(data, pos + 5, pos + 8)
            length == At(data, pos) * 2^24 + At(data, pos + 1) * 2^16
                      + At(data, pos + 2) * 2^8 + At(data, pos + 3)
        IN /\ pos + 12 <= size
           /\ At(data, pos) < 128 /\ length <= size - pos - 12
           /\ pos = 8 => type = IHDR
           /\ type = IEND \/ leads[pos + 12 + length]
  IN size >= 20 /\ Take(data, 8) = Signature /\ leads[8]

IsValidCompleteImage(data) ==
  /\ Len(data) >= 4
  /\ IF At(data, 0) = Fill /\ At(data, 1) = SOI THEN JpegComplete(data)
     ELSE PngComplete(data)
=============================================================================
