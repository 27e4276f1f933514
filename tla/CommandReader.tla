---------------------------- MODULE CommandReader ----------------------------
(* read_commands() of dimmer.c and the pipe it reads: bytes arrive in       *)
(* pieces of any size, a read fills what is left of a fixed buffer, and     *)
(* complete lines are handled from it.  A line that does not fit is dropped *)
(* up to its newline.                                                       *)
EXTENDS Integers, Sequences, FiniteSetsExt

CONSTANTS
  BufferSize,     \* BUFFER_SIZE
  Letters,        \* the bytes that are not a newline
  MaxStream       \* bound: bytes the writer ever writes

ASSUME CommandReaderAssumption ==
  BufferSize \in Nat \ {0} /\ MaxStream \in Nat

Newline == "\n"
Bytes   == Letters \cup {Newline}

VARIABLES
  stream,         \* history: all that was written to the pipe
  taken,          \* history: how much of it was read
  data,           \* input->data, up to input->len
  discarding,     \* input->len = DISCARDING_LINE
  handled,        \* history: the lines given to handle_command()
  open,           \* the daemon holds its end of the pipe
  running         \* app->running

vars == <<stream, taken, data, discarding, handled, open, running>>

Init ==
  /\ stream = <<>> /\ taken = 0
  /\ data = <<>> /\ discarding = FALSE
  /\ handled = <<>>
  /\ open = TRUE /\ running = TRUE

-----------------------------------------------------------------------------
(* The daemon's end *)

Write ==
  /\ open
  /\ \E b \in Bytes : stream' = Append(stream, b)
  /\ Len(stream) < MaxStream
  /\ UNCHANGED <<taken, data, discarding, handled, open, running>>

(* The daemon closes the pipe, or dies. *)
HangUp ==
  /\ open
  /\ open' = FALSE
  /\ UNCHANGED <<stream, taken, data, discarding, handled, running>>

-----------------------------------------------------------------------------
(* The reader *)

Breaks(s) == {i \in 1 .. Len(s) : s[i] = Newline}

(* The loop over the newlines of s: the lines handled up to the n-th byte,  *)
(* and where the next one starts.                                           *)
CutAt(s, n, cut) ==
  IF s[n] # Newline THEN cut
  ELSE [line |-> n + 1, lines |-> Append(cut.lines, SubSeq(s, cut.line, n - 1))]

Cut(s) ==
  LET upto[n \in 0 .. Len(s)] ==
        IF n = 0 THEN [line |-> 1, lines |-> <<>>] ELSE CutAt(s, n, upto[n - 1])
  IN  upto

CompleteLines(s) == Cut(s)[Len(s)].lines

(* Mutant: an unfinished line goes with the read it came in. *)
RemainderDropped(s) == IF Breaks(s) = {} THEN s ELSE <<>>

Remainder(s) == SubSeq(s, Cut(s)[Len(s)].line, Len(s))

(* Mutant: all that was read with the end of a long line goes with it. *)
AfterNewlineDropped(s) == <<>>

(* What is left of s after its first newline. *)
AfterNewline(s) == SubSeq(s, Min(Breaks(s)) + 1, Len(s))

Available == Len(stream) - taken
Room      == BufferSize - Len(data)

(* Mutant: one byte too late. *)
TooLongLate(left) == Len(left) > BufferSize

TooLong(left) == Len(left) = BufferSize

(* A read takes what is there and fits.  While a line is being discarded    *)
(* the buffer counts as empty.                                              *)
ReadCommands ==
  /\ Available > 0
  /\ LET count == IF Available < Room THEN Available ELSE Room
         bytes == data \o SubSeq(stream, taken + 1, taken + count)
         rest  == IF discarding THEN AfterNewline(bytes) ELSE bytes
     IN  /\ taken' = taken + count
         /\ IF discarding /\ Breaks(bytes) = {}
            THEN UNCHANGED <<data, discarding, handled>>
            ELSE LET left == Remainder(rest)
                 IN  /\ handled' = handled \o CompleteLines(rest)
                     /\ discarding' = TooLong(left)
                     /\ data' = IF TooLong(left) THEN <<>> ELSE left

(* Mutant: a read that leaves nothing behind ends the loop. *)
TurnEndsWhenDrained ==
  /\ running
  /\ \/ ReadCommands
     \/ Available = 0 /\ ~open /\ UNCHANGED <<taken, data, discarding, handled>>
  /\ running' = (open /\ taken' < Len(stream))
  /\ UNCHANGED <<stream, open>>

(* One turn of the main loop in which stdin is ready.  A pipe that has been *)
(* hung up ends the loop after one more read, whatever is left in it.       *)
Turn ==
  /\ running
  /\ \/ ReadCommands
     \/ Available = 0 /\ ~open /\ UNCHANGED <<taken, data, discarding, handled>>
  /\ running' = open
  /\ UNCHANGED <<stream, open>>

Next == Write \/ HangUp \/ Turn

Spec == Init /\ [][Next]_vars

FairSpec == Spec /\ WF_vars(Turn)

-----------------------------------------------------------------------------
(* Reference: the lines of a byte stream that are shorter than the buffer,  *)
(* one byte at a time.                                                      *)
Heard(said, b) ==
  IF b # Newline
  THEN [line |-> Append(said.line, b), lines |-> said.lines]
  ELSE [line  |-> <<>>,
        lines |-> IF Len(said.line) < BufferSize
                  THEN Append(said.lines, said.line) ELSE said.lines]

Said(bytes) ==
  LET upto[n \in 0 .. Len(bytes)] ==
        IF n = 0 THEN [line |-> <<>>, lines |-> <<>>] ELSE Heard(upto[n - 1], bytes[n])
  IN  upto

Reference(bytes) == Said(bytes)[Len(bytes)]

(* Properties *)

TypeOK ==
  /\ stream \in Seq(Bytes) /\ taken \in 0 .. Len(stream)
  /\ data \in Seq(Letters) /\ Len(data) =< BufferSize
  /\ handled \in Seq(Seq(Letters))
  /\ discarding \in BOOLEAN /\ open \in BOOLEAN /\ running \in BOOLEAN

(* However the bytes were cut into reads, the commands handled are the      *)
(* complete lines that fit, whole, in order, once each.                     *)
HandledIsReference == handled = Reference(SubSeq(stream, 1, taken)).lines

(* There is always room for a read: a read of no bytes would be taken for   *)
(* the end of stdin and end the helper.                                     *)
RoomForARead == Room > 0

(* What waits in the buffer is the unfinished line, unless it is too long.  *)
BufferIsUnfinishedLine ==
  LET line == Reference(SubSeq(stream, 1, taken)).line
  IN  IF discarding THEN data = <<>> ELSE data = line

(* While the daemon holds the pipe, all that it writes is read. *)
EverythingIsRead ==
  \A n \in 1 .. MaxStream : Len(stream) >= n ~> (taken >= n \/ ~open)
=============================================================================
