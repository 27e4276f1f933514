---------------------------- MODULE ArtworkCache ----------------------------
(* steam.build_artwork and its cache, between the apply of the effect that  *)
(* asks for artwork and the helper that opens it later: a file of the cache *)
(* is rendered beside its place and moved there, kept while it is newer     *)
(* than its source, touched when it is used, pruned when there are too many, *)
(* and named in an ART command that waits in the pipe.                      *)
(*                                                                          *)
(* That a rendered file is complete, and a mapped one left alone, is what   *)
(* Artwork shows of its temporary file.  All artworks count the same size,  *)
(* so that bytes are numbers of files, and no two writes have the same time.*)
EXTENDS Integers, Sequences, FiniteSets

CONSTANTS
  Outputs,      \* the dimmed outputs; naturals, as apply takes them in order
  Games,
  SizeOf,       \* the render size of every output
  MaxFiles,     \* ARTWORK_CACHE_MAX_BYTES
  TrimFiles,    \* ARTWORK_CACHE_TRIM_BYTES
  OldTimes,     \* when the other candidates of find_hero_art may be written
  MaxTime,      \* bound on the clock when an apply begins
  MaxChange,    \* bound on the clock when Steam changes an image
  MaxBacklog,   \* bound on the commands in the pipe when an apply begins
  None

(* An apply that dims no output asks for no artwork.  With more sizes, the  *)
(* artwork for the last output would push out that of the first.            *)
ASSUME SizesAssumption ==
  /\ Outputs # {} /\ Outputs \subseteq Nat /\ IsFiniteSet(Outputs)
  /\ TrimFiles \in Nat /\ MaxFiles \in Nat /\ TrimFiles < MaxFiles
  /\ Cardinality({SizeOf[o] : o \in Outputs}) <= TrimFiles
  /\ OldTimes \subseteq Nat

VARIABLES
  clock,    \* the time of the latest write
  source,   \* the time the image find_hero_art returns was written, by game
  files,    \* the cache: mtime, the time of the source it was made from, and
            \* whether that changed in a way that mtimes do not show
  job,      \* the apply under way
  pipe,     \* the ART commands the helper has not read
  sent,     \* what the latest apply sent for each output so far
  staged,   \* the artwork the helper has for each output
  untouched \* the files the latest apply uses and could not touch

vars == <<clock, source, files, job, pipe, sent, staged, untouched>>

Idle    == [step |-> "idle"]
Nothing == [name \in {} |-> None]

With(f, x, y)   == [z \in DOMAIN f \cup {x} |-> IF z = x THEN y ELSE f[z]]
Without(f, S)   == [z \in DOMAIN f \ S |-> f[z]]

Init ==
  /\ clock = 1
  /\ source \in [Games -> {None, 1}]
  /\ files = Nothing
  /\ job = Idle
  /\ pipe = <<>> /\ sent = Nothing
  /\ staged = [o \in Outputs |-> None]
  /\ untouched = {}

-----------------------------------------------------------------------------
(* The cache *)

(* prune_artwork_cache: the oldest go, but never the current one.           *)
Older(cache, current, name) ==
  {other \in DOMAIN cache \ {current} : cache[other].mtime < cache[name].mtime}

Doomed(cache, current) ==
  IF Cardinality(DOMAIN cache) <= MaxFiles THEN {}
  ELSE {name \in DOMAIN cache \ {current} :
          Cardinality(Older(cache, current, name))
            < Cardinality(DOMAIN cache) - TrimFiles}

(* A file whose stat or unlink fails stays, and so do those after it.       *)
Prunings(cache, current) ==
  {Without(cache, gone) : gone \in SUBSET Doomed(cache, current)}

(* Mutant: any file of that name will do. *)
FreshWhenThere(name) == name \in DOMAIN files

Fresh(name) ==
  name \in DOMAIN files /\ files[name].mtime >= source[name[1]]

-----------------------------------------------------------------------------
(* apply, one output after the other *)

Current   == CHOOSE o \in job.todo : \A p \in job.todo : o <= p
Requested == <<job.game, SizeOf[Current]>>

Apply(game) ==
  /\ job = Idle
  /\ clock <= MaxTime /\ Len(pipe) <= MaxBacklog
  /\ job' = [step |-> "ask", game |-> game, todo |-> Outputs, built |-> Nothing]
  /\ sent' = Nothing /\ untouched' = {}
  /\ UNCHANGED <<clock, source, files, pipe, staged>>

(* artwork_requests keeps the answer for the outputs that come after; the   *)
(* ART command goes out.                                                    *)
Answers(artwork) ==
  /\ job' = IF job.todo = {Current} THEN Idle
            ELSE [step |-> "ask", game |-> job.game, todo |-> job.todo \ {Current},
                  built |-> With(job.built, Requested, artwork)]
  /\ pipe' = Append(pipe, <<Current, artwork>>)
  /\ sent' = With(sent, Current, artwork)
  /\ UNCHANGED <<source, staged>>

AnswerAgain ==
  /\ job.step = "ask"
  /\ Requested \in DOMAIN job.built
  /\ Answers(job.built[Requested])
  /\ UNCHANGED <<clock, files, untouched>>

Asked == job.step = "ask" /\ Requested \notin DOMAIN job.built

(* No image, no tool, or a file operation that fails.                       *)
Unavailable ==
  /\ Asked
  /\ Answers(None)
  /\ UNCHANGED <<clock, files, untouched>>

(* A path that find_hero_art returned and that is not the one it would now  *)
(* return is compared as if the image had changed after the comparison.     *)
Found ==
  /\ Asked
  /\ source[job.game] # None
  /\ Fresh(Requested)
  /\ job' = [step |-> "hit", game |-> job.game, todo |-> job.todo,
             built |-> job.built, file |-> files[Requested]]
  /\ UNCHANGED <<clock, source, files, pipe, sent, staged, untouched>>

(* Mutant: a file that is used again keeps its age. *)
FoundIsEnough ==
  /\ job.step = "hit"
  /\ files' \in Prunings(files, Requested)
  /\ Answers(Requested)
  /\ UNCHANGED <<clock, untouched>>

Touched ==
  /\ job.step = "hit"
  /\ clock' = clock + 1
  /\ files' \in Prunings(With(files, Requested, [job.file EXCEPT !.mtime = clock']),
                         Requested)
  /\ Answers(Requested)
  /\ UNCHANGED untouched

(* The error is ignored: the file is sent and keeps its age.                *)
TouchFails ==
  /\ job.step = "hit"
  /\ files' \in Prunings(files, Requested)
  /\ untouched' = untouched \cup {Requested}
  /\ Answers(Requested)
  /\ UNCHANGED clock

(* theater-art reads the source, writes beside the target, moves what it    *)
(* wrote there with the mtime of the last write, and exits.                 *)
RenderBegins ==
  /\ Asked
  /\ source[job.game] # None
  /\ ~Fresh(Requested)
  /\ job' = [step |-> "render", game |-> job.game, todo |-> job.todo, built |-> job.built,
             file |-> [mtime |-> 0, from |-> source[job.game], overtaken |-> FALSE]]
  /\ UNCHANGED <<clock, source, files, pipe, sent, staged, untouched>>

RenderWritten ==
  /\ job.step = "render"
  /\ clock' = clock + 1
  /\ job' = [job EXCEPT !.step = "written", !.file.mtime = clock']
  /\ UNCHANGED <<source, files, pipe, sent, staged, untouched>>

RenderMoved ==
  /\ job.step = "written"
  /\ files' = With(files, Requested, job.file)
  /\ job' = [job EXCEPT !.step = "moved"]
  /\ UNCHANGED <<clock, source, pipe, sent, staged, untouched>>

RenderDone ==
  /\ job.step = "moved"
  /\ files' \in Prunings(files, Requested)
  /\ Answers(Requested)
  /\ UNCHANGED <<clock, untouched>>

(* The tool fails, or is killed when its three seconds are over: also when  *)
(* its file is in place already, which is then not pruned for.              *)
RenderFails ==
  /\ job.step \in {"render", "written", "moved"}
  /\ Answers(None)
  /\ UNCHANGED <<clock, files, untouched>>

-----------------------------------------------------------------------------
(* Steam and the helper *)

(* An image arrives between the comparison and the end of touch, or while   *)
(* theater-art may have read the one before: what is made of that one gets  *)
(* the later time.                                                          *)
SourceReplaced(game) ==
  /\ clock <= MaxChange
  /\ clock' = clock + 1
  /\ source' = [source EXCEPT ![game] = clock']
  /\ job' = IF job.step \in {"hit", "render"} /\ job.game = game
            THEN [job EXCEPT !.file.overtaken = TRUE] ELSE job
  /\ UNCHANGED <<files, pipe, sent, staged, untouched>>

(* find_hero_art takes the largest of what is there: another file, whenever *)
(* it was written, becomes that, or none is left.                           *)
SourceTakenOver(game) ==
  /\ clock <= MaxChange /\ source[game] # None
  /\ \E image \in {t \in OldTimes : t <= clock} \cup {None} :
       source' = [source EXCEPT ![game] = image]
  /\ files' = [name \in DOMAIN files |->
                IF name[1] = game THEN [files[name] EXCEPT !.overtaken = TRUE]
                ELSE files[name]]
  /\ job' = IF job.step \in {"hit", "render", "written"} /\ job.game = game
            THEN [job EXCEPT !.file.overtaken = TRUE] ELSE job
  /\ UNCHANGED <<clock, pipe, sent, staged, untouched>>

(* handle_art: a file that cannot be opened leaves the output as it was. *)
ArtHandled ==
  /\ pipe # <<>>
  /\ \E output \in {Head(pipe)[1]}, artwork \in {Head(pipe)[2]} :
       staged' = IF artwork = None THEN [staged EXCEPT ![output] = None]
                 ELSE IF artwork \in DOMAIN files
                 THEN [staged EXCEPT ![output] = artwork]
                 ELSE staged
  /\ pipe' = Tail(pipe)
  /\ UNCHANGED <<clock, source, files, job, sent, untouched>>

(* The next command finds the pipe broken and ends the apply, or finds the  *)
(* exit noticed and is the first that a new helper is told.                 *)
HelperExits ==
  /\ pipe' = <<>> /\ sent' = Nothing
  /\ staged' = [o \in Outputs |-> None]
  /\ job' \in {job} \cup (IF job.step = "ask" THEN {Idle} ELSE {})
  /\ UNCHANGED <<clock, source, files, untouched>>

Next ==
  \/ \E game \in Games : Apply(game) \/ SourceReplaced(game) \/ SourceTakenOver(game)
  \/ AnswerAgain \/ Unavailable
  \/ Found \/ Touched \/ TouchFails
  \/ RenderBegins \/ RenderWritten \/ RenderMoved \/ RenderDone
  \/ RenderFails
  \/ ArtHandled \/ HelperExits

Spec == Init /\ [][Next]_vars

-----------------------------------------------------------------------------
(* Properties *)

(* Once the helper has read what the latest apply sent, every output shows  *)
(* it: no file was pruned between its ART command and the helper's open,    *)
(* which would leave the artwork of the game before.  The exception is a    *)
(* file that build_artwork uses although touch failed, which is as old as   *)
(* it was and may be the next to go.                                        *)
ShowsWhatWasSent ==
  pipe = <<>> =>
    \A output \in DOMAIN sent :
      staged[output] = sent[output] \/ sent[output] \in untouched

(* A file that counts as up to date was made from the image that is there   *)
(* now.  There are three exceptions: an image that arrived while the file   *)
(* was being made, one that arrived between the comparison and the touch,   *)
(* and another image that is the largest now.                               *)
NeverStale ==
  \A name \in {n \in DOMAIN files : source[n[1]] # None} :
    \/ files[name].mtime < source[name[1]]
    \/ files[name].from = source[name[1]]
    \/ files[name].overtaken
=============================================================================
