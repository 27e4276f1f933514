------------------------- MODULE ArtworkCacheProofs -------------------------
(* The safety properties of ArtworkCache, for any outputs and sizes, any    *)
(* games, and any limits of the cache that leave room for one artwork of    *)
(* each size.                                                               *)
(*                                                                          *)
(* Why nothing that was sent is pruned: while an apply runs, every file it  *)
(* makes or uses becomes the newest of the cache, so that all files at      *)
(* least as new as one of them are of the same game.  There are no more of  *)
(* these than sizes, which is what the trimmed cache has room for.  A file  *)
(* that touch failed for is left out: nothing keeps that one.               *)
EXTENDS ArtworkCache, FiniteSetTheorems, SequenceTheorems,
        WellFoundedInduction, TLAPS

Sizes    == {SizeOf[o] : o \in Outputs}
Names    == Games \X Sizes
Artworks == Names \cup {None}
File     == [mtime : Nat, from : Nat, overtaken : BOOLEAN]

(* f is a function from a part of S to T. *)
Partial(f, S, T) == DOMAIN f \subseteq S /\ f \in [DOMAIN f -> T]

(* The apply under way; what it has built so far is BuiltOK's to say. *)
Asking(built) ==
  [step : {"ask"}, game : Games, todo : (SUBSET Outputs) \ {{}},
   built : {built}]

Making(built) ==
  [step : {"hit", "render", "written", "moved"}, game : Games,
   todo : (SUBSET Outputs) \ {{}}, built : {built}, file : File]

TypeOK ==
  /\ clock \in Nat
  /\ source \in [Games -> Nat \cup {None}]
  /\ Partial(files, Names, File) /\ IsFiniteSet(DOMAIN files)
  /\ job = Idle \/ job \in Asking(job.built) \cup Making(job.built)
  /\ pipe \in Seq(Outputs \X Artworks)
  /\ Partial(sent, Outputs, Artworks)
  /\ staged \in [Outputs -> Artworks]
  /\ untouched \subseteq Names

-----------------------------------------------------------------------------
(* The inductive invariant *)

(* Nothing was written after the latest write. *)
TimesOK ==
  /\ \A game \in Games : source[game] # None => source[game] <= clock
  /\ \A name \in DOMAIN files : files[name].mtime <= clock

UpToDate(game, file) ==
  source[game] # None => \/ file.mtime < source[game]
                         \/ file.from = source[game]
                         \/ file.overtaken

(* What is being used or made is of the image of now; what is made is newer *)
(* than all files.                                                          *)
JobOK ==
  /\ job.step \in {"hit", "render"} =>
       (source[job.game] # None =>
          job.file.from = source[job.game] \/ job.file.overtaken)
  /\ job.step = "written" =>
       /\ UpToDate(job.game, job.file)
       /\ job.file.mtime <= clock
       /\ \A name \in DOMAIN files : files[name].mtime < job.file.mtime
  /\ job.step = "moved" =>
       /\ Requested \in DOMAIN files
       /\ \A name \in DOMAIN files \ {Requested} :
            files[name].mtime < files[Requested].mtime

(* A file that all newer ones share the game with. *)
Kept(cache, name) ==
  /\ name \in DOMAIN cache
  /\ \A other \in DOMAIN cache :
       cache[other].mtime >= cache[name].mtime => other[1] = name[1]

(* What the apply has found or made, and what it has sent, is kept.         *)
BuiltOK ==
  job # Idle =>
    \A name \in DOMAIN job.built :
      \/ job.built[name] = None
      \/ job.built[name] = name /\ name \in untouched
      \/ /\ job.built[name] = name
         /\ name[1] = job.game
         /\ Kept(files, name)

SentOK ==
  \A o \in DOMAIN sent :
    \/ sent[o] = None
    \/ sent[o] \in untouched
    \/ /\ Kept(files, sent[o])
       /\ job # Idle => sent[o][1] = job.game

(* The last command for an output is the one that was sent last, or it is   *)
(* read and nothing else is on its way.                                     *)
Silent(o, from) == \A j \in from .. Len(pipe) : pipe[j][1] # o

Delivered(o) ==
  \/ \E i \in 1 .. Len(pipe) : pipe[i] = <<o, sent[o]>> /\ Silent(o, i + 1)
  \/ staged[o] = sent[o] /\ Silent(o, 1)

PipeOK == \A o \in DOMAIN sent : sent[o] \in untouched \/ Delivered(o)

IInv ==
  /\ TypeOK
  /\ TimesOK
  /\ NeverStale
  /\ JobOK
  /\ BuiltOK
  /\ SentOK
  /\ PipeOK

-----------------------------------------------------------------------------
(* Lemmas about the operators *)

(* A job that is not idle has the fields of one. *)
LEMMA JobShape ==
  ASSUME TypeOK
  PROVE  /\ Idle.step = "idle"
         /\ job # Idle =>
              /\ job \in Asking(job.built) \cup Making(job.built)
              /\ job.step \in {"ask", "hit", "render", "written", "moved"}
              /\ job.game \in Games
              /\ job.todo \in (SUBSET Outputs) \ {{}}
         /\ job.step = "ask" => job \in Asking(job.built)
         /\ job.step \in {"hit", "render", "written", "moved"} =>
              job \in Making(job.built)
BY DEF TypeOK, Asking, Making, Idle

(* Every set of outputs has a first one. *)
LEMMA FirstOutput ==
  ASSUME NEW S \in (SUBSET Outputs) \ {{}}
  PROVE  (CHOOSE o \in S : \A p \in S : o <= p) \in S
<1>1. S \subseteq Nat
  BY SizesAssumption
<1>2. PICK o \in S : \A p \in S : ~(<<p, o>> \in OpToRel(<, Nat))
  BY <1>1, NatLessThanWellFounded, WFMin
<1>3. ASSUME NEW p \in S
      PROVE  o <= p
  <2>1. ~(p < o)
    BY <1>1, <1>2, <<p, o>> \in Nat \X Nat, Zenon DEF OpToRel
  <2>2. QED
    BY <1>1, <2>1
<1>4. QED
  BY <1>3

(* What the apply asks for next is a name of the cache.                     *)
LEMMA RequestedIsName ==
  ASSUME TypeOK, job # Idle
  PROVE  /\ Current \in Outputs
         /\ Current \in job.todo
         /\ Requested \in Names
         /\ Requested[1] = job.game
<1>1. job.game \in Games /\ job.todo \in (SUBSET Outputs) \ {{}}
  BY JobShape
<1>2. Current \in job.todo
  BY <1>1, FirstOutput DEF Current
<1>3. QED
  BY <1>1, <1>2 DEF Requested, Names, Sizes

(* What With and Without leave of a function. *)
LEMMA WithPartial ==
  ASSUME NEW S, NEW T, NEW f, Partial(f, S, T), NEW x \in S, NEW y \in T
  PROVE  /\ Partial(With(f, x, y), S, T)
         /\ DOMAIN With(f, x, y) = DOMAIN f \cup {x}
         /\ With(f, x, y)[x] = y
         /\ \A z \in DOMAIN f \ {x} : With(f, x, y)[z] = f[z]
BY DEF Partial, With

(* A cache without some of its files is a cache.                            *)
LEMMA WithoutPartial ==
  ASSUME NEW S, NEW T, NEW f, Partial(f, S, T), NEW gone
  PROVE  /\ Partial(Without(f, gone), S, T)
         /\ DOMAIN Without(f, gone) = DOMAIN f \ gone
         /\ \A z \in DOMAIN f \ gone : Without(f, gone)[z] = f[z]
BY DEF Partial, Without

(* Pruning only removes files, and there are finitely many left. *)
LEMMA PrunedPartial ==
  ASSUME NEW cache, Partial(cache, Names, File), IsFiniteSet(DOMAIN cache),
         NEW current, NEW pruned \in Prunings(cache, current)
  PROVE  /\ Partial(pruned, Names, File)
         /\ IsFiniteSet(DOMAIN pruned)
         /\ DOMAIN pruned \subseteq DOMAIN cache
         /\ \A name \in DOMAIN pruned : pruned[name] = cache[name]
         /\ \A name \in DOMAIN cache \ Doomed(cache, current) :
              name \in DOMAIN pruned
<1>1. PICK gone \in SUBSET Doomed(cache, current) : pruned = Without(cache, gone)
  BY DEF Prunings
<1>2. IsFiniteSet(DOMAIN cache \ gone)
  BY FS_Difference
<1>3. /\ Partial(pruned, Names, File)
      /\ DOMAIN pruned = DOMAIN cache \ gone
      /\ \A name \in DOMAIN cache \ gone : pruned[name] = cache[name]
  BY <1>1, WithoutPartial
<1>4. QED
  BY <1>2, <1>3

(* One game has no more files than a trimmed cache holds. *)
LEMMA FilesOfOneGame ==
  ASSUME NEW game
  PROVE  /\ IsFiniteSet({game} \X Sizes)
         /\ Cardinality({game} \X Sizes) \in Nat
         /\ Cardinality({game} \X Sizes) <= TrimFiles
<1>1. IsFiniteSet(Sizes)
  <2> DEFINE f == [o \in Outputs |-> SizeOf[o]]
  <2>1. f \in Surjection(Outputs, Sizes)
    BY DEF Surjection, Sizes
  <2>2. QED
    BY <2>1, FS_Surjection, SizesAssumption
<1>2. IsFiniteSet({game}) /\ Cardinality({game}) = 1
  BY FS_Singleton
<1>3. /\ IsFiniteSet({game} \X Sizes)
      /\ Cardinality({game} \X Sizes) = 1 * Cardinality(Sizes)
  BY <1>1, <1>2, FS_Product
<1>4. Cardinality(Sizes) \in Nat /\ Cardinality(Sizes) <= TrimFiles
  BY <1>1, FS_CardinalityType, SizesAssumption DEF Sizes
<1>5. QED
  BY <1>3, <1>4

(* prune_artwork_cache keeps what the apply that calls it needs. *)
LEMMA PruneKeeps ==
  ASSUME NEW cache, Partial(cache, Names, File), IsFiniteSet(DOMAIN cache),
         NEW current \in Names, NEW pruned \in Prunings(cache, current),
         NEW name, Kept(cache, name), name[1] = current[1]
  PROVE  Kept(pruned, name)
<1> DEFINE older == Older(cache, current, name)
           same  == {current[1]} \X Sizes
           D     == DOMAIN cache
<1>1. name \in D \ Doomed(cache, current)
  <2>1. CASE Cardinality(D) <= MaxFiles \/ name = current
    BY <2>1 DEF Doomed, Kept
  <2>2. CASE ~(Cardinality(D) <= MaxFiles) /\ name # current
    <3>1. older \subseteq D
      BY DEF Older
    <3>2. D \ older \subseteq same
      <4> SUFFICES ASSUME NEW other \in D, other \notin older
                   PROVE  other \in same
        OBVIOUS
      <4>1. other \in Names /\ name \in D
        BY DEF Partial, Kept
      <4>2. other[1] = current[1]
        <5>1. cache[other].mtime \in Nat /\ cache[name].mtime \in Nat
          BY <4>1 DEF Partial, File
        <5>2. QED
          BY <4>1, <5>1 DEF Kept, Older
      <4>3. QED
        BY <4>1, <4>2 DEF Names
    <3>3. /\ Cardinality(D \ older) \in Nat
          /\ Cardinality(D \ older) <= TrimFiles
      <4>1. /\ IsFiniteSet(D \ older)
            /\ Cardinality(D \ older) <= Cardinality(same)
        BY <3>2, FilesOfOneGame, FS_Subset
      <4>2. Cardinality(D \ older) \in Nat
        BY <4>1, FS_CardinalityType
      <4>3. Cardinality(same) \in Nat /\ Cardinality(same) <= TrimFiles
        BY FilesOfOneGame
      <4>4. TrimFiles \in Nat
        BY SizesAssumption
      <4> HIDE DEF same, older, D
      <4>5. QED
        BY <4>1, <4>2, <4>3, <4>4
    <3>4. /\ Cardinality(D) \in Nat /\ Cardinality(older) \in Nat
          /\ Cardinality(D \ older) = Cardinality(D) - Cardinality(older)
      <4>1. D \cap older = older /\ IsFiniteSet(older)
        BY <3>1, FS_Subset
      <4>2. QED
        BY <4>1, FS_Difference, FS_CardinalityType
    <3>5. ~(Cardinality(older) < Cardinality(D) - TrimFiles)
      BY <3>3, <3>4, SizesAssumption
    <3>6. QED
      BY <2>2, <3>5 DEF Doomed, Kept
  <2>3. QED
    BY <2>1, <2>2
<1>2. QED
  BY <1>1, PrunedPartial DEF Kept

(* The file an apply has just made or used is kept, and with it the others  *)
(* of its game.                                                             *)
LEMMA NewestKeeps ==
  ASSUME NEW old, NEW new, NEW newest,
         Partial(old, Names, File), Partial(new, Names, File),
         DOMAIN new = DOMAIN old \cup {newest},
         \A other \in DOMAIN old \ {newest} :
           new[other] = old[other] /\ new[other].mtime < new[newest].mtime
  PROVE  /\ Kept(new, newest)
         /\ \A name : Kept(old, name) /\ name[1] = newest[1] => Kept(new, name)
<1>1. \A name \in DOMAIN new : new[name].mtime \in Nat
  BY DEF Partial, File
<1>2. Kept(new, newest)
  BY <1>1 DEF Kept
<1>3. ASSUME NEW name, Kept(old, name), name[1] = newest[1]
      PROVE  Kept(new, name)
  BY <1>2, <1>3 DEF Kept
<1>4. QED
  BY <1>2, <1>3

-----------------------------------------------------------------------------
(* The pipe *)

(* A command that is appended is the last for its output. *)
LEMMA AppendDelivers ==
  ASSUME TypeOK, PipeOK, NEW output \in Outputs, NEW artwork \in Artworks,
         pipe' = Append(pipe, <<output, artwork>>),
         sent' = With(sent, output, artwork), UNCHANGED staged,
         untouched \subseteq untouched'
  PROVE  PipeOK'
<1>1. /\ DOMAIN sent' = DOMAIN sent \cup {output}
      /\ sent'[output] = artwork
      /\ \A z \in DOMAIN sent \ {output} : sent'[z] = sent[z]
  BY DEF With
<1>2. /\ Len(pipe) \in Nat
      /\ Len(pipe') = Len(pipe) + 1
      /\ \A j \in 1 .. Len(pipe) : pipe'[j] = pipe[j]
      /\ pipe'[Len(pipe) + 1] = <<output, artwork>>
  BY AppendProperties, LenProperties DEF TypeOK
<1>3. ASSUME NEW o \in DOMAIN sent'
      PROVE  sent'[o] \in untouched' \/ Delivered(o)'
  <2>1. CASE o = output
    BY <1>1, <1>2, <2>1 DEF Delivered, Silent
  <2>2. CASE o # output
    <3>1. ASSUME NEW from \in Nat \ {0}, Silent(o, from)
          PROVE  Silent(o, from)'
      BY <1>2, <2>2, <3>1 DEF Silent
    <3>2. CASE \E k \in 1 .. Len(pipe) :
                 pipe[k] = <<o, sent[o]>> /\ Silent(o, k + 1)
      <4>1. PICK k \in 1 .. Len(pipe) :
              pipe[k] = <<o, sent[o]>> /\ Silent(o, k + 1)
        BY <3>2
      <4>2. k \in 1 .. Len(pipe') /\ pipe'[k] = <<o, sent'[o]>>
        BY <1>1, <1>2, <1>3, <2>2, <4>1
      <4>3. Silent(o, k + 1)'
        BY <1>2, <3>1, <4>1
      <4>4. QED
        BY <4>2, <4>3 DEF Delivered
    <3>3. CASE staged[o] = sent[o] /\ Silent(o, 1)
      BY <1>1, <1>3, <2>2, <3>1, <3>3 DEF Delivered
    <3>4. CASE sent[o] \in untouched
      BY <1>1, <1>3, <2>2, <3>4
    <3>5. QED
      BY <1>1, <1>3, <2>2, <3>2, <3>3, <3>4 DEF PipeOK, Delivered
  <2>3. QED
    BY <2>1, <2>2
<1>4. QED
  BY <1>3 DEF PipeOK

(* A command that is read for the output it is the last for leaves it with  *)
(* what it names, because the file is there.                                *)
LEMMA HandledDelivers ==
  ASSUME TypeOK, SentOK, PipeOK, ArtHandled
  PROVE  PipeOK'
<1> DEFINE output == Head(pipe)[1]
           artwork == Head(pipe)[2]
<1>1. /\ pipe # <<>>
      /\ staged' = IF artwork = None THEN [staged EXCEPT ![output] = None]
                   ELSE IF artwork \in DOMAIN files
                   THEN [staged EXCEPT ![output] = artwork]
                   ELSE staged
      /\ pipe' = Tail(pipe) /\ sent' = sent
      /\ untouched' = untouched
  BY DEF ArtHandled
<1>2. /\ Len(pipe) \in Nat \ {0}
      /\ Len(pipe') = Len(pipe) - 1
      /\ \A j \in 1 .. Len(pipe') : pipe'[j] = pipe[j + 1]
      /\ Head(pipe) = pipe[1]
  BY <1>1, HeadTailProperties, EmptySeq DEF TypeOK
<1>3. output \in Outputs
  BY <1>1, HeadTailProperties DEF TypeOK
<1>4. \A o \in Outputs \ {output} : staged'[o] = staged[o]
  BY <1>1 DEF TypeOK
<1> HIDE DEF output, artwork
<1>5. ASSUME NEW o \in DOMAIN sent, sent[o] \notin untouched
      PROVE  Delivered(o)'
  <2>1. o \in Outputs
    BY DEF TypeOK, Partial
  <2>2. \A from \in Nat \ {0} : Silent(o, from + 1) => Silent(o, from)'
    BY <1>2 DEF Silent
  <2>3. ASSUME NEW k \in 1 .. Len(pipe), k # 1,
               pipe[k] = <<o, sent[o]>>, Silent(o, k + 1)
        PROVE  Delivered(o)'
    <3>1. k - 1 \in 1 .. Len(pipe') /\ pipe'[k - 1] = <<o, sent'[o]>>
      BY <1>1, <1>2, <2>3
    <3>2. Silent(o, (k - 1) + 1)'
      BY <2>2, <2>3
    <3>3. QED
      BY <3>1, <3>2 DEF Delivered
  <2>4. CASE pipe[1] = <<o, sent[o]>> /\ Silent(o, 2)
    <3>1. output = o /\ artwork = sent[o]
      BY <1>2, <2>4 DEF output, artwork
    <3>2. staged'[o] = sent'[o]
      BY <1>1, <1>5, <2>1, <3>1 DEF TypeOK, SentOK, Kept
    <3>3. Silent(o, 1)'
      BY <2>2, <2>4
    <3>4. QED
      BY <3>2, <3>3 DEF Delivered
  <2>5. CASE staged[o] = sent[o] /\ Silent(o, 1)
    <3>1. output # o
      BY <1>2, <2>5 DEF Silent, output
    <3>2. Silent(o, 2)
      BY <1>2, <2>5 DEF Silent
    <3>3. Silent(o, 1)'
      BY <2>2, <3>2
    <3>4. staged'[o] = sent'[o]
      BY <1>1, <1>4, <2>1, <2>5, <3>1
    <3>5. QED
      BY <3>3, <3>4 DEF Delivered
  <2>6. \/ \E k \in 1 .. Len(pipe) :
             pipe[k] = <<o, sent[o]>> /\ Silent(o, k + 1)
        \/ staged[o] = sent[o] /\ Silent(o, 1)
    BY <1>5 DEF PipeOK, Delivered
  <2>7. QED
    BY <2>3, <2>4, <2>5, <2>6
<1>6. QED
  BY <1>1, <1>5 DEF PipeOK

-----------------------------------------------------------------------------
(* The end of an output's turn *)

(* An answer preserves the invariant if it names a file that is kept, one   *)
(* that touch failed for, or none, and if what was kept still is.           *)
LEMMA AnswersPreserve ==
  ASSUME IInv, job # Idle, NEW artwork, artwork = None \/ artwork = Requested,
         Answers(artwork),
         clock' \in Nat, clock <= clock',
         Partial(files', Names, File), IsFiniteSet(DOMAIN files'),
         NeverStale', \A name \in DOMAIN files' : files'[name].mtime <= clock',
         untouched \subseteq untouched', untouched' \subseteq Names,
         artwork = None \/ artwork \in untouched' \/ Kept(files', artwork),
         \A name : Kept(files, name) /\ name[1] = job.game => Kept(files', name)
  PROVE  IInv'
<1>1. /\ job' = IF job.todo = {Current} THEN Idle
                ELSE [step |-> "ask", game |-> job.game,
                      todo |-> job.todo \ {Current},
                      built |-> With(job.built, Requested, artwork)]
      /\ pipe' = Append(pipe, <<Current, artwork>>)
      /\ sent' = With(sent, Current, artwork)
      /\ source' = source /\ staged' = staged
  BY DEF Answers
<1>2. /\ Current \in Outputs /\ Current \in job.todo
      /\ Requested[1] = job.game
      /\ artwork \in Artworks
      /\ job.game \in Games /\ job.todo \in SUBSET Outputs
  BY RequestedIsName, JobShape DEF IInv, Artworks
<1> HIDE DEF Current, Requested
<1>3. TypeOK'
  <2>1. job' = Idle \/ job' \in Asking(job'.built) \cup Making(job'.built)
    <3>1. CASE job.todo = {Current}
      BY <1>1, <3>1
    <3>2. CASE job.todo # {Current}
      BY <1>1, <1>2, <3>2 DEF Asking
    <3>3. QED
      BY <3>1, <3>2
  <2>2. pipe' \in Seq(Outputs \X Artworks)
    BY <1>1, <1>2, AppendProperties DEF IInv, TypeOK
  <2>3. Partial(sent', Outputs, Artworks)
    BY <1>1, <1>2, WithPartial DEF IInv, TypeOK
  <2>4. QED
    BY <1>1, <2>1, <2>2, <2>3 DEF IInv, TypeOK
<1>4. TimesOK'
  BY <1>1 DEF IInv, TimesOK, TypeOK
<1>5. job'.step \notin {"hit", "render", "written", "moved"}
  BY <1>1 DEF Idle
<1>6. JobOK'
  BY <1>5 DEF JobOK
<1>7. BuiltOK'
  <2> SUFFICES ASSUME job' # Idle, NEW name \in DOMAIN job'.built
               PROVE  \/ job'.built[name] = None
                      \/ job'.built[name] = name /\ name \in untouched'
                      \/ /\ job'.built[name] = name
                         /\ name[1] = job'.game
                         /\ Kept(files', name)
    BY DEF BuiltOK
  <2>1. /\ job'.game = job.game
        /\ job'.built = With(job.built, Requested, artwork)
    BY <1>1
  <2>2. CASE name = Requested
    <3>1. job'.built[name] = artwork
      BY <2>1, <2>2 DEF With
    <3>2. QED
      BY <1>2, <2>1, <2>2, <3>1
  <2>3. CASE name # Requested
    <3>1. name \in DOMAIN job.built /\ job'.built[name] = job.built[name]
      BY <2>1, <2>3 DEF With
    <3>2. QED
      BY <2>1, <3>1 DEF IInv, BuiltOK
  <2>4. QED
    BY <2>2, <2>3
<1>8. SentOK'
  <2> SUFFICES ASSUME NEW o \in DOMAIN sent'
               PROVE  \/ sent'[o] = None
                      \/ sent'[o] \in untouched'
                      \/ /\ Kept(files', sent'[o])
                         /\ job' # Idle => sent'[o][1] = job'.game
    BY DEF SentOK
  <2>1. job' # Idle => job'.game = job.game
    BY <1>1
  <2>2. CASE o = Current
    <3>1. sent'[o] = artwork
      BY <1>1, <2>2 DEF With
    <3>2. QED
      BY <1>2, <2>1, <3>1
  <2>3. CASE o # Current
    <3>1. o \in DOMAIN sent /\ sent'[o] = sent[o]
      BY <1>1, <2>3 DEF With
    <3>2. QED
      BY <2>1, <3>1 DEF IInv, SentOK
  <2>4. QED
    BY <2>2, <2>3
<1>9. PipeOK'
  BY <1>1, <1>2, AppendDelivers DEF IInv
<1>10. QED
  BY <1>3, <1>4, <1>6, <1>7, <1>8, <1>9 DEF IInv

(* The files did not change: the answer is known, or there is none. *)
LEMMA AnswersUnchangedPreserve ==
  ASSUME IInv, job # Idle, UNCHANGED <<clock, files, untouched>>,
         NEW artwork, artwork = None \/ artwork = Requested, Answers(artwork),
         artwork = None \/ artwork \in untouched \/ Kept(files, artwork)
  PROVE  IInv'
<1>1. source' = source
  BY DEF Answers
<1>2. NeverStale'
  BY <1>1 DEF IInv, NeverStale
<1>3. clock' \in Nat /\ clock <= clock'
  BY DEF IInv, TypeOK
<1>4. QED
  BY <1>2, <1>3, AnswersPreserve DEF IInv, TypeOK, TimesOK

(* Pruned files are no staler than before. *)
LEMMA PrunedNeverStale ==
  ASSUME NEW cache, Partial(cache, Names, File), IsFiniteSet(DOMAIN cache),
         NEW current, files' \in Prunings(cache, current), source' = source,
         \A name \in DOMAIN cache : UpToDate(name[1], cache[name])
  PROVE  NeverStale'
<1>1. \A name \in DOMAIN files' :
        /\ name \in DOMAIN cache
        /\ files'[name] = cache[name]
  BY PrunedPartial
<1>2. QED
  BY <1>1 DEF NeverStale, UpToDate

-----------------------------------------------------------------------------
(* The actions *)

(* When the daemon starts there is no file, no job and no answer that could be stale. *)
LEMMA InitEstablishes == Init => IInv
<1> SUFFICES ASSUME Init
             PROVE  IInv
  OBVIOUS
<1>1. DOMAIN files = {} /\ DOMAIN sent = {} /\ job.step = "idle"
  BY DEF Init, Nothing, Idle
<1>2. TypeOK
  BY <1>1, FS_EmptySet DEF Init, TypeOK, Partial, Nothing, Artworks
<1>3. TimesOK /\ NeverStale /\ JobOK
  BY <1>1 DEF Init, TimesOK, NeverStale, JobOK
<1>4. BuiltOK /\ SentOK /\ PipeOK
  BY <1>1 DEF Init, BuiltOK, SentOK, PipeOK
<1>5. QED
  BY <1>2, <1>3, <1>4 DEF IInv

(* A new apply: what the last one sent is forgotten, what it left in the    *)
(* pipe is not.                                                             *)
LEMMA ApplyPreserves ==
  ASSUME IInv, NEW game \in Games, Apply(game)
  PROVE  IInv'
<1>1. /\ job' = [step |-> "ask", game |-> game, todo |-> Outputs,
                 built |-> Nothing]
      /\ sent' = Nothing /\ job = Idle /\ untouched' = {}
      /\ UNCHANGED <<clock, source, files, pipe, staged>>
  BY DEF Apply
<1>2. DOMAIN Nothing = {}
  BY DEF Nothing
<1>3. job' \in Asking(job'.built)
  BY <1>1, SizesAssumption DEF Asking
<1>4. Partial(sent', Outputs, Artworks)
  BY <1>1 DEF Nothing, Partial
<1>5. TypeOK'
  BY <1>1, <1>3, <1>4 DEF IInv, TypeOK
<1>6. TimesOK' /\ NeverStale' /\ JobOK'
  BY <1>1 DEF IInv, TimesOK, NeverStale, JobOK
<1>7. BuiltOK' /\ SentOK' /\ PipeOK'
  BY <1>1, <1>2 DEF BuiltOK, SentOK, PipeOK
<1>8. QED
  BY <1>5, <1>6, <1>7 DEF IInv

(* A second output of the same size gets the answer of the first.           *)
LEMMA AnswerAgainPreserves ==
  ASSUME IInv, AnswerAgain
  PROVE  IInv'
<1>1. /\ job # Idle /\ Requested \in DOMAIN job.built
      /\ Answers(job.built[Requested])
      /\ UNCHANGED <<clock, files, untouched>>
  BY JobShape DEF AnswerAgain, IInv
<1>2. \/ job.built[Requested] = None
      \/ job.built[Requested] = Requested /\ Requested \in untouched
      \/ job.built[Requested] = Requested /\ Kept(files, Requested)
  BY <1>1 DEF IInv, BuiltOK
<1>3. CASE job.built[Requested] = None
  BY <1>1, <1>3, AnswersUnchangedPreserve
<1>4. CASE /\ job.built[Requested] = Requested
           /\ Requested \in untouched \/ Kept(files, Requested)
  BY <1>1, <1>4, AnswersUnchangedPreserve
<1>5. QED
  BY <1>2, <1>3, <1>4

(* An artwork that cannot be had, and a tool that fails, are answered alike.*)
LEMMA NoArtworkPreserves ==
  ASSUME IInv, Unavailable \/ RenderFails
  PROVE  IInv'
<1>1. job # Idle
  BY DEF Unavailable, RenderFails, Asked, Idle
<1>2. Answers(None) /\ UNCHANGED <<clock, files, untouched>>
  BY DEF Unavailable, RenderFails
<1>3. QED
  BY <1>1, <1>2, AnswersUnchangedPreserve

(* What has been built and sent stays as it is while files are not touched. *)
LEMMA KeptUnchanged ==
  ASSUME IInv, UNCHANGED <<files, untouched>>,
         job' # Idle, job # Idle,
         job'.game = job.game, job'.built = job.built
  PROVE  /\ BuiltOK'
         /\ sent' = sent => SentOK'
BY DEF IInv, BuiltOK, SentOK, Kept

(* The pipe's part reads nothing but these.                                 *)
LEMMA PipeUnchanged ==
  ASSUME IInv, UNCHANGED <<pipe, sent, staged, untouched>>
  PROVE  PipeOK'
<1>1. ASSUME NEW o \in DOMAIN sent, sent[o] \notin untouched
      PROVE  Delivered(o)'
  <2>1. Delivered(o)
    BY <1>1 DEF IInv, PipeOK
  <2>2. QED
    BY <2>1 DEF Delivered, Silent
<1>2. QED
  BY <1>1 DEF PipeOK

(* A file that counts as up to date was made from the image of now, or is   *)
(* marked already.                                                          *)
LEMMA FoundPreserves ==
  ASSUME IInv, Found
  PROVE  IInv'
<1>1. PICK name : name = Requested
  OBVIOUS
<1>2. /\ job # Idle /\ job.step = "ask"
      /\ name \in DOMAIN files /\ source[job.game] # None
      /\ files[name].mtime >= source[name[1]]
      /\ job' = [step |-> "hit", game |-> job.game, todo |-> job.todo,
                 built |-> job.built, file |-> files[name]]
      /\ UNCHANGED <<clock, source, files, pipe, sent, staged, untouched>>
  BY <1>1 DEF Found, Asked, Fresh, Idle
<1>3. name \in Names /\ name[1] = job.game
  BY <1>1, <1>2, RequestedIsName DEF IInv
<1>4. job.game \in Games /\ job.todo \in (SUBSET Outputs) \ {{}}
  BY <1>2, JobShape DEF IInv
<1>5. files[name] \in File /\ source[job.game] \in Nat
  BY <1>2, <1>4 DEF IInv, TypeOK, Partial
<1>6. job' \in Making(job'.built)
  BY <1>2, <1>4, <1>5 DEF Making
<1>7. TypeOK'
  BY <1>2, <1>6 DEF IInv, TypeOK
<1>8. TimesOK' /\ NeverStale'
  BY <1>2 DEF IInv, TimesOK, NeverStale
<1>9. JobOK'
  <2>1. files[name].from = source[job.game] \/ files[name].overtaken
    BY <1>2, <1>3, <1>5 DEF IInv, NeverStale, File
  <2>2. QED
    BY <1>2, <2>1 DEF JobOK
<1>10. BuiltOK' /\ SentOK'
  <2>1. job' # Idle /\ job'.game = job.game /\ job'.built = job.built
    BY <1>2, <1>6 DEF Making, Idle
  <2>2. QED
    BY <1>2, <2>1, KeptUnchanged
<1>11. PipeOK'
  BY <1>2, PipeUnchanged
<1>12. QED
  BY <1>7, <1>8, <1>9, <1>10, <1>11 DEF IInv

(* A file that is touched becomes the newest, and then pruning keeps it.    *)
LEMMA TouchedPreserves ==
  ASSUME IInv, Touched
  PROVE  IInv'
<1>1. PICK name : name = Requested
  OBVIOUS
<1> DEFINE file    == [job.file EXCEPT !.mtime = clock']
           touched == With(files, name, file)
<1>2. /\ job # Idle /\ job.step = "hit"
      /\ clock' = clock + 1 /\ source' = source /\ untouched' = untouched
      /\ files' \in Prunings(touched, name)
      /\ Answers(name)
  BY <1>1 DEF Touched, Idle, Answers
<1>3. name \in Names /\ name[1] = job.game /\ job.game \in Games
  BY <1>1, <1>2, RequestedIsName, JobShape DEF IInv
<1>4. clock \in Nat /\ clock' \in Nat /\ clock <= clock' /\ clock < clock'
  BY <1>2 DEF IInv, TypeOK
<1>5. job.file \in File
  BY <1>2, JobShape DEF IInv, Making
<1>6. /\ file \in File /\ file.mtime = clock'
      /\ file.from = job.file.from /\ file.overtaken = job.file.overtaken
  BY <1>4, <1>5 DEF File
<1>7. UpToDate(name[1], file)
  BY <1>2, <1>3, <1>6 DEF IInv, JobOK, UpToDate
<1> HIDE DEF file
<1>8. Partial(files, Names, File) /\ IsFiniteSet(DOMAIN files)
  BY DEF IInv, TypeOK
<1>9. /\ Partial(touched, Names, File)
      /\ DOMAIN touched = DOMAIN files \cup {name}
      /\ touched[name] = file
      /\ \A other \in DOMAIN files \ {name} : touched[other] = files[other]
  <2>1. /\ Partial(touched, Names, File)
        /\ DOMAIN touched = DOMAIN files \cup {name}
    BY <1>3, <1>6, <1>8 DEF Partial, With
  <2>2. /\ touched[name] = file
        /\ \A other \in DOMAIN files \ {name} : touched[other] = files[other]
    BY DEF With
  <2>3. QED
    BY <2>1, <2>2
<1>10. IsFiniteSet(DOMAIN touched)
  BY <1>8, <1>9, FS_AddElement
<1>11. \A other \in DOMAIN files : files[other].mtime < clock'
  BY <1>2, <1>4 DEF IInv, TypeOK, TimesOK, Partial, File
<1> HIDE DEF touched
<1>12. /\ Kept(touched, name)
       /\ \A other : Kept(files, other) /\ other[1] = name[1]
                       => Kept(touched, other)
  <2>1. \A other \in DOMAIN files \ {name} :
          touched[other] = files[other] /\ touched[other].mtime < touched[name].mtime
    BY <1>6, <1>9, <1>11
  <2>2. QED
    BY <1>8, <1>9, <2>1, NewestKeeps
<1>13. /\ Kept(files', name)
       /\ \A other : Kept(files, other) /\ other[1] = job.game
                       => Kept(files', other)
  BY <1>2, <1>3, <1>9, <1>10, <1>12, PruneKeeps
<1>14. NeverStale'
  <2>1. \A other \in DOMAIN files : UpToDate(other[1], files[other])
    BY DEF IInv, NeverStale, UpToDate
  <2>2. \A other \in DOMAIN touched : UpToDate(other[1], touched[other])
    BY <1>7, <1>9, <2>1
  <2>3. QED
    BY <1>2, <1>9, <1>10, <2>2, PrunedNeverStale
<1>15. /\ Partial(files', Names, File) /\ IsFiniteSet(DOMAIN files')
       /\ \A other \in DOMAIN files' : files'[other].mtime <= clock'
  <2>1. \A other \in DOMAIN touched : touched[other].mtime <= clock'
    BY <1>4, <1>6, <1>9, <1>11 DEF Partial, File
  <2>2. QED
    BY <1>2, <1>9, <1>10, <2>1, PrunedPartial
<1>16. untouched \subseteq untouched' /\ untouched' \subseteq Names
  BY <1>2 DEF IInv, TypeOK
<1>17. QED
  BY <1>1, <1>2, <1>4, <1>13, <1>14, <1>15, <1>16, AnswersPreserve

(* A file that cannot be touched is sent as it is, and pruning still keeps  *)
(* the others of its game.                                                  *)
LEMMA TouchFailsPreserves ==
  ASSUME IInv, TouchFails
  PROVE  IInv'
<1>1. PICK name : name = Requested
  OBVIOUS
<1>2. /\ job # Idle
      /\ clock' = clock /\ source' = source
      /\ untouched' = untouched \cup {name}
      /\ files' \in Prunings(files, name)
      /\ Answers(name)
  BY <1>1 DEF TouchFails, Idle, Answers
<1>3. name \in Names /\ name[1] = job.game
  BY <1>1, <1>2, RequestedIsName DEF IInv
<1>4. Partial(files, Names, File) /\ IsFiniteSet(DOMAIN files)
  BY DEF IInv, TypeOK
<1>5. \A other : Kept(files, other) /\ other[1] = job.game => Kept(files', other)
  BY <1>2, <1>3, <1>4, PruneKeeps
<1>6. NeverStale'
  <2>1. \A other \in DOMAIN files : UpToDate(other[1], files[other])
    BY DEF IInv, NeverStale, UpToDate
  <2>2. QED
    BY <1>2, <1>4, <2>1, PrunedNeverStale
<1>7. /\ Partial(files', Names, File) /\ IsFiniteSet(DOMAIN files')
      /\ \A other \in DOMAIN files' : files'[other].mtime <= clock'
  BY <1>2, <1>4, PrunedPartial DEF IInv, TimesOK
<1>8. clock' \in Nat /\ clock <= clock'
  BY <1>2 DEF IInv, TypeOK
<1>9. /\ untouched \subseteq untouched' /\ untouched' \subseteq Names
      /\ name \in untouched'
  BY <1>2, <1>3 DEF IInv, TypeOK
<1>10. QED
  BY <1>1, <1>2, <1>5, <1>6, <1>7, <1>8, <1>9, AnswersPreserve

(* The tool's file is in place, newer than all others: pruning keeps it.    *)
LEMMA RenderDonePreserves ==
  ASSUME IInv, RenderDone
  PROVE  IInv'
<1>1. PICK name : name = Requested
  OBVIOUS
<1>2. /\ job # Idle /\ job.step = "moved"
      /\ clock' = clock /\ source' = source /\ untouched' = untouched
      /\ files' \in Prunings(files, name)
      /\ Answers(name)
  BY <1>1 DEF RenderDone, Idle, Answers
<1>3. name \in Names /\ name[1] = job.game
  BY <1>1, <1>2, RequestedIsName DEF IInv
<1>4. Partial(files, Names, File) /\ IsFiniteSet(DOMAIN files)
  BY DEF IInv, TypeOK
<1>5. Kept(files, name)
  <2>1. /\ name \in DOMAIN files
        /\ \A other \in DOMAIN files \ {name} :
             files[other] = files[other] /\ files[other].mtime < files[name].mtime
    BY <1>1, <1>2 DEF IInv, JobOK
  <2>2. DOMAIN files = DOMAIN files \cup {name}
    BY <2>1
  <2>3. QED
    BY <1>4, <2>1, <2>2, NewestKeeps
<1>6. /\ Kept(files', name)
      /\ \A other : Kept(files, other) /\ other[1] = job.game
                      => Kept(files', other)
  BY <1>2, <1>3, <1>4, <1>5, PruneKeeps
<1>7. NeverStale'
  <2>1. \A other \in DOMAIN files : UpToDate(other[1], files[other])
    BY DEF IInv, NeverStale, UpToDate
  <2>2. QED
    BY <1>2, <1>4, <2>1, PrunedNeverStale
<1>8. /\ Partial(files', Names, File) /\ IsFiniteSet(DOMAIN files')
      /\ \A other \in DOMAIN files' : files'[other].mtime <= clock'
  BY <1>2, <1>4, PrunedPartial DEF IInv, TimesOK
<1>9. clock' \in Nat /\ clock <= clock'
  BY <1>2 DEF IInv, TypeOK
<1>10. untouched \subseteq untouched' /\ untouched' \subseteq Names
  BY <1>2 DEF IInv, TypeOK
<1>11. QED
  BY <1>1, <1>2, <1>6, <1>7, <1>8, <1>9, <1>10, AnswersPreserve

(* The source is read: what will be made is of the image of now.            *)
LEMMA RenderBeginsPreserves ==
  ASSUME IInv, RenderBegins
  PROVE  IInv'
<1>1. /\ job # Idle /\ job.step = "ask" /\ source[job.game] # None
      /\ job' = [step |-> "render", game |-> job.game, todo |-> job.todo,
                 built |-> job.built,
                 file |-> [mtime |-> 0, from |-> source[job.game],
                           overtaken |-> FALSE]]
      /\ UNCHANGED <<clock, source, files, pipe, sent, staged, untouched>>
  BY DEF RenderBegins, Asked, Idle
<1>2. job.game \in Games /\ job.todo \in (SUBSET Outputs) \ {{}}
  BY <1>1, JobShape DEF IInv
<1>3. source[job.game] \in Nat
  BY <1>1, <1>2 DEF IInv, TypeOK
<1>4. job' \in Making(job'.built)
  BY <1>1, <1>2, <1>3 DEF Making, File
<1>5. TypeOK'
  BY <1>1, <1>4 DEF IInv, TypeOK
<1>6. TimesOK' /\ NeverStale'
  BY <1>1 DEF IInv, TimesOK, NeverStale
<1>7. JobOK'
  BY <1>1 DEF JobOK
<1>8. BuiltOK' /\ SentOK'
  <2>1. job' # Idle /\ job'.game = job.game /\ job'.built = job.built
    BY <1>1, <1>4 DEF Making, Idle
  <2>2. QED
    BY <1>1, <2>1, KeptUnchanged
<1>9. PipeOK'
  BY <1>1, PipeUnchanged
<1>10. QED
  BY <1>5, <1>6, <1>7, <1>8, <1>9 DEF IInv

(* The last write is later than every other one, so the file is newer than  *)
(* all files, and than its source, which was read before.                   *)
LEMMA RenderWrittenPreserves ==
  ASSUME IInv, RenderWritten
  PROVE  IInv'
<1>1. /\ job # Idle /\ job.step = "render"
      /\ clock' = clock + 1
      /\ job' = [job EXCEPT !.step = "written", !.file.mtime = clock']
      /\ UNCHANGED <<source, files, pipe, sent, staged, untouched>>
  BY DEF RenderWritten, Idle
<1>2. job \in Making(job.built)
  BY <1>1, JobShape DEF IInv
<1>3. clock \in Nat /\ clock' \in Nat /\ clock < clock'
  BY <1>1 DEF IInv, TypeOK
<1>4. /\ job' # Idle /\ job'.step = "written"
      /\ job'.game = job.game /\ job'.built = job.built
      /\ job'.file.mtime = clock' /\ job'.file.from = job.file.from
      /\ job'.file.overtaken = job.file.overtaken
      /\ job' \in Making(job'.built)
  BY <1>1, <1>2, <1>3 DEF Making, File, Idle
<1>5. TypeOK'
  BY <1>1, <1>3, <1>4 DEF IInv, TypeOK
<1>6. TimesOK' /\ NeverStale'
  <2>1. \A game \in Games : source[game] # None => source[game] \in Nat
    BY DEF IInv, TypeOK
  <2>2. \A name \in DOMAIN files : files[name].mtime \in Nat
    BY DEF IInv, TypeOK, Partial, File
  <2>3. QED
    BY <1>1, <1>3, <2>1, <2>2 DEF IInv, TimesOK, NeverStale
<1>7. JobOK'
  <2>1. UpToDate(job.game, job.file)'
    BY <1>1, <1>4 DEF IInv, JobOK, UpToDate
  <2>2. \A name \in DOMAIN files' : files'[name].mtime < clock'
    BY <1>1, <1>3 DEF IInv, TypeOK, TimesOK, Partial, File
  <2>3. QED
    BY <1>3, <1>4, <2>1, <2>2 DEF JobOK
<1>8. BuiltOK' /\ SentOK'
  BY <1>1, <1>4, KeptUnchanged
<1>9. PipeOK'
  BY <1>1, PipeUnchanged
<1>10. QED
  BY <1>5, <1>6, <1>7, <1>8, <1>9 DEF IInv

(* The file that is moved into its place is the newest, so that those kept  *)
(* before still are.                                                        *)
LEMMA RenderMovedPreserves ==
  ASSUME IInv, RenderMoved
  PROVE  IInv'
<1>1. PICK name : name = Requested
  OBVIOUS
<1>2. /\ job # Idle /\ job.step = "written"
      /\ files' = With(files, name, job.file)
      /\ job' = [job EXCEPT !.step = "moved"]
      /\ UNCHANGED <<clock, source, pipe, sent, staged, untouched>>
  BY <1>1 DEF RenderMoved, Idle
<1>3. job \in Making(job.built)
  BY <1>2, JobShape DEF IInv
<1>4. /\ job' # Idle /\ job'.step = "moved"
      /\ job'.game = job.game /\ job'.built = job.built
      /\ job'.todo = job.todo
      /\ job' \in Making(job'.built)
  BY <1>2, <1>3 DEF Making, Idle
<1>5. name \in Names /\ name[1] = job.game
  BY <1>1, <1>2, RequestedIsName DEF IInv
<1>6. Requested' = name
  BY <1>1, <1>4 DEF Requested, Current
<1>7. job.file \in File
  BY <1>3 DEF Making
<1>8. Partial(files, Names, File) /\ IsFiniteSet(DOMAIN files)
  BY DEF IInv, TypeOK
<1>9. /\ Partial(files', Names, File)
      /\ DOMAIN files' = DOMAIN files \cup {name}
      /\ files'[name] = job.file
      /\ \A other \in DOMAIN files \ {name} : files'[other] = files[other]
  <2> DEFINE file == job.file
  <2> HIDE DEF file
  <2>1. file \in File
    BY <1>7 DEF file
  <2>2. files' = With(files, name, file)
    BY <1>2 DEF file
  <2>3. /\ Partial(files', Names, File)
        /\ DOMAIN files' = DOMAIN files \cup {name}
    BY <1>5, <1>8, <2>1, <2>2 DEF Partial, With
  <2>4. /\ files'[name] = file
        /\ \A other \in DOMAIN files \ {name} : files'[other] = files[other]
    BY <2>2 DEF With
  <2>5. QED
    BY <2>3, <2>4 DEF file
<1>10. IsFiniteSet(DOMAIN files')
  BY <1>8, <1>9, FS_AddElement
<1>11. /\ UpToDate(job.game, job.file)
       /\ job.file.mtime <= clock
       /\ \A other \in DOMAIN files : files[other].mtime < job.file.mtime
  BY <1>2 DEF IInv, JobOK
<1>12. /\ Kept(files', name)
       /\ \A other : Kept(files, other) /\ other[1] = name[1]
                       => Kept(files', other)
  <2>1. \A other \in DOMAIN files \ {name} :
          files'[other] = files[other] /\ files'[other].mtime < files'[name].mtime
    BY <1>9, <1>11
  <2>2. QED
    BY <1>8, <1>9, <2>1, NewestKeeps
<1>13. TypeOK'
  BY <1>2, <1>4, <1>9, <1>10 DEF IInv, TypeOK
<1>14. TimesOK'
  BY <1>2, <1>9, <1>11 DEF IInv, TimesOK
<1>15. NeverStale'
  <2>1. \A other \in DOMAIN files : UpToDate(other[1], files[other])
    BY DEF IInv, NeverStale, UpToDate
  <2>2. \A other \in DOMAIN files' : UpToDate(other[1], files'[other])
    BY <1>5, <1>9, <1>11, <2>1
  <2>3. QED
    BY <1>2, <2>2 DEF NeverStale, UpToDate
<1>16. JobOK'
  <2>1. \A other \in DOMAIN files' \ {name} : files'[other].mtime < files'[name].mtime
    BY <1>9, <1>11
  <2>2. QED
    BY <1>4, <1>6, <1>9, <2>1 DEF JobOK
<1>17. BuiltOK'
  BY <1>2, <1>4, <1>5, <1>12 DEF IInv, BuiltOK
<1>18. SentOK'
  BY <1>2, <1>4, <1>5, <1>12 DEF IInv, SentOK
<1>19. PipeOK'
  BY <1>2, PipeUnchanged
<1>20. QED
  BY <1>13, <1>14, <1>15, <1>16, <1>17, <1>18, <1>19 DEF IInv

(* Every file is older than the image that arrives; the one that is being   *)
(* used, or whose tool is still reading, is marked.                         *)
LEMMA SourceReplacedPreserves ==
  ASSUME IInv, NEW game \in Games, SourceReplaced(game)
  PROVE  IInv'
<1>1. /\ clock' = clock + 1
      /\ source' = [source EXCEPT ![game] = clock']
      /\ job' = IF job.step \in {"hit", "render"} /\ job.game = game
                THEN [job EXCEPT !.file.overtaken = TRUE] ELSE job
      /\ UNCHANGED <<files, pipe, sent, staged, untouched>>
  BY DEF SourceReplaced
<1>2. clock \in Nat /\ clock' \in Nat /\ clock < clock'
  BY <1>1 DEF IInv, TypeOK
<1>3. /\ source' \in [Games -> Nat \cup {None}]
      /\ source'[game] = clock'
      /\ \A other \in Games \ {game} : source'[other] = source[other]
  BY <1>1, <1>2 DEF IInv, TypeOK
<1>4. \/ job' = job /\ ~(job.step \in {"hit", "render"} /\ job.game = game)
      \/ /\ job.step \in {"hit", "render"} /\ job.game = game
         /\ job' # Idle /\ job # Idle
         /\ job' \in Making(job'.built)
         /\ job'.step \in {"hit", "render"} /\ job'.game = job.game
         /\ job'.built = job.built /\ job'.file.overtaken
  <2>1. CASE job.step \in {"hit", "render"} /\ job.game = game
    <3>1. job \in Making(job.built) /\ job # Idle
      BY <2>1, JobShape DEF IInv, Idle
    <3>2. job' = [job EXCEPT !.file.overtaken = TRUE]
      BY <1>1, <2>1
    <3>3. QED
      BY <2>1, <3>1, <3>2 DEF Making, File, Idle
  <2>2. QED
    BY <1>1, <2>1
<1>5. \A name \in DOMAIN files : files[name].mtime \in Nat /\ name[1] \in Games
  BY DEF IInv, TypeOK, Partial, File, Names
<1>6. TypeOK'
  BY <1>1, <1>2, <1>3, <1>4 DEF IInv, TypeOK
<1>7. TimesOK'
  <2>1. \A other \in Games : source'[other] # None => source'[other] <= clock'
    BY <1>2, <1>3 DEF IInv, TypeOK, TimesOK
  <2>2. \A name \in DOMAIN files : files[name].mtime <= clock'
    BY <1>2, <1>5 DEF IInv, TimesOK
  <2>3. QED
    BY <1>1, <2>1, <2>2 DEF TimesOK
<1>8. NeverStale'
  <2>1. \A name \in DOMAIN files : name[1] = game => files[name].mtime < source'[game]
    BY <1>2, <1>3, <1>5 DEF IInv, TimesOK
  <2>2. QED
    BY <1>1, <1>3, <1>5, <2>1 DEF IInv, NeverStale
<1>9. JobOK'
  <2>1. CASE job' = job /\ ~(job.step \in {"hit", "render"} /\ job.game = game)
    <3>1. job.step \in {"hit", "render", "written", "moved"} =>
            job.game \in Games /\ job \in Making(job.built)
      BY JobShape DEF IInv, Idle
    <3>2. job.step \in {"hit", "render"} =>
            (source'[job.game] # None =>
               job.file.from = source'[job.game] \/ job.file.overtaken)
      BY <1>3, <2>1, <3>1 DEF IInv, JobOK
    <3>3. job.step = "written" =>
            /\ UpToDate(job.game, job.file)'
            /\ job.file.mtime <= clock'
      BY <1>2, <1>3, <2>1, <3>1 DEF IInv, JobOK, UpToDate, Making, File
    <3>4. Requested' = Requested
      BY <2>1 DEF Requested, Current
    <3>5. QED
      BY <1>1, <2>1, <3>2, <3>3, <3>4 DEF IInv, JobOK
  <2>2. CASE job'.step \in {"hit", "render"} /\ job'.file.overtaken
    BY <2>2 DEF JobOK
  <2>3. QED
    BY <1>4, <2>1, <2>2
<1>10. BuiltOK' /\ SentOK'
  <2>1. CASE job' = job
    BY <1>1, <2>1 DEF IInv, BuiltOK, SentOK, Kept
  <2>2. CASE job' # job
    BY <1>1, <1>4, <2>2, KeptUnchanged
  <2>3. QED
    BY <2>1, <2>2
<1>11. PipeOK'
  BY <1>1, PipeUnchanged
<1>12. QED
  BY <1>6, <1>7, <1>8, <1>9, <1>10, <1>11 DEF IInv

(* Another image is the largest now: all that was made for the game is      *)
(* marked, and no file is newer or older than it was.                       *)
LEMMA SourceTakenOverPreserves ==
  ASSUME IInv, NEW game \in Games, SourceTakenOver(game)
  PROVE  IInv'
<1>1. PICK image \in {t \in OldTimes : t <= clock} \cup {None} :
        source' = [source EXCEPT ![game] = image]
  BY DEF SourceTakenOver
<1>2. /\ files' = [name \in DOMAIN files |->
                    IF name[1] = game
                    THEN [files[name] EXCEPT !.overtaken = TRUE]
                    ELSE files[name]]
      /\ job' = IF /\ job.step \in {"hit", "render", "written"}
                   /\ job.game = game
                THEN [job EXCEPT !.file.overtaken = TRUE] ELSE job
      /\ UNCHANGED <<clock, pipe, sent, staged, untouched>>
  BY DEF SourceTakenOver
<1>3. /\ source' \in [Games -> Nat \cup {None}]
      /\ source'[game] # None => source'[game] <= clock
      /\ \A other \in Games \ {game} : source'[other] = source[other]
  BY <1>1, SizesAssumption DEF IInv, TypeOK
<1>4. /\ DOMAIN files' = DOMAIN files
      /\ Partial(files', Names, File)
      /\ \A name \in DOMAIN files :
           /\ files'[name].mtime = files[name].mtime
           /\ name[1] = game => files'[name].overtaken
           /\ name[1] # game => files'[name] = files[name]
  <2>1. \A name \in DOMAIN files : name \in Names /\ files[name] \in File
    BY DEF IInv, TypeOK, Partial
  <2>2. DOMAIN files' = DOMAIN files
    BY <1>2
  <2>3. \A name \in DOMAIN files :
          /\ files'[name] \in File
          /\ files'[name].mtime = files[name].mtime
          /\ name[1] = game => files'[name].overtaken
          /\ name[1] # game => files'[name] = files[name]
    BY <1>2, <2>1 DEF File
  <2>4. files' = [name \in DOMAIN files' |-> files'[name]]
    BY <1>2
  <2>5. QED
    BY <2>1, <2>2, <2>3, <2>4 DEF Partial
<1>5. \/ job' = job /\ ~(/\ job.step \in {"hit", "render", "written"}
                         /\ job.game = game)
      \/ /\ job.step \in {"hit", "render", "written"} /\ job.game = game
         /\ job' # Idle /\ job # Idle
         /\ job \in Making(job.built)
         /\ job' \in Making(job'.built)
         /\ job'.step = job.step /\ job'.game = job.game
         /\ job'.built = job.built
         /\ job'.file.mtime = job.file.mtime /\ job'.file.overtaken
  <2>1. CASE job.step \in {"hit", "render", "written"} /\ job.game = game
    <3>1. job \in Making(job.built) /\ job # Idle
      BY <2>1, JobShape DEF IInv, Idle
    <3>2. job' = [job EXCEPT !.file.overtaken = TRUE]
      BY <1>2, <2>1
    <3>3. QED
      BY <2>1, <3>1, <3>2 DEF Making, File, Idle
  <2>2. QED
    BY <1>2, <2>1
<1>6. TypeOK'
  BY <1>2, <1>3, <1>4, <1>5 DEF IInv, TypeOK
<1>7. TimesOK'
  BY <1>2, <1>3, <1>4 DEF IInv, TimesOK
<1>8. \A name \in DOMAIN files : name[1] \in Games
  BY DEF IInv, TypeOK, Partial, Names
<1>9. NeverStale'
  BY <1>3, <1>4, <1>8 DEF IInv, NeverStale
<1>10. JobOK'
  <2>1. CASE job' = job /\ ~(/\ job.step \in {"hit", "render", "written"}
                             /\ job.game = game)
    <3>1. job.step \in {"hit", "render", "written"} =>
            job.game \in Games \ {game}
      BY <2>1, JobShape DEF IInv, Idle
    <3>2. job.step \in {"hit", "render"} =>
            (source'[job.game] # None =>
               job.file.from = source'[job.game] \/ job.file.overtaken)
      BY <1>3, <2>1, <3>1 DEF IInv, JobOK
    <3>3. job.step = "written" =>
            /\ UpToDate(job.game, job.file)'
            /\ job.file.mtime <= clock'
            /\ \A name \in DOMAIN files' : files'[name].mtime < job.file.mtime
      BY <1>2, <1>3, <1>4, <2>1, <3>1 DEF IInv, JobOK, UpToDate
    <3>4. Requested' = Requested
      BY <2>1 DEF Requested, Current
    <3>5. job.step = "moved" =>
            /\ Requested \in DOMAIN files'
            /\ \A name \in DOMAIN files' \ {Requested} :
                 files'[name].mtime < files'[Requested].mtime
      BY <1>4 DEF IInv, JobOK
    <3>6. QED
      BY <2>1, <3>2, <3>3, <3>4, <3>5 DEF JobOK
  <2>2. CASE /\ job'.step = job.step /\ job.step \in {"hit", "render", "written"}
             /\ job'.file.mtime = job.file.mtime /\ job'.file.overtaken
    BY <1>2, <1>4, <2>2 DEF IInv, JobOK, UpToDate
  <2>3. QED
    BY <1>5, <2>1, <2>2
<1>11. \A name : Kept(files, name) => Kept(files', name)
  BY <1>4 DEF Kept
<1>12. job # Idle <=> job' # Idle
  BY <1>5
<1>13. job # Idle => job'.game = job.game /\ job'.built = job.built
  BY <1>5
<1>14. BuiltOK' /\ SentOK'
  BY <1>2, <1>11, <1>12, <1>13 DEF IInv, BuiltOK, SentOK
<1>15. PipeOK'
  BY <1>2, PipeUnchanged
<1>16. QED
  BY <1>6, <1>7, <1>9, <1>10, <1>14, <1>15 DEF IInv

(* The helper reads one ART command, and opens what it names.               *)
LEMMA ArtHandledPreserves ==
  ASSUME IInv, ArtHandled
  PROVE  IInv'
<1>1. /\ pipe # <<>> /\ pipe' = Tail(pipe)
      /\ UNCHANGED <<clock, source, files, job, sent, untouched>>
  BY DEF ArtHandled
<1>2. Head(pipe) \in Outputs \X Artworks /\ pipe' \in Seq(Outputs \X Artworks)
  BY <1>1, HeadTailProperties DEF IInv, TypeOK
<1>3. staged' \in [Outputs -> Artworks]
  <2>1. Head(pipe)[1] \in Outputs /\ Head(pipe)[2] \in Artworks
    BY <1>2
  <2>2. QED
    BY <2>1 DEF ArtHandled, IInv, TypeOK, Artworks
<1>4. TypeOK'
  BY <1>1, <1>2, <1>3 DEF IInv, TypeOK
<1>5. TimesOK' /\ NeverStale' /\ BuiltOK' /\ SentOK'
  BY <1>1 DEF IInv, TimesOK, NeverStale, BuiltOK, SentOK, Kept
<1>6. JobOK'
  BY <1>1 DEF IInv, JobOK, UpToDate, Requested, Current
<1>7. PipeOK'
  BY HandledDelivers DEF IInv
<1>8. QED
  BY <1>4, <1>5, <1>6, <1>7 DEF IInv

(* A helper that exits takes its pipe along, and nothing counts as sent.    *)
LEMMA HelperExitsPreserves ==
  ASSUME IInv, HelperExits
  PROVE  IInv'
<1>1. /\ pipe' = <<>> /\ sent' = Nothing
      /\ staged' = [o \in Outputs |-> None]
      /\ job' = job \/ job' = Idle
      /\ UNCHANGED <<clock, source, files, untouched>>
  BY DEF HelperExits
<1>2. DOMAIN sent' = {} /\ Partial(sent', Outputs, Artworks)
  BY <1>1 DEF Nothing, Partial
<1>3. TypeOK'
  <2>1. pipe' \in Seq(Outputs \X Artworks)
    BY <1>1
  <2>2. staged' \in [Outputs -> Artworks]
    BY <1>1 DEF Artworks
  <2>3. job' = Idle \/ job' \in Asking(job'.built) \cup Making(job'.built)
    BY <1>1 DEF IInv, TypeOK
  <2>4. QED
    BY <1>1, <1>2, <2>1, <2>2, <2>3 DEF IInv, TypeOK
<1>4. TimesOK' /\ NeverStale'
  BY <1>1 DEF IInv, TimesOK, NeverStale
<1>5. JobOK'
  <2>1. CASE job' = job
    BY <1>1, <2>1 DEF IInv, JobOK, UpToDate, Requested, Current
  <2>2. CASE job' = Idle
    BY <2>2 DEF JobOK, Idle
  <2>3. QED
    BY <1>1, <2>1, <2>2
<1>6. BuiltOK' /\ SentOK' /\ PipeOK'
  BY <1>1, <1>2 DEF IInv, BuiltOK, SentOK, PipeOK, Kept
<1>7. QED
  BY <1>3, <1>4, <1>5, <1>6 DEF IInv

(* One step per action.                                                     *)
LEMMA NextPreserves == IInv /\ [Next]_vars => IInv'
<1> SUFFICES ASSUME IInv, [Next]_vars
             PROVE  IInv'
  OBVIOUS
<1>1. ASSUME NEW game \in Games, Apply(game)
      PROVE  IInv'
  BY <1>1, ApplyPreserves
<1>2. ASSUME NEW game \in Games, SourceReplaced(game)
      PROVE  IInv'
  BY <1>2, SourceReplacedPreserves
<1>3. ASSUME NEW game \in Games, SourceTakenOver(game)
      PROVE  IInv'
  BY <1>3, SourceTakenOverPreserves
<1>4. CASE AnswerAgain
  BY <1>4, AnswerAgainPreserves
<1>5. CASE Unavailable \/ RenderFails
  BY <1>5, NoArtworkPreserves
<1>6. CASE Found
  BY <1>6, FoundPreserves
<1>7. CASE Touched
  BY <1>7, TouchedPreserves
<1>8. CASE TouchFails
  BY <1>8, TouchFailsPreserves
<1>9. CASE RenderBegins
  BY <1>9, RenderBeginsPreserves
<1>10. CASE RenderWritten
  BY <1>10, RenderWrittenPreserves
<1>11. CASE RenderMoved
  BY <1>11, RenderMovedPreserves
<1>12. CASE RenderDone
  BY <1>12, RenderDonePreserves
<1>13. CASE ArtHandled
  BY <1>13, ArtHandledPreserves
<1>14. CASE HelperExits
  BY <1>14, HelperExitsPreserves
<1>15. CASE UNCHANGED vars
  <2>1. TypeOK' /\ TimesOK' /\ NeverStale'
    BY <1>15 DEF vars, IInv, TypeOK, TimesOK, NeverStale
  <2>2. JobOK'
    BY <1>15 DEF vars, IInv, JobOK, UpToDate, Requested, Current
  <2>3. BuiltOK' /\ SentOK'
    BY <1>15 DEF vars, IInv, BuiltOK, SentOK, Kept
  <2>4. PipeOK'
    BY <1>15, PipeUnchanged DEF vars
  <2>5. QED
    BY <2>1, <2>2, <2>3, <2>4 DEF IInv
<1>16. QED
  BY <1>1, <1>2, <1>3, <1>4, <1>5, <1>6, <1>7, <1>8, <1>9, <1>10, <1>11,
     <1>12, <1>13, <1>14, <1>15 DEF Next

(* Every reachable state satisfies the invariant.                           *)
LEMMA Invariance == Spec => []IInv
BY InitEstablishes, NextPreserves, PTL DEF Spec

-----------------------------------------------------------------------------
(* The theorems *)

(* build_artwork compares times of writing only.  There are three ways for  *)
(* a file it takes for up to date to be of another image than the one that  *)
(* is there now, and no other: that one arrived while theater-art made the  *)
(* file, or between a comparison and its touch, or it is older than the     *)
(* file and became the largest after it.                                    *)
THEOREM FilesAreNeverStale == Spec => []NeverStale
<1>1. IInv => NeverStale
  BY DEF IInv
<1>2. QED
  BY <1>1, Invariance, PTL

(* prune_artwork_cache never removes a file before the helper opens it, but *)
(* for one that the apply found and could not touch: however slowly the     *)
(* helper reads, and whatever else fails meanwhile, once it has read what   *)
(* the latest apply sent, every other output shows just that.               *)
THEOREM HelperShowsWhatWasSent == Spec => []ShowsWhatWasSent
<1>1. IInv => ShowsWhatWasSent
  <2> SUFFICES ASSUME IInv, pipe = <<>>, NEW output \in DOMAIN sent,
                      sent[output] \notin untouched
               PROVE  staged[output] = sent[output]
    BY DEF ShowsWhatWasSent
  <2>1. Len(pipe) = 0
    OBVIOUS
  <2>2. Delivered(output)
    BY DEF IInv, PipeOK
  <2>3. QED
    BY <2>1, <2>2 DEF Delivered
<1>2. QED
  BY <1>1, Invariance, PTL
=============================================================================
