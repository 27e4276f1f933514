# theater-mode in TLA+

Formal models of theater-mode: the KWin script that watches windows, the daemon that
decides when and where displays are dimmed, its configuration, the helper process that dims
the displays, and the tool that renders artwork for them, down to the image decoders it
uses. The modules are written from the source; the sections below say what corresponds to
what, what TLC checks on small instances, what TLAPS proves for every instance, and what is
left.

## Inventory

| Part | State it keeps | Operations | Talks to |
|---|---|---|---|
| Detector script, `kwin/theater-detect/contents/code/main.js` | `tracked`, `watched`, two timers | window added, removed, changed; screens changed; heartbeat | daemon, by D-Bus calls it does not wait for |
| Event loop and service, `bus.py`, `service.py` | timers, selector, bus name | dispatch of one call, expiry of a timer, signals | daemon (calls its methods), session bus |
| Daemon, `daemon.py` | tracked windows in insertion order, a snapshot under way, the screen theater mode is on, the outputs it was applied to, two timers, configuration | 5 detector calls, simulate, clear, reload (and preview, commit, unset, which end in one) | effect (method calls), scheduler |
| Effect driver, `effects/dim.py` | helper process handle, affected outputs, options | `apply`, `revert`, `shutdown` | helper, over its stdin |
| Helper, `dimmer/dimmer.c` | output table: overlay, fade, artwork, layer; command buffer | DIM, DIM_OUTPUT, FADE_OUT, ART, LAYER, QUIT; Wayland events; frame callbacks; stall timeout | compositor |
| Configuration, `config/` | the system's file, the user's file, session overrides, the resolved configuration with the layer of each value | preview, revert, commit, unset, reload | files, an editor |
| Artwork lookup, `steam.py` | a cache of rendered artwork on disk | look up, render, touch, prune | art tool, Steam's files, helper |
| Art tool, `art/main.c`, `art/pipeline.c` | pictures in memory, a temporary file | read, check framing, decode, crop, resample, blur, darken, compose, write, rename | files |
| Image decoders, `art/stb_image.h` | position in the file, bit buffer, tables, planes | `stbi_info`, `stbi_load` for PNG and JPEG | art tool |
| Displays, `display/` | none | EDID and sysfs lookups | sysfs |
| Client, doctor, updater, installer | files | commands | daemon, files |

Everything in the daemon runs on one thread, to completion: a handler is one atomic step.
What makes the system hard is what lies between the steps. The script, the bus, the daemon,
the helper and the compositor each go at their own pace; the script does not wait for its
calls, and calls to an absent daemon are lost; each process can die alone; a snapshot is a
sequence of calls that other events may cut into; two timers with long delays fire into
whatever state has come about; a write to the helper's pipe succeeds although the helper is
dying; the compositor owes nobody a frame callback.

What makes each part correct:

- **Detector and bus**: whatever is lost, the daemon's picture of the windows becomes right
  again, and is never wrong for longer than the calls under way.
- **Daemon**: displays are dimmed only while a game is there or its restore is scheduled,
  never the game's own; moves are followed after the delay and not before; every way out
  of theater mode ends with the displays restored.
- **Effect driver**: what is reported as affected covers what is dimmed, whenever the helper
  exits.
- **Helper**: a fade ends, at its target, on the layer asked for, also without frame
  callbacks; no overlay stays behind invisible; every command line is handled once, whole.
- **Configuration**: the highest layer with an acceptable value decides; what a call said
  it did is what is in force; the user's file is only ever replaced by a complete text in
  which the settings asked for, and nothing else, have changed.
- **Artwork lookup**: the helper can open every file it is told of; a picture made from an
  older source is made again.
- **Art tool and decoders**: half a download is never taken for a picture; the target file
  is the old picture or the whole new one; the arithmetic of every stage is what it stands
  for; a file an encoder wrote is decoded to what it was given.

## Modules

| Module | Models | Code it stands for |
|---|---|---|
| `DimEffect` | `effects/dim.py` | `_send`, `_ensure_process`, `apply`, `revert`, `shutdown` |
| `Daemon` | `daemon.py` | every method that changes state |
| `Theater` | nothing in the repository: what the daemon promises, as an abstract specification | implemented by `Daemon` |
| `Detector` | `main.js` | every callback of the script |
| `TheaterMode` | `Detector`, an ordered lossy bus and `Daemon` composed | `service.py`, `bus.py` `serve` and `_drain` |
| `Dimmer` | `dimmer.c`, the output state machine and the main loop | commands, events, fades |
| `CommandReader` | `dimmer.c`, `read_commands` | the command buffer, byte by byte |
| `ConfigText` | `config/writer.py` and what TOML makes of a file | in-place editing, as operators on lines |
| `Configuration` | `config/loader.py`, `schema.py`, the calls of `daemon.py` on them | layers, previews, commits, the atomic write |
| `ArtworkCache` | `steam.py` `build_artwork`, with `DimEffect.apply` and the helper's `stage_art` | the cache between the two processes |
| `Loops` | counted loops, bits | helpers of the four decoders' modules and the art tool |
| `ImageFraming` | `pipeline.c`, `is_valid_complete_image` | JPEG markers, PNG chunks |
| `Artwork` | `main.c`, `pipeline.c` | the whole tool |
| `Inflate` | `stb_image.h`, zlib | bit reader, Huffman codes, blocks |
| `Png` | `stb_image.h`, PNG | chunks, filters, interlacing, colours |
| `JpegEntropy`, `JpegPixels`, `Jpeg` | `stb_image.h`, JPEG | entropy decoder; transform, upsampling, colours; segments, scans, rows |
| `StbImage` | both decoders behind `stbi_info` and `stbi_load` | `stbi__load_main` |
| `PngReference`, `JpegReference` | nothing in the repository | the formats as an *encoder* sees them: the reference the decoders are checked against |
| `DaemonProofs`, `DimmerProofs`, `CommandReaderProofs`, `ConfigurationProofs`, `ArtworkCacheProofs`, `ArtworkProofs`, `TheaterModeProofs` | theorems about the module each is named after; `TheaterModeProofs` builds on `DaemonProofs` | |
| `Intervals` | induction and recursion over intervals of numbers, for the proofs of `CommandReader`, `Configuration` and `Artwork` | |
| `MC...` | values for TLC, and the properties that compare with a reference | |

`Daemon` extends `DimEffect` and is shown to implement `Theater`; `TheaterMode` instantiates `Detector` and `Daemon` over its own
variables. `Configuration` extends `ConfigText`; `Daemon` takes *any* resolved configuration
at a reload, which covers whatever `Configuration` resolves. `Artwork` extends `ImageFraming`
and takes the decoded picture as given; `StbImage` shows what decoding gives. `ArtworkCache`
takes the art tool as one that leaves an old file or a whole new one, which is what
`Artwork` shows (`OldOrWhole`). `Dimmer` and `CommandReader` stand alone: what the effect
driver may assume of the helper (it shows what it was last told, forgets everything when it
exits, ignores outputs it does not have) is the record in `DimEffect`.

No module declares a `RECURSIVE` operator, so that each can be proved about: counted loops
are `Loops!Loop`, a recursive function of the number of turns.

### Daemon and DimEffect

One action per handler (`WindowOpened`, `WindowChanged`, `WindowClosed`, `SnapshotBegin`,
`SnapshotEnd`, `Simulate`, `Clear`, `Reload`), one per timer callback (`RestoreTimeout` is
`_revert_now`, `FollowTimeout` is `_confirm_stage`), one for the helper's exit and one for
hotplug. `Reconcile` is an action operator that takes the windows the handler has just
written, so that the reconciliation at the end of a handler is part of its step.

The dict of windows is a function plus the relation `older`, since the first game in
insertion order is the stage and a re-announced window keeps its place.

The effect is a record and each method the set of records it may leave. This is where a
helper exit in the middle of `apply` lives: every command either reaches the helper that
was running, fails and closes it, or starts a new one that knows the rest of the pass only.
`lit`, `staged` and `tuned` are what the helper that is alive has been told; `affected` is
what the daemon believes.

Abstracted: names are naturals (the code sorts connector names, and only the order
matters); a configuration is which outputs are dimmed by zero, which differ from the
global values, whether the restore is delayed and whether games must be fullscreen; the
follow delay is always positive (zero still goes through a timer in the code); artwork and
layers are one flag per output; exceptions inside handlers are not modelled, nor is the
loading of a configuration that fails. `connected_outputs()` is constant.

`Theater` knows neither windows nor a helper. It has where the game is (`wanted`), where
theater mode is (`stage`), what is dimmed (`dark`), which of the two delays run (`waiting`)
and whether the windows are being listed (`surveying`). The mapping (`Promise` in `Daemon`)
computes `wanted` from the dict of windows by the rule that picks the stage, takes `stage`
from `active`, `dark` from what the living helper was told, `waiting` from the two timers and
`surveying` from the snapshot under way. Every handler of the daemon, with its
reconciliation and all that the helper can do in it, is one step of `Theater` or none:
theater mode begins where the game is and with its displays dimmed or not at all, dims other
displays only, follows a game only when the delay is over, ends at once or when the restore
delay is over, and reacts to nothing while the windows are listed.

### Detector and TheaterMode

A KWin callback is one action together with the desktop change that triggers it. `calls` is
the bus: a queue the daemon takes from in order. The daemon can stop at any point of it
(all its state goes, and the helper, which reads the end of its stdin, exits), and start
again later; calls made while nobody owns the name are lost, because the unit has no D-Bus
activation. `CandidacyChanged` is the case the script has no signal for. The script can be
reloaded by KWin, which empties its tables but not the bus.

Not in the composition: `Simulate` (checked in `Daemon`), and a `pid` that changes under a
window id. Window ids are reused after removal, which KWin does not do and only adds
behaviours.

### Dimmer and CommandReader

The functions of the C file on `struct output_state` (`destroy_overlay`, `commit_overlay`,
`map_overlay`, `start_animation`, `tick_overlay`) are operators on one record; command
handlers and Wayland events are actions. An alpha is one of a few levels, `Faint` the level
at or below 0.001. `left` is what remains of a fade in units of `FRAME_STALL_SEC`, `quiet`
that the stall time has passed since the last commit; it may be set early, which only adds
behaviours. The easing curves are monotone, so a tick moves somewhere between where it is
and the target. `shown` and `stack` are the compositor's side. Allocation failures in
`map_overlay`, a layer shell older than version 2, and pixel formats are left out.

`CommandReader` has the bytes. `Cut` is the loop over the newlines of a buffer, as a function
of how far it has come. What is handled is compared with a definition of the intended result
(`Said`, `Reference`) that hears one byte at a time and knows no buffer.

### ConfigText and Configuration

A file is a sequence of lines: headers, assignments, assignments only TOML sees (quoted
keys), comments, blank lines. `Updated` and `Removed` are `update_toml_content` and
`remove_toml_keys`: the walks over the lines with the state they carry from line to line
(`Walked`, `Struck`) and the tables added below (`WithTables`), as recursive functions; `SettingsOf` and `WellFormed` are TOML's reading. The
writer and TOML deliberately see different things, as they do in the code. Values are
abstract; `Coerce` says which are refused and which are rewritten (a choice in capitals
becomes lower case).

`Resolve` overlays (`Over`) the built-in values with the system's file, the user's file and the
session's previews, and keeps for each value the layer it comes from, as the code's
provenance does. A commit or unset is in steps: the text is read and edited, the temporary
file written in part or in full, renamed, and the configuration reloaded. Between any two of
them the editor may save, a step may fail and the daemon may end. `answer` is what the last
successful call has promised, until the next call. Saving and reloading by the user's hand
(`EditorSaves`, `Reload`) and a restart forget it.

Not among the inputs: array tables, multi-line strings and dotted keys without quotes in
headers, which the writer's patterns do not see either; two spellings of one display's key.
The directory's creation, read errors and the validity range of each field are abstracted.

### ArtworkCache

`apply` asks for one output after the other; the tool runs between two of its steps and
takes time, in which Steam may change the source, but nothing else of the daemon happens. A
file that is there is compared (`Found`) and touched (`Touched`) in two steps, with Steam
between them; an error of the touch is ignored (`TouchFails`). A new file moves into place
with the time of its last write. `prune_artwork_cache` then removes the oldest when there
are too many, or some of these, since its errors are ignored as well (`Prunings`). Steam
writes a new image (`SourceReplaced`), or another one, older or none, becomes what
`find_hero_art` returns (`SourceTakenOver`). Each answer becomes a command in the pipe, which the
helper reads at its own pace: only then is the file opened. The helper may exit at any
moment.

`overtaken` and `untouched` are history: they say of a file that its source changed in a way
the mtimes do not show, and that the latest `apply` could not touch it. Nothing reads them
but the two properties, which name the cases the code does not cover.

Times are the order of writes (no two files are written in the same tick), and all artworks
have the same size, so that the two limits are numbers of files. `SizesAssumption` is that
all sizes of one `apply` fit below the limit the cache is trimmed to: 64 MiB against at most
8.3 MB a piece, so seven different displays. `SizeOf` stands for what the name of a file
says of an output, the dimming with it. Left out: an art tool that outlives a crashed daemon,
a change of the dimming or of a display from one `apply` to the next, and a file somebody
else removes.

### Artwork and ImageFraming

One action per stage of `render_artwork_pipeline`, per row where the code keeps a ring of
resampled rows, per half pass of the blur, per composed row and per chunk written; `Fail` and
`Killed` are possible at every stage. A picture has one channel, since the code treats three
alike. Floating point is exact rational arithmetic here, rounded where the code rounds; the
Lanczos kernel is sampled at eighths. `BlurDivisor` stands for the 60 of the code, so that
small pictures have a blur at all; `ChunkPixels` for the 64 KiB buffer. The weights of an
entry are whole numbers, and what the code divides each weight by is divided out of the sum
(`Divisor`); the ring (`Holding`, `RowsHeld`) has the code's slots, tags and reuse. Left out: the clipping
of `image_composite_over` (the front always lies within the target), the 64 MiB limit (it is
one of the reasons to `Fail`), and a blur for which no memory can be had, apart from being
left out.

### The image decoders

The tool reads a file twice, for its size and for its pixels, and so do the models. The bit
buffers are sequences of bits; a loop of C is a sequence of steps where it reads input, a
fold where it computes. Where the C code leaves memory unwritten there is a value of its own
(`Unset`, `Unwritten`), and the properties that compare pictures say that no such value is
ever part of one.

Left out, because the tool cannot meet them: other formats (compiled out), alpha (three
channels are asked for), the iPhone variant's conversion, callbacks. SSE2 and NEON kernels
are taken for their C counterparts. Duplicate components in a scan, and progressive scans of
AC coefficients before their DC, are not among the inputs.

## Runs

| Run | Checks | Instance |
|---|---|---|
| `daemon_safety` | `TypeOK`, `DimmedOnlyInTheater`, `StageNeverDimmed`, `AffectedCoversLit`, `ImplementsTheater`, `RestoreIsScheduled`, `FollowsDisplays`, `JumpsOnlyAfterDelay` | one real and one simulated game, three outputs, of which one is only ever reported and one is unplugged and plugged, two configurations |
| `theater_settles` | `KnowsNothingFalse`, `GameIsNotDimmed`, `CatchesUp`, `SettlesOnTheGame` | one window, two outputs, hotplug, three calls |
| `theater_gives_back` | `DisplaysGivenBack` | one window, two outputs, `require_fullscreen` reloaded, three calls |
| `dimmer` | `OverlayShape`, `RestsAtTarget`, `ShowsWhatItRestsAt`, `OnlySelectedStayDimmed`, `StackedAsAsked`, `FadesEnd` | two outputs, fades of zero and one unit |
| `command_reader` | `HandledIsReference`, `RoomForARead`, `BufferIsUnfinishedLine`, `EverythingIsRead` | buffer of two bytes, streams of six |
| `configuration` | `AnswersHold`, `HighestDecides`, `EditsAreExact` | five texts, two system files, two payloads, two lists to unset |
| `artwork_cache` | `ShowsWhatWasSent`, `NeverStale` | two games, three outputs of two sizes, a cache of three files |
| `art_tool` | of the pipeline: `FramingIsExact`, `ShapeKept`, `OldOrWhole`, `RowsAreKernels`, `BlurIsMean`, `LaidWithoutSeam` | files of up to three parts, read at every length; pictures of eight shapes, four contents, three dimmings |
| | of the decoders: `StreamsDecode`, `PicturesDecode`, `OrdersAccepted`, `InfoAgrees`, `ScansDecode`, `RowsShown` | see below |

Four more runs expect a violation; see *Where the code and its documents differ*.

**Why the bounds are enough.** Three outputs in `daemon_safety` are the fewest on which a
game can move twice and on which an `apply` has two targets, so that it can be told to one
and not the other; of the two configurations one retunes single outputs and restores at
once, the other leaves outputs dark and restores late. Two windows are the fewest for which
order and a change of stage without a move matter. In the composition one window suffices
for what is claimed there of each window, and three calls hold a whole snapshot of it, or a
change that overtakes half of one; a bound on the queue only delays the script, it drops
nothing. In `Dimmer` outputs interact through selection only, so two are enough; a fade lasts
none or one stall time, so that it is cut by a command, a configure and a stall in every
order. A two-byte buffer meets lines shorter than, equal to and longer than the buffer, and
six bytes a long line followed by two others.

In `configuration` the texts hold every kind of line, among them a value that is refused, a
quoted key that a commit would define twice, and a file that is in error; edits start from
these and from whatever earlier edits have left. Two tables speak of one display. In
`artwork_cache` two games on two sizes make four artworks for a cache of three, trimmed to
two, so that pruning always happens under way; one command may wait when an apply begins,
which with its own three makes four. An apply begins within four writes, so that a game can
be shown, the other one, and the first again: the shortest way to a pruned file that was
found. Steam changes images within three, and the older candidate is older than all files.

The run `art_tool` has the pipeline and the decoders side by side, each with inputs of its own:
the pipeline is given the picture that was decoded. The inputs are chosen for the code's
branches. Of the pipeline: targets wider and
higher than the source and the reverse, equal and of one pixel; noise, a checkerboard and flat
pictures. Resampling is compared with the kernel itself for every pixel of every row, the
blur with the mean over its window. Of the decoders: Huffman codes on both sides of the lookup
table's width (reduced to three bits for zlib and four for JPEG, so that short pictures use
both ways), every block type, matches that overlap themselves, and every beginning of every
stream; every bit depth, colour type and filter, and every way three rows can be filtered;
interlaced pictures of all sizes between one and nine where passes are empty; every order
of up to four chunks. For JPEG: runs, long codes and every restart interval, one or several
scans, successive approximation, five kinds of subsampling at odd sizes, the colour spaces
that APP segments choose between, what may stand between segments, and every beginning of a
file. The transform is compared with the cosine transform to within one level.

**Deadlock** is checked in `Daemon`, `Configuration` and `ArtworkCache`; the helper, the command
reader, the composition, the art tool and the decoders may rightly stop (exit, end of stdin,
an empty bus, the end of a file).

**Fairness.** `TheaterMode`: calls on the bus are handled while there is a daemon, and the two
timers fire: the loop (`EventLoop.run`) computes its wait from the earliest timer and drains
the socket. The heartbeat is a repeating timer in KWin; it is *strongly* fair because the
model's bound on the queue disables it again and again, which the bus does not. No fairness
is assumed of the desktop, of reloads, of restarts (nobody promises that a daemon that
stopped is started again) or of the helper. `Dimmer`: time passes, and the loop advances
stalled outputs when it wakes (`poll_timeout_ms`, `advance_stalled_animations`); no frame
callback is promised. `CommandReader`: the loop turns.

**Premises.** `DesktopRests` lets nothing change on the desktop and nobody run `clear` any
more, since a clear forgets windows until the next snapshot. `QuietFromNowOn` lets the
daemon be silent and the compositor stop sending configure events: each one counts as a
commit, and an endless stream of them would keep the stall from being noticed.

Each property has at least one mutant of the code, an operator named in its comment as such and defined
just before the one it mutates, under which TLC finds the property violated.

## Theorems

Each module of proofs states its theorems for every value of the constants that the named
assumptions allow: any numbers of windows, outputs, games, bytes, keys and values, where a
run of TLC takes two or three of each.

| Module | Theorem | Statement |
|---|---|---|
| `DaemonProofs` | `TypeCorrect` | `Spec => []TypeOK` |
| | `NoDimmingOutsideTheater` | `Spec => []DimmedOnlyInTheater` |
| | `StageStaysLit` | `Spec => []StageNeverDimmed` |
| | `StatusCoversDimming` | `Spec => []AffectedCoversLit` |
| | `TimersNeverOverlap` | `Spec => []TimersExclusive` |
| | `DaemonImplementsTheater` | `Spec => ImplementsTheater` |
| | `FollowsOnlyAfterDelay` | `Spec => JumpsOnlyAfterDelay` |
| | `RestoreScheduledWhenDue` | `Spec /\ KeepsRequirement => []RestoreIsScheduled` |
| | `DimsAllTheOthers` | `Spec /\ KeepsRequirement => []FollowsDisplays` |
| `DimmerProofs` | `TypeCorrect` | `Spec => []TypeOK` |
| | `OverlaysAreShaped` | `Spec => []OverlayShape` |
| | `OverlaysRestAtTheirTarget` | `Spec => []RestsAtTarget` |
| | `SurfacesShowWhereTheyRest` | `Spec => []ShowsWhatItRestsAt` |
| | `UnselectedAreGivenBack` | `Spec => []OnlySelectedStayDimmed` |
| | `OverlaysAreStackedAsAsked` | `Spec => []StackedAsAsked` |
| `CommandReaderProofs` | `TypeCorrect` | `Spec => []TypeOK` |
| | `HearsWhatIsSaid` | `Spec => []HandledIsReference` |
| | `BufferHoldsTheLine` | `Spec => []BufferIsUnfinishedLine` |
| | `AlwaysRoomForARead` | `Spec => []RoomForARead` |
| `ConfigurationProofs` | `SessionIsCoerced` | `Spec => []SessionOK` |
| | `HighestLayerAlwaysDecides` | `Spec => []HighestDecides` |
| | `EditsAreAlwaysExact` | `Spec => EditsAreExact` |
| | `PromisesAreKept` | `Spec => []AnswersHold` |
| `ArtworkCacheProofs` | `FilesAreNeverStale` | `Spec => []NeverStale` |
| | `HelperShowsWhatWasSent` | `Spec => []ShowsWhatWasSent` |
| `ArtworkProofs` | `TargetIsOldOrWhole` | `Spec => []OldOrWhole` |
| | `ShapesAreKept` | `Spec => []ShapeKept` |
| | `PicturesArePixels` | `Spec => []ShownInv` |
| | `RowsFollowKernels` | `Spec => RowsAreKernels` |
| | `BlurMakesMeans` | `Spec => BlurIsMean` |
| | `FrontHasNoSeam` | `Spec => LaidWithoutSeam` |
| `TheaterModeProofs` | `DaemonKnowsNothingFalse` | `SystemSpec => []KnowsNothingFalse` |
| | `ScreenOfTheGameIsNotDimmed` | `SystemSpec /\ KeepsRequirementWhileUp => []GameIsNotDimmed` |
| | `SystemDimsSafely` | `SystemSpec => [](DimmedOnlyInTheater /\ StageNeverDimmed /\ AffectedCoversLit /\ TimersExclusive)` |
| | `SystemFollowsOnlyAfterDelay` | `SystemSpec => JumpsOnlyAfterDelay` |

Every invariant that was to be proved inductive was checked by TLC in its full form first:
the one of the composition on two windows (2.3 million states), the others on the instances
of their runs.

**Daemon.** `IInv` (`InductiveInvariant`) adds three things to the types:

- the dict order is total on every set of tracked windows. Without it `Stage` would be an
  arbitrary value and nothing could be said of the output committed to;
- `appliedOthers` never holds the stage. `StageNeverDimmed` is not inductive by itself: a
  reload dims `appliedOthers`, whatever it is;
- what is lit is affected, and lit only in theater mode. `revert` returns early when nothing
  is affected and no helper runs, and this is what makes the early return safe.

The lemmas go along the code: what `revert` and `apply` may leave (`RevertLeavesDark`,
`ApplyLightsOthers`), what the tracking operators keep, one step lemma per helper
(`CommitStageStep`, `RevertNowStep`, `ReconcileStep`), and one preservation lemma per group
of actions. `FollowsOnlyAfterDelay` uses the same split: reconciliation never changes the
output theater mode is on from one to another, so `_confirm_stage` is the only step that
can.

`RestoreIsScheduled` and `FollowsDisplays` are not inductive either: with a third part,
`FollowIsPending` (a game elsewhere has its follow timer running), they are (`Settled`).
`ReconcileSettles` says that reconcile leaves a settled state *whatever* it started from, so
that all handlers that end in it need nothing of the state before.

**The refinement.** `DaemonImplementsTheater` has one lemma per group of steps
(`DetectorCallIsPromised`, `CommandLineCallIsPromised`, `TimeoutsArePromised`,
`LossesArePromised`). The handlers that change windows share `ReconcileReacts`: it takes the
windows the handler has just written and says which of the four reactions of `Theater`
reconcile is. It needs `IInv`: the stage that is wanted exists because the dict
order is total, a restore waits only in theater mode and never with a move
(`TimersExclusive`), and `revert` leaves nothing lit. `RestoreIsScheduled` and
`FollowsDisplays` say more than `Theater` does about *when* a delay runs, and are theorems
of their own.

**Hypothesis on reloads.** `KeepsRequirement` is that no reload changes `require_fullscreen`.
It is needed, and the code is why: a reload turns windows into games or back and does not
reconcile. The run `daemon_safety` meets the same limit by its two configurations agreeing on
it. `KeepsRequirementWhileUp`, in the composition, lets a daemon that starts come with
another value.

**Dimmer.** No function of the helper reads one output's record while it changes another's,
so the invariant is a predicate on one record (`OverlayOK`) and the selection. It is proved
function by function of the output state machine, each lemma saying what the function needs
and what it leaves; `Drawable` is what holds in the middle, between a change of the alpha
and the commit. `TypeCorrect` is of `TypeOK` with every field of the record.

**CommandReader.** The invariant, `Understood`, has two cases: the buffer holds the line that
goes on; or it is dropped, and what of that line has been read is as long as the buffer at
least. The second case is the one that a variant of the code gets wrong: a long line whose
end comes in the same read as the next line. The proof is an induction over the bytes of one
read inside the induction over the steps. The provers cannot take an induction theorem that
has an operator as its parameter, so `Intervals` states `Induction` and `Recursion` with sets and
functions and proves them from the well-foundedness of `<` and `WFMin`; `SaidUnfolds` and
`CutUnfolds` then give both recursive functions their defining equations.

**Configuration.** `HighestDecides` follows from one lemma about one layer over another,
taken four times, and from previews being coerced already (`SessionOK`): `Resolve` overlays
them without looking at them again. `AnswersHold` needs of a write under way that its
settings are coerced (`JobOK`) and that its text is an exact edit, which is the next theorem.

`EditsAreExact` is proved for texts of any lines. What a text says is the set of its entries,
key, value and spelling (`Entries`), the table in force after its last line (`EndTable`) and its
headers and comments in order (`Frame`). One lemma says what these are of two texts put
together (`TablesOfJoined`, `EntriesOfJoined`, `FrameJoins`); all that the writer does to a text
is made of that. The invariant of the walk of a commit, `WalkSays`, compares the
lines written with the lines read: same table, same frame, same entries but for the keys to
set; and a key to set has its new value as soon as its line was seen in the current table, or
its table was left. `FlushSays` is the hard step: the missing keys go in above the comments and
blank lines that end the table, and these say nothing, so the text below keeps its
meaning. A table that comes back after others is left twice; its keys are then written twice,
TOML refuses the text and the commit fails, so nothing need be said of it. `GrownSays` does
the same for the tables added at the end, `StrikeSays` for unset, where the entries
are exactly those of the file without the plain ones that were asked to go. In the end
`WellFormed`, which the code asks of TOML before it writes, makes a function of the
entries (`SettingsAreEntries`). `FilesOK` carries this through the steps: while a write
is under way its text is an exact edit of what was read, and that text and the user's file
always consist of lines that spell no key in two ways. The inductions are those of `Intervals`.

**ArtworkCache.** `NeverStale` needs the order of times (`TimesOK`) and that a file that is
being made, or was found and is not yet touched, is of the source of now, or marked (`JobOK`).
`ShowsWhatWasSent`
needs that no file is pruned between its command and the helper's open. The reason is
`Kept`: all files at least as new as one that was sent are of the same game, and there are at
most as many of these as sizes, which is what the trimmed cache has room for
(`FilesOfOneGame`, `PruneKeeps`). A file that could not be touched is as old as before and
nothing keeps it, but neither does it endanger the others. `PipeOK` says which command in the pipe is the last word on
an output.

**Artwork, the file.** `OldOrWhole` needs to know where in the pictures the tool is. `IInv` has,
for every stage, the sizes of the four pictures (`Table`), that a picture being resampled has
as many rows as are done, and that what is written, then what is in the chunk, are the
pixels up to `turn` in row order; a short write moves the line between the two and nothing
else. `ShapeKept` is the arithmetic of rounding a quotient to the nearest number and clamping
it (`RoundedIsNearest`, `RoundedSide`).

**Artwork, the pixels.** `ShownInv` adds to `IInv` that all values are in 0..255 (`PixelsOK`) and
that the ring is empty or holds rows of what is being resampled, each under its own number
in the slot of that number (`RingOK`). Over it lie four arguments:

- *The ring.* Two samples under one entry differ by less than the number of slots, which is a
  power of two (doubling `k` times gets past `k`, so the loop's bound suffices). So loading the
  rows of an entry never takes a slot from another row of that entry, and after the last
  each is there (`RingHoldsAnEntry`), whichever row was in its slot before. The run's mutant
  takes any row in the slot for the right one.
- *The kernel.* An entry's weights are those of the samples between two bounds computed by
  floor and ceiling; outside of them the kernel is zero, so the entry's sum and divisor are
  those of the kernel over all samples (`KernelSum`). Then the order of the two directions,
  the clamping at the edges and the rounding are the same (`RowIsDirect`). A picture that is
  only copied is the case in which exactly one sample of each kernel weighs anything
  (`CopyIsDirect`).
- *The blur.* The running sum is the sum of the window: moving the window by one adds one
  pixel and takes one away (`SumsAreWindows`), with the pixels at the edges counted for
  those past them. The three boxes that stand for a Gaussian of radius `r` have the radii
  `r-1`, `r-1` and `r` for every `r` from 2 on (`BoxesAre`). A mean of pixels is a pixel.
- *The blend.* `((t * 257) + 128) >> 16`, on whatever the weights of two pixels make of `t`,
  lies between the two pixels (`BlendIsBetween`); the mask is 0 at
  both ends and 255 over the middle half although its second ramp overwrites its first
  (`MaskAtIs`).

Sums are by `Loop`, a recursive function. What is said of them (`TotalAdds`: a sum is the last
of its partial sums) comes from `Intervals`: `Induction` and `Recursion` over an interval, stated
with sets and functions and proved from the least element of a set of numbers.

**Composition.** `KnowsNothingFalse` only speaks of states in which no call is under way.
`Foretold` says why it holds there: for each window, the last call that names it says what
the script has tracked, or that it is gone, or is followed by a whole snapshot; and where no
call names it, the daemon knows this already, or a snapshot that leaves it out is still to
end. Losing calls keeps that, because calls are lost only while there is no daemon, and a
daemon that starts knows nothing. `GameIsNotDimmed` joins this with the daemon's `Settled`.
It speaks of the games the daemon has heard of (`GamesKnown`). Said of the candidates on
the desktop it is true with one window and false with two: a game that stops being a
candidate without a signal (`CandidacyChanged`) remains the stage until the next snapshot,
and the screen of a second game is dimmed for it.

`SystemIInv` has the daemon's `IInv` as a part, so that the daemon's theorems, proved of a
daemon that runs forever, hold of one that is stopped and started (`SystemDimsSafely`,
`SystemFollowsOnlyAfterDelay`).

**Assumptions.** `OutputsAssumption` and `DaemonAssumption` give the constants their types;
`DimmerAssumption` orders the levels; `CommandReaderAssumption` wants a buffer of at least one
byte; `CoerceAssumption` that coercing twice is coercing once; `ValuesAssumption` that the
built-in values are acceptable as they are, that `validate_leaf` has an answer for whatever
is previewed and that a payload is finite; `TextsAssumption` that files consist of lines, with
values `validate_leaf` has an answer for (its None for those of no known type), and that the
schema's keys can be written in them; `SpellingAssumption` that nobody saves a text that sets
one key both plainly and in quotes, see *More behaviours*; `TheaterModeAssumption` that the script lists the displays there are, since it
asks KWin for all of them; `SizesAssumption` that the cache has room for one artwork of each
size, see *ArtworkCache*; `ArtworkAssumption` that the limits of the art tool are positive, and
`JobsAssumption` that its arguments are numbers (of any sign and size, the tool checks them)
and what is decoded is a picture: rows of the same length, at least one pixel, values in
0..255. TLC evaluates each in the runs.

**Only model-checked:**

- all liveness: `CatchesUp`, `SettlesOnTheGame`, `DisplaysGivenBack`, `FadesEnd` and
  `EverythingIsRead`. The provers reason neither about fairness nor about ENABLED;
- `FramingIsExact`: what `is_valid_complete_image` answers for every file an encoder writes is
  compared with how the file was put together, and only the run's module has the encoder;
- all of the image decoders: what a decoder computes is induction over data throughout, against a
  reference that is an encoder.

## Where the code and its documents differ

Each has a run that ends in the violation:

- **A reload during the restore delay is lost** (`AppliedIsCurrent`). The game closes, the
  configuration is reloaded within the restore delay, the game comes back on its screen:
  nothing applies the new options. The README says changes take effect immediately.
- **An accepted apply may not have reached the helper** (`HelperWasTold`). A helper that exits
  in the middle of `apply` is replaced there and then; the new one is not told what was
  sent before, `apply` returns True, and reconcile sees a helper that runs.
- **An emptied table is not an absent one** (`EmptyIsAbsent`). A display has a table under its
  model and one under its connector's name. Unsetting the only key of the former leaves its
  header, which still matches first, so the settings under the connector's name are not
  used. `writer.py` says that an empty table resolves identically to an absent one.

- **A refused value falls through to the layer below** (`RefusedIsDefault`). The system's file
  sets a key, the user's sets it to something the loader refuses. The system's value stays in
  force, which is what `HighestDecides` says of the code; `loader.py:144` says that the built-in
  default stands in for the value, the diagnostic carries that default as
  `substituted_value`, and the client prints it as "Substituted Default".

More behaviours came to light while the models were written, in counterexamples to
properties that were then weakened or in code that had to be described exactly. They are
recorded here without a run:

- A reload that makes a game not count (`require_fullscreen`) leaves theater mode on until
  the next detector event, because reload does not reconcile; a reload whose `apply` fails,
  with nothing affected before, is not retried.
- A restore timer may fire inside a snapshot that has already listed the game again. After an
  `apply` that failed late, `affected_outputs` is not empty although theater mode is off.
- The follow delay is not restarted: a game that goes from A to B and, while that is being
  confirmed, to C is followed to C when the delay for B ends (`daemon.py:147`).
- A simulated game does not stay: the next complete snapshot drops it (`daemon.py:333`), while
  the answer of `simulate` says `clear` undoes it.
- Commit and unset do not see quoted keys: a commit of such a key is refused because TOML
  would find it twice, an unset reports it as unset already. An unset of keys that no line
  sets does not reload. Of a text that sets a key plainly and in quotes, which TOML refuses
  whole, an unset removes the plain line, finds the rest in order (`writer.py:217-220`) and
  reports the key as removed, while the quoted line comes into force. `SpellingAssumption`
  excludes such texts; without it `AnswersHold` is false.
- What an editor saves between the daemon's read and its rename is lost; a temporary file is
  left behind by a crash.
- An old picture counts as fresh when its source is replaced while it is rendered, or between
  `steam.py:143`, which compares, and line 145, which touches; also when another image with
  an older mtime becomes the largest. `NeverStale` names these cases, and the proof shows that
  there are no others.
- A file that is found and cannot be touched (`steam.py:146`) may be pruned for the next
  output while its ART command waits; the helper then leaves the output as it was. A file
  of a killed tool's last rename is not pruned for until the next, and its `.argb.tmp`, if
  it was killed earlier, never.
- stb_image pads a zlib stream that ends early with zero bits and checks neither Adler nor
  CRC sums, so a cut stream may be accepted; in the tool the framing check precedes it. A
  palette index past the palette reads memory nobody has set. The comment at
  `stb_image.h:3428` says a file that ends early fails; line 3440 makes an image of it, after
  progressive scans from coefficients not yet transformed.
- `stbi__resample_row_h_2` weights the last sample but one towards the wrong neighbour
  (line 3494), against the comment at 3449; `RowsShown` exempts that sample
  (`TakenFromBefore`).

## Not modelled

- The event loop's timer table and signals (`bus.py`), and exceptions: one in a D-Bus handler is
  contained with what the handler had changed so far, one in a timer callback ends the
  daemon. The composition has the daemon's end at any moment. The daemon's two timers
  exclude each other (`TimersNeverOverlap`), so that a callback never cancels another one that is
  due in the same pass.
- How Steam games are identified (`/proc`, environment, cgroups): whether a window is a game is
  a choice made when it opens.
- EDID and sysfs: `connected_outputs()` is a constant. Decoding an EDID block is pure and has
  tests.
- The client, doctor and updater: argument parsing, reports and downloads; their calls are
  `CommandLineCall`. The installer: shell; `place()` moves the old tree away before it moves the
  new one in.
- jeepney and the Wayland protocol code: third-party and generated.

`PROJECT.json` lists each part with its reason.

## What is left open

1. An abstract specification of the composition that `TheaterMode` implements, restarts
   included.
2. The framing check against an encoder's grammar of markers and chunks.
