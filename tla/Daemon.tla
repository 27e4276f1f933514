------------------------------- MODULE Daemon -------------------------------
(* daemon.py: the state machine between the KWin detector and the dimming   *)
(* helper.  Every handler runs to completion on the one thread of the event *)
(* loop (bus.py), so a handler is one action; what interleaves is detector  *)
(* calls, command-line calls, timers and the exits of the helper process.   *)
EXTENDS DimEffect

CONSTANTS
  WindowIds,      \* KWin's internal ids, and the "simulated-..." one
  SimulatedId,    \* the id simulate() tracks its fake window under
  Idents,         \* (pid, resource class) pairs
  Configs,        \* the configurations a reload may resolve to
  DrmOutputs,     \* connected_outputs(): the connectors sysfs reports
  ScreenLists,    \* what SnapshotBegin may carry; {} when KWin's are unreadable
  PlugSets        \* the outputs the compositor may have

Unnamed  == 0     \* the empty output name: KWin gave the window no output
NoOutput == -1    \* None

ASSUME DaemonAssumption ==
  /\ SimulatedId \in WindowIds
  /\ Idents # {}
  /\ Configs \subseteq Config
  /\ DrmOutputs \subseteq Outputs
  /\ ScreenLists \subseteq SUBSET Outputs
  /\ PlugSets \subseteq SUBSET Outputs

(* TrackedWindow; game is appid # None. *)
Window == [ident : Idents, output : Outputs \cup {Unnamed},
           fullscreen : BOOLEAN, game : BOOLEAN]

VARIABLES
  windows,        \* windows: id -> Window, for the tracked ids
  older,          \* the dict's order: <<v, w>> when v was inserted before w
  active,         \* active_output
  appliedOthers,  \* _applied_others ({} when None, which is when active is)
  screens,        \* _compositor_outputs
  inPass,         \* _snapshot is not None
  seen,           \* the ids in _snapshot
  restoreTimer,   \* _pending_revert is not None
  followTimer,    \* _pending_stage is not None
  config,         \* config
  effect          \* effect: see DimEffect

tracking == <<windows, older>>
pass     == <<inPass, seen>>
theater  == <<active, appliedOthers>>
timers   == <<restoreTimer, followTimer>>
vars     == <<tracking, pass, theater, timers, screens, config, effect>>

Init ==
  /\ windows = [id \in {} |-> {}]
  /\ older = {}
  /\ active = NoOutput
  /\ appliedOthers = {}
  /\ screens = {}
  /\ inPass = FALSE
  /\ seen = {}
  /\ restoreTimer = FALSE
  /\ followTimer = FALSE
  /\ config \in Configs
  /\ \E outputs \in PlugSets : effect = Fresh(outputs)

-----------------------------------------------------------------------------
(* Games, the stage and the other outputs *)

Tracked == DOMAIN windows

(* The ids of game_windows() in ws, under configuration c. *)
Games(c, ws) ==
  {id \in DOMAIN ws : ws[id].game /\ (c.fullscreenOnly => ws[id].fullscreen)}

(* The first of ids in the order of the dict. *)
Eldest(order, ids) ==
  CHOOSE id \in ids : \A other \in ids \ {id} : <<id, other>> \in order

(* _stage(): the first fullscreen game, else the first game. *)
Stage(c, ws, order) ==
  LET games == Games(c, ws)
      full  == {id \in games : ws[id].fullscreen}
  IN  ws[Eldest(order, IF full # {} THEN full ELSE games)]

AllOutputs(ws) ==
  ({ws[id].output : id \in DOMAIN ws} \ {Unnamed})
    \cup (IF screens # {} THEN screens ELSE DrmOutputs)

OtherOutputs(ws, output) == AllOutputs(ws) \ {output}

-----------------------------------------------------------------------------
(* Entering and leaving theater mode *)

(* _commit_stage(), from effect state e. *)
CommitStage(ws, e, output) ==
  \E result \in ApplyOutcomes(config, e, OtherOutputs(ws, output)) :
    /\ effect' = result.effect
    /\ IF result.ok
       THEN /\ active' = output
            /\ appliedOthers' = OtherOutputs(ws, output)
       ELSE /\ active' = NoOutput
            /\ appliedOthers' = {}

(* _revert_now() *)
RevertNow ==
  /\ restoreTimer' = FALSE
  /\ IF active = NoOutput
     THEN UNCHANGED <<theater, effect>>
     ELSE /\ effect' \in RevertOutcomes(effect, FALSE)
          /\ active' = NoOutput
          /\ appliedOthers' = {}

(* Mutant: a pending change of stage is not cancelled. *)
ReconcileNoGameKeepsFollow ==
  /\ IF active # NoOutput /\ ~restoreTimer
     THEN restoreTimer' = TRUE /\ UNCHANGED <<theater, effect>>
     ELSE UNCHANGED <<restoreTimer, theater, effect>>
  /\ UNCHANGED followTimer

(* reconcile() when no game is left. *)
ReconcileNoGame ==
  /\ followTimer' = FALSE
  /\ IF active # NoOutput /\ ~restoreTimer
     THEN \/ /\ config.delayed
             /\ restoreTimer' = TRUE
             /\ UNCHANGED <<theater, effect>>
          \/ /\ ~config.delayed
             /\ RevertNow
     ELSE UNCHANGED <<restoreTimer, theater, effect>>

(* Mutant: the display set is looked at when the helper has exited only. *)
ReconcileSameStageBlind(ws) ==
  \/ /\ effect.affected # {} /\ ~effect.running
     /\ CommitStage(ws, effect, active)
     /\ UNCHANGED followTimer
  \/ /\ effect.affected = {} \/ effect.running
     /\ followTimer' = FALSE
     /\ UNCHANGED <<theater, effect>>

(* reconcile() when the stage is the output theater mode is already on;     *)
(* the last two cases are _follow_output_changes().                         *)
ReconcileSameStage(ws) ==
  \/ /\ effect.affected # {} /\ ~effect.running
     /\ CommitStage(ws, effect, active)
     /\ UNCHANGED followTimer
  \/ /\ effect.affected = {} \/ effect.running
     /\ followTimer' = FALSE
     /\ IF OtherOutputs(ws, active) = appliedOthers
        THEN UNCHANGED <<theater, effect>>
        ELSE CommitStage(ws, effect, active)

(* Mutants: a game on another screen is followed at once, or never. *)
ReconcileAtOnce(ws, order) ==
  IF Games(config, ws) = {}
  THEN ReconcileNoGame
  ELSE /\ restoreTimer' = FALSE
       /\ CommitStage(ws, effect, Stage(config, ws, order).output)
       /\ UNCHANGED followTimer

ReconcileStuck(ws, order) ==
  IF Games(config, ws) = {}
  THEN ReconcileNoGame
  ELSE /\ restoreTimer' = FALSE
       /\ IF active = NoOutput
          THEN CommitStage(ws, effect, Stage(config, ws, order).output)
          ELSE UNCHANGED <<theater, effect>>
       /\ UNCHANGED followTimer

(* reconcile() with the tracked windows ws in the dict order given. *)
Reconcile(ws, order) ==
  IF Games(config, ws) = {}
  THEN ReconcileNoGame
  ELSE LET stage == Stage(config, ws, order)
       IN  /\ restoreTimer' = FALSE
           /\ \/ /\ stage.output = active
                 /\ ReconcileSameStage(ws)
              \/ /\ active = NoOutput
                 /\ CommitStage(ws, effect, stage.output)
                 /\ UNCHANGED followTimer
              \/ /\ active \notin {NoOutput, stage.output}
                 /\ followTimer' = TRUE
                 /\ UNCHANGED <<theater, effect>>

(* A snapshot defers reconciliation to its end. *)
ReconcileOutsidePass(ws, order) ==
  IF inPass THEN UNCHANGED <<theater, timers, effect>>
            ELSE Reconcile(ws, order)

-----------------------------------------------------------------------------
(* Detector calls *)

Put(ws, id, w) == [v \in DOMAIN ws \cup {id} |-> IF v = id THEN w ELSE ws[v]]
Keep(ws, ids)  == [v \in DOMAIN ws \cap ids |-> ws[v]]

(* Mutant: the dict forgets when a window was inserted. *)
PutOrderUnordered(order, ws, id) == order

PutOrder(order, ws, id) ==
  IF id \in DOMAIN ws THEN order ELSE order \cup ((DOMAIN ws) \X {id})
KeepOrder(order, ids) == order \cap (ids \X ids)

Track(id, w) ==
  /\ windows' = Put(windows, id, w)
  /\ older' = PutOrder(older, windows, id)

(* steam_appid_for_window reads /proc and the class: found is its answer.   *)
(* It is asked only for a window whose identity is new.                     *)
WindowOpened(id, ident, output, fullscreen, found) ==
  LET known == id \in Tracked /\ windows[id].ident = ident
      w     == [ident |-> ident, output |-> output, fullscreen |-> fullscreen,
                game |-> IF known THEN windows[id].game ELSE found]
  IN  /\ Track(id, w)
      /\ seen' = IF inPass THEN seen \cup {id} ELSE seen
      /\ ReconcileOutsidePass(Put(windows, id, w), PutOrder(older, windows, id))
      /\ UNCHANGED <<inPass, screens, config>>

WindowChanged(id, output, fullscreen) ==
  /\ id \in Tracked
  /\ LET w == [windows[id] EXCEPT !.output = output, !.fullscreen = fullscreen]
     IN  /\ Track(id, w)
         /\ ReconcileOutsidePass(Put(windows, id, w), older)
  /\ UNCHANGED <<pass, screens, config>>

(* pop(id, None): an unknown id still reconciles. *)
WindowClosed(id) ==
  LET rest == Tracked \ {id}
  IN  /\ windows' = Keep(windows, rest)
      /\ older' = KeepOrder(older, rest)
      /\ ReconcileOutsidePass(Keep(windows, rest), KeepOrder(older, rest))
      /\ UNCHANGED <<pass, screens, config>>

SnapshotBegin(list) ==
  /\ screens' = IF list # {} THEN list ELSE screens
  /\ inPass' = TRUE
  /\ seen' = {}
  /\ UNCHANGED <<tracking, theater, timers, config, effect>>

(* Mutant: stale windows are dropped without reconciling. *)
SnapshotEndSilent ==
  /\ inPass
  /\ windows' = Keep(windows, seen)
  /\ older' = KeepOrder(older, seen)
  /\ inPass' = FALSE
  /\ seen' = {}
  /\ UNCHANGED <<theater, timers, screens, config, effect>>

SnapshotEnd ==
  /\ inPass
  /\ windows' = Keep(windows, seen)
  /\ older' = KeepOrder(older, seen)
  /\ inPass' = FALSE
  /\ seen' = {}
  /\ Reconcile(Keep(windows, seen), KeepOrder(older, seen))
  /\ UNCHANGED <<screens, config>>

-----------------------------------------------------------------------------
(* Command-line calls *)

(* simulate() reconciles even during a snapshot, and is not part of one. *)
Simulate(ident, output) ==
  LET w == [ident |-> ident, output |-> output, fullscreen |-> TRUE, game |-> TRUE]
  IN  /\ Track(SimulatedId, w)
      /\ Reconcile(Put(windows, SimulatedId, w),
                   PutOrder(older, windows, SimulatedId))
      /\ UNCHANGED <<pass, screens, config>>

Clear ==
  /\ windows' = [id \in {} |-> {}]
  /\ older' = {}
  /\ followTimer' = FALSE
  /\ RevertNow
  /\ UNCHANGED <<pass, screens, config>>

(* Mutant: the outputs are computed anew, for where the game is now. *)
ReloadHere(c) ==
  /\ config' = c
  /\ IF active # NoOutput /\ Games(c, windows) # {}
     THEN \E result \in ApplyOutcomes(c, effect, OtherOutputs(windows,
                            Stage(c, windows, older).output)) :
            effect' = result.effect
     ELSE UNCHANGED effect
  /\ UNCHANGED <<tracking, pass, theater, timers, screens>>

(* _reload_internal(): reload(), preview(), revert_preview(), commit() and  *)
(* unset() all end in it, once the configuration has resolved to c.         *)
Reload(c) ==
  /\ config' = c
  /\ IF active # NoOutput /\ Games(c, windows) # {}
     THEN \E result \in ApplyOutcomes(c, effect, appliedOthers) :
            effect' = result.effect
     ELSE UNCHANGED effect
  /\ UNCHANGED <<tracking, pass, theater, timers, screens>>

-----------------------------------------------------------------------------
(* Timers and the helper process *)

(* The restore delay has passed: the timer's callback is _revert_now. *)
RestoreTimeout ==
  /\ restoreTimer
  /\ RevertNow
  /\ UNCHANGED <<tracking, pass, followTimer, screens, config>>

(* _confirm_stage() *)
FollowTimeout ==
  /\ followTimer
  /\ followTimer' = FALSE
  /\ IF Games(config, windows) = {}
        \/ Stage(config, windows, older).output = active
     THEN UNCHANGED <<theater, effect>>
     ELSE \E reverted \in RevertOutcomes(effect, FALSE) :
            CommitStage(windows, reverted, Stage(config, windows, older).output)
  /\ UNCHANGED <<tracking, pass, restoreTimer, screens, config>>

HelperExits ==
  /\ effect.running
  /\ effect' = Exited(effect)
  /\ UNCHANGED <<tracking, pass, theater, timers, screens, config>>

(* A display comes or goes.  Only the helper sees it at once; the daemon    *)
(* hears of it in a later snapshot.                                         *)
Hotplug(outputs) ==
  /\ outputs # effect.plugged
  /\ effect' = Replugged(effect, outputs)
  /\ UNCHANGED <<tracking, pass, theater, timers, screens, config>>

-----------------------------------------------------------------------------
DetectorCall ==
  \/ \E id \in WindowIds \ {SimulatedId}, output \in Outputs \cup {Unnamed},
        fullscreen \in BOOLEAN :
       \/ \E ident \in Idents, found \in BOOLEAN :
            WindowOpened(id, ident, output, fullscreen, found)
       \/ WindowChanged(id, output, fullscreen)
  \/ \E id \in WindowIds \ {SimulatedId} : WindowClosed(id)
  \/ \E list \in ScreenLists : SnapshotBegin(list)
  \/ SnapshotEnd

CommandLineCall ==
  \/ \E ident \in Idents, output \in Outputs : Simulate(ident, output)
  \/ Clear
  \/ \E c \in Configs : Reload(c)

Next ==
  \/ DetectorCall
  \/ CommandLineCall
  \/ RestoreTimeout
  \/ FollowTimeout
  \/ HelperExits
  \/ \E outputs \in PlugSets : Hotplug(outputs)

Spec == Init /\ [][Next]_vars

-----------------------------------------------------------------------------
(* Properties *)

(* Tracked windows are windows, and the dict order is total: every          *)
(* non-empty set of them has an eldest.                                     *)
WindowsOK(ws, order) ==
  /\ DOMAIN ws \subseteq WindowIds
  /\ \A id \in DOMAIN ws : ws[id] \in Window
  /\ \A ids \in SUBSET DOMAIN ws : ids # {} =>
       \E id \in ids : \A other \in ids \ {id} : <<id, other>> \in order

(* Every variable has its type, so that reconcile always finds a stage when *)
(* there is a game.                                                         *)
TypeOK ==
  /\ WindowsOK(windows, older)
  /\ active \in Outputs \cup {Unnamed, NoOutput}
  /\ appliedOthers \in SUBSET Outputs
  /\ screens \in SUBSET Outputs
  /\ inPass \in BOOLEAN
  /\ seen \in SUBSET WindowIds
  /\ restoreTimer \in BOOLEAN
  /\ followTimer \in BOOLEAN
  /\ config \in Config
  /\ effect \in Effect

(* A helper that is alive shows a dimmed output only while theater mode is  *)
(* on: whatever failed, restarted or raced, no overlay outlives it.         *)
DimmedOnlyInTheater == effect.lit # {} => active # NoOutput

(* The screen theater mode is on is never dimmed itself, not by a partial   *)
(* apply, a reload or a change of stage.                                    *)
StageNeverDimmed == active \notin effect.lit

(* What status reports as affected covers all that is dimmed. *)
AffectedCoversLit == effect.lit \subseteq effect.affected

(* A restore is scheduled only in theater mode, and never while a change of *)
(* stage waits to be confirmed: a timer left behind by an earlier game      *)
(* would act on a later one.                                                *)
TimersExclusive ==
  /\ restoreTimer => active # NoOutput
  /\ ~(restoreTimer /\ followTimer)

(* Theater mode that is on has its restore scheduled exactly when no game   *)
(* is left, unless a snapshot that will reconcile is under way.             *)
RestoreIsScheduled ==
  ~inPass /\ active # NoOutput => (restoreTimer <=> Games(config, windows) = {})

(* Outside a snapshot, while the game is where theater mode is, the outputs *)
(* the effect was last applied to are all the others there are.             *)
FollowsDisplays ==
  ~inPass /\ Games(config, windows) # {} =>
    LET stage == Stage(config, windows, older)
    IN  stage.output = active =>
          appliedOthers = OtherOutputs(windows, active)

(* Theater mode never jumps from one screen to another without the          *)
(* follow delay having run out for a move.                                  *)
JumpsOnlyAfterDelay ==
  [][active # NoOutput /\ active' # NoOutput /\ active' # active
       => followTimer /\ ~followTimer']_vars

(* Where the game of the tracked windows is. *)
Wanted(c, ws, order) ==
  IF Games(c, ws) = {} THEN NoOutput ELSE Stage(c, ws, order).output

Waiting == {timer \in {"restore", "move"} :
              IF timer = "restore" THEN restoreTimer ELSE followTimer}

(* The daemon is a theater as Theater describes it, whatever its windows,   *)
(* configurations and helper do.                                            *)
Promise == INSTANCE Theater WITH
  Displays  <- Outputs,
  Places    <- Outputs \cup {Unnamed},
  Nowhere   <- NoOutput,
  wanted    <- Wanted(config, windows, older),
  stage     <- active,
  dark      <- effect.lit,
  waiting   <- Waiting,
  surveying <- inPass

ImplementsTheater == Promise!Spec

(* An effect that runs for a game on its stage is the current              *)
(* configuration's: no reload is lost.                                      *)
AppliedIsCurrent ==
  effect.running /\ Games(config, windows) # {} =>
    (Stage(config, windows, older).output = active =>
       effect.affected = Targets(config, appliedOthers))

(* What the daemon believes dimmed, its running helper was told: every      *)
(* affected output that is there is lit, and had its LAYER and ART before.  *)
HelperWasTold ==
  effect.running =>
    /\ effect.affected \cap effect.plugged \subseteq effect.lit
    /\ effect.lit \subseteq effect.staged
=============================================================================
