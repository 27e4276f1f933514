---------------------------- MODULE DaemonProofs ----------------------------
(* Theorems about Daemon, for any outputs, windows and configurations. *)
EXTENDS Daemon, TLAPS

(* What holds of an effect record in every reachable state. *)
EffectOK(e) == e \in Effect /\ e.lit \subseteq e.affected

-----------------------------------------------------------------------------
(* The effect's methods *)

(* revert() leaves nothing lit: when it returns early nothing was.          *)
LEMMA RevertLeavesDark ==
  ASSUME NEW e, EffectOK(e),
         NEW immediate \in BOOLEAN, NEW r \in RevertOutcomes(e, immediate)
  PROVE  EffectOK(r) /\ r.lit = {}
BY DEF EffectOK, RevertOutcomes, FadedOut, Exited, Effect

(* apply() lights outputs among the others only, and none when it fails.    *)
LEMMA ApplyLightsOthers ==
  ASSUME NEW c \in Config, NEW e, EffectOK(e),
         NEW others \in SUBSET Outputs, NEW r \in ApplyOutcomes(c, e, others)
  PROVE  /\ EffectOK(r.effect)
         /\ r.effect.lit \subseteq others
         /\ r.ok \in BOOLEAN
         /\ ~r.ok => r.effect.lit = {}
<1> DEFINE targets == Targets(c, others)
<1>1. targets \subseteq others
  BY DEF Targets
<1>2. CASE targets = {}
  <2>1. r.ok = TRUE /\ r.effect \in RevertOutcomes(e, FALSE)
    BY <1>2 DEF ApplyOutcomes
  <2> QED BY <2>1, RevertLeavesDark
<1>3. CASE targets # {} /\ r.ok = TRUE /\ r.effect \in Accepted(c, e, targets)
  <2> DEFINE reach == targets \cap e.plugged
             own   == targets \cap c.own
             told(staged, lit, tuned) ==
               [running |-> TRUE, affected |-> targets, plugged |-> e.plugged,
                lit |-> lit, staged |-> staged, tuned |-> tuned]
             late(k) == {t \in own \cap reach : t >= k}
  <2>1. \A S \in TailsAfterRestart(reach) : S \subseteq reach
    BY DEF TailsAfterRestart
  <2>2. /\ targets \in SUBSET Outputs /\ e.plugged \in SUBSET Outputs
        /\ e.staged \cup reach \in SUBSET Outputs
    BY <1>1 DEF EffectOK, Effect
  <2> SUFFICES EffectOK(r.effect) /\ r.effect.lit \subseteq targets
    BY <1>1, <1>3
  <2>3. ASSUME NEW staged \in SUBSET Outputs, NEW lit \in SUBSET targets,
               NEW tuned \in SUBSET targets, r.effect = told(staged, lit, tuned)
        PROVE  EffectOK(r.effect) /\ r.effect.lit \subseteq targets
    <3>1. r.effect \in Effect
      BY <2>2, <2>3 DEF Effect
    <3> QED BY <2>3, <3>1 DEF EffectOK
  <2>4. CASE \E staged \in {e.staged \cup reach, reach}
                             \cup TailsAfterRestart(reach) :
               r.effect = told(staged, reach, own \cap reach)
    <3>1. PICK staged \in SUBSET Outputs :
            r.effect = told(staged, reach, own \cap reach)
      BY <2>1, <2>2, <2>4
    <3>2. reach \in SUBSET targets /\ own \cap reach \in SUBSET targets
      OBVIOUS
    <3> HIDE DEF told, reach, own
    <3> QED BY <2>3, <3>1, <3>2
  <2>5. CASE \E k \in own : r.effect = told({}, late(k), late(k))
    <3>1. PICK tail \in SUBSET targets : r.effect = told({}, tail, tail)
      BY <2>5
    <3> HIDE DEF told
    <3> QED BY <2>3, <3>1
  <2> QED BY <1>3, <2>4, <2>5 DEF Accepted
<1>4. CASE targets # {} /\ r.ok = FALSE /\ r.effect \in Refused(c, e, targets)
  BY <1>1, <1>4 DEF Refused, Exited, EffectOK, Effect
<1> QED
  BY <1>2, <1>3, <1>4 DEF ApplyOutcomes, Dispatched
-----------------------------------------------------------------------------
(* Tracking windows *)

(* The stage of a configuration with a game is one of the games.            *)
LEMMA StageIsAGame ==
  ASSUME NEW c \in Config, NEW ws, NEW order, WindowsOK(ws, order),
         Games(c, ws) # {}
  PROVE  \E id \in Games(c, ws) : Stage(c, ws, order) = ws[id]
<1> DEFINE games == Games(c, ws)
           full  == {id \in games : ws[id].fullscreen}
           from  == IF full # {} THEN full ELSE games
<1>1. from \in SUBSET DOMAIN ws /\ from # {} /\ from \subseteq games
  BY DEF Games
<1>2. \E id \in from : \A other \in from \ {id} : <<id, other>> \in order
  BY <1>1 DEF WindowsOK
<1>3. Eldest(order, from) \in from
  BY <1>2 DEF Eldest
<1>4. Stage(c, ws, order) = ws[Eldest(order, from)]
  BY DEF Stage
<1> HIDE DEF games, from
<1> QED BY <1>1, <1>3, <1>4 DEF games

(* The stage is one of the tracked windows, so it has an output.            *)
LEMMA StageIsTracked ==
  ASSUME NEW c \in Config, NEW ws, NEW order, WindowsOK(ws, order),
         Games(c, ws) # {}
  PROVE  Stage(c, ws, order) \in Window
BY StageIsAGame DEF Games, WindowsOK

(* Adding or updating a window, at the end of the dict or in its place.     *)
LEMMA PutKeepsWindowsOK ==
  ASSUME NEW ws, NEW order, WindowsOK(ws, order),
         NEW id \in WindowIds, NEW w \in Window
  PROVE  WindowsOK(Put(ws, id, w), PutOrder(order, ws, id))
<1> DEFINE new == Put(ws, id, w)
           newOrder == PutOrder(order, ws, id)
<1>1. DOMAIN new = DOMAIN ws \cup {id}
  BY DEF Put
<1>2. \A v \in DOMAIN new : new[v] \in Window
  BY DEF Put, WindowsOK
<1>3. ASSUME NEW ids \in SUBSET DOMAIN new, ids # {}
      PROVE  \E v \in ids : \A other \in ids \ {v} : <<v, other>> \in newOrder
  <2>1. CASE id \in DOMAIN ws
    BY <1>1, <1>3, <2>1 DEF WindowsOK, PutOrder
  <2>2. CASE id \notin DOMAIN ws /\ ids \ {id} = {}
    BY <1>3, <2>2
  <2>3. CASE id \notin DOMAIN ws /\ ids \ {id} # {}
    <3>1. ids \ {id} \in SUBSET DOMAIN ws
      BY <1>1
    <3>2. PICK v \in ids \ {id} :
            \A other \in (ids \ {id}) \ {v} : <<v, other>> \in order
      BY <2>3, <3>1 DEF WindowsOK
    <3>3. <<v, id>> \in newOrder
      BY <2>3, <3>1, <3>2 DEF PutOrder
    <3>4. \A other \in ids \ {v} : <<v, other>> \in newOrder
      BY <2>3, <3>2, <3>3 DEF PutOrder
    <3> QED BY <3>2, <3>4
  <2> QED BY <2>1, <2>2, <2>3
<1> HIDE DEF new, newOrder
<1>4. WindowsOK(new, newOrder)
  BY <1>1, <1>2, <1>3 DEF WindowsOK
<1> QED BY <1>4 DEF new, newOrder

(* Dropping windows. *)
LEMMA KeepKeepsWindowsOK ==
  ASSUME NEW ws, NEW order, WindowsOK(ws, order), NEW ids
  PROVE  WindowsOK(Keep(ws, ids), KeepOrder(order, ids))
<1>1. DOMAIN Keep(ws, ids) = DOMAIN ws \cap ids
  BY DEF Keep
<1>2. \A v \in DOMAIN Keep(ws, ids) : Keep(ws, ids)[v] = ws[v]
  BY DEF Keep
<1>3. ASSUME NEW S \in SUBSET DOMAIN Keep(ws, ids), S # {}
      PROVE  \E v \in S : \A other \in S \ {v} :
               <<v, other>> \in KeepOrder(order, ids)
  <2>1. S \in SUBSET DOMAIN ws /\ S \subseteq ids
    BY <1>1
  <2>2. PICK v \in S : \A other \in S \ {v} : <<v, other>> \in order
    BY <1>3, <2>1 DEF WindowsOK
  <2> QED BY <2>1, <2>2 DEF KeepOrder
<1> QED BY <1>1, <1>2, <1>3 DEF WindowsOK

(* The other outputs are outputs, and not the one they are others to.       *)
LEMMA OthersAreOutputs ==
  ASSUME NEW ws, NEW order, WindowsOK(ws, order), screens \in SUBSET Outputs,
         NEW output
  PROVE  /\ OtherOutputs(ws, output) \in SUBSET Outputs
         /\ output \notin OtherOutputs(ws, output)
BY DaemonAssumption DEF OtherOutputs, AllOutputs, WindowsOK, Window
-----------------------------------------------------------------------------
(* The inductive invariant *)

(* TimersOK and TheaterOK are the parts that reconcile establishes.  That   *)
(* appliedOthers leaves the stage out is what makes a reload, which applies *)
(* to the outputs remembered from an earlier apply, spare the stage.        *)
TheaterOK ==
  /\ active \in Outputs \cup {Unnamed, NoOutput}
  /\ appliedOthers \in SUBSET Outputs
  /\ EffectOK(effect)
  /\ active \notin appliedOthers
  /\ DimmedOnlyInTheater
  /\ StageNeverDimmed

TimersOK ==
  /\ restoreTimer \in BOOLEAN
  /\ followTimer \in BOOLEAN
  /\ TimersExclusive

RestOK ==
  /\ screens \in SUBSET Outputs
  /\ inPass \in BOOLEAN
  /\ seen \in SUBSET WindowIds
  /\ config \in Config

IInv == WindowsOK(windows, older) /\ TheaterOK /\ TimersOK /\ RestOK

(* The properties that are parts of the invariant.                          *)
LEMMA IInvImplies ==
  ASSUME IInv
  PROVE  /\ TypeOK
         /\ DimmedOnlyInTheater /\ StageNeverDimmed
         /\ AffectedCoversLit /\ TimersExclusive
BY DEF IInv, TypeOK, TheaterOK, TimersOK, RestOK, EffectOK, AffectedCoversLit

(* A daemon that starts tracks nothing and has dimmed nothing.              *)
LEMMA InitEstablishes ==
  ASSUME Init
  PROVE  IInv
<1>1. WindowsOK(windows, older)
  BY DEF Init, WindowsOK
<1>2. EffectOK(effect)
  BY DaemonAssumption DEF Init, Fresh, EffectOK, Effect
<1>3. TheaterOK
  BY <1>2 DEF Init, TheaterOK, Fresh, DimmedOnlyInTheater, StageNeverDimmed
<1>4. TimersOK /\ RestOK
  BY DaemonAssumption DEF Init, TimersOK, TimersExclusive, RestOK
<1> QED BY <1>1, <1>3, <1>4 DEF IInv

-----------------------------------------------------------------------------
(* The steps inside a handler *)

(* NoOutput and Unnamed name no output. *)
LEMMA NoOutputIsNone == NoOutput \notin Outputs /\ Unnamed \notin Outputs
                        /\ NoOutput # Unnamed
BY OutputsAssumption DEF NoOutput, Unnamed

(* Committing a stage, from any sound effect state. *)
LEMMA CommitStageStep ==
  ASSUME RestOK, NEW ws, NEW order, WindowsOK(ws, order),
         NEW e, EffectOK(e), NEW output \in Outputs \cup {Unnamed},
         CommitStage(ws, e, output)
  PROVE  TheaterOK'
<1> DEFINE others == OtherOutputs(ws, output)
<1>1. others \in SUBSET Outputs /\ output \notin others
  BY OthersAreOutputs DEF RestOK
<1>2. PICK result \in ApplyOutcomes(config, e, others) :
        /\ effect' = result.effect
        /\ IF result.ok THEN active' = output /\ appliedOthers' = others
                        ELSE active' = NoOutput /\ appliedOthers' = {}
  BY DEF CommitStage
<1>3. /\ EffectOK(effect') /\ effect'.lit \subseteq others
      /\ ~result.ok => effect'.lit = {}
  BY <1>1, <1>2, ApplyLightsOthers DEF RestOK
<1> HIDE DEF others
<1> QED
  BY <1>1, <1>2, <1>3, NoOutputIsNone
  DEF TheaterOK, DimmedOnlyInTheater, StageNeverDimmed, EffectOK

(* Restoring: theater mode is off and nothing is lit. *)
LEMMA RevertNowStep ==
  ASSUME TheaterOK, RevertNow
  PROVE  TheaterOK' /\ restoreTimer' = FALSE
<1>1. CASE active = NoOutput
  BY <1>1 DEF RevertNow, theater, TheaterOK, DimmedOnlyInTheater, StageNeverDimmed
<1>2. CASE active # NoOutput
  <2>1. EffectOK(effect') /\ effect'.lit = {}
    BY <1>2, RevertLeavesDark DEF RevertNow, TheaterOK
  <2> QED
    BY <1>2, <2>1
    DEF RevertNow, TheaterOK, DimmedOnlyInTheater, StageNeverDimmed
<1> QED BY <1>1, <1>2 DEF RevertNow

(* Steps that leave theater mode and the effect alone.                      *)
LEMMA UnchangedTheater ==
  ASSUME TheaterOK, UNCHANGED <<theater, effect>>
  PROVE  TheaterOK'
BY DEF TheaterOK, theater, DimmedOnlyInTheater, StageNeverDimmed

(* reconcile() re-establishes what it owns, whatever windows it is given.   *)
LEMMA ReconcileStep ==
  ASSUME TheaterOK, TimersOK, RestOK,
         NEW ws, NEW order, WindowsOK(ws, order), Reconcile(ws, order)
  PROVE  TheaterOK' /\ TimersOK'
<1>1. CASE Games(config, ws) = {}
  <2>1. ReconcileNoGame
    BY <1>1 DEF Reconcile
  <2>2. CASE active # NoOutput /\ ~restoreTimer /\ config.delayed
    <3>1. /\ followTimer' = FALSE /\ restoreTimer' = TRUE
          /\ UNCHANGED <<theater, effect>>
      BY <2>1, <2>2 DEF ReconcileNoGame
    <3>2. active' # NoOutput
      BY <2>2, <3>1 DEF theater
    <3> QED BY <3>1, <3>2, UnchangedTheater DEF TimersOK, TimersExclusive
  <2>3. CASE active # NoOutput /\ ~restoreTimer /\ ~config.delayed
    <3>1. followTimer' = FALSE /\ RevertNow
      BY <2>1, <2>3 DEF ReconcileNoGame
    <3> QED BY <3>1, RevertNowStep DEF TimersOK, TimersExclusive
  <2>4. CASE ~(active # NoOutput /\ ~restoreTimer)
    <3>1. followTimer' = FALSE /\ UNCHANGED <<restoreTimer, theater, effect>>
      BY <2>1, <2>4 DEF ReconcileNoGame
    <3>2. active' = active
      BY <3>1 DEF theater
    <3> QED BY <3>1, <3>2, UnchangedTheater DEF TimersOK, TimersExclusive
  <2> QED BY <2>2, <2>3, <2>4
<1>2. CASE Games(config, ws) # {}
  <2> DEFINE stage == Stage(config, ws, order)
  <2>1. stage.output \in Outputs \cup {Unnamed}
    BY <1>2, StageIsTracked DEF RestOK, Window
  <2>2. restoreTimer' = FALSE
    BY <1>2 DEF Reconcile
  <2>3. CASE stage.output = active /\ ReconcileSameStage(ws)
    <3>1. CASE CommitStage(ws, effect, active) /\ followTimer' \in {followTimer, FALSE}
      BY <2>1, <2>2, <2>3, <3>1, CommitStageStep
      DEF TheaterOK, TimersOK, TimersExclusive
    <3>2. CASE UNCHANGED <<theater, effect>> /\ followTimer' = FALSE
      BY <2>2, <3>2, UnchangedTheater DEF TimersOK, TimersExclusive
    <3> QED BY <2>3, <3>1, <3>2 DEF ReconcileSameStage
  <2>4. CASE CommitStage(ws, effect, stage.output) /\ UNCHANGED followTimer
    BY <2>1, <2>2, <2>4, CommitStageStep DEF TheaterOK, TimersOK, TimersExclusive
  <2>5. CASE followTimer' = TRUE /\ UNCHANGED <<theater, effect>>
    BY <2>2, <2>5, UnchangedTheater DEF TimersOK, TimersExclusive
  <2> QED BY <1>2, <2>3, <2>4, <2>5 DEF Reconcile
<1> QED BY <1>1, <1>2

(* The same with the handler's test for a snapshot under way.               *)
LEMMA ReconcileOutsidePassStep ==
  ASSUME TheaterOK, TimersOK, RestOK,
         NEW ws, NEW order, WindowsOK(ws, order),
         ReconcileOutsidePass(ws, order)
  PROVE  TheaterOK' /\ TimersOK'
<1>1. CASE inPass
  <2>1. UNCHANGED <<theater, effect>> /\ UNCHANGED timers
    BY <1>1 DEF ReconcileOutsidePass
  <2> QED
    BY <2>1, UnchangedTheater DEF timers, theater, TimersOK, TimersExclusive
<1>2. CASE ~inPass
  BY <1>2, ReconcileStep DEF ReconcileOutsidePass
<1> QED BY <1>1, <1>2
-----------------------------------------------------------------------------
(* Every action preserves the invariant *)

(* A call of the detector keeps the invariant, whatever window it reports. *)
LEMMA DetectorCallPreserves ==
  ASSUME IInv, DetectorCall
  PROVE  IInv'
<1> USE DEF IInv
<1>1. ASSUME NEW id \in WindowIds, NEW output \in Outputs \cup {Unnamed},
             NEW fullscreen \in BOOLEAN, NEW ident \in Idents,
             NEW found \in BOOLEAN,
             WindowOpened(id, ident, output, fullscreen, found)
      PROVE  IInv'
  <2> DEFINE known == id \in Tracked /\ windows[id].ident = ident
             w == [ident |-> ident, output |-> output,
                   fullscreen |-> fullscreen,
                   game |-> IF known THEN windows[id].game ELSE found]
             ws == Put(windows, id, w)
             order == PutOrder(older, windows, id)
  <2>1. w \in Window
    BY DEF WindowsOK, Window, Tracked
  <2>2. WindowsOK(ws, order)
    BY <2>1, PutKeepsWindowsOK
  <2>3. /\ windows' = ws /\ older' = order
        /\ ReconcileOutsidePass(ws, order)
        /\ seen' \in SUBSET WindowIds /\ UNCHANGED <<inPass, screens, config>>
    BY <1>1 DEF WindowOpened, Track, RestOK
  <2> HIDE DEF ws, order
  <2>4. TheaterOK' /\ TimersOK'
    BY <2>2, <2>3, ReconcileOutsidePassStep
  <2> QED BY <2>2, <2>3, <2>4 DEF RestOK
<1>2. ASSUME NEW id \in WindowIds, NEW output \in Outputs \cup {Unnamed},
             NEW fullscreen \in BOOLEAN, WindowChanged(id, output, fullscreen)
      PROVE  IInv'
  <2> DEFINE w == [windows[id] EXCEPT !.output = output,
                                      !.fullscreen = fullscreen]
             ws == Put(windows, id, w)
  <2>1. id \in Tracked /\ PutOrder(older, windows, id) = older
    BY <1>2 DEF WindowChanged, PutOrder, Tracked
  <2>2. w \in Window
    BY <2>1 DEF WindowsOK, Window, Tracked
  <2>3. WindowsOK(ws, older)
    BY <2>1, <2>2, PutKeepsWindowsOK
  <2>4. /\ windows' = ws /\ older' = older
        /\ ReconcileOutsidePass(ws, older)
        /\ UNCHANGED <<inPass, seen, screens, config>>
    BY <1>2, <2>1 DEF WindowChanged, Track, pass
  <2> HIDE DEF ws
  <2>5. TheaterOK' /\ TimersOK'
    BY <2>3, <2>4, ReconcileOutsidePassStep
  <2> QED BY <2>3, <2>4, <2>5 DEF RestOK
<1>3. ASSUME NEW id \in WindowIds, WindowClosed(id)
      PROVE  IInv'
  <2> DEFINE ws == Keep(windows, Tracked \ {id})
             order == KeepOrder(older, Tracked \ {id})
  <2>1. WindowsOK(ws, order)
    BY KeepKeepsWindowsOK
  <2>2. /\ windows' = ws /\ older' = order
        /\ ReconcileOutsidePass(ws, order)
        /\ UNCHANGED <<inPass, seen, screens, config>>
    BY <1>3 DEF WindowClosed, pass
  <2> HIDE DEF ws, order
  <2>3. TheaterOK' /\ TimersOK'
    BY <2>1, <2>2, ReconcileOutsidePassStep
  <2> QED BY <2>1, <2>2, <2>3 DEF RestOK
<1>4. ASSUME NEW list \in ScreenLists, SnapshotBegin(list)
      PROVE  IInv'
  <2>1. /\ UNCHANGED <<windows, older>> /\ UNCHANGED <<restoreTimer, followTimer>>
        /\ UNCHANGED <<theater, effect>> /\ UNCHANGED config
        /\ screens' \in SUBSET Outputs
        /\ inPass' \in BOOLEAN /\ seen' \in SUBSET WindowIds
    BY <1>4, DaemonAssumption DEF SnapshotBegin, tracking, timers, theater, RestOK
  <2>2. TheaterOK'
    BY <2>1, UnchangedTheater
  <2>3. TimersOK'
    BY <2>1 DEF TimersOK, TimersExclusive, theater
  <2> QED BY <2>1, <2>2, <2>3 DEF RestOK
<1>5. ASSUME SnapshotEnd
      PROVE  IInv'
  <2> DEFINE ws == Keep(windows, seen)
             order == KeepOrder(older, seen)
  <2>1. WindowsOK(ws, order)
    BY KeepKeepsWindowsOK
  <2>2. /\ windows' = ws /\ older' = order
        /\ inPass' = FALSE /\ seen' = {}
        /\ Reconcile(ws, order)
        /\ UNCHANGED <<screens, config>>
    BY <1>5 DEF SnapshotEnd
  <2> HIDE DEF ws, order
  <2>3. TheaterOK' /\ TimersOK'
    BY <2>1, <2>2, ReconcileStep
  <2> QED BY <2>1, <2>2, <2>3 DEF RestOK
<1> QED BY <1>1, <1>2, <1>3, <1>4, <1>5 DEF DetectorCall

(* simulate, clear and reload.                                              *)
LEMMA CommandLineCallPreserves ==
  ASSUME IInv, CommandLineCall
  PROVE  IInv'
<1> USE DEF IInv
<1>1. ASSUME NEW ident \in Idents, NEW output \in Outputs,
             Simulate(ident, output)
      PROVE  IInv'
  <2> DEFINE w == [ident |-> ident, output |-> output,
                   fullscreen |-> TRUE, game |-> TRUE]
             ws == Put(windows, SimulatedId, w)
             order == PutOrder(older, windows, SimulatedId)
  <2>1. WindowsOK(ws, order)
    <3>1. w \in Window
      BY DEF Window
    <3> QED BY <3>1, PutKeepsWindowsOK, DaemonAssumption
  <2>2. /\ windows' = ws /\ older' = order /\ Reconcile(ws, order)
        /\ UNCHANGED <<inPass, seen, screens, config>>
    BY <1>1 DEF Simulate, Track, pass
  <2> HIDE DEF ws, order
  <2>3. TheaterOK' /\ TimersOK'
    BY <2>1, <2>2, ReconcileStep
  <2> QED BY <2>1, <2>2, <2>3 DEF RestOK
<1>2. ASSUME Clear
      PROVE  IInv'
  <2>1. WindowsOK(windows, older)'
    BY <1>2 DEF Clear, WindowsOK
  <2>2. TheaterOK' /\ restoreTimer' = FALSE /\ followTimer' = FALSE
    BY <1>2, RevertNowStep DEF Clear
  <2> QED BY <1>2, <2>1, <2>2 DEF Clear, pass, RestOK, TimersOK, TimersExclusive
<1>3. ASSUME NEW c \in Configs, Reload(c)
      PROVE  IInv'
  <2>1. /\ config' = c /\ c \in Config
        /\ UNCHANGED <<windows, older>> /\ UNCHANGED <<active, appliedOthers>>
        /\ UNCHANGED <<restoreTimer, followTimer>>
        /\ UNCHANGED <<inPass, seen, screens>>
    BY <1>3, DaemonAssumption DEF Reload, tracking, pass, theater, timers
  <2>2. CASE active # NoOutput /\ Games(c, windows) # {}
    <3>1. PICK result \in ApplyOutcomes(c, effect, appliedOthers) :
            effect' = result.effect
      BY <1>3, <2>2 DEF Reload
    <3>2. EffectOK(effect') /\ effect'.lit \subseteq appliedOthers
      BY <2>1, <3>1, ApplyLightsOthers DEF TheaterOK
    <3>3. TheaterOK'
      BY <2>1, <2>2, <3>2 DEF TheaterOK, DimmedOnlyInTheater, StageNeverDimmed
    <3> QED BY <2>1, <3>3 DEF RestOK, TimersOK, TimersExclusive
  <2>3. CASE UNCHANGED effect
    <3>1. TheaterOK'
      BY <2>1, <2>3, UnchangedTheater DEF theater
    <3> QED BY <2>1, <3>1 DEF RestOK, TimersOK, TimersExclusive
  <2> QED BY <1>3, <2>2, <2>3 DEF Reload
<1> QED BY <1>1, <1>2, <1>3 DEF CommandLineCall

(* The callbacks of the two timers.                                         *)
LEMMA TimeoutsPreserve ==
  ASSUME IInv, RestoreTimeout \/ FollowTimeout
  PROVE  IInv'
<1> USE DEF IInv
<1>1. ASSUME RestoreTimeout
      PROVE  IInv'
  <2>1. TheaterOK' /\ restoreTimer' = FALSE
    BY <1>1, RevertNowStep DEF RestoreTimeout
  <2> QED
    BY <1>1, <2>1
    DEF RestoreTimeout, tracking, pass, RestOK, TimersOK, TimersExclusive
<1>2. ASSUME FollowTimeout
      PROVE  IInv'
  <2> DEFINE stage == Stage(config, windows, older)
  <2>1. /\ followTimer /\ followTimer' = FALSE
        /\ UNCHANGED <<windows, older>> /\ UNCHANGED restoreTimer
        /\ UNCHANGED <<inPass, seen, screens, config>>
    BY <1>2 DEF FollowTimeout, tracking, pass
  <2>2. restoreTimer' = FALSE
    BY <2>1 DEF TimersOK, TimersExclusive
  <2>3. CASE UNCHANGED <<theater, effect>>
    BY <2>1, <2>2, <2>3, UnchangedTheater DEF RestOK, TimersOK, TimersExclusive
  <2>4. CASE /\ Games(config, windows) # {}
             /\ \E reverted \in RevertOutcomes(effect, FALSE) :
                  CommitStage(windows, reverted, stage.output)
    <3>1. PICK reverted \in RevertOutcomes(effect, FALSE) :
            CommitStage(windows, reverted, stage.output)
      BY <2>4
    <3>2. EffectOK(reverted)
      BY <3>1, RevertLeavesDark DEF TheaterOK
    <3>3. stage.output \in Outputs \cup {Unnamed}
      BY <2>4, StageIsTracked DEF RestOK, Window
    <3>4. TheaterOK'
      BY <3>1, <3>2, <3>3, CommitStageStep
    <3> QED BY <2>1, <2>2, <3>4 DEF RestOK, TimersOK, TimersExclusive
  <2> QED BY <1>2, <2>3, <2>4 DEF FollowTimeout
<1> QED BY <1>1, <1>2

(* The end of the helper: nothing is lit, and no more is affected than was. *)
LEMMA HelperExitsPreserves ==
  ASSUME IInv, HelperExits
  PROVE  IInv'
<1>1. /\ effect' = Exited(effect)
      /\ UNCHANGED <<windows, older>> /\ UNCHANGED <<active, appliedOthers>>
      /\ UNCHANGED <<restoreTimer, followTimer>>
      /\ UNCHANGED <<inPass, seen, screens, config>>
  BY DEF HelperExits, tracking, pass, theater, timers
<1>2. EffectOK(effect') /\ effect'.lit = {}
  BY <1>1 DEF Exited, EffectOK, Effect, IInv, TheaterOK
<1>3. TheaterOK'
  BY <1>1, <1>2 DEF IInv, TheaterOK, DimmedOnlyInTheater, StageNeverDimmed
<1> QED BY <1>1, <1>3 DEF IInv, RestOK, TimersOK, TimersExclusive

(* Outputs that come and go: an output that went is not lit any more, and   *)
(* the daemon's own state stays as it is.                                   *)
LEMMA HotplugPreserves ==
  ASSUME IInv, NEW outputs \in PlugSets, Hotplug(outputs)
  PROVE  IInv'
<1>1. /\ effect' = Replugged(effect, outputs)
      /\ UNCHANGED <<windows, older>> /\ UNCHANGED <<active, appliedOthers>>
      /\ UNCHANGED <<restoreTimer, followTimer>>
      /\ UNCHANGED <<inPass, seen, screens, config>>
  BY DEF Hotplug, tracking, pass, theater, timers
<1>2. EffectOK(effect') /\ effect'.lit \subseteq effect.lit
  BY <1>1, DaemonAssumption DEF Replugged, EffectOK, Effect, IInv, TheaterOK
<1>3. TheaterOK'
  BY <1>1, <1>2 DEF IInv, TheaterOK, DimmedOnlyInTheater, StageNeverDimmed
<1> QED BY <1>1, <1>3 DEF IInv, RestOK, TimersOK, TimersExclusive

(* One step per group of actions.                                           *)
LEMMA NextPreserves ==
  ASSUME IInv, [Next]_vars
  PROVE  IInv'
<1>1. CASE UNCHANGED vars
  BY <1>1
  DEF vars, tracking, pass, theater, timers, IInv, TheaterOK, TimersOK, RestOK,
      DimmedOnlyInTheater, StageNeverDimmed, TimersExclusive
<1> QED
  BY <1>1, DetectorCallPreserves, CommandLineCallPreserves, TimeoutsPreserve,
     HelperExitsPreserves, HotplugPreserves
  DEF Next

-----------------------------------------------------------------------------
(* Changes of the screen theater mode is on *)

Jumps == active # NoOutput /\ active' # NoOutput /\ active' # active

(* _commit_stage() ends on the output it is given, or on none.              *)
LEMMA CommitStageEndsOnItsOutput ==
  ASSUME NEW ws, NEW e, NEW output, CommitStage(ws, e, output)
  PROVE  active' \in {output, NoOutput}
BY DEF CommitStage

(* _revert_now() ends theater mode or leaves it where it is.                *)
LEMMA RevertNowDoesNotJump ==
  ASSUME RevertNow
  PROVE  ~Jumps
BY DEF RevertNow, Jumps, theater

(* reconcile() enters theater mode, leaves it, or stays where it is. *)
LEMMA ReconcileDoesNotJump ==
  ASSUME NEW ws, NEW order, Reconcile(ws, order)
  PROVE  ~Jumps
<1>1. CASE Games(config, ws) = {}
  <2>1. RevertNow \/ UNCHANGED <<theater, effect>>
    BY <1>1 DEF Reconcile, ReconcileNoGame
  <2> QED BY <2>1, RevertNowDoesNotJump DEF theater, Jumps
<1>2. CASE Games(config, ws) # {}
  <2> DEFINE stage == Stage(config, ws, order)
  <2>1. CASE stage.output = active /\ ReconcileSameStage(ws)
    <3>1. CommitStage(ws, effect, active) \/ UNCHANGED <<theater, effect>>
      BY <2>1 DEF ReconcileSameStage
    <3> QED BY <3>1, CommitStageEndsOnItsOutput DEF theater, Jumps
  <2>2. CASE active = NoOutput
    BY <2>2 DEF Jumps
  <2>3. CASE UNCHANGED <<theater, effect>>
    BY <2>3 DEF theater, Jumps
  <2> QED BY <1>2, <2>1, <2>2, <2>3 DEF Reconcile
<1> QED BY <1>1, <1>2

(* The same with the handler's test for a snapshot under way.               *)
LEMMA ReconcileOutsidePassDoesNotJump ==
  ASSUME NEW ws, NEW order, ReconcileOutsidePass(ws, order)
  PROVE  ~Jumps
BY ReconcileDoesNotJump DEF ReconcileOutsidePass, theater, Jumps

(* Of all steps, only the follow timer's callback moves theater mode from   *)
(* one screen to another.                                                   *)
LEMMA OnlyFollowTimeoutJumps ==
  ASSUME Next, Jumps
  PROVE  followTimer /\ ~followTimer'
<1>1. CASE DetectorCall
  <2>1. ASSUME NEW id \in WindowIds, NEW ident \in Idents,
               NEW output \in Outputs \cup {Unnamed},
               NEW fullscreen \in BOOLEAN, NEW found \in BOOLEAN,
               WindowOpened(id, ident, output, fullscreen, found)
        PROVE  ~Jumps
    BY <2>1, ReconcileOutsidePassDoesNotJump DEF WindowOpened
  <2>2. ASSUME NEW id \in WindowIds, NEW output \in Outputs \cup {Unnamed},
               NEW fullscreen \in BOOLEAN, WindowChanged(id, output, fullscreen)
        PROVE  ~Jumps
    BY <2>2, ReconcileOutsidePassDoesNotJump DEF WindowChanged
  <2>3. ASSUME NEW id \in WindowIds, WindowClosed(id)
        PROVE  ~Jumps
    BY <2>3, ReconcileOutsidePassDoesNotJump DEF WindowClosed
  <2>4. ASSUME NEW list \in ScreenLists, SnapshotBegin(list)
        PROVE  ~Jumps
    BY <2>4 DEF SnapshotBegin, theater, Jumps
  <2>5. ASSUME SnapshotEnd
        PROVE  ~Jumps
    BY <2>5, ReconcileDoesNotJump DEF SnapshotEnd
  <2> QED BY <1>1, <2>1, <2>2, <2>3, <2>4, <2>5 DEF DetectorCall
<1>2. CASE CommandLineCall
  <2>1. ASSUME NEW ident \in Idents, NEW output \in Outputs,
               Simulate(ident, output)
        PROVE  ~Jumps
    BY <2>1, ReconcileDoesNotJump DEF Simulate
  <2>2. CASE Clear
    BY <2>2, RevertNowDoesNotJump DEF Clear
  <2>3. ASSUME NEW c \in Configs, Reload(c)
        PROVE  ~Jumps
    BY <2>3 DEF Reload, theater, Jumps
  <2> QED BY <1>2, <2>1, <2>2, <2>3 DEF CommandLineCall
<1>3. CASE RestoreTimeout
  BY <1>3, RevertNowDoesNotJump DEF RestoreTimeout
<1>4. CASE FollowTimeout
  BY <1>4 DEF FollowTimeout
<1>5. CASE HelperExits \/ \E outputs \in PlugSets : Hotplug(outputs)
  BY <1>5 DEF HelperExits, Hotplug, theater, Jumps
<1> QED BY <1>1, <1>2, <1>3, <1>4, <1>5 DEF Next

-----------------------------------------------------------------------------
(* What reconcile settles: the restore, and the outputs dimmed for the game *)

(* reconcile() leaves a settled state whatever it started from; the other   *)
(* handlers only have to keep one.  A reload is not followed by a reconcile *)
(* and may turn a window into a game or back, with require_fullscreen: the  *)
(* states stay settled up to the first reload that changes it.              *)
FollowIsPending ==
  ~inPass /\ Games(config, windows) # {} =>
    active \in {NoOutput, Stage(config, windows, older).output} \/ followTimer

Settled == RestoreIsScheduled /\ FollowsDisplays /\ FollowIsPending

SameRequirement == config'.fullscreenOnly = config.fullscreenOnly

(* The output of a game's window is not the absence of one. *)
LEMMA StageHasOutput ==
  ASSUME NEW c \in Config, NEW ws, NEW order, WindowsOK(ws, order),
         Games(c, ws) # {}
  PROVE  Stage(c, ws, order).output # NoOutput
BY StageIsTracked, NoOutputIsNone DEF Window

(* Games and the stage look at require_fullscreen only. *)
LEMMA SameRequirementSameStage ==
  ASSUME NEW c, NEW d, c.fullscreenOnly = d.fullscreenOnly, NEW ws, NEW order
  PROVE  /\ Games(c, ws) = Games(d, ws)
         /\ Stage(c, ws, order) = Stage(d, ws, order)
BY DEF Games, Stage

(* Committing a stage for a game, with no restore pending, settles. *)
LEMMA CommitStageSettles ==
  ASSUME config \in Config, NEW ws, NEW order, WindowsOK(ws, order),
         Games(config, ws) # {},
         NEW e, NEW output, output = Stage(config, ws, order).output,
         CommitStage(ws, e, output),
         windows' = ws, older' = order,
         UNCHANGED <<config, screens>>, restoreTimer' = FALSE
  PROVE  Settled'
<1>1. Games(config', windows') # {}
  OBVIOUS
<1>2. RestoreIsScheduled'
  BY <1>1 DEF RestoreIsScheduled
<1>3. \/ active' = NoOutput
      \/ active' = output /\ appliedOthers' = OtherOutputs(ws, output)
  BY DEF CommitStage
<1>4. FollowsDisplays'
  <2>1. CASE active' = NoOutput
    <3>1. Stage(config', windows', older').output # active'
      BY <2>1, StageHasOutput
    <3> QED BY <3>1 DEF FollowsDisplays
  <2>2. CASE active' = output /\ appliedOthers' = OtherOutputs(ws, output)
    <3>1. OtherOutputs(ws, output) = OtherOutputs(windows, active)'
      BY <2>2 DEF OtherOutputs, AllOutputs
    <3> QED BY <2>2, <3>1 DEF FollowsDisplays
  <2> QED BY <1>3, <2>1, <2>2
<1>5. FollowIsPending'
  BY <1>3 DEF FollowIsPending
<1> QED BY <1>2, <1>4, <1>5 DEF Settled

(* Every branch of reconcile() leaves a settled state: without a game, with *)
(* one elsewhere, and with one on the stage.                                *)
LEMMA ReconcileSettles ==
  ASSUME IInv, NEW ws, NEW order, WindowsOK(ws, order), Reconcile(ws, order),
         windows' = ws, older' = order, UNCHANGED <<config, screens>>
  PROVE  Settled'
<1>1. config \in Config
  BY DEF IInv, RestOK
<1>2. CASE Games(config, ws) = {}
  <2>1. Games(config', windows') = {}
    BY <1>2
  <2>2. active' = NoOutput \/ restoreTimer' = TRUE
    BY <1>2
    DEF Reconcile, ReconcileNoGame, RevertNow, theater, IInv, TimersOK
  <2> QED
    BY <2>1, <2>2
    DEF Settled, RestoreIsScheduled, FollowsDisplays, FollowIsPending
<1>3. CASE Games(config, ws) # {}
  <2> DEFINE stage == Stage(config, ws, order)
  <2>1. restoreTimer' = FALSE
    BY <1>3 DEF Reconcile
  <2>2. CASE CommitStage(ws, effect, stage.output)
    BY <1>1, <1>3, <2>1, <2>2, CommitStageSettles
  <2>3. CASE /\ UNCHANGED <<theater, effect>> /\ stage.output # active
             /\ followTimer' = TRUE
    <3>1. Stage(config', windows', older').output # active'
      BY <2>3 DEF theater
    <3>2. Games(config', windows') # {}
      BY <1>3
    <3> QED
      BY <2>1, <2>3, <3>1, <3>2
      DEF Settled, RestoreIsScheduled, FollowsDisplays, FollowIsPending
  <2>4. CASE /\ UNCHANGED <<theater, effect>>
             /\ OtherOutputs(ws, active) = appliedOthers
             /\ stage.output = active
    <3>1. OtherOutputs(windows, active)' = OtherOutputs(ws, active)
      BY <2>4 DEF OtherOutputs, AllOutputs, theater
    <3>2. Games(config', windows') # {} /\ appliedOthers' = appliedOthers
      BY <1>3, <2>4 DEF theater
    <3> QED
      BY <2>1, <2>4, <3>1, <3>2
      DEF Settled, RestoreIsScheduled, FollowsDisplays, FollowIsPending,
          theater
  <2>5. CASE stage.output = active /\ ReconcileSameStage(ws)
    BY <2>2, <2>4, <2>5 DEF ReconcileSameStage
  <2> QED BY <1>3, <2>2, <2>3, <2>5 DEF Reconcile
<1> QED BY <1>2, <1>3

(* A step of a snapshot that is still under way after it has nothing to     *)
(* settle.                                                                  *)
LEMMA PassNeedsNothing ==
  ASSUME inPass'
  PROVE  Settled'
BY DEF Settled, RestoreIsScheduled, FollowsDisplays, FollowIsPending

(* Steps that leave everything but the effect alone.                        *)
LEMMA UnchangedSettled ==
  ASSUME Settled, UNCHANGED <<windows, older, inPass, config, screens>>,
         UNCHANGED <<active, appliedOthers, restoreTimer, followTimer>>
  PROVE  Settled'
BY DEF Settled, RestoreIsScheduled, FollowsDisplays, FollowIsPending,
       OtherOutputs, AllOutputs

(* reconcile(), or nothing while a snapshot is under way.                   *)
LEMMA ReconcileOutsidePassSettles ==
  ASSUME IInv, NEW ws, NEW order, WindowsOK(ws, order),
         ReconcileOutsidePass(ws, order), windows' = ws, older' = order,
         UNCHANGED <<inPass, config, screens>>
  PROVE  Settled'
<1>1. CASE inPass
  BY <1>1, PassNeedsNothing
<1>2. CASE ~inPass
  <2>1. Reconcile(ws, order)
    BY <1>2 DEF ReconcileOutsidePass
  <2> QED BY <2>1, ReconcileSettles
<1> QED BY <1>1, <1>2

(* The windows after a step are the ones the invariant promises. *)
LEMMA DetectorCallSettles ==
  ASSUME IInv, IInv', Settled, DetectorCall
  PROVE  Settled'
<1>1. WindowsOK(windows', older')
  BY DEF IInv, WindowsOK
<1>2. ASSUME NEW id \in WindowIds, NEW ident \in Idents,
             NEW output \in Outputs \cup {Unnamed},
             NEW fullscreen \in BOOLEAN, NEW found \in BOOLEAN,
             WindowOpened(id, ident, output, fullscreen, found)
      PROVE  Settled'
  <2>1. ReconcileOutsidePass(windows', older')
        /\ UNCHANGED <<inPass, config, screens>>
    BY <1>2 DEF WindowOpened, Track
  <2> QED BY <1>1, <2>1, ReconcileOutsidePassSettles
<1>3. ASSUME NEW id \in WindowIds, NEW output \in Outputs \cup {Unnamed},
             NEW fullscreen \in BOOLEAN, WindowChanged(id, output, fullscreen)
      PROVE  Settled'
  <2>1. ReconcileOutsidePass(windows', older')
        /\ UNCHANGED <<inPass, config, screens>>
    BY <1>3 DEF WindowChanged, Track, PutOrder, Tracked, pass
  <2> QED BY <1>1, <2>1, ReconcileOutsidePassSettles
<1>4. ASSUME NEW id \in WindowIds, WindowClosed(id)
      PROVE  Settled'
  <2>1. ReconcileOutsidePass(windows', older')
        /\ UNCHANGED <<inPass, config, screens>>
    BY <1>4 DEF WindowClosed, pass
  <2> QED BY <1>1, <2>1, ReconcileOutsidePassSettles
<1>5. ASSUME NEW list \in ScreenLists, SnapshotBegin(list)
      PROVE  Settled'
  BY <1>5, PassNeedsNothing DEF SnapshotBegin
<1>6. ASSUME SnapshotEnd
      PROVE  Settled'
  <2>1. Reconcile(windows', older') /\ UNCHANGED <<config, screens>>
    BY <1>6 DEF SnapshotEnd
  <2> QED BY <1>1, <2>1, ReconcileSettles
<1> QED BY <1>2, <1>3, <1>4, <1>5, <1>6 DEF DetectorCall

(* A reload is the one call that does not reconcile; what it would have to  *)
(* settle depends on require_fullscreen alone.                              *)
LEMMA CommandLineCallSettles ==
  ASSUME IInv, IInv', Settled, CommandLineCall, SameRequirement
  PROVE  Settled'
<1>1. WindowsOK(windows', older')
  BY DEF IInv, WindowsOK
<1>2. ASSUME NEW ident \in Idents, NEW output \in Outputs,
             Simulate(ident, output)
      PROVE  Settled'
  <2>1. Reconcile(windows', older') /\ UNCHANGED <<config, screens>>
    BY <1>2 DEF Simulate, Track
  <2> QED BY <1>1, <2>1, ReconcileSettles
<1>3. CASE Clear
  <2>1. active' = NoOutput
    BY <1>3 DEF Clear, RevertNow, theater
  <2>2. Games(config', windows') = {}
    BY <1>3 DEF Clear, Games
  <2> QED
    BY <2>1, <2>2
    DEF Settled, RestoreIsScheduled, FollowsDisplays, FollowIsPending
<1>4. ASSUME NEW c \in Configs, Reload(c)
      PROVE  Settled'
  <2>1. /\ UNCHANGED <<windows, older, inPass, screens>>
        /\ UNCHANGED <<active, appliedOthers, restoreTimer, followTimer>>
    BY <1>4 DEF Reload, tracking, pass, theater, timers
  <2>2. /\ Games(config', windows') = Games(config, windows)
        /\ Stage(config', windows', older') = Stage(config, windows, older)
    BY <2>1, SameRequirementSameStage DEF SameRequirement
  <2>3. OtherOutputs(windows, active)' = OtherOutputs(windows, active)
    BY <2>1 DEF OtherOutputs, AllOutputs
  <2> QED
    BY <2>1, <2>2, <2>3
    DEF Settled, RestoreIsScheduled, FollowsDisplays, FollowIsPending
<1> QED BY <1>2, <1>3, <1>4 DEF CommandLineCall

(* The timers' callbacks: the restore ends theater mode, the follow commits *)
(* the stage there is now.                                                  *)
LEMMA TimeoutsSettle ==
  ASSUME IInv, IInv', Settled, RestoreTimeout \/ FollowTimeout
  PROVE  Settled'
<1>1. WindowsOK(windows, older) /\ config \in Config
  BY DEF IInv, RestOK
<1>2. CASE RestoreTimeout
  <2>1. active' = NoOutput /\ UNCHANGED <<windows, older, config>>
    BY <1>2 DEF RestoreTimeout, RevertNow, theater, tracking
  <2>2. Games(config', windows') # {} =>
          Stage(config', windows', older').output # active'
    BY <1>1, <2>1, StageHasOutput
  <2> QED
    BY <2>1, <2>2
    DEF Settled, RestoreIsScheduled, FollowsDisplays, FollowIsPending
<1>3. CASE FollowTimeout
  <2>1. /\ UNCHANGED <<windows, older, inPass, config, screens>>
        /\ UNCHANGED restoreTimer
    BY <1>3 DEF FollowTimeout, tracking, pass
  <2>2. restoreTimer' = FALSE
    BY <1>3, <2>1 DEF FollowTimeout, IInv, TimersOK, TimersExclusive
  <2>3. CASE /\ UNCHANGED <<theater, effect>>
             /\ Games(config, windows) = {}
                  \/ Stage(config, windows, older).output = active
    <3>1. OtherOutputs(windows, active)' = OtherOutputs(windows, active)
      BY <2>1, <2>3 DEF OtherOutputs, AllOutputs, theater
    <3> QED
      BY <2>1, <2>3, <3>1
      DEF Settled, RestoreIsScheduled, FollowsDisplays, FollowIsPending,
          theater
  <2>4. CASE /\ Games(config, windows) # {}
             /\ \E e : CommitStage(windows, e,
                                   Stage(config, windows, older).output)
    BY <1>1, <2>1, <2>2, <2>4, CommitStageSettles
  <2> QED BY <1>3, <2>3, <2>4 DEF FollowTimeout
<1> QED BY <1>2, <1>3

(* One step per group of actions.                                           *)
LEMMA NextSettles ==
  ASSUME IInv, IInv', Settled, [Next]_vars, [SameRequirement]_config
  PROVE  Settled'
<1>1. SameRequirement
  BY DEF SameRequirement
<1>2. CASE UNCHANGED vars
  BY <1>2, UnchangedSettled DEF vars, tracking, pass, theater, timers
<1>3. CASE HelperExits \/ \E outputs \in PlugSets : Hotplug(outputs)
  BY <1>3, UnchangedSettled
  DEF HelperExits, Hotplug, tracking, pass, theater, timers
<1> QED
  BY <1>1, <1>2, <1>3, DetectorCallSettles, CommandLineCallSettles,
     TimeoutsSettle
  DEF Next

-----------------------------------------------------------------------------
(* The daemon implements Theater: each handler is one of its steps. *)

(* Committing a stage shows it or gives up.                                 *)
LEMMA CommitStageShows ==
  ASSUME RestOK, NEW ws, NEW order, WindowsOK(ws, order),
         NEW e, EffectOK(e), NEW output, CommitStage(ws, e, output)
  PROVE  Promise!Show(output) \/ Promise!Hide
<1> DEFINE others == OtherOutputs(ws, output)
<1>1. others \in SUBSET Outputs /\ output \notin others
  BY OthersAreOutputs DEF RestOK
<1>2. PICK result \in ApplyOutcomes(config, e, others) :
        /\ effect' = result.effect
        /\ IF result.ok THEN active' = output /\ appliedOthers' = others
                        ELSE active' = NoOutput /\ appliedOthers' = {}
  BY DEF CommitStage
<1>3. /\ effect'.lit \subseteq others
      /\ ~result.ok => effect'.lit = {}
  BY <1>1, <1>2, ApplyLightsOthers DEF RestOK
<1> HIDE DEF others
<1>4. effect'.lit \in SUBSET (Outputs \ {output})
  BY <1>1, <1>3
<1> QED
  BY <1>2, <1>3, <1>4 DEF Promise!Show, Promise!Hide

(* _revert_now() hides.                                                     *)
LEMMA RevertNowHides ==
  ASSUME TheaterOK, RevertNow
  PROVE  Promise!Hide
<1>1. CASE active = NoOutput
  BY <1>1 DEF RevertNow, theater, TheaterOK, DimmedOnlyInTheater, Promise!Hide
<1>2. CASE active # NoOutput
  <2>1. effect'.lit = {} /\ active' = NoOutput
    BY <1>2, RevertLeavesDark DEF RevertNow, TheaterOK
  <2> QED
    BY <2>1 DEF Promise!Hide
<1> QED BY <1>1, <1>2

(* What the two timers mean for what waits.                                 *)
LEMMA WaitingIs ==
  /\ "restore" \in Waiting <=> restoreTimer
  /\ "move" \in Waiting <=> followTimer
BY DEF Waiting

(* What is wanted of a theater is a place, or nothing.                      *)
LEMMA WantedIs ==
  ASSUME NEW c \in Config, NEW ws, NEW order, WindowsOK(ws, order)
  PROVE  /\ Wanted(c, ws, order) \in Outputs \cup {Unnamed, NoOutput}
         /\ Wanted(c, ws, order) = NoOutput <=> Games(c, ws) = {}
         /\ Games(c, ws) # {} => Wanted(c, ws, order) = Stage(c, ws, order).output
<1>1. CASE Games(c, ws) = {}
  BY <1>1 DEF Wanted
<1>2. CASE Games(c, ws) # {}
  <2>1. Stage(c, ws, order).output \in Outputs \cup {Unnamed}
    BY <1>2, StageIsTracked DEF Window
  <2> QED BY <1>2, <2>1, NoOutputIsNone DEF Wanted
<1> QED BY <1>1, <1>2

(* reconcile() reacts to where the game is now. *)
LEMMA ReconcileReacts ==
  ASSUME IInv, IInv', UNCHANGED config, Reconcile(windows', older')
  PROVE  Promise!React
<1> DEFINE stage == Stage(config, windows', older')
           wanted == Wanted(config, windows', older')
<1>1. /\ config \in Config /\ WindowsOK(windows', older') /\ RestOK /\ TheaterOK
      /\ restoreTimer \in BOOLEAN /\ followTimer \in BOOLEAN /\ EffectOK(effect)
  BY DEF IInv, TheaterOK, TimersOK, RestOK
<1>2. Wanted(config, windows, older)' = wanted
  OBVIOUS
<1>3. CASE Games(config, windows') = {}
  <2>1. wanted = NoOutput /\ ReconcileNoGame
    BY <1>3 DEF Wanted, Reconcile
  <2>2. CASE active # NoOutput /\ ~restoreTimer /\ config.delayed
    <3>1. /\ followTimer' = FALSE /\ restoreTimer' = TRUE
          /\ UNCHANGED <<theater, effect>>
      BY <2>1, <2>2 DEF ReconcileNoGame
    <3>2. Waiting' = {"restore"} /\ "restore" \notin Waiting /\ Promise!Stay
      BY <2>2, <3>1 DEF Waiting, Promise!Stay, theater
    <3> QED BY <1>2, <2>1, <2>2, <3>2 DEF Promise!React, Promise!ReactToNoGame
  <2>3. CASE active # NoOutput /\ ~restoreTimer /\ ~config.delayed
    <3>1. followTimer' = FALSE /\ restoreTimer' = FALSE /\ RevertNow
      BY <2>1, <2>3 DEF ReconcileNoGame, RevertNow
    <3>2. Waiting' = {} /\ "restore" \notin Waiting
      BY <2>3, <3>1 DEF Waiting
    <3>3. Promise!Hide
      BY <1>1, <3>1, RevertNowHides
    <3> QED BY <1>2, <2>1, <2>3, <3>2, <3>3 DEF Promise!React, Promise!ReactToNoGame
  <2>4. CASE ~(active # NoOutput /\ ~restoreTimer)
    <3>1. /\ followTimer' = FALSE /\ restoreTimer' = restoreTimer
          /\ UNCHANGED <<theater, effect>>
      BY <2>1, <2>4 DEF ReconcileNoGame
    <3>2. Waiting' = Waiting \ {"move"} /\ Promise!Stay
      BY <3>1 DEF Waiting, Promise!Stay, theater
    <3>3. active = NoOutput \/ "restore" \in Waiting
      BY <2>4 DEF Waiting
    <3> QED BY <1>2, <2>1, <3>2, <3>3 DEF Promise!React, Promise!ReactToNoGame
  <2> QED BY <2>2, <2>3, <2>4
<1>4. CASE Games(config, windows') # {}
  <2>1. wanted = stage.output /\ wanted \in Outputs \cup {Unnamed} /\ wanted # NoOutput
    BY <1>1, <1>4, WantedIs, NoOutputIsNone
  <2>2. restoreTimer' = FALSE
    BY <1>4 DEF Reconcile
  <2> HIDE DEF stage, wanted
  <2>3. CASE stage.output = active /\ ReconcileSameStage(windows')
    <3>1. followTimer' \in {followTimer, FALSE}
      BY <2>3 DEF ReconcileSameStage
    <3>2. Waiting' \in {Waiting \ {"restore"}, {}}
      <4>1. CASE followTimer' = followTimer
        BY <2>2, <4>1 DEF Waiting
      <4>2. CASE followTimer' = FALSE
        BY <2>2, <4>2 DEF Waiting
      <4> QED BY <3>1, <4>1, <4>2
    <3>3. CASE CommitStage(windows', effect, active)
      <4>1. Promise!Show(active) \/ Promise!Hide
        BY <1>1, <3>3, CommitStageShows
      <4> QED
        BY <1>2, <2>1, <2>3, <3>2, <4>1 DEF Promise!React, Promise!ReactOnStage
    <3>4. CASE UNCHANGED <<theater, effect>>
      <4>1. Promise!Stay
        BY <3>4 DEF Promise!Stay, theater
      <4> QED
        BY <1>2, <2>1, <2>3, <3>2, <4>1 DEF Promise!React, Promise!ReactOnStage
    <3> QED BY <2>3, <3>3, <3>4 DEF ReconcileSameStage
  <2>4. CASE /\ active = NoOutput /\ UNCHANGED followTimer
             /\ CommitStage(windows', effect, stage.output)
    <3>1. Promise!Show(wanted) \/ Promise!Hide
      BY <1>1, <2>1, <2>4, CommitStageShows
    <3>2. Waiting' = Waiting \ {"restore"}
      BY <2>2, <2>4 DEF Waiting
    <3> QED
      BY <1>2, <2>1, <2>4, <3>1, <3>2 DEF Promise!React, Promise!ReactByEntering
  <2>5. CASE /\ active \notin {NoOutput, stage.output}
             /\ followTimer' = TRUE /\ UNCHANGED <<theater, effect>>
    <3>1. Waiting' = {"move"} /\ Promise!Stay
      BY <2>2, <2>5 DEF Waiting, Promise!Stay, theater
    <3> QED
      BY <1>2, <2>1, <2>5, <3>1 DEF Promise!React, Promise!ReactByWaiting
  <2> QED BY <1>4, <2>3, <2>4, <2>5 DEF Reconcile, stage
<1> QED BY <1>3, <1>4

(* The same where a snapshot that is under way puts the reaction off. *)
LEMMA ReconcileOutsidePassReacts ==
  ASSUME IInv, IInv', UNCHANGED <<config, inPass>>,
         ReconcileOutsidePass(windows', older')
  PROVE  Promise!Next
<1>1. CASE inPass
  <2>1. Promise!Stay /\ Waiting' = Waiting /\ inPass' = inPass /\ inPass
    BY <1>1 DEF ReconcileOutsidePass, Promise!Stay, theater, timers, Waiting
  <2>2. Wanted(config, windows, older)' \in (Outputs \cup {Unnamed}) \cup {NoOutput}
    <3>1. config' \in Config /\ WindowsOK(windows', older')
      BY DEF IInv, RestOK
    <3> QED BY <3>1, WantedIs
  <2> QED BY <2>1, <2>2 DEF Promise!Next, Promise!ChangeDuringSurvey
<1>2. CASE ~inPass
  <2>1. Promise!React
    BY <1>2, ReconcileReacts DEF ReconcileOutsidePass
  <2> QED BY <2>1 DEF Promise!Next, Promise!WindowsChange
<1> QED BY <1>1, <1>2

(* The detector's calls change the windows or list them.                    *)
LEMMA DetectorCallIsPromised ==
  ASSUME IInv, IInv', DetectorCall
  PROVE  Promise!Next
<1>1. ASSUME NEW id \in WindowIds, NEW output, NEW fullscreen, NEW ident, NEW found,
             WindowOpened(id, ident, output, fullscreen, found)
      PROVE  Promise!Next
  <2>1. ReconcileOutsidePass(windows', older') /\ UNCHANGED <<config, inPass>>
    BY <1>1 DEF WindowOpened, Track
  <2> QED BY <2>1, ReconcileOutsidePassReacts
<1>2. ASSUME NEW id \in WindowIds, NEW output, NEW fullscreen,
             WindowChanged(id, output, fullscreen)
      PROVE  Promise!Next
  <2>1. ReconcileOutsidePass(windows', older') /\ UNCHANGED <<config, inPass>>
    BY <1>2 DEF WindowChanged, Track, PutOrder, Tracked, pass
  <2> QED BY <2>1, ReconcileOutsidePassReacts
<1>3. ASSUME NEW id \in WindowIds, WindowClosed(id)
      PROVE  Promise!Next
  <2>1. ReconcileOutsidePass(windows', older') /\ UNCHANGED <<config, inPass>>
    BY <1>3 DEF WindowClosed, pass
  <2> QED BY <2>1, ReconcileOutsidePassReacts
<1>4. ASSUME NEW list \in ScreenLists, SnapshotBegin(list)
      PROVE  Promise!Next
  <2>1. /\ inPass' = TRUE /\ Promise!Stay /\ Waiting' = Waiting
        /\ Wanted(config, windows, older)' = Wanted(config, windows, older)
    BY <1>4 DEF SnapshotBegin, tracking, theater, timers, Promise!Stay, Waiting
  <2> QED BY <2>1 DEF Promise!Next, Promise!BeginSurvey
<1>5. ASSUME SnapshotEnd
      PROVE  Promise!Next
  <2>1. Reconcile(windows', older') /\ UNCHANGED config /\ inPass' = FALSE
    BY <1>5 DEF SnapshotEnd
  <2>2. Promise!React
    BY <2>1, ReconcileReacts
  <2> QED BY <2>1, <2>2 DEF Promise!Next, Promise!WindowsChange
<1> QED BY <1>1, <1>2, <1>3, <1>4, <1>5 DEF DetectorCall

(* simulate, clear and reload.                                              *)
LEMMA CommandLineCallIsPromised ==
  ASSUME IInv, IInv', CommandLineCall
  PROVE  Promise!Next
<1>1. ASSUME NEW ident \in Idents, NEW output \in Outputs, Simulate(ident, output)
      PROVE  Promise!Next
  <2>1. Reconcile(windows', older') /\ UNCHANGED config /\ inPass' = inPass
    BY <1>1 DEF Simulate, Track, pass
  <2>2. Promise!React
    BY <2>1, ReconcileReacts
  <2> QED BY <2>1, <2>2 DEF Promise!Next, Promise!WindowsChange
<1>2. ASSUME Clear
      PROVE  Promise!Next
  <2>1. Promise!Hide
    BY <1>2, RevertNowHides DEF Clear, IInv
  <2>2. Waiting' = {} /\ inPass' = inPass
    BY <1>2 DEF Clear, RevertNow, Waiting, pass
  <2>3. Wanted(config, windows, older)' = NoOutput
    BY <1>2 DEF Clear, Wanted, Games
  <2> QED BY <2>1, <2>2, <2>3 DEF Promise!Next, Promise!Clear
<1>3. ASSUME NEW c \in Configs, Reload(c)
      PROVE  Promise!Next
  <2>1. /\ config' = c /\ c \in Config /\ windows' = windows /\ active' = active
        /\ Waiting' = Waiting /\ inPass' = inPass
    BY <1>3, DaemonAssumption DEF Reload, tracking, pass, theater, timers, Waiting
  <2>2. /\ Wanted(config, windows, older)' \in (Outputs \cup {Unnamed}) \cup {NoOutput}
        /\ Wanted(config, windows, older)' = NoOutput <=> Games(c, windows) = {}
    <3>1. config' \in Config /\ WindowsOK(windows', older')
      BY DEF IInv, RestOK
    <3> QED BY <2>1, <3>1, WantedIs
  <2>3. CASE active # NoOutput /\ Games(c, windows) # {}
    <3>1. PICK result \in ApplyOutcomes(c, effect, appliedOthers) :
            effect' = result.effect
      BY <1>3, <2>3 DEF Reload
    <3>2. effect'.lit \subseteq appliedOthers
      BY <2>1, <3>1, ApplyLightsOthers DEF IInv, TheaterOK
    <3>3. Promise!Show(active)
      BY <2>1, <3>2 DEF IInv, TheaterOK, Promise!Show
    <3> QED BY <2>1, <2>2, <2>3, <3>3 DEF Promise!Next, Promise!Reconfigure
  <2>4. CASE UNCHANGED effect
    <3>1. Promise!Stay
      BY <2>1, <2>4 DEF Promise!Stay
    <3> QED BY <2>1, <2>2, <3>1 DEF Promise!Next, Promise!Reconfigure
  <2> QED BY <1>3, <2>3, <2>4 DEF Reload
<1> QED BY <1>1, <1>2, <1>3 DEF CommandLineCall

(* The callbacks of the two timers.                                         *)
LEMMA TimeoutsArePromised ==
  ASSUME IInv, RestoreTimeout \/ FollowTimeout
  PROVE  Promise!Next
<1>1. CASE RestoreTimeout
  <2>1. Promise!Hide
    BY <1>1, RevertNowHides DEF RestoreTimeout, IInv
  <2>2. /\ "restore" \in Waiting /\ Waiting' = Waiting \ {"restore"}
        /\ inPass' = inPass
        /\ Wanted(config, windows, older)' = Wanted(config, windows, older)
    BY <1>1 DEF RestoreTimeout, RevertNow, Waiting, pass, tracking
  <2> QED BY <2>1, <2>2 DEF Promise!Next, Promise!RestoreAfterDelay
<1>2. CASE FollowTimeout
  <2> DEFINE stage == Stage(config, windows, older)
             wanted == Wanted(config, windows, older)
  <2>1. config \in Config /\ WindowsOK(windows, older) /\ TheaterOK /\ RestOK
    BY DEF IInv, RestOK
  <2>2. /\ "move" \in Waiting /\ Waiting' = Waiting \ {"move"}
        /\ inPass' = inPass /\ wanted' = wanted
    BY <1>2 DEF FollowTimeout, Waiting, pass, tracking
  <2>3. /\ wanted = NoOutput <=> Games(config, windows) = {}
        /\ Games(config, windows) # {} => wanted = stage.output
    BY <2>1, WantedIs
  <2>4. CASE Games(config, windows) = {} \/ stage.output = active
    <3>1. Promise!Stay
      BY <1>2, <2>4 DEF FollowTimeout, Promise!Stay, theater
    <3>2. wanted \in {NoOutput, active}
      BY <2>3, <2>4
    <3> HIDE DEF wanted
    <3> QED BY <2>2, <3>1, <3>2 DEF wanted, Promise!Next, Promise!FollowAfterDelay
  <2>5. CASE ~(Games(config, windows) = {} \/ stage.output = active)
    <3>1. PICK reverted \in RevertOutcomes(effect, FALSE) :
            CommitStage(windows, reverted, stage.output)
      BY <1>2, <2>5 DEF FollowTimeout
    <3>2. EffectOK(reverted)
      BY <2>1, <3>1, RevertLeavesDark DEF TheaterOK
    <3>3. Promise!Show(wanted) \/ Promise!Hide
      BY <2>1, <2>3, <2>5, <3>1, <3>2, CommitStageShows
    <3>4. wanted \notin {NoOutput, active}
      BY <2>3, <2>5
    <3> QED BY <2>2, <3>3, <3>4 DEF Promise!Next, Promise!FollowAfterDelay
  <2> QED BY <2>4, <2>5
<1> QED BY <1>1, <1>2

(* A helper that exits and a display that goes are not dimmed any more.     *)
LEMMA LossesArePromised ==
  ASSUME IInv, HelperExits \/ \E outputs \in PlugSets : Hotplug(outputs)
  PROVE  Promise!Next
<1>1. /\ UNCHANGED <<windows, older, config, active, inPass>>
      /\ UNCHANGED <<restoreTimer, followTimer>>
  BY DEF HelperExits, Hotplug, tracking, pass, theater, timers
<1>2. effect'.lit \in SUBSET effect.lit
  BY DEF HelperExits, Hotplug, Exited, Replugged, IInv, TheaterOK, EffectOK, Effect
<1>3. /\ Waiting' = Waiting
      /\ Wanted(config, windows, older)' = Wanted(config, windows, older)
  BY <1>1 DEF Waiting
<1> QED BY <1>1, <1>2, <1>3 DEF Promise!Next, Promise!LoseDimming

-----------------------------------------------------------------------------
(* The theorems *)

(* The invariant holds at all times.                                       *)
THEOREM InductiveInvariant == Spec => []IInv
<1>1. Init => IInv
  BY InitEstablishes
<1>2. IInv /\ [Next]_vars => IInv'
  BY NextPreserves
<1> QED BY <1>1, <1>2, PTL DEF Spec

(* Types, and a stage whenever there is a game. *)
THEOREM TypeCorrect == Spec => []TypeOK
<1>1. IInv => TypeOK
  BY IInvImplies
<1> QED BY <1>1, InductiveInvariant, PTL

(* No overlay outlives theater mode, whatever fails in between. *)
THEOREM NoDimmingOutsideTheater == Spec => []DimmedOnlyInTheater
<1>1. IInv => DimmedOnlyInTheater
  BY IInvImplies
<1> QED BY <1>1, InductiveInvariant, PTL

(* The game's screen is never among the dimmed. *)
THEOREM StageStaysLit == Spec => []StageNeverDimmed
<1>1. IInv => StageNeverDimmed
  BY IInvImplies
<1> QED BY <1>1, InductiveInvariant, PTL

(* status never reports less than is dimmed. *)
THEOREM StatusCoversDimming == Spec => []AffectedCoversLit
<1>1. IInv => AffectedCoversLit
  BY IInvImplies
<1> QED BY <1>1, InductiveInvariant, PTL

(* The two timers never wait together, nor a restore outside theater mode.  *)
THEOREM TimersNeverOverlap == Spec => []TimersExclusive
<1>1. IInv => TimersExclusive
  BY IInvImplies
<1> QED BY <1>1, InductiveInvariant, PTL

(* A game on another screen is followed by the confirmation of a move only. *)
THEOREM FollowsOnlyAfterDelay == Spec => JumpsOnlyAfterDelay
<1>1. [Next]_vars => [Jumps => followTimer /\ ~followTimer']_vars
  BY OnlyFollowTimeoutJumps
<1>2. Spec => [][Jumps => followTimer /\ ~followTimer']_vars
  BY <1>1, PTL DEF Spec
<1> QED BY <1>2 DEF JumpsOnlyAfterDelay, Jumps

(* Up to a reload that changes require_fullscreen.                          *)
KeepsRequirement == [][SameRequirement]_config

(* Every state is settled, whatever the detector, the helper and the timers *)
(* do, up to a reload that changes require_fullscreen.                      *)
THEOREM SettledUntilRequirementChanges ==
  Spec /\ KeepsRequirement => []Settled
<1>1. Init => Settled
  BY DEF Init, Settled, RestoreIsScheduled, FollowsDisplays, FollowIsPending,
         Games
<1>2. IInv /\ IInv' /\ Settled /\ [Next]_vars /\ [SameRequirement]_config
        => Settled'
  BY NextSettles
<1> QED BY <1>1, <1>2, InductiveInvariant, PTL DEF Spec, KeepsRequirement

(* Outside a snapshot, theater mode that is on has its restore scheduled    *)
(* exactly when no game is left: none is forgotten, and none is left to     *)
(* strike a later game.                                                     *)
THEOREM RestoreScheduledWhenDue ==
  Spec /\ KeepsRequirement => []RestoreIsScheduled
<1>1. Settled => RestoreIsScheduled
  BY DEF Settled
<1> QED BY <1>1, SettledUntilRequirementChanges, PTL

(* Outside a snapshot, the outputs dimmed for a game on its stage are all   *)
(* the others there are, through every hotplug and change of windows.       *)
THEOREM DimsAllTheOthers ==
  Spec /\ KeepsRequirement => []FollowsDisplays
<1>1. Settled => FollowsDisplays
  BY DEF Settled
<1> QED BY <1>1, SettledUntilRequirementChanges, PTL

(* The daemon implements Theater: whatever the windows, configurations,     *)
(* timers and the helper do, what becomes of the displays is what Theater   *)
(* allows, in one step of it per handler.                                   *)
THEOREM DaemonImplementsTheater == Spec => ImplementsTheater
<1>1. Init => Promise!Init
  BY DEF Init, Promise!Init, Fresh, Wanted, Games, Waiting
<1>2. IInv /\ IInv' /\ [Next]_vars => [Promise!Next]_(Promise!theaterVars)
  <2> SUFFICES ASSUME IInv, IInv', [Next]_vars
               PROVE  Promise!Next \/ UNCHANGED Promise!theaterVars
    OBVIOUS
  <2>1. CASE UNCHANGED vars
    BY <2>1 DEF vars, tracking, pass, theater, timers, Promise!theaterVars, Waiting
  <2> QED
    BY <2>1, DetectorCallIsPromised, CommandLineCallIsPromised, TimeoutsArePromised,
       LossesArePromised
    DEF Next
<1> QED
  BY <1>1, <1>2, InductiveInvariant, PTL DEF Spec, ImplementsTheater, Promise!Spec
=============================================================================
