----------------------------- MODULE DimEffect -----------------------------
(* effects/dim.py: the daemon's side of the dimming helper.  The module has *)
(* no variables: an effect is a record, and each method of DimEffect is the *)
(* set of records it may leave behind, so that a caller which makes several *)
(* calls in one handler can chain them.                                     *)
(*                                                                          *)
(* The helper is a child process behind a pipe.  It can exit at any moment, *)
(* also between two commands of one call: a command then either fails (the  *)
(* pipe breaks) or, when poll() has already noticed the exit, starts a new  *)
(* helper and is the first command that helper ever reads.                  *)
EXTENDS Integers

CONSTANT Outputs    \* connector names; naturals, as the code sorts names

ASSUME OutputsAssumption == Outputs \subseteq Nat \ {0}

(* A resolved configuration, as far as the daemon and the effect look at it. *)
(*   fullscreenOnly  behavior.require_fullscreen                             *)
(*   delayed         behavior.restore_delay > 0                              *)
(*   zero            outputs whose resolved dimming is 0                     *)
(*   own             outputs whose dimming, duration or curve is not global  *)
Config == [fullscreenOnly : BOOLEAN, delayed : BOOLEAN,
           zero : SUBSET Outputs, own : SUBSET Outputs]

(* running and affected are _running() and _affected_outputs (_dimmed is    *)
(* affected # {}: the two are always assigned together).  plugged is what   *)
(* the compositor has for outputs; a command that names another one is      *)
(* ignored.  The other three are what the helper process that is alive now  *)
(* has been told and still knows: the outputs it is to show dimmed, those   *)
(* whose LAYER and ART it was sent, and those retuned by a DIM_OUTPUT since *)
(* the last DIM.                                                            *)
Effect == [running : BOOLEAN, affected : SUBSET Outputs,
           plugged : SUBSET Outputs,
           lit : SUBSET Outputs, staged : SUBSET Outputs,
           tuned : SUBSET Outputs]

Fresh(plugged) == [running |-> FALSE, affected |-> {}, plugged |-> plugged,
                   lit |-> {}, staged |-> {}, tuned |-> {}]

(* The helper forgets an output that is unplugged; one that comes back is   *)
(* new to it.                                                               *)
Replugged(e, outputs) ==
  [e EXCEPT !.plugged = outputs, !.lit = @ \cap outputs,
            !.staged = @ \cap outputs, !.tuned = @ \cap outputs]

(* The helper is gone: its pipe is closed, or poll() reports its exit, and  *)
(* the compositor removed its surfaces.  The daemon's own record stays.     *)
Exited(e) == [e EXCEPT !.running = FALSE,
                       !.lit = {}, !.staged = {}, !.tuned = {}]

-----------------------------------------------------------------------------
(* revert() *)

(* Mutant: revert() forgets the outputs without sending FADE_OUT. *)
FadedOutUnsent(e) == {[e EXCEPT !.affected = {}]}

(* FADE_OUT is sent with start=False: a helper that is not running is not   *)
(* started for it, and one whose pipe breaks is closed.                     *)
FadedOut(e) ==
  {[Exited(e) EXCEPT !.affected = {}]}
    \cup (IF e.running THEN {[e EXCEPT !.affected = {}, !.lit = {}, !.tuned = {}]}
                       ELSE {})

(* With immediate, shutdown() follows: QUIT, one second of grace, kill.     *)
RevertOutcomes(e, immediate) ==
  IF e.affected = {} /\ ~e.running
  THEN {e}
  ELSE IF immediate THEN {[Exited(e) EXCEPT !.affected = {}]}
                    ELSE FadedOut(e)

-----------------------------------------------------------------------------
(* apply() *)

Targets(c, others) == others \ c.zero

(* What is left of a sorted pass over S when a new helper takes over just   *)
(* after some element: nothing, or a proper suffix.                         *)
TailsAfterRestart(S) == {{t \in S : t > k} : k \in S}

(* Every command was accepted.  A helper that was replaced during the       *)
(* LAYER/ART pass, or at the DIM itself, knows the staging of the rest of   *)
(* the pass only; one replaced during the DIM_OUTPUT pass knows nothing but *)
(* the rest of that pass.                                                   *)
Accepted(c, e, targets) ==
  LET reach == targets \cap e.plugged
      own   == targets \cap c.own
      told(staged, lit, tuned) ==
        [running |-> TRUE, affected |-> targets, plugged |-> e.plugged,
         lit |-> lit, staged |-> staged, tuned |-> tuned]
      late(k) == {t \in own \cap reach : t >= k}
  IN  {told(staged, reach, own \cap reach) :
         staged \in {e.staged \cup reach, reach} \cup TailsAfterRestart(reach)}
      \cup {told({}, late(k), late(k)) : k \in own}

(* Mutant: a broken pipe is reported, but the helper is left alone. *)
RefusedHelperLeft(c, e, targets) == {e}

(* Some command was not: its _send closed the helper.  The DIM may have     *)
(* been accepted before that, if a DIM_OUTPUT was still to come.            *)
Refused(c, e, targets) ==
  {Exited(e)}
    \cup (IF targets \cap c.own = {} THEN {}
          ELSE {[Exited(e) EXCEPT !.affected = targets]})

Dispatched(c, e, targets) ==
  [ok : {TRUE}, effect : Accepted(c, e, targets)]
    \cup [ok : {FALSE}, effect : Refused(c, e, targets)]

ApplyOutcomes(c, e, others) ==
  IF Targets(c, others) = {}
  THEN [ok : {TRUE}, effect : RevertOutcomes(e, FALSE)]
  ELSE Dispatched(c, e, Targets(c, others))
=============================================================================
