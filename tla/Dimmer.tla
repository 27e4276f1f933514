------------------------------- MODULE Dimmer -------------------------------
(* dimmer/dimmer.c: the helper process.  It owns one overlay per output and *)
(* fades it between alphas.  Its single thread polls the Wayland connection *)
(* and stdin; between two polls the compositor, the daemon and time take    *)
(* their steps in any order.                                                *)
(*                                                                          *)
(* Time is counted in FRAME_STALL_SEC (100 ms), and an alpha is one of a    *)
(* few levels: Clear, Faint (at most 0.001), and so on up to Opaque.        *)
EXTENDS Integers, FiniteSets

CONSTANTS
  Outputs,        \* connectors
  MaxOutputs,     \* MAX_OUTPUTS, the slots of the output table
  Opaque,         \* the highest alpha level
  Durations       \* fades, in units of FRAME_STALL_SEC

Clear == 0
Faint == 1        \* the level below which a finished fade drops the overlay

ASSUME DimmerAssumption ==
  /\ MaxOutputs \in Nat
  /\ Opaque \in Nat /\ Opaque > Faint
  /\ Durations \subseteq Nat

Alphas  == Clear .. Opaque
Layers  == {"overlay", "bottom"}
NoFrame == -1     \* nothing was committed to the surface yet

(* struct output_state.  stack and shown are the compositor's: the layer    *)
(* the surface is in, and the alpha that was last committed to it.  left is *)
(* what remains of duration_sec, and quiet says that FRAME_STALL_SEC went   *)
(* by since last_commit_sec.                                                *)
OutputState ==
  [inUse : BOOLEAN, named : BOOLEAN, art : BOOLEAN,
   layer : Layers, stack : Layers,
   mapped : BOOLEAN, configured : BOOLEAN, frame : BOOLEAN,
   shown : Alphas \cup {NoFrame},
   animating : BOOLEAN, current : Alphas, target : Alphas,
   left : Nat, quiet : BOOLEAN]

VARIABLES
  plugged,        \* the outputs the compositor advertises
  out,            \* outputs[]: one record per connector
  selected,       \* history: the outputs the commands read so far want dimmed
  running

vars == <<plugged, out, selected, running>>

(* memset(out, 0): LAYER_OVERLAY is assigned when a slot is taken. *)
Blank ==
  [inUse |-> FALSE, named |-> FALSE, art |-> FALSE,
   layer |-> "overlay", stack |-> "overlay",
   mapped |-> FALSE, configured |-> FALSE, frame |-> FALSE,
   shown |-> NoFrame,
   animating |-> FALSE, current |-> Clear, target |-> Clear,
   left |-> 0, quiet |-> FALSE]

(* Both roundtrips before the loop are over: the names have arrived. *)
Init ==
  /\ plugged \in SUBSET Outputs
  /\ Cardinality(plugged) =< MaxOutputs
  /\ out = [o \in Outputs |->
              [Blank EXCEPT !.inUse = o \in plugged, !.named = o \in plugged]]
  /\ selected = {}
  /\ running = TRUE

-----------------------------------------------------------------------------
(* The functions of the output state machine, on one output's record *)

(* Mutant: the alpha survives the overlay. *)
DestroyedAlphaKept(s) ==
  [s EXCEPT !.mapped = FALSE, !.configured = FALSE, !.frame = FALSE,
            !.shown = NoFrame, !.animating = FALSE]

(* destroy_overlay(); what tick and start left in target and left stays. *)
Destroyed(s) ==
  [s EXCEPT !.mapped = FALSE, !.configured = FALSE, !.frame = FALSE,
            !.shown = NoFrame, !.animating = FALSE, !.current = Clear]

(* commit_overlay(): a surface that was not configured may not be drawn to. *)
Committed(s, requestFrame) ==
  IF s.configured
  THEN [s EXCEPT !.frame = requestFrame, !.shown = s.current, !.quiet = FALSE]
  ELSE s

(* map_overlay() *)
Mapped(s) ==
  IF s.mapped THEN s ELSE [s EXCEPT !.mapped = TRUE, !.stack = s.layer]

(* start_animation(): there is nothing to fade out on an unmapped output. *)
Started(s, alpha, duration) ==
  IF alpha = Clear /\ ~s.mapped
  THEN s
  ELSE Committed([Mapped(s) EXCEPT !.target = alpha, !.left = duration,
                                   !.quiet = FALSE, !.animating = TRUE],
                 TRUE)

Between(a, b) == {x \in Alphas : (a =< x /\ x =< b) \/ (b =< x /\ x =< a)}

(* Mutant: a finished fade-out drops the overlay at zero alpha only. *)
TickedToZeroOnly(s) ==
  IF ~s.animating \/ ~s.mapped
  THEN {s}
  ELSE IF s.left > 0
  THEN {Committed([s EXCEPT !.current = a], TRUE) :
          a \in Between(s.current, s.target)}
  ELSE IF s.target = Clear
  THEN {Destroyed(s)}
  ELSE {Committed([s EXCEPT !.current = s.target, !.animating = FALSE], FALSE)}

(* tick_overlay(): the easing curves are monotone, so a fade that is under  *)
(* way moves from where it is towards its target.                           *)
Ticked(s) ==
  IF ~s.animating \/ ~s.mapped
  THEN {s}
  ELSE IF s.left > 0
  THEN {Committed([s EXCEPT !.current = a], TRUE) :
          a \in Between(s.current, s.target)}
  ELSE IF s.target =< Faint
  THEN {Destroyed(s)}
  ELSE {Committed([s EXCEPT !.current = s.target, !.animating = FALSE], FALSE)}

-----------------------------------------------------------------------------
(* Commands on stdin *)

(* find_output() *)
Found(o) == out[o].inUse /\ out[o].named

(* Staged artwork has the dim factor applied; flat black takes the alpha.   *)
Shade(s, alpha) == IF s.art THEN Opaque ELSE alpha

(* Mutant: an unlisted output that has shown nothing yet is left alone. *)
DimShownOnly(list, alpha, duration) ==
  /\ selected' = list
  /\ out' = [o \in Outputs |->
               IF ~out[o].inUse THEN out[o]
               ELSE IF Found(o) /\ o \in list
               THEN Started(out[o], Shade(out[o], alpha), duration)
               ELSE IF out[o].current = Clear THEN out[o]
               ELSE Started(out[o], Clear, duration)]
  /\ UNCHANGED <<plugged, running>>

(* handle_dim() takes that many names and drops the rest of the list.       *)
Lists == {list \in SUBSET Outputs : list # {} /\ Cardinality(list) <= MaxOutputs}

(* Unlisted outputs fade out, the listed ones fade to alpha.                *)
Dim(list, alpha, duration) ==
  /\ selected' = list
  /\ out' = [o \in Outputs |->
               IF ~out[o].inUse THEN out[o]
               ELSE IF Found(o) /\ o \in list
               THEN Started(out[o], Shade(out[o], alpha), duration)
               ELSE Started(out[o], Clear, duration)]
  /\ UNCHANGED <<plugged, running>>

DimOutput(o, alpha, duration) ==
  /\ Found(o)
  /\ out' = [out EXCEPT ![o] = Started(@, Shade(@, alpha), duration)]
  /\ selected' = selected \cup {o}
  /\ UNCHANGED <<plugged, running>>

(* Mutant: likewise for a fade out of everything. *)
FadeOutShownOnly(duration) ==
  /\ selected' = {}
  /\ out' = [o \in Outputs |->
               IF out[o].inUse /\ out[o].current # Clear
               THEN Started(out[o], Clear, duration) ELSE out[o]]
  /\ UNCHANGED <<plugged, running>>

FadeOut(duration) ==
  /\ selected' = {}
  /\ out' = [o \in Outputs |->
               IF out[o].inUse THEN Started(out[o], Clear, duration) ELSE out[o]]
  /\ UNCHANGED <<plugged, running>>

(* handle_art(): artwork is staged, cleared, or refused and left as it was. *)
Art(o, staged) ==
  /\ Found(o)
  /\ out' = [out EXCEPT ![o].art = staged]
  /\ UNCHANGED <<plugged, selected, running>>

(* Mutant: the layer is remembered for the next overlay only. *)
LayerNextTime(o, layer) ==
  /\ Found(o)
  /\ out' = [out EXCEPT ![o].layer = layer]
  /\ UNCHANGED <<plugged, selected, running>>

(* handle_layer(), with a layer shell that can restack a mapped surface.    *)
Layer(o, layer) ==
  /\ Found(o)
  /\ out' = [out EXCEPT ![o].layer = layer,
                        ![o].stack = IF out[o].layer # layer /\ out[o].mapped
                                     THEN layer ELSE @]
  /\ UNCHANGED <<plugged, selected, running>>

-----------------------------------------------------------------------------
(* Wayland events *)

(* registry_global(): an output beyond the table is never heard of again.   *)
GlobalAdded(o) ==
  /\ o \notin plugged
  /\ plugged' = plugged \cup {o}
  /\ out' = IF Cardinality({p \in Outputs : out[p].inUse}) < MaxOutputs
            THEN [out EXCEPT ![o] = [Blank EXCEPT !.inUse = TRUE]]
            ELSE out
  /\ UNCHANGED <<selected, running>>

OutputNamed(o) ==
  /\ out[o].inUse /\ ~out[o].named
  /\ out' = [out EXCEPT ![o].named = TRUE]
  /\ UNCHANGED <<plugged, selected, running>>

GlobalRemoved(o) ==
  /\ o \in plugged
  /\ plugged' = plugged \ {o}
  /\ out' = [out EXCEPT ![o] = Blank]
  /\ UNCHANGED <<selected, running>>

(* Mutant: a surface at rest is acknowledged, but not drawn. *)
ConfigureMovingOnly(o) ==
  /\ out[o].mapped
  /\ out' = [out EXCEPT ![o] =
               LET s == [@ EXCEPT !.configured = TRUE]
               IN  IF s.animating THEN Committed(s, TRUE) ELSE s]
  /\ UNCHANGED <<plugged, selected, running>>

Configure(o) ==
  /\ out[o].mapped
  /\ out' = [out EXCEPT ![o] = Committed([@ EXCEPT !.configured = TRUE],
                                         out[o].animating)]
  /\ UNCHANGED <<plugged, selected, running>>

Closed(o) ==
  /\ out[o].mapped
  /\ out' = [out EXCEPT ![o] = Destroyed(@)]
  /\ UNCHANGED <<plugged, selected, running>>

FrameDone(o) ==
  /\ out[o].frame
  /\ \E s \in Ticked([out[o] EXCEPT !.frame = FALSE]) :
       out' = [out EXCEPT ![o] = s]
  /\ UNCHANGED <<plugged, selected, running>>

-----------------------------------------------------------------------------
(* Time and the main loop *)

(* poll_timeout_ms(): the loop wakes up by itself only while some output    *)
(* is animating.                                                            *)
PollTimesOut == \E o \in Outputs : out[o].inUse /\ out[o].animating

(* Mutant: a surface the compositor never configured is not advanced. *)
AdvanceStalledConfigured(o) ==
  /\ PollTimesOut
  /\ out[o].inUse /\ out[o].animating /\ out[o].quiet /\ out[o].configured
  /\ \E s \in Ticked(out[o]) : out' = [out EXCEPT ![o] = s]
  /\ UNCHANGED <<plugged, selected, running>>

(* advance_stalled_animations(), for one output. *)
AdvanceStalled(o) ==
  /\ PollTimesOut
  /\ out[o].inUse /\ out[o].animating /\ out[o].quiet
  /\ \E s \in Ticked(out[o]) : out' = [out EXCEPT ![o] = s]
  /\ UNCHANGED <<plugged, selected, running>>

Elapse ==
  /\ out' = [o \in Outputs |->
               IF out[o].animating
               THEN [out[o] EXCEPT !.left = IF @ > 0 THEN @ - 1 ELSE 0,
                                   !.quiet = TRUE]
               ELSE out[o]]
  /\ UNCHANGED <<plugged, selected, running>>

(* QUIT, the end of stdin, a signal or a dead display: everything is torn   *)
(* down on the way out.                                                     *)
Exit ==
  /\ running' = FALSE
  /\ out' = [o \in Outputs |-> Blank]
  /\ UNCHANGED <<plugged, selected>>

-----------------------------------------------------------------------------
Command ==
  \/ \E alpha \in Alphas, duration \in Durations :
       \/ \E list \in Lists : Dim(list, alpha, duration)
       \/ \E o \in Outputs : DimOutput(o, alpha, duration)
  \/ \E duration \in Durations : FadeOut(duration)
  \/ \E o \in Outputs, staged \in BOOLEAN : Art(o, staged)
  \/ \E o \in Outputs, layer \in Layers : Layer(o, layer)

Hotplug == \E o \in Outputs : GlobalAdded(o) \/ GlobalRemoved(o)

Compositor ==
  \E o \in Outputs :
    OutputNamed(o) \/ Configure(o) \/ Closed(o) \/ FrameDone(o)

Next ==
  /\ running
  /\ \/ Command
     \/ Hotplug
     \/ Compositor
     \/ \E o \in Outputs : AdvanceStalled(o)
     \/ Elapse
     \/ Exit

Spec == Init /\ [][Next]_vars

(* Time passes and the loop turns.  No frame callback is ever promised: a   *)
(* compositor sends none to an output that is blanked.                      *)
Fairness ==
  /\ WF_vars(running /\ Elapse)
  /\ \A o \in Outputs : WF_vars(running /\ AdvanceStalled(o))

FairSpec == Spec /\ Fairness

-----------------------------------------------------------------------------
(* Properties *)

TypeOK ==
  /\ plugged \subseteq Outputs
  /\ out \in [Outputs -> OutputState]
  /\ selected \subseteq Outputs
  /\ running \in BOOLEAN

(* The flags of an overlay agree: only a mapped surface is configured or    *)
(* animated, a frame callback is pending on a configured surface only, and  *)
(* an output without an overlay starts its next fade from clear.            *)
OverlayShape ==
  \A o \in Outputs :
    /\ out[o].mapped => out[o].inUse
    /\ out[o].configured \/ out[o].animating => out[o].mapped
    /\ out[o].frame => out[o].configured
    /\ ~out[o].mapped => out[o].current = Clear

(* An overlay at rest is at its target and visible: none is left behind on  *)
(* an output, invisible but in the way, and none stops short.               *)
RestsAtTarget ==
  \A o \in Outputs :
    out[o].mapped /\ ~out[o].animating =>
      out[o].current = out[o].target /\ out[o].current > Faint

(* Once it is configured, a surface at rest shows the alpha that was asked  *)
(* for, also when the fade ended before the compositor configured it.       *)
ShowsWhatItRestsAt ==
  \A o \in Outputs :
    out[o].configured /\ ~out[o].animating => out[o].shown = out[o].current

(* Only outputs of the latest selection stay dimmed: every other overlay is *)
(* on its way out.                                                          *)
OnlySelectedStayDimmed ==
  \A o \in Outputs : out[o].mapped /\ out[o].target > Clear => o \in selected

(* A mapped surface is stacked where the last LAYER command put it. *)
StackedAsAsked == \A o \in Outputs : out[o].mapped => out[o].stack = out[o].layer

(* The daemon sends nothing more, and the compositor has stopped            *)
(* reconfiguring surfaces: every configure event counts as a commit, so an  *)
(* endless stream of them would keep the stall from being noticed.          *)
QuietFromNowOn ==
  <>[][~Command /\ \A o \in Outputs : ~Configure(o)]_vars

(* A fade that nothing disturbs ends, frame callbacks or not, and then      *)
(* every output that the last command left out has been given back.         *)
FadesEnd ==
  QuietFromNowOn =>
    <>[](\A o \in Outputs : ~out[o].animating /\ (out[o].mapped => o \in selected))
=============================================================================
