---------------------------- MODULE DimmerProofs ----------------------------
(* The safety properties of Dimmer, for every set of outputs, every size of *)
(* the output table, every number of alpha levels and all durations.        *)
(*                                                                          *)
(* No output's record is ever read while another's is changed, so the       *)
(* invariant is a predicate on one record, OverlayOK, and one relation to   *)
(* the commands read so far.  The lemmas say of each function of the output *)
(* state machine what it needs and what it leaves.                          *)
EXTENDS Dimmer, TLAPS

(* What holds of a record between the change of its alpha and the commit:   *)
(* everything but what the surface shows.                                   *)
Drawable(s) ==
  /\ s \in OutputState
  /\ s.mapped => s.inUse
  /\ s.configured \/ s.animating => s.mapped
  /\ s.frame => s.configured
  /\ ~s.mapped => s.current = Clear
  /\ s.mapped /\ ~s.animating => s.current = s.target /\ s.current > Faint
  /\ s.mapped => s.stack = s.layer

OverlayOK(s) ==
  /\ Drawable(s)
  /\ s.configured /\ ~s.animating => s.shown = s.current

(* What no function of the output state machine changes. *)
SameSlot(s, t) ==
  /\ t.inUse = s.inUse
  /\ t.named = s.named
  /\ t.art = s.art
  /\ t.layer = s.layer

IInv ==
  /\ TypeOK
  /\ \A o \in Outputs : OverlayOK(out[o])
  /\ OnlySelectedStayDimmed

-----------------------------------------------------------------------------
(* The alpha levels that the code names are levels. *)
LEMMA LevelsOK == Clear \in Alphas /\ Opaque \in Alphas /\ Clear < Faint
BY DimmerAssumption DEF Alphas, Clear, Faint

(* A cleared slot satisfies the invariant, used or not, named or not. *)
LEMMA BlankOK ==
  ASSUME NEW inUse \in BOOLEAN, NEW named \in BOOLEAN
  PROVE  /\ OverlayOK([Blank EXCEPT !.inUse = inUse, !.named = named])
         /\ OverlayOK([Blank EXCEPT !.inUse = inUse])
         /\ OverlayOK(Blank)
BY LevelsOK
   DEF OverlayOK, Drawable, Blank, OutputState, Layers, Clear, NoFrame

(* destroy_overlay() leaves an unmapped output at clear, whatever the fade  *)
(* was doing.                                                               *)
LEMMA DestroyedOK ==
  ASSUME NEW s, Drawable(s)
  PROVE  /\ OverlayOK(Destroyed(s))
         /\ ~Destroyed(s).mapped
         /\ SameSlot(s, Destroyed(s))
BY LevelsOK
   DEF OverlayOK, Drawable, Destroyed, OutputState, SameSlot, Clear, NoFrame

(* commit_overlay() turns a drawable record into one that shows its alpha:  *)
(* an unconfigured surface is excused until it is configured.               *)
LEMMA CommittedOK ==
  ASSUME NEW s, Drawable(s), NEW requestFrame \in BOOLEAN
  PROVE  /\ OverlayOK(Committed(s, requestFrame))
         /\ Committed(s, requestFrame).target = s.target
         /\ Committed(s, requestFrame).mapped = s.mapped
         /\ SameSlot(s, Committed(s, requestFrame))
BY DEF OverlayOK, Drawable, Committed, OutputState, SameSlot

(* start_animation() makes any record of a used slot one that fades to      *)
(* alpha, except that an output without an overlay is not faded out.        *)
LEMMA StartedOK ==
  ASSUME NEW s, OverlayOK(s), s.inUse,
         NEW alpha \in Alphas, NEW duration \in Durations
  PROVE  /\ OverlayOK(Started(s, alpha, duration))
         /\ Started(s, alpha, duration).mapped =>
              Started(s, alpha, duration).target = alpha
         /\ SameSlot(s, Started(s, alpha, duration))
<1> DEFINE m == [Mapped(s) EXCEPT !.target = alpha, !.left = duration,
                                  !.quiet = FALSE, !.animating = TRUE]
<1>1. CASE alpha = Clear /\ ~s.mapped
  BY <1>1 DEF Started, SameSlot
<1>2. CASE ~(alpha = Clear /\ ~s.mapped)
  <2>1. Drawable(m) /\ m.target = alpha /\ SameSlot(s, m)
    BY DimmerAssumption
       DEF OverlayOK, Drawable, OutputState, Mapped, SameSlot, Layers
  <2>2. Started(s, alpha, duration) = Committed(m, TRUE)
    BY <1>2 DEF Started
  <2> HIDE DEF m
  <2>3. /\ OverlayOK(Committed(m, TRUE))
        /\ Committed(m, TRUE).target = m.target
        /\ SameSlot(m, Committed(m, TRUE))
    BY <2>1, CommittedOK
  <2>4. QED
    BY <2>1, <2>2, <2>3 DEF SameSlot
<1>3. QED
  BY <1>1, <1>2

(* tick_overlay() keeps the invariant whichever way the fade goes: on, to   *)
(* rest at its target, or to the end of the overlay; it never asks for      *)
(* another target.                                                          *)
LEMMA TickedOK ==
  ASSUME NEW s, OverlayOK(s), NEW t \in Ticked(s)
  PROVE  /\ OverlayOK(t)
         /\ t.mapped => s.mapped /\ t.target = s.target
         /\ SameSlot(s, t)
<1>1. CASE ~s.animating \/ ~s.mapped
  BY <1>1 DEF Ticked, SameSlot
<1>2. CASE s.animating /\ s.mapped /\ s.left > 0
  <2>1. PICK a \in Alphas : t = Committed([s EXCEPT !.current = a], TRUE)
    BY <1>2 DEF Ticked, Between
  <2>2. /\ Drawable([s EXCEPT !.current = a])
        /\ [s EXCEPT !.current = a].target = s.target
        /\ SameSlot(s, [s EXCEPT !.current = a])
    BY <1>2 DEF OverlayOK, Drawable, OutputState, SameSlot
  <2>3. QED
    BY <1>2, <2>1, <2>2, CommittedOK DEF SameSlot
<1>3. CASE s.animating /\ s.mapped /\ ~(s.left > 0) /\ s.target =< Faint
  BY <1>3, DestroyedOK DEF Ticked, OverlayOK
<1>4. CASE s.animating /\ s.mapped /\ ~(s.left > 0) /\ ~(s.target =< Faint)
  <2> DEFINE r == [s EXCEPT !.current = s.target, !.animating = FALSE]
  <2>1. Drawable(r) /\ r.target = s.target /\ SameSlot(s, r)
    <3>1. s.target \in Alphas /\ s.target > Faint
      BY <1>4, DimmerAssumption
         DEF OverlayOK, Drawable, OutputState, Alphas, Clear, Faint
    <3>2. QED
      BY <1>4, <3>1 DEF OverlayOK, Drawable, OutputState, SameSlot
  <2>2. t = Committed(r, FALSE)
    BY <1>4 DEF Ticked
  <2> HIDE DEF r
  <2>3. /\ OverlayOK(Committed(r, FALSE))
        /\ Committed(r, FALSE).target = r.target
        /\ SameSlot(r, Committed(r, FALSE))
    BY <2>1, CommittedOK
  <2>4. QED
    BY <1>4, <2>1, <2>2, <2>3 DEF SameSlot
<1>5. QED
  BY <1>1, <1>2, <1>3, <1>4

-----------------------------------------------------------------------------
(* A step that changes one output's record alone keeps the invariant if the *)
(* new record satisfies it and asks for nothing the commands did not: the   *)
(* output is selected, or the overlay is gone, or its target is unchanged.  *)
LEMMA OneRecordPreserves ==
  ASSUME IInv, NEW o \in Outputs, NEW t,
         OverlayOK(t),
         t.mapped => \/ o \in selected'
                     \/ out[o].mapped /\ t.target = out[o].target,
         out' = [out EXCEPT ![o] = t],
         selected \subseteq selected', selected' \subseteq Outputs,
         plugged' \subseteq Outputs, running' \in BOOLEAN
  PROVE  IInv'
<1>1. TypeOK'
  BY DEF IInv, TypeOK, OverlayOK, Drawable
<1>2. (\A p \in Outputs : OverlayOK(out[p]))'
  BY DEF IInv, TypeOK
<1>3. OnlySelectedStayDimmed'
  <2> SUFFICES ASSUME NEW p \in Outputs,
                      out'[p].mapped, out'[p].target > Clear
               PROVE  p \in selected'
    BY DEF OnlySelectedStayDimmed
  <2>1. CASE p = o
    BY <2>1 DEF IInv, TypeOK, OnlySelectedStayDimmed
  <2>2. CASE p # o
    BY <2>2 DEF IInv, TypeOK, OnlySelectedStayDimmed
  <2>3. QED
    BY <2>1, <2>2
<1>4. QED
  BY <1>1, <1>2, <1>3 DEF IInv

(* A step that gives every output a new record keeps the invariant if each  *)
(* of them satisfies it and is selected, or on its way out, or was so.      *)
LEMMA AllRecordsPreserve ==
  ASSUME out' = [o \in Outputs |-> out'[o]],
         \A o \in Outputs : OverlayOK(out'[o]),
         \A o \in Outputs :
           out'[o].mapped => o \in selected' \/ out'[o].target = Clear,
         selected' \subseteq Outputs,
         plugged' \subseteq Outputs, running' \in BOOLEAN
  PROVE  IInv'
<1>1. TypeOK'
  BY DEF TypeOK, OverlayOK, Drawable
<1>2. (\A o \in Outputs : OverlayOK(out[o]))'
  OBVIOUS
<1>3. OnlySelectedStayDimmed'
  BY DEF OnlySelectedStayDimmed, Clear
<1>4. QED
  BY <1>1, <1>2, <1>3 DEF IInv

(* Staged artwork or flat black, the alpha that is faded to is a level. *)
LEMMA ShadeOK ==
  ASSUME NEW s, NEW alpha \in Alphas
  PROVE  Shade(s, alpha) \in Alphas
BY LevelsOK DEF Shade

-----------------------------------------------------------------------------
(* The commands of the daemon preserve the invariant. *)
LEMMA CommandPreserves == IInv /\ Command => IInv'
<1> SUFFICES ASSUME IInv, Command
             PROVE  IInv'
  OBVIOUS
<1>1. ASSUME NEW list \in Lists, NEW alpha \in Alphas,
             NEW duration \in Durations, Dim(list, alpha, duration)
      PROVE  IInv'
  <2>1. ASSUME NEW o \in Outputs
        PROVE  /\ OverlayOK(out'[o])
               /\ out'[o].mapped => o \in selected' \/ out'[o].target = Clear
    <3>1. CASE ~out[o].inUse
      BY <1>1, <3>1 DEF Dim, IInv, OverlayOK, Drawable
    <3>2. CASE out[o].inUse /\ Found(o) /\ o \in list
      <4>1. out'[o] = Started(out[o], Shade(out[o], alpha), duration)
        BY <1>1, <3>2 DEF Dim
      <4>2. QED
        BY <1>1, <3>2, <4>1, ShadeOK, StartedOK DEF IInv, Dim
    <3>3. CASE out[o].inUse /\ ~(Found(o) /\ o \in list)
      <4>1. out'[o] = Started(out[o], Clear, duration)
        BY <1>1, <3>3 DEF Dim
      <4>2. QED
        BY <3>3, <4>1, LevelsOK, StartedOK DEF IInv
    <3>4. QED
      BY <3>1, <3>2, <3>3
  <2>2. list \subseteq Outputs
    BY DEF Lists
  <2>3. QED
    BY <1>1, <2>1, <2>2, AllRecordsPreserve DEF Dim, IInv, TypeOK
<1>2. ASSUME NEW o \in Outputs, NEW alpha \in Alphas,
             NEW duration \in Durations, DimOutput(o, alpha, duration)
      PROVE  IInv'
  <2> DEFINE t == Started(out[o], Shade(out[o], alpha), duration)
  <2>1. OverlayOK(t)
    BY <1>2, ShadeOK, StartedOK DEF IInv, DimOutput, Found
  <2>2. out' = [out EXCEPT ![o] = t]
    BY <1>2 DEF DimOutput
  <2> HIDE DEF t
  <2>3. QED
    BY <1>2, <2>1, <2>2, OneRecordPreserves DEF DimOutput, IInv, TypeOK
<1>3. ASSUME NEW duration \in Durations, FadeOut(duration)
      PROVE  IInv'
  <2>1. ASSUME NEW o \in Outputs
        PROVE  /\ OverlayOK(out'[o])
               /\ out'[o].mapped => out'[o].target = Clear
    <3>1. CASE ~out[o].inUse
      BY <1>3, <3>1 DEF FadeOut, IInv, OverlayOK, Drawable
    <3>2. CASE out[o].inUse
      <4>1. out'[o] = Started(out[o], Clear, duration)
        BY <1>3, <3>2 DEF FadeOut
      <4>2. QED
        BY <3>2, <4>1, LevelsOK, StartedOK DEF IInv
    <3>3. QED
      BY <3>1, <3>2
  <2>2. QED
    BY <1>3, <2>1, AllRecordsPreserve DEF FadeOut, IInv, TypeOK
<1>4. ASSUME NEW o \in Outputs, NEW staged \in BOOLEAN, Art(o, staged)
      PROVE  IInv'
  <2> DEFINE t == [out[o] EXCEPT !.art = staged]
  <2>1. /\ OverlayOK(t)
        /\ t.mapped = out[o].mapped
        /\ t.target = out[o].target
    BY DEF IInv, OverlayOK, Drawable, OutputState
  <2>2. out' = [out EXCEPT ![o] = t]
    BY <1>4 DEF Art
  <2> HIDE DEF t
  <2>3. QED
    BY <1>4, <2>1, <2>2, OneRecordPreserves DEF Art, IInv, TypeOK
<1>5. ASSUME NEW o \in Outputs, NEW layer \in Layers, Layer(o, layer)
      PROVE  IInv'
  <2> DEFINE t == [out[o] EXCEPT !.layer = layer,
                                 !.stack = IF out[o].layer # layer /\ out[o].mapped
                                           THEN layer ELSE @]
  <2>1. /\ OverlayOK(t)
        /\ t.mapped = out[o].mapped
        /\ t.target = out[o].target
    BY DEF IInv, OverlayOK, Drawable, OutputState
  <2>2. out' = [out EXCEPT ![o] = t]
    BY <1>5 DEF Layer, IInv, TypeOK, OutputState
  <2> HIDE DEF t
  <2>3. QED
    BY <1>5, <2>1, <2>2, OneRecordPreserves DEF Layer, IInv, TypeOK
<1>6. QED
  BY <1>1, <1>2, <1>3, <1>4, <1>5 DEF Command

(* So do the outputs that come and go: a slot is taken blank, and given up  *)
(* with its overlay.                                                        *)
LEMMA HotplugPreserves == IInv /\ Hotplug => IInv'
<1> SUFFICES ASSUME IInv, NEW o \in Outputs, GlobalAdded(o) \/ GlobalRemoved(o)
             PROVE  IInv'
  BY DEF Hotplug
<1>1. CASE GlobalAdded(o)
  <2> DEFINE t == [Blank EXCEPT !.inUse = TRUE]
  <2>1. OverlayOK(t) /\ ~t.mapped
    BY BlankOK DEF Blank
  <2> HIDE DEF t
  <2>2. CASE out' = [out EXCEPT ![o] = t]
    BY <1>1, <2>1, <2>2, OneRecordPreserves DEF GlobalAdded, IInv, TypeOK
  <2>3. CASE out' = out
    BY <1>1, <2>3 DEF GlobalAdded, IInv, TypeOK, OnlySelectedStayDimmed
  <2>4. QED
    BY <1>1, <2>2, <2>3 DEF GlobalAdded, t
<1>2. CASE GlobalRemoved(o)
  <2>1. OverlayOK(Blank) /\ ~Blank.mapped
    BY BlankOK DEF Blank
  <2>2. QED
    BY <1>2, <2>1, OneRecordPreserves DEF GlobalRemoved, IInv, TypeOK
<1>3. QED
  BY <1>1, <1>2

(* So do the events of an output and its surface. *)
LEMMA CompositorPreserves == IInv /\ Compositor => IInv'
<1> SUFFICES ASSUME IInv, NEW o \in Outputs,
                    OutputNamed(o) \/ Configure(o) \/ Closed(o) \/ FrameDone(o)
             PROVE  IInv'
  BY DEF Compositor
<1>1. CASE OutputNamed(o)
  <2> DEFINE t == [out[o] EXCEPT !.named = TRUE]
  <2>1. /\ OverlayOK(t)
        /\ t.mapped = out[o].mapped
        /\ t.target = out[o].target
    BY DEF IInv, OverlayOK, Drawable, OutputState
  <2>2. out' = [out EXCEPT ![o] = t]
    BY <1>1 DEF OutputNamed
  <2> HIDE DEF t
  <2>3. QED
    BY <1>1, <2>1, <2>2, OneRecordPreserves DEF OutputNamed, IInv, TypeOK
<1>2. CASE Configure(o)
  <2> DEFINE s == [out[o] EXCEPT !.configured = TRUE]
             t == Committed(s, out[o].animating)
  <2>1. Drawable(s) /\ s.target = out[o].target
    BY <1>2 DEF Configure, IInv, OverlayOK, Drawable, OutputState
  <2>2. out[o].animating \in BOOLEAN
    BY DEF IInv, TypeOK, OutputState
  <2>3. out' = [out EXCEPT ![o] = t]
    BY <1>2 DEF Configure, IInv, TypeOK
  <2> HIDE DEF s
  <2>4. OverlayOK(t) /\ t.target = s.target
    BY <2>1, <2>2, CommittedOK
  <2> HIDE DEF t
  <2>5. QED
    BY <1>2, <2>1, <2>3, <2>4, OneRecordPreserves DEF Configure, IInv, TypeOK
<1>3. CASE Closed(o)
  <2>1. OverlayOK(Destroyed(out[o])) /\ ~Destroyed(out[o]).mapped
    BY DestroyedOK DEF IInv, OverlayOK
  <2>2. out' = [out EXCEPT ![o] = Destroyed(out[o])]
    BY <1>3 DEF Closed
  <2>3. QED
    BY <1>3, <2>1, <2>2, OneRecordPreserves DEF Closed, IInv, TypeOK
<1>4. CASE FrameDone(o)
  <2> DEFINE s == [out[o] EXCEPT !.frame = FALSE]
  <2>1. /\ OverlayOK(s)
        /\ s.mapped = out[o].mapped
        /\ s.target = out[o].target
    BY DEF IInv, OverlayOK, Drawable, OutputState
  <2>2. PICK t \in Ticked(s) : out' = [out EXCEPT ![o] = t]
    BY <1>4 DEF FrameDone
  <2> HIDE DEF s
  <2>3. OverlayOK(t) /\ (t.mapped => s.mapped /\ t.target = s.target)
    BY <2>1, TickedOK
  <2>4. QED
    BY <1>4, <2>1, <2>2, <2>3, OneRecordPreserves DEF FrameDone, IInv, TypeOK
<1>5. QED
  BY <1>1, <1>2, <1>3, <1>4

(* So does the time: a fade that is advanced without a frame callback, the  *)
(* clock, and the end of the process.                                       *)
LEMMA MainLoopPreserves ==
  IInv /\ ((\E o \in Outputs : AdvanceStalled(o)) \/ Elapse \/ Exit) => IInv'
<1>1. ASSUME IInv, NEW o \in Outputs, AdvanceStalled(o)
      PROVE  IInv'
  <2>1. PICK t \in Ticked(out[o]) : out' = [out EXCEPT ![o] = t]
    BY <1>1 DEF AdvanceStalled
  <2>2. OverlayOK(t) /\ (t.mapped => out[o].mapped /\ t.target = out[o].target)
    BY <1>1, TickedOK DEF IInv
  <2>3. QED
    BY <1>1, <2>1, <2>2, OneRecordPreserves DEF AdvanceStalled, IInv, TypeOK
<1>2. ASSUME IInv, Elapse
      PROVE  IInv'
  <2>1. ASSUME NEW o \in Outputs
        PROVE  /\ OverlayOK(out'[o])
               /\ out'[o].mapped = out[o].mapped
               /\ out'[o].target = out[o].target
    <3>1. CASE ~out[o].animating
      BY <1>2, <3>1 DEF IInv, Elapse
    <3>2. CASE out[o].animating
      <4> DEFINE left == IF out[o].left > 0 THEN out[o].left - 1 ELSE 0
      <4>1. left \in Nat
        BY <1>2 DEF IInv, OverlayOK, Drawable, OutputState
      <4>2. out'[o] = [out[o] EXCEPT !.left = left, !.quiet = TRUE]
        BY <1>2, <3>2 DEF Elapse
      <4> HIDE DEF left
      <4>3. PICK s : s = out[o] /\ s.animating /\ OverlayOK(s)
        BY <1>2, <3>2 DEF IInv
      <4>4. OverlayOK([s EXCEPT !.left = left, !.quiet = TRUE])
        BY <4>1, <4>3 DEF OverlayOK, Drawable, OutputState
      <4>5. s \in OutputState
        BY <4>3 DEF OverlayOK, Drawable
      <4>6. QED
        BY <4>2, <4>3, <4>4, <4>5 DEF OutputState
    <3>3. QED
      BY <3>1, <3>2
  <2>2. out' = [o \in Outputs |-> out'[o]]
    BY <1>2 DEF Elapse
  <2>3. \A o \in Outputs :
          out'[o].mapped => o \in selected' \/ out'[o].target = Clear
    <3>1. \A o \in Outputs : out[o].target > Clear \/ out[o].target = Clear
      BY <1>2, DimmerAssumption DEF IInv, TypeOK, OutputState, Alphas, Clear
    <3>2. QED
      BY <1>2, <2>1, <3>1 DEF IInv, OnlySelectedStayDimmed, Elapse
  <2>4. QED
    BY <1>2, <2>1, <2>2, <2>3, AllRecordsPreserve DEF Elapse, IInv, TypeOK
<1>3. ASSUME IInv, Exit
      PROVE  IInv'
  <2>1. OverlayOK(Blank) /\ ~Blank.mapped
    BY BlankOK DEF Blank
  <2>2. QED
    BY <1>3, <2>1, AllRecordsPreserve DEF Exit, IInv, TypeOK
<1>4. QED
  BY <1>1, <1>2, <1>3

(* The table starts with cleared slots, and nothing is selected.            *)
LEMMA InitEstablishes == Init => IInv
<1> SUFFICES ASSUME Init
             PROVE  IInv
  OBVIOUS
<1>1. ASSUME NEW o \in Outputs
      PROVE  OverlayOK(out[o]) /\ ~out[o].mapped
  <2> DEFINE b == o \in plugged
  <2>1. out[o] = [Blank EXCEPT !.inUse = b, !.named = b]
    BY DEF Init
  <2>2. b \in BOOLEAN /\ ~[Blank EXCEPT !.inUse = b, !.named = b].mapped
    BY DEF Blank
  <2> HIDE DEF b
  <2>3. QED
    BY <2>1, <2>2, BlankOK
<1>2. TypeOK
  BY <1>1 DEF Init, TypeOK, OverlayOK, Drawable
<1>3. QED
  BY <1>1, <1>2 DEF IInv, OnlySelectedStayDimmed

(* One step per group of actions.                                           *)
LEMMA NextPreserves == IInv /\ [Next]_vars => IInv'
<1>1. ASSUME IInv, UNCHANGED vars
      PROVE  IInv'
  BY <1>1 DEF IInv, TypeOK, OnlySelectedStayDimmed, vars
<1>2. QED
  BY <1>1, CommandPreserves, HotplugPreserves, CompositorPreserves,
     MainLoopPreserves DEF Next

(* The properties are parts of what holds of every record.                  *)
LEMMA IInvImplies ==
  IInv => /\ OverlayShape
          /\ RestsAtTarget
          /\ ShowsWhatItRestsAt
          /\ StackedAsAsked
BY DEF IInv, OverlayOK, Drawable, OverlayShape, RestsAtTarget,
       ShowsWhatItRestsAt, StackedAsAsked

-----------------------------------------------------------------------------
(* The helper's table is always well typed: an alpha is a level whatever    *)
(* fade, artwork or command comes, and the output table has one record per  *)
(* connector.                                                               *)
THEOREM TypeCorrect == Spec => []TypeOK
<1>1. IInv => TypeOK
  BY DEF IInv
<1>2. QED
  BY <1>1, InitEstablishes, NextPreserves, PTL DEF Spec

(* The flags of an overlay agree, in whatever order the compositor          *)
(* configures, closes and unplugs and the daemon sends.                     *)
THEOREM OverlaysAreShaped == Spec => []OverlayShape
BY InitEstablishes, NextPreserves, IInvImplies, PTL DEF Spec

(* No overlay is left behind that rests anywhere but visibly at its target, *)
(* however its fades followed on each other.                                *)
THEOREM OverlaysRestAtTheirTarget == Spec => []RestsAtTarget
BY InitEstablishes, NextPreserves, IInvImplies, PTL DEF Spec

(* A configured surface at rest shows the alpha it rests at: no order of    *)
(* the fade's end and the configure event loses the last frame.             *)
THEOREM SurfacesShowWhereTheyRest == Spec => []ShowsWhatItRestsAt
BY InitEstablishes, NextPreserves, IInvImplies, PTL DEF Spec

(* Every overlay outside the latest selection is on its way out, also one   *)
(* whose output's name arrived late or that artwork was staged for.         *)
THEOREM UnselectedAreGivenBack == Spec => []OnlySelectedStayDimmed
<1>1. IInv => OnlySelectedStayDimmed
  BY DEF IInv
<1>2. QED
  BY <1>1, InitEstablishes, NextPreserves, PTL DEF Spec

(* A mapped surface is in the layer the last LAYER command named, mapped    *)
(* before the command or after it.                                          *)
THEOREM OverlaysAreStackedAsAsked == Spec => []StackedAsAsked
BY InitEstablishes, NextPreserves, IInvImplies, PTL DEF Spec

=============================================================================
