------------------------------ MODULE Detector ------------------------------
(* kwin/theater-detect: the script that runs inside the compositor and      *)
(* tells the daemon about windows and screens.  KWin calls it back on one   *)
(* thread, at the change itself, so a callback is one action together with  *)
(* the change of the desktop that caused it.  Its D-Bus calls are sent and  *)
(* not waited for: they queue on the bus, in order, until the daemon takes  *)
(* them.                                                                    *)
EXTENDS Integers, Sequences, SequencesExt

CONSTANTS
  DesktopIds,     \* the windows KWin may have: their internal ids
  Places,         \* names of outputs a window may be on, and the empty name
  Looks,          \* the states a window may be in
  DisplaySets,    \* what workspace.screens may list
  MaxCalls        \* bound: the calls under way

VARIABLES
  desktop,        \* KWin's windows: id -> place, fullscreen, isCandidate()
  displays,       \* workspace.screens
  settling,       \* the screenSettle timer is running
  tracked,        \* tracked: id -> what was last announced of the window
  watched,        \* watched
  listening,      \* the windows whose signals are connected to the script
  calls           \* the D-Bus calls the daemon has not taken yet

script == <<tracked, watched, listening>>
vars   == <<desktop, displays, settling, script, calls>>

(* candidate is isCandidate(): a normal window of a known process. *)
KWinWindow == [output : Places, fullscreen : BOOLEAN, candidate : BOOLEAN]

(* The state of the script and of the calls it has made. *)
Now == [tracked |-> tracked, watched |-> watched, listening |-> listening,
        calls |-> calls]

(* A callback leaves the script in state s.  The bound is on the model: the *)
(* bus takes any number of calls.                                           *)
Becomes(s) ==
  /\ Len(s.calls) =< MaxCalls
  /\ tracked' = s.tracked
  /\ watched' = s.watched
  /\ listening' = s.listening
  /\ calls' = s.calls

-----------------------------------------------------------------------------
(* The functions of the script, on its state, for window id seen as w *)

Look(w) == [output |-> w.output, fullscreen |-> w.fullscreen]

Noted(s, id, w) ==
  [v \in DOMAIN s.tracked \cup {id} |->
     IF v = id THEN Look(w) ELSE s.tracked[v]]

WithoutId(s, id) == [v \in DOMAIN s.tracked \ {id} |-> s.tracked[v]]

CallAbout(method, id, w) ==
  [method |-> method, id |-> id, output |-> w.output, fullscreen |-> w.fullscreen]

AnnounceOpened(s, id, w) ==
  [s EXCEPT !.tracked = Noted(s, id, w),
            !.calls = Append(@, CallAbout("WindowOpened", id, w))]

(* Mutant: the window is forgotten, and nobody is told. *)
AnnounceClosedSilently(s, id) ==
  [s EXCEPT !.watched = @ \ {id}, !.tracked = WithoutId(s, id)]

AnnounceClosed(s, id) ==
  LET retired == [s EXCEPT !.watched = @ \ {id}]
  IN  IF id \notin DOMAIN s.tracked THEN retired
      ELSE [retired EXCEPT
              !.tracked = WithoutId(s, id),
              !.calls = Append(@, [method |-> "WindowClosed", id |-> id])]

(* Mutant: a move to another output is not a change. *)
AnnounceChangedFullscreenOnly(s, id, w) ==
  IF ~w.candidate THEN AnnounceClosed(s, id)
  ELSE IF id \notin DOMAIN s.tracked THEN AnnounceOpened(s, id, w)
  ELSE IF s.tracked[id].fullscreen = w.fullscreen THEN s
  ELSE [s EXCEPT
          !.tracked = Noted(s, id, w),
          !.calls = Append(@, CallAbout("WindowChanged", id, w))]

AnnounceChanged(s, id, w) ==
  IF ~w.candidate THEN AnnounceClosed(s, id)
  ELSE IF id \notin DOMAIN s.tracked THEN AnnounceOpened(s, id, w)
  ELSE IF s.tracked[id] = Look(w) THEN s
  ELSE [s EXCEPT
          !.tracked = Noted(s, id, w),
          !.calls = Append(@, CallAbout("WindowChanged", id, w))]

(* Connecting a second time is no different from once: the second callback  *)
(* finds nothing new to announce.                                           *)
Watch(s, id) ==
  IF id \in s.watched THEN s
  ELSE [s EXCEPT !.watched = @ \cup {id}, !.listening = @ \cup {id}]

Candidates == {id \in DOMAIN desktop : desktop[id].candidate}

(* A snapshot that announces the windows of order, and watches them. *)
SnapshotOf(s, order) ==
  [s EXCEPT
     !.tracked   = [id \in DOMAIN @ \cup Range(order) |->
                      IF id \in Range(order) THEN Look(desktop[id]) ELSE @[id]],
     !.watched   = @ \cup Range(order),
     !.listening = @ \cup (Range(order) \ s.watched),
     !.calls     = @ \o <<[method |-> "SnapshotBegin", screens |-> displays]>>
                     \o [i \in DOMAIN order |->
                           CallAbout("WindowOpened", order[i], desktop[order[i]])]
                     \o <<[method |-> "SnapshotEnd"]>>]

(* Mutant: windows the script knows are left out of a snapshot. *)
SnapshotNewsOnly(s, order) ==
  SnapshotOf(s, SelectSeq(order, LAMBDA id : id \notin DOMAIN s.tracked))

(* sendSnapshot(), with the candidates in the order of windowList(). *)
Snapshot(s, order) == SnapshotOf(s, order)

SendSnapshot(s) == \E order \in SetToSeqs(Candidates) : Becomes(Snapshot(s, order))

-----------------------------------------------------------------------------
(* init() on a desktop without windows *)

Started == [tracked |-> [id \in {} |-> {}], watched |-> {}, listening |-> {},
            calls |-> <<>>]

Init ==
  /\ desktop = [id \in {} |-> {}]
  /\ displays \in DisplaySets
  /\ settling = FALSE
  /\ tracked = Started.tracked
  /\ watched = {}
  /\ listening = {}
  /\ calls = Snapshot(Started, <<>>).calls

(* KWin loads the script again.  The calls it had made are on the bus. *)
ScriptReloaded ==
  /\ SendSnapshot([Started EXCEPT !.calls = calls])
  /\ settling' = FALSE
  /\ UNCHANGED <<desktop, displays>>

(* onWindowAdded() *)
WindowAdded(id, w) ==
  /\ id \notin DOMAIN desktop
  /\ desktop' = [v \in DOMAIN desktop \cup {id} |->
                   IF v = id THEN w ELSE desktop[v]]
  /\ Becomes(IF w.candidate THEN Watch(AnnounceOpened(Now, id, w), id) ELSE Now)
  /\ UNCHANGED <<displays, settling>>

(* onWindowRemoved(); the signals of the window go with it. *)
WindowRemoved(id) ==
  /\ id \in DOMAIN desktop
  /\ desktop' = [v \in DOMAIN desktop \ {id} |-> desktop[v]]
  /\ Becomes([AnnounceClosed(Now, id) EXCEPT !.listening = @ \ {id}])
  /\ UNCHANGED <<displays, settling>>

(* outputChanged and fullScreenChanged *)
WindowMoved(id, w) ==
  /\ id \in DOMAIN desktop
  /\ Look(w) # Look(desktop[id]) /\ w.candidate = desktop[id].candidate
  /\ desktop' = [desktop EXCEPT ![id] = w]
  /\ Becomes(IF id \in listening THEN AnnounceChanged(Now, id, w) ELSE Now)
  /\ UNCHANGED <<displays, settling>>

(* isCandidate() changes its answer, and no signal tells the script. *)
CandidacyChanged(id) ==
  /\ id \in DOMAIN desktop
  /\ [desktop[id] EXCEPT !.candidate = ~@] \in Looks
  /\ desktop' = [desktop EXCEPT ![id].candidate = ~@]
  /\ UNCHANGED <<displays, settling, script, calls>>

(* screensChanged starts the settle timer, or starts it again. *)
ScreensChanged(list) ==
  /\ list # displays
  /\ displays' = list
  /\ settling' = TRUE
  /\ UNCHANGED <<desktop, script, calls>>

ScreensSettled ==
  /\ settling
  /\ settling' = FALSE
  /\ SendSnapshot(Now)
  /\ UNCHANGED <<desktop, displays>>

Heartbeat ==
  /\ SendSnapshot(Now)
  /\ UNCHANGED <<desktop, displays, settling>>

(* The calls leave the bus one at a time, in order. *)
CallTaken ==
  /\ calls # <<>>
  /\ calls' = Tail(calls)
  /\ UNCHANGED <<desktop, displays, settling, script>>

(* What the world does to the desktop, and what the script does by itself.  *)
DesktopChanges ==
  \/ \E id \in DesktopIds :
       \/ \E w \in Looks : WindowAdded(id, w) \/ WindowMoved(id, w)
       \/ WindowRemoved(id)
       \/ CandidacyChanged(id)

ScriptTimers == ScreensSettled \/ Heartbeat
=============================================================================
