-------------------------------- MODULE Theater --------------------------------
(* What the daemon promises to somebody in front of the displays, without     *)
(* windows, configurations, timers' callbacks or the helper process: where    *)
(* theater mode is, what it dims, and when it may follow the game or end.     *)
CONSTANTS
  Displays,   \* the displays that may be dimmed
  Places,     \* where a game may be: on a display, or nowhere that is known
  Nowhere     \* there is no game, or theater mode is off

VARIABLES
  wanted,     \* where the game is
  stage,      \* where theater mode is
  dark,       \* the displays that are dimmed
  waiting,    \* what waits for its delay: "restore", "move"
  surveying   \* the windows are being listed: nothing reacts until the end

theaterVars == <<wanted, stage, dark, waiting, surveying>>

Init ==
  /\ wanted = Nowhere /\ stage = Nowhere
  /\ dark = {} /\ waiting = {} /\ surveying = FALSE

-----------------------------------------------------------------------------
(* What can become of the displays in one step *)

Stay == UNCHANGED <<stage, dark>>

(* Theater mode at a place dims other displays only, and may fail to dim.   *)
Show(place) == stage' = place /\ dark' \in SUBSET (Displays \ {place})

(* Theater mode that is off dims nothing. *)
Hide == stage' = Nowhere /\ dark' = {}

(* Without a game, theater mode ends now or has its end pending.            *)
ReactToNoGame ==
  \/ /\ stage # Nowhere /\ "restore" \notin waiting
     /\ \/ waiting' = {"restore"} /\ Stay
        \/ waiting' = {} /\ Hide
  \/ /\ stage = Nowhere \/ "restore" \in waiting
     /\ waiting' = waiting \ {"move"} /\ Stay

(* Theater mode is where the game is: it goes on, or gives up. *)
ReactOnStage ==
  /\ stage = wanted'
  /\ waiting' \in {waiting \ {"restore"}, {}}
  /\ Stay \/ Show(stage) \/ Hide

(* Theater mode was off: it begins where the game is, or cannot. *)
ReactByEntering ==
  /\ stage = Nowhere
  /\ waiting' = waiting \ {"restore"}
  /\ Show(wanted') \/ Hide

(* Theater mode is somewhere else: it waits before it follows. *)
ReactByWaiting ==
  /\ stage \notin {Nowhere, wanted'}
  /\ waiting' = {"move"} /\ Stay

React ==
  \/ wanted' = Nowhere /\ ReactToNoGame
  \/ wanted' \in Places /\ (ReactOnStage \/ ReactByEntering \/ ReactByWaiting)

-----------------------------------------------------------------------------
(* The steps *)

(* The windows change, and theater mode reacts: at once, or at the end of   *)
(* the survey.                                                              *)
WindowsChange == React /\ surveying' \in {surveying, FALSE}

ChangeDuringSurvey ==
  /\ surveying /\ wanted' \in Places \cup {Nowhere}
  /\ Stay /\ UNCHANGED <<waiting, surveying>>

BeginSurvey == surveying' = TRUE /\ Stay /\ UNCHANGED <<wanted, waiting>>

Clear ==
  /\ wanted' = Nowhere /\ Hide /\ waiting' = {}
  /\ UNCHANGED surveying

(* A new configuration may take another window for the game, and dims anew  *)
(* where theater mode is. *)
Reconfigure ==
  /\ wanted' \in Places \cup {Nowhere}
  /\ \/ Stay
     \/ stage # Nowhere /\ wanted' # Nowhere /\ Show(stage)
  /\ UNCHANGED <<waiting, surveying>>

RestoreAfterDelay ==
  /\ "restore" \in waiting /\ waiting' = waiting \ {"restore"}
  /\ Hide
  /\ UNCHANGED <<wanted, surveying>>

FollowAfterDelay ==
  /\ "move" \in waiting /\ waiting' = waiting \ {"move"}
  /\ IF wanted \in {Nowhere, stage} THEN Stay ELSE Show(wanted) \/ Hide
  /\ UNCHANGED <<wanted, surveying>>

(* The helper exits, or a display goes. *)
LoseDimming ==
  /\ dark' \in SUBSET dark
  /\ UNCHANGED <<wanted, stage, waiting, surveying>>

Next ==
  \/ LoseDimming
  \/ Clear \/ Reconfigure
  \/ BeginSurvey \/ ChangeDuringSurvey \/ WindowsChange
  \/ RestoreAfterDelay \/ FollowAfterDelay

Spec == Init /\ [][Next]_theaterVars
=============================================================================
