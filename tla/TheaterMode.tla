---------------------------- MODULE TheaterMode ----------------------------
(* The whole of theater-mode: the detector script in KWin, the session bus, *)
(* the daemon, and the helper as the daemon sees it.  The daemon may die    *)
(* and be started again at any moment; calls made to a daemon that is not   *)
(* there are lost.                                                          *)
EXTENDS Daemon, Sequences

CONSTANTS
  Looks, MaxCalls,      \* see Detector
  GameIds               \* the windows steam_appid_for_window() takes for games

(* The daemon's own window is not one of the desktop's. *)
DesktopIds == WindowIds \ {SimulatedId}

VARIABLES
  desktop, displays, settling, tracked, watched, listening, calls,
  up              \* the daemon owns its bus name

Script == INSTANCE Detector WITH
            Places <- Outputs \cup {Unnamed}, DisplaySets <- PlugSets

(* The script lists all displays that the compositor has. *)
ASSUME TheaterModeAssumption ==
  /\ GameIds \subseteq DesktopIds
  /\ Looks \subseteq Script!KWinWindow
  /\ ScreenLists = PlugSets
  /\ MaxCalls \in Nat

scriptSide == <<desktop, displays, settling, tracked, watched, listening, calls>>
systemVars == <<scriptSide, vars, up>>

SystemInit ==
  /\ Script!Init
  /\ Init
  /\ effect.plugged = displays
  /\ up = TRUE

-----------------------------------------------------------------------------
(* The daemon's handler for a call; see service.py *)

Handled(call) ==
  \/ /\ call.method = "WindowOpened"
     /\ \E ident \in Idents :
          WindowOpened(call.id, ident, call.output, call.fullscreen,
                       call.id \in GameIds)
  \/ /\ call.method = "WindowChanged"
     /\ \/ WindowChanged(call.id, call.output, call.fullscreen)
        \/ call.id \notin DOMAIN windows /\ UNCHANGED vars
  \/ /\ call.method = "WindowClosed"
     /\ WindowClosed(call.id)
  \/ /\ call.method = "SnapshotBegin"
     /\ SnapshotBegin(call.screens)
  \/ /\ call.method = "SnapshotEnd"
     /\ \/ SnapshotEnd
        \/ ~inPass /\ UNCHANGED vars

CallHandled ==
  /\ up
  /\ Script!CallTaken
  /\ Handled(Head(calls))
  /\ UNCHANGED up

CallLost ==
  /\ ~up
  /\ Script!CallTaken
  /\ UNCHANGED <<vars, up>>

(* The daemon's process ends, however it ends; the helper reads the end of  *)
(* its stdin and exits.                                                     *)
DaemonStops ==
  /\ up
  /\ up' = FALSE
  /\ windows' = [id \in {} |-> {}] /\ older' = {}
  /\ active' = NoOutput /\ appliedOthers' = {} /\ screens' = {}
  /\ inPass' = FALSE /\ seen' = {}
  /\ restoreTimer' = FALSE /\ followTimer' = FALSE
  /\ effect' = Fresh(displays)
  /\ UNCHANGED <<config, scriptSide>>

(* A daemon that starts does not see what was called before. *)
DaemonStarts ==
  /\ ~up
  /\ up' = TRUE
  /\ config' \in Configs
  /\ calls' = <<>>
  /\ UNCHANGED <<desktop, displays, settling, tracked, watched, listening,
                 windows, older, active, appliedOthers, screens, inPass, seen,
                 restoreTimer, followTimer, effect>>

(* What the daemon does by itself, or for its user. *)
DaemonSteps ==
  /\ up
  /\ \/ Clear
     \/ \E c \in Configs : Reload(c)
     \/ RestoreTimeout
     \/ FollowTimeout
     \/ HelperExits
  /\ UNCHANGED <<scriptSide, up>>

(* The compositor tells the helper and the script of a display. *)
DisplaysChange ==
  \E list \in PlugSets :
    /\ Script!ScreensChanged(list)
    /\ Hotplug(list)
    /\ UNCHANGED up

ScriptSteps ==
  /\ Script!DesktopChanges \/ Script!ScriptTimers \/ Script!ScriptReloaded
  /\ UNCHANGED <<vars, up>>

SystemNext ==
  \/ ScriptSteps
  \/ CallHandled
  \/ CallLost
  \/ DaemonSteps
  \/ DaemonStops
  \/ DaemonStarts
  \/ DisplaysChange

SystemSpec == SystemInit /\ [][SystemNext]_systemVars

(* KWin's timers fire, the bus delivers and the daemon's loop turns while   *)
(* there is a daemon.  Nobody promises to start it again.  The heartbeat    *)
(* is strongly fair because the bound on the calls can hold it back.        *)
Fairness ==
  /\ WF_systemVars(CallHandled)
  /\ WF_systemVars(up /\ RestoreTimeout /\ UNCHANGED <<scriptSide, up>>)
  /\ WF_systemVars(up /\ FollowTimeout /\ UNCHANGED <<scriptSide, up>>)
  /\ SF_systemVars(Script!Heartbeat /\ UNCHANGED <<vars, up>>)

FairSpec == SystemSpec /\ Fairness

-----------------------------------------------------------------------------
(* Properties *)

(* Once the calls under way are handled, all the daemon knows of a window   *)
(* is true: the window is there, where and as the daemon has it.  Restarts  *)
(* of either side, lost calls, clear and windows that stop and start being  *)
(* candidates leave no ghost and no stale output behind.                    *)
KnowsNothingFalse ==
  up /\ calls = <<>> =>
    \A id \in DOMAIN windows :
      /\ id \in DOMAIN desktop
      /\ windows[id].output = desktop[id].output
      /\ windows[id].fullscreen = desktop[id].fullscreen

(* The game windows that are there, whatever the daemon knows. *)
GamesOnDesktop ==
  {id \in Script!Candidates \cap GameIds :
     config.fullscreenOnly => desktop[id].fullscreen}

(* Of these, the daemon may know some, and may still know some that have    *)
(* silently stopped being candidates.                                       *)
GamesKnown ==
  {id \in DOMAIN windows \cap GameIds :
     config.fullscreenOnly => desktop[id].fullscreen}

(* The screen the games are really on is not dimmed, but for the follow     *)
(* delay after a move, once the daemon has heard of them and of the move.   *)
GameIsNotDimmed ==
  up /\ calls = <<>> /\ ~inPass /\ ~followTimer =>
    \A output \in Outputs :
      GamesKnown # {} /\ (\A id \in GamesKnown : desktop[id].output = output)
        => output \notin effect.lit

(* Nothing happens on the desktop any more, and nobody runs clear. *)
DesktopRests == <>[][~Script!DesktopChanges /\ ~DisplaysChange /\ ~Clear]_systemVars

(* Once the desktop rests and the daemon stays up, the daemon knows every   *)
(* window and every screen, whatever was lost before.                       *)
CatchesUp ==
  DesktopRests /\ <>[]up =>
    <>[](/\ \A id \in Script!Candidates : id \in DOMAIN windows
         /\ displays # {} => screens = displays)

(* Once the games are closed for good, or a configuration is in force for   *)
(* good under which none counts, the displays are given back for good: no   *)
(* lost call, restart, clear or reload strands a monitor.                   *)
DisplaysGivenBack ==
  \A c \in Configs :
    <>[](config = c /\ GamesOnDesktop = {}) => <>[](effect.lit = {})

(* Once the games stay where they are and neither the daemon nor the helper *)
(* dies, theater mode settles on the screen of a game.                      *)
SettlesOnTheGame ==
  DesktopRests /\ <>[](up /\ effect.running /\ GamesOnDesktop # {})
    => <>[](active \in {desktop[id].output : id \in GamesOnDesktop})
=============================================================================
