------------------------- MODULE TheaterModeProofs -------------------------
(* What the daemon knows of the desktop is true, and so the screen of the   *)
(* game is not dimmed: for any windows, outputs and configurations, any     *)
(* number of calls under way, and restarts of either side at any moment.    *)
(*                                                                          *)
(* Why: the calls that are under way decide what the daemon will know of a  *)
(* window once it has handled them.  Either the last call about the window  *)
(* says what the script has tracked, or says that it is gone, or a snapshot *)
(* that does not name it is still to end, or the daemon knows already.      *)
EXTENDS TheaterMode, DaemonProofs, FiniteSetTheorems, SequenceTheorems

(* A call about a window carries what the script saw of it. *)
Call ==
  [method : {"WindowOpened", "WindowChanged"}, id : DesktopIds,
   output : Outputs \cup {Unnamed}, fullscreen : BOOLEAN]
  \cup [method : {"WindowClosed"}, id : DesktopIds]
  \cup [method : {"SnapshotBegin"}, screens : PlugSets]
  \cup [method : {"SnapshotEnd"}]

Names(call, id) ==
  /\ call.method \in {"WindowOpened", "WindowChanged", "WindowClosed"}
  /\ call.id = id

(* The script has tracked id as w says. *)
TrackedAs(id, w) ==
  id \in DOMAIN tracked /\ tracked[id] = Script!Look(w)

-----------------------------------------------------------------------------
(* The inductive invariant *)

(* The script hears of every window it tracks, and tracks it as it is.      *)
ScriptOK ==
  /\ IsFiniteSet(DOMAIN desktop) /\ DOMAIN desktop \subseteq DesktopIds
  /\ \A id \in DOMAIN desktop : desktop[id] \in Script!KWinWindow
  /\ displays \in PlugSets
  /\ listening \subseteq DOMAIN desktop
  /\ watched \subseteq listening
  /\ DOMAIN tracked \subseteq listening
  /\ \A id \in DOMAIN tracked : TrackedAs(id, desktop[id])
  /\ calls \in Seq(Call)

(* From the call at that place on. *)
Silent(id, from) == \A i \in from .. Len(calls) : ~Names(calls[i], id)

PassEnds(from) ==
  \E i \in from .. Len(calls) : calls[i].method = "SnapshotEnd"

PassComes(from) ==
  \E i \in from .. Len(calls) :
    calls[i].method = "SnapshotBegin" /\ PassEnds(i + 1)

(* What comes of the last call about a window, and of a window that no call *)
(* is about: it goes, or it is as the script has tracked it.                *)
LastCallOK(id, i) ==
  \/ calls[i].method = "WindowClosed"
  \/ PassComes(i + 1)
  \/ TrackedAs(id, calls[i])

KnownOK(id) ==
  \/ id \notin DOMAIN windows
  \/ PassComes(1)
  \/ inPass /\ id \notin seen /\ PassEnds(1)
  \/ TrackedAs(id, windows[id])

Foretold(id) ==
  \/ \E i \in 1 .. Len(calls) :
       Names(calls[i], id) /\ Silent(id, i + 1) /\ LastCallOK(id, i)
  \/ Silent(id, 1) /\ KnownOK(id)

CallsOK == up => \A id \in DesktopIds : Foretold(id)

(* The daemon takes the windows for games that are.                         *)
GamesOK ==
  /\ DOMAIN windows \subseteq DesktopIds
  /\ \A id \in DOMAIN windows : windows[id].game <=> id \in GameIds

(* A daemon that is not there knows nothing. *)
DownOK ==
  /\ up \in BOOLEAN
  /\ ~up => /\ DOMAIN windows = {} /\ ~inPass
            /\ active = NoOutput /\ ~restoreTimer

SystemIInv == IInv /\ ScriptOK /\ CallsOK /\ GamesOK /\ DownOK

-----------------------------------------------------------------------------
(* A call that the daemon handles *)

(* What the handler of a call makes of one window. *)
LEMMA HandlerEffect ==
  ASSUME NEW call \in Call, Handled(call), NEW id
  PROVE  /\ ~Names(call, id) =>
              /\ id \in DOMAIN windows' =>
                   id \in DOMAIN windows /\ windows'[id] = windows[id]
              /\ id \notin seen => id \notin seen'
         /\ call.method = "SnapshotBegin" => inPass' /\ id \notin seen'
         /\ call.method = "SnapshotEnd" /\ inPass /\ id \notin seen =>
              id \notin DOMAIN windows'
         /\ call.method # "SnapshotEnd" /\ inPass => inPass'
         /\ Names(call, id) =>
              /\ call.method = "WindowClosed" => id \notin DOMAIN windows'
              /\ call.method # "WindowClosed" /\ id \in DOMAIN windows' =>
                   Script!Look(windows'[id]) = Script!Look(call)
<1>1. CASE call.method = "WindowOpened"
  <2>1. PICK ident \in Idents :
          WindowOpened(call.id, ident, call.output, call.fullscreen,
                       call.id \in GameIds)
    BY <1>1 DEF Handled
  <2> DEFINE known == call.id \in Tracked /\ windows[call.id].ident = ident
             w == [ident |-> ident, output |-> call.output,
                   fullscreen |-> call.fullscreen,
                   game |-> IF known THEN windows[call.id].game
                                     ELSE call.id \in GameIds]
  <2>2. /\ windows' = Put(windows, call.id, w)
        /\ seen' = IF inPass THEN seen \cup {call.id} ELSE seen
        /\ inPass' = inPass
    BY <2>1 DEF WindowOpened, Track
  <2>3. Script!Look(w) = Script!Look(call)
    BY DEF Script!Look
  <2> HIDE DEF w
  <2> QED
    BY <1>1, <2>2, <2>3 DEF Put, Names
<1>2. CASE call.method = "WindowChanged"
  <2>1. CASE WindowChanged(call.id, call.output, call.fullscreen)
    <3> DEFINE w == [windows[call.id] EXCEPT !.output = call.output,
                                             !.fullscreen = call.fullscreen]
    <3>1. /\ windows' = Put(windows, call.id, w)
          /\ seen' = seen /\ inPass' = inPass
      BY <2>1 DEF WindowChanged, Track, pass
    <3> QED
      BY <1>2, <3>1 DEF Put, Names, Script!Look
  <2>2. CASE call.id \notin DOMAIN windows /\ UNCHANGED vars
    <3>1. windows' = windows /\ seen' = seen /\ inPass' = inPass
      BY <2>2 DEF vars, tracking, pass
    <3> QED
      BY <1>2, <2>2, <3>1 DEF Names
  <2> QED
    BY <1>2, <2>1, <2>2 DEF Handled
<1>3. CASE call.method = "WindowClosed"
  <2>1. /\ windows' = Keep(windows, Tracked \ {call.id})
        /\ seen' = seen /\ inPass' = inPass
    BY <1>3 DEF Handled, WindowClosed, pass
  <2> QED
    BY <1>3, <2>1 DEF Keep, Names
<1>4. CASE call.method = "SnapshotBegin"
  <2>1. windows' = windows /\ seen' = {} /\ inPass' = TRUE
    BY <1>4 DEF Handled, SnapshotBegin, tracking
  <2> QED
    BY <1>4, <2>1 DEF Names
<1>5. CASE call.method = "SnapshotEnd"
  <2>1. CASE SnapshotEnd
    <3>1. windows' = Keep(windows, seen) /\ seen' = {}
      BY <2>1 DEF SnapshotEnd
    <3> QED
      BY <1>5, <3>1 DEF Keep, Names
  <2>2. CASE ~inPass /\ UNCHANGED vars
    <3>1. windows' = windows /\ seen' = seen /\ inPass' = inPass
      BY <2>2 DEF vars, tracking, pass
    <3> QED
      BY <1>5, <2>2, <3>1 DEF Names
  <2> QED
    BY <1>5, <2>1, <2>2 DEF Handled
<1>6. call.method \in {"WindowOpened", "WindowChanged", "WindowClosed",
                       "SnapshotBegin", "SnapshotEnd"}
  BY DEF Call
<1> QED
  BY <1>1, <1>2, <1>3, <1>4, <1>5, <1>6

(* The calls after the first. *)
LEMMA TailOfCalls ==
  ASSUME calls \in Seq(Call), calls # <<>>, calls' = Tail(calls)
  PROVE  /\ Len(calls) \in Nat \ {0} /\ Len(calls') = Len(calls) - 1
         /\ \A i \in 1 .. Len(calls') : calls'[i] = calls[i + 1]
         /\ Head(calls) = calls[1] /\ Head(calls) \in Call
         /\ calls' \in Seq(Call)
BY HeadTailProperties, EmptySeq

(* What is foretold comes true as the calls are handled. *)
LEMMA HandledForetold ==
  ASSUME calls \in Seq(Call), calls # <<>>, calls' = Tail(calls),
         Handled(Head(calls)), tracked' = tracked, NEW id, Foretold(id)
  PROVE  Foretold(id)'
<1> DEFINE call == calls[1]
<1>1. /\ Len(calls) \in Nat \ {0} /\ Len(calls') = Len(calls) - 1
      /\ \A i \in 1 .. Len(calls') : calls'[i] = calls[i + 1]
      /\ call \in Call /\ Handled(call)
  BY TailOfCalls
<1> HIDE DEF call
<1>2. \A from \in Nat \ {0} :
        /\ Silent(id, from + 1) => Silent(id, from)'
        /\ PassEnds(from + 1) => PassEnds(from)'
  <2> SUFFICES ASSUME NEW from \in Nat \ {0}
               PROVE  /\ Silent(id, from + 1) => Silent(id, from)'
                      /\ PassEnds(from + 1) => PassEnds(from)'
    OBVIOUS
  <2>1. Silent(id, from + 1) => Silent(id, from)'
    BY <1>1 DEF Silent, Names
  <2>2. ASSUME PassEnds(from + 1)
        PROVE  PassEnds(from)'
    <3>1. PICK k \in (from + 1) .. Len(calls) : calls[k].method = "SnapshotEnd"
      BY <2>2 DEF PassEnds
    <3>2. k - 1 \in from .. Len(calls') /\ calls'[k - 1] = calls[k]
      BY <1>1, <3>1
    <3> QED
      BY <3>1, <3>2 DEF PassEnds
  <2> QED
    BY <2>1, <2>2
<1>3. ASSUME NEW from \in Nat \ {0}, PassComes(from + 1)
      PROVE  PassComes(from)'
  <2>1. PICK k \in (from + 1) .. Len(calls) :
          calls[k].method = "SnapshotBegin" /\ PassEnds(k + 1)
    BY <1>3 DEF PassComes
  <2>2. /\ k - 1 \in from .. Len(calls') /\ calls'[k - 1] = calls[k]
        /\ k \in Nat \ {0} /\ (k - 1) + 1 = k
    BY <1>1, <2>1
  <2>3. PassEnds((k - 1) + 1)'
    BY <1>2, <2>1, <2>2
  <2> QED
    BY <2>1, <2>2, <2>3 DEF PassComes
<1>4. \A w : TrackedAs(id, w) => TrackedAs(id, w)'
  BY DEF TrackedAs, Script!Look
<1>5. ASSUME NEW i \in 1 .. Len(calls), i # 1,
             Names(calls[i], id), Silent(id, i + 1), LastCallOK(id, i)
      PROVE  Foretold(id)'
  <2>1. /\ i - 1 \in 1 .. Len(calls') /\ calls'[i - 1] = calls[i]
        /\ i \in Nat \ {0} /\ (i - 1) + 1 = i
    BY <1>1, <1>5
  <2>2. Silent(id, (i - 1) + 1)'
    BY <1>2, <1>5, <2>1
  <2>3. LastCallOK(id, i - 1)'
    BY <1>3, <1>5, <2>1 DEF LastCallOK, TrackedAs
  <2>4. Names(calls[i - 1], id)'
    BY <1>5, <2>1 DEF Names
  <2> QED
    BY <2>1, <2>2, <2>3, <2>4 DEF Foretold
<1>6. CASE Names(call, id) /\ Silent(id, 2) /\ LastCallOK(id, 1)
  <2>1. Silent(id, 1)'
    BY <1>2, <1>6
  <2>2. CASE call.method = "WindowClosed"
    BY <1>1, <1>6, <2>1, <2>2, HandlerEffect DEF Foretold, KnownOK
  <2>3. CASE PassComes(2)
    BY <1>3, <2>1, <2>3 DEF Foretold, KnownOK
  <2>4. CASE TrackedAs(id, call) /\ call.method # "WindowClosed"
    <3>1. id \in DOMAIN windows' => TrackedAs(id, windows[id])'
      BY <1>1, <1>6, <2>4, HandlerEffect DEF TrackedAs
    <3> QED
      BY <2>1, <3>1 DEF Foretold, KnownOK
  <2> QED
    BY <1>6, <2>2, <2>3, <2>4 DEF LastCallOK, call
<1>7. CASE Silent(id, 1) /\ KnownOK(id)
  <2>1. ~Names(call, id) /\ Silent(id, 2)
    BY <1>1, <1>7 DEF Silent, call
  <2>2. Silent(id, 1)'
    BY <1>2, <2>1
  <2>3. id \in DOMAIN windows' =>
          id \in DOMAIN windows /\ windows'[id] = windows[id]
    BY <1>1, <2>1, HandlerEffect
  <2>4. CASE PassComes(1)
    <3>1. PICK k \in 1 .. Len(calls) :
            calls[k].method = "SnapshotBegin" /\ PassEnds(k + 1)
      BY <2>4 DEF PassComes
    <3>2. CASE k = 1
      <4>1. inPass' /\ id \notin seen' /\ PassEnds(1)'
        BY <1>1, <1>2, <3>1, <3>2, HandlerEffect DEF call
      <4> QED
        BY <2>2, <4>1 DEF Foretold, KnownOK
    <3>3. CASE k # 1
      <4>1. PassComes(2)
        BY <1>1, <3>1, <3>3 DEF PassComes
      <4> QED
        BY <1>3, <2>2, <4>1 DEF Foretold, KnownOK
    <3> QED
      BY <3>2, <3>3
  <2>5. CASE inPass /\ id \notin seen /\ PassEnds(1)
    <3>1. CASE call.method = "SnapshotEnd"
      BY <1>1, <2>2, <2>5, <3>1, HandlerEffect DEF Foretold, KnownOK
    <3>2. CASE call.method # "SnapshotEnd"
      <4>1. PassEnds(2)
        BY <1>1, <2>5, <3>2 DEF PassEnds, call
      <4>2. inPass' /\ id \notin seen'
        BY <1>1, <2>1, <2>5, <3>2, HandlerEffect
      <4> QED
        BY <1>2, <2>2, <4>1, <4>2 DEF Foretold, KnownOK
    <3> QED
      BY <3>1, <3>2
  <2>6. CASE id \notin DOMAIN windows
    BY <2>2, <2>3, <2>6 DEF Foretold, KnownOK
  <2>7. CASE TrackedAs(id, windows[id])
    <3>1. id \in DOMAIN windows' => TrackedAs(id, windows[id])'
      BY <2>3, <2>7 DEF TrackedAs
    <3> QED
      BY <2>2, <3>1 DEF Foretold, KnownOK
  <2> QED
    BY <1>7, <2>4, <2>5, <2>6, <2>7 DEF KnownOK
<1> QED
  BY <1>5, <1>6, <1>7 DEF Foretold, call

-----------------------------------------------------------------------------
(* Calls that the script makes *)

(* The calls under way stay where they are. *)
LEMMA MoreCalls ==
  ASSUME calls \in Seq(Call), NEW new \in Seq(Call), calls' = calls \o new
  PROVE  /\ Len(calls) \in Nat /\ Len(new) \in Nat
         /\ Len(calls') = Len(calls) + Len(new)
         /\ \A i \in 1 .. Len(calls) : calls'[i] = calls[i]
         /\ \A k \in 1 .. Len(new) : calls'[Len(calls) + k] = new[k]
         /\ calls' \in Seq(Call)
<1>1. Len(calls) \in Nat /\ Len(new) \in Nat
  OBVIOUS
<1>2. /\ Len(calls') = Len(calls) + Len(new)
      /\ \A i \in 1 .. (Len(calls) + Len(new)) :
           calls'[i] = IF i <= Len(calls) THEN calls[i]
                                          ELSE new[i - Len(calls)]
      /\ calls' \in Seq(Call)
  BY ConcatProperties
<1>3. ASSUME NEW k \in 1 .. Len(new)
      PROVE  calls'[Len(calls) + k] = new[k]
  <2>1. /\ Len(calls) + k \in 1 .. (Len(calls) + Len(new))
        /\ ~(Len(calls) + k <= Len(calls))
        /\ (Len(calls) + k) - Len(calls) = k
    BY <1>1
  <2> QED
    BY <1>2, <2>1
<1> QED
  BY <1>1, <1>2, <1>3

(* The last of the new calls about a window that says what the script now   *)
(* tracks, or that the window is gone.                                      *)
LEMMA NamedForetold ==
  ASSUME calls \in Seq(Call), NEW new \in Seq(Call), calls' = calls \o new,
         NEW id, NEW k \in 1 .. Len(new), Names(new[k], id),
         \A m \in (k + 1) .. Len(new) : ~Names(new[m], id),
         new[k].method = "WindowClosed" \/ TrackedAs(id, new[k])'
  PROVE  Foretold(id)'
<1> PICK i : i = Len(calls) + k
  OBVIOUS
<1>1. /\ i \in 1 .. Len(calls') /\ calls'[i] = new[k]
  BY MoreCalls
<1>2. Silent(id, i + 1)'
  <2> SUFFICES ASSUME NEW m \in (i + 1) .. Len(calls')
               PROVE  ~Names(calls'[m], id)
    BY DEF Silent, Names
  <2>1. /\ m - Len(calls) \in (k + 1) .. Len(new)
        /\ m - Len(calls) \in 1 .. Len(new)
        /\ Len(calls) + (m - Len(calls)) = m
    BY MoreCalls
  <2>2. calls'[Len(calls) + (m - Len(calls))] = new[m - Len(calls)]
    BY <2>1, MoreCalls
  <2> QED
    BY <2>1, <2>2
<1>3. calls'[i].method = "WindowClosed" \/ TrackedAs(id, calls[i])'
  BY <1>1 DEF TrackedAs
<1> QED
  BY <1>1, <1>2, <1>3 DEF Foretold, LastCallOK, Names

(* New calls that are not about a window leave it as it is, as long as the  *)
(* script still tracks it, or bring a snapshot that does not name it.       *)
LEMMA UnnamedForetold ==
  ASSUME calls \in Seq(Call), NEW new \in Seq(Call), calls' = calls \o new,
         UNCHANGED <<windows, inPass, seen>>, NEW id, Foretold(id),
         \A m \in 1 .. Len(new) : ~Names(new[m], id),
         \/ id \in DOMAIN tracked =>
              id \in DOMAIN tracked' /\ tracked'[id] = tracked[id]
         \/ \E j \in 1 .. Len(new) : \E k \in (j + 1) .. Len(new) :
              new[j].method = "SnapshotBegin" /\ new[k].method = "SnapshotEnd"
  PROVE  Foretold(id)'
<1>1. /\ Len(calls) \in Nat /\ Len(new) \in Nat
      /\ Len(calls') = Len(calls) + Len(new)
      /\ \A i \in 1 .. Len(calls) : calls'[i] = calls[i]
      /\ \A k \in 1 .. Len(new) : calls'[Len(calls) + k] = new[k]
  BY MoreCalls
<1>2. ASSUME NEW from \in Nat \ {0}, Silent(id, from)
      PROVE  Silent(id, from)'
  <2> SUFFICES ASSUME NEW m \in from .. Len(calls')
               PROVE  ~Names(calls'[m], id)
    BY DEF Silent, Names
  <2>1. CASE m <= Len(calls)
    BY <1>1, <1>2, <2>1 DEF Silent
  <2>2. CASE m > Len(calls)
    <3>1. /\ m - Len(calls) \in 1 .. Len(new)
          /\ Len(calls) + (m - Len(calls)) = m
      BY <1>1, <2>2
    <3>2. calls'[Len(calls) + (m - Len(calls))] = new[m - Len(calls)]
      BY <1>1, <3>1
    <3> QED
      BY <3>1, <3>2
  <2> QED
    BY <1>1, <2>1, <2>2
<1>3. ASSUME NEW from \in Nat \ {0}, PassEnds(from)
      PROVE  PassEnds(from)'
  BY <1>1, <1>3 DEF PassEnds
<1>4. ASSUME NEW from \in Nat \ {0}, PassComes(from)
      PROVE  PassComes(from)'
  <2>1. PICK k \in from .. Len(calls) :
          calls[k].method = "SnapshotBegin" /\ PassEnds(k + 1)
    BY <1>4 DEF PassComes
  <2>2. /\ k \in from .. Len(calls') /\ calls'[k] = calls[k]
        /\ k + 1 \in Nat \ {0}
    BY <1>1, <2>1
  <2>3. PassEnds(k + 1)'
    BY <1>3, <2>1, <2>2
  <2> QED
    BY <2>1, <2>2, <2>3 DEF PassComes
<1>5. ASSUME NEW j \in 1 .. Len(new), NEW k \in (j + 1) .. Len(new),
             new[j].method = "SnapshotBegin", new[k].method = "SnapshotEnd",
             NEW from \in 1 .. (Len(calls) + 1)
      PROVE  PassComes(from)'
  <2> PICK begin, end : begin = Len(calls) + j /\ end = Len(calls) + k
    OBVIOUS
  <2>1. /\ begin \in from .. Len(calls') /\ end \in (begin + 1) .. Len(calls')
        /\ k \in 1 .. Len(new)
    BY <1>1
  <2>2. /\ calls'[begin].method = "SnapshotBegin"
        /\ calls'[end].method = "SnapshotEnd"
    BY <1>1, <1>5, <2>1
  <2>3. PassEnds(begin + 1)'
    BY <2>1, <2>2 DEF PassEnds
  <2> QED
    BY <2>1, <2>2, <2>3 DEF PassComes
<1> DEFINE kept   == id \in DOMAIN tracked =>
                       id \in DOMAIN tracked' /\ tracked'[id] = tracked[id]
           passes == \A from \in 1 .. (Len(calls) + 1) : PassComes(from)'
<1>6. kept \/ passes
  BY <1>5
<1>7. \A w : kept /\ TrackedAs(id, w) =>
              id \in DOMAIN tracked' /\ tracked'[id] = Script!Look(w)
  BY DEF TrackedAs
<1> HIDE DEF kept, passes
<1>8. ASSUME NEW i \in 1 .. Len(calls), Names(calls[i], id),
             Silent(id, i + 1), LastCallOK(id, i)
      PROVE  Foretold(id)'
  <2>1. /\ i \in 1 .. Len(calls') /\ calls'[i] = calls[i]
        /\ i + 1 \in Nat \ {0} /\ i + 1 \in 1 .. (Len(calls) + 1)
    BY <1>1
  <2>2. Silent(id, i + 1)'
    BY <1>2, <1>8, <2>1
  <2>3. CASE kept
    <3>1. TrackedAs(id, calls[i]) => TrackedAs(id, calls[i])'
      BY <1>7, <2>1, <2>3 DEF TrackedAs
    <3>2. LastCallOK(id, i)'
      BY <1>4, <1>8, <2>1, <3>1 DEF LastCallOK, TrackedAs
    <3> QED
      BY <1>8, <2>1, <2>2, <3>2 DEF Foretold, Names
  <2>4. CASE passes
    <3>1. PassComes(i + 1)'
      BY <2>1, <2>4 DEF passes
    <3> QED
      BY <1>8, <2>1, <2>2, <3>1 DEF Foretold, LastCallOK, Names
  <2> QED
    BY <1>6, <2>3, <2>4
<1>9. CASE Silent(id, 1) /\ KnownOK(id)
  <2>1. Silent(id, 1)'
    BY <1>2, <1>9, 1 \in Nat \ {0}
  <2>2. CASE kept
    <3>1. TrackedAs(id, windows[id]) => TrackedAs(id, windows[id])'
      BY <1>7, <2>2 DEF TrackedAs
    <3> QED
      BY <1>3, <1>4, <1>9, <2>1, <3>1 DEF Foretold, KnownOK
  <2>3. CASE passes
    BY <1>1, <2>1, <2>3 DEF Foretold, KnownOK, passes
  <2> QED
    BY <1>6, <2>2, <2>3
<1> QED
  BY <1>8, <1>9 DEF Foretold

(* A callback that makes one call, about the window it is for. *)
LEMMA OneCallForetold ==
  ASSUME CallsOK, calls \in Seq(Call), UNCHANGED <<windows, inPass, seen, up>>,
         NEW id \in DesktopIds, NEW call \in Call, Names(call, id),
         calls' = Append(calls, call),
         \A other \in DOMAIN tracked \ {id} :
           other \in DOMAIN tracked' /\ tracked'[other] = tracked[other],
         call.method = "WindowClosed" \/ TrackedAs(id, call)'
  PROVE  CallsOK' /\ calls' \in Seq(Call)
<1>1. PICK new : new = <<call>>
  OBVIOUS
<1>2. /\ new \in Seq(Call) /\ Len(new) = 1 /\ new[1] = call
      /\ calls' = calls \o new
  BY <1>1, AppendIsConcat
<1>3. calls' \in Seq(Call)
  BY <1>2, MoreCalls
<1>4. ASSUME up, NEW other \in DesktopIds
      PROVE  Foretold(other)'
  <2>1. CASE other = id
    <3>1. new[1].method = "WindowClosed" \/ TrackedAs(id, new[1])'
      BY <1>2 DEF TrackedAs
    <3>2. 1 \in 1 .. Len(new) /\ Names(new[1], id)
          /\ \A m \in (1 + 1) .. Len(new) : ~Names(new[m], id)
      BY <1>2
    <3> QED
      BY <1>2, <2>1, <3>1, <3>2, NamedForetold
  <2>2. CASE other # id
    <3>1. \A m \in 1 .. Len(new) : ~Names(new[m], other)
      BY <1>2, <2>2 DEF Names
    <3>2. other \in DOMAIN tracked =>
            other \in DOMAIN tracked' /\ tracked'[other] = tracked[other]
      BY <2>2
    <3>3. Foretold(other)
      BY <1>4 DEF CallsOK
    <3> QED
      BY <1>2, <3>1, <3>2, <3>3, UnnamedForetold
  <2> QED
    BY <2>1, <2>2
<1> QED
  BY <1>3, <1>4 DEF CallsOK

(* The daemon may forget windows, but not without being told of them.       *)
LEMMA NothingSaid ==
  ASSUME CallsOK, UNCHANGED <<calls, tracked, inPass, seen, up>>,
         windows' = windows \/ DOMAIN windows' = {}
  PROVE  CallsOK'
<1>1. ASSUME up, NEW id \in DesktopIds
      PROVE  Foretold(id)'
  <2>1. Foretold(id)
    BY <1>1 DEF CallsOK
  <2>2. /\ \A i : Silent(id, i) => Silent(id, i)'
        /\ \A i : LastCallOK(id, i) => LastCallOK(id, i)'
        /\ PassComes(1) => PassComes(1)'
        /\ PassEnds(1) => PassEnds(1)'
    BY DEF Silent, LastCallOK, PassComes, PassEnds, TrackedAs, Names,
           Script!Look
  <2>3. KnownOK(id) => KnownOK(id)'
    BY <2>2 DEF KnownOK, TrackedAs, Script!Look
  <2> QED
    BY <2>1, <2>2, <2>3 DEF Foretold, Names
<1> QED
  BY <1>1 DEF CallsOK

(* The calls as the script makes them. *)
LEMMA CallsAreCalls ==
  ASSUME NEW id \in DesktopIds, NEW w \in Script!KWinWindow,
         NEW method \in {"WindowOpened", "WindowChanged"}
  PROVE  /\ Script!CallAbout(method, id, w) \in Call
         /\ Script!CallAbout(method, id, w).method = method
         /\ Names(Script!CallAbout(method, id, w), id)
         /\ Script!Look(Script!CallAbout(method, id, w)) = Script!Look(w)
         /\ [method |-> "WindowClosed", id |-> id] \in Call
         /\ Names([method |-> "WindowClosed", id |-> id], id)
BY DEF Script!CallAbout, Script!Look, Script!KWinWindow, Call, Names

(* workspace.windowAdded: the window is announced if the script tracks it.  *)
LEMMA WindowAddedPreserves ==
  ASSUME ScriptOK, CallsOK, NEW id \in DesktopIds, NEW w \in Looks,
         Script!WindowAdded(id, w), UNCHANGED <<windows, inPass, seen, up>>
  PROVE  ScriptOK' /\ CallsOK'
<1>1. /\ w \in Script!KWinWindow /\ id \notin DOMAIN desktop
      /\ desktop' = [v \in DOMAIN desktop \cup {id} |->
                       IF v = id THEN w ELSE desktop[v]]
      /\ displays' = displays
  BY TheaterModeAssumption DEF Script!WindowAdded
<1>2. /\ IsFiniteSet(DOMAIN desktop') /\ DOMAIN desktop' \subseteq DesktopIds
      /\ DOMAIN desktop \subseteq DOMAIN desktop' /\ id \in DOMAIN desktop'
      /\ \A v \in DOMAIN desktop' : desktop'[v] \in Script!KWinWindow
      /\ desktop'[id] = w
      /\ \A v \in DOMAIN desktop : desktop'[v] = desktop[v]
  BY <1>1, FS_AddElement DEF ScriptOK
<1>3. CASE ~w.candidate
  <2>1. UNCHANGED <<tracked, watched, listening, calls>>
    BY <1>3 DEF Script!WindowAdded, Script!Becomes, Script!Now
  <2>2. ScriptOK'
    BY <1>1, <1>2, <2>1 DEF ScriptOK, TrackedAs
  <2> QED
    BY <2>1, <2>2, NothingSaid
<1>4. CASE w.candidate
  <2> DEFINE call == Script!CallAbout("WindowOpened", id, w)
  <2>1. /\ tracked' = [v \in DOMAIN tracked \cup {id} |->
                         IF v = id THEN Script!Look(w) ELSE tracked[v]]
        /\ calls' = Append(calls, call)
        /\ watched' \subseteq watched \cup {id}
        /\ listening' = IF id \in watched THEN listening
                                          ELSE listening \cup {id}
    BY <1>4
    DEF Script!WindowAdded, Script!Becomes, Script!Now, Script!Watch,
        Script!AnnounceOpened, Script!Noted
  <2>2. id \notin watched
    BY <1>1 DEF ScriptOK
  <2>3. /\ call \in Call /\ Names(call, id)
        /\ Script!Look(call) = Script!Look(w)
    BY <1>1, CallsAreCalls
  <2> HIDE DEF call
  <2>4. TrackedAs(id, call)'
    BY <2>1, <2>3 DEF TrackedAs
  <2>5. CallsOK' /\ calls' \in Seq(Call)
    <3>1. \A other \in DOMAIN tracked \ {id} :
            other \in DOMAIN tracked' /\ tracked'[other] = tracked[other]
      BY <2>1
    <3> QED
      BY <2>1, <2>3, <2>4, <3>1, OneCallForetold DEF ScriptOK
  <2>6. ScriptOK'
    BY <1>1, <1>2, <2>1, <2>2, <2>5 DEF ScriptOK, TrackedAs
  <2> QED
    BY <2>5, <2>6
<1> QED
  BY <1>3, <1>4

(* workspace.windowRemoved: a window that was tracked is said to be gone.   *)
LEMMA WindowRemovedPreserves ==
  ASSUME ScriptOK, CallsOK, NEW id \in DesktopIds,
         Script!WindowRemoved(id), UNCHANGED <<windows, inPass, seen, up>>
  PROVE  ScriptOK' /\ CallsOK'
<1>1. /\ id \in DOMAIN desktop
      /\ desktop' = [v \in DOMAIN desktop \ {id} |-> desktop[v]]
      /\ displays' = displays
      /\ watched' = watched \ {id} /\ listening' = listening \ {id}
  BY DEF Script!WindowRemoved, Script!Becomes, Script!Now,
         Script!AnnounceClosed
<1>2. /\ IsFiniteSet(DOMAIN desktop') /\ DOMAIN desktop' \subseteq DesktopIds
      /\ \A v \in DOMAIN desktop' : desktop'[v] \in Script!KWinWindow
      /\ \A v \in DOMAIN desktop \ {id} :
           v \in DOMAIN desktop' /\ desktop'[v] = desktop[v]
  BY <1>1, FS_RemoveElement DEF ScriptOK
<1>3. CASE id \notin DOMAIN tracked
  <2>1. UNCHANGED <<tracked, calls>>
    BY <1>3
    DEF Script!WindowRemoved, Script!Becomes, Script!Now,
        Script!AnnounceClosed
  <2>2. ScriptOK'
    BY <1>1, <1>2, <1>3, <2>1 DEF ScriptOK, TrackedAs
  <2> QED
    BY <2>1, <2>2, NothingSaid
<1>4. CASE id \in DOMAIN tracked
  <2> DEFINE call == [method |-> "WindowClosed", id |-> id]
  <2>1. /\ tracked' = [v \in DOMAIN tracked \ {id} |-> tracked[v]]
        /\ calls' = Append(calls, call)
    BY <1>4
    DEF Script!WindowRemoved, Script!Becomes, Script!Now,
        Script!AnnounceClosed, Script!WithoutId
  <2>2. call \in Call /\ Names(call, id) /\ call.method = "WindowClosed"
    BY DEF Call, Names
  <2> HIDE DEF call
  <2>3. CallsOK' /\ calls' \in Seq(Call)
    <3>1. \A other \in DOMAIN tracked \ {id} :
            other \in DOMAIN tracked' /\ tracked'[other] = tracked[other]
      BY <2>1
    <3> QED
      BY <2>1, <2>2, <3>1, OneCallForetold DEF ScriptOK
  <2>4. ScriptOK'
    BY <1>1, <1>2, <2>1, <2>3 DEF ScriptOK, TrackedAs
  <2> QED
    BY <2>3, <2>4
<1> QED
  BY <1>3, <1>4

(* A window's output or full screen changes: told if it is tracked and the  *)
(* script listens.                                                          *)
LEMMA WindowMovedPreserves ==
  ASSUME ScriptOK, CallsOK, NEW id \in DesktopIds, NEW w \in Looks,
         Script!WindowMoved(id, w), UNCHANGED <<windows, inPass, seen, up>>
  PROVE  ScriptOK' /\ CallsOK'
<1>1. /\ w \in Script!KWinWindow /\ id \in DOMAIN desktop
      /\ Script!Look(w) # Script!Look(desktop[id])
      /\ desktop' = [desktop EXCEPT ![id] = w]
      /\ displays' = displays
  BY TheaterModeAssumption DEF Script!WindowMoved
<1>2. /\ DOMAIN desktop' = DOMAIN desktop
      /\ \A v \in DOMAIN desktop' : desktop'[v] \in Script!KWinWindow
      /\ desktop'[id] = w
      /\ \A v \in DOMAIN desktop \ {id} : desktop'[v] = desktop[v]
  BY <1>1 DEF ScriptOK
<1>3. CASE id \notin listening
  <2>1. UNCHANGED <<tracked, watched, listening, calls>>
    BY <1>3 DEF Script!WindowMoved, Script!Becomes, Script!Now
  <2>2. ScriptOK'
    BY <1>1, <1>2, <1>3, <2>1 DEF ScriptOK, TrackedAs
  <2> QED
    BY <2>1, <2>2, NothingSaid
<1>4. CASE id \in listening
  <2>1. Script!Becomes(Script!AnnounceChanged(Script!Now, id, w))
    BY <1>4 DEF Script!WindowMoved
  <2>2. CASE ~w.candidate /\ id \notin DOMAIN tracked
    <3>1. /\ UNCHANGED <<tracked, listening, calls>>
          /\ watched' = watched \ {id}
      BY <2>1, <2>2
      DEF Script!AnnounceChanged, Script!AnnounceClosed, Script!Becomes,
          Script!Now
    <3>2. ScriptOK'
      BY <1>1, <1>2, <2>2, <3>1 DEF ScriptOK, TrackedAs
    <3> QED
      BY <3>1, <3>2, NothingSaid
  <2>3. CASE ~w.candidate /\ id \in DOMAIN tracked
    <3> DEFINE call == [method |-> "WindowClosed", id |-> id]
    <3>1. /\ tracked' = [v \in DOMAIN tracked \ {id} |-> tracked[v]]
          /\ calls' = Append(calls, call)
          /\ watched' = watched \ {id} /\ listening' = listening
      BY <2>1, <2>3
      DEF Script!AnnounceChanged, Script!AnnounceClosed, Script!WithoutId,
          Script!Becomes, Script!Now
    <3>2. call \in Call /\ Names(call, id) /\ call.method = "WindowClosed"
      BY DEF Call, Names
    <3> HIDE DEF call
    <3>3. CallsOK' /\ calls' \in Seq(Call)
      <4>1. \A other \in DOMAIN tracked \ {id} :
              other \in DOMAIN tracked' /\ tracked'[other] = tracked[other]
        BY <3>1
      <4> QED
        BY <3>1, <3>2, <4>1, OneCallForetold DEF ScriptOK
    <3>4. ScriptOK'
      BY <1>1, <1>2, <3>1, <3>3 DEF ScriptOK, TrackedAs
    <3> QED
      BY <3>3, <3>4
  <2>4. CASE w.candidate
    <3>1. id \in DOMAIN tracked => tracked[id] # Script!Look(w)
      BY <1>1 DEF ScriptOK, TrackedAs
    <3>2. PICK method \in {"WindowOpened", "WindowChanged"} :
            /\ tracked' = [v \in DOMAIN tracked \cup {id} |->
                             IF v = id THEN Script!Look(w) ELSE tracked[v]]
            /\ calls' = Append(calls, Script!CallAbout(method, id, w))
            /\ watched' = watched /\ listening' = listening
      BY <2>1, <2>4, <3>1
      DEF Script!AnnounceChanged, Script!AnnounceOpened, Script!Noted,
          Script!Becomes, Script!Now
    <3> DEFINE call == Script!CallAbout(method, id, w)
    <3>3. /\ call \in Call /\ Names(call, id)
          /\ Script!Look(call) = Script!Look(w)
      BY <1>1, CallsAreCalls
    <3> HIDE DEF call
    <3>4. TrackedAs(id, call)'
      BY <3>2, <3>3 DEF TrackedAs
    <3>5. CallsOK' /\ calls' \in Seq(Call)
      <4>1. \A other \in DOMAIN tracked \ {id} :
              other \in DOMAIN tracked' /\ tracked'[other] = tracked[other]
        BY <3>2
      <4>2. calls' = Append(calls, call)
        BY <3>2 DEF call
      <4> QED
        BY <3>3, <3>4, <4>1, <4>2, OneCallForetold DEF ScriptOK
    <3>6. ScriptOK'
      BY <1>1, <1>2, <1>4, <3>2, <3>5 DEF ScriptOK, TrackedAs
    <3> QED
      BY <3>5, <3>6
  <2> QED
    BY <2>2, <2>3, <2>4
<1> QED
  BY <1>3, <1>4

(* The change without a signal: the script says nothing, and knows nothing  *)
(* of it.                                                                   *)
LEMMA CandidacyChangedPreserves ==
  ASSUME ScriptOK, CallsOK, NEW id \in DesktopIds,
         Script!CandidacyChanged(id), UNCHANGED <<windows, inPass, seen, up>>
  PROVE  ScriptOK' /\ CallsOK'
<1>1. /\ id \in DOMAIN desktop
      /\ desktop' = [desktop EXCEPT ![id].candidate = ~@]
      /\ UNCHANGED <<displays, tracked, watched, listening, calls>>
  BY DEF Script!CandidacyChanged, Script!script
<1>2. /\ DOMAIN desktop' = DOMAIN desktop
      /\ \A v \in DOMAIN desktop' : desktop'[v] \in Script!KWinWindow
      /\ \A v \in DOMAIN desktop :
           Script!Look(desktop'[v]) = Script!Look(desktop[v])
  BY <1>1 DEF ScriptOK, Script!KWinWindow, Script!Look
<1>3. ScriptOK'
  BY <1>1, <1>2 DEF ScriptOK, TrackedAs
<1> QED
  BY <1>1, <1>3, NothingSaid

(* The calls of one snapshot, which names every candidate once.             *)
LEMMA SnapshotCalls ==
  ASSUME ScriptOK, NEW order \in Script!SetToSeqs(Script!Candidates)
  PROVE  LET begin == [method |-> "SnapshotBegin", screens |-> displays]
             told  == [i \in DOMAIN order |->
                         Script!CallAbout("WindowOpened", order[i],
                                          desktop[order[i]])]
             end   == [method |-> "SnapshotEnd"]
             new   == <<begin>> \o told \o <<end>>
             n     == Cardinality(Script!Candidates)
         IN  /\ n \in Nat /\ DOMAIN order = 1 .. n
             /\ \A i \in 1 .. n : order[i] \in Script!Candidates
             /\ \A i, j \in 1 .. n : i # j => order[i] # order[j]
             /\ begin \in Call /\ told \in Seq(Call) /\ end \in Call
             /\ new \in Seq(Call) /\ Len(new) = n + 2
             /\ new[1] = begin /\ new[n + 2] = end
             /\ \A i \in 1 .. n : new[i + 1] = told[i]
<1> DEFINE begin == [method |-> "SnapshotBegin", screens |-> displays]
           told  == [i \in DOMAIN order |->
                       Script!CallAbout("WindowOpened", order[i],
                                        desktop[order[i]])]
           end   == [method |-> "SnapshotEnd"]
           n     == Cardinality(Script!Candidates)
<1>1. IsFiniteSet(Script!Candidates) /\ Script!Candidates \subseteq DOMAIN desktop
  BY FS_Subset DEF ScriptOK, Script!Candidates
<1>2. n \in Nat
  BY <1>1, FS_CardinalityType
<1>3. /\ DOMAIN order = 1 .. n
      /\ \A i \in 1 .. n : order[i] \in Script!Candidates
      /\ \A i, j \in 1 .. n : i # j => order[i] # order[j]
  <2>1. n = Script!Cardinality(Script!Candidates)
    BY DEF Cardinality, Script!Cardinality
  <2> HIDE DEF n
  <2>2. /\ order \in [1 .. n -> Script!Candidates]
        /\ \A i, j \in 1 .. n : i # j => order[i] # order[j]
    BY <2>1 DEF Script!SetToSeqs
  <2> QED
    BY <2>2
<1>4. begin \in Call /\ end \in Call
  BY DEF ScriptOK, Call
<1>5. \A i \in 1 .. n : told[i] \in Call
  BY <1>1, <1>3, CallsAreCalls DEF ScriptOK
<1>6. told \in Seq(Call) /\ Len(told) = n
  BY <1>2, <1>3, <1>5
<1> HIDE DEF begin, told, end, n
<1>7. /\ <<begin>> \o told \in Seq(Call)
      /\ Len(<<begin>> \o told) = n + 1
      /\ (<<begin>> \o told)[1] = begin
      /\ \A i \in 1 .. n : (<<begin>> \o told)[i + 1] = told[i]
  BY <1>2, <1>4, <1>6
<1>8. PICK most : most = <<begin>> \o told
  OBVIOUS
<1>9. /\ most \o <<end>> \in Seq(Call)
      /\ Len(most \o <<end>>) = n + 2
      /\ (most \o <<end>>)[n + 2] = end
      /\ \A i \in 1 .. (n + 1) : (most \o <<end>>)[i] = most[i]
  BY <1>2, <1>4, <1>7, <1>8
<1>10. \A i \in 1 .. n : (most \o <<end>>)[i + 1] = told[i]
  BY <1>2, <1>7, <1>8, <1>9
<1>11. (most \o <<end>>)[1] = begin
  BY <1>2, <1>7, <1>8, <1>9
<1> QED
  BY <1>2, <1>3, <1>4, <1>6, <1>8, <1>9, <1>10, <1>11 DEF begin, told, end, n

(* A snapshot, of a script that goes on or of one that starts anew: it says *)
(* what is there, and lets the daemon forget what it does not name.         *)
LEMMA SnapshotPreserves ==
  ASSUME ScriptOK, CallsOK,
         UNCHANGED <<desktop, displays, windows, inPass, seen, up>>,
         NEW s, s \in {Script!Now, [Script!Started EXCEPT !.calls = calls]},
         Script!SendSnapshot(s)
  PROVE  ScriptOK' /\ CallsOK'
<1>1. /\ s.calls = calls
      /\ DOMAIN s.tracked \subseteq s.listening
      /\ s.watched \subseteq s.listening
      /\ s.listening \subseteq DOMAIN desktop
      /\ \A id \in DOMAIN s.tracked :
           s.tracked[id] = Script!Look(desktop[id])
  BY DEF ScriptOK, TrackedAs, Script!Now, Script!Started
<1>2. PICK order \in Script!SetToSeqs(Script!Candidates) :
        Script!Becomes(Script!SnapshotOf(s, order))
  BY DEF Script!SendSnapshot, Script!Snapshot
<1>3. PICK n, begin, told, end, new :
        /\ n = Cardinality(Script!Candidates)
        /\ begin = [method |-> "SnapshotBegin", screens |-> displays]
        /\ told = [i \in DOMAIN order |->
                     Script!CallAbout("WindowOpened", order[i],
                                      desktop[order[i]])]
        /\ end = [method |-> "SnapshotEnd"]
        /\ new = <<begin>> \o told \o <<end>>
  OBVIOUS
<1>4. /\ n \in Nat /\ DOMAIN order = 1 .. n
      /\ \A i \in 1 .. n : order[i] \in Script!Candidates
      /\ \A i, j \in 1 .. n : i # j => order[i] # order[j]
      /\ begin \in Call /\ told \in Seq(Call) /\ end \in Call
      /\ new \in Seq(Call) /\ Len(new) = n + 2
      /\ new[1] = begin /\ new[n + 2] = end
      /\ \A i \in 1 .. n : new[i + 1] = told[i]
  BY <1>3, SnapshotCalls
<1>5. \A i \in 1 .. n :
        /\ Names(told[i], order[i])
        /\ \A id : Names(told[i], id) => order[i] = id
        /\ Script!Look(told[i]) = Script!Look(desktop[order[i]])
  <2> SUFFICES ASSUME NEW i \in 1 .. n
               PROVE  /\ Names(told[i], order[i])
                      /\ \A id : Names(told[i], id) => order[i] = id
                      /\ Script!Look(told[i]) = Script!Look(desktop[order[i]])
    OBVIOUS
  <2>1. told[i] = Script!CallAbout("WindowOpened", order[i], desktop[order[i]])
    BY <1>3, <1>4
  <2> QED
    BY <2>1 DEF Names, Script!CallAbout, Script!Look
<1>6. \A id : ~Names(begin, id) /\ ~Names(end, id)
  BY <1>3 DEF Names
<1>7. PICK named : named = Script!Range(order)
  OBVIOUS
<1>8. /\ tracked' = [id \in DOMAIN s.tracked \cup named |->
                       IF id \in named THEN Script!Look(desktop[id])
                                       ELSE s.tracked[id]]
      /\ watched' = s.watched \cup named
      /\ listening' = s.listening \cup (named \ s.watched)
      /\ calls' = calls \o <<begin>> \o told \o <<end>>
  <2>1. /\ tracked' = Script!SnapshotOf(s, order).tracked
        /\ watched' = Script!SnapshotOf(s, order).watched
        /\ listening' = Script!SnapshotOf(s, order).listening
        /\ calls' = Script!SnapshotOf(s, order).calls
    BY <1>2 DEF Script!Becomes
  <2>2. s = [tracked |-> s.tracked, watched |-> s.watched,
             listening |-> s.listening, calls |-> s.calls]
    BY DEF Script!Now, Script!Started
  <2> QED
    BY <1>1, <1>3, <1>7, <2>1, <2>2 DEF Script!SnapshotOf
<1>9. calls' = calls \o new
  <2>1. /\ calls \in Seq(Call) /\ <<begin>> \in Seq(Call)
        /\ told \in Seq(Call) /\ <<end>> \in Seq(Call)
    BY <1>4 DEF ScriptOK
  <2>2. /\ (calls \o <<begin>>) \o told = calls \o (<<begin>> \o told)
        /\ <<begin>> \o told \in Seq(Call)
    BY <2>1, ConcatAssociative, ConcatProperties
  <2>3. (calls \o (<<begin>> \o told)) \o <<end>>
          = calls \o ((<<begin>> \o told) \o <<end>>)
    BY <2>1, <2>2, ConcatAssociative
  <2> QED
    BY <1>3, <1>8, <2>2, <2>3
<1>10. named = {order[i] : i \in 1 .. n} /\ named \subseteq DOMAIN desktop
  BY <1>4, <1>7 DEF Script!Range, Script!Candidates
<1>11. ScriptOK'
  <2>1. /\ listening' \subseteq DOMAIN desktop
        /\ watched' \subseteq listening'
        /\ DOMAIN tracked' \subseteq listening'
    BY <1>1, <1>8, <1>10
  <2>2. \A id \in DOMAIN tracked' : tracked'[id] = Script!Look(desktop[id])
    BY <1>1, <1>8
  <2>3. calls' \in Seq(Call)
    BY <1>4, <1>9, ConcatProperties DEF ScriptOK
  <2> QED
    BY <2>1, <2>2, <2>3 DEF ScriptOK, TrackedAs
<1>12. ASSUME up, NEW id \in DesktopIds
       PROVE  Foretold(id)'
  <2>1. calls \in Seq(Call) /\ Foretold(id)
    BY <1>12 DEF ScriptOK, CallsOK
  <2>2. CASE id \in named
    <3>1. PICK i \in 1 .. n : order[i] = id
      BY <1>10, <2>2
    <3>2. PICK k : k = i + 1
      OBVIOUS
    <3>3. k \in 1 .. Len(new) /\ new[k] = told[i]
      BY <1>4, <3>1, <3>2
    <3>4. Names(new[k], id)
          /\ Script!Look(new[k]) = Script!Look(desktop[id])
      BY <1>5, <3>1, <3>3
    <3>5. TrackedAs(id, new[k])'
      BY <1>8, <2>2, <3>4 DEF TrackedAs
    <3>6. ASSUME NEW m \in (k + 1) .. Len(new)
          PROVE  ~Names(new[m], id)
      <4>1. CASE m = n + 2
        BY <1>4, <1>6, <4>1
      <4>2. CASE m # n + 2
        <5>1. /\ m - 1 \in 1 .. n /\ m - 1 # i /\ (m - 1) + 1 = m
          BY <1>4, <3>1, <3>2, <4>2
        <5>2. new[m] = told[m - 1] /\ order[m - 1] # id
          BY <1>4, <3>1, <5>1
        <5> QED
          BY <1>5, <5>1, <5>2
      <4> QED
        BY <4>1, <4>2
    <3> QED
      BY <1>4, <1>9, <2>1, <3>3, <3>4, <3>5, <3>6, NamedForetold
  <2>3. CASE id \notin named
    <3>1. ASSUME NEW m \in 1 .. Len(new)
          PROVE  ~Names(new[m], id)
      <4>1. CASE m \in {1, n + 2}
        BY <1>4, <1>6, <4>1
      <4>2. CASE m \notin {1, n + 2}
        <5>1. m - 1 \in 1 .. n /\ (m - 1) + 1 = m
          BY <1>4, <4>2
        <5>2. new[m] = told[m - 1] /\ order[m - 1] # id
          BY <1>4, <1>10, <2>3, <5>1
        <5> QED
          BY <1>5, <5>1, <5>2
      <4> QED
        BY <4>1, <4>2
    <3>2. \E j \in 1 .. Len(new) : \E k \in (j + 1) .. Len(new) :
            new[j].method = "SnapshotBegin" /\ new[k].method = "SnapshotEnd"
      <4>1. 1 \in 1 .. Len(new) /\ n + 2 \in (1 + 1) .. Len(new)
        BY <1>4
      <4> QED
        BY <1>3, <1>4, <4>1
    <3> QED
      BY <1>4, <1>9, <2>1, <3>1, <3>2, UnnamedForetold
  <2> QED
    BY <2>2, <2>3
<1> QED
  BY <1>11, <1>12 DEF CallsOK
-----------------------------------------------------------------------------
(* Every step of the system preserves the invariant *)

(* The invariant holds when the session starts.                            *)
LEMMA SystemInitEstablishes ==
  ASSUME SystemInit
  PROVE  SystemIInv
<1>1. IInv
  BY InitEstablishes DEF SystemInit
<1>2. /\ DOMAIN desktop = {} /\ DOMAIN tracked = {} /\ DOMAIN windows = {}
      /\ displays \in PlugSets /\ watched = {} /\ listening = {}
      /\ up = TRUE
  BY DEF SystemInit, Script!Init, Script!Started, Init
<1>3. PICK begin, end : /\ begin = [method |-> "SnapshotBegin",
                                    screens |-> displays]
                        /\ end = [method |-> "SnapshotEnd"]
  OBVIOUS
<1>4. begin \in Call /\ end \in Call /\ \A id : ~Names(begin, id) /\ ~Names(end, id)
  BY <1>2, <1>3 DEF Call, Names
<1>5. PICK none : none = [i \in DOMAIN <<>> |->
                            Script!CallAbout("WindowOpened", <<>>[i],
                                             desktop[<<>>[i]])]
  OBVIOUS
<1>6. none = <<>>
  <2>1. DOMAIN none = 1 .. 0
    BY <1>5
  <2>2. none \in Seq({}) /\ Len(none) = 0
    BY <2>1
  <2> QED
    BY <2>2, EmptySeq
<1>7. calls = <<>> \o <<begin>> \o none \o <<end>>
  BY <1>3, <1>5
  DEF SystemInit, Script!Init, Script!Snapshot, Script!SnapshotOf,
      Script!Started
<1>8. /\ calls \in Seq(Call) /\ Len(calls) = 2
      /\ calls[1] = begin /\ calls[2] = end
  <2>1. <<>> \o <<begin>> = <<begin>> /\ <<begin>> \o <<>> = <<begin>>
    BY <1>4, ConcatEmptySeq
  <2>2. calls = <<begin>> \o <<end>>
    BY <1>6, <1>7, <2>1
  <2>3. /\ <<begin>> \in Seq(Call) /\ Len(<<begin>>) = 1
        /\ <<end>> \in Seq(Call) /\ Len(<<end>>) = 1
    BY <1>4
  <2> QED
    BY <2>2, <2>3
<1>9. ScriptOK
  BY <1>2, <1>4, <1>8, FS_EmptySet DEF ScriptOK
<1>10. CallsOK
  <2>1. ASSUME NEW id \in DesktopIds
        PROVE  Foretold(id)
    BY <1>2, <1>4, <1>8 DEF Foretold, Silent, KnownOK
  <2> QED
    BY <2>1 DEF CallsOK
<1>11. GamesOK /\ DownOK
  BY <1>2 DEF GamesOK, DownOK
<1> QED
  BY <1>1, <1>9, <1>10, <1>11 DEF SystemIInv

(* Every callback of the script.                                            *)
LEMMA ScriptStepsPreserve ==
  ASSUME SystemIInv, ScriptSteps
  PROVE  SystemIInv'
<1> USE DEF SystemIInv
<1>1. UNCHANGED vars /\ UNCHANGED up
  BY DEF ScriptSteps
<1>2. /\ UNCHANGED <<windows, inPass, seen, up>>
      /\ UNCHANGED <<active, restoreTimer>>
  BY <1>1 DEF vars, tracking, pass, theater, timers
<1>3. IInv'
  BY <1>1, NextPreserves
<1>4. GamesOK' /\ DownOK'
  BY <1>2 DEF GamesOK, DownOK
<1>5. CASE Script!DesktopChanges
  BY <1>2, <1>3, <1>4, <1>5, WindowAddedPreserves, WindowRemovedPreserves,
     WindowMovedPreserves, CandidacyChangedPreserves
  DEF Script!DesktopChanges
<1>6. CASE Script!ScriptTimers
  <2>1. Script!SendSnapshot(Script!Now) /\ UNCHANGED <<desktop, displays>>
    BY <1>6 DEF Script!ScriptTimers, Script!ScreensSettled, Script!Heartbeat
  <2> QED
    BY <1>2, <1>3, <1>4, <2>1, SnapshotPreserves
<1>7. CASE Script!ScriptReloaded
  <2>1. /\ Script!SendSnapshot([Script!Started EXCEPT !.calls = calls])
        /\ UNCHANGED <<desktop, displays>>
    BY <1>7 DEF Script!ScriptReloaded
  <2> QED
    BY <1>2, <1>3, <1>4, <2>1, SnapshotPreserves
<1> QED
  BY <1>5, <1>6, <1>7 DEF ScriptSteps

(* A display comes or goes, on the desktop and for the daemon.              *)
LEMMA DisplaysChangePreserves ==
  ASSUME SystemIInv, DisplaysChange
  PROVE  SystemIInv'
<1> USE DEF SystemIInv
<1>1. PICK list \in PlugSets :
        Script!ScreensChanged(list) /\ Hotplug(list) /\ UNCHANGED up
  BY DEF DisplaysChange
<1>2. /\ UNCHANGED <<windows, inPass, seen, up>>
      /\ UNCHANGED <<active, restoreTimer>>
  BY <1>1 DEF Hotplug, tracking, pass, theater, timers
<1>3. /\ UNCHANGED <<desktop, tracked, watched, listening, calls>>
      /\ displays' \in PlugSets
  BY <1>1 DEF Script!ScreensChanged, Script!script
<1>4. IInv'
  BY <1>1, HotplugPreserves
<1>5. ScriptOK'
  BY <1>3 DEF ScriptOK, TrackedAs
<1>6. CallsOK'
  BY <1>2, <1>3, NothingSaid
<1>7. GamesOK' /\ DownOK'
  BY <1>2 DEF GamesOK, DownOK
<1> QED
  BY <1>4, <1>5, <1>6, <1>7

(* What the daemon does on a call is a step that Daemon allows.             *)
LEMMA HandledIsDaemonStep ==
  ASSUME NEW call \in Call, Handled(call)
  PROVE  DetectorCall \/ UNCHANGED vars
<1>1. /\ call.method \in {"WindowOpened", "WindowChanged", "WindowClosed"} =>
           call.id \in WindowIds \ {SimulatedId}
      /\ call.method \in {"WindowOpened", "WindowChanged"} =>
           call.output \in Outputs \cup {Unnamed} /\ call.fullscreen \in BOOLEAN
      /\ call.method = "SnapshotBegin" => call.screens \in ScreenLists
  BY TheaterModeAssumption DEF Call, DesktopIds
<1>2. (call.id \in GameIds) \in BOOLEAN
  OBVIOUS
<1> QED
  BY <1>1, <1>2 DEF Handled, DetectorCall

(* What a handler learns of a window says rightly whether it is a game.     *)
LEMMA HandledGames ==
  ASSUME NEW call \in Call, Handled(call), GamesOK
  PROVE  GamesOK'
<1>1. CASE call.method = "WindowOpened"
  <2>1. PICK ident \in Idents :
          WindowOpened(call.id, ident, call.output, call.fullscreen,
                       call.id \in GameIds)
    BY <1>1 DEF Handled
  <2> DEFINE known == call.id \in Tracked /\ windows[call.id].ident = ident
             game  == IF known THEN windows[call.id].game
                               ELSE call.id \in GameIds
             w == [ident |-> ident, output |-> call.output,
                   fullscreen |-> call.fullscreen, game |-> game]
  <2>2. /\ windows' = Put(windows, call.id, w)
        /\ w.game <=> call.id \in GameIds
    <3>1. windows' = Put(windows, call.id, w)
      BY <2>1 DEF WindowOpened, Track
    <3>2. game <=> call.id \in GameIds
      BY DEF GamesOK, Tracked
    <3>3. w.game = game
      OBVIOUS
    <3> QED
      BY <3>1, <3>2, <3>3
  <2> HIDE DEF w
  <2>3. call.id \in DesktopIds
    BY <1>1 DEF Call
  <2> QED
    BY <2>2, <2>3 DEF Put, GamesOK
<1>2. CASE WindowChanged(call.id, call.output, call.fullscreen)
  BY <1>2 DEF WindowChanged, Track, Tracked, Put, GamesOK
<1>3. CASE WindowClosed(call.id)
  BY <1>3 DEF WindowClosed, Keep, GamesOK
<1>4. CASE SnapshotBegin(call.screens) \/ UNCHANGED vars
  <2>1. windows' = windows
    BY <1>4 DEF SnapshotBegin, vars, tracking
  <2> QED
    BY <2>1 DEF GamesOK
<1>5. CASE SnapshotEnd
  BY <1>5 DEF SnapshotEnd, Keep, GamesOK
<1> QED
  BY <1>1, <1>2, <1>3, <1>4, <1>5 DEF Handled

(* The daemon takes the first call of the queue.                            *)
LEMMA CallHandledPreserves ==
  ASSUME SystemIInv, CallHandled
  PROVE  SystemIInv'
<1> USE DEF SystemIInv
<1>1. /\ up /\ UNCHANGED up /\ Handled(Head(calls))
      /\ calls # <<>> /\ calls' = Tail(calls)
      /\ UNCHANGED <<desktop, displays, tracked, watched, listening>>
  BY DEF CallHandled, Script!CallTaken, Script!script
<1>2. Head(calls) \in Call /\ calls' \in Seq(Call)
  BY <1>1, TailOfCalls DEF ScriptOK
<1>3. IInv'
  <2>1. [Next]_vars
    BY <1>1, <1>2, HandledIsDaemonStep DEF Next
  <2> QED
    BY <2>1, NextPreserves
<1>4. ScriptOK'
  BY <1>1, <1>2 DEF ScriptOK, TrackedAs
<1>5. CallsOK'
  BY <1>1, HandledForetold DEF CallsOK, ScriptOK
<1>6. GamesOK'
  BY <1>1, <1>2, HandledGames
<1>7. DownOK'
  BY <1>1 DEF DownOK
<1> QED
  BY <1>3, <1>4, <1>5, <1>6, <1>7

(* A call that nobody takes is lost while nobody is there.                  *)
LEMMA CallLostPreserves ==
  ASSUME SystemIInv, CallLost
  PROVE  SystemIInv'
<1> USE DEF SystemIInv
<1>1. /\ ~up /\ UNCHANGED up /\ UNCHANGED vars
      /\ calls # <<>> /\ calls' = Tail(calls)
      /\ UNCHANGED <<desktop, displays, tracked, watched, listening>>
  BY DEF CallLost, Script!CallTaken, Script!script
<1>2. UNCHANGED <<windows, inPass, active, restoreTimer>>
  BY <1>1 DEF vars, tracking, pass, theater, timers
<1>3. calls' \in Seq(Call)
  BY <1>1, TailOfCalls DEF ScriptOK
<1>4. IInv'
  BY <1>1, NextPreserves
<1>5. ScriptOK' /\ CallsOK'
  BY <1>1, <1>3 DEF ScriptOK, TrackedAs, CallsOK
<1>6. GamesOK' /\ DownOK'
  BY <1>1, <1>2 DEF GamesOK, DownOK
<1> QED
  BY <1>4, <1>5, <1>6

(* Timers, reloads, clear, and the helper's exit.                           *)
LEMMA DaemonStepsPreserve ==
  ASSUME SystemIInv, DaemonSteps
  PROVE  SystemIInv'
<1> USE DEF SystemIInv
<1>1. /\ up /\ UNCHANGED up
      /\ UNCHANGED <<desktop, displays, tracked, watched, listening, calls>>
  BY DEF DaemonSteps, scriptSide
<1>2. /\ windows' = windows \/ DOMAIN windows' = {}
      /\ UNCHANGED <<inPass, seen>>
  BY DEF DaemonSteps, Clear, Reload, RestoreTimeout, FollowTimeout,
         HelperExits, tracking, pass
<1>3. IInv'
  <2>1. [Next]_vars
    BY DEF DaemonSteps, Next, CommandLineCall
  <2> QED
    BY <2>1, NextPreserves
<1>4. ScriptOK'
  BY <1>1 DEF ScriptOK, TrackedAs
<1>5. CallsOK'
  BY <1>1, <1>2, NothingSaid
<1>6. GamesOK' /\ DownOK'
  BY <1>1, <1>2 DEF GamesOK, DownOK
<1> QED
  BY <1>3, <1>4, <1>5, <1>6

(* The calls made so far mean nothing to a daemon that is not there, and a  *)
(* daemon that starts knows of no window and has no call to handle.         *)
LEMMA RestartsPreserve ==
  ASSUME SystemIInv, DaemonStops \/ DaemonStarts
  PROVE  SystemIInv'
<1> USE DEF SystemIInv
<1>1. CASE DaemonStops
  <2>1. /\ up' = FALSE /\ DOMAIN windows' = {} /\ older' = {}
        /\ active' = NoOutput /\ appliedOthers' = {} /\ screens' = {}
        /\ inPass' = FALSE /\ seen' = {}
        /\ restoreTimer' = FALSE /\ followTimer' = FALSE
        /\ effect' = Fresh(displays) /\ config' = config
        /\ UNCHANGED <<desktop, displays, tracked, watched, listening, calls>>
    BY <1>1 DEF DaemonStops, scriptSide
  <2>2. WindowsOK(windows, older)'
    BY <2>1 DEF WindowsOK
  <2>3. EffectOK(effect')
    BY <2>1, DaemonAssumption DEF ScriptOK, Fresh, EffectOK, Effect
  <2>4. TheaterOK'
    BY <2>1, <2>3
    DEF TheaterOK, Fresh, DimmedOnlyInTheater, StageNeverDimmed
  <2>5. TimersOK' /\ RestOK'
    BY <2>1 DEF IInv, TimersOK, TimersExclusive, RestOK
  <2>6. ScriptOK' /\ CallsOK' /\ GamesOK' /\ DownOK'
    BY <2>1 DEF ScriptOK, TrackedAs, CallsOK, GamesOK, DownOK
  <2> QED
    BY <2>2, <2>4, <2>5, <2>6 DEF IInv
<1>2. CASE DaemonStarts
  <2>1. /\ up' = TRUE /\ config' \in Config /\ calls' = <<>>
        /\ UNCHANGED <<desktop, displays, tracked, watched, listening>>
        /\ UNCHANGED <<windows, older, active, appliedOthers, screens, inPass>>
        /\ UNCHANGED <<seen, restoreTimer, followTimer, effect>>
        /\ DOMAIN windows = {}
    BY <1>2, DaemonAssumption DEF DaemonStarts, DownOK
  <2>2. IInv'
    BY <2>1
    DEF IInv, TheaterOK, TimersOK, RestOK, DimmedOnlyInTheater,
        StageNeverDimmed, TimersExclusive
  <2>3. ScriptOK'
    BY <2>1 DEF ScriptOK, TrackedAs
  <2>4. ASSUME NEW id \in DesktopIds
        PROVE  Foretold(id)'
    BY <2>1 DEF Foretold, Silent, KnownOK
  <2>5. CallsOK' /\ GamesOK' /\ DownOK'
    BY <2>1, <2>4 DEF CallsOK, GamesOK, DownOK
  <2> QED
    BY <2>2, <2>3, <2>5
<1> QED
  BY <1>1, <1>2

(* One step per group of actions.                                           *)
LEMMA SystemNextPreserves ==
  ASSUME SystemIInv, [SystemNext]_systemVars
  PROVE  SystemIInv'
<1>1. CASE UNCHANGED systemVars
  <2>1. /\ UNCHANGED vars /\ UNCHANGED up
        /\ UNCHANGED <<desktop, displays, tracked, watched, listening, calls>>
    BY <1>1 DEF systemVars, scriptSide
  <2>2. UNCHANGED <<windows, inPass, seen, active, restoreTimer>>
    BY <2>1 DEF vars, tracking, pass, theater, timers
  <2>3. IInv'
    BY <2>1, NextPreserves DEF SystemIInv
  <2>4. CallsOK'
    BY <2>1, <2>2, NothingSaid DEF SystemIInv
  <2>5. ScriptOK' /\ GamesOK' /\ DownOK'
    BY <2>1, <2>2 DEF SystemIInv, ScriptOK, TrackedAs, GamesOK, DownOK
  <2> QED
    BY <2>3, <2>4, <2>5 DEF SystemIInv
<1> QED
  BY <1>1, ScriptStepsPreserve, CallHandledPreserves, CallLostPreserves,
     DaemonStepsPreserve, RestartsPreserve, DisplaysChangePreserves
  DEF SystemNext

-----------------------------------------------------------------------------
(* What the daemon knows is true *)

(* With no call on its way, a window the daemon knows is one the desktop has. *)
LEMMA KnownIsTrue ==
  ASSUME SystemIInv
  PROVE  KnowsNothingFalse
<1> SUFFICES ASSUME up, calls = <<>>, NEW id \in DOMAIN windows
             PROVE  /\ id \in DOMAIN desktop
                    /\ windows[id].output = desktop[id].output
                    /\ windows[id].fullscreen = desktop[id].fullscreen
  BY DEF KnowsNothingFalse
<1>1. Foretold(id) /\ Len(calls) = 0
  BY DEF SystemIInv, CallsOK, GamesOK
<1>2. TrackedAs(id, windows[id])
  BY <1>1 DEF Foretold, KnownOK, PassComes, PassEnds
<1>3. id \in DOMAIN desktop /\ TrackedAs(id, desktop[id])
  BY <1>2 DEF SystemIInv, ScriptOK, TrackedAs
<1>4. Script!Look(windows[id]) = Script!Look(desktop[id])
  BY <1>2, <1>3 DEF TrackedAs
<1> QED
  BY <1>3, <1>4 DEF Script!Look

(* The calls under way foretell what the daemon will know, in every         *)
(* reachable state.                                                         *)
THEOREM SystemInvariant == SystemSpec => []SystemIInv
<1>1. SystemInit => SystemIInv
  BY SystemInitEstablishes
<1>2. SystemIInv /\ [SystemNext]_systemVars => SystemIInv'
  BY SystemNextPreserves
<1> QED
  BY <1>1, <1>2, PTL DEF SystemSpec

(* Once it has handled the calls under way, the daemon has no ghost window  *)
(* and no stale one, whatever was lost, restarted or announced before.      *)
THEOREM DaemonKnowsNothingFalse == SystemSpec => []KnowsNothingFalse
<1>1. SystemIInv => KnowsNothingFalse
  BY KnownIsTrue
<1> QED
  BY <1>1, SystemInvariant, PTL

-----------------------------------------------------------------------------
(* The screen of the game *)

(* A daemon that is not there has no game and no theater mode to settle.    *)
LEMMA SystemNextSettles ==
  ASSUME SystemIInv, SystemIInv', Settled, [SystemNext]_systemVars,
         [up => SameRequirement]_config
  PROVE  Settled'
<1> USE DEF SystemIInv
<1>1. CASE [Next]_vars /\ up
  BY <1>1, NextSettles
<1>2. CASE UNCHANGED vars
  BY <1>2, UnchangedSettled DEF vars, tracking, pass, theater, timers
<1>3. CASE \E list \in PlugSets : Hotplug(list)
  BY <1>3, UnchangedSettled DEF Hotplug, tracking, pass, theater, timers
<1>4. CASE DaemonStops \/ DaemonStarts
  <2>1. DOMAIN windows' = {} /\ active' = NoOutput
    BY <1>4 DEF DaemonStops, DaemonStarts, DownOK
  <2>2. Games(config', windows') = {}
    BY <2>1 DEF Games
  <2> QED
    BY <2>1, <2>2
    DEF Settled, RestoreIsScheduled, FollowsDisplays, FollowIsPending
<1>5. CASE CallHandled
  <2>1. Head(calls) \in Call /\ Handled(Head(calls)) /\ up
    BY <1>5, TailOfCalls DEF CallHandled, Script!CallTaken, ScriptOK
  <2>2. [Next]_vars
    BY <2>1, HandledIsDaemonStep DEF Next
  <2> QED
    BY <1>1, <2>1, <2>2
<1>6. CASE DaemonSteps
  <2>1. Next /\ up
    BY <1>6 DEF DaemonSteps, Next, CommandLineCall
  <2> QED
    BY <1>1, <2>1
<1>7. CASE UNCHANGED systemVars \/ ScriptSteps \/ CallLost
  BY <1>2, <1>7 DEF systemVars, ScriptSteps, CallLost
<1>8. CASE DisplaysChange
  BY <1>3, <1>8 DEF DisplaysChange
<1> QED
  BY <1>4, <1>5, <1>6, <1>7, <1>8 DEF SystemNext

(* The games that the daemon counts are where it has them. *)
LEMMA GamesAreKnown ==
  ASSUME SystemIInv, up, calls = <<>>
  PROVE  Games(config, windows) = GamesKnown
BY KnownIsTrue DEF SystemIInv, GamesOK, KnowsNothingFalse, Games, GamesKnown

(* A settled daemon that knows the games rightly is on their screen or on   *)
(* none, and never dims the one it is on.                                   *)
LEMMA SettledIsNotDimmed ==
  ASSUME SystemIInv, Settled
  PROVE  GameIsNotDimmed
<1> SUFFICES ASSUME up, calls = <<>>, ~inPass, ~followTimer,
                    NEW output \in Outputs, GamesKnown # {},
                    \A id \in GamesKnown : desktop[id].output = output
             PROVE  output \notin effect.lit
  BY DEF GameIsNotDimmed
<1>1. Games(config, windows) = GamesKnown
  BY GamesAreKnown
<1>2. PICK id \in GamesKnown : Stage(config, windows, older) = windows[id]
  BY <1>1, StageIsAGame DEF SystemIInv, IInv, RestOK
<1>3. Stage(config, windows, older).output = output
  BY <1>2, KnownIsTrue DEF KnowsNothingFalse, GamesKnown
<1>4. active \in {NoOutput, output}
  BY <1>1, <1>3 DEF Settled, FollowIsPending
<1> QED
  BY <1>4
  DEF SystemIInv, IInv, TheaterOK, DimmedOnlyInTheater, StageNeverDimmed

(* Up to a reload that changes require_fullscreen; a daemon that starts may *)
(* start with another.                                                      *)
KeepsRequirementWhileUp == [][up => SameRequirement]_config

(* The screen that the games are on is not dimmed once the daemon has heard *)
(* of them, but for the follow delay after a move.                          *)
THEOREM ScreenOfTheGameIsNotDimmed ==
  SystemSpec /\ KeepsRequirementWhileUp => []GameIsNotDimmed
<1>1. SystemInit => Settled
  BY DEF SystemInit, Init, Settled, RestoreIsScheduled, FollowsDisplays,
         FollowIsPending, Games
<1>2. SystemIInv /\ SystemIInv' /\ Settled /\ [SystemNext]_systemVars
      /\ [up => SameRequirement]_config => Settled'
  BY SystemNextSettles
<1>3. SystemIInv /\ Settled => GameIsNotDimmed
  BY SettledIsNotDimmed
<1> QED
  BY <1>1, <1>2, <1>3, SystemInvariant, PTL
  DEF SystemSpec, KeepsRequirementWhileUp

-----------------------------------------------------------------------------
(* What the daemon promises by itself it promises in the system *)

(* Whenever the daemon or the script is stopped and started again, and      *)
(* whatever is lost on the way: displays are dimmed in theater mode only,   *)
(* never the stage, status covers them, and the timers exclude each other.  *)
THEOREM SystemDimsSafely ==
  SystemSpec => [](/\ DimmedOnlyInTheater /\ StageNeverDimmed
                   /\ AffectedCoversLit /\ TimersExclusive)
<1>1. SystemIInv => /\ DimmedOnlyInTheater /\ StageNeverDimmed
                    /\ AffectedCoversLit /\ TimersExclusive
  BY IInvImplies DEF SystemIInv
<1> QED
  BY <1>1, SystemInvariant, PTL

(* A daemon that stops leaves theater mode, and one that starts is not in   *)
(* it: no restart moves theater mode from one screen to another.            *)
LEMMA OnlyFollowTimeoutJumpsInSystem ==
  ASSUME SystemIInv, [SystemNext]_systemVars
  PROVE  [Jumps => followTimer /\ ~followTimer']_vars
<1> USE DEF SystemIInv
<1>1. CASE [Next]_vars
  BY <1>1, OnlyFollowTimeoutJumps
<1>2. CASE \E list \in PlugSets : Hotplug(list)
  BY <1>2 DEF Hotplug, theater, Jumps
<1>3. CASE DaemonStops \/ DaemonStarts
  BY <1>3 DEF DaemonStops, DaemonStarts, Jumps
<1>4. CASE CallHandled
  <2>1. Head(calls) \in Call /\ Handled(Head(calls))
    BY <1>4, TailOfCalls DEF CallHandled, Script!CallTaken, ScriptOK
  <2>2. [Next]_vars
    BY <2>1, HandledIsDaemonStep DEF Next
  <2> QED
    BY <1>1, <2>2
<1>5. CASE DaemonSteps
  <2>1. Next
    BY <1>5 DEF DaemonSteps, Next, CommandLineCall
  <2> QED
    BY <1>1, <2>1
<1>6. CASE ScriptSteps \/ CallLost \/ UNCHANGED systemVars
  BY <1>6 DEF ScriptSteps, CallLost, systemVars
<1>7. CASE DisplaysChange
  BY <1>2, <1>7 DEF DisplaysChange
<1> QED
  BY <1>3, <1>4, <1>5, <1>6, <1>7 DEF SystemNext

(* In the system too, theater mode moves from one screen to another only    *)
(* when the follow delay is over.                                           *)
THEOREM SystemFollowsOnlyAfterDelay == SystemSpec => JumpsOnlyAfterDelay
<1>1. SystemIInv /\ [SystemNext]_systemVars
        => [Jumps => followTimer /\ ~followTimer']_vars
  BY OnlyFollowTimeoutJumpsInSystem
<1>2. SystemSpec => [][Jumps => followTimer /\ ~followTimer']_vars
  BY <1>1, SystemInvariant, PTL DEF SystemSpec
<1> QED
  BY <1>2 DEF JumpsOnlyAfterDelay, Jumps
=============================================================================
