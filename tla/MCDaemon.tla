------------------------------ MODULE MCDaemon ------------------------------
(* Instances of Daemon for TLC. *)
EXTENDS Daemon

(* Configurations that differ in what the instance is about only. *)
Plain     == [fullscreenOnly |-> FALSE, delayed |-> TRUE, zero |-> {}, own |-> {}]
Undelayed == [Plain EXCEPT !.delayed = FALSE]
Tuned(s)  == [Undelayed EXCEPT !.own = s]
Dark(s)   == [Plain EXCEPT !.zero = s]

PlainOnly   == {Plain}
PlainOrDark == {Plain, Dark({2})}
TunedOrDark == {Tuned({2, 3}), Dark({1, 2})}

NoneOrBoth  == {{}, {1, 2}}
NoneOrThree == {{}, {1, 2, 3}}
=============================================================================
