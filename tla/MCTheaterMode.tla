--------------------------- MODULE MCTheaterMode ---------------------------
(* Instances of TheaterMode for TLC. *)
EXTENDS TheaterMode

(* Fullscreen windows that stop being candidates on one screen only; on     *)
(* that screen a candidate may leave fullscreen as well.                    *)
Anywhere == [output : Outputs, fullscreen : BOOLEAN, candidate : BOOLEAN]
Mobile   == {w \in Anywhere : w.fullscreen /\ (w.candidate \/ w.output = 1)}
Windowed == Mobile \cup {w \in Anywhere : w.candidate /\ w.output = 1}

Plain           == [fullscreenOnly |-> FALSE, delayed |-> TRUE, zero |-> {}, own |-> {}]
PlainOnly       == {Plain}
FullscreenOrNot == {Plain, [Plain EXCEPT !.fullscreenOnly = TRUE]}

Both      == {{1, 2}}
OneOrBoth == {{1, 2}, {1}}
=============================================================================
