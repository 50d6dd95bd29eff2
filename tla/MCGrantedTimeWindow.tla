------------------------ MODULE MCGrantedTimeWindow ------------------------
(***************************************************************************)
(* GrantedTimeWindow for TLC: a line of three ranks, a - b - c, with links *)
(* of unlike delays.  b and c may start with events ahead of a's, and b    *)
(* may schedule one event beside the ones it gets in messages.             *)
(***************************************************************************)
EXTENDS GrantedTimeWindow

CONSTANTS a, b, c

Line == {a, b, c}
LineLinks == {[ends |-> {a, b}, delay |-> 1], [ends |-> {b, c}, delay |-> 2]}
LineTimes == [r \in Line |-> CASE r = a -> {0} [] r = b -> {0, 2} [] r = c -> {4}]
LineUids == [r \in Line |-> IF r = b THEN 6 ELSE 5]
=============================================================================
