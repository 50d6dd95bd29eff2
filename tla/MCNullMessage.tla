--------------------------- MODULE MCNullMessage ---------------------------
(***************************************************************************)
(* NullMessage for TLC: a line of three ranks, 0 - 1 - 2, with links of    *)
(* unlike delays, and two ranks with two links between them.  All ranks    *)
(* stop at the same time.                                                  *)
(***************************************************************************)
EXTENDS NullMessage

CONSTANTS Stop, Work

LineLinks == {[ends |-> {0, 1}, delay |-> 1, id |-> 1], [ends |-> {1, 2}, delay |-> 2, id |-> 1]}
TwoLinks == {[ends |-> {0, 1}, delay |-> 3, id |-> 1], [ends |-> {0, 1}, delay |-> 3, id |-> 2]}

\* SchedulerTune is 1.
WholeDelay == [b \in Bundles |-> BundleDelay(b[1], b[2])]

AllStop == [r \in Rank |-> Stop]
EarlyStart == [r \in Rank |-> IF r = 0 THEN 0 ELSE 1]
LateStart == [r \in Rank |-> 4]
FirstWorks == [r \in Rank |-> IF r = 0 THEN Work ELSE 0]
=============================================================================
