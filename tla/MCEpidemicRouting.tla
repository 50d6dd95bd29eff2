------------------------- MODULE MCEpidemicRouting -------------------------
(***************************************************************************)
(* EpidemicRouting for TLC.  Messages to the sink, node 2, come from either*)
(* side of its address; one goes to another node, past it.                 *)
(***************************************************************************)
EXTENDS EpidemicRouting

\* Message 1 is sent on by two nodes, one of which sends message 2 as well.
ToSink == {<<1, 2, 1>>, <<5, 2, 1>>, <<1, 2, 2>>}
ToOther == {<<1, 5, 1>>}
ToThird == {<<1, 3, 1>>}
=============================================================================
