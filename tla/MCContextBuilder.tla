-------------------------- MODULE MCContextBuilder --------------------------
(* Values for TLC: three chunks, one of which costs more than the budget   *)
(* leaves after any other.                                                 *)
EXTENDS ContextBuilderLoops

CONSTANTS c1, c2, c3
MCChunks == {c1, c2, c3}
MCCost == (c1 :> 2) @@ (c2 :> 1) @@ (c3 :> 3)
MCScores == {0, 1}
=============================================================================
