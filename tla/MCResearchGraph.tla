--------------------------- MODULE MCResearchGraph ---------------------------
(* Values for TLC: two chunks, three to five sub-questions as in the code. *)
EXTENDS ResearchGraph

CONSTANTS c1, c2
=============================================================================
