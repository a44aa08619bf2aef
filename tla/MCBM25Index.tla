---------------------------- MODULE MCBM25Index ----------------------------
(* Values for TLC: two texts that share a term; two chunks of one tenant   *)
(* and one of another.                                                     *)
EXTENDS BM25Index, TLC

CONSTANTS p1, p2, d1, d2, d3, x1, x2, w1, w2, a, b

OneProc  == {p1}
TwoProcs == {p1, p2}

TwoDocs   == {d1, d2}
ThreeDocs == {d1, d2, d3}
MCTexts   == {x1, x2}
MCTerms   == {w1, w2}
MCTermsOf == (x1 :> {w1}) @@ (x2 :> {w1, w2})
MCLenOf   == (x1 :> 1) @@ (x2 :> 3)

MCTenants  == {a, b}
MCTenantOf == [d \in Docs |-> IF d = d1 THEN a ELSE b]

(* Processes run the same code.                                            *)
ProcSymmetry == Permutations(Procs)
=============================================================================
