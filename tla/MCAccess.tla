------------------------------ MODULE MCAccess ------------------------------
(* Values for TLC: two logins, of one person or of two, from one or two    *)
(* browsers, and one reindex with two approvers.                           *)
EXTENDS Access, TLC

CONSTANTS l1, l2, b1, b2, e1, e2, n1, t1, t2, i1, p1, p2

Symmetry == Permutations({l1, l2}) \cup Permutations({b1, b2})
              \cup Permutations({e1, e2}) \cup Permutations({t1, t2})
              \cup Permutations({p1, p2})
=============================================================================
