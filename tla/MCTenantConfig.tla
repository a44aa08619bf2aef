--------------------------- MODULE MCTenantConfig ---------------------------
(* Values for TLC: a body that overrides one of two settings and, in vain, *)
(* the pinned embedding.                                                   *)
EXTENDS TenantConfig

CONSTANTS p1, p2, t1, t2, r1, r2, u1, u2

MCDefaults  == [s \in {"hybrid", "prompt"} |-> "default"]
MCBodies    == {[s \in {"hybrid", "embedding"} |-> "on"]}
MCPinned    == {"embedding"}

Symmetry == Permutations({p1, p2}) \cup Permutations({t1, t2})
              \cup Permutations({r1, r2}) \cup Permutations({u1, u2})
=============================================================================
