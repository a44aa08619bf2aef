---------------------------- MODULE MCRateLimit ----------------------------
(* Values for TLC: one tenant of two users, two requests of one and a      *)
(* streamed one of the other, and three minutes in two months.             *)
EXTENDS Usage, TLC

CONSTANTS r1, r2, r3, u1, u2, a

MCRequests == {r1, r2, r3}
MCUsers    == {u1, u2}
MCTenants  == {a}
MCUserOf   == [r \in Requests |-> IF r = r3 THEN u2 ELSE u1]
MCTenantOf == [r \in Requests |-> a]
MCStreams  == {r3}
MCMonthOf  == [w \in Windows |-> w \div 2]

(* The requests of u1 are interchangeable.                                 *)
RequestSymmetry == Permutations({r1, r2})
=============================================================================
