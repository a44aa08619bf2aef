---------------------------- MODULE MCQueryGraph ----------------------------
(* Values for TLC.                                                         *)
EXTENDS QueryGraph, TLC

CONSTANTS c1, c2, c3, s1, s2, t1, t2, t3

OneChunk    == {c1}
TwoChunks   == {c1, c2}
ThreeChunks == {c1, c2, c3}
UnitCost    == [c \in Chunks |-> 1]

OneSession  == {s1}
TwoSessions == {s1, s2}
TwoTurns    == {t1, t2}
ThreeTurns  == {t1, t2, t3}

SameSession == [t \in Turns |-> s1]
(* t1 and t2 share a session, t3 has its own                               *)
SplitSession == [t \in Turns |-> IF t = t3 THEN s2 ELSE s1]

NoStreams == {}
StreamT2  == {t2}

(* Chunks are interchangeable where they all cost the same.                *)
ChunkSymmetry == Permutations(Chunks)
=============================================================================
