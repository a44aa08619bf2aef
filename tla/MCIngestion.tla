---------------------------- MODULE MCIngestion ----------------------------
(* Values for TLC: two requests of different tenants; documents with no    *)
(* chunk, with one, and with a text twice; an extraction with a chunk that *)
(* does not exist, two spellings of a name and a relation between them.    *)
EXTENDS Ingestion, TLC

CONSTANTS j1, j2, x1, x2, w1, w2, a, b

MCJobs      == {j1, j2}
MCJobTenant == (j1 :> a) @@ (j2 :> b)
MCTexts     == {x1, x2}
MCFiles     == {<<>>, <<x1>>, <<x1, x2, x1>>}
MCTerms     == {w1, w2}
MCTermsOf   == (x1 :> {w1}) @@ (x2 :> {w1, w2})
MCLenOf     == (x1 :> 1) @@ (x2 :> 3)
MCTenants   == {a, b}

MCNames  == {"Ada", "ADA", "Bo"}
MCFolded == [n \in MCNames |-> IF n = "Bo" THEN "bo" ELSE "ada"]

MCExtractions ==
  {[entities  |-> <<[name |-> "Ada", chunk |-> 0], [name |-> "ADA", chunk |-> 9],
                    [name |-> "Ada", chunk |-> 1]>>,
    relations |-> {[from |-> "ADA", to |-> "Ada"]}],
   [entities  |-> <<[name |-> "Ada", chunk |-> 1], [name |-> "Bo", chunk |-> 0]>>,
    relations |-> {[from |-> "Bo", to |-> "ADA"]}]}
=============================================================================
