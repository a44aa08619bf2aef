---------------------------- MODULE MCEvaluation ----------------------------
(* Values for TLC: three chunks, the gains of the first eight ranks, and   *)
(* an empty answer and one of a grounded word twice and one of its own.    *)
EXTENDS Evaluation

CONSTANTS c1, c2, c3
MCSnippet == [c \in Chunks |-> {"word"}]
MCAnswers == {[tokens |-> <<>>, cited |-> {}],
              [tokens |-> <<"word", "other", "word">>, cited |-> {1}]}
UnitCost == [c \in Chunks |-> 1]
MCGain == <<1000, 631, 500, 431, 387, 356, 333, 315>>
=============================================================================
