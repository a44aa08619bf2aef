----------------------------- MODULE Evaluation -----------------------------
(***************************************************************************)
(* The evaluation harness (src/platform/evaluation): runEvaluation asks    *)
(* the query path for every sample of a dataset, each in a session of its  *)
(* own, and scores the chunks named by the sources of the response.        *)
(*                                                                         *)
(* A fraction is a pair of naturals.  An answer is its sequence of tokens  *)
(* and the markers it cites; the judge's prose is left out.                *)
(***************************************************************************)
EXTENDS ContextBuilder, TLC

CONSTANTS
  TopK,         \* the harness's topK, or Unset
  Unset,
  RetrieveK,    \* topK of the query path
  Gain,         \* rank -> 1 / log2(rank + 1), in thousandths
  Snippet,      \* chunk -> the tokens of its snippet
  Answers,      \* what the model may answer: tokens and cited markers
  SkipJudge,
  JudgeScores,  \* scores the judge's model may give an aspect
  MaxSamples    \* bound

VARIABLES
  dataset,      \* the relevant chunks of each sample
  reports, pc,
  average       \* mean recall and verdict, once all samples are through

vars == <<dataset, reports, pc, average>>

Fraction(n, d) == [num |-> n, den |-> d]

-----------------------------------------------------------------------------
Top(ids, k) == SubSeq(ids, 1, Min({k, Len(ids)}))

HitRanks(truth, ids, k) == {i \in DOMAIN Top(ids, k) : ids[i] \in truth}

RecallAtK(truth, ids, k) ==
  CASE truth = {}               -> Fraction(1, 1)
    [] truth # {} /\ ids = <<>> -> Fraction(0, 1)
    [] OTHER ->
         Fraction(Cardinality(HitRanks(truth, ids, k)), Cardinality(truth))

RecallThrows(truth, ids, k) == truth # {} /\ ids # <<>> /\ k = 0

PrecisionAtK(truth, ids, k) ==
  IF k = 0 THEN Fraction(0, 1)
           ELSE Fraction(Cardinality(HitRanks(truth, ids, k)), k)

MRR(truth, ids, k) ==
  LET ranks == HitRanks(truth, ids, k)
  IN  IF ranks = {} THEN Fraction(0, 1) ELSE Fraction(1, Min(ranks))

Gained(ranks) == MapThenSumSet(LAMBDA i : Gain[i], ranks)

NDCG(truth, ids, k) ==
  LET ideal == 1..Min({k, Cardinality(truth)})
  IN  IF ideal = {} THEN Fraction(0, 1)
        ELSE Fraction(Gained(HitRanks(truth, ids, k)), Gained(ideal))

Metrics(truth, ids, k) ==
  [recall |-> RecallAtK(truth, ids, k),
   precision |-> PrecisionAtK(truth, ids, k),
   mrr |-> MRR(truth, ids, k), ndcg |-> NDCG(truth, ids, k)]

-----------------------------------------------------------------------------
(* The rule-based metrics of the answer: relevance counts distinct tokens, *)
(* groundedness occurrences.                                               *)
Words(answer) == {answer.tokens[i] : i \in DOMAIN answer.tokens}

SourceWords(ids) == UNION {Snippet[ids[i]] : i \in DOMAIN ids}

Share(part, whole) ==
  IF part = {} THEN Fraction(0, 1)
               ELSE Fraction(Cardinality(part), Cardinality(whole))

Relevance(answer, ids) ==
  Share(Words(answer) \cap SourceWords(ids), Words(answer))

Groundedness(answer, ids) ==
  Share({i \in DOMAIN answer.tokens : answer.tokens[i] \in SourceWords(ids)},
        DOMAIN answer.tokens)

Faithfulness(answer) == Fraction(IF answer.cited = {} THEN 0 ELSE 1, 1)

Generation(answer, ids) ==
  [relevance |-> Relevance(answer, ids),
   groundedness |-> Groundedness(answer, ids),
   faithfulness |-> Faithfulness(answer)]

-----------------------------------------------------------------------------
(* LLMJudge: an aspect is scored from 1 to 5, and 3 in each of them is the *)
(* verdict when the model fails.  The mean of several verdicts is rounded. *)
Aspects == {"relevance", "groundedness", "faithfulness", "overall"}

Clamp(n) == Max({1, Min({5, n})})

Neutral == [a \in Aspects |-> 3]

Verdicts == {[a \in Aspects |-> Clamp(raw[a])] :
               raw \in [Aspects -> JudgeScores]} \cup {Neutral}

Rounded(n, d) == (2 * n + d) \div (2 * d)

JudgeMean(verdicts) ==
  [a \in Aspects |->
    Clamp(Rounded(MapThenSumSet(LAMBDA i : verdicts[i][a], DOMAIN verdicts),
                  Len(verdicts)))]

-----------------------------------------------------------------------------
(* What a first turn of a session answers: the sources of retrieval, and   *)
(* those that buildContext makes of them, which the reducer appends.       *)
Retrievals == {s \in UNION {[1..n -> Chunks] : n \in 0..RetrieveK} :
                 Cardinality({s[i] : i \in DOMAIN s}) = Len(s)}

Response(retrieved) ==
  retrieved \o DedupeSources(Build(retrieved, Unscored(retrieved)) \o retrieved)

NoMetrics ==
  [m \in {"recall", "precision", "mrr", "ndcg", "relevance", "groundedness",
          "faithfulness"} |-> Fraction(0, 1)]

Truth == dataset[Len(reports) + 1]

Running == pc = "running" /\ Len(reports) < Len(dataset)

K(ids) == IF TopK = Unset THEN Len(ids) ELSE TopK

NoVerdict == <<>>

Answered ==
  /\ Running
  /\ \E retrieved \in Retrievals, answer \in Answers,
        verdict \in IF SkipJudge THEN {NoVerdict} ELSE Verdicts :
       LET ids == Response(retrieved)
       IN  IF RecallThrows(Truth, ids, K(ids))
             THEN pc' = "aborted" /\ UNCHANGED reports
             ELSE /\ reports' = Append(reports,
                       [ids |-> ids, verdict |-> verdict,
                        metrics |-> Metrics(Truth, ids, K(ids))
                                      @@ Generation(answer, ids)])
                  /\ UNCHANGED pc
  /\ UNCHANGED <<dataset, average>>

QueryFails ==
  /\ Running
  /\ reports' = Append(reports,
                  [ids |-> <<>>, verdict |-> NoVerdict,
                   metrics |-> NoMetrics])
  /\ UNCHANGED <<dataset, pc, average>>

(* The means are over all samples, failed ones included; that of the       *)
(* judge is over those it judged.                                          *)
Mean(fractions) ==
  LET den == FoldSet(LAMBDA i, d : d * fractions[i].den, 1, DOMAIN fractions)
      scaled(i) == (fractions[i].num * den) \div fractions[i].den
  IN  Fraction(MapThenSumSet(scaled, DOMAIN fractions), den * Len(fractions))

Aggregate ==
  /\ pc = "running" /\ Len(reports) = Len(dataset)
  /\ LET verdicts == [i \in DOMAIN reports |-> reports[i].verdict]
         judged == SelectSeq(verdicts, LAMBDA v : v # NoVerdict)
     IN  average' =
           [recall |-> Mean([i \in DOMAIN reports |-> reports[i].metrics.recall]),
            judge  |-> IF judged = <<>> THEN NoVerdict ELSE JudgeMean(judged)]
  /\ pc' = "done"
  /\ UNCHANGED <<dataset, reports>>

(* run-eval: a sample without ground truth takes every ingested chunk.     *)
GroundTruth(relevant) == IF relevant = {} THEN Chunks ELSE relevant

Datasets == UNION {[1..n -> SUBSET Chunks] : n \in 1..MaxSamples}

Init ==
  /\ \E samples \in Datasets :
       dataset = [i \in DOMAIN samples |-> GroundTruth(samples[i])]
  /\ reports = <<>> /\ pc = "running"
  /\ average = [recall |-> Fraction(0, 1), judge |-> NoVerdict]

Next == Answered \/ QueryFails \/ Aggregate

Spec == Init /\ [][Next]_vars
-----------------------------------------------------------------------------
(***************************************************************************)
(* retrieval.ts:8: "All metrics return a number in [0, 1]."                *)
(***************************************************************************)
MetricsAreScores ==
  \A i \in DOMAIN reports : \A m \in DOMAIN reports[i].metrics :
    reports[i].metrics[m].num <= reports[i].metrics[m].den
=============================================================================
