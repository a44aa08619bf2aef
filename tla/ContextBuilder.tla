--------------------------- MODULE ContextBuilder ---------------------------
(***************************************************************************)
(* ContextBuilder.build (src/rag/context/builder.ts): turns the chunks of  *)
(* a turn into the numbered context the LLM reads.                         *)
(*                                                                         *)
(* A chunk is identified by its chunkId; two copies of a chunk differ only *)
(* in the score the retrieval pipeline gave them.  The input is therefore  *)
(* a sequence s of chunk ids and a function score on its positions.  The   *)
(* text of the context is the sequence of chunk ids in marker order: the   *)
(* chunk at position i carries the marker [i].                             *)
(*                                                                         *)
(* Each operator says what the loop of the same name computes, without     *)
(* recursion; ContextBuilderLoops has the loops, and the run context_loops *)
(* compares the two.                                                       *)
(***************************************************************************)
EXTENDS Integers, Sequences, FiniteSets, FiniteSetsExt

CONSTANTS
  Chunks,     \* chunk ids
  Cost,       \* tokens of a rendered chunk (tokenCounter.ts)
  MaxChunks,  \* cap on the number of packed chunks (50)
  Budget      \* modelMaxTokens - promptOverhead

ASSUME BuilderAssumption ==
  /\ Cost \in [Chunks -> Nat]
  /\ MaxChunks \in Nat
  /\ Budget \in Nat

(***************************************************************************)
(* Position i comes before position j: higher score first, and positions   *)
(* of equal score in their given order (Array.prototype.sort is stable).   *)
(***************************************************************************)
Before(score, i, j) ==
  \/ score[i] > score[j]
  \/ score[i] = score[j] /\ i < j

Rank(G, score, i) == Cardinality({j \in G : j = i \/ Before(score, j, i)})

(* The elements of s at the positions of G, in the order of Before.        *)
Arrange(s, G, score) ==
  [k \in 1..Cardinality(G) |-> s[CHOOSE i \in G : Rank(G, score, i) = k]]

Unscored(s) == [i \in 1..Len(s) |-> 0]

(* dedupe: a Map keeps the position of a chunk's first copy ...            *)
Firsts(s) == {i \in 1..Len(s) : \A j \in 1..(i-1) : s[j] # s[i]}

(* ... and the highest score of its copies.                                *)
BestScore(s, score) ==
  [i \in 1..Len(s) |-> Max({score[j] : j \in {k \in 1..Len(s) : s[k] = s[i]}})]

(* dedupe followed by sortByScore                                          *)
Sorted(s, score) == Arrange(s, Firsts(s), BestScore(s, score))

(***************************************************************************)
(* pack: position i is admitted after the positions of G.  The first chunk *)
(* is always paid for; a later one that would exceed the budget is skipped *)
(* and the loop goes on; the loop stops once MaxChunks are packed.         *)
(***************************************************************************)
Spent(s, G) == MapThenSumSet(LAMBDA j : Cost[s[j]], G)

Admits(s, G, i) ==
  /\ Cardinality(G) < MaxChunks
  /\ G # {} => Spent(s, G) + Cost[s[i]] <= Budget

Packing(s, G) ==
  \A i \in 1..Len(s) : i \in G <=> Admits(s, G \cap 1..(i-1), i)

Packed(s) == CHOOSE G \in SUBSET (1..Len(s)) : Packing(s, G)

Pack(s) == Arrange(s, Packed(s), Unscored(s))

Build(s, score) == Pack(Sorted(s, score))

(***************************************************************************)
(* dedupeSources (src/agents/query/nodes/buildContext.ts): the first       *)
(* source of each chunk.                                                   *)
(***************************************************************************)
DedupeSources(s) == Arrange(s, Firsts(s), Unscored(s))
=============================================================================
