------------------------ MODULE ContextBuilderLoops ------------------------
(***************************************************************************)
(* The loops of ContextBuilder (src/rag/context/builder.ts) and of         *)
(* dedupeSources as the code runs them, one fold per for-statement.  TLC   *)
(* compares them with the declarative operators of ContextBuilder, which   *)
(* are the ones the query graph is built from, and QueryGraphProofs proves *)
(* that the two agree on every input.                                      *)
(***************************************************************************)
EXTENDS ContextBuilder, SequencesExt

CONSTANTS Scores, MaxInput   \* the inputs to compare on

ASSUME LoopsAssumption ==
  /\ Scores \subseteq Int
  /\ MaxInput \in Nat

VARIABLE input               \* the chunks handed to build, with their scores

Copies == [id : Chunks, score : Scores]

IdsOf(s)    == [i \in 1..Len(s) |-> s[i].id]
ScoresOf(s) == [i \in 1..Len(s) |-> s[i].score]

(* dedupe: Map.set on a key that is present keeps the key's position       *)
PositionOf(byId, id) == SelectInSeq(byId, LAMBDA e : e.id = id)

Put(byId, c) ==
  LET at == PositionOf(byId, c.id)
  IN  CASE at = 0 -> Append(byId, c)
        [] at # 0 /\ c.score > byId[at].score -> ReplaceAt(byId, at, c)
        [] OTHER -> byId

DedupeLoop(chunks) == FoldLeft(Put, <<>>, chunks)

(* sortByScore: a stable sort is an insertion after all entries of at      *)
(* least the same score                                                    *)
FirstBelow(out, score) == SelectInSeq(out, LAMBDA e : e.score < score)

InsertBefore(out, at, e) ==
  IF at = 0 THEN Append(out, e) ELSE InsertAt(out, at, e)

InsertUnstably(out, e) ==
  InsertBefore(out, SelectInSeq(out, LAMBDA x : x.score <= e.score), e)

Insert(out, e) == InsertBefore(out, FirstBelow(out, e.score), e)

SortLoop(entries) == FoldLeft(Insert, <<>>, entries)

PackLoopStopsEarly(sorted) ==
  LET step(acc, e) ==
        CASE acc.full -> acc
          [] /\ ~ acc.full
             /\ Len(acc.packed) > 0
             /\ acc.used + Cost[e.id] > Budget -> [acc EXCEPT !.full = TRUE]
          [] OTHER -> [packed |-> Append(acc.packed, e),
                       used   |-> acc.used + Cost[e.id],
                       full   |-> Len(acc.packed) + 1 >= MaxChunks]
  IN  FoldLeft(step, [packed |-> <<>>, used |-> 0, full |-> MaxChunks = 0],
               sorted).packed

(* pack: what an iteration does to the packed entries and the tokens used  *)
PackEntry(acc, e) ==
  IF \/ Len(acc.packed) >= MaxChunks
     \/ Len(acc.packed) > 0 /\ acc.used + Cost[e.id] > Budget
  THEN acc
  ELSE [packed |-> Append(acc.packed, e), used |-> acc.used + Cost[e.id]]

PackLoop(sorted) == FoldLeft(PackEntry, [packed |-> <<>>, used |-> 0], sorted).packed

BuildLoop(chunks) == IdsOf(PackLoop(SortLoop(DedupeLoop(chunks))))

(* dedupeSources: a Set of the ids seen, here the ids kept                 *)
KeepFirst(out, c) == IF Contains(out, c) THEN out ELSE Append(out, c)

DedupeSourcesLoop(sources) == FoldLeft(KeepFirst, <<>>, sources)

(***************************************************************************)
(* The inputs: every sequence of scored copies of length up to MaxInput.   *)
(***************************************************************************)
NoInput == input = <<>>
AddCopy(c, n) ==
  /\ Len(input) < MaxInput
  /\ input' = Append(input, [id |-> c, score |-> n])
NextInput == \E c \in Chunks, n \in Scores : AddCopy(c, n)
Inputs == NoInput /\ [][NextInput]_input

ids    == IdsOf(input)
scores == ScoresOf(input)

(***************************************************************************)
(* The loops of build and the declarative definition agree: dedupe by best *)
(* score, stable sort and greedy packing give the same chunks in the same  *)
(* marker order, whatever copies, ties and budget overruns the input has,  *)
(* and the loop of dedupeSources keeps the first source of every chunk.    *)
(***************************************************************************)
LoopsBuildTheContext ==
  /\ BuildLoop(input) = Build(ids, scores)
  /\ DedupeSourcesLoop(ids) = DedupeSources(ids)

(***************************************************************************)
(* What the loops of sorting and packing promise together: a chunk is left *)
(* out only when the cap was reached by chunks ranked above it, or when it *)
(* did not fit in the tokens that these had used, and the first chunk is   *)
(* never left out for its tokens.  "Subsequent chunks are skipped if       *)
(* adding them would exceed the budget" (builder.ts:111): a skipped chunk  *)
(* does not end the packing for those below it.                            *)
(***************************************************************************)
SkippedOnlyForBudget ==
  LET sorted == IdsOf(SortLoop(DedupeLoop(input)))
      packed == ToSet(BuildLoop(input))
      above(i) == {j \in 1..(i-1) : sorted[j] \in packed}
  IN  \A i \in DOMAIN sorted :
        sorted[i] \notin packed =>
          \/ Cardinality(above(i)) = MaxChunks
          \/ /\ above(i) # {}
             /\ Spent(sorted, above(i)) + Cost[sorted[i]] > Budget
=============================================================================
