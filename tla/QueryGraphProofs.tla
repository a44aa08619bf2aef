-------------------------- MODULE QueryGraphProofs --------------------------
(***************************************************************************)
(* Safety of the query agent for every set of sessions, turns and chunks,  *)
(* any topK, any overlap of the turns of a session and any number of       *)
(* crashes.  The inductive invariant says of every channel record that is  *)
(* anywhere in the system that it is well-typed and well cited, and of     *)
(* every running turn that its channels hold its own query, its own answer *)
(* once generate has run, and a verdict on it once evaluate has made one.  *)
(*                                                                         *)
(* It rests on what the operators of ContextBuilder return, for every      *)
(* input, which comes first.  The last part shows that the loops of the    *)
(* context builder compute what those operators declare.                   *)
(***************************************************************************)
EXTENDS QueryGraph, ContextBuilderLoops, CountingProofs

(***************************************************************************)
(* The ranks of the positions of G run through 1..Cardinality(G), one      *)
(* position for each: Before is a strict total order on positions.         *)
(***************************************************************************)
LEMMA RanksAreOneToOne ==
  ASSUME NEW n \in Nat, NEW G \in SUBSET (1..n), NEW score \in [1..n -> Int]
  PROVE  /\ IsFiniteSet(G)
         /\ Cardinality(G) \in Nat
         /\ \A i \in G : Rank(G, score, i) \in 1..Cardinality(G)
         /\ \A i, j \in G : Rank(G, score, i) = Rank(G, score, j) => i = j
         /\ \A k \in 1..Cardinality(G) : \E i \in G : Rank(G, score, i) = k
<1> DEFINE upto(i) == {j \in G : j = i \/ Before(score, j, i)}
<1>1. IsFiniteSet(G) /\ Cardinality(G) \in Nat
  <2>1. IsFiniteSet(1..n)  BY FS_Interval
  <2>2. IsFiniteSet(G)     BY <2>1, FS_Subset
  <2>3. QED  BY <2>2, FS_CardinalityType
<1>2. \A i \in G : /\ IsFiniteSet(upto(i))
                   /\ Cardinality(upto(i)) \in 1..Cardinality(G)
  <2> TAKE i \in G
  <2>1. upto(i) \in SUBSET G /\ i \in upto(i)
    OBVIOUS
  <2>2. IsFiniteSet(upto(i)) /\ Cardinality(upto(i)) <= Cardinality(G)
    BY <1>1, <2>1, FS_Subset
  <2>3. Cardinality(upto(i)) \in Nat /\ Cardinality(upto(i)) # 0
    BY <2>1, <2>2, FS_CardinalityType, FS_EmptySet
  <2>4. QED  BY <1>1, <2>2, <2>3
<1>3. \A i \in G : i \in Int /\ score[i] \in Int
  OBVIOUS
<1>4. /\ \A i, j, k \in G : Before(score, k, i) /\ Before(score, i, j)
                               => Before(score, k, j)
      /\ \A i, j \in G : ~ (Before(score, i, j) /\ Before(score, j, i))
      /\ \A i \in G : ~ Before(score, i, i)
      /\ \A i, j \in G : i = j \/ Before(score, i, j) \/ Before(score, j, i)
  BY <1>3 DEF Before
<1>5. \A i, j \in G : Before(score, i, j) =>
                        Cardinality(upto(i)) < Cardinality(upto(j))
  <2> SUFFICES ASSUME NEW i \in G, NEW j \in G, Before(score, i, j)
               PROVE  Cardinality(upto(i)) < Cardinality(upto(j))
    OBVIOUS
  <2>1. upto(i) \subseteq upto(j)
    BY <1>4
  <2>2. j \in upto(j) /\ j \notin upto(i)
    BY <1>4
  <2>3. upto(i) \in SUBSET upto(j) /\ upto(i) # upto(j)
    BY <2>1, <2>2
  <2> HIDE DEF upto
  <2>4. /\ Cardinality(upto(i)) <= Cardinality(upto(j))
        /\ Cardinality(upto(i)) # Cardinality(upto(j))
    BY <1>2, <2>3, FS_Subset
  <2>5. Cardinality(upto(i)) \in Int /\ Cardinality(upto(j)) \in Int
    BY <1>1, <1>2
  <2>6. QED  BY <2>4, <2>5
<1>6. \A i, j \in G : Cardinality(upto(i)) = Cardinality(upto(j)) => i = j
  <2> SUFFICES ASSUME NEW i \in G, NEW j \in G, i # j
               PROVE  Cardinality(upto(i)) # Cardinality(upto(j))
    OBVIOUS
  <2> HIDE DEF upto
  <2>1. Cardinality(upto(i)) \in Int /\ Cardinality(upto(j)) \in Int
    BY <1>1, <1>2
  <2>2. \/ Cardinality(upto(i)) < Cardinality(upto(j))
        \/ Cardinality(upto(j)) < Cardinality(upto(i))
    <3>1. CASE Before(score, i, j)  BY <1>5, <3>1
    <3>2. CASE Before(score, j, i)  BY <1>5, <3>2
    <3>3. QED  BY <1>4, <3>1, <3>2
  <2>3. QED  BY <2>1, <2>2
<1> DEFINE r == [i \in G |-> Cardinality(upto(i))]
<1>7. r \in Injection(G, 1..Cardinality(G))
  BY <1>2, <1>6 DEF Injection, IsInjective
<1>8. r \in Surjection(G, 1..Cardinality(G))
  <2>1. /\ IsFiniteSet(1..Cardinality(G))
        /\ Cardinality(1..Cardinality(G)) = Cardinality(G)
    BY <1>1, FS_Interval
  <2>2. QED  BY <1>7, <2>1, FS_Injection
<1>9. \A k \in 1..Cardinality(G) : \E i \in G : Cardinality(upto(i)) = k
  BY <1>8 DEF Surjection
<1>10. QED
  BY <1>1, <1>2, <1>6, <1>9 DEF Rank

(***************************************************************************)
(* Arrange permutes the elements at the positions of G.                    *)
(***************************************************************************)
LEMMA ArrangePermutes ==
  ASSUME NEW S, NEW s \in Seq(S), NEW G \in SUBSET (1..Len(s)),
         NEW score \in [1..Len(s) -> Int]
  PROVE  /\ Arrange(s, G, score) \in Seq(S)
         /\ Len(Arrange(s, G, score)) = Cardinality(G)
         /\ Cardinality(G) \in Nat
         /\ Range(Arrange(s, G, score)) = {s[i] : i \in G}
         /\ (\A i, j \in G : s[i] = s[j] => i = j)
              => IsInjective(Arrange(s, G, score))
<1> DEFINE n == Cardinality(G)
           at(k) == CHOOSE i \in G : Rank(G, score, i) = k
           a == Arrange(s, G, score)
<1>1. Len(s) \in Nat /\ \A i \in G : s[i] \in S
  OBVIOUS
<1>2. /\ n \in Nat
      /\ \A i \in G : Rank(G, score, i) \in 1..n
      /\ \A i, j \in G : Rank(G, score, i) = Rank(G, score, j) => i = j
      /\ \A k \in 1..n : \E i \in G : Rank(G, score, i) = k
  BY <1>1, RanksAreOneToOne
<1>3. \A k \in 1..n : at(k) \in G /\ Rank(G, score, at(k)) = k
  BY <1>2
<1>4. \A i \in G : at(Rank(G, score, i)) = i
  BY <1>2, <1>3
<1>5. a = [k \in 1..n |-> s[at(k)]]
  BY DEF Arrange
<1> HIDE DEF n, at, a
<1>6. a \in [1..n -> S]
  BY <1>1, <1>3, <1>5
<1>7. a \in Seq(S) /\ Len(a) = n
  BY <1>2, <1>6
<1>8. Range(a) = {s[i] : i \in G}
  <2>1. ASSUME NEW x \in Range(a)  PROVE x \in {s[i] : i \in G}
    BY <1>3, <1>5, <2>1 DEF Range
  <2>2. ASSUME NEW i \in G  PROVE s[i] \in Range(a)
    BY <1>2, <1>4, <1>5 DEF Range
  <2>3. QED  BY <2>1, <2>2
<1>9. ASSUME \A i, j \in G : s[i] = s[j] => i = j
      PROVE  IsInjective(a)
  <2>1. \A k, l \in 1..n : s[at(k)] = s[at(l)] => k = l
    BY <1>3, <1>9
  <2>2. QED  BY <1>5, <2>1 DEF IsInjective
<1>10. QED
  BY <1>2, <1>7, <1>8, <1>9 DEF n, a

(***************************************************************************)
(* The first copies name every element of s, and each only once.           *)
(***************************************************************************)
LEMMA FirstsCover ==
  ASSUME NEW S, NEW s \in Seq(S)
  PROVE  /\ Firsts(s) \in SUBSET (1..Len(s))
         /\ {s[i] : i \in Firsts(s)} = Range(s)
         /\ \A i, j \in Firsts(s) : s[i] = s[j] => i = j
<1>1. Firsts(s) \in SUBSET (1..Len(s))
  BY DEF Firsts
<1>2. ASSUME NEW k \in 1..Len(s)
      PROVE  \E i \in Firsts(s) : s[i] = s[k]
  <2> DEFINE T == {i \in 1..Len(s) : s[i] = s[k]}
  <2>1. T \in SUBSET Nat /\ T # {}
    OBVIOUS
  <2>2. PICK m \in T : \A i \in T : m <= i
    BY <2>1, LeastNatural
  <2>3. \A j \in 1..(m-1) : s[j] # s[m]
    BY <2>2
  <2>4. QED  BY <2>2, <2>3 DEF Firsts
<1>3. {s[i] : i \in Firsts(s)} = Range(s)
  BY <1>1, <1>2 DEF Range
<1>4. \A i, j \in Firsts(s) : i < j => s[i] # s[j]
  BY DEF Firsts
<1>5. \A i, j \in Firsts(s) : i = j \/ i < j \/ j < i
  BY <1>1
<1>6. QED
  BY <1>1, <1>3, <1>4, <1>5

(* Unscored chunks all have a score.                                       *)
LEMMA UnscoredType ==
  ASSUME NEW S, NEW s \in Seq(S)
  PROVE  Unscored(s) \in [1..Len(s) -> Int]
BY DEF Unscored

(* dedupeSources names the same chunks, each once.                         *)
LEMMA DedupeSourcesCovers ==
  ASSUME NEW S, NEW s \in Seq(S)
  PROVE  /\ DedupeSources(s) \in Seq(S)
         /\ Range(DedupeSources(s)) = Range(s)
<1>1. /\ Firsts(s) \in SUBSET (1..Len(s))
      /\ {s[i] : i \in Firsts(s)} = Range(s)
  BY FirstsCover
<1>2. Unscored(s) \in [1..Len(s) -> Int]
  BY UnscoredType
<1>3. /\ Arrange(s, Firsts(s), Unscored(s)) \in Seq(S)
      /\ Range(Arrange(s, Firsts(s), Unscored(s))) = {s[i] : i \in Firsts(s)}
  BY <1>1, <1>2, ArrangePermutes
<1>4. QED
  BY <1>1, <1>3 DEF DedupeSources

(***************************************************************************)
(* dedupe and sortByScore keep every chunk, once.                          *)
(***************************************************************************)
LEMMA SortedCovers ==
  ASSUME NEW S, NEW s \in Seq(S)
  PROVE  /\ Sorted(s, Unscored(s)) \in Seq(S)
         /\ Range(Sorted(s, Unscored(s))) = Range(s)
         /\ IsInjective(Sorted(s, Unscored(s)))
<1> DEFINE best == BestScore(s, Unscored(s))
<1>1. ASSUME NEW i \in 1..Len(s)  PROVE best[i] = 0
  <2>1. {Unscored(s)[j] : j \in {k \in 1..Len(s) : s[k] = s[i]}} = {0}
    BY DEF Unscored
  <2>2. Max({0}) = 0
    BY DEF Max
  <2>3. QED  BY <2>1, <2>2 DEF BestScore
<1>2. best \in [1..Len(s) -> Int]
  BY <1>1 DEF BestScore
<1>3. /\ Firsts(s) \in SUBSET (1..Len(s))
      /\ {s[i] : i \in Firsts(s)} = Range(s)
      /\ \A i, j \in Firsts(s) : s[i] = s[j] => i = j
  BY FirstsCover
<1> HIDE DEF best
<1>4. /\ Arrange(s, Firsts(s), best) \in Seq(S)
      /\ Range(Arrange(s, Firsts(s), best)) = {s[i] : i \in Firsts(s)}
      /\ IsInjective(Arrange(s, Firsts(s), best))
  BY <1>2, <1>3, ArrangePermutes
<1>5. Sorted(s, Unscored(s)) = Arrange(s, Firsts(s), best)
  BY DEF Sorted, best
<1>6. QED
  BY <1>3, <1>4, <1>5

(***************************************************************************)
(* A packing exists: the loop of pack always ends with one.  Extending the *)
(* packing of the first m-1 positions by position m, or not, gives the     *)
(* packing of the first m.                                                 *)
(***************************************************************************)
LEMMA PackingExists ==
  ASSUME NEW S, NEW s \in Seq(S)
  PROVE  \E G \in SUBSET (1..Len(s)) : Packing(s, G)
<1> DEFINE n == Len(s)
           upto(G, m) == \A i \in 1..m : i \in G <=> Admits(s, G \cap 1..(i-1), i)
           Good(m) == \E G \in SUBSET (1..m) : upto(G, m)
           Stuck == {m \in 0..n : ~ Good(m)}
<1>1. n \in Nat
  OBVIOUS
<1>2. Good(0)
  <2>1. {} \in SUBSET (1..0) /\ upto({}, 0)
    OBVIOUS
  <2>2. QED  BY <2>1
<1>3. ASSUME NEW m \in 1..n, Good(m - 1)
      PROVE  Good(m)
  <2>1. PICK G \in SUBSET (1..(m-1)) : upto(G, m - 1)
    BY <1>3
  <2> DEFINE H == IF Admits(s, G, m) THEN G \cup {m} ELSE G
  <2>2. m \in Int /\ H \in SUBSET (1..m)
    BY <1>1
  <2>3. \A i \in 1..m : H \cap 1..(i-1) = G \cap 1..(i-1)
    BY <2>2
  <2>4. G \cap 1..(m-1) = G /\ m \notin G
    <3>1. \A j \in G : j \in 1..(m-1) /\ j < m
      BY <2>2
    <3>2. m \notin G
      BY <3>1
    <3>3. G \cap 1..(m-1) = G
      BY Zenon
    <3>4. QED  BY <3>2, <3>3
  <2>5. m \in H <=> Admits(s, G, m)
    BY <2>4
  <2>6. \A i \in 1..(m-1) : i \in H <=> i \in G
    BY <2>2
  <2> HIDE DEF H
  <2>7. ASSUME NEW i \in 1..m
        PROVE  i \in H <=> Admits(s, H \cap 1..(i-1), i)
    <3>1. CASE i = m
      <4>1. H \cap 1..(i-1) = G  BY <2>3, <2>4, <3>1
      <4>2. QED  BY <2>5, <3>1, <4>1
    <3>2. CASE i # m
      <4>1. i \in 1..(m-1)  BY <2>2, <3>2
      <4>2. i \in G <=> Admits(s, G \cap 1..(i-1), i)  BY <2>1, <4>1
      <4>3. QED  BY <2>3, <2>6, <4>1, <4>2
    <3>3. QED  BY <3>1, <3>2
  <2>8. QED
    BY <2>2, <2>7
<1> HIDE DEF Good, n
<1>4. Stuck = {}
  <2>1. SUFFICES ASSUME Stuck # {}  PROVE FALSE
    OBVIOUS
  <2>2. Stuck \in SUBSET Nat
    BY <1>1
  <2>3. \E m \in Stuck : \A k \in Stuck : m <= k
    <3> HIDE DEF Stuck
    <3>1. QED  BY <2>1, <2>2, LeastNatural
  <2>4. PICK m \in Stuck : \A k \in Stuck : m <= k
    BY <2>3
  <2>5. m \in 0..n /\ ~ Good(m) /\ m # 0
    BY <1>2
  <2>6. m \in 1..n /\ m - 1 \in 0..n /\ ~ (m <= m - 1)
    BY <1>1, <2>5
  <2>7. Good(m - 1)
    BY <2>4, <2>6
  <2>8. QED
    BY <1>3, <2>5, <2>6, <2>7
<1>5. Good(n)
  BY <1>1, <1>4
<1>6. QED
  BY <1>5 DEF Good, n, Packing

(***************************************************************************)
(* What pack leaves: chunks of s, at most MaxChunks of them, and none      *)
(* twice when s has none twice.                                            *)
(***************************************************************************)
LEMMA PackBounds ==
  ASSUME NEW S, NEW s \in Seq(S)
  PROVE  /\ Pack(s) \in Seq(S)
         /\ Range(Pack(s)) \subseteq Range(s)
         /\ Len(Pack(s)) <= MaxChunks
         /\ IsInjective(s) => IsInjective(Pack(s))
<1> DEFINE G == Packed(s)
           zero == Unscored(s)
<1>1. G \in SUBSET (1..Len(s)) /\ Packing(s, G)
  BY PackingExists DEF Packed
<1>2. zero \in [1..Len(s) -> Int]
  BY UnscoredType
<1>3. Pack(s) = Arrange(s, G, zero)
  BY DEF Pack
<1> HIDE DEF G
<1>4. /\ Pack(s) \in Seq(S)
      /\ Len(Pack(s)) = Cardinality(G)
      /\ Cardinality(G) \in Nat
      /\ Range(Pack(s)) = {s[i] : i \in G}
      /\ (\A i, j \in G : s[i] = s[j] => i = j) => IsInjective(Pack(s))
  <2>1. PICK n \in Nat : n = Len(s) /\ s \in [1..n -> S]
    OBVIOUS
  <2>2. G \in SUBSET (1..n) /\ zero \in [1..n -> Int]
    BY <1>1, <1>2, <2>1
  <2> HIDE DEF zero
  <2>3. /\ Arrange(s, G, zero) \in Seq(S)
        /\ Len(Arrange(s, G, zero)) = Cardinality(G)
        /\ Cardinality(G) \in Nat
        /\ Range(Arrange(s, G, zero)) = {s[i] : i \in G}
        /\ (\A i, j \in G : s[i] = s[j] => i = j) => IsInjective(Arrange(s, G, zero))
    BY <2>1, <2>2, ArrangePermutes
  <2>4. QED  BY <1>3, <2>3
<1>5. Range(Pack(s)) \subseteq Range(s)
  BY <1>1, <1>4 DEF Range
<1>6. IsInjective(s) => IsInjective(Pack(s))
  BY <1>1, <1>4 DEF IsInjective
<1>7. Cardinality(G) <= MaxChunks
  <2>1. CASE G = {}
    BY <2>1, FS_EmptySet, BuilderAssumption
  <2>2. CASE G # {}
    <3>1. Cardinality(G) # 0 /\ IsFiniteSet(G)
      BY <1>1, <1>2, <2>2, RanksAreOneToOne, FS_EmptySet
    <3>2. \E i \in G : Rank(G, zero, i) = Cardinality(G)
      <4> HIDE DEF zero
      <4>1. \A k \in 1..Cardinality(G) : \E i \in G : Rank(G, zero, i) = k
        BY <1>1, <1>2, RanksAreOneToOne
      <4>2. QED  BY <1>4, <3>1, <4>1
    <3> PICK i \in G : Rank(G, zero, i) = Cardinality(G)
      BY <3>2
    <3>3. {j \in G : j = i \/ Before(zero, j, i)} = G
      BY <3>1, <3>2, FS_Subset DEF Rank
    <3>4. \A j \in G : j <= i
      BY <1>1, <3>3 DEF Before, Unscored
    <3>5. G = (G \cap 1..(i-1)) \cup {i}
      <4>1. \A j \in G : j \in Nat /\ 1 <= j
        BY <1>1
      <4>2. QED  BY <3>4, <4>1
    <3>6. Cardinality(G \cap 1..(i-1)) < MaxChunks
      BY <1>1 DEF Packing, Admits
    <3>7. /\ IsFiniteSet(G \cap 1..(i-1))
          /\ Cardinality(G \cap 1..(i-1)) \in Nat
      BY <3>1, FS_Subset, FS_CardinalityType
    <3>8. Cardinality(G) = Cardinality(G \cap 1..(i-1)) + 1
      <4>1. i \notin G \cap 1..(i-1)
        BY <1>1
      <4>2. QED  BY <3>5, <3>7, <4>1, FS_AddElement
    <3>9. QED
      BY <3>6, <3>7, <3>8, BuilderAssumption
  <2>3. QED  BY <2>1, <2>2
<1>8. QED
  BY <1>4, <1>5, <1>6, <1>7

(***************************************************************************)
(* The context built from unscored chunks: some of them, each at most once *)
(* and at most MaxChunks.                                                  *)
(***************************************************************************)
THEOREM BuildBounds ==
  ASSUME NEW S, NEW s \in Seq(S)
  PROVE  /\ Build(s, Unscored(s)) \in Seq(S)
         /\ Range(Build(s, Unscored(s))) \subseteq Range(s)
         /\ Len(Build(s, Unscored(s))) <= MaxChunks
         /\ IsInjective(Build(s, Unscored(s)))
<1> DEFINE sorted == Sorted(s, Unscored(s))
<1>1. sorted \in Seq(S) /\ Range(sorted) = Range(s) /\ IsInjective(sorted)
  BY SortedCovers
<1>2. Build(s, Unscored(s)) = Pack(sorted)
  BY DEF Build
<1> HIDE DEF sorted
<1>3. QED
  BY <1>1, <1>2, PackBounds

(***************************************************************************)
(* A chunk is left out of the context only when the cap was reached by the *)
(* chunks packed before it or it does not fit beside them: a chunk that is *)
(* skipped never ends the packing (builder.ts, pack).                      *)
(***************************************************************************)
THEOREM SkipsOnlyWhatDoesNotFit ==
  ASSUME NEW S, NEW s \in Seq(S), NEW i \in (1..Len(s)) \ Packed(s)
  PROVE  LET before == Packed(s) \cap 1..(i-1)
         IN  \/ Cardinality(before) = MaxChunks
             \/ /\ before # {}
                /\ ~ (Spent(s, before) + Cost[s[i]] <= Budget)
<1> DEFINE before == Packed(s) \cap 1..(i-1)
<1>1. PICK G : G = Packed(s)
  OBVIOUS
<1>2. G \in SUBSET (1..Len(s)) /\ Packing(s, G)
  BY <1>1, PackingExists DEF Packed
<1>3. ~ Admits(s, before, i)
  BY <1>1, <1>2 DEF Packing
<1>4. Len(Pack(s)) <= MaxChunks
  BY PackBounds
<1>5. IsFiniteSet(G)
  <2>1. \A n \in Nat : IsFiniteSet(1..n)
    BY FS_Interval
  <2>2. IsFiniteSet(1..Len(s))
    BY <2>1
  <2> QED
    BY <1>2, <2>2, FS_Subset
<1>6. Len(Pack(s)) = Cardinality(G) /\ Cardinality(G) \in Nat
  <2>1. Cardinality(G) \in Nat
    BY <1>5, FS_CardinalityType
  <2> QED
    BY <1>1, <2>1 DEF Pack, Arrange
<1>7. before \in SUBSET G
  BY <1>1
<1>8. Cardinality(before) <= Cardinality(G) /\ Cardinality(before) \in Nat
  <2>1. IsFiniteSet(before) /\ Cardinality(before) <= Cardinality(G)
    BY <1>5, <1>7, FS_Subset
  <2> QED
    BY <2>1, FS_CardinalityType
<1> HIDE DEF before
<1>9. CASE ~ (Cardinality(before) < MaxChunks)
  <2>1. Cardinality(before) = MaxChunks
    BY <1>4, <1>6, <1>8, <1>9, BuilderAssumption
  <2> QED
    BY <2>1 DEF before
<1>10. CASE Cardinality(before) < MaxChunks
  <2>1. before # {} /\ ~ (Spent(s, before) + Cost[s[i]] <= Budget)
    BY <1>3, <1>10 DEF Admits
  <2> QED
    BY <2>1 DEF before
<1> QED
  BY <1>9, <1>10
-----------------------------------------------------------------------------
Sound(c) ==
  /\ c \in Channels
  /\ WellCited(c)
  /\ Range(c.reranked) \subseteq Range(c.retrieved)

AllSound ==
  /\ checkpoint \in [Sessions -> {c \in Channels : Sound(c)}]
  /\ chan \in [Turns -> {c \in Channels : Sound(c)}]
  /\ reply \in [Turns -> {c \in Channels : Sound(c)}]

OwnVerdict(c, t) == c.evaluated => c.evaluation = t

OwnChannels ==
  \A t \in Turns :
    /\ pc[t] \in Running => chan[t].query = t
    /\ pc[t] \in {"evaluate", "respond"} => chan[t].answer = t
    /\ pc[t] = "respond" => OwnVerdict(chan[t], t)

Inv ==
  /\ AllSound
  /\ pc \in [Turns -> {"new"} \cup Running \cup Ended]
  /\ crashes \in Nat
  /\ OwnChannels
  /\ RepliesToOwnQuery
-----------------------------------------------------------------------------
(* A concatenation is a sequence over the same set and holds what its      *)
(* parts hold.                                                             *)
LEMMA RangeOfConcat ==
  ASSUME NEW S, NEW s \in Seq(S), NEW u \in Seq(S)
  PROVE  s \o u \in Seq(S) /\ Range(s \o u) = Range(s) \cup Range(u)
<1>1. /\ s \o u \in Seq(S)
      /\ Len(s \o u) = Len(s) + Len(u)
      /\ \A i \in 1..Len(s) : (s \o u)[i] = s[i]
      /\ \A i \in 1..Len(u) : (s \o u)[Len(s) + i] = u[i]
  OBVIOUS
<1>2. ASSUME NEW x \in Range(s \o u)  PROVE x \in Range(s) \cup Range(u)
  <2>1. PICK i \in 1..(Len(s) + Len(u)) : x = (s \o u)[i]
    BY <1>1, <1>2 DEF Range
  <2>2. CASE i <= Len(s)
    BY <1>1, <2>1, <2>2 DEF Range
  <2>3. CASE i > Len(s)
    <3>1. i - Len(s) \in 1..Len(u) /\ i = Len(s) + (i - Len(s))
      BY <2>1, <2>3
    <3>2. x = u[i - Len(s)]
      BY <1>1, <2>1, <3>1
    <3>3. QED  BY <3>1, <3>2 DEF Range
  <2>4. QED  BY <2>1, <2>2, <2>3
<1>3. Range(s) \subseteq Range(s \o u)
  BY <1>1 DEF Range
<1>4. ASSUME NEW i \in 1..Len(u)  PROVE u[i] \in Range(s \o u)
  <2>1. Len(s) + i \in 1..Len(s \o u)
    BY <1>1
  <2>2. QED  BY <1>1, <2>1 DEF Range
<1>5. Range(u) \subseteq Range(s \o u)
  BY <1>4 DEF Range
<1>6. QED
  BY <1>1, <1>2, <1>3, <1>5

(* What retrieval returns is a sequence of chunks.                         *)
LEMMA HitsAreSeqs ==
  ASSUME NEW h \in Hits
  PROVE  h \in Seq(Chunks) /\ Len(h) \in Nat
BY GraphAssumption DEF Hits

(* Reranking returns a sequence of some of the chunks it is given.         *)
LEMMA RerankingsAreDrawn ==
  ASSUME NEW s \in Seq(Chunks), NEW r \in RerankedSeqs(s)
  PROVE  r \in Seq(Chunks) /\ Range(r) \subseteq Range(s)
<1>1. CASE ~ RerankerEnabled
  BY <1>1 DEF RerankedSeqs
<1>2. CASE RerankerEnabled
  <2>1. PICK p \in Rankings(Len(s)) : r = [i \in DOMAIN p |-> s[p[i]]]
    BY <1>2 DEF RerankedSeqs
  <2>2. Least(RerankTopK, Len(s)) \in Nat
    BY GraphAssumption DEF Least
  <2>3. p \in [1..Least(RerankTopK, Len(s)) -> 1..Len(s)]
    BY <2>1 DEF Rankings
  <2>4. r \in [1..Least(RerankTopK, Len(s)) -> Chunks]
    BY <2>1, <2>3
  <2>5. Range(r) \subseteq Range(s)
    BY <2>1, <2>3 DEF Range
  <2>6. QED  BY <2>2, <2>4, <2>5
<1>3. QED  BY <1>1, <1>2, GraphAssumption
-----------------------------------------------------------------------------
(* The channels of a thread without a checkpoint are sound.                *)
LEMMA EmptyIsSound == Sound(EmptyChannels)
<1>1. EmptyChannels \in Channels
  BY DEF EmptyChannels, Channels
<1>2. QED
  BY <1>1, BuilderAssumption
  DEF Sound, WellCited, EmptyChannels, Range, IsInjective

(* Writing the input keeps channels sound and sets the query.              *)
LEMMA InputIsSound ==
  ASSUME NEW c, Sound(c), NEW t \in Turns
  PROVE  Sound(Input(c, t)) /\ Input(c, t).query = t
BY DEF Sound, WellCited, Channels, Input

(* understand keeps channels sound.                                        *)
LEMMA UnderstoodIsSound ==
  ASSUME NEW c, Sound(c), c.query \in Turns
  PROVE  Sound(Understood(c)) /\ Understood(c).query = c.query
<1>1. Human(c.query) \in Messages
  BY DEF Human, Messages
<1>2. c \in Channels
  BY DEF Sound
<1>3. Append(c.messages, Human(c.query)) \in Seq(Messages)
  BY <1>1, <1>2 DEF Channels
<1>4. QED
  BY <1>2, <1>3 DEF Sound, WellCited, Channels, Understood

(* retrieve keeps channels sound: it appends the same chunks to the        *)
(* retrieved chunks and to the sources.                                    *)
LEMMA RetrievedIsSound ==
  ASSUME NEW c, Sound(c), NEW h \in Hits
  PROVE  Sound(Retrieved(c, h)) /\ Retrieved(c, h).query = c.query
<1>1. c \in Channels /\ WellCited(c)
  BY DEF Sound
<1>2. /\ c.retrieved \o h \in Seq(Chunks)
      /\ Range(c.retrieved \o h) = Range(c.retrieved) \cup Range(h)
      /\ c.sources \o h \in Seq(Chunks)
      /\ Range(c.sources \o h) = Range(c.sources) \cup Range(h)
  BY <1>1, HitsAreSeqs, RangeOfConcat DEF Channels
<1>3. Len(h) \in Nat
  BY HitsAreSeqs
<1> DEFINE d == Retrieved(c, h)
<1>4. /\ d \in Channels
      /\ d.query = c.query /\ d.context = c.context /\ d.reranked = c.reranked
      /\ d.retrieved = c.retrieved \o h /\ d.sources = c.sources \o h
  BY <1>1, <1>2, <1>3 DEF Channels, Retrieved
<1> HIDE DEF d
<1>5. Sound(d)
  BY <1>1, <1>2, <1>4 DEF Sound, WellCited
<1>6. QED
  BY <1>4, <1>5 DEF d

(* rerank keeps channels sound, whatever it keeps of the chunks.           *)
LEMMA RerankedIsSound ==
  ASSUME NEW c, Sound(c), NEW r \in RerankedSeqs(c.retrieved)
  PROVE  Sound(Reranked(c, r)) /\ Reranked(c, r).query = c.query
<1>1. c \in Channels /\ WellCited(c)
  BY DEF Sound
<1>2. r \in Seq(Chunks) /\ Range(r) \subseteq Range(c.retrieved)
  BY <1>1, RerankingsAreDrawn DEF Channels
<1>3. QED
  BY <1>1, <1>2 DEF Sound, WellCited, Channels, Reranked

(* The context is made of reranked chunks, holds none twice and keeps to   *)
(* the cap.                                                                *)
LEMMA ContextIsDrawn ==
  ASSUME NEW c \in Channels
  PROVE  /\ Context(c) \in Seq(Chunks)
         /\ Range(Context(c)) \subseteq Range(c.reranked)
         /\ Len(Context(c)) <= MaxChunks
         /\ IsInjective(Context(c))
<1>1. c.reranked \in Seq(Chunks)
  BY DEF Channels
<1>2. CASE c.reranked = <<>>
  BY <1>2, BuilderAssumption DEF Context, Range, IsInjective
<1>3. CASE c.reranked # <<>>
  BY <1>1, <1>3, BuildBounds DEF Context
<1>4. QED  BY <1>2, <1>3

(* buildContext keeps channels sound: the sources it appends name every    *)
(* chunk of its context and nothing that was not retrieved.                *)
LEMMA BuiltIsSound ==
  ASSUME NEW c, Sound(c)
  PROVE  Sound(Built(c)) /\ Built(c).query = c.query
<1> DEFINE ctx == Context(c)
           new == DedupeSources(ctx \o c.sources)
           d   == Built(c)
<1>1. c \in Channels /\ WellCited(c)
      /\ Range(c.reranked) \subseteq Range(c.retrieved)
  BY DEF Sound
<1>2. /\ ctx \in Seq(Chunks)
      /\ Range(ctx) \subseteq Range(c.reranked)
      /\ Len(ctx) <= MaxChunks
      /\ IsInjective(ctx)
  BY <1>1, ContextIsDrawn
<1>3. c.sources \in Seq(Chunks)
  BY <1>1 DEF Channels
<1> HIDE DEF ctx
<1>4. /\ ctx \o c.sources \in Seq(Chunks)
      /\ Range(ctx \o c.sources) = Range(ctx) \cup Range(c.sources)
  BY <1>2, <1>3, RangeOfConcat
<1>5. new \in Seq(Chunks) /\ Range(new) = Range(ctx) \cup Range(c.sources)
  BY <1>4, DedupeSourcesCovers
<1> HIDE DEF new
<1>6. /\ c.sources \o new \in Seq(Chunks)
      /\ Range(c.sources \o new) = Range(c.sources) \cup Range(new)
  BY <1>3, <1>5, RangeOfConcat
<1>7. /\ d \in Channels
      /\ d.query = c.query /\ d.context = ctx /\ d.reranked = c.reranked
      /\ d.retrieved = c.retrieved /\ d.sources = c.sources \o new
  BY <1>1, <1>2, <1>6 DEF Channels, Built, ctx, new
<1> HIDE DEF d
<1>8. Sound(d)
  BY <1>1, <1>2, <1>5, <1>6, <1>7 DEF Sound, WellCited
<1>9. QED
  BY <1>7, <1>8 DEF d

(* generate keeps channels sound and answers the query in them.            *)
LEMMA GeneratedIsSound ==
  ASSUME NEW c, Sound(c), c.query \in Turns
  PROVE  /\ Sound(Generated(c))
         /\ Generated(c).query = c.query
         /\ Generated(c).answer = c.query
<1>1. c \in Channels
  BY DEF Sound
<1>2. Append(c.messages, AI(c.query)) \in Seq(Messages)
  BY <1>1 DEF AI, Messages, Channels
<1>3. QED
  BY <1>1, <1>2 DEF Sound, WellCited, Channels, Generated

(* The verdict of evaluate keeps channels sound and is on the answer in    *)
(* them.                                                                   *)
LEMMA JudgedIsSound ==
  ASSUME NEW c, Sound(c), NEW v \in BOOLEAN
  PROVE  /\ Sound(Judged(c, v))
         /\ Judged(c, v).query = c.query
         /\ Judged(c, v).answer = c.answer
         /\ OwnVerdict(Judged(c, v), c.answer)
<1>1. c \in Channels
  BY DEF Sound
<1>2. QED
  BY <1>1 DEF Sound, WellCited, Channels, Judged, OwnVerdict

(* So do channels that are marked to have no verdict.                      *)
LEMMA UnjudgedIsSound ==
  ASSUME NEW c, Sound(c)
  PROVE  /\ Sound(Unjudged(c))
         /\ Unjudged(c).query = c.query
         /\ Unjudged(c).answer = c.answer
         /\ Unjudged(c).messages = c.messages
         /\ OwnVerdict(Unjudged(c), c.answer)
<1>1. c \in Channels
  BY DEF Sound
<1>2. QED
  BY <1>1 DEF Sound, WellCited, Channels, Unjudged, OwnVerdict
-----------------------------------------------------------------------------
(* The invariant holds initially.                                          *)
LEMMA InitEstablishesInv == Init => Inv
<1> SUFFICES ASSUME Init PROVE Inv
  OBVIOUS
<1>1. EmptyChannels \in {c \in Channels : Sound(c)}
  BY EmptyIsSound DEF Sound
<1>2. AllSound
  BY <1>1 DEF Init, AllSound
<1>3. QED
  BY <1>2 DEF Init, Inv, OwnChannels, RepliesToOwnQuery, Running, Nodes

(* A node whose update is sound, keeps the query and, when it leads to     *)
(* evaluate or respond, leaves the turn's own answer and no verdict on     *)
(* another, preserves Inv.                                                 *)
LEMMA SuperstepPreservesInv ==
  ASSUME Inv, NEW t \in Turns, NEW n \in Nodes, NEW c,
         Superstep(t, n, c), Sound(c), c.query = t,
         n \in {"generate", "evaluate"} => c.answer = t,
         n = "evaluate" => OwnVerdict(c, t)
  PROVE  Inv'
<1>1. c \in {d \in Channels : Sound(d)} /\ SessionOf[t] \in Sessions
  BY GraphAssumption DEF Sound
<1>2. /\ checkpoint' = [checkpoint EXCEPT ![SessionOf[t]] = c]
      /\ chan' = [chan EXCEPT ![t] = c]
      /\ pc' = [pc EXCEPT ![t] = Edge[n]]
      /\ reply' = reply /\ crashes' = crashes
  BY DEF Superstep
<1>3. AllSound'
  BY <1>1, <1>2 DEF Inv, AllSound
<1>4. /\ Edge[n] \in Running
      /\ Edge[n] \in {"evaluate", "respond"} => n \in {"generate", "evaluate"}
      /\ Edge[n] = "respond" => n = "evaluate"
  BY DEF Edge, Running, Nodes
<1>5. pc' \in [Turns -> {"new"} \cup Running \cup Ended]
  BY <1>2, <1>4 DEF Inv
<1>6. \A u \in Turns : u # t => pc'[u] = pc[u] /\ chan'[u] = chan[u]
  BY <1>2
<1>7. pc'[t] = Edge[n] /\ chan'[t] = c
  BY <1>2 DEF Inv, AllSound
<1>8. OwnChannels'
  BY <1>4, <1>6, <1>7 DEF Inv, OwnChannels
<1>9. RepliesToOwnQuery'
  BY <1>2, <1>4, <1>6, <1>7
  DEF Inv, RepliesToOwnQuery, Running, Nodes
<1>10. QED
  BY <1>2, <1>3, <1>5, <1>8, <1>9 DEF Inv

(* The channels of a running turn are sound and hold its own query.        *)
LEMMA RunningChannels ==
  ASSUME Inv, NEW t \in Turns, pc[t] \in Running
  PROVE  /\ Sound(chan[t]) /\ chan[t].query = t
         /\ pc[t] \in {"evaluate", "respond"} => chan[t].answer = t
         /\ pc[t] = "respond" => OwnVerdict(chan[t], t)
BY DEF Inv, AllSound, OwnChannels

(* Starting a turn preserves the invariant.                                *)
LEMMA AcceptPreservesInv ==
  ASSUME Inv, NEW t \in Turns, Accept(t)
  PROVE  Inv'
<1> DEFINE c == Input(checkpoint[SessionOf[t]], t)
<1>1. SessionOf[t] \in Sessions
  BY GraphAssumption
<1>2. Sound(checkpoint[SessionOf[t]])
  BY <1>1 DEF Inv, AllSound
<1>3. c \in {d \in Channels : Sound(d)} /\ c.query = t
  BY <1>2, InputIsSound DEF Sound
<1>4. /\ checkpoint' = [checkpoint EXCEPT ![SessionOf[t]] = c]
      /\ chan' = [chan EXCEPT ![t] = c]
      /\ pc' = [pc EXCEPT ![t] = "understand"]
      /\ reply' = reply /\ crashes' = crashes
  BY DEF Accept
<1> HIDE DEF c
<1>5. AllSound'
  BY <1>1, <1>3, <1>4 DEF Inv, AllSound
<1>6. pc' \in [Turns -> {"new"} \cup Running \cup Ended]
  BY <1>4 DEF Inv, Running, Nodes
<1>7. /\ \A u \in Turns : u # t => pc'[u] = pc[u] /\ chan'[u] = chan[u]
      /\ pc'[t] = "understand" /\ chan'[t] = c
  BY <1>4 DEF Inv, AllSound
<1>8. OwnChannels'
  BY <1>3, <1>7 DEF Inv, OwnChannels
<1>9. RepliesToOwnQuery'
  BY <1>4, <1>7 DEF Inv, RepliesToOwnQuery
<1>10. QED
  BY <1>4, <1>5, <1>6, <1>8, <1>9 DEF Inv

(* Answering preserves the invariant: a turn that is not streamed replies  *)
(* from its own channels, a streamed one from a sound checkpoint.          *)
LEMMA RespondPreservesInv ==
  ASSUME Inv, NEW t \in Turns, Respond(t)
  PROVE  Inv'
<1>1. pc[t] = "respond" /\ pc[t] \in Running
  BY DEF Respond, Running
<1>2. Sound(chan[t]) /\ chan[t].answer = t /\ OwnVerdict(chan[t], t)
  BY <1>1, RunningChannels
<1>3. SessionOf[t] \in Sessions
  BY GraphAssumption
<1>4. FinalState(t) \in {c \in Channels : Sound(c)}
  BY <1>2, <1>3 DEF FinalState, Inv, AllSound, Sound
<1>5. EmptyChannels \in {c \in Channels : Sound(c)}
  BY EmptyIsSound DEF Sound
<1>6. /\ reply' = [reply EXCEPT ![t] = FinalState(t)]
      /\ pc' = [pc EXCEPT ![t] = "answered"]
      /\ chan' = [chan EXCEPT ![t] = EmptyChannels]
      /\ checkpoint' = checkpoint /\ crashes' = crashes
  BY DEF Respond
<1>7. AllSound'
  BY <1>4, <1>5, <1>6 DEF Inv, AllSound
<1>8. pc' \in [Turns -> {"new"} \cup Running \cup Ended]
  BY <1>6 DEF Inv, Ended
<1>9. /\ \A u \in Turns : u # t => /\ pc'[u] = pc[u] /\ chan'[u] = chan[u]
                                   /\ reply'[u] = reply[u]
      /\ pc'[t] = "answered" /\ reply'[t] = FinalState(t)
  BY <1>6 DEF Inv, AllSound
<1>10. OwnChannels'
  BY <1>9 DEF Inv, OwnChannels, Running, Nodes
<1>11. t \notin Streams => reply'[t].answer = t /\ OwnVerdict(reply'[t], t)
  BY <1>2, <1>9 DEF FinalState
<1>12. RepliesToOwnQuery'
  BY <1>9, <1>11 DEF Inv, RepliesToOwnQuery, OwnVerdict
<1>13. QED
  BY <1>6, <1>7, <1>8, <1>10, <1>12 DEF Inv

(* A node that throws preserves the invariant.                             *)
LEMMA FailPreservesInv ==
  ASSUME Inv, NEW t \in Turns, Fail(t)
  PROVE  Inv'
<1>1. EmptyChannels \in {c \in Channels : Sound(c)}
  BY EmptyIsSound DEF Sound
<1>2. /\ pc' = [pc EXCEPT ![t] = "failed"]
      /\ chan' = [chan EXCEPT ![t] = EmptyChannels]
      /\ UNCHANGED <<checkpoint, reply, crashes>>
  BY DEF Fail
<1>3. AllSound'
  BY <1>1, <1>2 DEF Inv, AllSound
<1>4. pc' \in [Turns -> {"new"} \cup Running \cup Ended]
  BY <1>2 DEF Inv, Ended
<1>5. /\ \A u \in Turns : u # t => pc'[u] = pc[u] /\ chan'[u] = chan[u]
      /\ pc'[t] = "failed"
  BY <1>2 DEF Inv, AllSound
<1>6. OwnChannels'
  BY <1>5 DEF Inv, OwnChannels, Running, Nodes
<1>7. RepliesToOwnQuery'
  BY <1>2, <1>5 DEF Inv, RepliesToOwnQuery
<1>8. QED
  BY <1>2, <1>3, <1>4, <1>6, <1>7 DEF Inv

(* A crash preserves the invariant, with either checkpointer.              *)
LEMMA CrashPreservesInv ==
  ASSUME Inv, Crash
  PROVE  Inv'
<1>1. EmptyChannels \in {c \in Channels : Sound(c)}
  BY EmptyIsSound DEF Sound
<1>2. /\ pc' = [t \in Turns |-> IF pc[t] \in Running THEN "lost" ELSE pc[t]]
      /\ chan' = [t \in Turns |-> EmptyChannels]
      /\ checkpoint' = IF Durable THEN checkpoint
                                  ELSE [s \in Sessions |-> EmptyChannels]
      /\ crashes' = crashes + 1 /\ reply' = reply
  BY DEF Crash
<1>3. AllSound'
  BY <1>1, <1>2 DEF Inv, AllSound
<1>4. /\ pc' \in [Turns -> {"new"} \cup Running \cup Ended]
      /\ \A t \in Turns : pc'[t] \notin Running
      /\ \A t \in Turns : pc'[t] = "answered" => pc[t] = "answered"
  BY <1>2 DEF Inv, Running, Nodes, Ended
<1>5. OwnChannels'
  BY <1>4 DEF OwnChannels, Running, Nodes
<1>6. RepliesToOwnQuery'
  BY <1>2, <1>4 DEF Inv, RepliesToOwnQuery
<1>7. QED
  BY <1>2, <1>3, <1>4, <1>5, <1>6 DEF Inv
-----------------------------------------------------------------------------
(* Every step preserves the invariant.                                     *)
LEMMA NextPreservesInv == Inv /\ [Next]_vars => Inv'
<1> SUFFICES ASSUME Inv, [Next]_vars PROVE Inv'
  OBVIOUS
<1>1. CASE UNCHANGED vars
  BY <1>1 DEF vars, Inv, AllSound, OwnChannels, RepliesToOwnQuery
<1>2. CASE Crash
  BY <1>2, CrashPreservesInv
<1>3. ASSUME NEW t \in Turns, Accept(t)  PROVE Inv'
  BY <1>3, AcceptPreservesInv
<1>4. ASSUME NEW t \in Turns, Progress(t)  PROVE Inv'
  <2>1. CASE Understand(t)
    <3>1. pc[t] = "understand" /\ pc[t] \in Running
      BY <2>1 DEF Understand, Superstep, Running, Nodes
    <3>2. Sound(chan[t]) /\ chan[t].query = t
      BY <3>1, RunningChannels
    <3>3. Sound(Understood(chan[t])) /\ Understood(chan[t]).query = t
      BY <3>2, UnderstoodIsSound
    <3>4. Superstep(t, "understand", Understood(chan[t]))
      BY <2>1 DEF Understand
    <3>5. QED
      BY <3>3, <3>4, SuperstepPreservesInv DEF Nodes
  <2>2. CASE Retrieve(t)
    <3>1. PICK h \in Hits : Superstep(t, "retrieve", Retrieved(chan[t], h))
      BY <2>2 DEF Retrieve
    <3>2. pc[t] = "retrieve" /\ pc[t] \in Running
      BY <3>1 DEF Superstep, Running, Nodes
    <3>3. Sound(chan[t]) /\ chan[t].query = t
      BY <3>2, RunningChannels
    <3>4. Sound(Retrieved(chan[t], h)) /\ Retrieved(chan[t], h).query = t
      BY <3>3, RetrievedIsSound
    <3>5. QED
      BY <3>1, <3>4, SuperstepPreservesInv DEF Nodes
  <2>3. CASE Rerank(t)
    <3>1. PICK r \in RerankedSeqs(chan[t].retrieved) :
            Superstep(t, "rerank", Reranked(chan[t], r))
      BY <2>3 DEF Rerank
    <3>2. pc[t] = "rerank" /\ pc[t] \in Running
      BY <3>1 DEF Superstep, Running, Nodes
    <3>3. Sound(chan[t]) /\ chan[t].query = t
      BY <3>2, RunningChannels
    <3>4. Sound(Reranked(chan[t], r)) /\ Reranked(chan[t], r).query = t
      BY <3>3, RerankedIsSound
    <3>5. QED
      BY <3>1, <3>4, SuperstepPreservesInv DEF Nodes
  <2>4. CASE BuildContext(t)
    <3>1. pc[t] = "buildContext" /\ pc[t] \in Running
      BY <2>4 DEF BuildContext, Superstep, Running, Nodes
    <3>2. Sound(chan[t]) /\ chan[t].query = t
      BY <3>1, RunningChannels
    <3>3. Sound(Built(chan[t])) /\ Built(chan[t]).query = t
      BY <3>2, BuiltIsSound
    <3>4. Superstep(t, "buildContext", Built(chan[t]))
      BY <2>4 DEF BuildContext
    <3>5. QED
      BY <3>3, <3>4, SuperstepPreservesInv DEF Nodes
  <2>5. CASE Generate(t)
    <3>1. pc[t] = "generate" /\ pc[t] \in Running
      BY <2>5 DEF Generate, Superstep, Running, Nodes
    <3>2. Sound(chan[t]) /\ chan[t].query = t
      BY <3>1, RunningChannels
    <3>3. /\ Sound(Generated(chan[t]))
          /\ Generated(chan[t]).query = t /\ Generated(chan[t]).answer = t
      BY <3>2, GeneratedIsSound
    <3>4. Superstep(t, "generate", Generated(chan[t]))
      BY <2>5 DEF Generate
    <3>5. QED
      BY <3>3, <3>4, SuperstepPreservesInv DEF Nodes
  <2>6. CASE Evaluate(t)
    <3>1. pc[t] = "evaluate" /\ pc[t] \in Running
      BY <2>6 DEF Evaluate, Superstep, Running, Nodes
    <3>2. Sound(chan[t]) /\ chan[t].query = t /\ chan[t].answer = t
      BY <3>1, RunningChannels
    <3>3. ASSUME Superstep(t, "evaluate", Unjudged(chan[t]))  PROVE Inv'
      <4>1. /\ Sound(Unjudged(chan[t]))
            /\ Unjudged(chan[t]).query = t /\ Unjudged(chan[t]).answer = t
            /\ OwnVerdict(Unjudged(chan[t]), t)
        BY <3>2, UnjudgedIsSound
      <4>2. QED
        BY <3>3, <4>1, SuperstepPreservesInv DEF Nodes
    <3>4. ASSUME NEW v \in BOOLEAN,
                 Superstep(t, "evaluate", Judged(chan[t], v))
          PROVE  Inv'
      <4>1. /\ Sound(Judged(chan[t], v))
            /\ Judged(chan[t], v).query = t /\ Judged(chan[t], v).answer = t
            /\ OwnVerdict(Judged(chan[t], v), t)
        BY <3>2, JudgedIsSound
      <4>2. QED
        BY <3>4, <4>1, SuperstepPreservesInv DEF Nodes
    <3>5. QED
      BY <2>6, <3>3, <3>4 DEF Evaluate
  <2>7. CASE Respond(t)
    BY <2>7, RespondPreservesInv
  <2>8. CASE Fail(t)
    BY <2>8, FailPreservesInv
  <2>9. QED
    BY <1>4, <2>1, <2>2, <2>3, <2>4, <2>5, <2>6, <2>7, <2>8 DEF Progress
<1>5. QED
  BY <1>1, <1>2, <1>3, <1>4 DEF Next

(* The inductive invariant holds in every reachable state.                 *)
THEOREM Invariance == Spec => []Inv
<1>1. Init => Inv
  BY InitEstablishesInv
<1>2. Inv /\ [Next]_vars => Inv'
  BY NextPreservesInv
<1>3. QED
  BY <1>1, <1>2, PTL DEF Spec

(* Every node, failure and crash leaves well-typed channels behind, for    *)
(* every overlap of turns (the nodes of agents/query/nodes).               *)
THEOREM TypeCorrect == Spec => []TypeOK
<1>1. Inv => TypeOK
  BY DEF Inv, AllSound, TypeOK
<1>2. QED
  BY <1>1, Invariance, PTL

(* Whatever the turns of the sessions do, every chunk in a context is      *)
(* among the sources, every source was retrieved in the session, a chunk   *)
(* has one marker and the cap on chunks is kept (buildContext.ts,          *)
(* builder.ts, the reducers of state.ts).                                  *)
THEOREM ContextAlwaysCited == Spec => []ContextIsCited
<1>1. Inv => ContextIsCited
  BY DEF Inv, AllSound, Sound, ContextIsCited
<1>2. QED
  BY <1>1, Invariance, PTL

(* A response that is not streamed answers its own query, and a verdict    *)
(* marked as made is on that answer, for any number of overlapping turns   *)
(* of a session (query.service.ts: runQuery, evaluate.ts).                 *)
THEOREM RepliesAreOwn == Spec => []RepliesToOwnQuery
<1>1. Inv => RepliesToOwnQuery
  BY DEF Inv
<1>2. QED
  BY <1>1, Invariance, PTL

-----------------------------------------------------------------------------
(***************************************************************************)
(* The conversation of a client that keeps to one turn at a time, with a   *)
(* checkpointer that survives crashes.  A turn that runs is alone in its   *)
(* session, so its channels are the session's latest checkpoint: whatever  *)
(* it says is said after everything that was said before.                  *)
(***************************************************************************)
OneAtATime ==
  \A t, u \in Turns :
    pc[t] \in Running /\ pc[u] \in Running /\ SessionOf[t] = SessionOf[u]
      => t = u

OwnsTheSession ==
  \A t \in Turns : pc[t] \in Running => chan[t] = checkpoint[SessionOf[t]]

HasAsked(s, t) ==
  LET m == checkpoint[s].messages
  IN  m # <<>> /\ m[Len(m)] = Human(t)

Spoken ==
  \A t \in Turns :
    /\ pc[t] \in {"retrieve", "rerank", "buildContext", "generate"} =>
         HasAsked(SessionOf[t], t)
    /\ pc[t] \in {"evaluate", "respond", "answered"} =>
         Remembers(SessionOf[t], t)

Serial == MaxOpen = 1 /\ Durable = TRUE

SerialInv == Inv /\ Serial /\ OneAtATime /\ OwnsTheSession /\ Spoken

(* What has been said, once more is said.                                  *)
LEMMA SaidStays ==
  ASSUME NEW m \in Seq(Messages), NEW x \in Messages, NEW i \in 1..Len(m)
  PROVE  Append(m, x)[i] = m[i] /\ Len(Append(m, x)) = Len(m) + 1
         /\ Append(m, x)[Len(m) + 1] = x
OBVIOUS

(* No turn of the session runs when a turn is accepted.                    *)
LEMMA AcceptIsAlone ==
  ASSUME Serial, OneAtATime, NEW t \in Turns, Accept(t)
  PROVE  \A u \in Turns : SessionOf[u] = SessionOf[t] => pc[u] \notin Running
<1> SUFFICES ASSUME NEW u \in Turns, SessionOf[u] = SessionOf[t], pc[u] \in Running
             PROVE  FALSE
  OBVIOUS
<1>1. InFlight(SessionOf[t]) = {u}
  BY DEF InFlight, OneAtATime
<1>2. Cardinality(InFlight(SessionOf[t])) = 1
  BY <1>1, FS_Singleton
<1> QED
  BY <1>2 DEF Accept, Serial

(* A superstep writes where its turn is alone.                             *)
LEMMA SuperstepIsSerial ==
  ASSUME SerialInv, Inv', NEW t \in Turns, NEW n \in Nodes, NEW c, Superstep(t, n, c),
         c \in Channels,
         \/ c.messages = chan[t].messages
         \/ \E x \in Messages : c.messages = Append(chan[t].messages, x),
         Edge[n] \in {"retrieve", "rerank", "buildContext", "generate"} =>
           c.messages # <<>> /\ c.messages[Len(c.messages)] = Human(t),
         Edge[n] \in {"evaluate", "respond"} =>
           \E i \in 1..(Len(c.messages) - 1) :
             c.messages[i] = Human(t) /\ c.messages[i + 1] = AI(t)
  PROVE  SerialInv'
<1> DEFINE s == SessionOf[t]
<1>1. /\ pc[t] = n /\ pc[t] \in Running /\ s \in Sessions
      /\ \A u \in Turns : SessionOf[u] \in Sessions
      /\ chan[t] = checkpoint[s] /\ chan[t] \in Channels
      /\ checkpoint \in [Sessions -> Channels] /\ chan \in [Turns -> Channels]
      /\ pc \in [Turns -> {"new"} \cup Running \cup Ended]
  BY GraphAssumption DEF SerialInv, Inv, AllSound, OwnsTheSession, Superstep, Running
<1>2. /\ pc' = [pc EXCEPT ![t] = Edge[n]]
      /\ chan' = [chan EXCEPT ![t] = c]
      /\ checkpoint' = [checkpoint EXCEPT ![s] = c]
  BY DEF Superstep
<1>3. Edge[n] \in Running
  BY DEF Edge, Nodes, Running
<1>4. /\ pc'[t] = Edge[n] /\ chan'[t] = c /\ checkpoint'[s] = c
      /\ \A u \in Turns : u # t => pc'[u] = pc[u] /\ chan'[u] = chan[u]
      /\ \A r \in Sessions : r # s => checkpoint'[r] = checkpoint[r]
  BY <1>1, <1>2
<1>5. OneAtATime'
  <2>1. \A u \in Turns : pc'[u] \in Running <=> pc[u] \in Running
    BY <1>1, <1>3, <1>4
  <2> QED
    BY <2>1 DEF SerialInv, OneAtATime
<1>6. \A u \in Turns : u # t /\ pc[u] \in Running => SessionOf[u] # s
  BY <1>1 DEF SerialInv, OneAtATime
<1>7. OwnsTheSession'
  BY <1>1, <1>4, <1>6 DEF SerialInv, OwnsTheSession
<1>8. Spoken'
  <2> SUFFICES ASSUME NEW u \in Turns
               PROVE  /\ pc'[u] \in {"retrieve", "rerank", "buildContext", "generate"}
                           => HasAsked(SessionOf[u], u)'
                      /\ pc'[u] \in {"evaluate", "respond", "answered"} =>
                           Remembers(SessionOf[u], u)'
    BY DEF Spoken
  <2>1. CASE u = t
    <3>1. pc'[u] = "answered" => FALSE
      BY <1>3, <1>4, <2>1 DEF Running, Nodes
    <3> QED
      BY <1>4, <2>1, <3>1 DEF HasAsked, Remembers
  <2>2. CASE SessionOf[u] # s
    BY <1>1, <1>4, <2>2 DEF SerialInv, Spoken, HasAsked, Remembers
  <2>3. CASE u # t /\ SessionOf[u] = s
    <3>1. pc'[u] = pc[u] /\ pc[u] \notin Running
      BY <1>4, <1>6, <2>3
    <3>2. ASSUME pc[u] = "answered" PROVE Remembers(SessionOf[u], u)'
      <4>1. PICK i \in 1..(Len(chan[t].messages) - 1) :
              /\ chan[t].messages[i] = Human(u)
              /\ chan[t].messages[i + 1] = AI(u)
        BY <1>1, <2>3, <3>2 DEF SerialInv, Spoken, Remembers
      <4>2. PICK m : m = chan[t].messages
        OBVIOUS
      <4>3. m \in Seq(Messages)
        BY <1>1, <4>2 DEF Channels
      <4>4. i \in 1..(Len(m) - 1) /\ m[i] = Human(u) /\ m[i + 1] = AI(u)
        BY <4>1, <4>2
      <4>5. CASE c.messages = m
        BY <1>4, <2>3, <4>4, <4>5 DEF Remembers
      <4>6. ASSUME NEW x \in Messages, c.messages = Append(m, x)
            PROVE  Remembers(SessionOf[u], u)'
        <5>1. i \in 1..Len(m) /\ i + 1 \in 1..Len(m)
          BY <4>3, <4>4
        <5>2. /\ c.messages[i] = Human(u) /\ c.messages[i + 1] = AI(u)
              /\ Len(c.messages) = Len(m) + 1
          BY <4>3, <4>4, <4>6, <5>1, SaidStays
        <5>3. i \in 1..(Len(c.messages) - 1)
          BY <4>3, <4>4, <5>2
        <5> QED
          BY <1>4, <2>3, <5>2, <5>3 DEF Remembers
      <4> QED
        BY <4>2, <4>5, <4>6
    <3> QED
      BY <3>1, <3>2 DEF Running, Nodes
  <2> QED
    BY <2>1, <2>2, <2>3
<1> QED
  BY <1>5, <1>7, <1>8 DEF SerialInv, Serial

(* What each node adds to the messages.                                    *)
Says(n, m, c, t) ==
  \/ n = "understand" /\ c.messages = Append(m, Human(t))
  \/ n = "generate" /\ c.messages = Append(m, AI(t))
  \/ /\ n \in {"retrieve", "rerank", "buildContext", "evaluate"}
     /\ c.messages = m

LEMMA NodesSay ==
  ASSUME Inv, NEW t \in Turns, Progress(t)
  PROVE  \/ Respond(t) \/ Fail(t)
         \/ \E n \in Nodes, c \in Channels :
              Superstep(t, n, c) /\ Says(n, chan[t].messages, c, t)
<1>1. \A n \in Nodes : \A c : Superstep(t, n, c) => pc[t] = n /\ pc[t] \in Running
  BY DEF Superstep, Running
<1>2. CASE Understand(t)
  <2>1. Superstep(t, "understand", Understood(chan[t])) /\ "understand" \in Nodes
    BY <1>2 DEF Understand, Nodes
  <2>2. Sound(chan[t]) /\ chan[t].query = t
    BY <1>1, <2>1, RunningChannels
  <2>3. Sound(Understood(chan[t]))
    BY <2>2, UnderstoodIsSound
  <2>4. Understood(chan[t]).messages = Append(chan[t].messages, Human(t))
    BY <2>2 DEF Understood, Sound, Channels
  <2> QED
    BY <2>1, <2>3, <2>4 DEF Sound, Says
<1>3. CASE Retrieve(t)
  <2>1. PICK h \in Hits : Superstep(t, "retrieve", Retrieved(chan[t], h))
    BY <1>3 DEF Retrieve
  <2>2. "retrieve" \in Nodes
    BY DEF Nodes
  <2>3. Sound(chan[t])
    BY <1>1, <2>1, <2>2, RunningChannels
  <2>4. Sound(Retrieved(chan[t], h))
    BY <2>3, RetrievedIsSound
  <2>5. Retrieved(chan[t], h).messages = chan[t].messages
    BY <2>3 DEF Retrieved, Sound, Channels
  <2> QED
    BY <2>1, <2>2, <2>4, <2>5 DEF Sound, Says
<1>4. CASE Rerank(t)
  <2>1. PICK r \in RerankedSeqs(chan[t].retrieved) :
          Superstep(t, "rerank", Reranked(chan[t], r))
    BY <1>4 DEF Rerank
  <2>2. "rerank" \in Nodes
    BY DEF Nodes
  <2>3. Sound(chan[t])
    BY <1>1, <2>1, <2>2, RunningChannels
  <2>4. Sound(Reranked(chan[t], r))
    BY <2>1, <2>3, RerankedIsSound
  <2>5. Reranked(chan[t], r).messages = chan[t].messages
    BY <2>3 DEF Reranked, Sound, Channels
  <2> QED
    BY <2>1, <2>2, <2>4, <2>5 DEF Sound, Says
<1>5. CASE BuildContext(t)
  <2>1. Superstep(t, "buildContext", Built(chan[t])) /\ "buildContext" \in Nodes
    BY <1>5 DEF BuildContext, Nodes
  <2>2. Sound(chan[t])
    BY <1>1, <2>1, RunningChannels
  <2>3. Sound(Built(chan[t]))
    BY <2>2, BuiltIsSound
  <2>4. Built(chan[t]).messages = chan[t].messages
    BY <2>2 DEF Built, Sound, Channels
  <2> QED
    BY <2>1, <2>3, <2>4 DEF Sound, Says
<1>6. CASE Generate(t)
  <2>1. Superstep(t, "generate", Generated(chan[t])) /\ "generate" \in Nodes
    BY <1>6 DEF Generate, Nodes
  <2>2. Sound(chan[t]) /\ chan[t].query = t
    BY <1>1, <2>1, RunningChannels
  <2>3. Sound(Generated(chan[t]))
    BY <2>2, GeneratedIsSound
  <2>4. Generated(chan[t]).messages = Append(chan[t].messages, AI(t))
    BY <2>2 DEF Generated, Sound, Channels
  <2> QED
    BY <2>1, <2>3, <2>4 DEF Sound, Says
<1>7. CASE Evaluate(t)
  <2>1. "evaluate" \in Nodes
    BY DEF Nodes
  <2>2. \E v \in BOOLEAN :
          \/ Superstep(t, "evaluate", Unjudged(chan[t]))
          \/ Superstep(t, "evaluate", Judged(chan[t], v))
    BY <1>7 DEF Evaluate
  <2>3. Sound(chan[t]) /\ chan[t].answer = t
    BY <1>1, <2>1, <2>2, RunningChannels
  <2>4. /\ Sound(Unjudged(chan[t]))
        /\ Unjudged(chan[t]).messages = chan[t].messages
        /\ \A v \in BOOLEAN : Sound(Judged(chan[t], v))
    BY <2>3, JudgedIsSound, UnjudgedIsSound
  <2>5. \A v \in BOOLEAN : Judged(chan[t], v).messages = chan[t].messages
    BY <2>3 DEF Judged, Sound, Channels
  <2> QED
    BY <2>1, <2>2, <2>3, <2>4, <2>5 DEF Sound, Says
<1> QED
  BY <1>2, <1>3, <1>4, <1>5, <1>6, <1>7 DEF Progress

(* Every step of a serial client preserves the invariant.                  *)
LEMMA SayingIsSerial ==
  ASSUME SerialInv, Inv', NEW t \in Turns, NEW n \in Nodes, NEW c \in Channels,
         Superstep(t, n, c), Says(n, chan[t].messages, c, t)
  PROVE  SerialInv'
<1> DEFINE s == SessionOf[t]
           m == chan[t].messages
<1>1. /\ pc[t] = n /\ pc[t] \in Running /\ s \in Sessions
      /\ chan[t] = checkpoint[s] /\ chan[t] \in Channels
  BY GraphAssumption DEF SerialInv, Inv, AllSound, OwnsTheSession, Superstep, Running
<1>2. m \in Seq(Messages) /\ Human(t) \in Messages /\ AI(t) \in Messages
  BY <1>1 DEF Channels, Messages, Human, AI
<1>3. /\ n \in {"retrieve", "rerank", "buildContext", "generate"} =>
           m # <<>> /\ m[Len(m)] = Human(t)
      /\ n = "evaluate" =>
           \E i \in 1..(Len(m) - 1) : m[i] = Human(t) /\ m[i + 1] = AI(t)
  BY <1>1 DEF SerialInv, Spoken, HasAsked, Remembers
<1> HIDE DEF m
<1>4. CASE n = "understand"
  <2>1. c.messages = Append(m, Human(t))
    BY <1>4 DEF Says, m
  <2>2. c.messages # <<>> /\ c.messages[Len(c.messages)] = Human(t)
    BY <1>2, <2>1
  <2>3. Edge[n] = "retrieve"
    BY <1>4 DEF Edge
  <2> QED
    BY <1>2, <2>1, <2>2, <2>3, SuperstepIsSerial DEF m
<1>5. CASE n \in {"retrieve", "rerank", "buildContext"}
  <2>1. c.messages = m
    BY <1>5 DEF Says, m
  <2>2. Edge[n] \in {"rerank", "buildContext", "generate"}
    BY <1>5 DEF Edge
  <2> QED
    BY <1>3, <1>5, <2>1, <2>2, SuperstepIsSerial DEF m
<1>6. CASE n = "generate"
  <2>1. c.messages = Append(m, AI(t))
    BY <1>6 DEF Says, m
  <2>2. m # <<>> /\ m[Len(m)] = Human(t)
    BY <1>3, <1>6
  <2>3. Len(m) \in 1..Len(m)
    BY <1>2, <2>2
  <2>4. /\ c.messages[Len(m)] = Human(t) /\ c.messages[Len(m) + 1] = AI(t)
        /\ Len(c.messages) = Len(m) + 1
    BY <1>2, <2>1, <2>2, <2>3, SaidStays
  <2>5. Len(m) \in 1..(Len(c.messages) - 1)
    BY <2>3, <2>4
  <2>6. Edge[n] = "evaluate"
    BY <1>6 DEF Edge
  <2> QED
    BY <1>2, <2>1, <2>4, <2>5, <2>6, SuperstepIsSerial DEF m
<1>7. CASE n = "evaluate"
  <2>1. c.messages = m /\ Edge[n] = "respond"
    BY <1>7 DEF Says, m, Edge
  <2> QED
    BY <1>3, <1>7, <2>1, SuperstepIsSerial DEF m
<1> QED
  BY <1>4, <1>5, <1>6, <1>7 DEF Nodes

LEMMA SerialStep ==
  ASSUME SerialInv, Inv', [Next]_vars
  PROVE  SerialInv'
<1>0. /\ checkpoint \in [Sessions -> Channels] /\ chan \in [Turns -> Channels]
      /\ pc \in [Turns -> {"new"} \cup Running \cup Ended]
      /\ \A u \in Turns : SessionOf[u] \in Sessions
  BY GraphAssumption DEF SerialInv, Inv, AllSound
<1>1. ASSUME NEW t \in Turns, Accept(t) PROVE SerialInv'
  <2> DEFINE s == SessionOf[t]
             c == Input(checkpoint[s], t)
  <2>1. c.messages = checkpoint[s].messages
    BY <1>0 DEF Input, Channels
  <2>2. \A u \in Turns : SessionOf[u] = s => pc[u] \notin Running
    BY <1>1, AcceptIsAlone DEF SerialInv
  <2>3. /\ chan' = [chan EXCEPT ![t] = c] /\ checkpoint' = [checkpoint EXCEPT ![s] = c]
        /\ pc' = [pc EXCEPT ![t] = "understand"]
    BY <1>1 DEF Accept
  <2> HIDE DEF c
  <2>4. /\ chan'[t] = c /\ checkpoint'[s] = c /\ pc'[t] = "understand"
        /\ \A u \in Turns : u # t => pc'[u] = pc[u] /\ chan'[u] = chan[u]
        /\ \A r \in Sessions : r # s => checkpoint'[r] = checkpoint[r]
    BY <1>0, <2>3
  <2>5. OneAtATime'
    BY <2>2, <2>4 DEF SerialInv, OneAtATime
  <2>6. OwnsTheSession'
    BY <1>0, <2>2, <2>4 DEF SerialInv, OwnsTheSession
  <2>7. \A r \in Sessions : checkpoint'[r].messages = checkpoint[r].messages
    BY <2>1, <2>4
  <2>8. Spoken'
    BY <1>0, <2>4, <2>7 DEF SerialInv, Spoken, HasAsked, Remembers
  <2> QED
    BY <2>5, <2>6, <2>8 DEF SerialInv, Serial
<1>2. ASSUME NEW t \in Turns, Respond(t) PROVE SerialInv'
  <2>1. /\ pc[t] = "respond" /\ pc[t] \in Running /\ checkpoint' = checkpoint
        /\ pc' = [pc EXCEPT ![t] = "answered"]
        /\ \A u \in Turns : u # t => pc'[u] = pc[u] /\ chan'[u] = chan[u]
        /\ pc'[t] = "answered" /\ pc'[t] \notin Running
    BY <1>0, <1>2 DEF Respond, Running, Nodes
  <2>2. OneAtATime' /\ OwnsTheSession'
    BY <2>1 DEF SerialInv, OneAtATime, OwnsTheSession
  <2>3. Spoken'
    BY <2>1 DEF SerialInv, Spoken, HasAsked, Remembers
  <2> QED
    BY <2>2, <2>3 DEF SerialInv, Serial
<1>3. ASSUME NEW t \in Turns, Fail(t) PROVE SerialInv'
  <2>1. /\ checkpoint' = checkpoint
        /\ \A u \in Turns : u # t => pc'[u] = pc[u] /\ chan'[u] = chan[u]
        /\ pc'[t] = "failed" /\ pc'[t] \notin Running
    BY <1>0, <1>3 DEF Fail, Running, Nodes
  <2>2. OneAtATime' /\ OwnsTheSession'
    BY <2>1 DEF SerialInv, OneAtATime, OwnsTheSession
  <2>3. Spoken'
    BY <2>1 DEF SerialInv, Spoken, HasAsked, Remembers
  <2> QED
    BY <2>2, <2>3 DEF SerialInv, Serial
<1>4. CASE Crash
  <2>1. /\ checkpoint' = checkpoint
        /\ \A u \in Turns : /\ pc'[u] \notin Running
                            /\ pc'[u] = pc[u] \/ pc'[u] = "lost"
    BY <1>0, <1>4 DEF Crash, SerialInv, Serial, Running, Nodes
  <2>2. OneAtATime' /\ OwnsTheSession'
    BY <2>1 DEF OneAtATime, OwnsTheSession
  <2>3. Spoken'
    BY <2>1 DEF SerialInv, Spoken, HasAsked, Remembers
  <2> QED
    BY <2>2, <2>3 DEF SerialInv, Serial
<1>5. ASSUME NEW t \in Turns, Progress(t) PROVE SerialInv'
  <2>1. ASSUME NEW n \in Nodes, NEW c \in Channels,
               Superstep(t, n, c), Says(n, chan[t].messages, c, t)
        PROVE  SerialInv'
    BY <2>1, SayingIsSerial
  <2> QED
    BY <1>2, <1>3, <1>5, <2>1, NodesSay DEF SerialInv
<1>6. CASE UNCHANGED vars
  BY <1>6 DEF vars, SerialInv, Serial, OneAtATime, OwnsTheSession, Spoken,
     HasAsked, Remembers
<1> QED
  BY <1>1, <1>4, <1>5, <1>6 DEF Next

LEMMA SerialInitially == Init /\ Inv /\ Serial => SerialInv
BY DEF Init, SerialInv, OneAtATime, OwnsTheSession, Spoken, Running, Nodes

LEMMA SerialInvariance == Serial /\ Spec => []SerialInv
<1>1. SerialInv /\ Inv' /\ [Next]_vars => SerialInv'
  BY SerialStep
<1> QED
  BY <1>1, SerialInitially, Invariance, PTL DEF Spec

(***************************************************************************)
(* With a checkpointer that survives crashes, and a client that waits for  *)
(* one turn before the next, every answered question stays in the          *)
(* session's messages with its answer behind it (state.ts, messages;       *)
(* platform/memory/checkpoint.ts).                                       *)
(***************************************************************************)
THEOREM AnswersStayRemembered == Serial /\ Spec => []AnswersAreRemembered
<1>1. SerialInv => AnswersAreRemembered
  BY DEF SerialInv, Spoken, AnswersAreRemembered
<1> QED
  BY <1>1, SerialInvariance, PTL

-----------------------------------------------------------------------------
(***************************************************************************)
(* For such a client the detailed specification implements Conversation:   *)
(* accept starts the turn, understand asks, generate writes, the response  *)
(* is heard, an error abandons its turn and a crash all that are open; the *)
(* other nodes are steps the client does not see.                          *)
(***************************************************************************)
Recorded == [s \in Sessions |-> checkpoint[s].messages]
Progressed == [t \in Turns |-> Status(t)]
Heard == [t \in Turns |-> IF pc[t] = "answered" THEN {reply[t].answer} ELSE {}]

LEMMA StatusOfPc ==
  ASSUME NEW t \in Turns, pc[t] \in {"new"} \cup Running \cup Ended
  PROVE  /\ pc[t] = "new" => Status(t) = "new"
         /\ pc[t] = "understand" => Status(t) = "open"
         /\ pc[t] \in {"retrieve", "rerank", "buildContext", "generate"}
              => Status(t) = "asked"
         /\ pc[t] \in {"evaluate", "respond"} => Status(t) = "written"
         /\ pc[t] = "answered" => Status(t) = "answered"
         /\ pc[t] \in {"failed", "lost"} => Status(t) = "abandoned"
         /\ Status(t) \in Conv!Open <=> pc[t] \in Running
BY DEF Status, Running, Nodes, Ended, Conv!Open

(* The status of a turn depends on its pc alone.                           *)
LEMMA StatusStays ==
  ASSUME NEW t \in Turns, pc'[t] = pc[t]
  PROVE  Status(t)' = Status(t)
BY DEF Status

(* What a step of one turn may look like to the client.                    *)
LEMMA OneTurnSteps ==
  ASSUME NEW t \in Turns, \A u \in Turns : u # t => pc'[u] = pc[u],
         \A u \in Turns : u # t => reply'[u] = reply[u]
  PROVE  /\ Progressed' = [Progressed EXCEPT ![t] = Status(t)']
         /\ (pc[t] # "answered" /\ pc'[t] # "answered") => Heard' = Heard
         /\ (pc[t] # "answered" /\ pc'[t] = "answered")
              => Heard' = [Heard EXCEPT ![t] = {reply'[t].answer}]
<1>1. \A u \in Turns : u # t => Status(u)' = Status(u)
  BY StatusStays
<1>2. Progressed' = [Progressed EXCEPT ![t] = Status(t)']
  BY <1>1 DEF Progressed
<1>3. ASSUME pc[t] # "answered", pc'[t] # "answered" PROVE Heard' = Heard
  BY <1>3 DEF Heard
<1>4. ASSUME pc[t] # "answered", pc'[t] = "answered"
      PROVE  Heard' = [Heard EXCEPT ![t] = {reply'[t].answer}]
  BY <1>4 DEF Heard
<1> QED
  BY <1>2, <1>3, <1>4

LEMMA SerialTypes ==
  ASSUME SerialInv
  PROVE  /\ checkpoint \in [Sessions -> Channels] /\ chan \in [Turns -> Channels]
         /\ reply \in [Turns -> Channels]
         /\ pc \in [Turns -> {"new"} \cup Running \cup Ended]
         /\ \A u \in Turns : SessionOf[u] \in Sessions
         /\ \A s \in Sessions : checkpoint[s].messages \in Seq(Messages)
BY GraphAssumption DEF SerialInv, Inv, AllSound, Channels

(* A node writes the record as Conversation says, or the client sees       *)
(* nothing of it.                                                          *)
LEMMA NodeConverses ==
  ASSUME SerialInv, NEW t \in Turns, NEW n \in Nodes, NEW c \in Channels,
         Superstep(t, n, c), Says(n, chan[t].messages, c, t)
  PROVE  Conv!CNext \/ UNCHANGED <<Recorded, Progressed, Heard>>
<1> DEFINE s == SessionOf[t]
           m == chan[t].messages
<1>0. /\ checkpoint \in [Sessions -> Channels]
      /\ pc \in [Turns -> {"new"} \cup Running \cup Ended]
      /\ s \in Sessions
  BY SerialTypes
<1>1. /\ pc[t] = n /\ pc[t] \in Running /\ m = Recorded[s]
  BY <1>0 DEF SerialInv, OwnsTheSession, Superstep, Running, Recorded
<1>2. /\ pc'[t] = Edge[n] /\ Edge[n] \in Running
      /\ \A u \in Turns : u # t => pc'[u] = pc[u]
      /\ reply' = reply
      /\ checkpoint' = [checkpoint EXCEPT ![s] = c]
  BY <1>0 DEF Superstep, Edge, Nodes, Running
<1>3. pc[t] # "answered" /\ pc'[t] # "answered"
  BY <1>1, <1>2 DEF Running, Nodes
<1>4. /\ Progressed' = [Progressed EXCEPT ![t] = Status(t)']
      /\ Heard' = Heard
  BY <1>2, <1>3, OneTurnSteps
<1>5. Recorded' = [Recorded EXCEPT ![s] = c.messages]
  BY <1>0, <1>2 DEF Recorded
<1>6. Progressed[t] = Status(t)
  BY DEF Progressed
<1>7. CASE n = "understand"
  <2>1. Status(t) = "open" /\ Status(t)' = "asked"
    BY <1>1, <1>2, <1>7 DEF Status, Edge
  <2>2. Recorded' = [Recorded EXCEPT ![s] = Append(@, [role |-> "human", turn |-> t])]
    BY <1>0, <1>1, <1>5, <1>7 DEF Says, Human
  <2>3. Conv!Ask(t)
    BY <1>4, <1>6, <2>1, <2>2
    DEF Conv!Ask, Conv!Advance, Conv!Say, Recorded, Progressed, Heard
  <2> QED
    BY <2>3 DEF Conv!CNext
<1>8. CASE n = "generate"
  <2>1. Status(t) = "asked" /\ Status(t)' = "written"
    BY <1>1, <1>2, <1>8 DEF Status, Edge
  <2>2. Recorded' = [Recorded EXCEPT ![s] = Append(@, [role |-> "ai", turn |-> t])]
    BY <1>0, <1>1, <1>5, <1>8 DEF Says, AI
  <2>3. Conv!Write(t)
    BY <1>4, <1>6, <2>1, <2>2
    DEF Conv!Write, Conv!Advance, Conv!Say, Recorded, Progressed, Heard
  <2> QED
    BY <2>3 DEF Conv!CNext
<1>9. CASE n \in {"retrieve", "rerank", "buildContext", "evaluate"}
  <2>1. Status(t)' = Status(t)
    BY <1>1, <1>2, <1>9 DEF Status, Edge
  <2>2. c.messages = Recorded[s]
    BY <1>1, <1>9 DEF Says
  <2>3. Recorded' = Recorded
    BY <1>5, <2>2 DEF Recorded
  <2>4. Progressed' = Progressed
    BY <1>4, <1>6, <2>1 DEF Progressed
  <2> QED
    BY <1>4, <2>3, <2>4
<1> QED
  BY <1>7, <1>8, <1>9 DEF Nodes

LEMMA AcceptStarts ==
  ASSUME SerialInv, NEW t \in Turns, Accept(t)
  PROVE  Conv!Start(t)
<1> DEFINE s == SessionOf[t]
           c == Input(checkpoint[s], t)
<1>0. /\ checkpoint \in [Sessions -> Channels]
      /\ pc \in [Turns -> {"new"} \cup Running \cup Ended]
      /\ s \in Sessions
  BY SerialTypes
<1>1. /\ pc[t] = "new" /\ pc'[t] = "understand" /\ reply' = reply
      /\ \A u \in Turns : u # t => pc'[u] = pc[u]
      /\ checkpoint' = [checkpoint EXCEPT ![s] = c]
  BY <1>0 DEF Accept
<1>2. /\ Progressed' = [Progressed EXCEPT ![t] = Status(t)']
      /\ Heard' = Heard
  BY <1>1, OneTurnSteps
<1>3. c.messages = checkpoint[s].messages
  BY <1>0 DEF Input, Channels
<1>4. Recorded' = Recorded
  BY <1>0, <1>1, <1>3 DEF Recorded
<1>5. Status(t) = "new" /\ Status(t)' = "open" /\ Progressed[t] = Status(t)
  BY <1>1 DEF Status, Progressed
<1>6. \A u \in Turns : SessionOf[u] = SessionOf[t] => Status(u) \notin Conv!Open
  <2> SUFFICES ASSUME NEW u \in Turns, SessionOf[u] = SessionOf[t]
               PROVE  Status(u) \notin Conv!Open
    OBVIOUS
  <2>1. pc[u] \notin Running /\ pc[u] \in {"new"} \cup Running \cup Ended
    BY <1>0, AcceptIsAlone DEF SerialInv
  <2> QED
    BY <2>1, StatusOfPc
<1>7. \A u \in Turns : Progressed[u] = Status(u)
  BY DEF Progressed
<1> QED
  BY <1>2, <1>4, <1>5, <1>6, <1>7
  DEF Conv!Start, Conv!Advance, Recorded, Progressed, Heard

(* The final state of a turn that is alone is its own: so is the answer.   *)
LEMMA RespondIsHeard ==
  ASSUME SerialInv, NEW t \in Turns, Respond(t)
  PROVE  Conv!Hear(t)
<1>0. /\ chan \in [Turns -> Channels] /\ reply \in [Turns -> Channels]
      /\ pc \in [Turns -> {"new"} \cup Running \cup Ended]
  BY SerialTypes
<1>1. pc[t] = "respond" /\ pc[t] \in Running
  BY DEF Respond, Running
<1>2. chan[t] = checkpoint[SessionOf[t]] /\ chan[t].answer = t
  BY <1>1 DEF SerialInv, Inv, OwnChannels, OwnsTheSession
<1>3. /\ pc'[t] = "answered" /\ reply'[t].answer = t /\ checkpoint' = checkpoint
      /\ \A u \in Turns : u # t => pc'[u] = pc[u] /\ reply'[u] = reply[u]
  BY <1>0, <1>2 DEF Respond, FinalState
<1>4. /\ Progressed' = [Progressed EXCEPT ![t] = Status(t)']
      /\ Heard' = [Heard EXCEPT ![t] = {t}]
  BY <1>1, <1>3, OneTurnSteps
<1>5. Status(t) = "written" /\ Status(t)' = "answered" /\ Progressed[t] = Status(t)
  BY <1>1, <1>3 DEF Status, Progressed
<1>6. Recorded' = Recorded
  BY <1>3 DEF Recorded
<1> QED
  BY <1>4, <1>5, <1>6 DEF Conv!Hear, Conv!Advance, Recorded, Progressed, Heard

LEMMA FailAbandons ==
  ASSUME SerialInv, NEW t \in Turns, Fail(t)
  PROVE  Conv!Abandon({t})
<1>0. pc \in [Turns -> {"new"} \cup Running \cup Ended]
  BY SerialTypes
<1>1. /\ pc[t] \in Running /\ pc[t] # "answered" /\ pc'[t] = "failed"
      /\ \A u \in Turns : u # t => pc'[u] = pc[u]
      /\ reply' = reply /\ checkpoint' = checkpoint
  BY <1>0 DEF Fail, Running, Nodes
<1>2. /\ Progressed' = [Progressed EXCEPT ![t] = Status(t)']
      /\ Heard' = Heard
  BY <1>1, OneTurnSteps
<1>3. Status(t) \in Conv!Open /\ Status(t)' = "abandoned"
  <2>1. Status(t)' = "abandoned"
    BY <1>1 DEF Status
  <2> QED
    BY <1>0, <1>1, <2>1, StatusOfPc
<1>4. Recorded' = Recorded /\ Progressed[t] = Status(t)
  BY <1>1 DEF Recorded, Progressed
<1>5. Progressed' = [u \in Turns |-> IF u \in {t} THEN "abandoned" ELSE Progressed[u]]
  BY <1>2, <1>3 DEF Progressed
<1> QED
  BY <1>2, <1>3, <1>4, <1>5 DEF Conv!Abandon, Recorded, Progressed, Heard

LEMMA CrashAbandons ==
  ASSUME SerialInv, Crash
  PROVE  Conv!Abandon({t \in Turns : pc[t] \in Running})
<1> DEFINE T == {t \in Turns : pc[t] \in Running}
<1>0. pc \in [Turns -> {"new"} \cup Running \cup Ended]
  BY SerialTypes
<1>1. /\ checkpoint' = checkpoint /\ reply' = reply
      /\ pc' = [t \in Turns |-> IF pc[t] \in Running THEN "lost" ELSE pc[t]]
  BY DEF Crash, SerialInv, Serial
<1>2. \A t \in T : Status(t) \in Conv!Open /\ Status(t)' = "abandoned"
  <2> SUFFICES ASSUME NEW t \in T
               PROVE  Status(t) \in Conv!Open /\ Status(t)' = "abandoned"
    OBVIOUS
  <2>1. pc'[t] = "lost"
    BY <1>1
  <2>2. Status(t)' = "abandoned"
    BY <2>1 DEF Status
  <2> QED
    BY <1>0, <2>2, StatusOfPc
<1>3. \A t \in Turns \ T : Status(t)' = Status(t)
  <2>1. \A t \in Turns \ T : pc'[t] = pc[t]
    BY <1>1
  <2> QED
    BY <2>1, StatusStays
<1>4. Recorded' = Recorded
  BY <1>1 DEF Recorded
<1>5. \A t \in Turns : pc'[t] = "answered" <=> pc[t] = "answered"
  BY <1>1 DEF Running, Nodes
<1>6. Heard' = Heard
  BY <1>1, <1>5 DEF Heard
<1> HIDE DEF T
<1>7. /\ Progressed' = [t \in Turns |-> IF t \in T THEN "abandoned" ELSE Progressed[t]]
      /\ \A t \in T : t \in Turns => Progressed[t] \in Conv!Open
  BY <1>2, <1>3 DEF Progressed
<1>8. \A t \in T : Progressed[t] \in Conv!Open
  BY <1>7 DEF T
<1>9. Conv!Abandon(T)
  BY <1>4, <1>6, <1>7, <1>8 DEF Conv!Abandon, Recorded, Progressed, Heard
<1> QED
  BY <1>9 DEF T

LEMMA ConversationStep ==
  SerialInv /\ [Next]_vars => [Conv!CNext]_(Conv!cvars)
<1> SUFFICES ASSUME SerialInv, [Next]_vars
             PROVE  Conv!CNext \/ UNCHANGED <<Recorded, Progressed, Heard>>
  BY DEF Conv!cvars, Recorded, Progressed, Heard
<1>1. ASSUME NEW t \in Turns, Accept(t) PROVE Conv!CNext
  BY <1>1, AcceptStarts DEF Conv!CNext
<1>2. ASSUME NEW t \in Turns, Progress(t)
      PROVE  Conv!CNext \/ UNCHANGED <<Recorded, Progressed, Heard>>
  <2>1. ASSUME Respond(t) PROVE Conv!CNext
    BY <2>1, RespondIsHeard DEF Conv!CNext
  <2>2. ASSUME Fail(t) PROVE Conv!CNext
    BY <2>2, FailAbandons DEF Conv!CNext
  <2> QED
    BY <1>2, <2>1, <2>2, NodesSay, NodeConverses DEF SerialInv
<1>3. CASE Crash
  BY <1>3, CrashAbandons DEF Conv!CNext
<1>4. CASE UNCHANGED vars
  BY <1>4 DEF vars, Recorded, Progressed, Heard, Status
<1> QED
  BY <1>1, <1>2, <1>3, <1>4 DEF Next

(***************************************************************************)
(* What a client that waits for one turn before the next sees of a session *)
(* with a checkpointer that survives crashes is a conversation: a question *)
(* is recorded once, its answer directly behind it before the client hears *)
(* it, and the client of a turn hears the answer to that turn, streamed or *)
(* not (graph.ts, query.service.ts: runQuery, streamQuery).                *)
(***************************************************************************)
THEOREM ImplementsConversation == Serial /\ Spec => IsConversation
<1>1. Init => Conv!CInit
  BY DEF Init, Conv!CInit, Status, EmptyChannels
<1> QED
  BY <1>1, ConversationStep, SerialInvariance, PTL
  DEF Spec, IsConversation, Conv!CSpec
-----------------------------------------------------------------------------
(***************************************************************************)
(* The loops of the context builder (ContextBuilderLoops).  FoldLeft over  *)
(* a sequence of n elements is defined on all sets of positions, by the    *)
(* last position of each; what holds of the empty set and is kept when a   *)
(* last position is added holds of all of them.                            *)
(***************************************************************************)
LEMMA LastPosition ==
  ASSUME NEW n \in Nat, NEW s \in SUBSET (1..n), s # {}
  PROVE  Max(s) \in s /\ \A k \in s : k <= Max(s)
<1> DEFINE T == {n - k : k \in s}
<1>1. T \in SUBSET Nat /\ T # {}
  <2>1. \A k \in s : n - k \in Nat
    OBVIOUS
  <2>2. PICK k : k \in s
    OBVIOUS
  <2>3. n - k \in T
    BY <2>2
  <2> QED
    BY <2>1, <2>3
<1>2. PICK m \in T : \A k \in T : m <= k
  <2> HIDE DEF T
  <2> QED
    BY <1>1, LeastNatural
<1>3. PICK x \in s : m = n - x
  OBVIOUS
<1>4. \A k \in s : k <= x
  <2> TAKE k \in s
  <2>1. n - k \in T
    OBVIOUS
  <2>2. n - x <= n - k /\ k \in Nat /\ x \in Nat
    BY <1>2, <1>3, <2>1
  <2> QED
    BY <2>2
<1>5. \E y \in s : \A k \in s : y >= k
  BY <1>4
<1>6. Max(s) \in s /\ \A k \in s : Max(s) >= k
  BY <1>5 DEF Max
<1> QED
  BY <1>6

LEMMA PositionInduction ==
  ASSUME NEW n \in Nat, NEW C \in SUBSET SUBSET (1..n), {} \in C,
         \A s \in SUBSET (1..n) : s # {} /\ s \ {Max(s)} \in C => s \in C
  PROVE  C = SUBSET (1..n)
<1> DEFINE D == (SUBSET (1..n)) \ C
<1>1. SUFFICES ASSUME D # {} PROVE FALSE
  OBVIOUS
<1>2. D \in SUBSET SUBSET (1..n) /\ IsFiniteSet(1..n)
  BY FS_Interval
<1>3. PICK U \in D : \A V \in D : ~ (V \subseteq U /\ V # U)
  <2>1. PICK S : S = 1..n
    OBVIOUS
  <2>2. IsFiniteSet(S) /\ D \in SUBSET SUBSET S
    BY <1>2, <2>1
  <2> HIDE DEF D
  <2> QED
    BY <1>1, <2>2, SmallestSet
<1>4. U \in SUBSET (1..n) /\ U # {} /\ U \notin C
  OBVIOUS
<1> HIDE DEF D
<1>5. PICK W : W = U \ {Max(U)}
  OBVIOUS
<1>6. W \subseteq U /\ W # U /\ W \in SUBSET (1..n)
  <2>1. Max(U) \in U
    BY <1>4, LastPosition
  <2>2. PICK x : x = Max(U)
    OBVIOUS
  <2>3. x \in U /\ W = U \ {x}
    BY <1>5, <2>1, <2>2
  <2>4. W \subseteq U /\ W # U
    BY <2>3
  <2> QED
    BY <1>4, <2>4
<1>7. W \in C
  BY <1>3, <1>6 DEF D
<1> QED
  BY <1>4, <1>5, <1>7

(***************************************************************************)
(* The function FoldLeft is defined by, for a step F.                      *)
(***************************************************************************)
Folding(F, base, c, g) ==
  g = [s \in SUBSET DOMAIN c |->
         IF s = {} THEN base ELSE F[<<g[s \ {Max(s)}], c[Max(s)]>>]]

(* It exists: take one that is right up to position m, and correct it.     *)
LEMMA FoldingExists ==
  ASSUME NEW F, NEW base, NEW c, NEW n \in Nat, DOMAIN c = 1..n
  PROVE  \E g : Folding(F, base, c, g)
<1> DEFINE P == SUBSET (1..n)
           Step(g, s) == IF s = {} THEN base ELSE F[<<g[s \ {Max(s)}], c[Max(s)]>>]
           Upto(g, m) == \A s \in SUBSET (1..m) : g[s] = Step(g, s)
           Good == {m \in 0..n : \E g : g = [s \in P |-> g[s]] /\ Upto(g, m)}
<1>1. 0 \in Good
  <2> DEFINE g == [s \in P |-> base]
  <2>1. g = [s \in P |-> g[s]] /\ Upto(g, 0)
    OBVIOUS
  <2> HIDE DEF P, Step, g
  <2> QED
    BY <2>1
<1>2. ASSUME NEW m \in 0..(n-1), m \in Good PROVE m + 1 \in Good
  <2>1. PICK g : g = [s \in P |-> g[s]] /\ Upto(g, m)
    BY <1>2
  <2> DEFINE h == [s \in P |-> Step(g, s)]
  <2>2. SUBSET (1..m) \subseteq P /\ SUBSET (1..(m+1)) \subseteq P
    OBVIOUS
  <2>3. \A s \in SUBSET (1..m) : h[s] = g[s]
    <3> HIDE DEF Step, P
    <3> QED
      BY <2>1, <2>2
  <2>4. ASSUME NEW s \in SUBSET (1..(m+1)) PROVE h[s] = Step(h, s)
    <3>1. CASE s = {}
      BY <3>1
    <3>2. CASE s # {}
      <4>1. Max(s) \in s /\ \A k \in s : k <= Max(s)
        <5>1. m + 1 \in Nat
          OBVIOUS
        <5> QED
          BY <3>2, <5>1, LastPosition
      <4>2. PICK r : r = s \ {Max(s)}
        OBVIOUS
      <4>3. r \in SUBSET (1..m)
        <5> SUFFICES ASSUME NEW k \in r PROVE k \in 1..m
          OBVIOUS
        <5>1. k \in s /\ k # Max(s) /\ k <= Max(s) /\ Max(s) \in 1..(m+1)
          BY <4>1, <4>2
        <5> QED
          BY <5>1
      <4>4. h[r] = g[r]
        BY <2>3, <4>3
      <4>5. s \in P
        BY <2>2
      <4>6. h[s] = F[<<g[r], c[Max(s)]>>]
        BY <3>2, <4>2, <4>5
      <4> HIDE DEF h
      <4> QED
        BY <3>2, <4>2, <4>4, <4>6
    <3> QED
      BY <3>1, <3>2
  <2>5. h = [s \in P |-> h[s]]
    OBVIOUS
  <2>6. m + 1 \in 0..n
    OBVIOUS
  <2> HIDE DEF h, Step, P
  <2> QED
    BY <2>4, <2>5, <2>6
<1>3. n \in Good
  <2>1. SUFFICES ASSUME n \notin Good PROVE FALSE
    OBVIOUS
  <2> DEFINE Bad == {m \in 0..n : m \notin Good}
  <2>2. Bad \in SUBSET Nat /\ Bad # {}
    <3> HIDE DEF Good
    <3> QED
      BY <2>1
  <2>3. PICK m \in Bad : \A k \in Bad : m <= k
    <3> HIDE DEF Bad
    <3> QED
      BY <2>2, LeastNatural
  <2> HIDE DEF Good
  <2>4. m \in 1..n /\ m - 1 \in 0..(n-1) /\ m - 1 \in Good
    <3>1. m \in 0..n /\ m # 0
      BY <1>1
    <3>2. m - 1 \in 0..(n-1) /\ m - 1 \in 0..n /\ ~ (m <= m - 1)
      BY <3>1
    <3>3. m - 1 \notin Bad
      BY <2>3, <3>2
    <3> QED
      BY <3>1, <3>2, <3>3
  <2>5. (m - 1) + 1 \in Good
    BY <1>2, <2>4
  <2> QED
    BY <2>4, <2>5
<1>4. PICK g : g = [s \in P |-> g[s]] /\ Upto(g, n)
  BY <1>3
<1>5. g = [s \in P |-> Step(g, s)]
  <2> HIDE DEF Step
  <2> QED
    BY <1>4
<1> QED
  BY <1>5 DEF Folding

(* What holds at position 0 and is kept by every step holds at the end.    *)
LEMMA LoopInduction ==
  ASSUME NEW n \in Nat, NEW T \in SUBSET (0..n), 0 \in T,
         \A k \in 1..n : k - 1 \in T => k \in T
  PROVE  T = 0..n
<1> DEFINE Bad == {m \in 0..n : m \notin T}
<1>1. SUFFICES ASSUME Bad # {} PROVE FALSE
  OBVIOUS
<1>2. Bad \in SUBSET Nat
  OBVIOUS
<1>3. PICK m \in Bad : \A k \in Bad : m <= k
  <2> HIDE DEF Bad
  <2> QED
    BY <1>1, <1>2, LeastNatural
<1>4. m \in 1..n /\ m \notin T
  OBVIOUS
<1>5. m - 1 \in 0..n /\ ~ (m <= m - 1)
  BY <1>4
<1>6. m - 1 \in T
  BY <1>3, <1>5
<1> QED
  BY <1>4, <1>6

-----------------------------------------------------------------------------
(* SelectInSeq: the first position in I, or 0.                             *)
LEMMA FirstIn ==
  ASSUME NEW I \in SUBSET Nat, I # {}
  PROVE  Min(I) \in I /\ \A k \in I : Min(I) <= k
<1>1. \E m \in I : \A k \in I : m <= k
  BY LeastNatural
<1> QED
  BY <1>1 DEF Min

LEMMA SelectId ==
  ASSUME NEW S, NEW s \in Seq(S), NEW x,
         NEW at, at = PositionOf(s, x)
  PROVE  \/ at = 0 /\ \A i \in 1..Len(s) : s[i].id # x
         \/ at \in 1..Len(s) /\ s[at].id = x
<1>1. PICK I \in SUBSET (1..Len(s)) : I = {i \in 1..Len(s) : s[i].id = x}
  OBVIOUS
<1>2. at = IF I # {} THEN Min(I) ELSE 0
  BY <1>1 DEF PositionOf, SelectInSeq
<1>3. CASE I = {}
  BY <1>1, <1>2, <1>3
<1>4. CASE I # {}
  <2>1. I \in SUBSET Nat
    OBVIOUS
  <2>2. at \in I
    BY <1>2, <1>4, <2>1, FirstIn
  <2> QED
    BY <1>1, <2>2
<1> QED
  BY <1>3, <1>4

LEMMA SelectLower ==
  ASSUME NEW S, NEW s \in Seq(S), NEW x,
         NEW at, at = FirstBelow(s, x)
  PROVE  \/ at = 0 /\ \A i \in 1..Len(s) : ~ (s[i].score < x)
         \/ /\ at \in 1..Len(s) /\ s[at].score < x
            /\ \A i \in 1..(at - 1) : ~ (s[i].score < x)
<1>1. PICK I \in SUBSET (1..Len(s)) : I = {i \in 1..Len(s) : s[i].score < x}
  OBVIOUS
<1>2. at = IF I # {} THEN Min(I) ELSE 0
  BY <1>1 DEF FirstBelow, SelectInSeq
<1>3. CASE I = {}
  BY <1>1, <1>2, <1>3
<1>4. CASE I # {}
  <2>1. I \in SUBSET Nat
    OBVIOUS
  <2>0. at = Min(I)
    BY <1>2, <1>4
  <2>2. at \in I /\ \A k \in I : at <= k
    BY <1>4, <2>0, <2>1, FirstIn
  <2>3. \A i \in 1..(at - 1) : i \notin I
    <3> TAKE i \in 1..(at - 1)
    <3>1. at \in Nat /\ ~ (at <= i)
      BY <2>1, <2>2
    <3> QED
      BY <2>2, <3>1
  <2>4. at \in 1..Len(s) /\ s[at].score < x
    BY <1>1, <2>2
  <2>5. \A i \in 1..(at - 1) : i \in 1..Len(s)
    BY <2>4
  <2> QED
    BY <1>1, <2>3, <2>4, <2>5
<1> QED
  BY <1>3, <1>4

LEMMA ConcatParts ==
  ASSUME NEW S, NEW s \in Seq(S), NEW u \in Seq(S)
  PROVE  /\ s \o u \in Seq(S)
         /\ Len(s \o u) = Len(s) + Len(u)
         /\ \A i \in 1..Len(s) : (s \o u)[i] = s[i]
         /\ \A i \in 1..Len(u) : (s \o u)[Len(s) + i] = u[i]
OBVIOUS

(* An insertion shifts what comes after it.                                *)
Shifted(s, at, e, u) ==
  /\ Len(u) = Len(s) + 1
  /\ \A i \in 1..(at - 1) : u[i] = s[i]
  /\ u[at] = e
  /\ \A i \in (at + 1)..(Len(s) + 1) : u[i] = s[i - 1]

LEMMA Inserted ==
  ASSUME NEW S, NEW s \in Seq(S), NEW at \in 1..Len(s), NEW e \in S,
         NEW u, u = InsertAt(s, at, e)
  PROVE  u \in Seq(S) /\ Shifted(s, at, e, u)
<1>1. PICK n \in Nat : n = Len(s) /\ s \in [1..n -> S] /\ at \in 1..n
  OBVIOUS
<1>2. PICK a : a = SubSeq(s, 1, at - 1)
  OBVIOUS
<1>3. PICK b : b = SubSeq(s, at, n)
  OBVIOUS
<1>4. /\ a \in Seq(S) /\ Len(a) = at - 1
      /\ \A i \in 1..(at - 1) : a[i] = s[i]
  BY <1>1, <1>2
<1>5. /\ b \in Seq(S) /\ Len(b) = n - at + 1
      /\ \A i \in 1..(n - at + 1) : b[i] = s[at + i - 1]
  BY <1>1, <1>3
<1>6. PICK c : c = Append(a, e)
  OBVIOUS
<1>7. /\ c \in Seq(S) /\ Len(c) = at /\ c[at] = e
      /\ \A i \in 1..(at - 1) : c[i] = s[i]
  BY <1>1, <1>4, <1>6
<1>8. a \o <<e>> = c
  BY <1>4, <1>6
<1>9. InsertAt(s, at, e) = c \o b
  BY <1>1, <1>2, <1>3, <1>8 DEF InsertAt
<1>10. u = c \o b
  BY <1>9
<1>11. /\ u \in Seq(S) /\ Len(u) = n + 1
       /\ \A i \in 1..at : u[i] = c[i]
       /\ \A i \in 1..(n - at + 1) : u[at + i] = b[i]
  <2>1. /\ u \in Seq(S) /\ Len(u) = Len(c) + Len(b)
        /\ \A i \in 1..Len(c) : u[i] = c[i]
        /\ \A i \in 1..Len(b) : u[Len(c) + i] = b[i]
    <3>1. b \in Seq(S) /\ c \in Seq(S)
      BY <1>5, <1>7
    <3> QED
      BY <1>10, <3>1, ConcatParts
  <2>2. Len(c) = at /\ Len(b) = n - at + 1
    BY <1>5, <1>7
  <2>3. at + (n - at + 1) = n + 1
    BY <1>1
  <2> QED
    BY <2>1, <2>2, <2>3
<1>12. \A i \in (at + 1)..(n + 1) : u[i] = s[i - 1]
  <2> TAKE i \in (at + 1)..(n + 1)
  <2>1. PICK j \in 1..(n - at + 1) : i = at + j
    <3>1. i - at \in 1..(n - at + 1) /\ i = at + (i - at)
      BY <1>1
    <3> QED
      BY <3>1
  <2>2. u[i] = b[j] /\ b[j] = s[at + j - 1] /\ at + j - 1 = i - 1
    BY <1>1, <1>5, <1>11, <2>1
  <2> QED
    BY <2>2
<1>13. u[at] = e /\ \A i \in 1..(at - 1) : u[i] = s[i]
  BY <1>1, <1>7, <1>11
<1> QED
  BY <1>1, <1>9, <1>10, <1>11, <1>12, <1>13 DEF Shifted
-----------------------------------------------------------------------------
(* Put, Insert and KeepFirst return sequences of what they are given.      *)
LEMMA PutType ==
  ASSUME NEW s \in Seq(Copies), NEW e \in Copies
  PROVE  Put(s, e) \in Seq(Copies)
<1>1. PICK at : at = PositionOf(s, e.id)
  OBVIOUS
<1>2. at = 0 \/ at \in 1..Len(s)
  BY <1>1, SelectId
<1>3. Append(s, e) \in Seq(Copies)
  OBVIOUS
<1>4. at # 0 => ReplaceAt(s, at, e) \in Seq(Copies)
  BY <1>2 DEF ReplaceAt
<1>5. Put(s, e) = CASE at = 0 -> Append(s, e)
                    [] at # 0 /\ e.score > s[at].score -> ReplaceAt(s, at, e)
                    [] OTHER -> s
  BY <1>1 DEF Put
<1> QED
  BY <1>3, <1>4, <1>5

LEMMA InsertType ==
  ASSUME NEW s \in Seq(Copies), NEW e \in Copies
  PROVE  Insert(s, e) \in Seq(Copies)
<1>1. PICK at : at = FirstBelow(s, e.score)
  OBVIOUS
<1>2. at = 0 \/ at \in 1..Len(s)
  BY <1>1, SelectLower
<1>3. Append(s, e) \in Seq(Copies)
  OBVIOUS
<1>4. at # 0 => InsertAt(s, at, e) \in Seq(Copies)
  BY <1>2, Inserted
<1>5. Insert(s, e) = IF at = 0 THEN Append(s, e) ELSE InsertAt(s, at, e)
  BY <1>1 DEF Insert, InsertBefore
<1> QED
  BY <1>3, <1>4, <1>5

Packings == [packed : Seq(Copies), used : Int]

NothingPacked == [packed |-> <<>>, used |-> 0]

LEMMA NothingPackedType == NothingPacked \in Packings
BY DEF NothingPacked, Packings

LEMMA PackEntryType ==
  ASSUME NEW a \in Packings, NEW e \in Copies
  PROVE  PackEntry(a, e) \in Packings
<1>1. Cost[e.id] \in Nat /\ Append(a.packed, e) \in Seq(Copies) /\ a.used \in Int
  BY BuilderAssumption DEF Copies, Packings
<1> QED
  BY <1>1 DEF PackEntry, Packings

LEMMA KeepFirstType ==
  ASSUME NEW S, NEW s \in Seq(S), NEW e \in S
  PROVE  KeepFirst(s, e) \in Seq(S)
BY DEF KeepFirst
-----------------------------------------------------------------------------
(***************************************************************************)
(* A loop of n iterations over c whose body is F: f is what FoldLeft       *)
(* computes for every set of positions, h what it has after each iteration.*)
(***************************************************************************)
Runs(S, E, F, base, c, n, f, h) ==
  /\ f \in [SUBSET (1..n) -> S] /\ h \in [0..n -> S]
  /\ f[{}] = base
  /\ \A s \in SUBSET (1..n) :
       s # {} => /\ s \ {Max(s)} \in SUBSET (1..n)
                 /\ c[Max(s)] \in E
                 /\ f[s] = F[<<f[s \ {Max(s)}], c[Max(s)]>>]
  /\ h[0] = base /\ h[n] = f[1..n]
  /\ \A k \in 1..n : h[k] = F[<<h[k - 1], c[k]>>]

LEMMA LoopRuns ==
  ASSUME NEW S, NEW E, NEW F \in [S \X E -> S], NEW base \in S,
         NEW c \in Seq(E), NEW n, n = Len(c)
  PROVE  \E f, h : Runs(S, E, F, base, c, n, f, h)
<1> DEFINE P == SUBSET (1..n)
<1>1. n \in Nat /\ DOMAIN c = 1..n /\ \A k \in 1..n : c[k] \in E
  OBVIOUS
<1>2. PICK f : Folding(F, base, c, f)
  BY <1>1, FoldingExists
<1>3. f = [s \in P |-> IF s = {} THEN base ELSE F[<<f[s \ {Max(s)}], c[Max(s)]>>]]
  BY <1>1, <1>2 DEF Folding
<1>4. \A s \in P : s # {} => /\ c[Max(s)] \in E
                             /\ s \ {Max(s)} \in P
                             /\ f[s] = F[<<f[s \ {Max(s)}], c[Max(s)]>>]
  <2>1. \A s \in P : s # {} => c[Max(s)] \in E
    BY <1>1, LastPosition
  <2>2. \A s \in P : s # {} => s \ {Max(s)} \in P
    OBVIOUS
  <2>3. \A s \in P : s # {} => f[s] = F[<<f[s \ {Max(s)}], c[Max(s)]>>]
    BY <1>3
  <2> QED
    BY <2>1, <2>2, <2>3
<1>5. f[{}] = base
  BY <1>3
<1> DEFINE C == {s \in P : f[s] \in S}
<1>6. {} \in C /\ C \in SUBSET SUBSET (1..n)
  BY <1>5
<1>7. ASSUME NEW s \in P, s # {}, s \ {Max(s)} \in C PROVE s \in C
  <2>1. PICK w : w = <<f[s \ {Max(s)}], c[Max(s)]>>
    OBVIOUS
  <2>2. w \in S \X E
    BY <1>4, <1>7, <2>1
  <2>3. f[s] = F[w]
    BY <1>4, <1>7, <2>1
  <2> QED
    BY <2>2, <2>3
<1>8. C = P
  <2> HIDE DEF C
  <2> QED
    BY <1>1, <1>6, <1>7, PositionInduction
<1>9. f \in [P -> S]
  BY <1>3, <1>8
<1>10. PICK h : h = [k \in 0..n |-> f[1..k]]
  OBVIOUS
<1>11. \A k \in 0..n : 1..k \in P
  BY <1>1
<1>12. h \in [0..n -> S] /\ h[0] = base /\ h[n] = f[1..n]
  <2>1. 1..0 = {} /\ 0 \in 0..n /\ n \in 0..n
    BY <1>1
  <2>2. h[0] = f[1..0] /\ h[n] = f[1..n]
    BY <1>10, <2>1
  <2>3. h[0] = base
    BY <1>5, <2>1, <2>2
  <2>4. h \in [0..n -> S]
    BY <1>9, <1>10, <1>11
  <2> QED
    BY <2>2, <2>3, <2>4
<1>13. ASSUME NEW k \in 1..n PROVE h[k] = F[<<h[k - 1], c[k]>>]
  <2>0. PICK s : s = 1..k
    OBVIOUS
  <2>1. s \in P /\ s = 1..k /\ s # {}
    <3>1. k \in s /\ 1..k \subseteq 1..n
      BY <1>1, <2>0
    <3> QED
      BY <2>0, <3>1
  <2>2. Max(s) \in s /\ \A i \in s : i <= Max(s)
    BY <1>1, <2>1, LastPosition
  <2>3. Max(s) = k
    <3>1. k \in s /\ Max(s) \in Int /\ Max(s) <= k
      BY <2>1, <2>2
    <3>2. k <= Max(s)
      BY <2>2, <3>1
    <3> QED
      BY <3>1, <3>2
  <2>4. s \ {k} = 1..(k - 1)
    BY <2>1
  <2>5. f[s] = F[<<f[1..(k - 1)], c[k]>>]
    BY <1>4, <2>1, <2>3, <2>4
  <2>6. h[k] = f[s] /\ h[k - 1] = f[1..(k - 1)]
    BY <1>1, <1>10, <2>1
  <2> QED
    BY <2>5, <2>6
<1> HIDE DEF C, P
<1>14. \A k \in 1..n : h[k] = F[<<h[k - 1], c[k]>>]
  BY <1>13
<1>15. P = SUBSET (1..n)
  BY DEF P
<1>16. Runs(S, E, F, base, c, n, f, h)
  BY <1>4, <1>5, <1>9, <1>12, <1>14, <1>15, Zenon DEF Runs
<1> QED
  BY <1>16
-----------------------------------------------------------------------------
(***************************************************************************)
(* What each loop has computed after every iteration.                      *)
(***************************************************************************)
DedupeRun(c, n, h) ==
  /\ h \in [0..n -> Seq(Copies)]
  /\ h[0] = <<>>
  /\ \A k \in 1..n : h[k] = Put(h[k - 1], c[k])
  /\ DedupeLoop(c) = h[n]

LEMMA DedupeSteps ==
  ASSUME NEW c \in Seq(Copies), NEW n, n = Len(c)
  PROVE  \E h : DedupeRun(c, n, h)
<1> DEFINE F == [x \in Seq(Copies) \X Copies |-> Put(x[1], x[2])]
           By(g) == g = [s \in SUBSET DOMAIN c |->
                           IF s = {} THEN <<>>
                           ELSE Put(g[s \ {Max(s)}], c[Max(s)])]
           g == CHOOSE f : By(f)
           P == SUBSET (1..n)
<1>1. n \in Nat /\ DOMAIN c = 1..n /\ \A k \in 1..n : c[k] \in Copies
  OBVIOUS
<1>2. DedupeLoop(c) = g[1..n]
  BY <1>1 DEF DedupeLoop, FoldLeft, MapThenFoldSet
<1>3. F \in [Seq(Copies) \X Copies -> Seq(Copies)] /\ <<>> \in Seq(Copies)
  BY PutType
<1>4. \A a \in Seq(Copies), e \in Copies : F[<<a, e>>] = Put(a, e)
  OBVIOUS
<1> HIDE DEF F
<1>a. PICK f, h : Runs(Seq(Copies), Copies, F, <<>>, c, n, f, h)
  BY <1>3, LoopRuns
<1>5. /\ f \in [P -> Seq(Copies)] /\ h \in [0..n -> Seq(Copies)]
      /\ f[{}] = <<>>
      /\ \A s \in P :
           s # {} => /\ s \ {Max(s)} \in P
                     /\ c[Max(s)] \in Copies
                     /\ f[s] = F[<<f[s \ {Max(s)}], c[Max(s)]>>]
      /\ h[0] = <<>> /\ h[n] = f[1..n]
      /\ \A k \in 1..n : h[k] = F[<<h[k - 1], c[k]>>]
  BY <1>a DEF Runs
<1>6. ASSUME NEW s \in P, s # {}
      PROVE  f[s] = Put(f[s \ {Max(s)}], c[Max(s)])
  <2>1. f[s \ {Max(s)}] \in Seq(Copies) /\ c[Max(s)] \in Copies
    BY <1>5, <1>6
  <2> QED
    BY <1>4, <1>5, <1>6, <2>1
<1>7. By(f)
  BY <1>1, <1>5, <1>6
<1>8. By(g)
  BY <1>7
<1>9. \A s \in P : g[s] = IF s = {} THEN <<>>
                          ELSE Put(g[s \ {Max(s)}], c[Max(s)])
  BY <1>1, <1>8
<1> HIDE DEF g, By
<1> DEFINE C == {s \in P : g[s] = f[s]}
<1>10. {} \in C /\ C \in SUBSET SUBSET (1..n)
  BY <1>5, <1>9
<1>11. ASSUME NEW s \in P, s # {}, s \ {Max(s)} \in C PROVE s \in C
  BY <1>6, <1>9, <1>11
<1>12. C = P
  <2> HIDE DEF C
  <2> QED
    BY <1>1, <1>10, <1>11, PositionInduction
<1>13. g[1..n] = h[n]
  <2>1. 1..n \in P
    OBVIOUS
  <2>2. 1..n \in C
    BY <1>12, <2>1, Zenon
  <2> QED
    BY <1>5, <2>2
<1>14. \A k \in 1..n : h[k] = Put(h[k - 1], c[k])
  <2> TAKE k \in 1..n
  <2>1. h[k - 1] \in Seq(Copies) /\ c[k] \in Copies
    BY <1>1, <1>5
  <2> QED
    BY <1>4, <1>5, <2>1
<1>15. DedupeRun(c, n, h)
  BY <1>2, <1>5, <1>13, <1>14 DEF DedupeRun
<1> QED
  BY <1>15

SortRun(c, n, h) ==
  /\ h \in [0..n -> Seq(Copies)]
  /\ h[0] = <<>>
  /\ \A k \in 1..n : h[k] = Insert(h[k - 1], c[k])
  /\ SortLoop(c) = h[n]

LEMMA SortSteps ==
  ASSUME NEW c \in Seq(Copies), NEW n, n = Len(c)
  PROVE  \E h : SortRun(c, n, h)
<1> DEFINE F == [x \in Seq(Copies) \X Copies |-> Insert(x[1], x[2])]
           By(g) == g = [s \in SUBSET DOMAIN c |->
                           IF s = {} THEN <<>>
                           ELSE Insert(g[s \ {Max(s)}], c[Max(s)])]
           g == CHOOSE f : By(f)
           P == SUBSET (1..n)
<1>1. n \in Nat /\ DOMAIN c = 1..n /\ \A k \in 1..n : c[k] \in Copies
  OBVIOUS
<1>2. SortLoop(c) = g[1..n]
  BY <1>1 DEF SortLoop, FoldLeft, MapThenFoldSet
<1>3. F \in [Seq(Copies) \X Copies -> Seq(Copies)] /\ <<>> \in Seq(Copies)
  BY InsertType
<1>4. \A a \in Seq(Copies), e \in Copies : F[<<a, e>>] = Insert(a, e)
  OBVIOUS
<1> HIDE DEF F
<1>a. PICK f, h : Runs(Seq(Copies), Copies, F, <<>>, c, n, f, h)
  BY <1>3, LoopRuns
<1>5. /\ f \in [P -> Seq(Copies)] /\ h \in [0..n -> Seq(Copies)]
      /\ f[{}] = <<>>
      /\ \A s \in P :
           s # {} => /\ s \ {Max(s)} \in P
                     /\ c[Max(s)] \in Copies
                     /\ f[s] = F[<<f[s \ {Max(s)}], c[Max(s)]>>]
      /\ h[0] = <<>> /\ h[n] = f[1..n]
      /\ \A k \in 1..n : h[k] = F[<<h[k - 1], c[k]>>]
  BY <1>a DEF Runs
<1>6. ASSUME NEW s \in P, s # {}
      PROVE  f[s] = Insert(f[s \ {Max(s)}], c[Max(s)])
  <2>1. f[s \ {Max(s)}] \in Seq(Copies) /\ c[Max(s)] \in Copies
    BY <1>5, <1>6
  <2> QED
    BY <1>4, <1>5, <1>6, <2>1
<1>7. By(f)
  BY <1>1, <1>5, <1>6
<1>8. By(g)
  BY <1>7
<1>9. \A s \in P : g[s] = IF s = {} THEN <<>>
                          ELSE Insert(g[s \ {Max(s)}], c[Max(s)])
  BY <1>1, <1>8
<1> HIDE DEF g, By
<1> DEFINE C == {s \in P : g[s] = f[s]}
<1>10. {} \in C /\ C \in SUBSET SUBSET (1..n)
  BY <1>5, <1>9
<1>11. ASSUME NEW s \in P, s # {}, s \ {Max(s)} \in C PROVE s \in C
  BY <1>6, <1>9, <1>11
<1>12. C = P
  <2> HIDE DEF C
  <2> QED
    BY <1>1, <1>10, <1>11, PositionInduction
<1>13. g[1..n] = h[n]
  <2>1. 1..n \in P
    OBVIOUS
  <2>2. 1..n \in C
    BY <1>12, <2>1, Zenon
  <2> QED
    BY <1>5, <2>2
<1>14. \A k \in 1..n : h[k] = Insert(h[k - 1], c[k])
  <2> TAKE k \in 1..n
  <2>1. h[k - 1] \in Seq(Copies) /\ c[k] \in Copies
    BY <1>1, <1>5
  <2> QED
    BY <1>4, <1>5, <2>1
<1>15. SortRun(c, n, h)
  BY <1>2, <1>5, <1>13, <1>14 DEF SortRun
<1> QED
  BY <1>15

PackRun(c, n, h) ==
  /\ h \in [0..n -> Packings]
  /\ h[0] = NothingPacked
  /\ \A k \in 1..n : h[k] = PackEntry(h[k - 1], c[k])
  /\ PackLoop(c) = h[n].packed

LEMMA PackSteps ==
  ASSUME NEW c \in Seq(Copies), NEW n, n = Len(c)
  PROVE  \E h : PackRun(c, n, h)
<1> DEFINE F == [x \in Packings \X Copies |-> PackEntry(x[1], x[2])]
           By(g) == g = [s \in SUBSET DOMAIN c |->
                           IF s = {} THEN NothingPacked
                           ELSE PackEntry(g[s \ {Max(s)}], c[Max(s)])]
           g == CHOOSE f : By(f)
           P == SUBSET (1..n)
<1>1. n \in Nat /\ DOMAIN c = 1..n /\ \A k \in 1..n : c[k] \in Copies
  OBVIOUS
<1>2. PackLoop(c) = g[1..n].packed
  BY <1>1 DEF PackLoop, NothingPacked, FoldLeft, MapThenFoldSet
<1>3. F \in [Packings \X Copies -> Packings] /\ NothingPacked \in Packings
  BY PackEntryType, NothingPackedType
<1>4. \A a \in Packings, e \in Copies : F[<<a, e>>] = PackEntry(a, e)
  OBVIOUS
<1> HIDE DEF F
<1>a. PICK f, h : Runs(Packings, Copies, F, NothingPacked, c, n, f, h)
  BY <1>3, LoopRuns
<1>5. /\ f \in [P -> Packings] /\ h \in [0..n -> Packings]
      /\ f[{}] = NothingPacked
      /\ \A s \in P :
           s # {} => /\ s \ {Max(s)} \in P
                     /\ c[Max(s)] \in Copies
                     /\ f[s] = F[<<f[s \ {Max(s)}], c[Max(s)]>>]
      /\ h[0] = NothingPacked /\ h[n] = f[1..n]
      /\ \A k \in 1..n : h[k] = F[<<h[k - 1], c[k]>>]
  BY <1>a DEF Runs
<1>6. ASSUME NEW s \in P, s # {}
      PROVE  f[s] = PackEntry(f[s \ {Max(s)}], c[Max(s)])
  <2>1. f[s \ {Max(s)}] \in Packings /\ c[Max(s)] \in Copies
    BY <1>5, <1>6
  <2> QED
    BY <1>4, <1>5, <1>6, <2>1
<1>7. By(f)
  BY <1>1, <1>5, <1>6
<1>8. By(g)
  BY <1>7
<1>9. \A s \in P : g[s] = IF s = {} THEN NothingPacked
                          ELSE PackEntry(g[s \ {Max(s)}], c[Max(s)])
  BY <1>1, <1>8
<1> HIDE DEF g, By
<1> DEFINE C == {s \in P : g[s] = f[s]}
<1>10. {} \in C /\ C \in SUBSET SUBSET (1..n)
  BY <1>5, <1>9
<1>11. ASSUME NEW s \in P, s # {}, s \ {Max(s)} \in C PROVE s \in C
  BY <1>6, <1>9, <1>11
<1>12. C = P
  <2> HIDE DEF C
  <2> QED
    BY <1>1, <1>10, <1>11, PositionInduction
<1>13. g[1..n] = h[n]
  <2>1. 1..n \in P
    OBVIOUS
  <2>2. 1..n \in C
    BY <1>12, <2>1, Zenon
  <2> QED
    BY <1>5, <2>2
<1>14. \A k \in 1..n : h[k] = PackEntry(h[k - 1], c[k])
  <2> TAKE k \in 1..n
  <2>1. h[k - 1] \in Packings /\ c[k] \in Copies
    BY <1>1, <1>5
  <2> QED
    BY <1>4, <1>5, <2>1
<1>15. PackRun(c, n, h)
  BY <1>2, <1>5, <1>13, <1>14 DEF PackRun
<1> QED
  BY <1>15

KeepRun(E, c, n, h) ==
  /\ h \in [0..n -> Seq(E)]
  /\ h[0] = <<>>
  /\ \A k \in 1..n : h[k] = KeepFirst(h[k - 1], c[k])
  /\ DedupeSourcesLoop(c) = h[n]

LEMMA KeepSteps ==
  ASSUME NEW E, NEW c \in Seq(E), NEW n, n = Len(c)
  PROVE  \E h : KeepRun(E, c, n, h)
<1> DEFINE F == [x \in Seq(E) \X E |-> KeepFirst(x[1], x[2])]
           By(g) == g = [s \in SUBSET DOMAIN c |->
                           IF s = {} THEN <<>>
                           ELSE KeepFirst(g[s \ {Max(s)}], c[Max(s)])]
           g == CHOOSE f : By(f)
           P == SUBSET (1..n)
<1>1. n \in Nat /\ DOMAIN c = 1..n /\ \A k \in 1..n : c[k] \in E
  OBVIOUS
<1>2. DedupeSourcesLoop(c) = g[1..n]
  BY <1>1 DEF DedupeSourcesLoop, FoldLeft, MapThenFoldSet
<1>3. F \in [Seq(E) \X E -> Seq(E)] /\ <<>> \in Seq(E)
  BY KeepFirstType
<1>4. \A a \in Seq(E), e \in E : F[<<a, e>>] = KeepFirst(a, e)
  OBVIOUS
<1> HIDE DEF F
<1>a. PICK f, h : Runs(Seq(E), E, F, <<>>, c, n, f, h)
  BY <1>3, LoopRuns
<1>5. /\ f \in [P -> Seq(E)] /\ h \in [0..n -> Seq(E)]
      /\ f[{}] = <<>>
      /\ \A s \in P :
           s # {} => /\ s \ {Max(s)} \in P
                     /\ c[Max(s)] \in E
                     /\ f[s] = F[<<f[s \ {Max(s)}], c[Max(s)]>>]
      /\ h[0] = <<>> /\ h[n] = f[1..n]
      /\ \A k \in 1..n : h[k] = F[<<h[k - 1], c[k]>>]
  BY <1>a DEF Runs
<1>6. ASSUME NEW s \in P, s # {}
      PROVE  f[s] = KeepFirst(f[s \ {Max(s)}], c[Max(s)])
  <2>1. f[s \ {Max(s)}] \in Seq(E) /\ c[Max(s)] \in E
    BY <1>5, <1>6
  <2> QED
    BY <1>4, <1>5, <1>6, <2>1
<1>7. By(f)
  BY <1>1, <1>5, <1>6
<1>8. By(g)
  BY <1>7
<1>9. \A s \in P : g[s] = IF s = {} THEN <<>>
                          ELSE KeepFirst(g[s \ {Max(s)}], c[Max(s)])
  BY <1>1, <1>8
<1> HIDE DEF g, By
<1> DEFINE C == {s \in P : g[s] = f[s]}
<1>10. {} \in C /\ C \in SUBSET SUBSET (1..n)
  BY <1>5, <1>9
<1>11. ASSUME NEW s \in P, s # {}, s \ {Max(s)} \in C PROVE s \in C
  BY <1>6, <1>9, <1>11
<1>12. C = P
  <2> HIDE DEF C
  <2> QED
    BY <1>1, <1>10, <1>11, PositionInduction
<1>13. g[1..n] = h[n]
  <2>1. 1..n \in P
    OBVIOUS
  <2>2. 1..n \in C
    BY <1>12, <2>1, Zenon
  <2> QED
    BY <1>5, <2>2
<1>14. \A k \in 1..n : h[k] = KeepFirst(h[k - 1], c[k])
  <2> TAKE k \in 1..n
  <2>1. h[k - 1] \in Seq(E) /\ c[k] \in E
    BY <1>1, <1>5
  <2> QED
    BY <1>4, <1>5, <2>1
<1>15. KeepRun(E, c, n, h)
  BY <1>2, <1>5, <1>13, <1>14 DEF KeepRun
<1> QED
  BY <1>15

-----------------------------------------------------------------------------
(***************************************************************************)
(* q lists the m positions of G in the order of Before; Enumerates is the  *)
(* same for the order of the positions themselves.                         *)
(***************************************************************************)
Listing(q, m, G, score) ==
  /\ q \in [1..m -> G]
  /\ \A i \in G : \E k \in 1..m : q[k] = i
  /\ \A k, l \in 1..m : k < l => Before(score, q[k], q[l])

Enumerates(q, m, G) ==
  /\ q \in [1..m -> G]
  /\ \A i \in G : \E k \in 1..m : q[k] = i
  /\ \A k, l \in 1..m : k < l => q[k] < q[l]

TakenAt(s, q, m) == [k \in 1..m |-> s[q[k]]]

(* Arrange returns the elements as a listing has them.                     *)
LEMMA ListingFacts ==
  ASSUME NEW q, NEW m, NEW G, NEW score, Listing(q, m, G, score), NEW s,
         m \in Nat, \A i \in G : i \in Int /\ score[i] \in Int
  PROVE  /\ IsFiniteSet(G) /\ Cardinality(G) = m
         /\ \A k, l \in 1..m : q[k] = q[l] => k = l
         /\ Arrange(s, G, score) = TakenAt(s, q, m)
<1>1. /\ q \in [1..m -> G]
      /\ \A i \in G : \E k \in 1..m : q[k] = i
      /\ \A k, l \in 1..m : k < l => Before(score, q[k], q[l])
  BY DEF Listing
<1>2. \A i \in G : i \in Int /\ score[i] \in Int
  OBVIOUS
<1>3. /\ \A i, j \in G : ~ (Before(score, i, j) /\ Before(score, j, i))
      /\ \A i \in G : ~ Before(score, i, i)
  BY <1>2 DEF Before
<1>4. ASSUME NEW k \in 1..m, NEW l \in 1..m, q[k] = q[l] PROVE k = l
  <2>1. q[k] \in G /\ q[l] \in G
    BY <1>1
  <2>2. ~ (k < l) /\ ~ (l < k)
    BY <1>1, <1>3, <1>4, <2>1
  <2> QED
    BY <2>2
<1>5. IsFiniteSet(G) /\ Cardinality(G) = m
  <2>1. IsFiniteSet(1..m) /\ Cardinality(1..m) = m
    BY FS_Interval
  <2>2. q \in Surjection(1..m, G) /\ q \in Injection(1..m, G)
    BY <1>1, <1>4 DEF Surjection, Injection, IsInjective
  <2> QED
    BY <2>1, <2>2, FS_Surjection
<1>6. ASSUME NEW k \in 1..m PROVE Rank(G, score, q[k]) = k
  <2>1. PICK U : U = {j \in G : j = q[k] \/ Before(score, j, q[k])}
    OBVIOUS
  <2>2. PICK r : r = [l \in 1..k |-> q[l]]
    OBVIOUS
  <2>3. \A l \in 1..k : l \in 1..m /\ (l = k \/ l < k)
    OBVIOUS
  <2>4. \A l \in 1..k : r[l] = q[l] /\ q[l] \in U
    BY <1>1, <2>1, <2>2, <2>3
  <2>5. \A j \in U : \E l \in 1..k : r[l] = j
    <3> TAKE j \in U
    <3>1. PICK l \in 1..m : q[l] = j
      BY <1>1, <2>1
    <3>2. ~ (k < l)
      <4>1. SUFFICES ASSUME k < l PROVE FALSE
        OBVIOUS
      <4>2. Before(score, q[k], j) /\ j \in G /\ q[k] \in G
        BY <1>1, <3>1, <4>1
      <4>3. j = q[k] \/ Before(score, j, q[k])
        BY <2>1
      <4> QED
        BY <1>3, <4>2, <4>3
    <3>3. l \in 1..k
      BY <3>2
    <3> QED
      BY <2>4, <3>1, <3>3
  <2>6. r \in Surjection(1..k, U) /\ r \in Injection(1..k, U)
    <3>1. r \in [1..k -> U]
      BY <2>2, <2>4
    <3>2. \A i, j \in 1..k : r[i] = r[j] => i = j
      BY <1>4, <2>3, <2>4
    <3> QED
      BY <2>5, <3>1, <3>2 DEF Surjection, Injection, IsInjective
  <2>7. IsFiniteSet(1..k) /\ Cardinality(1..k) = k
    BY FS_Interval
  <2>8. Cardinality(U) = k
    BY <2>6, <2>7, FS_Surjection
  <2> QED
    BY <2>1, <2>8 DEF Rank
<1>7. ASSUME NEW k \in 1..m
      PROVE  (CHOOSE i \in G : Rank(G, score, i) = k) = q[k]
  <2>1. q[k] \in G /\ Rank(G, score, q[k]) = k
    BY <1>1, <1>6
  <2>2. \A i \in G : Rank(G, score, i) = k => i = q[k]
    BY <1>1, <1>6
  <2> QED
    BY <2>1, <2>2
<1>8. Arrange(s, G, score) = [k \in 1..m |-> s[q[k]]]
  <2> DEFINE at(k) == CHOOSE i \in G : Rank(G, score, i) = k
  <2>1. \A k \in 1..m : at(k) = q[k]
    BY <1>7
  <2>2. Arrange(s, G, score) = [k \in 1..m |-> s[at(k)]]
    BY <1>5 DEF Arrange
  <2> HIDE DEF at
  <2> QED
    BY <2>1, <2>2
<1> QED
  BY <1>4, <1>5, <1>8 DEF TakenAt

LEMMA ListingIsArranged ==
  ASSUME NEW s, NEW q, NEW m \in Nat, NEW G, NEW score, Listing(q, m, G, score),
         \A i \in G : i \in Int /\ score[i] \in Int
  PROVE  Arrange(s, G, score) = TakenAt(s, q, m)
BY ListingFacts

LEMMA ListingIsFinite ==
  ASSUME NEW q, NEW m \in Nat, NEW G, NEW score, Listing(q, m, G, score),
         \A i \in G : i \in Int /\ score[i] \in Int
  PROVE  IsFiniteSet(G) /\ Cardinality(G) = m
BY ListingFacts

LEMMA EnumerationIsListing ==
  ASSUME NEW S, NEW s \in Seq(S), NEW G \in SUBSET (1..Len(s)),
         NEW m \in Nat, NEW q, Enumerates(q, m, G)
  PROVE  Listing(q, m, G, Unscored(s))
<1>1. \A k \in 1..m : q[k] \in 1..Len(s)
  BY DEF Enumerates
<1>2. \A i, j \in 1..Len(s) : i < j => Before(Unscored(s), i, j)
  BY DEF Before, Unscored
<1> QED
  BY <1>1, <1>2 DEF Enumerates, Listing

LEMMA EnumerationIsArranged ==
  ASSUME NEW S, NEW s \in Seq(S), NEW G \in SUBSET (1..Len(s)),
         NEW m \in Nat, NEW q, Enumerates(q, m, G)
  PROVE  Arrange(s, G, Unscored(s)) = TakenAt(s, q, m)
<1>1. PICK score : score = Unscored(s)
  OBVIOUS
<1>2. Listing(q, m, G, score)
  BY <1>1, EnumerationIsListing
<1>3. \A i \in G : i \in Int /\ score[i] \in Int
  BY <1>1 DEF Unscored
<1>4. Arrange(s, G, score) = TakenAt(s, q, m)
  BY <1>2, <1>3, ListingIsArranged
<1> QED
  BY <1>1, <1>4

(* The enumeration of the positions up to k - 1, extended by k.            *)
Extended(q, m, k) == [l \in 1..(m + 1) |-> IF l = m + 1 THEN k ELSE q[l]]

LEMMA ExtendedEnumerates ==
  ASSUME NEW q, NEW m, NEW G, Enumerates(q, m, G), NEW k, m \in Nat, k \in Nat,
         \A x \in G : x \in Int /\ x < k
  PROVE  Enumerates(Extended(q, m, k), m + 1, G \cup {k})
<1>1. /\ q \in [1..m -> G]
      /\ \A i \in G : \E l \in 1..m : q[l] = i
      /\ \A i, j \in 1..m : i < j => q[i] < q[j]
  BY DEF Enumerates
<1>2. PICK r : r = Extended(q, m, k)
  OBVIOUS
<1>3. /\ r[m + 1] = k /\ \A l \in 1..m : r[l] = q[l]
      /\ r = [l \in 1..(m + 1) |-> r[l]]
  BY <1>2 DEF Extended
<1>4. \A l \in 1..(m + 1) : l = m + 1 \/ l \in 1..m
  OBVIOUS
<1>5. r \in [1..(m + 1) -> G \cup {k}]
  BY <1>1, <1>3, <1>4
<1>6. \A i \in G \cup {k} : \E l \in 1..(m + 1) : r[l] = i
  <2>1. m + 1 \in 1..(m + 1) /\ \A l \in 1..m : l \in 1..(m + 1)
    OBVIOUS
  <2> QED
    BY <1>1, <1>3, <2>1
<1>7. ASSUME NEW i \in 1..(m + 1), NEW j \in 1..(m + 1), i < j
      PROVE  r[i] < r[j]
  <2>1. i \in 1..m
    BY <1>7
  <2>2. r[i] = q[i] /\ q[i] \in G /\ q[i] < k
    <3>1. r[i] = q[i] /\ q[i] \in G
      BY <1>1, <1>3, <2>1
    <3>2. \A x \in G : x < k
      OBVIOUS
    <3> QED
      BY <3>1, <3>2
  <2>3. CASE j = m + 1
    BY <1>3, <2>2, <2>3
  <2>4. CASE j \in 1..m
    BY <1>1, <1>3, <1>7, <2>1, <2>4
  <2> QED
    BY <1>4, <2>3, <2>4
<1> QED
  BY <1>2, <1>5, <1>6, <1>7 DEF Enumerates

(* The first copies among the first k positions.                           *)
FirstsGrow(s, k, q, m, G) ==
  /\ (\E l \in 1..m : s[q[l]] = s[k]) => Firsts(s) \cap 1..k = G
  /\ (\A l \in 1..m : s[q[l]] # s[k]) => Firsts(s) \cap 1..k = G \cup {k}

LEMMA FirstsStep ==
  ASSUME NEW S, NEW s \in Seq(S), NEW k \in 1..Len(s), NEW m \in Nat,
         NEW q, NEW G, Enumerates(q, m, G), G = Firsts(s) \cap 1..(k - 1)
  PROVE  FirstsGrow(s, k, q, m, G)
<1>1. /\ q \in [1..m -> Firsts(s) \cap 1..(k - 1)]
      /\ \A i \in Firsts(s) \cap 1..(k - 1) : \E l \in 1..m : q[l] = i
  BY DEF Enumerates
<1>2. 1..k = 1..(k - 1) \cup {k}
  OBVIOUS
<1>3. ASSUME NEW l \in 1..m, s[q[l]] = s[k] PROVE k \notin Firsts(s)
  <2>1. q[l] \in 1..(k - 1)
    BY <1>1
  <2> QED
    BY <1>3, <2>1 DEF Firsts
<1>4. ASSUME \A l \in 1..m : s[q[l]] # s[k] PROVE k \in Firsts(s)
  <2>1. SUFFICES ASSUME k \notin Firsts(s) PROVE FALSE
    OBVIOUS
  <2> DEFINE T == {j \in 1..(k - 1) : s[j] = s[k]}
  <2>2. T \in SUBSET Nat /\ T # {}
    BY <2>1 DEF Firsts
  <2>3. PICK i \in T : \A j \in T : i <= j
    <3> HIDE DEF T
    <3> QED
      BY <2>2, LeastNatural
  <2>4. i \in 1..(k - 1) /\ s[i] = s[k]
    OBVIOUS
  <2>5. \A j \in 1..(i - 1) : s[j] # s[i]
    <3> TAKE j \in 1..(i - 1)
    <3>1. j \in 1..(k - 1) /\ ~ (i <= j)
      BY <2>4
    <3> QED
      BY <2>3, <2>4, <3>1
  <2>6. i \in Firsts(s) \cap 1..(k - 1)
    BY <2>4, <2>5 DEF Firsts
  <2>7. PICK l \in 1..m : q[l] = i
    BY <1>1, <2>6
  <2> QED
    BY <1>4, <2>4, <2>7
<1>5. Firsts(s) \cap 1..k =
        IF k \in Firsts(s) THEN (Firsts(s) \cap 1..(k - 1)) \cup {k}
                           ELSE Firsts(s) \cap 1..(k - 1)
  <2>1. PICK A : A = 1..(k - 1)
    OBVIOUS
  <2>2. 1..k = A \cup {k}
    BY <1>2, <2>1
  <2> QED
    BY <2>1, <2>2
<1> QED
  BY <1>3, <1>4, <1>5 DEF FirstsGrow

-----------------------------------------------------------------------------
LEMMA NothingToEnumerate ==
  ASSUME NEW G, G = {}
  PROVE  Enumerates(<<>>, 0, G)
<1>1. 1..0 = {}
  OBVIOUS
<1>2. <<>> \in [1..0 -> G]
  BY <1>1
<1> QED
  BY <1>1, <1>2 DEF Enumerates

(***************************************************************************)
(* The loop of dedupeSources: after k iterations it has kept the elements  *)
(* at the first copies among the first k positions.                        *)
(***************************************************************************)
LEMMA KeepsTheFirsts ==
  ASSUME NEW S, NEW c \in Seq(S)
  PROVE  DedupeSourcesLoop(c) = DedupeSources(c)
<1>1. PICK n \in Nat : n = Len(c) /\ c \in [1..n -> S]
  OBVIOUS
<1>a. PICK h : KeepRun(S, c, n, h)
  BY <1>1, KeepSteps
<1>2. /\ h \in [0..n -> Seq(S)] /\ h[0] = <<>>
      /\ \A k \in 1..n : h[k] = KeepFirst(h[k - 1], c[k])
      /\ DedupeSourcesLoop(c) = h[n]
  BY <1>a DEF KeepRun
<1> DEFINE Good(k, q) ==
             /\ Enumerates(q, Len(h[k]), Firsts(c) \cap 1..k)
             /\ \A l \in 1..Len(h[k]) : h[k][l] = c[q[l]]
           T == {k \in 0..n : \E q : Good(k, q)}
<1>3. 0 \in T
  <2>1. Firsts(c) \cap 1..0 = {} /\ Len(h[0]) = 0
    BY <1>2
  <2>2. Enumerates(<<>>, Len(h[0]), Firsts(c) \cap 1..0)
    BY <2>1, NothingToEnumerate
  <2>3. Good(0, <<>>)
    BY <2>1, <2>2
  <2> QED
    BY <2>3
<1>4. ASSUME NEW k \in 1..n, k - 1 \in T PROVE k \in T
  <2>1. PICK q : Good(k - 1, q)
    BY <1>4
  <2>2. PICK out \in Seq(S) : out = h[k - 1]
    BY <1>2
  <2>3. PICK m \in Nat : m = Len(out)
    BY <2>2
  <2>4. PICK G : G = Firsts(c) \cap 1..(k - 1)
    OBVIOUS
  <2>5. Enumerates(q, m, G) /\ \A l \in 1..m : out[l] = c[q[l]]
    BY <2>1, <2>2, <2>3, <2>4
  <2>6. h[k] = KeepFirst(out, c[k]) /\ c[k] \in S
    BY <1>1, <1>2, <2>2
  <2>10. k \in 1..Len(c) /\ k \in Nat /\ \A x \in G : x \in Int /\ x < k
    BY <1>1, <2>4
  <2>11. FirstsGrow(c, k, q, m, G)
    BY <2>4, <2>5, <2>10, FirstsStep
  <2>7. CASE \E l \in 1..m : c[q[l]] = c[k]
    <3>1. Firsts(c) \cap 1..k = G
      BY <2>7, <2>11 DEF FirstsGrow
    <3>0. PICK l \in 1..m : out[l] = c[k]
      BY <2>5, <2>7
    <3>2. h[k] = out
      <4>1. Contains(out, c[k])
        BY <2>3, <3>0 DEF Contains
      <4> QED
        BY <2>6, <4>1 DEF KeepFirst
    <3>3. Good(k, q)
      BY <2>3, <2>5, <3>1, <3>2
    <3> QED
      BY <3>3
  <2>8. CASE \A l \in 1..m : c[q[l]] # c[k]
    <3>1. Firsts(c) \cap 1..k = G \cup {k}
      BY <2>8, <2>11 DEF FirstsGrow
    <3>2. h[k] = Append(out, c[k])
      <4>0. \A l \in 1..m : out[l] # c[k]
        BY <2>5, <2>8
      <4>1. ~ Contains(out, c[k])
        BY <2>3, <4>0 DEF Contains
      <4> QED
        BY <2>6, <4>1 DEF KeepFirst
    <3>3. Enumerates(Extended(q, m, k), m + 1, G \cup {k})
      BY <2>5, <2>10, ExtendedEnumerates
    <3>4. Len(h[k]) = m + 1
      BY <2>3, <2>6, <3>2
    <3>5. \A l \in 1..(m + 1) : h[k][l] = c[Extended(q, m, k)[l]]
      BY <2>3, <2>5, <2>6, <3>2 DEF Extended
    <3>6. Good(k, Extended(q, m, k))
      BY <3>1, <3>3, <3>4, <3>5
    <3> QED
      BY <3>6
  <2> QED
    BY <2>7, <2>8
<1>5. n \in T
  <2>1. T \in SUBSET (0..n)
    OBVIOUS
  <2> HIDE DEF T
  <2>2. T = 0..n
    BY <1>3, <1>4, <2>1, LoopInduction
  <2> QED
    BY <2>2
<1>6. PICK q : Good(n, q)
  BY <1>5
<1>7. PICK out \in Seq(S) : out = h[n]
  <2>1. n \in 0..n
    BY <1>1
  <2>2. h[n] \in Seq(S)
    BY <1>2, <2>1
  <2> QED
    BY <2>2
<1>8. PICK m \in Nat : m = Len(out) /\ out = [l \in 1..m |-> out[l]]
  BY <1>7
<1>9. Firsts(c) \cap 1..n = Firsts(c) /\ Firsts(c) \in SUBSET (1..Len(c))
  BY <1>1 DEF Firsts
<1>10. Enumerates(q, m, Firsts(c)) /\ \A l \in 1..m : out[l] = c[q[l]]
  BY <1>6, <1>7, <1>8, <1>9
<1>11. Arrange(c, Firsts(c), Unscored(c)) = TakenAt(c, q, m)
  BY <1>9, <1>10, EnumerationIsArranged
<1>12. out = TakenAt(c, q, m)
  BY <1>8, <1>10 DEF TakenAt
<1> QED
  BY <1>2, <1>7, <1>11, <1>12 DEF DedupeSources
-----------------------------------------------------------------------------
(* The ids and the scores of a sequence of copies.                         *)
LEMMA CopiesType ==
  ASSUME NEW c \in Seq(Copies)
  PROVE  /\ IdsOf(c) \in Seq(Chunks) /\ Len(IdsOf(c)) = Len(c)
         /\ ScoresOf(c) \in [1..Len(c) -> Int]
         /\ \A i \in 1..Len(c) : /\ c[i] \in Copies
                                 /\ c[i].id = IdsOf(c)[i] /\ c[i].id \in Chunks
                                 /\ c[i].score = ScoresOf(c)[i]
                                 /\ c[i].score \in Int
<1>1. PICK n \in Nat : n = Len(c) /\ \A i \in 1..n : c[i] \in Copies
  OBVIOUS
<1>2. \A i \in 1..n : c[i].id \in Chunks /\ c[i].score \in Int
  BY <1>1, LoopsAssumption DEF Copies
<1>3. IdsOf(c) \in [1..n -> Chunks] /\ ScoresOf(c) \in [1..n -> Int]
  BY <1>1, <1>2 DEF IdsOf, ScoresOf
<1> QED
  BY <1>1, <1>2, <1>3 DEF IdsOf, ScoresOf

(* The score of an entry: the best among the first k copies of its id.     *)
IsBest(c, k, e) ==
  /\ \E j \in 1..k : c[j].id = e.id /\ c[j].score = e.score
  /\ \A j \in 1..k : c[j].id = e.id => c[j].score <= e.score

(***************************************************************************)
(* The loop of dedupe: after k iterations it has one entry for each first  *)
(* copy, in their order, with the best score seen so far.                  *)
(***************************************************************************)
Deduped(c, k, out, q) ==
  /\ Enumerates(q, Len(out), Firsts(IdsOf(c)) \cap 1..k)
  /\ \A l \in 1..Len(out) : out[l].id = c[q[l]].id /\ IsBest(c, k, out[l])

LEMMA PutKeepsTheBest ==
  ASSUME NEW c \in Seq(Copies), NEW k \in 1..Len(c), NEW out \in Seq(Copies),
         NEW q, Deduped(c, k - 1, out, q)
  PROVE  \E r : Deduped(c, k, Put(out, c[k]), r)
<1>1. PICK s : s = IdsOf(c)
  OBVIOUS
<1>2. s \in Seq(Chunks) /\ Len(s) = Len(c) /\ k \in 1..Len(s) /\ k \in Nat
  BY <1>1, CopiesType
<1>3. PICK m \in Nat : m = Len(out) /\ \A l \in 1..m : out[l] \in Copies
  OBVIOUS
<1>4. PICK G : G = Firsts(s) \cap 1..(k - 1)
  OBVIOUS
<1>5. /\ Enumerates(q, m, G) /\ G \in SUBSET (1..(k - 1))
      /\ \A l \in 1..m : out[l].id = c[q[l]].id /\ IsBest(c, k - 1, out[l])
      /\ \A l \in 1..m : q[l] \in 1..(k - 1)
  BY <1>1, <1>3, <1>4 DEF Deduped, Enumerates
<1>6. PICK e \in Copies : e = c[k] /\ e.id = s[k] /\ e.score \in Int
  BY <1>1, CopiesType
<1>7. \A l \in 1..m : out[l].id = s[q[l]] /\ out[l].score \in Int
  <2> TAKE l \in 1..m
  <2>1. q[l] \in 1..Len(c)
    BY <1>5
  <2>2. c[q[l]].id = s[q[l]]
    BY <1>1, <2>1, CopiesType
  <2> QED
    BY <1>3, <1>5, <2>2, LoopsAssumption DEF Copies
<1>8. PICK at : at = PositionOf(out, e.id)
  OBVIOUS
<1>9. Put(out, e) = CASE at = 0 -> Append(out, e)
                      [] at # 0 /\ e.score > out[at].score -> ReplaceAt(out, at, e)
                      [] OTHER -> out
  BY <1>8 DEF Put
<1>10. \A j \in 1..k : j = k \/ j \in 1..(k - 1)
  OBVIOUS
<1>11. ASSUME NEW f \in Copies, f.id # e.id, IsBest(c, k - 1, f)
       PROVE  IsBest(c, k, f)
  <2>1. \A j \in 1..(k - 1) : j \in 1..k
    OBVIOUS
  <2> QED
    BY <1>6, <1>10, <1>11, <2>1 DEF IsBest
<1>14. /\ at = 0 => \A l \in 1..m : out[l].id # e.id
       /\ at # 0 => at \in 1..m /\ out[at].id = e.id
  <2>1. \/ at = 0 /\ \A i \in 1..Len(out) : out[i].id # e.id
        \/ at \in 1..Len(out) /\ out[at].id = e.id
    BY <1>8, SelectId
  <2> QED
    BY <1>3, <2>1
<1>15. \A x \in G : x \in Int /\ x < k
  BY <1>2, <1>4
<1>16. FirstsGrow(s, k, q, m, G)
  BY <1>2, <1>4, <1>5, FirstsStep
<1>12. CASE at = 0
  <2>1. \A l \in 1..m : out[l].id # e.id
    BY <1>12, <1>14
  <2>a. \A l \in 1..m : s[q[l]] # s[k]
    BY <1>6, <1>7, <2>1
  <2>2. Firsts(s) \cap 1..k = G \cup {k}
    BY <1>16, <2>a, Zenon DEF FirstsGrow
  <2>b. Append(out, e) \in Seq(Copies)
    OBVIOUS
  <2>3. PICK u \in Seq(Copies) : u = Append(out, e)
    BY <2>b
  <2>4. /\ Len(u) = m + 1 /\ u[m + 1] = e /\ \A l \in 1..m : u[l] = out[l]
        /\ \A l \in 1..(m + 1) : l = m + 1 \/ l \in 1..m
    BY <1>3, <2>3
  <2>5. PICK r : r = Extended(q, m, k)
    OBVIOUS
  <2>6. Enumerates(r, m + 1, G \cup {k})
    BY <1>2, <1>5, <1>15, <2>5, ExtendedEnumerates
  <2>7. r[m + 1] = k /\ \A l \in 1..m : r[l] = q[l]
    BY <2>5 DEF Extended
  <2>8. IsBest(c, k, e)
    <3>1. \A j \in 1..(k - 1) : c[j].id # e.id
      <4> TAKE j \in 1..(k - 1)
      <4>1. SUFFICES ASSUME s[j] = s[k] PROVE FALSE
        <5>1. c[j].id = s[j]
          <6>1. j \in 1..Len(c)
            OBVIOUS
          <6> QED
            BY <1>1, <6>1, CopiesType
        <5> QED
          BY <1>6, <5>1
      <4>2. k \in Firsts(s)
        <5>1. k \in Firsts(s) \cap 1..k
          BY <2>2
        <5> QED
          BY <5>1
      <4> QED
        BY <4>1, <4>2 DEF Firsts
    <3>2. k \in 1..k /\ e.score <= e.score
      BY <1>2, <1>6
    <3> QED
      BY <1>6, <1>10, <3>1, <3>2 DEF IsBest
  <2>9. \A l \in 1..(m + 1) : u[l].id = c[r[l]].id /\ IsBest(c, k, u[l])
    <3> TAKE l \in 1..(m + 1)
    <3>1. CASE l = m + 1
      BY <1>6, <2>4, <2>7, <2>8, <3>1
    <3>2. CASE l \in 1..m
      BY <1>3, <1>5, <1>11, <2>1, <2>4, <2>7, <3>2
    <3> QED
      BY <2>4, <3>1, <3>2
  <2>10. Deduped(c, k, u, r)
    BY <1>1, <2>2, <2>4, <2>6, <2>9 DEF Deduped
  <2>11. Put(out, c[k]) = u
    BY <1>6, <1>9, <1>12, <2>3
  <2> QED
    BY <2>10, <2>11
<1>13. CASE at # 0
  <2>1. at \in 1..m /\ out[at].id = e.id
    BY <1>13, <1>14
  <2>a. \E l \in 1..m : s[q[l]] = s[k]
    BY <1>6, <1>7, <2>1
  <2>2. Firsts(s) \cap 1..k = G
    BY <1>16, <2>a DEF FirstsGrow
  <2>3. PICK u \in Seq(Copies) : u = Put(out, e)
    BY PutType
  <2>4. \/ e.score > out[at].score /\ u = ReplaceAt(out, at, e)
        \/ ~ (e.score > out[at].score) /\ u = out
    BY <1>9, <1>13, <2>3
  <2>5. /\ Len(u) = m
        /\ \A l \in 1..m : l # at => u[l] = out[l]
        /\ u[at] = IF e.score > out[at].score THEN e ELSE out[at]
    BY <1>3, <2>1, <2>4 DEF ReplaceAt
  <2>6. ASSUME NEW l \in 1..m, l # at PROVE out[l].id # e.id
    <3>1. s[q[l]] = out[l].id /\ s[q[at]] = e.id
      BY <1>7, <2>1, <2>6
    <3>2. q[l] # q[at] /\ q[l] \in Firsts(s) /\ q[at] \in Firsts(s)
      <4>0. l < at \/ at < l
        BY <2>1, <2>6
      <4>1. q[l] < q[at] \/ q[at] < q[l]
        BY <1>5, <2>1, <4>0 DEF Enumerates
      <4>2. q[l] \in G /\ q[at] \in G
        BY <1>5, <2>1 DEF Enumerates
      <4>3. q[l] \in Int /\ q[at] \in Int
        BY <1>15, <4>2
      <4> QED
        BY <1>4, <4>1, <4>2, <4>3
    <3> QED
      BY <1>2, <3>1, <3>2, FirstsCover
  <2>7. IsBest(c, k, u[at])
    <3>1. IsBest(c, k - 1, out[at])
      BY <1>5, <2>1
    <3>2. PICK a \in 1..(k - 1) : c[a].id = e.id /\ c[a].score = out[at].score
      BY <2>1, <3>1 DEF IsBest
    <3>3. \A j \in 1..(k - 1) : c[j].id = e.id => c[j].score <= out[at].score
      BY <2>1, <3>1 DEF IsBest
    <3>4. \A j \in 1..(k - 1) : j \in 1..k /\ c[j].score \in Int
      <4> TAKE j \in 1..(k - 1)
      <4>1. j \in 1..Len(c) /\ j \in 1..k
        OBVIOUS
      <4> QED
        BY <4>1, CopiesType
    <3>5. out[at].score \in Int /\ k \in 1..k
      BY <1>2, <1>7, <2>1
    <3>6. CASE e.score > out[at].score
      <4>1. u[at] = e
        BY <2>5, <3>6
      <4>2. \A j \in 1..k : c[j].id = e.id => c[j].score <= e.score
        BY <1>6, <1>10, <3>3, <3>4, <3>5, <3>6
      <4> QED
        BY <1>6, <3>5, <4>1, <4>2 DEF IsBest
    <3>7. CASE ~ (e.score > out[at].score)
      <4>1. u[at] = out[at] /\ out[at].id = e.id
        BY <2>1, <2>5, <3>7
      <4>2. \A j \in 1..k : c[j].id = e.id => c[j].score <= out[at].score
        BY <1>6, <1>10, <3>3, <3>5, <3>7
      <4> QED
        BY <3>2, <3>4, <4>1, <4>2 DEF IsBest
    <3> QED
      BY <3>6, <3>7
  <2>8. \A l \in 1..m : u[l].id = c[q[l]].id /\ IsBest(c, k, u[l])
    <3> TAKE l \in 1..m
    <3>1. CASE l = at
      <4>1. u[at].id = e.id /\ out[at].id = c[q[at]].id
        BY <1>5, <2>1, <2>5
      <4> QED
        BY <2>1, <2>7, <3>1, <4>1
    <3>2. CASE l # at
      BY <1>3, <1>5, <1>11, <2>5, <2>6, <3>2
    <3> QED
      BY <3>1, <3>2
  <2>9. Deduped(c, k, u, q)
    BY <1>1, <1>5, <2>2, <2>5, <2>8 DEF Deduped
  <2> QED
    BY <1>6, <2>3, <2>9
<1> QED
  BY <1>12, <1>13

-----------------------------------------------------------------------------
LEMMA DedupesToBest ==
  ASSUME NEW c \in Seq(Copies)
  PROVE  /\ DedupeLoop(c) \in Seq(Copies)
         /\ \E q : Deduped(c, Len(c), DedupeLoop(c), q)
<1>1. PICK n \in Nat : n = Len(c) /\ \A k \in 1..n : c[k] \in Copies
  OBVIOUS
<1>2. PICK h : DedupeRun(c, n, h)
  BY <1>1, DedupeSteps
<1>3. /\ h \in [0..n -> Seq(Copies)] /\ h[0] = <<>>
      /\ \A k \in 1..n : h[k] = Put(h[k - 1], c[k])
      /\ DedupeLoop(c) = h[n]
  BY <1>2 DEF DedupeRun
<1> DEFINE T == {k \in 0..n : \E q : Deduped(c, k, h[k], q)}
<1>4. 0 \in T
  <2>1. Firsts(IdsOf(c)) \cap 1..0 = {}
    OBVIOUS
  <2>2. Len(<<>>) = 0 /\ \A l \in 1..0 : FALSE
    OBVIOUS
  <2>3. Enumerates(<<>>, Len(<<>>), Firsts(IdsOf(c)) \cap 1..0)
    BY <2>1, <2>2, NothingToEnumerate
  <2>4. Deduped(c, 0, <<>>, <<>>)
    BY <2>2, <2>3 DEF Deduped
  <2> QED
    BY <1>3, <2>4
<1>5. ASSUME NEW k \in 1..n, k - 1 \in T PROVE k \in T
  <2>1. PICK q : Deduped(c, k - 1, h[k - 1], q)
    BY <1>5
  <2>2. PICK out \in Seq(Copies) : out = h[k - 1]
    BY <1>3
  <2>3. Deduped(c, k - 1, out, q) /\ k \in 1..Len(c)
    BY <1>1, <2>1, <2>2
  <2>4. \E r : Deduped(c, k, Put(out, c[k]), r)
    BY <2>3, PutKeepsTheBest
  <2>5. h[k] = Put(out, c[k])
    BY <1>3, <2>2
  <2> QED
    BY <2>4, <2>5
<1>6. T = 0..n
  <2>1. T \in SUBSET (0..n)
    OBVIOUS
  <2> HIDE DEF T
  <2> QED
    BY <1>4, <1>5, <2>1, LoopInduction
<1>7. n \in 0..n
  BY <1>1
<1>8. n \in T /\ h[n] \in Seq(Copies)
  BY <1>3, <1>6, <1>7
<1>9. \E q : Deduped(c, n, h[n], q)
  BY <1>8
<1> QED
  BY <1>1, <1>3, <1>8, <1>9
-----------------------------------------------------------------------------
(***************************************************************************)
(* The loop of sortByScore: after k iterations it has the first k entries  *)
(* in the order of Before, p telling which.                                *)
(***************************************************************************)
InOrder(D, k, out, p) ==
  /\ Listing(p, k, 1..k, ScoresOf(D))
  /\ Len(out) = k
  /\ \A l \in 1..k : out[l] = D[p[l]]

(* Where an insertion puts the new entry.                                  *)
Placed(out, e, a, m, u) ==
  /\ a \in 1..(m + 1) /\ Len(u) = m + 1
  /\ \A l \in 1..(a - 1) : u[l] = out[l]
  /\ u[a] = e
  /\ \A l \in (a + 1)..(m + 1) : u[l] = out[l - 1]
  /\ \A l \in 1..(a - 1) : ~ (out[l].score < e.score)
  /\ a # m + 1 => out[a].score < e.score

LEMMA InsertPlaces ==
  ASSUME NEW out \in Seq(Copies), NEW e \in Copies, NEW m, m = Len(out)
  PROVE  \E a : Placed(out, e, a, m, Insert(out, e))
<1>0. m \in Nat
  OBVIOUS
<1>1. PICK at : at = FirstBelow(out, e.score)
  OBVIOUS
<1>2. \/ at = 0 /\ \A i \in 1..Len(out) : ~ (out[i].score < e.score)
      \/ /\ at \in 1..Len(out) /\ out[at].score < e.score
         /\ \A i \in 1..(at - 1) : ~ (out[i].score < e.score)
  BY <1>1, SelectLower
<1>3. Insert(out, e) = IF at = 0 THEN Append(out, e) ELSE InsertAt(out, at, e)
  BY <1>1 DEF Insert, InsertBefore
<1>4. CASE at = 0
  <2>1. PICK u : u = Append(out, e)
    OBVIOUS
  <2>2. Len(u) = m + 1 /\ u[m + 1] = e /\ \A l \in 1..m : u[l] = out[l]
    BY <2>1
  <2>3. \A l \in 1..m : ~ (out[l].score < e.score)
    BY <1>2, <1>4
  <2>4. PICK a : a = m + 1
    OBVIOUS
  <2>5. a \in 1..(m + 1) /\ 1..(a - 1) = 1..m /\ (a + 1)..(m + 1) = {}
    BY <1>0, <2>4
  <2>6. Placed(out, e, a, m, u)
    BY <2>2, <2>3, <2>4, <2>5 DEF Placed
  <2> QED
    BY <1>3, <1>4, <2>1, <2>6
<1>5. CASE at # 0
  <2>1. /\ at \in 1..Len(out) /\ out[at].score < e.score
        /\ \A i \in 1..(at - 1) : ~ (out[i].score < e.score)
    BY <1>2, <1>5
  <2>2. PICK u : u = InsertAt(out, at, e)
    OBVIOUS
  <2>0. Shifted(out, at, e, u)
    BY <2>1, <2>2, Inserted
  <2>3. /\ Len(u) = Len(out) + 1
        /\ \A i \in 1..(at - 1) : u[i] = out[i]
        /\ u[at] = e
        /\ \A i \in (at + 1)..(Len(out) + 1) : u[i] = out[i - 1]
    BY <2>0 DEF Shifted
  <2>4. at \in 1..(m + 1)
    BY <2>1
  <2>5. Placed(out, e, at, m, u)
    BY <2>1, <2>3, <2>4 DEF Placed
  <2> QED
    BY <1>3, <1>5, <2>2, <2>5
<1> QED
  BY <1>4, <1>5

LEMMA InsertKeepsOrder ==
  ASSUME NEW D \in Seq(Copies), NEW k \in 1..Len(D), NEW out \in Seq(Copies),
         NEW p, InOrder(D, k - 1, out, p)
  PROVE  \E r : InOrder(D, k, Insert(out, D[k]), r)
<1>1. PICK m \in Nat : m = k - 1 /\ k = m + 1
  OBVIOUS
<1>2. PICK score : score = ScoresOf(D)
  OBVIOUS
<1>3. /\ p \in [1..m -> 1..m]
      /\ \A i \in 1..m : \E l \in 1..m : p[l] = i
      /\ \A i, j \in 1..m : i < j => Before(score, p[i], p[j])
      /\ Len(out) = m
      /\ \A l \in 1..m : out[l] = D[p[l]]
  BY <1>1, <1>2 DEF InOrder, Listing
<1>4. PICK e \in Copies : e = D[k] /\ e.score = score[k] /\ e.score \in Int
  BY <1>2, CopiesType
<1>5. \A l \in 1..m : /\ p[l] \in 1..m /\ out[l].score = score[p[l]]
                      /\ score[p[l]] \in Int
  <2> TAKE l \in 1..m
  <2>1. p[l] \in 1..m
    BY <1>3
  <2>2. PICK i \in 1..Len(D) : i = p[l]
    BY <1>1, <2>1
  <2>3. D[i].score = score[i] /\ score[i] \in Int
    BY <1>2, CopiesType
  <2> QED
    BY <1>3, <2>1, <2>2, <2>3
<1>6. PICK u : u = Insert(out, e)
  OBVIOUS
<1>7. PICK a : Placed(out, e, a, m, u)
  BY <1>3, <1>6, InsertPlaces
<1>8. /\ a \in 1..(m + 1) /\ Len(u) = m + 1 /\ u[a] = e
      /\ \A l \in 1..(a - 1) : u[l] = out[l] /\ ~ (out[l].score < e.score)
      /\ \A l \in (a + 1)..(m + 1) : u[l] = out[l - 1]
      /\ a # m + 1 => out[a].score < e.score
  BY <1>7 DEF Placed
<1>9. \A l \in 1..(m + 1) : \/ l \in 1..(a - 1) /\ l \in 1..m
                            \/ l = a
                            \/ l \in (a + 1)..(m + 1) /\ l - 1 \in a..m /\ l - 1 \in 1..m
  BY <1>8
<1>10. PICK r : r = [l \in 1..(m + 1) |-> IF l < a THEN p[l]
                                          ELSE IF l = a THEN k ELSE p[l - 1]]
  OBVIOUS
<1>11. /\ r[a] = k
       /\ \A l \in 1..(a - 1) : r[l] = p[l]
       /\ \A l \in (a + 1)..(m + 1) : r[l] = p[l - 1]
  BY <1>8, <1>10
<1>12. r = [l \in 1..(m + 1) |-> r[l]]
  BY <1>10
<1>13. \A l \in 1..(m + 1) : u[l] = D[r[l]] /\ r[l] \in 1..k
  <2> TAKE l \in 1..(m + 1)
  <2>1. 1..m \subseteq 1..k /\ k \in 1..k
    BY <1>1
  <2>2. CASE l \in 1..(a - 1) /\ l \in 1..m
    BY <1>3, <1>5, <1>8, <1>11, <2>1, <2>2
  <2>3. CASE l = a
    BY <1>4, <1>8, <1>11, <2>1, <2>3
  <2>4. CASE l \in (a + 1)..(m + 1) /\ l - 1 \in 1..m
    <3>1. PICK j \in 1..m : j = l - 1
      BY <2>4
    <3>2. u[l] = out[j] /\ r[l] = p[j]
      BY <1>8, <1>11, <2>4, <3>1
    <3>3. p[j] \in 1..k /\ out[j] = D[p[j]]
      BY <1>3, <1>5, <2>1
    <3> QED
      BY <3>2, <3>3
  <2> QED
    BY <1>9, <2>2, <2>3, <2>4
<1>14. \A i \in 1..k : \E l \in 1..(m + 1) : r[l] = i
  <2> TAKE i \in 1..k
  <2>1. CASE i = k
    BY <1>8, <1>11, <2>1
  <2>2. CASE i # k
    <3>1. i \in 1..m
      BY <1>1, <2>2
    <3>2. PICK l \in 1..m : p[l] = i
      BY <1>3, <3>1
    <3>3. CASE l < a
      <4>1. l \in 1..(a - 1) /\ l \in 1..(m + 1)
        BY <1>8, <3>3
      <4> QED
        BY <1>11, <3>2, <4>1
    <3>4. CASE ~ (l < a)
      <4>1. PICK x : x = l + 1
        OBVIOUS
      <4>2. x \in (a + 1)..(m + 1) /\ x \in 1..(m + 1) /\ x - 1 = l
        BY <1>8, <3>4, <4>1
      <4> QED
        BY <1>11, <3>2, <4>2
    <3> QED
      BY <3>3, <3>4
  <2> QED
    BY <2>1, <2>2
<1>15. \A l \in 1..(a - 1) : l \in 1..m /\ Before(score, p[l], k)
  <2> TAKE l \in 1..(a - 1)
  <2>1. l \in 1..m
    BY <1>8
  <2>2. p[l] < k
    BY <1>1, <1>5, <2>1
  <2>3. score[p[l]] >= score[k] /\ score[p[l]] \in Int /\ score[k] \in Int
    BY <1>4, <1>5, <1>8, <2>1
  <2> QED
    BY <2>1, <2>2, <2>3 DEF Before
<1>16. \A l \in a..m : l \in 1..m /\ Before(score, k, p[l])
  <2> TAKE l \in a..m
  <2>1. l \in 1..m /\ a \in 1..m /\ a # m + 1 /\ (l = a \/ a < l)
    BY <1>8
  <2>2. score[p[a]] < score[k]
    BY <1>4, <1>5, <1>8, <2>1
  <2>3. score[p[l]] <= score[p[a]]
    <3>1. CASE l = a
      BY <1>5, <2>1, <3>1
    <3>2. CASE a < l
      <4>1. Before(score, p[a], p[l])
        BY <1>3, <2>1, <3>2
      <4> QED
        BY <1>5, <2>1, <4>1 DEF Before
    <3> QED
      BY <2>1, <3>1, <3>2
  <2>4. score[p[l]] \in Int /\ score[p[a]] \in Int /\ score[k] \in Int
    BY <1>4, <1>5, <2>1
  <2>5. score[k] > score[p[l]]
    BY <2>2, <2>3, <2>4
  <2> QED
    BY <2>1, <2>5 DEF Before
<1>17. ASSUME NEW i \in 1..(m + 1), NEW j \in 1..(m + 1), i < j
       PROVE  Before(score, r[i], r[j])
  <2>1. CASE j < a
    <3>1. i \in 1..(a - 1) /\ j \in 1..(a - 1) /\ i \in 1..m /\ j \in 1..m
      BY <1>8, <1>17, <2>1
    <3> QED
      BY <1>3, <1>11, <1>17, <3>1
  <2>2. CASE j = a
    <3>1. i \in 1..(a - 1)
      BY <1>8, <1>17, <2>2
    <3> QED
      BY <1>11, <1>15, <2>2, <3>1
  <2>3. CASE i = a
    <3>1. j \in (a + 1)..(m + 1) /\ j - 1 \in a..m
      BY <1>8, <1>17, <2>3
    <3> QED
      BY <1>11, <1>16, <2>3, <3>1
  <2>4. CASE i < a /\ a < j
    <3>1. /\ i \in 1..(a - 1) /\ j \in (a + 1)..(m + 1)
          /\ i \in 1..m /\ j - 1 \in 1..m /\ i < j - 1
      BY <1>8, <1>17, <2>4
    <3>2. Before(score, p[i], p[j - 1])
      BY <1>3, <3>1
    <3> QED
      BY <1>11, <3>1, <3>2
  <2>5. CASE a < i
    <3>1. /\ i \in (a + 1)..(m + 1) /\ j \in (a + 1)..(m + 1)
          /\ i - 1 \in 1..m /\ j - 1 \in 1..m /\ i - 1 < j - 1
      BY <1>8, <1>17, <2>5
    <3>2. Before(score, p[i - 1], p[j - 1])
      BY <1>3, <3>1
    <3> QED
      BY <1>11, <3>1, <3>2
  <2>6. a \in Int /\ i \in Int /\ j \in Int
    BY <1>8
  <2> QED
    BY <1>17, <2>1, <2>2, <2>3, <2>4, <2>5, <2>6
<1>18. r \in [1..k -> 1..k]
  BY <1>1, <1>12, <1>13
<1>19. Listing(r, k, 1..k, score)
  BY <1>1, <1>14, <1>17, <1>18 DEF Listing
<1>20. InOrder(D, k, u, r)
  BY <1>1, <1>2, <1>8, <1>13, <1>19 DEF InOrder
<1> QED
  BY <1>4, <1>6, <1>20

-----------------------------------------------------------------------------
LEMMA SortsToOrder ==
  ASSUME NEW D \in Seq(Copies)
  PROVE  /\ SortLoop(D) \in Seq(Copies)
         /\ \E p : InOrder(D, Len(D), SortLoop(D), p)
<1>1. PICK n \in Nat : n = Len(D) /\ \A k \in 1..n : D[k] \in Copies
  OBVIOUS
<1>2. PICK h : SortRun(D, n, h)
  BY <1>1, SortSteps
<1>3. /\ h \in [0..n -> Seq(Copies)] /\ h[0] = <<>>
      /\ \A k \in 1..n : h[k] = Insert(h[k - 1], D[k])
      /\ SortLoop(D) = h[n]
  BY <1>2 DEF SortRun
<1> DEFINE T == {k \in 0..n : \E p : InOrder(D, k, h[k], p)}
<1>4. 0 \in T
  <2>1. Len(<<>>) = 0 /\ 1..0 = {} /\ <<>> \in [1..0 -> 1..0]
    OBVIOUS
  <2>2. InOrder(D, 0, <<>>, <<>>)
    BY <2>1 DEF InOrder, Listing
  <2> QED
    BY <1>3, <2>2
<1>5. ASSUME NEW k \in 1..n, k - 1 \in T PROVE k \in T
  <2>1. PICK p : InOrder(D, k - 1, h[k - 1], p)
    BY <1>5
  <2>2. PICK out \in Seq(Copies) : out = h[k - 1]
    BY <1>3
  <2>3. InOrder(D, k - 1, out, p) /\ k \in 1..Len(D)
    BY <1>1, <2>1, <2>2
  <2>4. \E r : InOrder(D, k, Insert(out, D[k]), r)
    BY <2>3, InsertKeepsOrder
  <2>5. h[k] = Insert(out, D[k])
    BY <1>3, <2>2
  <2> QED
    BY <2>4, <2>5
<1>6. T = 0..n
  <2>1. T \in SUBSET (0..n)
    OBVIOUS
  <2> HIDE DEF T
  <2> QED
    BY <1>4, <1>5, <2>1, LoopInduction
<1>7. n \in 0..n
  BY <1>1
<1>8. n \in T /\ h[n] \in Seq(Copies)
  BY <1>3, <1>6, <1>7
<1>9. \E p : InOrder(D, n, h[n], p)
  BY <1>8
<1> QED
  BY <1>1, <1>3, <1>8, <1>9

(* The score the loop has kept is the best score of the declaration.       *)
LEMMA BestIsBest ==
  ASSUME NEW c \in Seq(Copies), NEW i \in 1..Len(c), NEW e \in Copies,
         e.id = c[i].id, IsBest(c, Len(c), e)
  PROVE  BestScore(IdsOf(c), ScoresOf(c))[i] = e.score
<1>1. PICK s : s = IdsOf(c)
  OBVIOUS
<1>2. PICK score : score = ScoresOf(c)
  OBVIOUS
<1>3. PICK n \in Nat : n = Len(c) /\ n = Len(s)
  BY <1>1, CopiesType
<1>4. \A j \in 1..n : c[j].id = s[j] /\ c[j].score = score[j] /\ score[j] \in Int
  BY <1>1, <1>2, <1>3, CopiesType
<1>5. PICK B : B = {score[j] : j \in {k \in 1..n : s[k] = s[i]}}
  OBVIOUS
<1>6. BestScore(s, score)[i] = Max(B)
  BY <1>3, <1>5 DEF BestScore
<1>7. PICK x : x = e.score
  OBVIOUS
<1>8. x \in Int /\ e.id = s[i]
  BY <1>3, <1>4, <1>7, LoopsAssumption DEF Copies
<1>9. x \in B /\ \A y \in B : y \in Int /\ y <= x
  <2>1. /\ \E j \in 1..n : c[j].id = e.id /\ c[j].score = x
        /\ \A j \in 1..n : c[j].id = e.id => c[j].score <= x
    BY <1>3, <1>7 DEF IsBest
  <2>2. \E j \in 1..n : s[j] = s[i] /\ score[j] = x
    BY <1>4, <1>8, <2>1
  <2>3. \A j \in 1..n : s[j] = s[i] => score[j] <= x /\ score[j] \in Int
    BY <1>4, <1>8, <2>1
  <2> QED
    BY <1>5, <2>2, <2>3
<1>10. Max(B) = x
  <2>1. \A y \in B : x >= y
    BY <1>8, <1>9
  <2>2. \A z \in B : (\A y \in B : z >= y) => z = x
    BY <1>8, <1>9
  <2> QED
    BY <1>9, <2>1, <2>2 DEF Max
<1> QED
  BY <1>1, <1>2, <1>6, <1>7, <1>10

(***************************************************************************)
(* dedupe followed by sortByScore is Sorted.                               *)
(***************************************************************************)
LEMMA SortsAsDeclared ==
  ASSUME NEW c \in Seq(Copies)
  PROVE  /\ SortLoop(DedupeLoop(c)) \in Seq(Copies)
         /\ IdsOf(SortLoop(DedupeLoop(c))) = Sorted(IdsOf(c), ScoresOf(c))
<1>1. PICK D \in Seq(Copies) : D = DedupeLoop(c)
  BY DedupesToBest
<1>2. PICK S \in Seq(Copies) : S = SortLoop(D)
  BY SortsToOrder
<1>3. PICK m \in Nat : m = Len(D)
  OBVIOUS
<1>4. PICK q : Deduped(c, Len(c), D, q)
  BY <1>1, DedupesToBest
<1>5. PICK p : InOrder(D, m, S, p)
  BY <1>2, <1>3, SortsToOrder
<1>6. PICK s \in Seq(Chunks) : s = IdsOf(c) /\ Len(s) = Len(c)
  BY CopiesType
<1>7. PICK best : best = BestScore(s, ScoresOf(c))
  OBVIOUS
<1>8. PICK G : G = Firsts(s)
  OBVIOUS
<1>9. G \in SUBSET (1..Len(c)) /\ G \cap 1..Len(c) = G
  BY <1>6, <1>8 DEF Firsts
<1>10. /\ q \in [1..m -> G]
       /\ \A i \in G : \E l \in 1..m : q[l] = i
       /\ \A i, j \in 1..m : i < j => q[i] < q[j]
       /\ \A l \in 1..m : D[l].id = c[q[l]].id /\ IsBest(c, Len(c), D[l])
  BY <1>3, <1>4, <1>6, <1>8, <1>9 DEF Deduped, Enumerates
<1>11. /\ p \in [1..m -> 1..m]
       /\ \A i \in 1..m : \E l \in 1..m : p[l] = i
       /\ \A i, j \in 1..m : i < j => Before(ScoresOf(D), p[i], p[j])
       /\ Len(S) = m
       /\ \A l \in 1..m : S[l] = D[p[l]]
  BY <1>5 DEF InOrder, Listing
<1>12. \A l \in 1..m : /\ q[l] \in G /\ q[l] \in Int /\ D[l].id = s[q[l]]
                       /\ best[q[l]] = ScoresOf(D)[l] /\ ScoresOf(D)[l] \in Int
  <2> TAKE l \in 1..m
  <2>1. PICK i \in 1..Len(c) : i = q[l] /\ i \in G
    BY <1>9, <1>10
  <2>2. PICK e \in Copies : e = D[l]
    BY <1>3
  <2>3. e.score = ScoresOf(D)[l] /\ e.score \in Int
    BY <1>3, <2>2, CopiesType
  <2>4. e.id = c[i].id /\ IsBest(c, Len(c), e) /\ c[i].id = s[i]
    <3>1. c[i].id = s[i]
      BY <1>6, CopiesType
    <3> QED
      BY <1>10, <2>1, <2>2, <3>1
  <2>5. best[i] = e.score
    BY <1>6, <1>7, <2>4, BestIsBest
  <2> QED
    BY <2>1, <2>2, <2>3, <2>4, <2>5
<1>13. PICK r : r = [l \in 1..m |-> q[p[l]]]
  OBVIOUS
<1>14. \A l \in 1..m : r[l] = q[p[l]] /\ p[l] \in 1..m
  BY <1>11, <1>13
<1>15. r \in [1..m -> G] /\ \A i \in G : \E l \in 1..m : r[l] = i
  <2>1. r \in [1..m -> G]
    BY <1>12, <1>13, <1>14
  <2>2. ASSUME NEW i \in G PROVE \E l \in 1..m : r[l] = i
    <3>1. PICK j \in 1..m : q[j] = i
      BY <1>10
    <3>2. PICK l \in 1..m : p[l] = j
      BY <1>11
    <3> QED
      BY <1>14, <3>1, <3>2
  <2> QED
    BY <2>1, <2>2
<1>16. ASSUME NEW k \in 1..m, NEW l \in 1..m, k < l
       PROVE  Before(best, r[k], r[l])
  <2>1. PICK x \in 1..m : x = p[k] /\ r[k] = q[x]
    BY <1>14
  <2>2. PICK y \in 1..m : y = p[l] /\ r[l] = q[y]
    BY <1>14
  <2>3. Before(ScoresOf(D), x, y)
    BY <1>11, <1>16, <2>1, <2>2
  <2>4. /\ best[q[x]] = ScoresOf(D)[x] /\ best[q[y]] = ScoresOf(D)[y]
        /\ x < y => q[x] < q[y]
    BY <1>10, <1>12
  <2> QED
    BY <2>1, <2>2, <2>3, <2>4 DEF Before
<1>17. Listing(r, m, G, best)
  BY <1>15, <1>16 DEF Listing
<1>18. \A i \in G : i \in Int /\ best[i] \in Int
  <2> TAKE i \in G
  <2>1. PICK l \in 1..m : q[l] = i
    BY <1>10
  <2> QED
    BY <1>12, <2>1
<1>19. Arrange(s, G, best) = TakenAt(s, r, m)
  BY <1>17, <1>18, ListingIsArranged
<1>20. IdsOf(S) = TakenAt(s, r, m)
  <2>1. \A l \in 1..m : S[l].id = s[r[l]]
    <3> TAKE l \in 1..m
    <3>1. PICK x \in 1..m : x = p[l] /\ r[l] = q[x]
      BY <1>14
    <3>2. S[l] = D[x] /\ D[x].id = s[q[x]]
      BY <1>11, <1>12, <3>1
    <3> QED
      BY <3>1, <3>2
  <2> QED
    BY <1>11, <2>1 DEF IdsOf, TakenAt
<1> QED
  BY <1>1, <1>2, <1>6, <1>7, <1>8, <1>19, <1>20 DEF Sorted

-----------------------------------------------------------------------------
LEMMA TotalsAreUnique ==
  ASSUME NEW S, IsFiniteSet(S), NEW f \in [S -> Int],
         NEW g, Totals(f, S, g), NEW k, Totals(f, S, k)
  PROVE  g[S] = k[S]
<1>1. S \in SUBSET S /\ \A x \in S : f[x] = f[x]
  OBVIOUS
<1>2. \A U \in SUBSET S : g[U] = k[U]
  BY <1>1, TotalsAgree
<1> QED
  BY <1>1, <1>2

Adds(h, H, f, G, k) ==
  /\ k \notin G /\ H = G \cup {k} /\ IsFiniteSet(H)
  /\ h \in [H -> Int] /\ f \in [G -> Int] /\ \A j \in G : f[j] = h[j]

LEMMA SumAdds ==
  ASSUME NEW h, NEW H, NEW f, NEW G, NEW k, Adds(h, H, f, G, k)
  PROVE  SumFunction(h) = h[k] + SumFunction(f)
<1>1. /\ k \in H /\ G = H \ {k} /\ IsFiniteSet(H)
      /\ h \in [H -> Int] /\ f \in [G -> Int] /\ \A j \in G : f[j] = h[j]
  BY DEF Adds
<1> QED
  BY <1>1, SumRemove

(* The tokens spent are the sum of the costs.                              *)
LEMMA SpentIsSum ==
  ASSUME NEW s \in Seq(Chunks), NEW G \in SUBSET (1..Len(s)),
         NEW f, f = [j \in G |-> Cost[s[j]]]
  PROVE  /\ IsFiniteSet(G) /\ f \in [G -> Int]
         /\ Spent(s, G) = SumFunction(f)
<1>1. IsFiniteSet(G)
  <2>1. PICK n \in Nat : n = Len(s)
    OBVIOUS
  <2>2. IsFiniteSet(1..n)
    BY FS_Interval
  <2> QED
    BY <2>1, <2>2, FS_Subset
<1>2. f \in [G -> Int]
  <2>1. \A j \in G : s[j] \in Chunks
    OBVIOUS
  <2>2. \A x \in Chunks : Cost[x] \in Int
    BY BuilderAssumption
  <2> QED
    BY <2>1, <2>2
<1> DEFINE By(g) == g = [t \in SUBSET G |->
                           IF t = {} THEN 0
                           ELSE Cost[s[CHOOSE x \in t : TRUE]]
                                  + g[t \ {CHOOSE x \in t : TRUE}]]
           h == CHOOSE g : By(g)
<1>3. Spent(s, G) = h[G]
  BY DEF Spent, MapThenSumSet, MapThenFoldSet
<1>4. \A t \in SUBSET G : t # {} => Cost[s[CHOOSE x \in t : TRUE]] = f[Chosen(t)]
  BY DEF Chosen
<1>5. \A g : By(g) <=> Totals(f, G, g)
  <2> TAKE g
  <2>1. PICK u : u = [t \in SUBSET G |->
                        IF t = {} THEN 0
                        ELSE Cost[s[CHOOSE x \in t : TRUE]]
                               + g[t \ {CHOOSE x \in t : TRUE}]]
    OBVIOUS
  <2>2. PICK v : v = [t \in SUBSET G |->
                        IF t = {} THEN 0
                        ELSE f[Chosen(t)] + g[t \ {Chosen(t)}]]
    OBVIOUS
  <2>3. u = v
    BY <1>4, <2>1, <2>2 DEF Chosen
  <2> QED
    BY <2>1, <2>2, <2>3 DEF Totals
<1> HIDE DEF By
<1>6. \E g : By(g)
  BY <1>1, <1>2, <1>5, TotalsExist
<1>7. By(h)
  BY <1>6
<1> HIDE DEF h
<1>8. Totals(f, G, h)
  BY <1>5, <1>7
<1>9. PICK g : Totals(f, G, g) /\ SumFunction(f) = g[G]
  BY <1>1, <1>2, SumIsTotal
<1>10. g[G] = h[G]
  <2>1. PICK K : K = G
    OBVIOUS
  <2>2. IsFiniteSet(K) /\ f \in [K -> Int] /\ Totals(f, K, g) /\ Totals(f, K, h)
    BY <1>1, <1>2, <1>8, <1>9, <2>1
  <2>3. g[K] = h[K]
    BY <2>2, TotalsAreUnique
  <2> QED
    BY <2>1, <2>3
<1> QED
  BY <1>1, <1>2, <1>3, <1>9, <1>10

LEMMA SpentType ==
  ASSUME NEW s \in Seq(Chunks), NEW G \in SUBSET (1..Len(s))
  PROVE  Spent(s, G) \in Int /\ (G = {} => Spent(s, G) = 0)
<1>1. PICK f : f = [j \in G |-> Cost[s[j]]]
  OBVIOUS
<1>2. IsFiniteSet(G) /\ f \in [G -> Int] /\ Spent(s, G) = SumFunction(f)
  BY <1>1, SpentIsSum
<1>3. Spent(s, G) \in Int
  BY <1>2, SumType
<1>4. G = {} => SumFunction(f) = 0
  BY <1>2, SumEmpty
<1> QED
  BY <1>2, <1>3, <1>4

LEMMA SpentAdds ==
  ASSUME NEW s \in Seq(Chunks), NEW G \in SUBSET (1..Len(s)),
         NEW k \in 1..Len(s), k \notin G, NEW H, H = G \cup {k}
  PROVE  Spent(s, H) = Spent(s, G) + Cost[s[k]]
<1>1. PICK f : f = [j \in G |-> Cost[s[j]]]
  OBVIOUS
<1>2. PICK h : h = [j \in H |-> Cost[s[j]]]
  OBVIOUS
<1>3. IsFiniteSet(G) /\ f \in [G -> Int] /\ Spent(s, G) = SumFunction(f)
  BY <1>1, SpentIsSum
<1>4. H \in SUBSET (1..Len(s)) /\ G = H \ {k} /\ k \in H
  OBVIOUS
<1>5. IsFiniteSet(H) /\ h \in [H -> Int] /\ Spent(s, H) = SumFunction(h)
  BY <1>2, <1>4, SpentIsSum
<1>6. \A j \in G : f[j] = h[j]
  BY <1>1, <1>2, <1>4
<1>7. SumFunction(h) = h[k] + SumFunction(f)
  <2>1. Adds(h, H, f, G, k)
    BY <1>3, <1>5, <1>6 DEF Adds
  <2> QED
    BY <2>1, SumAdds
<1>8. h[k] = Cost[s[k]] /\ h[k] \in Int
  BY <1>2, <1>4, <1>5
<1>9. SumFunction(f) \in Int
  BY <1>3, SumType
<1> QED
  BY <1>3, <1>5, <1>7, <1>8, <1>9
-----------------------------------------------------------------------------
(***************************************************************************)
(* The loop of pack: after k iterations it has the entries at the          *)
(* positions of G, and G is the packing of the first k positions.          *)
(***************************************************************************)
PackedUpTo(S, k, acc, G, r) ==
  /\ G \in SUBSET (1..k)
  /\ Enumerates(r, Len(acc.packed), G)
  /\ \A l \in 1..Len(acc.packed) : acc.packed[l] = S[r[l]]
  /\ acc.used = Spent(IdsOf(S), G)
  /\ \A i \in 1..k : i \in G <=> Admits(IdsOf(S), G \cap 1..(i - 1), i)

(* Admits says what an iteration tests.                                    *)
Tested(S, k, acc, G) ==
  /\ G \in SUBSET (1..Len(S)) /\ k \notin G
  /\ PackEntry(acc, S[k]) =
       IF Admits(IdsOf(S), G, k)
       THEN [packed |-> Append(acc.packed, S[k]),
             used   |-> Spent(IdsOf(S), G) + Cost[IdsOf(S)[k]]]
       ELSE acc

LEMMA PackEntryAdmits ==
  ASSUME NEW S \in Seq(Copies), NEW k \in 1..Len(S), NEW acc \in Packings,
         NEW G, NEW r, PackedUpTo(S, k - 1, acc, G, r)
  PROVE  Tested(S, k, acc, G)
<1>1. PICK s \in Seq(Chunks) : s = IdsOf(S) /\ Len(s) = Len(S)
  BY CopiesType
<1>2. PICK m \in Nat : m = Len(acc.packed)
  <2>1. acc.packed \in Seq(Copies)
    BY DEF Packings
  <2> QED
    BY <2>1
<1>3. G \in SUBSET (1..(k - 1)) /\ Enumerates(r, m, G) /\ acc.used = Spent(s, G)
  BY <1>1, <1>2 DEF PackedUpTo
<1>4. G \in SUBSET (1..Len(s)) /\ k \notin G /\ G \in SUBSET (1..Len(S))
  BY <1>1, <1>3
<1>5. Cardinality(G) = m /\ IsFiniteSet(G)
  <2>1. PICK score : score = Unscored(s)
    OBVIOUS
  <2>2. Listing(r, m, G, score)
    BY <1>3, <1>4, <2>1, EnumerationIsListing
  <2>3. \A i \in G : i \in Int /\ score[i] \in Int
    BY <1>4, <2>1 DEF Unscored
  <2> QED
    BY <2>2, <2>3, ListingIsFinite
<1>6. G = {} <=> m = 0
  BY <1>5, FS_EmptySet
<1>7. S[k].id = s[k] /\ Cost[s[k]] \in Int
  <2>1. s[k] \in Chunks /\ S[k].id = s[k]
    BY <1>1, CopiesType
  <2> QED
    BY <2>1, BuilderAssumption
<1>8. Spent(s, G) \in Int
  BY <1>4, SpentType
<1>9. (\/ Len(acc.packed) >= MaxChunks
       \/ Len(acc.packed) > 0 /\ acc.used + Cost[S[k].id] > Budget)
      <=> ~ Admits(s, G, k)
  <2>1. PICK x \in Int : x = Spent(s, G) /\ x = acc.used
    BY <1>3, <1>8
  <2>2. PICK y \in Int : y = Cost[s[k]] /\ y = Cost[S[k].id]
    BY <1>7
  <2>3. Admits(s, G, k) <=> m < MaxChunks /\ (m # 0 => x + y <= Budget)
    BY <1>5, <1>6, <2>1, <2>2 DEF Admits
  <2>4. (\/ Len(acc.packed) >= MaxChunks
         \/ Len(acc.packed) > 0 /\ acc.used + Cost[S[k].id] > Budget)
        <=> (m >= MaxChunks \/ (m > 0 /\ x + y > Budget))
    BY <1>2, <2>1, <2>2
  <2>5. (m >= MaxChunks \/ (m > 0 /\ x + y > Budget))
        <=> ~ (m < MaxChunks /\ (m # 0 => x + y <= Budget))
    BY BuilderAssumption
  <2> QED
    BY <2>3, <2>4, <2>5
<1>10. PackEntry(acc, S[k]) =
         IF Admits(s, G, k)
         THEN [packed |-> Append(acc.packed, S[k]), used |-> Spent(s, G) + Cost[s[k]]]
         ELSE acc
  BY <1>3, <1>7, <1>9 DEF PackEntry
<1> QED
  BY <1>1, <1>4, <1>10 DEF Tested

LEMMA PackEntryPacks ==
  ASSUME NEW S \in Seq(Copies), NEW k \in 1..Len(S), NEW acc \in Packings,
         NEW G, NEW r, PackedUpTo(S, k - 1, acc, G, r)
  PROVE  \E H, q : PackedUpTo(S, k, PackEntry(acc, S[k]), H, q)
<1>1. PICK s \in Seq(Chunks) : s = IdsOf(S) /\ Len(s) = Len(S)
  BY CopiesType
<1>2. PICK packed \in Seq(Copies) : packed = acc.packed
  BY DEF Packings
<1>3. PICK m \in Nat : m = Len(packed)
  OBVIOUS
<1>4. PICK e \in Copies : e = S[k]
  OBVIOUS
<1>5. /\ G \in SUBSET (1..(k - 1)) /\ Enumerates(r, m, G)
      /\ \A l \in 1..m : packed[l] = S[r[l]]
      /\ acc.used = Spent(s, G)
      /\ \A i \in 1..(k - 1) : i \in G <=> Admits(s, G \cap 1..(i - 1), i)
  BY <1>1, <1>2, <1>3 DEF PackedUpTo
<1>6. PICK u : u = PackEntry(acc, S[k])
  OBVIOUS
<1>7. /\ G \in SUBSET (1..Len(S)) /\ k \notin G
      /\ u = IF Admits(s, G, k)
             THEN [packed |-> Append(packed, e), used |-> Spent(s, G) + Cost[s[k]]]
             ELSE acc
  <2>1. Tested(S, k, acc, G)
    BY PackEntryAdmits
  <2> QED
    BY <1>1, <1>2, <1>4, <1>6, <2>1 DEF Tested
<1>8. /\ k \in Nat /\ G \cap 1..(k - 1) = G
      /\ \A i \in 1..k : i = k \/ i \in 1..(k - 1)
      /\ \A x \in G : x \in Int /\ x < k /\ x \in 1..k
  <2>1. PICK n \in Nat : n = k
    OBVIOUS
  <2>2. \A x \in G : x \in 1..(n - 1)
    BY <1>5, <2>1
  <2>3. \A x \in G : x \in Int /\ x < n /\ x \in 1..n
    BY <2>2
  <2>4. G \cap 1..(n - 1) = G
    BY <2>2
  <2>5. \A i \in 1..n : i = n \/ i \in 1..(n - 1)
    OBVIOUS
  <2> QED
    BY <2>1, <2>3, <2>4, <2>5
<1>9. CASE ~ Admits(s, G, k)
  <2>1. u = acc
    BY <1>7, <1>9
  <2>2. \A i \in 1..k : i \in G <=> Admits(s, G \cap 1..(i - 1), i)
    <3> TAKE i \in 1..k
    <3>1. CASE i = k
      BY <1>7, <1>8, <1>9, <3>1
    <3>2. CASE i \in 1..(k - 1)
      BY <1>5, <3>2
    <3> QED
      BY <1>8, <3>1, <3>2
  <2>3. G \in SUBSET (1..k)
    BY <1>8
  <2>4. PackedUpTo(S, k, u, G, r)
    BY <1>1, <1>2, <1>3, <1>5, <2>1, <2>2, <2>3 DEF PackedUpTo
  <2> QED
    BY <1>6, <2>4
<1>10. CASE Admits(s, G, k)
  <2>1. PICK v : v = Append(packed, e)
    OBVIOUS
  <2>2. u = [packed |-> v, used |-> Spent(s, G) + Cost[s[k]]]
    BY <1>7, <1>10, <2>1
  <2>3. /\ Len(v) = m + 1 /\ v[m + 1] = e /\ \A l \in 1..m : v[l] = packed[l]
        /\ \A l \in 1..(m + 1) : l = m + 1 \/ l \in 1..m
    BY <1>3, <2>1
  <2>4. PICK H : H = G \cup {k}
    OBVIOUS
  <2>5. PICK q : q = Extended(r, m, k)
    OBVIOUS
  <2>6. Enumerates(q, m + 1, H)
    BY <1>5, <1>8, <2>4, <2>5, ExtendedEnumerates
  <2>7. q[m + 1] = k /\ \A l \in 1..m : q[l] = r[l]
    BY <2>5 DEF Extended
  <2>8. \A l \in 1..(m + 1) : v[l] = S[q[l]]
    <3> TAKE l \in 1..(m + 1)
    <3>1. CASE l = m + 1
      BY <1>4, <2>3, <2>7, <3>1
    <3>2. CASE l \in 1..m
      <4>1. v[l] = packed[l] /\ q[l] = r[l]
        BY <2>3, <2>7, <3>2
      <4>2. packed[l] = S[r[l]]
        BY <1>5, <3>2
      <4> QED
        BY <4>1, <4>2
    <3> QED
      BY <2>3, <3>1, <3>2
  <2>9. Spent(s, H) = Spent(s, G) + Cost[s[k]]
    <3>1. G \in SUBSET (1..Len(s)) /\ k \in 1..Len(s)
      BY <1>1, <1>7
    <3> QED
      BY <1>7, <2>4, <3>1, SpentAdds
  <2>10. \A i \in 1..k : H \cap 1..(i - 1) = G \cap 1..(i - 1)
    BY <2>4
  <2>11. \A i \in 1..k : i \in H <=> Admits(s, H \cap 1..(i - 1), i)
    <3> TAKE i \in 1..k
    <3>1. CASE i = k
      BY <1>8, <1>10, <2>4, <2>10, <3>1
    <3>2. CASE i \in 1..(k - 1)
      <4>1. i \in H <=> i \in G
        BY <2>4, <3>2
      <4> QED
        BY <1>5, <2>10, <3>2, <4>1
    <3> QED
      BY <1>8, <3>1, <3>2
  <2>12. H \in SUBSET (1..k)
    BY <1>8, <2>4
  <2>13. u.packed = v /\ u.used = Spent(s, H)
    BY <2>2, <2>9
  <2>14. PackedUpTo(S, k, u, H, q)
    BY <1>1, <2>3, <2>6, <2>8, <2>11, <2>12, <2>13 DEF PackedUpTo
  <2> QED
    BY <1>6, <2>14
<1> QED
  BY <1>9, <1>10

(* There is only one packing.                                              *)
LEMMA PackingIsUnique ==
  ASSUME NEW S, NEW s \in Seq(S), NEW G \in SUBSET (1..Len(s)), Packing(s, G),
         NEW H \in SUBSET (1..Len(s)), Packing(s, H)
  PROVE  G = H
<1> DEFINE Bad == {i \in 1..Len(s) : ~ (i \in G <=> i \in H)}
<1>1. SUFFICES ASSUME Bad # {} PROVE FALSE
  OBVIOUS
<1>2. Bad \in SUBSET Nat
  OBVIOUS
<1>3. PICK i \in Bad : \A j \in Bad : i <= j
  <2> HIDE DEF Bad
  <2> QED
    BY <1>1, <1>2, LeastNatural
<1>4. i \in 1..Len(s) /\ ~ (i \in G <=> i \in H)
  OBVIOUS
<1>5. \A j \in 1..(i - 1) : j \in G <=> j \in H
  <2> TAKE j \in 1..(i - 1)
  <2>1. j \in 1..Len(s) /\ ~ (i <= j)
    BY <1>4
  <2> QED
    BY <1>3, <2>1
<1>6. G \cap 1..(i - 1) = H \cap 1..(i - 1)
  BY <1>5
<1> HIDE DEF Bad
<1> QED
  BY <1>4, <1>6 DEF Packing

-----------------------------------------------------------------------------
LEMMA PacksToPacking ==
  ASSUME NEW S \in Seq(Copies)
  PROVE  \E acc, G, r : /\ acc \in Packings /\ PackLoop(S) = acc.packed
                        /\ PackedUpTo(S, Len(S), acc, G, r)
<1>1. PICK n \in Nat : n = Len(S) /\ \A k \in 1..n : S[k] \in Copies
  OBVIOUS
<1>2. PICK h : PackRun(S, n, h)
  BY <1>1, PackSteps
<1>3. /\ h \in [0..n -> Packings] /\ h[0] = NothingPacked
      /\ \A k \in 1..n : h[k] = PackEntry(h[k - 1], S[k])
      /\ PackLoop(S) = h[n].packed
  BY <1>2 DEF PackRun
<1> DEFINE T == {k \in 0..n : \E G, r : PackedUpTo(S, k, h[k], G, r)}
<1>4. 0 \in T
  <2>1. NothingPacked.packed = <<>> /\ NothingPacked.used = 0
    BY DEF NothingPacked
  <2>2. Len(<<>>) = 0 /\ 1..0 = {}
    OBVIOUS
  <2>3. Enumerates(<<>>, Len(<<>>), {})
    BY <2>2, NothingToEnumerate
  <2>4. Spent(IdsOf(S), {}) = 0
    <3>1. IdsOf(S) \in Seq(Chunks)
      BY CopiesType
    <3>2. PICK s \in Seq(Chunks) : s = IdsOf(S)
      BY <3>1
    <3>3. PICK G : G = {}
      OBVIOUS
    <3>4. G \in SUBSET (1..Len(s))
      BY <3>3
    <3>5. Spent(s, G) = 0
      BY <3>3, <3>4, SpentType
    <3> QED
      BY <3>2, <3>3, <3>5
  <2>5. PackedUpTo(S, 0, NothingPacked, {}, <<>>)
    BY <2>1, <2>2, <2>3, <2>4 DEF PackedUpTo
  <2> QED
    BY <1>3, <2>5
<1>5. ASSUME NEW k \in 1..n, k - 1 \in T PROVE k \in T
  <2>1. PICK G, r : PackedUpTo(S, k - 1, h[k - 1], G, r)
    BY <1>5
  <2>2. PICK acc \in Packings : acc = h[k - 1]
    BY <1>3
  <2>3. PackedUpTo(S, k - 1, acc, G, r) /\ k \in 1..Len(S)
    BY <1>1, <2>1, <2>2
  <2>4. \E H, q : PackedUpTo(S, k, PackEntry(acc, S[k]), H, q)
    BY <2>3, PackEntryPacks
  <2>5. h[k] = PackEntry(acc, S[k])
    BY <1>3, <2>2
  <2> QED
    BY <2>4, <2>5
<1>6. T = 0..n
  <2>1. T \in SUBSET (0..n)
    OBVIOUS
  <2> HIDE DEF T
  <2> QED
    BY <1>4, <1>5, <2>1, LoopInduction
<1>7. n \in 0..n
  BY <1>1
<1>8. n \in T /\ h[n] \in Packings
  BY <1>3, <1>6, <1>7
<1>9. \E G, r : PackedUpTo(S, n, h[n], G, r)
  BY <1>8
<1> QED
  BY <1>1, <1>3, <1>8, <1>9

LEMMA PacksAsDeclared ==
  ASSUME NEW S \in Seq(Copies)
  PROVE  IdsOf(PackLoop(S)) = Pack(IdsOf(S))
<1>1. PICK acc, G, r : /\ acc \in Packings /\ PackLoop(S) = acc.packed
                       /\ PackedUpTo(S, Len(S), acc, G, r)
  BY PacksToPacking
<1>2. PICK packed \in Seq(Copies) : packed = acc.packed
  BY <1>1 DEF Packings
<1>3. PICK m \in Nat : m = Len(packed)
  OBVIOUS
<1>4. PICK s \in Seq(Chunks) : s = IdsOf(S) /\ Len(s) = Len(S)
  BY CopiesType
<1>5. /\ G \in SUBSET (1..Len(s)) /\ Enumerates(r, m, G)
      /\ \A l \in 1..m : packed[l] = S[r[l]]
      /\ \A i \in 1..Len(s) : i \in G <=> Admits(s, G \cap 1..(i - 1), i)
  BY <1>1, <1>2, <1>3, <1>4 DEF PackedUpTo
<1>6. Packing(s, G)
  BY <1>5 DEF Packing
<1>7. Packed(s) = G
  <2>1. PICK H : H = Packed(s)
    OBVIOUS
  <2>2. H \in SUBSET (1..Len(s)) /\ Packing(s, H)
    BY <1>5, <1>6, <2>1 DEF Packed
  <2>3. H = G
    BY <1>5, <1>6, <2>2, PackingIsUnique
  <2> QED
    BY <2>1, <2>3
<1>8. Pack(s) = TakenAt(s, r, m)
  <2>1. Arrange(s, G, Unscored(s)) = TakenAt(s, r, m)
    BY <1>5, EnumerationIsArranged
  <2> QED
    BY <1>7, <2>1 DEF Pack
<1>9. IdsOf(packed) = TakenAt(s, r, m)
  <2>1. ASSUME NEW l \in 1..m PROVE packed[l].id = s[r[l]]
    <3>1. PICK i \in 1..Len(S) : i = r[l]
      BY <1>4, <1>5 DEF Enumerates
    <3>2. S[i].id = s[i]
      BY <1>4, CopiesType
    <3> QED
      BY <1>5, <3>1, <3>2
  <2> QED
    BY <1>3, <2>1 DEF IdsOf, TakenAt
<1> QED
  BY <1>1, <1>2, <1>4, <1>8, <1>9

(***************************************************************************)
(* The loops of ContextBuilder.build, run one after the other on any       *)
(* sequence of scored copies, return the context the declaration names.    *)
(***************************************************************************)
THEOREM LoopsBuild ==
  ASSUME NEW c \in Seq(Copies)
  PROVE  BuildLoop(c) = Build(IdsOf(c), ScoresOf(c))
<1>1. PICK S \in Seq(Copies) : S = SortLoop(DedupeLoop(c))
  BY SortsAsDeclared
<1>2. IdsOf(S) = Sorted(IdsOf(c), ScoresOf(c))
  BY <1>1, SortsAsDeclared
<1>3. IdsOf(PackLoop(S)) = Pack(IdsOf(S))
  BY PacksAsDeclared
<1> QED
  BY <1>1, <1>2, <1>3 DEF BuildLoop, Build

(* The loops are given sequences of scored copies.                         *)
LEMMA InputsAreCopies == Inputs => [](input \in Seq(Copies))
<1>1. NoInput => input \in Seq(Copies)
  BY DEF NoInput
<1>2. input \in Seq(Copies) /\ [NextInput]_input => (input \in Seq(Copies))'
  <2> SUFFICES ASSUME input \in Seq(Copies), [NextInput]_input
               PROVE  input' \in Seq(Copies)
    OBVIOUS
  <2>1. CASE UNCHANGED input
    BY <2>1
  <2>2. ASSUME NEW c \in Chunks, NEW n \in Scores, AddCopy(c, n)
        PROVE  input' \in Seq(Copies)
    <3>1. PICK e \in Copies : e = [id |-> c, score |-> n]
      BY DEF Copies
    <3>2. input' = Append(input, e)
      BY <2>2, <3>1 DEF AddCopy
    <3> QED
      BY <3>1, <3>2
  <2> QED
    BY <2>1, <2>2 DEF NextInput
<1> QED
  BY <1>1, <1>2, PTL DEF Inputs

(***************************************************************************)
(* Whatever copies the loops are given, with whatever ties and whatever    *)
(* budget, they build the context of the declaration, and dedupeSources    *)
(* keeps the first source of every chunk.                                  *)
(***************************************************************************)
THEOREM LoopsAgree == Inputs => []LoopsBuildTheContext
<1>1. input \in Seq(Copies) => LoopsBuildTheContext
  <2> SUFFICES ASSUME input \in Seq(Copies) PROVE LoopsBuildTheContext
    OBVIOUS
  <2>1. BuildLoop(input) = Build(ids, scores)
    BY LoopsBuild DEF ids, scores
  <2>2. ids \in Seq(Chunks)
    BY CopiesType DEF ids
  <2>3. DedupeSourcesLoop(ids) = DedupeSources(ids)
    BY <2>2, KeepsTheFirsts
  <2> QED
    BY <2>1, <2>3 DEF LoopsBuildTheContext
<1> QED
  BY <1>1, InputsAreCopies, PTL

(* Every best score is the score of an entry of the first loop.            *)
LEMMA BestScoreType ==
  ASSUME NEW c \in Seq(Copies)
  PROVE  BestScore(IdsOf(c), ScoresOf(c)) \in [1..Len(c) -> Int]
<1>1. PICK s \in Seq(Chunks) : s = IdsOf(c) /\ Len(s) = Len(c)
  BY CopiesType
<1>2. PICK best : best = BestScore(s, ScoresOf(c))
  OBVIOUS
<1>3. PICK D \in Seq(Copies) : D = DedupeLoop(c)
  BY DedupesToBest
<1>4. PICK m \in Nat : m = Len(D)
  OBVIOUS
<1>5. PICK q : Deduped(c, Len(c), D, q)
  BY <1>3, DedupesToBest
<1>6. /\ \A i \in Firsts(s) \cap 1..Len(c) : \E l \in 1..m : q[l] = i
      /\ \A l \in 1..m : D[l].id = c[q[l]].id /\ IsBest(c, Len(c), D[l])
  BY <1>1, <1>4, <1>5 DEF Deduped, Enumerates
<1>7. ASSUME NEW i \in 1..Len(c) PROVE best[i] \in Int
  <2>1. PICK j \in Firsts(s) : s[j] = s[i]
    <3>1. s[i] \in {s[k] : k \in Firsts(s)}
      <4>1. s[i] \in Range(s)
        BY <1>1 DEF Range
      <4> QED
        BY <4>1, FirstsCover
    <3> QED
      BY <3>1
  <2>2. j \in 1..Len(c)
    BY <1>1 DEF Firsts
  <2>3. PICK l \in 1..m : q[l] = j
    BY <1>6, <2>2
  <2>4. PICK e \in Copies : e = D[l]
    BY <1>4
  <2>5. c[i].id = s[i] /\ c[j].id = s[j]
    BY <1>1, <2>2, CopiesType
  <2>6. e.id = c[i].id /\ IsBest(c, Len(c), e) /\ e.score \in Int
    BY <1>6, <2>1, <2>3, <2>4, <2>5, LoopsAssumption DEF Copies
  <2>7. best[i] = e.score
    BY <1>1, <1>2, <2>6, BestIsBest
  <2> QED
    BY <2>6, <2>7
<1>8. best = [i \in 1..Len(c) |-> best[i]]
  BY <1>1, <1>2 DEF BestScore
<1> QED
  BY <1>1, <1>2, <1>7, <1>8

(* The chunks that go into pack are all different.                         *)
LEMMA SortedIsInjective ==
  ASSUME NEW c \in Seq(Copies), NEW T, T = Sorted(IdsOf(c), ScoresOf(c))
  PROVE  T \in Seq(Chunks) /\ IsInjective(T)
<1>1. PICK s \in Seq(Chunks) : s = IdsOf(c) /\ Len(s) = Len(c)
  BY CopiesType
<1>2. PICK best : best = BestScore(s, ScoresOf(c))
  OBVIOUS
<1>3. PICK G : G = Firsts(s)
  OBVIOUS
<1>4. G \in SUBSET (1..Len(s)) /\ \A i, j \in G : s[i] = s[j] => i = j
  BY <1>3, FirstsCover
<1>5. best \in [1..Len(s) -> Int]
  <2>1. best \in [1..Len(c) -> Int]
    BY <1>1, <1>2, BestScoreType
  <2> QED
    BY <1>1, <2>1
<1>6. Arrange(s, G, best) \in Seq(Chunks) /\ IsInjective(Arrange(s, G, best))
  BY <1>4, <1>5, ArrangePermutes
<1> QED
  BY <1>1, <1>2, <1>3, <1>6 DEF Sorted

(***************************************************************************)
(* A chunk that the loops leave out did not fit beside the chunks ranked   *)
(* above it that they packed, unless those fill the cap; what the loop of  *)
(* pack admits after it, for it skips a chunk and goes on, excuses nothing.*)
(***************************************************************************)
THEOREM OnlyTheBudgetSkips == Inputs => []SkippedOnlyForBudget
<1>1. ASSUME input \in Seq(Copies) PROVE SkippedOnlyForBudget
  <2>1. PICK T : T = IdsOf(SortLoop(DedupeLoop(input)))
    OBVIOUS
  <2>2. T = Sorted(IdsOf(input), ScoresOf(input))
    BY <1>1, <2>1, SortsAsDeclared
  <2>3. T \in Seq(Chunks) /\ IsInjective(T)
    BY <1>1, <2>2, SortedIsInjective
  <2>4. BuildLoop(input) = Pack(T)
    BY <1>1, <2>2, LoopsBuild DEF Build
  <2>5. PICK P : P = Pack(T)
    OBVIOUS
  <2>6. PICK G : G = Packed(T)
    OBVIOUS
  <2>7. G \in SUBSET (1..Len(T))
    BY <2>3, <2>6, PackingExists DEF Packed
  <2>8. PICK zero : zero = Unscored(T)
    OBVIOUS
  <2>9. zero \in [1..Len(T) -> Int]
    BY <2>3, <2>8, UnscoredType
  <2>10. /\ Range(P) = {T[i] : i \in G}
         /\ P \in Seq(Chunks)
         /\ IsInjective(P)
    <3>1. P = Arrange(T, G, zero)
      BY <2>5, <2>6, <2>8 DEF Pack
    <3>2. Range(P) = {T[i] : i \in G}
      <4>1. PICK n \in Nat : n = Len(T)
        BY <2>3
      <4>3. G \in SUBSET (1..n) /\ zero \in [1..n -> Int]
        BY <2>7, <2>9, <4>1
      <4>4. Range(Arrange(T, G, zero)) = {T[i] : i \in G}
        BY <2>3, <4>1, <4>3, ArrangePermutes
      <4> QED
        BY <3>1, <4>4
    <3> QED
      BY <2>3, <2>5, <3>2, PackBounds
  <2>11. PICK packed : packed = ToSet(BuildLoop(input))
    OBVIOUS
  <2>12. packed = Range(P)
    BY <2>4, <2>5, <2>11 DEF ToSet, Range
  <2>13. \A j \in 1..Len(T) : T[j] \in packed <=> j \in G
    <3>1. \A i, j \in 1..Len(T) : T[i] = T[j] => i = j
      BY <2>3 DEF IsInjective
    <3> QED
      BY <2>7, <2>10, <2>12, <3>1
  <2>15. ASSUME NEW i \in 1..Len(T), T[i] \notin packed
         PROVE  LET above == {j \in 1..(i-1) : T[j] \in packed}
                IN  \/ Cardinality(above) = MaxChunks
                    \/ above # {} /\ Spent(T, above) + Cost[T[i]] > Budget
    <3>1. PICK above : above = {j \in 1..(i-1) : T[j] \in packed}
      OBVIOUS
    <3>2. above = G \cap 1..(i-1)
      <4>1. \A j \in 1..(i-1) : j \in 1..Len(T)
        BY <2>3
      <4> QED
        BY <2>13, <3>1, <4>1
    <3>3. i \in (1..Len(T)) \ Packed(T)
      BY <2>6, <2>13, <2>15
    <3>4. PICK before : before = Packed(T) \cap 1..(i-1)
      OBVIOUS
    <3>5. above = before
      BY <2>6, <3>2, <3>4
    <3>6. \/ Cardinality(before) = MaxChunks
          \/ /\ before # {}
             /\ ~ (Spent(T, before) + Cost[T[i]] <= Budget)
      BY <2>3, <3>3, <3>4, SkipsOnlyWhatDoesNotFit
    <3>7. Spent(T, before) \in Int
      <4>1. before \in SUBSET (1..Len(T))
        BY <2>6, <2>7, <3>4
      <4> QED
        BY <2>3, <4>1, SpentType
    <3>8. Cost[T[i]] \in Int /\ Budget \in Int
      BY <2>3, BuilderAssumption
    <3>9. ~ (Spent(T, before) + Cost[T[i]] <= Budget)
            => Spent(T, before) + Cost[T[i]] > Budget
      BY <3>7, <3>8
    <3> QED
      BY <3>1, <3>5, <3>6, <3>9
  <2>16. DOMAIN T = 1..Len(T)
    BY <2>3
  <2> QED
    BY <2>1, <2>11, <2>15, <2>16 DEF SkippedOnlyForBudget
<1> QED
  BY <1>1, InputsAreCopies, PTL
=============================================================================
