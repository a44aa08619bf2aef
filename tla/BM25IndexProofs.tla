-------------------------- MODULE BM25IndexProofs --------------------------
(***************************************************************************)
(* The keyword index's statistics are exact for any number of processes,   *)
(* chunks and terms, whatever is upserted, removed, saved, loaded, lost or *)
(* torn.  The statistics together with the types are inductive: only the   *)
(* two halves of upsert touch them, and each moves the frequency of a term *)
(* exactly when it moves the chunk in or out of the term's holders, and    *)
(* the total length by the length of that chunk.  With exact statistics a  *)
(* chunk that holds a term never scores zero, so that a search is a        *)
(* numbering of the tenant's holders cut to its first k.                   *)
(***************************************************************************)
EXTENDS BM25Index, CountingProofs

Good(ix) == ix \in Indexes /\ Exact(ix) /\ ix.totalLen = Lengths(ix)

Inv ==
  /\ TypeOK
  /\ Bookkeeping
  /\ LengthsAddUp
-----------------------------------------------------------------------------
(* The indexed chunks, and those that hold a term, are finitely many.      *)
LEMMA HoldersAreFinite ==
  ASSUME NEW ix, NEW w
  PROVE  /\ IsFiniteSet(Indexed(ix)) /\ Cardinality(Indexed(ix)) \in Nat
         /\ IsFiniteSet(Holding(ix, w)) /\ Cardinality(Holding(ix, w)) \in Nat
<1>1. Indexed(ix) \subseteq Docs /\ Holding(ix, w) \subseteq Docs
  BY DEF Indexed, Holding
<1>2. IsFiniteSet(Indexed(ix)) /\ IsFiniteSet(Holding(ix, w))
  BY <1>1, IndexAssumption, FS_Subset
<1>3. QED
  BY <1>2, FS_CardinalityType

(* The lengths of the indexed chunks are a function whose sum is known.    *)
LEMMA LengthsAreIntegers ==
  ASSUME NEW ix, ix \in Indexes
  PROVE  [d \in Indexed(ix) |-> LenOf[ix.docs[d]]] \in [Indexed(ix) -> Int]
BY IndexAssumption DEF Indexes, Indexed

(* The dirty flag is no part of the statistics.                            *)
LEMMA DirtyIsFree ==
  ASSUME NEW ix, Good(ix), NEW b \in BOOLEAN
  PROVE  Good([ix EXCEPT !.dirty = b])
<1> DEFINE j == [ix EXCEPT !.dirty = b]
<1>1. /\ j \in Indexes /\ j.docs = ix.docs
      /\ j.docFreq = ix.docFreq /\ j.totalDocs = ix.totalDocs
      /\ j.totalLen = ix.totalLen
  BY DEF Good, Indexes
<1> HIDE DEF j
<1>2. Indexed(j) = Indexed(ix) /\ \A w : Holding(j, w) = Holding(ix, w)
  BY <1>1 DEF Indexed, Holding
<1>3. Good(j)
  BY <1>1, <1>2 DEF Good, Exact, Lengths
<1>4. QED  BY <1>3 DEF j

(* A fresh index is exact, and so is one that reset() has wiped.           *)
LEMMA EmptyIsGood == Good(Empty) /\ Good([Empty EXCEPT !.dirty = TRUE])
<1>1. /\ Empty \in Indexes /\ Empty.docs = [d \in Docs |-> NoText]
      /\ Empty.docFreq = [w \in Terms |-> 0] /\ Empty.totalDocs = 0
      /\ Empty.totalLen = 0
  BY DEF Empty, Indexes
<1>2. Indexed(Empty) = {} /\ \A w : Holding(Empty, w) = {}
  BY <1>1 DEF Indexed, Holding
<1>3. Cardinality({}) = 0
  BY FS_EmptySet
<1>4. Lengths(Empty) = 0
  <2>1. [d \in {} |-> LenOf[Empty.docs[d]]] \in [{} -> Int]
    OBVIOUS
  <2> QED
    BY <1>2, <2>1, SumEmpty DEF Lengths
<1>5. Good(Empty)
  BY <1>1, <1>2, <1>3, <1>4 DEF Good, Exact
<1>6. QED
  BY <1>5, DirtyIsFree

(* remove(chunkId) keeps the statistics exact.                             *)
LEMMA RemovedIsGood ==
  ASSUME NEW ix, Good(ix), NEW d \in Docs
  PROVE  Good(Removed(ix, d)) /\ d \notin Indexed(Removed(ix, d))
<1> DEFINE r == Removed(ix, d)
           x == ix.docs[d]
<1>1. CASE d \notin Indexed(ix)
  BY <1>1 DEF Removed
<1>2. CASE d \in Indexed(ix)
  <2>1. ix \in Indexes /\ Exact(ix)
    BY DEF Good
  <2>2. x \in Texts /\ x # NoText
    BY <1>2, <2>1 DEF Indexed, Indexes
  <2>3. LenOf[x] \in Nat /\ TermsOf[x] \subseteq Terms
    BY <2>2, IndexAssumption
  <2>4. /\ r.docs = [ix.docs EXCEPT ![d] = NoText]
        /\ r.docFreq = [w \in Terms |-> IF w \in TermsOf[x]
                                          THEN Less(ix.docFreq[w])
                                          ELSE ix.docFreq[w]]
        /\ r.totalDocs = ix.totalDocs - 1
        /\ r.totalLen = ix.totalLen - LenOf[x]
        /\ r.dirty = TRUE
        /\ r = [docs |-> r.docs, docFreq |-> r.docFreq,
                totalDocs |-> r.totalDocs, totalLen |-> r.totalLen,
                dirty |-> r.dirty]
    BY <1>2 DEF Removed
  <2> HIDE DEF r
  <2>5. Indexed(r) = Indexed(ix) \ {d}
    BY <2>1, <2>4 DEF Indexed, Indexes
  <2>6. /\ Cardinality(Indexed(r)) = Cardinality(Indexed(ix)) - 1
        /\ Cardinality(Indexed(r)) \in Nat
    BY <1>2, <2>5, HoldersAreFinite, FS_RemoveElement
  <2>7. r.totalDocs = Cardinality(Indexed(r)) /\ r.totalDocs \in Int
    BY <2>1, <2>4, <2>6 DEF Exact
  <2>8. \A e \in Indexed(r) : r.docs[e] = ix.docs[e]
    BY <2>1, <2>4, <2>5 DEF Indexes, Indexed
  <2>9. ASSUME NEW w \in Terms
        PROVE  r.docFreq[w] = Cardinality(Holding(r, w))
               /\ r.docFreq[w] \in Nat
    <3>1. ix.docFreq[w] = Cardinality(Holding(ix, w)) /\ ix.docFreq[w] \in Nat
      BY <2>1 DEF Exact, Indexes
    <3>2. CASE w \in TermsOf[x]
      <4>1. d \in Holding(ix, w)
        BY <1>2, <3>2 DEF Holding
      <4>2. Holding(r, w) = Holding(ix, w) \ {d}
        BY <2>5, <2>8 DEF Holding
      <4>3. /\ Cardinality(Holding(r, w)) = Cardinality(Holding(ix, w)) - 1
            /\ Cardinality(Holding(r, w)) \in Nat
        BY <4>1, <4>2, HoldersAreFinite, FS_RemoveElement
      <4>4. r.docFreq[w] = Less(ix.docFreq[w])
        BY <2>4, <3>2
      <4>5. QED
        BY <3>1, <4>3, <4>4 DEF Less
    <3>3. CASE w \notin TermsOf[x]
      <4>1. Holding(r, w) = Holding(ix, w)
        BY <2>5, <2>8, <3>3 DEF Holding
      <4>2. r.docFreq[w] = ix.docFreq[w]
        BY <2>4, <3>3
      <4>3. QED
        BY <3>1, <4>1, <4>2
    <3>4. QED  BY <3>2, <3>3
  <2>10. Exact(r)
    BY <2>7, <2>9 DEF Exact
  <2>11. r.docFreq \in [Terms -> Nat]
    BY <2>4, <2>9
  <2>12. r.docs \in [Docs -> Texts \cup {NoText}] /\ r.totalLen \in Int
    BY <2>1, <2>3, <2>4 DEF Indexes
  <2>13. r \in Indexes
    BY <2>4, <2>7, <2>11, <2>12 DEF Indexes
  <2>14. r.totalLen = Lengths(r)
    <3> DEFINE f == [e \in Indexed(ix) |-> LenOf[ix.docs[e]]]
               h == [e \in Indexed(r) |-> LenOf[r.docs[e]]]
    <3>1. f \in [Indexed(ix) -> Int] /\ h \in [Indexed(r) -> Int]
      BY <2>1, <2>13, LengthsAreIntegers
    <3>2. (\A e \in Indexed(r) : h[e] = f[e]) /\ f[d] = LenOf[x]
      BY <1>2, <2>5, <2>8
    <3>3. ix.totalLen = SumFunction(f) /\ Lengths(r) = SumFunction(h)
      BY DEF Good, Lengths
    <3>4. IsFiniteSet(Indexed(ix)) /\ IsFiniteSet(Indexed(r))
      BY HoldersAreFinite
    <3> HIDE DEF f, h
    <3>5. SumFunction(f) = f[d] + SumFunction(h)
      BY <1>2, <2>5, <3>1, <3>2, <3>4, SumRemove
    <3>6. SumFunction(h) \in Int
      BY <3>1, <3>4, SumType
    <3> HIDE DEF x
    <3> QED
      BY <2>3, <2>4, <3>2, <3>3, <3>5, <3>6
  <2>15. QED
    BY <2>5, <2>10, <2>13, <2>14 DEF Good, r
<1>3. QED  BY <1>1, <1>2

(* Adding a chunk that is not indexed keeps the statistics exact.          *)
LEMMA AddedIsGood ==
  ASSUME NEW ix, Good(ix), NEW d \in Docs, d \notin Indexed(ix),
         NEW x \in Texts
  PROVE  Good(Added(ix, d, x))
<1> DEFINE r == Added(ix, d, x)
<1>1. ix \in Indexes /\ Exact(ix)
  BY DEF Good
<1>2. LenOf[x] \in Nat /\ TermsOf[x] \subseteq Terms /\ x # NoText
  BY IndexAssumption
<1>3. /\ r.docs = [ix.docs EXCEPT ![d] = x]
      /\ r.docFreq = [w \in Terms |-> IF w \in TermsOf[x]
                                        THEN ix.docFreq[w] + 1
                                        ELSE ix.docFreq[w]]
      /\ r.totalDocs = ix.totalDocs + 1
      /\ r.totalLen = ix.totalLen + LenOf[x]
      /\ r.dirty = TRUE
      /\ r = [docs |-> r.docs, docFreq |-> r.docFreq,
              totalDocs |-> r.totalDocs, totalLen |-> r.totalLen,
              dirty |-> r.dirty]
  BY DEF Added
<1> HIDE DEF r
<1>4. Indexed(r) = Indexed(ix) \cup {d}
  BY <1>1, <1>2, <1>3 DEF Indexed, Indexes
<1>5. /\ Cardinality(Indexed(r)) = Cardinality(Indexed(ix)) + 1
      /\ Cardinality(Indexed(r)) \in Nat
  BY <1>4, HoldersAreFinite, FS_AddElement
<1>6. r.totalDocs = Cardinality(Indexed(r)) /\ r.totalDocs \in Int
  BY <1>1, <1>3, <1>5 DEF Exact
<1>7. r.docs[d] = x /\ \A e \in Indexed(ix) : r.docs[e] = ix.docs[e]
  BY <1>1, <1>3 DEF Indexes, Indexed
<1>8. ASSUME NEW w \in Terms
      PROVE  r.docFreq[w] = Cardinality(Holding(r, w)) /\ r.docFreq[w] \in Nat
  <2>1. ix.docFreq[w] = Cardinality(Holding(ix, w)) /\ ix.docFreq[w] \in Nat
    BY <1>1 DEF Exact, Indexes
  <2>2. d \notin Holding(ix, w)
    BY DEF Holding
  <2>3. CASE w \in TermsOf[x]
    <3>1. Holding(r, w) = Holding(ix, w) \cup {d}
      BY <1>4, <1>7, <2>3 DEF Holding
    <3>2. Cardinality(Holding(r, w)) = Cardinality(Holding(ix, w)) + 1
      BY <2>2, <3>1, HoldersAreFinite, FS_AddElement
    <3>3. r.docFreq[w] = ix.docFreq[w] + 1
      BY <1>3, <2>3
    <3>4. QED
      BY <2>1, <3>2, <3>3
  <2>4. CASE w \notin TermsOf[x]
    <3>1. Holding(r, w) = Holding(ix, w)
      BY <1>4, <1>7, <2>4 DEF Holding
    <3>2. r.docFreq[w] = ix.docFreq[w]
      BY <1>3, <2>4
    <3>3. QED
      BY <2>1, <3>1, <3>2
  <2>5. QED  BY <2>3, <2>4
<1>9. Exact(r)
  BY <1>6, <1>8 DEF Exact
<1>10. r.docFreq \in [Terms -> Nat]
  BY <1>3, <1>8
<1>11. r.docs \in [Docs -> Texts \cup {NoText}] /\ r.totalLen \in Int
  BY <1>1, <1>2, <1>3 DEF Indexes
<1>12. r \in Indexes
  BY <1>3, <1>6, <1>10, <1>11 DEF Indexes
<1>13. r.totalLen = Lengths(r)
  <2> DEFINE f == [e \in Indexed(ix) |-> LenOf[ix.docs[e]]]
             h == [e \in Indexed(r) |-> LenOf[r.docs[e]]]
  <2>1. f \in [Indexed(ix) -> Int] /\ h \in [Indexed(r) -> Int]
    BY <1>1, <1>12, LengthsAreIntegers
  <2>2. (\A e \in Indexed(ix) : f[e] = h[e]) /\ h[d] = LenOf[x]
    BY <1>4, <1>7
  <2>3. ix.totalLen = SumFunction(f) /\ Lengths(r) = SumFunction(h)
    BY DEF Good, Lengths
  <2>4. IsFiniteSet(Indexed(ix)) /\ IsFiniteSet(Indexed(r))
    BY HoldersAreFinite
  <2>5. d \in Indexed(r) /\ Indexed(ix) = Indexed(r) \ {d}
    BY <1>4
  <2> HIDE DEF f, h
  <2>6. SumFunction(h) = h[d] + SumFunction(f)
    BY <2>1, <2>2, <2>4, <2>5, SumRemove
  <2>7. SumFunction(f) \in Int
    BY <2>1, <2>4, SumType
  <2> QED
    BY <1>2, <1>3, <2>2, <2>3, <2>6, <2>7
<1>14. QED
  BY <1>9, <1>12, <1>13 DEF Good, r

(* upsert keeps the statistics exact, whether it replaces a chunk or not.  *)
LEMMA UpsertedIsGood ==
  ASSUME NEW ix, Good(ix), NEW d \in Docs, NEW x \in Texts
  PROVE  Good(Upserted(ix, d, x))
BY RemovedIsGood, AddedIsGood DEF Upserted
-----------------------------------------------------------------------------
(* The invariant, said once for all indexes of the system.                 *)
LEMMA InvSaysGood ==
  Inv <=> /\ TypeOK
          /\ \A p \in Procs : Good(index[p])
          /\ Good(Loaded(disk))
<1>1. TypeOK => \A p \in Procs : index[p] \in Indexes
  BY DEF TypeOK
<1>2. TypeOK => Loaded(disk) \in Indexes
  BY EmptyIsGood DEF TypeOK, Loaded, Good
<1>3. QED
  BY <1>1, <1>2 DEF Inv, Bookkeeping, LengthsAddUp, Good

(* The invariant holds initially.                                          *)
LEMMA InitEstablishesInv == Init => Inv
<1> SUFFICES ASSUME Init PROVE Inv
  OBVIOUS
<1>1. Good(Empty) /\ Empty \in Indexes
  BY EmptyIsGood DEF Good
<1>2. TypeOK
  <2>1. index \in [Procs -> Indexes]
    BY <1>1 DEF Init
  <2>2. todo \in [Procs -> Seq(NewChunks)]
    BY DEF Init
  <2>3. QED
    BY <2>1, <2>2 DEF Init, TypeOK
<1>3. (\A p \in Procs : Good(index[p])) /\ Good(Loaded(disk))
  BY <1>1 DEF Init, Loaded
<1>4. QED
  BY <1>2, <1>3, InvSaysGood

(* A step that gives process p a good index and leaves the other indexes   *)
(* alone keeps all indexes good.                                           *)
LEMMA IndexStep ==
  ASSUME Inv, NEW p \in Procs, NEW ix, Good(ix),
         index' = [index EXCEPT ![p] = ix]
  PROVE  /\ index' \in [Procs -> Indexes]
         /\ \A q \in Procs : Good(index'[q])
<1>1. \A q \in Procs : Good(index[q])
  BY InvSaysGood
<1>2. index \in [Procs -> Indexes] /\ ix \in Indexes
  BY DEF Inv, TypeOK, Good
<1>3. index' \in [Procs -> Indexes]
  BY <1>2
<1>4. \A q \in Procs : index'[q] = IF q = p THEN ix ELSE index[q]
  BY <1>2
<1>5. QED
  BY <1>1, <1>3, <1>4

(* Every step preserves the invariant.                                     *)
LEMMA NextPreservesInv == Inv /\ [Next]_vars => Inv'
<1> SUFFICES ASSUME Inv, [Next]_vars PROVE Inv'
  OBVIOUS
<1>0. /\ TypeOK /\ \A p \in Procs : Good(index[p])
      /\ Good(Loaded(disk))
  BY InvSaysGood
<1>1. /\ TypeOK'
      /\ \A p \in Procs : Good(index'[p])
      /\ Good(Loaded(disk'))
  <2>1. CASE UNCHANGED vars
    BY <1>0, <2>1 DEF vars, TypeOK
  <2>2. ASSUME NEW p \in Procs, Open(p)
        PROVE  TypeOK' /\ (\A q \in Procs : Good(index'[q])) /\ Good(Loaded(disk'))
    <3>1. (\A q \in Procs : Good(index'[q])) /\ index' \in [Procs -> Indexes]
      BY <1>0, <2>2, IndexStep DEF Open
    <3>2. QED
      BY <1>0, <2>2, <3>1 DEF Open, TypeOK
  <2>3. ASSUME NEW p \in Procs, Upsert(p)
        PROVE  TypeOK' /\ (\A q \in Procs : Good(index'[q])) /\ Good(Loaded(disk'))
    <3> DEFINE c == Head(todo[p])
    <3>1. todo[p] \in Seq(NewChunks) /\ todo[p] # <<>>
      BY <1>0, <2>3 DEF TypeOK, Upsert
    <3>2. /\ c \in NewChunks
          /\ Tail(todo[p]) \in Seq(NewChunks)
      BY <3>1
    <3>3. c.id \in Docs /\ c.text \in Texts
      BY <3>2 DEF NewChunks
    <3>4. Good(Upserted(index[p], c.id, c.text))
      BY <1>0, <3>3, UpsertedIsGood
    <3>5. index' = [index EXCEPT ![p] = Upserted(index[p], c.id, c.text)]
      BY <2>3 DEF Upsert
    <3>6. (\A q \in Procs : Good(index'[q])) /\ index' \in [Procs -> Indexes]
      BY <3>4, <3>5, IndexStep
    <3>7. todo' \in [Procs -> Seq(NewChunks)]
      BY <1>0, <2>3, <3>2 DEF Upsert, TypeOK
    <3>8. QED
      BY <1>0, <2>3, <3>6, <3>7 DEF Upsert, TypeOK
  <2>4. ASSUME NEW p \in Procs, SaveBegin(p)
        PROVE  TypeOK' /\ (\A q \in Procs : Good(index'[q])) /\ Good(Loaded(disk'))
    <3>1. index' = index /\ (disk' = disk \/ disk' = Torn)
      BY <2>4 DEF SaveBegin
    <3>2. Good(Loaded(disk'))
      BY <1>0, <3>1, EmptyIsGood DEF Loaded
    <3>3. QED
      BY <1>0, <2>4, <3>1, <3>2 DEF SaveBegin, TypeOK
  <2>5. ASSUME NEW p \in Procs, SaveEnd(p)
        PROVE  TypeOK' /\ (\A q \in Procs : Good(index'[q])) /\ Good(Loaded(disk'))
    <3> DEFINE snap == [index[p] EXCEPT !.dirty = FALSE]
    <3>1. Good(snap)
      BY <1>0, DirtyIsFree
    <3>2. index' = [index EXCEPT ![p] = snap]
      BY <2>5 DEF SaveEnd
    <3>3. disk' = snap \/ disk' = Torn
      BY <2>5 DEF SaveEnd
    <3> HIDE DEF snap
    <3>4. (\A q \in Procs : Good(index'[q])) /\ index' \in [Procs -> Indexes]
      BY <3>1, <3>2, IndexStep
    <3>5. Good(Loaded(disk')) /\ disk' \in Indexes \cup {NoFile, Torn}
      BY <3>1, <3>3, EmptyIsGood DEF Loaded, Good
    <3>6. kept' \subseteq Docs
      BY <1>0, <2>5 DEF SaveEnd, TypeOK, Indexed
    <3>7. QED
      BY <1>0, <2>5, <3>4, <3>5, <3>6 DEF SaveEnd, TypeOK
  <2>6. ASSUME NEW p \in Procs, SaveFails(p)
        PROVE  TypeOK' /\ (\A q \in Procs : Good(index'[q])) /\ Good(Loaded(disk'))
    <3>1. disk' = disk \/ disk' = Torn
      BY <2>6 DEF SaveFails, CutShort
    <3>2. Good(Loaded(disk')) /\ disk' \in Indexes \cup {NoFile, Torn}
      BY <1>0, <3>1, EmptyIsGood DEF TypeOK, Loaded, Good
    <3>3. UNCHANGED <<open, index, todo, kept>>
      BY <2>6 DEF SaveFails
    <3> QED
      BY <1>0, <2>6, <3>2, <3>3 DEF SaveFails, TypeOK
  <2>7. ASSUME NEW p \in Procs, Reset(p)
        PROVE  TypeOK' /\ (\A q \in Procs : Good(index'[q])) /\ Good(Loaded(disk'))
    <3>1. (\A q \in Procs : Good(index'[q])) /\ index' \in [Procs -> Indexes]
      BY <2>7, IndexStep, EmptyIsGood DEF Reset
    <3>2. QED
      BY <1>0, <2>7, <3>1 DEF Reset, TypeOK
  <2>8. ASSUME NEW p \in Procs, Exit(p)
        PROVE  TypeOK' /\ (\A q \in Procs : Good(index'[q])) /\ Good(Loaded(disk'))
    <3>1. (\A q \in Procs : Good(index'[q])) /\ index' \in [Procs -> Indexes]
      BY <2>8, IndexStep, EmptyIsGood DEF Exit
    <3>2. todo' \in [Procs -> Seq(NewChunks)]
      BY <1>0, <2>8 DEF Exit, TypeOK
    <3>3. disk' = disk \/ disk' = Torn
      BY <2>8 DEF Exit, CutShort
    <3>4. Good(Loaded(disk')) /\ disk' \in Indexes \cup {NoFile, Torn}
      BY <1>0, <3>3, EmptyIsGood DEF TypeOK, Loaded, Good
    <3>5. /\ open' \subseteq Procs /\ phase' \in [Procs -> {"idle", "indexing", "writing"}]
          /\ mixed' \in BOOLEAN /\ kept' \subseteq Docs
      BY <1>0, <2>8 DEF Exit, TypeOK
    <3>6. QED
      BY <1>0, <3>1, <3>2, <3>4, <3>5 DEF TypeOK
  <2>9. ASSUME NEW p \in Procs, NEW chunks \in Batches, Ingest(p, chunks)
        PROVE  TypeOK' /\ (\A q \in Procs : Good(index'[q])) /\ Good(Loaded(disk'))
    <3>1. chunks \in Seq(NewChunks)
      <4>1. PICK n \in 1..MaxBatch : chunks \in [1..n -> NewChunks]
        BY DEF Batches
      <4>2. n \in Nat
        BY IndexAssumption
      <4>3. QED
        BY <4>1, <4>2
    <3>2. todo' \in [Procs -> Seq(NewChunks)]
      BY <1>0, <2>9, <3>1 DEF Ingest, TypeOK
    <3>3. QED
      BY <1>0, <2>9, <3>2 DEF Ingest, TypeOK
  <2>10. ASSUME NEW p \in Procs, NEW d \in Docs, Remove(p, d)
         PROVE  TypeOK' /\ (\A q \in Procs : Good(index'[q])) /\ Good(Loaded(disk'))
    <3>1. Good(Removed(index[p], d))
      BY <1>0, RemovedIsGood
    <3>2. index' = [index EXCEPT ![p] = Removed(index[p], d)]
      BY <2>10 DEF Remove
    <3>3. (\A q \in Procs : Good(index'[q])) /\ index' \in [Procs -> Indexes]
      BY <3>1, <3>2, IndexStep
    <3>4. QED
      BY <1>0, <2>10, <3>3 DEF Remove, TypeOK
  <2>11. QED
    BY <2>1, <2>2, <2>3, <2>4, <2>5, <2>6, <2>7, <2>8, <2>9, <2>10 DEF Next
<1>2. QED
  BY <1>1 DEF Inv, Bookkeeping, LengthsAddUp, Good

LEMMA Invariance == Spec => []Inv
<1> QED
  BY InitEstablishesInv, NextPreservesInv, PTL DEF Spec

(* What a process holds and what is on disk always is an index, or no      *)
(* snapshot; chunks that wait are well-formed (bm25Index.ts).              *)
THEOREM IndexTypes == Spec => []TypeOK
<1>1. Inv => TypeOK
  BY DEF Inv
<1> QED
  BY <1>1, Invariance, PTL

(* The statistics of the keyword index are exact in every reachable state, *)
(* in the memory of every process and in the snapshot (bm25Index.ts,       *)
(* upsert, remove, save, load).                                            *)
THEOREM StatisticsAreExact == Spec => []Bookkeeping
<1>1. Inv => Bookkeeping
  BY DEF Inv
<1> QED
  BY <1>1, Invariance, PTL

(* So is the total length, the average of which weighs every score         *)
(* (bm25Index.ts, totalLen).                                               *)
THEOREM LengthsAreExact == Spec => []LengthsAddUp
<1>1. Inv => LengthsAddUp
  BY DEF Inv
<1> QED
  BY <1>1, Invariance, PTL

-----------------------------------------------------------------------------
(* A filtered order holds the tenant's chunks of the order, each once.     *)
LEMMA FilteredOnce ==
  ASSUME NEW n \in Nat, NEW S, NEW s \in [1..n -> S], IsInjective(s),
         NEW tenant
  PROVE  LET m == Cardinality({i \in 1..n : TenantOf[s[i]] = tenant})
         IN  /\ m \in Nat
             /\ Filtered(s, tenant)
                  \in [1..m -> {d \in S : TenantOf[d] = tenant}]
             /\ IsInjective(Filtered(s, tenant))
<1> DEFINE own == {i \in DOMAIN s : TenantOf[s[i]] = tenant}
           R == {p \in own \X own : p[1] < p[2]}
           before(i) == Cardinality({j \in own : j < i})
           at(k) == CHOOSE i \in own : before(i) = k - 1
<1>0. /\ own = {i \in 1..n : TenantOf[s[i]] = tenant}
      /\ \A i \in own : i \in 1..n /\ TenantOf[s[i]] = tenant
  OBVIOUS
<1>a. Filtered(s, tenant) = [k \in 1..Cardinality(own) |-> s[at(k)]]
  BY DEF Filtered
<1> HIDE DEF own
<1>1. IsFiniteSet(own)
  <2>1. IsFiniteSet(1..n) /\ own \in SUBSET (1..n)
    BY <1>0, FS_Interval
  <2> QED
    BY <2>1, FS_Subset
<1>2. \A i, j \in own : i \in Int /\ (<<i, j>> \in R <=> i < j)
  BY <1>0
<1>3. \A i \in own : {j \in own : <<j, i>> \in R} = {j \in own : j < i}
  BY <1>2
<1> HIDE DEF R
<1>4. IsOrder(R, own)
  <2>1. \A i \in own : i \in Int
    BY <1>2
  <2>2. /\ \A i, j, k \in own : i < j /\ j < k => i < k
        /\ \A i, j \in own : i = j \/ i < j \/ j < i
        /\ \A i \in own : ~ (i < i)
    BY <2>1
  <2>3. \A i \in own : <<i, i>> \notin R
    BY <1>2, <2>2
  <2>4. \A i, j, k \in own : <<i, j>> \in R /\ <<j, k>> \in R => <<i, k>> \in R
    BY <1>2, <2>2
  <2>5. \A i, j \in own : i = j \/ <<i, j>> \in R \/ <<j, i>> \in R
    BY <1>2, <2>2
  <2> QED
    BY <2>3, <2>4, <2>5 DEF IsOrder
<1>5. PICK m, b : m = Cardinality(own) /\ b = Earlier(own, R)
  OBVIOUS
<1>6. /\ m \in Nat
      /\ \A c \in own : b[c] \in 0..(m - 1)
      /\ \A c, d \in own : <<c, d>> \in R <=> b[c] < b[d]
      /\ \A c, d \in own : b[c] = b[d] => c = d
      /\ \A i \in 1..m : \E c \in own : b[c] = i - 1
  BY <1>1, <1>4, <1>5, BeforeIsOneToOne
<1>7. \A i \in 1..m : \E c \in own : b[c] = i - 1
  BY <1>6
<1>8. \A i \in own : b[i] = before(i)
  BY <1>3, <1>5 DEF Earlier
<1> HIDE DEF before
<1>9. \A k \in 1..m : at(k) \in own /\ before(at(k)) = k - 1
  BY <1>7, <1>8
<1> HIDE DEF at
<1>10. \A k \in 1..m : at(k) \in 1..n /\ TenantOf[s[at(k)]] = tenant
  BY <1>0, <1>9
<1>11. ASSUME NEW k \in 1..m, NEW l \in 1..m, at(k) = at(l)
       PROVE  k = l
  <2>1. k - 1 = l - 1 /\ k \in Int /\ l \in Int
    BY <1>6, <1>9, <1>11
  <2> QED
    BY <2>1
<1>12. Filtered(s, tenant) = [k \in 1..m |-> s[at(k)]]
  BY <1>5, <1>a
<1>13. \A k \in 1..m : s[at(k)] \in {d \in S : TenantOf[d] = tenant}
  BY <1>10
<1>14. \A k, l \in 1..m : s[at(k)] = s[at(l)] => k = l
  BY <1>10, <1>11 DEF IsInjective
<1>15. Filtered(s, tenant) \in [1..m -> {d \in S : TenantOf[d] = tenant}]
  BY <1>12, <1>13
<1>16. IsInjective(Filtered(s, tenant))
  BY <1>12, <1>14 DEF IsInjective
<1>17. QED
  BY <1>0, <1>5, <1>6, <1>15, <1>16

(* An order of a finite set lists all of it.                               *)
LEMMA OrderListsAll ==
  ASSUME NEW S, IsFiniteSet(S), NEW s \in Orders(S)
  PROVE  /\ Cardinality(S) \in Nat
         /\ s \in [1..Cardinality(S) -> S] /\ IsInjective(s)
         /\ \A d \in S : \E i \in 1..Cardinality(S) : s[i] = d
<1>1. PICK n : n = Cardinality(S)
  OBVIOUS
<1>2. n \in Nat
  BY <1>1, FS_CardinalityType
<1>3. s \in Injection(1..n, S)
  BY <1>1 DEF Orders, Injection
<1>4. Cardinality(1..n) = n
  <2>1. \A m \in Nat : Cardinality(1..m) = m
    BY FS_Interval
  <2> QED
    BY <1>2, <2>1
<1>5. s \in Surjection(1..n, S)
  BY <1>1, <1>3, <1>4, FS_Injection
<1>6. QED
  BY <1>1, <1>2, <1>3, <1>5 DEF Injection, Surjection

(* So the tenant's places in it are as many as the tenant's chunks, and a  *)
(* filtered order lists these.                                             *)
LEMMA FilteredListsOwn ==
  ASSUME NEW S, IsFiniteSet(S), NEW s \in Orders(S), NEW tenant
  PROVE  LET m == Cardinality({d \in S : TenantOf[d] = tenant})
         IN  /\ m \in Nat
             /\ Filtered(s, tenant)
                  \in [1..m -> {d \in S : TenantOf[d] = tenant}]
             /\ IsInjective(Filtered(s, tenant))
<1>1. PICK n : n = Cardinality(S)
  OBVIOUS
<1>2. PICK P : P = {i \in 1..n : TenantOf[s[i]] = tenant}
  OBVIOUS
<1>3. PICK O : O = {d \in S : TenantOf[d] = tenant}
  OBVIOUS
<1>4. /\ n \in Nat /\ s \in [1..n -> S] /\ IsInjective(s)
      /\ \A d \in S : \E i \in 1..n : s[i] = d
  BY <1>1, OrderListsAll
<1> DEFINE f == [i \in P |-> s[i]]
<1>5. f \in [P -> O]
  BY <1>2, <1>3, <1>4
<1>6. \A i, j \in P : f[i] = f[j] => i = j
  BY <1>2, <1>4 DEF IsInjective
<1>7. \A d \in O : \E i \in P : f[i] = d
  BY <1>2, <1>3, <1>4
<1> HIDE DEF f
<1>8. f \in Bijection(P, O)
  BY <1>5, <1>6, <1>7 DEF Bijection, Injection, Surjection, IsInjective
<1>9. IsFiniteSet(P)
  <2>1. \A k \in Nat : IsFiniteSet(1..k)
    BY FS_Interval
  <2>2. IsFiniteSet(1..n) /\ P \in SUBSET (1..n)
    BY <1>2, <1>4, <2>1
  <2> QED
    BY <2>2, FS_Subset
<1>10. Cardinality(O) = Cardinality(P)
  BY <1>8, <1>9, FS_Bijection DEF ExistsBijection
<1>11. /\ Cardinality(P) \in Nat
       /\ Filtered(s, tenant) \in [1..Cardinality(P) -> O]
       /\ IsInjective(Filtered(s, tenant))
  <2>1. LET q == Cardinality({i \in 1..n : TenantOf[s[i]] = tenant})
        IN  /\ q \in Nat
            /\ Filtered(s, tenant)
                 \in [1..q -> {d \in S : TenantOf[d] = tenant}]
            /\ IsInjective(Filtered(s, tenant))
    <3>1. n \in Nat /\ s \in [1..n -> S] /\ IsInjective(s)
      BY <1>4
    <3> QED
      BY <3>1, FilteredOnce
  <2> QED
    BY <1>2, <1>3, <2>1
<1>12. QED
  BY <1>3, <1>10, <1>11

(* The first k of a list of distinct elements.                             *)
LEMMA CutKeepsPrefix ==
  ASSUME NEW O, NEW m \in Nat, NEW f \in [1..m -> O], IsInjective(f),
         NEW k \in Nat
  PROVE  /\ Range(Cut(f, k)) \subseteq O
         /\ IsInjective(Cut(f, k))
         /\ Len(Cut(f, k)) = IF m <= k THEN m ELSE k
<1> DEFINE c == IF m <= k THEN m ELSE k
<1>1. c \in 0..m
  OBVIOUS
<1>2. f \in Seq(O) /\ Len(f) = m
  OBVIOUS
<1>3. Cut(f, k) = SubSeq(f, 1, c)
  BY <1>2 DEF Cut
<1> HIDE DEF c
<1>4. SubSeq(f, 1, c) \in Seq(O) /\ Len(SubSeq(f, 1, c)) = c
  BY <1>1, <1>2
<1>5. \A i \in 1..c : SubSeq(f, 1, c)[i] = f[i]
  BY <1>1, <1>2
<1> DEFINE g == SubSeq(f, 1, c)
<1>6. DOMAIN g = 1..c /\ \A i \in 1..c : i \in 1..m /\ g[i] = f[i]
  BY <1>1, <1>4, <1>5
<1>7. Len(g) = c
  BY <1>4
<1>8. Cut(f, k) = g
  BY <1>3
<1> HIDE DEF g
<1>9. Range(g) \subseteq O
  BY <1>6 DEF Range
<1>10. IsInjective(g)
  BY <1>6 DEF IsInjective
<1>11. QED
  BY <1>7, <1>8, <1>9, <1>10 DEF c

(* With exact statistics every chunk that holds the term has a score.      *)
LEMMA HoldersMatch ==
  ASSUME NEW ix, Good(ix), NEW w \in Terms
  PROVE  Matching(ix, {w}) = Holding(ix, w)
<1>1. IsFiniteSet(Indexed(ix)) /\ Holding(ix, w) \in SUBSET Indexed(ix)
  BY HoldersAreFinite DEF Holding
<1>2. Cardinality(Holding(ix, w)) <= Cardinality(Indexed(ix))
  BY <1>1, FS_Subset
<1>3. ix.docFreq[w] <= ix.totalDocs
  BY <1>2 DEF Good, Exact
<1>4. QED
  BY <1>3 DEF Matching, Holding

(* With exact statistics and any ties, a search finds the tenant's own.    *)
LEMMA InvFinds == Inv => TenantsFindTheirOwn
<1> SUFFICES ASSUME Inv, NEW p \in open, NEW w \in Terms, NEW tenant \in Tenants,
                    NEW hits \in Search(index[p], {w}, TopK, tenant)
             PROVE  LET own == {d \in Holding(index[p], w) :
                                  TenantOf[d] = tenant}
                    IN  /\ Range(hits) \subseteq own
                        /\ IsInjective(hits)
                        /\ Len(hits) = IF Cardinality(own) <= TopK
                                         THEN Cardinality(own) ELSE TopK
  BY DEF TenantsFindTheirOwn
<1>1. Good(index[p])
  BY InvSaysGood DEF TypeOK
<1>2. PICK S : S = Holding(index[p], w)
  OBVIOUS
<1>3. PICK s \in Orders(S) : hits = Cut(Filtered(s, tenant), TopK)
  BY <1>1, <1>2, HoldersMatch DEF Search
<1>4. IsFiniteSet(S)
  BY <1>2, HoldersAreFinite
<1>5. PICK O, m, f : /\ O = {d \in S : TenantOf[d] = tenant}
                     /\ m = Cardinality(O) /\ f = Filtered(s, tenant)
  OBVIOUS
<1>6. m \in Nat /\ f \in [1..m -> O] /\ IsInjective(f)
  BY <1>4, <1>5, FilteredListsOwn
<1>7. TopK \in Nat
  BY IndexAssumption
<1>8. /\ Range(Cut(f, TopK)) \subseteq O
      /\ IsInjective(Cut(f, TopK))
      /\ Len(Cut(f, TopK)) = IF m <= TopK THEN m ELSE TopK
  BY <1>6, <1>7, CutKeepsPrefix
<1>9. QED
  BY <1>2, <1>3, <1>5, <1>8

(* A tenant's search for one term finds as many of the tenant's chunks     *)
(* that hold it as k allows and nothing else, over every history of the    *)
(* index and every tie between scores (bm25Index.ts, search).              *)
THEOREM TenantsFind == Spec => []TenantsFindTheirOwn
BY InvFinds, Invariance, PTL
=============================================================================
