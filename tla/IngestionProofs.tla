-------------------------- MODULE IngestionProofs --------------------------
(***************************************************************************)
(* For any number of requests, chunks and texts, whatever interleaves,     *)
(* fails or crashes: vectors belong to their texts, keyword search finds   *)
(* stored chunks only, outcomes are true, the knowledge graph refers to    *)
(* what exists, and a clean index is on disk.                              *)
(*                                                                         *)
(* IInv says what a request may rely on between two of its steps: which    *)
(* texts the vectors in its hands embed, which of its chunks the stores    *)
(* hold, and, while it indexes, how the chunks it has indexed and those in *)
(* todo make up its document.                                              *)
(***************************************************************************)
EXTENDS Ingestion, FiniteSetTheorems, SequenceTheorems, TLAPS

(* Steps after which a request's chunks may be in the keyword index.       *)
Late == {"indexing", "extract", "respond", "completed", "lost"}

Filed   == {"lookup", "embed", "ensure", "create", "upsert", "index",
            "indexing", "extract"}

Answered == {"extract", "respond", "completed"}

Ended   == {"respond", "completed", "lost"}

Item(j, i) == [id |-> <<j, i>>, text |-> chunks[j][i]]

JobOk(j) ==
  /\ \A i \in DOMAIN chunks[j] : chunks[j][i] \in Texts
  /\ pc[j] \in Filed => chunks[j] # <<>>
  /\ pc[j] = "embed" =>
       /\ DOMAIN found[j] = DOMAIN chunks[j]
       /\ \A i \in DOMAIN chunks[j] : found[j][i] \in {chunks[j][i], NoText}
  /\ pc[j] \in {"ensure", "create", "upsert"} => vectors[j] = chunks[j]
  /\ pc[j] \in {"index", "indexing"} \cup Answered =>
       \A i \in DOMAIN chunks[j] : points[<<j, i>>].text = chunks[j][i]

JobsOk == \A j \in Jobs : JobOk(j)

FindsStored(docs) ==
  \A c \in ChunkIds :
    docs[c] # NoText => docs[c] = points[c].text /\ pc[c[1]] \in Late

KeywordOk ==
  /\ FindsStored(index[Server].docs)
  /\ FindsStored(Keyword!Loaded(disk).docs)

Indexes(j) ==
  /\ Server \in open /\ phase[Server] # "idle"
  /\ \A k \in DOMAIN todo[Server] :
       \E i \in DOMAIN chunks[j] : todo[Server][k] = Item(j, i)
  /\ \A i \in DOMAIN chunks[j] :
       \/ index[Server].docs[<<j, i>>] = chunks[j][i]
       \/ \E k \in DOMAIN todo[Server] : todo[Server][k] = Item(j, i)
  /\ phase[Server] = "writing" => todo[Server] = <<>>

IndexingOk ==
  /\ \A j \in Jobs : pc[j] = "indexing" => Indexes(j)
  /\ \A j, k \in Jobs : pc[j] = "indexing" /\ pc[k] = "indexing" => j = k

CleanOk ==
  /\ mixed = FALSE
  /\ Server \notin open => phase[Server] = "idle"
  /\ phase[Server] = "writing" => index[Server].dirty
  /\ Server \in open /\ phase[Server] # "writing" /\ ~ index[Server].dirty =>
       Keyword!Loaded(disk) = index[Server]

IsIndexed(j) ==
  \A i \in DOMAIN chunks[j] :
    Server \in open /\ index[Server].docs[<<j, i>>] = chunks[j][i]

AnsweredOk ==
  crashes = 0 => \A j \in Jobs : pc[j] \in Answered => IsIndexed(j)

EntitiesOk == \A e \in entities : pc[e[1]] \in Ended

IInv ==
  /\ TypeOK /\ JobsOk /\ VectorsMatchTexts /\ KeywordOk /\ IndexingOk
  /\ CleanOk /\ AnsweredOk /\ EntitiesOk /\ GraphIsGrounded
-----------------------------------------------------------------------------
(* The texts of a document, and vectors of texts, are short sequences.     *)
LEMMA TextSeqsAreSeqs ==
  ASSUME NEW s \in TextSeqs
  PROVE  /\ s \in Seq(Texts \cup {NoText}) /\ Len(s) \in 0..MaxChunks
         /\ DOMAIN s = 1..Len(s)
         /\ \A i \in DOMAIN s : s[i] \in Texts \cup {NoText}
<1>1. PICK n \in 0..MaxChunks : s \in [1..n -> Texts \cup {NoText}]
  BY DEF TextSeqs
<1>2. n \in Nat
  BY IngestionAssumption
<1> QED
  BY <1>1, <1>2

LEMMA TextSeqIntro ==
  ASSUME NEW n \in 0..MaxChunks, NEW s \in [1..n -> Texts \cup {NoText}]
  PROVE  s \in TextSeqs
BY DEF TextSeqs

LEMMA EmptyTextSeq == <<>> \in TextSeqs
<1>1. 0 \in 0..MaxChunks
  BY IngestionAssumption
<1>2. <<>> \in [1..0 -> Texts \cup {NoText}]
  OBVIOUS
<1> QED
  BY <1>1, <1>2, TextSeqIntro

(***************************************************************************)
(* embedBatch: the n-th missing text is sent as the n-th, so a fresh       *)
(* vector goes back to where its text came from.                           *)
(***************************************************************************)
LEMMA PlacesAreOneToOne ==
  ASSUME NEW n \in Nat, NEW S \in SUBSET (1..n)
  PROVE  /\ \A i \in S : Place(S, i) \in 1..Cardinality(S)
         /\ \A i, k \in S : Place(S, i) = Place(S, k) => i = k
<1> DEFINE upto(i) == {k \in S : k <= i}
<1>1. IsFiniteSet(S) /\ Cardinality(S) \in Nat
  <2>1. IsFiniteSet(1..n)
    BY FS_Interval
  <2>2. IsFiniteSet(S)
    BY <2>1, FS_Subset
  <2> QED
    BY <2>2, FS_CardinalityType
<1>2. ASSUME NEW i \in S
      PROVE  /\ IsFiniteSet(upto(i)) /\ Cardinality(upto(i)) \in 1..Cardinality(S)
  <2>1. upto(i) \in SUBSET S /\ i \in upto(i)
    OBVIOUS
  <2>2. IsFiniteSet(upto(i)) /\ Cardinality(upto(i)) <= Cardinality(S)
    BY <1>1, <2>1, FS_Subset
  <2>3. Cardinality(upto(i)) \in Nat /\ Cardinality(upto(i)) # 0
    BY <2>1, <2>2, FS_CardinalityType, FS_EmptySet
  <2> QED
    BY <1>1, <2>2, <2>3
<1>3. ASSUME NEW i \in S, NEW k \in S, i < k
      PROVE  Cardinality(upto(i)) < Cardinality(upto(k))
  <2>0. (\A q \in S : q <= i => q <= k) /\ k <= k /\ ~ (k <= i)
    BY <1>3
  <2>1. upto(i) \subseteq upto(k) /\ k \in upto(k) /\ k \notin upto(i)
    BY <2>0
  <2>2. /\ Cardinality(upto(i)) <= Cardinality(upto(k))
        /\ Cardinality(upto(i)) # Cardinality(upto(k))
    BY <1>2, <2>1, FS_Subset
  <2>3. Cardinality(upto(i)) \in Nat /\ Cardinality(upto(k)) \in Nat
    BY <1>2, FS_CardinalityType
  <2> QED
    BY <2>2, <2>3
<1> HIDE DEF upto
<1>4. \A i \in S : Place(S, i) = Cardinality(upto(i))
  BY DEF Place, upto
<1>5. ASSUME NEW i \in S, NEW k \in S, Place(S, i) = Place(S, k)
      PROVE  i = k
  <2>1. Cardinality(upto(i)) = Cardinality(upto(k))
    BY <1>4, <1>5
  <2>2. /\ Cardinality(upto(i)) \in Int /\ Cardinality(upto(k)) \in Int
        /\ i \in Int /\ k \in Int
    BY <1>2, FS_CardinalityType
  <2>3. ~ (i < k) /\ ~ (k < i)
    BY <1>3, <2>1, <2>2
  <2> QED
    BY <2>2, <2>3
<1> QED
  BY <1>2, <1>4, <1>5

LEMMA MergedIsOwn ==
  ASSUME NEW n \in Nat, NEW texts \in [1..n -> Texts],
         NEW hits, DOMAIN hits = 1..n,
         \A i \in 1..n : hits[i] \in {texts[i], NoText}
  PROVE  Merged(hits, Fresh(texts, hits)) = texts
<1> DEFINE S == Missing(hits)
           fresh == Fresh(texts, hits)
<1>1. S \in SUBSET (1..n)
  BY DEF Missing
<1>2. /\ \A i \in S : Place(S, i) \in 1..Cardinality(S)
      /\ \A i, k \in S : Place(S, i) = Place(S, k) => i = k
  BY <1>1, PlacesAreOneToOne
<1>3. ASSUME NEW i \in S PROVE fresh[Place(S, i)] = texts[i]
  <2>1. At(S, Place(S, i)) = i
    BY <1>2 DEF At
  <2>2. fresh[Place(S, i)] = texts[At(S, Place(S, i))]
    BY <1>2 DEF Fresh
  <2> QED
    BY <2>1, <2>2
<1> HIDE DEF fresh
<1>4. ASSUME NEW i \in (1..n) \ S PROVE hits[i] = texts[i]
  BY <1>4 DEF Missing
<1>5. \A i \in 1..n : (IF i \in S THEN fresh[Place(S, i)] ELSE hits[i]) = texts[i]
  BY <1>3, <1>4
<1>6. Merged(hits, fresh) =
        [i \in 1..n |-> IF i \in S THEN fresh[Place(S, i)] ELSE hits[i]]
  BY DEF Merged
<1> QED
  BY <1>5, <1>6 DEF fresh

(***************************************************************************)
(* What an upsert of the keyword index does, as far as the pipeline knows. *)
(***************************************************************************)
LEMMA UpsertedIndex ==
  ASSUME NEW ix \in Keyword!Indexes, NEW d \in ChunkIds, NEW x \in Texts
  PROVE  /\ Keyword!Upserted(ix, d, x) \in Keyword!Indexes
         /\ Keyword!Upserted(ix, d, x).docs = [ix.docs EXCEPT ![d] = x]
         /\ Keyword!Upserted(ix, d, x).dirty = TRUE
<1> DEFINE r == Keyword!Removed(ix, d)
           a == Keyword!Added(r, d, x)
<1>1. /\ r \in Keyword!Indexes
      /\ r.docs = ix.docs \/ r.docs = [ix.docs EXCEPT ![d] = NoText]
  <2>1. CASE d \notin Keyword!Indexed(ix)
    BY <2>1 DEF Keyword!Removed
  <2>2. CASE d \in Keyword!Indexed(ix)
    <3>1. ix.docs[d] \in Texts
      BY <2>2 DEF Keyword!Indexes, Keyword!Indexed
    <3>2. LenOf[ix.docs[d]] \in Nat
      BY <3>1, IngestionAssumption
    <3>3. [w \in Terms |-> IF w \in TermsOf[ix.docs[d]]
                             THEN Keyword!Less(ix.docFreq[w])
                             ELSE ix.docFreq[w]] \in [Terms -> Nat]
      BY DEF Keyword!Indexes, Keyword!Less
    <3> QED
      BY <2>2, <3>2, <3>3 DEF Keyword!Removed, Keyword!Indexes
  <2> QED
    BY <2>1, <2>2
<1> HIDE DEF r
<1>2. LenOf[x] \in Nat
  BY IngestionAssumption
<1>3. [w \in Terms |-> IF w \in TermsOf[x] THEN r.docFreq[w] + 1
                                           ELSE r.docFreq[w]] \in [Terms -> Nat]
  BY <1>1 DEF Keyword!Indexes
<1>4. /\ a \in Keyword!Indexes /\ a.docs = [r.docs EXCEPT ![d] = x]
      /\ a.dirty = TRUE
  BY <1>1, <1>2, <1>3 DEF Keyword!Added, Keyword!Indexes
<1>5. Keyword!Upserted(ix, d, x) = a
  BY DEF Keyword!Upserted, r
<1>6. [r.docs EXCEPT ![d] = x] = [ix.docs EXCEPT ![d] = x]
  BY <1>1 DEF Keyword!Indexes
<1> QED
  BY <1>4, <1>5, <1>6

LEMMA EmptyIndex ==
  /\ Keyword!Empty \in Keyword!Indexes /\ Keyword!Empty.dirty = FALSE
  /\ \A c \in ChunkIds : Keyword!Empty.docs[c] = NoText
BY DEF Keyword!Empty, Keyword!Indexes
-----------------------------------------------------------------------------
LEMMA InitInv == Init => IInv
<1> SUFFICES ASSUME Init PROVE IInv
  OBVIOUS
<1> USE DEF Init, Keyword!Init
<1>1. TypeOK
  <2>1. /\ [p \in {Server} |-> <<>>] \in [{Server} -> Seq(Keyword!NewChunks)]
        /\ [p \in {Server} |-> Keyword!Empty] \in [{Server} -> Keyword!Indexes]
    BY EmptyIndex
  <2>2. Keyword!TypeOK
    BY <2>1 DEF Keyword!TypeOK
  <2>3. pc \in [Jobs -> Steps]
    BY DEF Steps
  <2>4. /\ chunks \in [Jobs -> TextSeqs] /\ found \in [Jobs -> TextSeqs]
        /\ vectors \in [Jobs -> TextSeqs]
    BY EmptyTextSeq
  <2>5. crashes \in 0..MaxCrashes
    BY IngestionAssumption
  <2>6. points \in [ChunkIds -> [text   : Texts \cup {NoText},
                                vector : Texts \cup {NoText}]]
    OBVIOUS
  <2> QED
    BY <2>2, <2>3, <2>4, <2>5, <2>6 DEF TypeOK
<1>2. Keyword!Loaded(disk) = Keyword!Empty /\ index[Server] = Keyword!Empty
  BY DEF Keyword!Loaded
<1>3. JobsOk
  BY DEF JobsOk, JobOk, Filed, Answered
<1>4. VectorsMatchTexts
  BY DEF VectorsMatchTexts
<1>5. KeywordOk
  BY <1>2, EmptyIndex DEF KeywordOk, FindsStored
<1>6. IndexingOk /\ AnsweredOk
  BY DEF IndexingOk, AnsweredOk, Answered
<1>7. CleanOk
  BY DEF CleanOk
<1>8. EntitiesOk /\ GraphIsGrounded
  BY DEF EntitiesOk, GraphIsGrounded
<1> QED
  BY <1>1, <1>3, <1>4, <1>5, <1>6, <1>7, <1>8 DEF IInv

(***************************************************************************)
(* A step of one request that leaves the keyword index alone keeps the     *)
(* facts about the other requests and the index, when it keeps those about *)
(* the request itself.                                                     *)
(***************************************************************************)
LEMMA JobFrame ==
  ASSUME IInv, NEW j \in Jobs, NEW next \in Steps \ {"indexing"},
         pc[j] # "indexing", Goto(j, next), UNCHANGED <<crashes, bm25Vars>>,
         \A k \in Jobs \ {j} : /\ chunks'[k] = chunks[k]
                               /\ found'[k] = found[k]
                               /\ vectors'[k] = vectors[k],
         \A c \in ChunkIds : c[1] # j \/ pc[j] \in Late =>
                               points'[c].text = points[c].text,
         pc[j] \in Late => next \in Late,
         next \in Answered => \/ chunks'[j] = <<>>
                              \/ pc[j] \in Answered /\ chunks'[j] = chunks[j],
         JobOk(j)'
  PROVE  /\ JobsOk' /\ KeywordOk' /\ IndexingOk' /\ CleanOk' /\ AnsweredOk'
         /\ pc'[j] = next /\ \A k \in Jobs \ {j} : pc'[k] = pc[k]
<1> USE DEF IInv
<1>1. pc \in [Jobs -> Steps] /\ pc' = [pc EXCEPT ![j] = next]
  BY DEF Goto, TypeOK
<1>2. pc'[j] = next /\ \A k \in Jobs \ {j} : pc'[k] = pc[k]
  BY <1>1
<1>3. /\ index' = index /\ open' = open /\ todo' = todo /\ phase' = phase
      /\ disk' = disk /\ mixed' = mixed /\ crashes' = crashes
  BY DEF bm25Vars
<1>4. JobsOk'
  <2>1. ASSUME NEW k \in Jobs \ {j} PROVE JobOk(k)'
    <3>1. JobOk(k)
      BY DEF JobsOk
    <3>2. chunks[k] \in TextSeqs
      BY DEF TypeOK
    <3>3. \A i \in DOMAIN chunks[k] : <<k, i>> \in ChunkIds
      BY <3>2, TextSeqsAreSeqs, IngestionAssumption DEF ChunkIds
    <3>4. \A i \in DOMAIN chunks[k] :
            points'[<<k, i>>].text = points[<<k, i>>].text
      BY <3>3
    <3> QED
      BY <1>2, <3>1, <3>4 DEF JobOk
  <2> QED
    BY <2>1 DEF JobsOk
<1>5. \A c \in ChunkIds : pc[c[1]] \in Late =>
        points'[c].text = points[c].text /\ pc'[c[1]] \in Late
  <2> SUFFICES ASSUME NEW c \in ChunkIds, pc[c[1]] \in Late
               PROVE  points'[c].text = points[c].text /\ pc'[c[1]] \in Late
    OBVIOUS
  <2>1. c[1] \in Jobs
    BY DEF ChunkIds
  <2> QED
    BY <1>2, <2>1
<1>6. KeywordOk'
  BY <1>3, <1>5 DEF KeywordOk, FindsStored, Keyword!Loaded
<1>7. IndexingOk'
  <2>1. \A k \in Jobs : pc'[k] = "indexing" =>
          k # j /\ pc[k] = "indexing" /\ chunks'[k] = chunks[k]
    BY <1>2
  <2> QED
    BY <1>3, <2>1 DEF IndexingOk, Indexes, Item
<1>8. CleanOk'
  BY <1>3 DEF CleanOk, Keyword!Loaded
<1>9. AnsweredOk'
  <2> SUFFICES ASSUME crashes = 0, NEW k \in Jobs, pc'[k] \in Answered
               PROVE  IsIndexed(k)'
    BY <1>3 DEF AnsweredOk
  <2>1. CASE pc[k] \in Answered /\ chunks'[k] = chunks[k]
    BY <1>3, <2>1 DEF AnsweredOk, IsIndexed
  <2>2. CASE chunks'[k] = <<>>
    BY <2>2 DEF IsIndexed
  <2> QED
    BY <1>2, <2>1, <2>2
<1> QED
  BY <1>2, <1>4, <1>6, <1>7, <1>8, <1>9

(* The same for a step that leaves the graph alone, too.                   *)
LEMMA JobStep ==
  ASSUME IInv, NEW j \in Jobs, NEW next \in Steps \ {"indexing"},
         pc[j] # "indexing", Goto(j, next),
         UNCHANGED <<graphVars, crashes, bm25Vars>>,
         \A k \in Jobs \ {j} : /\ chunks'[k] = chunks[k]
                               /\ found'[k] = found[k]
                               /\ vectors'[k] = vectors[k],
         \A c \in ChunkIds : c[1] # j \/ pc[j] \in Late =>
                               points'[c].text = points[c].text,
         \A c \in ChunkIds : points[c].text # NoText =>
                               points'[c].text # NoText,
         pc[j] \in Late => next \in Late,
         pc[j] \in Ended => next \in Ended,
         next \in Answered => \/ chunks'[j] = <<>>
                              \/ pc[j] \in Answered /\ chunks'[j] = chunks[j],
         JobOk(j)', TypeOK', VectorsMatchTexts'
  PROVE  IInv'
<1>1. /\ JobsOk' /\ KeywordOk' /\ IndexingOk' /\ CleanOk' /\ AnsweredOk'
      /\ pc'[j] = next /\ \A k \in Jobs \ {j} : pc'[k] = pc[k]
  BY JobFrame
<1>2. entities' = entities /\ mentions' = mentions /\ relations' = relations
  BY DEF graphVars
<1>3. EntitiesOk'
  <2>1. \A e \in entities : e[1] \in Jobs
    BY DEF IInv, TypeOK
  <2> QED
    BY <1>1, <1>2, <2>1 DEF IInv, EntitiesOk
<1>4. GraphIsGrounded'
  <2>1. \A m \in mentions : m[2] \in ChunkIds
    BY DEF IInv, TypeOK
  <2> QED
    BY <1>2, <2>1 DEF IInv, GraphIsGrounded, Stored
<1> QED
  BY <1>1, <1>3, <1>4 DEF IInv

(* A step that only decides what the request does next.                    *)
LEMMA ControlStep ==
  ASSUME IInv, NEW j \in Jobs, NEW next \in Steps \ {"indexing"},
         pc[j] # "indexing", Goto(j, next),
         UNCHANGED <<chunks, found, vectors, cache, points, graphVars,
                     crashes, bm25Vars>>,
         collection' \in BOOLEAN,
         pc[j] \in Late => next \in Late,
         pc[j] \in Ended => next \in Ended,
         next \in Answered => pc[j] \in Answered,
         next \in {"ensure", "create", "upsert"} =>
           pc[j] \in {"ensure", "create", "upsert"},
         next \in Filed => pc[j] \in Filed,
         next \notin {"embed", "index"}
  PROVE  IInv'
<1>1. pc \in [Jobs -> Steps] /\ pc' = [pc EXCEPT ![j] = next]
  BY DEF Goto, TypeOK, IInv
<1>2. pc'[j] = next /\ pc' \in [Jobs -> Steps]
  BY <1>1
<1>3. TypeOK'
  BY <1>2 DEF IInv, TypeOK, Keyword!TypeOK, bm25Vars, graphVars
<1>4. JobOk(j)'
  <2>1. JobOk(j)
    BY DEF IInv, JobsOk
  <2> QED
    BY <1>2, <2>1 DEF JobOk, Answered
<1>5. VectorsMatchTexts'
  BY DEF IInv, VectorsMatchTexts
<1> QED
  BY <1>3, <1>4, <1>5, JobStep

LEMMA ControlInv ==
  ASSUME IInv, NEW j \in Jobs,
         \/ Accept(j) \/ Load(j) \/ EmbedFails(j) \/ FindCollection(j)
         \/ CreateCollection(j) \/ ExtractFails(j) \/ Respond(j)
  PROVE  IInv'
<1> USE DEF Runs, Steps, Late, Ended, Answered, Filed
<1>0. collection \in BOOLEAN
  BY DEF IInv, TypeOK
<1>1. CASE Accept(j)
  <2>1. PICK next \in {"load", "failed"} : Goto(j, next)
    BY <1>1 DEF Accept
  <2> QED
    BY <1>0, <1>1, <2>1, ControlStep DEF Accept
<1>2. CASE Load(j)
  <2>1. PICK next \in {"chunk", "failed"} : Goto(j, next)
    BY <1>2 DEF Load
  <2> QED
    BY <1>0, <1>2, <2>1, ControlStep DEF Load
<1>3. CASE EmbedFails(j)
  BY <1>0, <1>3, ControlStep DEF EmbedFails
<1>4. CASE FindCollection(j)
  <2>1. PICK next \in {"upsert", "create", "failed"} : Goto(j, next)
    BY <1>4 DEF FindCollection
  <2> QED
    BY <1>0, <1>4, <2>1, ControlStep DEF FindCollection
<1>5. CASE CreateCollection(j)
  <2>1. PICK next \in {"upsert", "failed"} : Goto(j, next)
    BY <1>5 DEF CreateCollection
  <2>2. collection' \in BOOLEAN
    BY <1>0, <1>5 DEF CreateCollection
  <2> QED
    BY <1>5, <2>1, <2>2, ControlStep DEF CreateCollection
<1>6. CASE ExtractFails(j)
  BY <1>0, <1>6, ControlStep DEF ExtractFails
<1>7. CASE Respond(j)
  BY <1>0, <1>7, ControlStep DEF Respond
<1> QED
  BY <1>1, <1>2, <1>3, <1>4, <1>5, <1>6, <1>7

(* The new chunks are those of a file, each with a text.                   *)
LEMMA ChunkInv ==
  ASSUME IInv, NEW j \in Jobs, Chunk(j)
  PROVE  IInv'
<1> USE DEF Runs, Steps, Late, Ended, Answered, Filed
<1>1. /\ pc[j] = "chunk" /\ collection \in BOOLEAN
      /\ UNCHANGED <<found, vectors, cache, collection, points, graphVars,
                     crashes, bm25Vars>>
  BY DEF Chunk, IInv, TypeOK
<1>2. CASE Goto(j, "failed") /\ UNCHANGED chunks
  BY <1>1, <1>2, ControlStep
<1>3. CASE \E file \in Files :
             /\ chunks' = [chunks EXCEPT ![j] = file]
             /\ Goto(j, IF file = <<>> THEN "respond" ELSE "lookup")
  <2>1. PICK file \in Files :
             /\ chunks' = [chunks EXCEPT ![j] = file]
             /\ Goto(j, IF file = <<>> THEN "respond" ELSE "lookup")
    BY <1>3
  <2>2. PICK next \in {"respond", "lookup"} :
             /\ Goto(j, next) /\ (next = "respond" <=> file = <<>>)
    BY <2>1
  <2>3. /\ chunks \in [Jobs -> TextSeqs] /\ pc \in [Jobs -> Steps]
    BY DEF IInv, TypeOK
  <2>4. file \in TextSeqs /\ \A i \in DOMAIN file : file[i] \in Texts
    <3>1. PICK n \in 0..MaxChunks : file \in [1..n -> Texts]
      BY IngestionAssumption
    <3> QED
      BY <3>1, TextSeqIntro
  <2>5. /\ chunks'[j] = file /\ \A k \in Jobs \ {j} : chunks'[k] = chunks[k]
        /\ pc'[j] = next /\ pc' \in [Jobs -> Steps]
        /\ chunks' \in [Jobs -> TextSeqs]
    BY <2>1, <2>2, <2>3, <2>4 DEF Goto
  <2>6. TypeOK'
    BY <1>1, <2>5 DEF IInv, TypeOK, Keyword!TypeOK, bm25Vars, graphVars
  <2>7. JobOk(j)'
    BY <2>2, <2>4, <2>5 DEF JobOk
  <2>8. VectorsMatchTexts'
    BY <1>1 DEF IInv, VectorsMatchTexts
  <2> QED
    BY <1>1, <2>2, <2>5, <2>6, <2>7, <2>8, JobStep
<1> QED
  BY <1>2, <1>3 DEF Chunk

(* What MGET finds for a text is its vector or nothing.                    *)
LEMMA LookUpInv ==
  ASSUME IInv, NEW j \in Jobs, LookUp(j)
  PROVE  IInv'
<1> USE DEF Runs, Steps, Late, Ended, Answered, Filed
<1>1. /\ pc[j] = "lookup" /\ Goto(j, "embed")
      /\ UNCHANGED <<chunks, vectors, cache, collection, points, graphVars,
                     crashes, bm25Vars>>
  BY DEF LookUp
<1>2. PICK hits : /\ found' = [found EXCEPT ![j] = hits]
                  /\ \/ hits = [i \in DOMAIN chunks[j] |-> cache[chunks[j][i]]]
                     \/ hits = [i \in DOMAIN chunks[j] |-> NoText]
  BY DEF LookUp
<1>3. /\ found \in [Jobs -> TextSeqs] /\ pc \in [Jobs -> Steps]
      /\ chunks[j] \in TextSeqs
  BY DEF IInv, TypeOK
<1>4. /\ JobOk(j) /\ \A t \in Texts : cache[t] \in {t, NoText}
  BY DEF IInv, JobsOk, VectorsMatchTexts
<1>5. /\ DOMAIN hits = DOMAIN chunks[j]
      /\ \A i \in DOMAIN chunks[j] : hits[i] \in {chunks[j][i], NoText}
  BY <1>2, <1>4 DEF JobOk
<1>6. hits \in TextSeqs
  <2>1. Len(chunks[j]) \in 0..MaxChunks /\ DOMAIN chunks[j] = 1..Len(chunks[j])
    BY <1>3, TextSeqsAreSeqs
  <2>2. hits \in [1..Len(chunks[j]) -> Texts \cup {NoText}]
    BY <1>2, <1>4, <1>5, <2>1 DEF JobOk
  <2> QED
    BY <2>1, <2>2, TextSeqIntro
<1>7. /\ found'[j] = hits /\ \A k \in Jobs \ {j} : found'[k] = found[k]
      /\ pc'[j] = "embed" /\ pc' \in [Jobs -> Steps]
      /\ found' \in [Jobs -> TextSeqs]
  BY <1>1, <1>2, <1>3, <1>6 DEF Goto
<1>8. TypeOK'
  BY <1>1, <1>7 DEF IInv, TypeOK, Keyword!TypeOK, bm25Vars, graphVars
<1>9. JobOk(j)'
  BY <1>1, <1>4, <1>5, <1>7 DEF JobOk
<1>10. VectorsMatchTexts'
  BY <1>1 DEF IInv, VectorsMatchTexts
<1> QED
  BY <1>1, <1>7, <1>8, <1>9, <1>10, JobStep

(***************************************************************************)
(* embedBatch returns the vectors of the request's own texts, and caches a *)
(* vector under the text it embeds.                                        *)
(***************************************************************************)
LEMMA EmbedInv ==
  ASSUME IInv, NEW j \in Jobs, Embed(j)
  PROVE  IInv'
<1> USE DEF Runs, Steps, Late, Ended, Answered, Filed
<1>1. /\ pc[j] = "embed" /\ Goto(j, "ensure")
      /\ found' = [found EXCEPT ![j] = <<>>]
      /\ UNCHANGED <<chunks, collection, points, graphVars, crashes, bm25Vars>>
  BY DEF Embed
<1>2. /\ found \in [Jobs -> TextSeqs] /\ vectors \in [Jobs -> TextSeqs]
      /\ pc \in [Jobs -> Steps] /\ chunks[j] \in TextSeqs
      /\ cache \in [Texts -> Texts \cup {NoText}]
  BY DEF IInv, TypeOK
<1>3. JobOk(j) /\ \A t \in Texts : cache[t] \in {t, NoText}
  BY DEF IInv, JobsOk, VectorsMatchTexts
<1> DEFINE result == Merged(found[j], Fresh(chunks[j], found[j]))
<1>4. result = chunks[j]
  <2>1. Len(chunks[j]) \in Nat /\ DOMAIN chunks[j] = 1..Len(chunks[j])
    BY <1>2, TextSeqsAreSeqs
  <2>2. chunks[j] \in [1..Len(chunks[j]) -> Texts]
    BY <1>2, <1>3, <2>1, TextSeqsAreSeqs DEF JobOk
  <2>3. /\ DOMAIN found[j] = 1..Len(chunks[j])
        /\ \A i \in 1..Len(chunks[j]) : found[j][i] \in {chunks[j][i], NoText}
    BY <1>1, <1>3, <2>1 DEF JobOk
  <2> QED
    BY <2>1, <2>2, <2>3, MergedIsOwn
<1>5. vectors' = [vectors EXCEPT ![j] = chunks[j]]
  BY <1>4 DEF Embed
<1>6. PICK written \in SUBSET Missing(found[j]) :
        cache' = [t \in Texts |->
             IF \E i \in written : chunks[j][i] = t
               THEN result[CHOOSE i \in written : chunks[j][i] = t]
               ELSE cache[t]]
  BY DEF Embed
<1> HIDE DEF result
<1>7. \A t \in Texts : cache'[t] \in {t, NoText}
  <2> SUFFICES ASSUME NEW t \in Texts PROVE cache'[t] \in {t, NoText}
    OBVIOUS
  <2>1. CASE \E i \in written : chunks[j][i] = t
    <3>1. PICK i \in written : /\ i = CHOOSE k \in written : chunks[j][k] = t
                               /\ chunks[j][i] = t
      BY <2>1
    <3>2. cache'[t] = result[i]
      BY <1>6, <2>1, <3>1
    <3> QED
      BY <1>4, <3>1, <3>2
  <2>2. CASE ~ \E i \in written : chunks[j][i] = t
    BY <1>3, <1>6, <2>2
  <2> QED
    BY <2>1, <2>2
<1>8. cache' \in [Texts -> Texts \cup {NoText}]
  BY <1>6, <1>7
<1>9. /\ vectors'[j] = chunks[j]
      /\ \A k \in Jobs \ {j} : vectors'[k] = vectors[k] /\ found'[k] = found[k]
      /\ pc'[j] = "ensure" /\ pc' \in [Jobs -> Steps]
      /\ vectors' \in [Jobs -> TextSeqs] /\ found' \in [Jobs -> TextSeqs]
  BY <1>1, <1>2, <1>5, EmptyTextSeq DEF Goto
<1>10. TypeOK'
  BY <1>1, <1>8, <1>9 DEF IInv, TypeOK, Keyword!TypeOK, bm25Vars, graphVars
<1>11. JobOk(j)'
  BY <1>1, <1>3, <1>9 DEF JobOk
<1>12. VectorsMatchTexts'
  BY <1>1, <1>7 DEF IInv, VectorsMatchTexts
<1> QED
  BY <1>1, <1>9, <1>10, <1>11, <1>12, JobStep

(* An expired vector is missing, whoever was about to read it.             *)
LEMMA ExpireInv ==
  ASSUME IInv, NEW t \in Texts, Expire(t)
  PROVE  IInv'
<1>1. /\ cache' = [cache EXCEPT ![t] = NoText]
      /\ UNCHANGED <<jobVars, collection, points, graphVars, crashes, bm25Vars>>
  BY DEF Expire
<1> USE DEF IInv, jobVars, graphVars, bm25Vars
<1>2. TypeOK'
  BY <1>1 DEF TypeOK, Keyword!TypeOK
<1>3. VectorsMatchTexts'
  <2>1. cache \in [Texts -> Texts \cup {NoText}]
    BY DEF TypeOK
  <2> QED
    BY <1>1, <2>1 DEF VectorsMatchTexts
<1>4. JobsOk'
  BY <1>1 DEF JobsOk, JobOk
<1>5. KeywordOk' /\ IndexingOk' /\ CleanOk' /\ AnsweredOk'
  BY <1>1 DEF KeywordOk, FindsStored, IndexingOk, Indexes, Item, CleanOk,
     AnsweredOk, IsIndexed, Keyword!Loaded
<1>6. EntitiesOk' /\ GraphIsGrounded'
  BY <1>1 DEF EntitiesOk, GraphIsGrounded, Stored
<1> QED
  BY <1>2, <1>3, <1>4, <1>5, <1>6

(***************************************************************************)
(* Points carry the request's own texts and vectors, all of them when the  *)
(* store answers and any of them when it does not.                         *)
(***************************************************************************)
LEMMA PointsOfAJob ==
  ASSUME IInv, NEW j \in Jobs, pc[j] = "upsert", NEW S \in SUBSET ChunksOf(j),
         points' = WithPoints(j, S)
  PROVE  /\ points' \in [ChunkIds -> [text   : Texts \cup {NoText},
                                      vector : Texts \cup {NoText}]]
         /\ \A c \in ChunkIds : points'[c].vector = points'[c].text
         /\ \A c \in ChunkIds :
              points[c].text # NoText => points'[c].text # NoText
         /\ \A c \in ChunkIds : c[1] # j => points'[c] = points[c]
         /\ \A c \in S : c \in ChunkIds /\ points'[c].text = chunks[j][c[2]]
<1>1. /\ points \in [ChunkIds -> [text   : Texts \cup {NoText},
                                  vector : Texts \cup {NoText}]]
      /\ chunks[j] \in TextSeqs
      /\ \A c \in ChunkIds : points[c].vector = points[c].text
  BY DEF IInv, TypeOK, VectorsMatchTexts
<1>2. /\ \A i \in DOMAIN chunks[j] : chunks[j][i] \in Texts
      /\ vectors[j] = chunks[j]
  BY DEF IInv, JobsOk, JobOk
<1>3. \A c \in S : /\ c[1] = j /\ c[2] \in DOMAIN chunks[j] /\ c \in ChunkIds
  BY <1>1, TextSeqsAreSeqs, IngestionAssumption DEF ChunksOf, ChunkIds
<1>4. \A c \in ChunkIds : points'[c] = IF c \in S THEN Point(j, c[2]) ELSE points[c]
  BY DEF WithPoints
<1>5. \A c \in S : /\ Point(j, c[2]).text = chunks[j][c[2]]
                   /\ Point(j, c[2]).vector = chunks[j][c[2]]
                   /\ Point(j, c[2]) \in [text   : Texts \cup {NoText},
                                          vector : Texts \cup {NoText}]
                   /\ chunks[j][c[2]] # NoText
  BY <1>2, <1>3, IngestionAssumption DEF Point
<1>6. points' \in [ChunkIds -> [text   : Texts \cup {NoText},
                                vector : Texts \cup {NoText}]]
  <2>1. \A c \in ChunkIds :
          (IF c \in S THEN Point(j, c[2]) ELSE points[c])
             \in [text : Texts \cup {NoText}, vector : Texts \cup {NoText}]
    BY <1>1, <1>5
  <2> QED
    BY <2>1 DEF WithPoints
<1> QED
  BY <1>1, <1>3, <1>4, <1>5, <1>6

LEMMA StoreInv ==
  ASSUME IInv, NEW j \in Jobs, Store(j)
  PROVE  IInv'
<1> USE DEF Runs, Steps, Late, Ended, Answered, Filed
<1>1. /\ pc[j] = "upsert" /\ Goto(j, "index")
      /\ points' = WithPoints(j, ChunksOf(j))
      /\ vectors' = [vectors EXCEPT ![j] = <<>>]
      /\ UNCHANGED <<chunks, found, cache, collection, graphVars,
                     crashes, bm25Vars>>
  BY DEF Store
<1>2. /\ vectors \in [Jobs -> TextSeqs] /\ pc \in [Jobs -> Steps]
      /\ chunks[j] \in TextSeqs
  BY DEF IInv, TypeOK
<1>3. /\ vectors' \in [Jobs -> TextSeqs] /\ pc'[j] = "index"
      /\ pc' \in [Jobs -> Steps]
      /\ \A k \in Jobs \ {j} : vectors'[k] = vectors[k]
  BY <1>1, <1>2, EmptyTextSeq DEF Goto
<1>4. /\ points' \in [ChunkIds -> [text   : Texts \cup {NoText},
                                   vector : Texts \cup {NoText}]]
      /\ \A c \in ChunkIds : points'[c].vector = points'[c].text
      /\ \A c \in ChunkIds : points[c].text # NoText => points'[c].text # NoText
      /\ \A c \in ChunkIds : c[1] # j => points'[c] = points[c]
      /\ \A c \in ChunksOf(j) : points'[c].text = chunks[j][c[2]]
  BY <1>1, PointsOfAJob
<1>5. TypeOK'
  BY <1>1, <1>3, <1>4 DEF IInv, TypeOK, Keyword!TypeOK, bm25Vars, graphVars
<1>6. JobOk(j)'
  <2>1. JobOk(j)
    BY DEF IInv, JobsOk
  <2>2. \A i \in DOMAIN chunks[j] : points'[<<j, i>>].text = chunks[j][i]
    BY <1>4 DEF ChunksOf
  <2> QED
    BY <1>1, <1>3, <2>1, <2>2 DEF JobOk
<1>7. VectorsMatchTexts'
  BY <1>1, <1>4 DEF IInv, VectorsMatchTexts
<1> QED
  BY <1>1, <1>3, <1>4, <1>5, <1>6, <1>7, JobStep

LEMMA StoreFailsInv ==
  ASSUME IInv, NEW j \in Jobs, StoreFails(j)
  PROVE  IInv'
<1> USE DEF Runs, Steps, Late, Ended, Answered, Filed
<1>1. /\ pc[j] = "upsert" /\ Goto(j, "failed")
      /\ UNCHANGED <<chunks, found, vectors, cache, collection, graphVars,
                     crashes, bm25Vars>>
  BY DEF StoreFails
<1>2. PICK S \in SUBSET ChunksOf(j) : points' = WithPoints(j, S)
  BY DEF StoreFails
<1>3. pc'[j] = "failed" /\ pc' \in [Jobs -> Steps]
  <2>1. pc \in [Jobs -> Steps]
    BY DEF IInv, TypeOK
  <2> QED
    BY <1>1, <2>1 DEF Goto
<1>4. /\ points' \in [ChunkIds -> [text   : Texts \cup {NoText},
                                   vector : Texts \cup {NoText}]]
      /\ \A c \in ChunkIds : points'[c].vector = points'[c].text
      /\ \A c \in ChunkIds : points[c].text # NoText => points'[c].text # NoText
      /\ \A c \in ChunkIds : c[1] # j => points'[c] = points[c]
  BY <1>1, <1>2, PointsOfAJob
<1>5. TypeOK'
  BY <1>1, <1>3, <1>4 DEF IInv, TypeOK, Keyword!TypeOK, bm25Vars, graphVars
<1>6. JobOk(j)'
  <2>1. JobOk(j)
    BY DEF IInv, JobsOk
  <2> QED
    BY <1>1, <1>3, <2>1 DEF JobOk
<1>7. VectorsMatchTexts'
  BY <1>1, <1>4 DEF IInv, VectorsMatchTexts
<1> QED
  BY <1>1, <1>3, <1>4, <1>5, <1>6, <1>7, JobStep

-----------------------------------------------------------------------------
(***************************************************************************)
(* Steps of the keyword index.  They leave everything else alone, so what  *)
(* remains to show for each is what it does to the index, todo and disk.   *)
(***************************************************************************)
LEMMA KeywordStep ==
  ASSUME IInv, NEW j \in Jobs, NEW next \in {"index", "indexing", "extract"},
         pc[j] \in {"index", "indexing"}, Goto(j, next),
         UNCHANGED <<chunks, found, vectors, cache, collection, points,
                     graphVars, crashes>>,
         Keyword!TypeOK'
  PROVE  /\ TypeOK' /\ JobsOk' /\ VectorsMatchTexts' /\ EntitiesOk'
         /\ GraphIsGrounded'
         /\ pc'[j] = next /\ \A k \in Jobs \ {j} : pc'[k] = pc[k]
<1> USE DEF IInv, graphVars
<1>1. pc \in [Jobs -> Steps] /\ next \in Steps
  BY DEF TypeOK, Steps
<1>2. /\ pc'[j] = next /\ \A k \in Jobs \ {j} : pc'[k] = pc[k]
      /\ pc' \in [Jobs -> Steps]
  BY <1>1 DEF Goto
<1>3. TypeOK'
  BY <1>2 DEF TypeOK
<1>4. JobsOk'
  <2> SUFFICES ASSUME NEW k \in Jobs PROVE JobOk(k)'
    BY DEF JobsOk
  <2>1. JobOk(k)
    BY DEF JobsOk
  <2>2. CASE k = j
    BY <1>2, <2>1, <2>2 DEF JobOk, Filed, Answered
  <2>3. CASE k # j
    BY <1>2, <2>1, <2>3 DEF JobOk
  <2> QED
    BY <2>2, <2>3
<1>5. VectorsMatchTexts' /\ GraphIsGrounded'
  BY DEF VectorsMatchTexts, GraphIsGrounded, Stored
<1>6. EntitiesOk'
  <2>1. \A e \in entities : e[1] \in Jobs /\ e[1] # j
    BY DEF TypeOK, EntitiesOk, Ended
  <2> QED
    BY <1>2, <2>1 DEF EntitiesOk
<1> QED
  BY <1>2, <1>3, <1>4, <1>5, <1>6

(* The first getBM25Index() reads the snapshot, or starts empty.           *)
LEMMA LoadedIndex ==
  ASSUME Keyword!TypeOK
  PROVE  Keyword!Loaded(disk) \in Keyword!Indexes
BY EmptyIndex DEF Keyword!TypeOK, Keyword!Loaded

LEMMA OpenIndexInv ==
  ASSUME IInv, NEW j \in Jobs, OpenIndex(j)
  PROVE  IInv'
<1>1. /\ pc[j] = "index" /\ phase[Server] = "idle" /\ Server \notin open
      /\ open' = open \cup {Server}
      /\ index' = [index EXCEPT ![Server] = Keyword!Loaded(disk)]
      /\ UNCHANGED <<todo, phase, disk, mixed, kept>>
      /\ UNCHANGED <<jobVars, cache, collection, points, graphVars, crashes>>
  BY DEF OpenIndex, Runs, Keyword!Open
<1>2. Keyword!TypeOK /\ pc \in [Jobs -> Steps]
  BY DEF IInv, TypeOK
<1>3. Keyword!Loaded(disk) \in Keyword!Indexes
  BY <1>2, LoadedIndex
<1>4. Keyword!TypeOK' /\ index'[Server] = Keyword!Loaded(disk)
  BY <1>1, <1>2, <1>3 DEF Keyword!TypeOK
<1>5. Goto(j, "index")
  BY <1>1, <1>2 DEF Goto, jobVars
<1>6. TypeOK' /\ JobsOk' /\ VectorsMatchTexts' /\ EntitiesOk' /\ GraphIsGrounded'
  BY <1>1, <1>4, <1>5, KeywordStep DEF jobVars
<1>7. KeywordOk'
  BY <1>1, <1>4 DEF IInv, KeywordOk, FindsStored, Keyword!Loaded, jobVars
<1>8. IndexingOk'
  BY <1>1 DEF IInv, IndexingOk, Indexes, jobVars
<1>9. CleanOk'
  BY <1>1, <1>4 DEF IInv, CleanOk, Keyword!Loaded
<1>10. AnsweredOk'
  BY <1>1 DEF IInv, AnsweredOk, IsIndexed, jobVars, graphVars
<1> QED
  BY <1>6, <1>7, <1>8, <1>9, <1>10 DEF IInv

(* upsertBatch is called with the request's chunks, each once.             *)
LEMMA IndexInv ==
  ASSUME IInv, NEW j \in Jobs, Index(j)
  PROVE  IInv'
<1> DEFINE batch == [i \in DOMAIN chunks[j] |->
                       [id |-> <<j, i>>, text |-> chunks[j][i]]]
<1>1. /\ pc[j] = "index" /\ phase[Server] = "idle" /\ Server \in open
      /\ todo' = [todo EXCEPT ![Server] = batch]
      /\ phase' = [phase EXCEPT ![Server] = "indexing"]
      /\ UNCHANGED <<open, index, disk, mixed, kept>>
      /\ Goto(j, "indexing")
      /\ UNCHANGED <<chunks, found, vectors, cache, collection, points,
                     graphVars, crashes>>
  BY DEF Index, Runs, Keyword!Ingest, Keyword!Idle
<1>2. /\ Keyword!TypeOK /\ chunks[j] \in TextSeqs
      /\ \A i \in DOMAIN chunks[j] : chunks[j][i] \in Texts
  BY DEF IInv, TypeOK, JobsOk, JobOk
<1>3. batch \in Seq(Keyword!NewChunks)
  <2>1. /\ Len(chunks[j]) \in Nat /\ DOMAIN chunks[j] = 1..Len(chunks[j])
        /\ \A i \in 1..Len(chunks[j]) : <<j, i>> \in ChunkIds
    BY <1>2, TextSeqsAreSeqs, IngestionAssumption DEF ChunkIds
  <2>2. batch \in [1..Len(chunks[j]) -> Keyword!NewChunks]
    BY <1>2, <2>1 DEF Keyword!NewChunks
  <2> QED
    BY <2>1, <2>2
<1>4. /\ todo'[Server] = batch /\ phase'[Server] = "indexing"
      /\ Keyword!TypeOK'
  BY <1>1, <1>2, <1>3 DEF Keyword!TypeOK
<1>5. /\ TypeOK' /\ JobsOk' /\ VectorsMatchTexts' /\ EntitiesOk'
      /\ GraphIsGrounded'
      /\ pc'[j] = "indexing" /\ \A k \in Jobs \ {j} : pc'[k] = pc[k]
  BY <1>1, <1>4, KeywordStep
<1>6. KeywordOk'
  <2>1. \A c \in ChunkIds : pc[c[1]] \in Late => pc'[c[1]] \in Late
    BY <1>1, <1>5 DEF ChunkIds, Late
  <2> QED
    BY <1>1, <2>1 DEF IInv, KeywordOk, FindsStored, Keyword!Loaded
<1>7. IndexingOk'
  <2>1. \A k \in Jobs \ {j} : pc'[k] # "indexing"
    BY <1>1, <1>5 DEF IInv, IndexingOk, Indexes
  <2>2. /\ DOMAIN batch = DOMAIN chunks[j]
        /\ \A i \in DOMAIN batch : batch[i] = Item(j, i)
    BY DEF Item
  <2>3. Indexes(j)'
    BY <1>1, <1>4, <2>2 DEF Indexes, Item
  <2> QED
    BY <2>1, <2>3 DEF IndexingOk
<1>8. CleanOk'
  BY <1>1, <1>4 DEF IInv, CleanOk, Keyword!Loaded
<1>9. AnsweredOk'
  BY <1>1, <1>5 DEF IInv, AnsweredOk, IsIndexed, Answered
<1> QED
  BY <1>5, <1>6, <1>7, <1>8, <1>9 DEF IInv

(***************************************************************************)
(* One chunk of the batch enters the index; the rest of the batch is still *)
(* to do.                                                                  *)
(***************************************************************************)
LEMMA UpsertInv ==
  ASSUME IInv, NEW j \in Jobs, Indexing(j), Keyword!Upsert(Server)
  PROVE  IInv'
<1> DEFINE c == Head(todo[Server])
<1>1. /\ pc[j] = "indexing" /\ phase[Server] = "indexing"
      /\ todo[Server] # <<>>
      /\ index' = [index EXCEPT ![Server] =
                     Keyword!Upserted(index[Server], c.id, c.text)]
      /\ todo' = [todo EXCEPT ![Server] = Tail(todo[Server])]
      /\ UNCHANGED <<open, phase, disk, mixed, kept>>
      /\ Goto(j, "indexing")
      /\ UNCHANGED <<chunks, found, vectors, cache, collection, points,
                     graphVars, crashes>>
  BY DEF Indexing, Keyword!Upsert
<1>2. /\ Keyword!TypeOK /\ chunks[j] \in TextSeqs /\ JobOk(j) /\ Indexes(j)
      /\ \A k \in Jobs \ {j} : pc[k] # "indexing"
  BY <1>1 DEF IInv, TypeOK, JobsOk, IndexingOk
<1>3. /\ todo[Server] \in Seq(Keyword!NewChunks)
      /\ index[Server] \in Keyword!Indexes
      /\ index[Server].docs \in [ChunkIds -> Texts \cup {NoText}]
  BY <1>2 DEF Keyword!TypeOK, Keyword!Indexes
<1>4. /\ 1 \in DOMAIN todo[Server] /\ c = todo[Server][1]
      /\ Tail(todo[Server]) \in Seq(Keyword!NewChunks)
      /\ DOMAIN Tail(todo[Server]) = 1..(Len(todo[Server]) - 1)
      /\ \A k \in DOMAIN Tail(todo[Server]) :
           /\ k + 1 \in DOMAIN todo[Server]
           /\ Tail(todo[Server])[k] = todo[Server][k + 1]
      /\ \A k \in DOMAIN todo[Server] :
           k = 1 \/ k - 1 \in DOMAIN Tail(todo[Server])
  BY <1>1, <1>3
<1>5. PICK i \in DOMAIN chunks[j] : c = Item(j, i)
  BY <1>2, <1>4 DEF Indexes
<1>6. /\ c.id = <<j, i>> /\ c.text = chunks[j][i] /\ chunks[j][i] \in Texts
      /\ points[<<j, i>>].text = chunks[j][i] /\ <<j, i>> \in ChunkIds
  <2>1. <<j, i>> \in ChunkIds
    BY <1>2, TextSeqsAreSeqs, IngestionAssumption DEF ChunkIds
  <2> QED
    BY <1>1, <1>2, <1>5, <2>1 DEF Item, JobOk
<1> HIDE DEF c
<1>7. /\ index'[Server] \in Keyword!Indexes
      /\ index'[Server].docs = [index[Server].docs EXCEPT ![<<j, i>>] = chunks[j][i]]
      /\ index'[Server].dirty = TRUE
      /\ index' \in [{Server} -> Keyword!Indexes]
  <2>1. /\ index \in [{Server} -> Keyword!Indexes]
        /\ index'[Server] = Keyword!Upserted(index[Server], c.id, c.text)
    BY <1>1, <1>2 DEF Keyword!TypeOK, c
  <2>2. index'[Server] =
          Keyword!Upserted(index[Server], <<j, i>>, chunks[j][i])
    BY <1>6, <2>1
  <2>3. \A ix \in Keyword!Indexes, d \in ChunkIds, x \in Texts :
          /\ Keyword!Upserted(ix, d, x) \in Keyword!Indexes
          /\ Keyword!Upserted(ix, d, x).docs = [ix.docs EXCEPT ![d] = x]
          /\ Keyword!Upserted(ix, d, x).dirty = TRUE
    BY UpsertedIndex
  <2> QED
    BY <1>1, <1>3, <1>6, <2>1, <2>2, <2>3
<1>8. /\ todo'[Server] = Tail(todo[Server])
      /\ todo' \in [{Server} -> Seq(Keyword!NewChunks)]
  BY <1>1, <1>2, <1>4 DEF Keyword!TypeOK
<1>9. Keyword!TypeOK'
  BY <1>1, <1>2, <1>7, <1>8 DEF Keyword!TypeOK
<1>10. /\ TypeOK' /\ JobsOk' /\ VectorsMatchTexts' /\ EntitiesOk'
       /\ GraphIsGrounded'
       /\ pc'[j] = "indexing" /\ \A k \in Jobs \ {j} : pc'[k] = pc[k]
  BY <1>1, <1>9, KeywordStep
<1>11. \A d \in ChunkIds : index'[Server].docs[d] =
                             IF d = <<j, i>> THEN chunks[j][i]
                                             ELSE index[Server].docs[d]
  BY <1>3, <1>6, <1>7
<1>12. KeywordOk'
  <2>1. \A d \in ChunkIds : pc[d[1]] \in Late => pc'[d[1]] \in Late
    BY <1>1, <1>10 DEF ChunkIds, Late
  <2>2. FindsStored(index[Server].docs)'
    BY <1>1, <1>6, <1>10, <1>11, <2>1 DEF IInv, KeywordOk, FindsStored, Late
  <2>3. FindsStored(Keyword!Loaded(disk).docs)'
    BY <1>1, <2>1 DEF IInv, KeywordOk, FindsStored, Keyword!Loaded
  <2> QED
    BY <2>2, <2>3 DEF KeywordOk
<1>13. IndexingOk'
  <2>1. \A k \in DOMAIN todo'[Server] :
          \E l \in DOMAIN chunks[j] : todo'[Server][k] = Item(j, l)
    BY <1>2, <1>4, <1>8 DEF Indexes
  <2>2. ASSUME NEW l \in DOMAIN chunks[j]
        PROVE  \/ index'[Server].docs[<<j, l>>] = chunks[j][l]
               \/ \E k \in DOMAIN todo'[Server] : todo'[Server][k] = Item(j, l)
    <3>1. <<j, l>> \in ChunkIds
      BY <1>2, TextSeqsAreSeqs, IngestionAssumption DEF ChunkIds
    <3>2. CASE l = i
      BY <1>6, <1>11, <3>2
    <3>3. CASE l # i /\ index[Server].docs[<<j, l>>] = chunks[j][l]
      BY <1>11, <3>1, <3>3
    <3>4. CASE l # i /\ \E k \in DOMAIN todo[Server] : todo[Server][k] = Item(j, l)
      <4>1. PICK k \in DOMAIN todo[Server] : todo[Server][k] = Item(j, l)
        BY <3>4
      <4>2. Item(j, l) # Item(j, i)
        BY <3>4 DEF Item
      <4>3. k # 1
        BY <1>4, <1>5, <4>1, <4>2
      <4>4. k - 1 \in DOMAIN todo'[Server] /\ todo'[Server][k - 1] = todo[Server][k]
        BY <1>3, <1>4, <1>8, <4>3
      <4> QED
        BY <4>1, <4>4
    <3> QED
      BY <1>2, <3>2, <3>3, <3>4 DEF Indexes
  <2>3. Item(j, i)' = Item(j, i) /\ \A l \in DOMAIN chunks[j] : Item(j, l)' = Item(j, l)
    BY <1>1 DEF Item
  <2>4. Indexes(j)'
    BY <1>1, <1>2, <2>1, <2>2, <2>3 DEF Indexes
  <2> QED
    BY <1>2, <1>10, <2>4 DEF IndexingOk
<1>14. CleanOk'
  BY <1>1, <1>7 DEF IInv, CleanOk
<1>15. AnsweredOk'
  <2> SUFFICES ASSUME crashes = 0, NEW k \in Jobs, pc'[k] \in Answered
               PROVE  IsIndexed(k)'
    BY <1>1 DEF AnsweredOk
  <2>1. k # j /\ pc[k] \in Answered /\ chunks[k] \in TextSeqs
    BY <1>10 DEF Answered, IInv, TypeOK
  <2>2. \A l \in DOMAIN chunks[k] : <<k, l>> \in ChunkIds /\ <<k, l>> # <<j, i>>
    BY <2>1, TextSeqsAreSeqs, IngestionAssumption DEF ChunkIds
  <2> QED
    BY <1>1, <1>11, <2>1, <2>2 DEF IInv, AnsweredOk, IsIndexed
<1> QED
  BY <1>10, <1>12, <1>13, <1>14, <1>15 DEF IInv

(***************************************************************************)
(* A step of save, by which time the whole batch is in the index: the      *)
(* request is done with the index when the write has ended.                *)
(***************************************************************************)
LEMMA SaveStep ==
  ASSUME IInv, NEW j \in Jobs, Indexing(j), todo[Server] = <<>>,
         UNCHANGED <<open, todo>>,
         index'[Server].docs = index[Server].docs,
         phase'[Server] \in {"idle", "writing"},
         \A c \in ChunkIds :
           Keyword!Loaded(disk)'.docs[c] # NoText =>
             /\ Keyword!Loaded(disk)'.docs[c] = points[c].text
             /\ pc[c[1]] \in Late,
         CleanOk', Keyword!TypeOK'
  PROVE  IInv'
<1>1. /\ pc[j] = "indexing"
      /\ UNCHANGED <<chunks, found, vectors, cache, collection, points,
                     graphVars, crashes>>
  BY DEF Indexing
<1>2. PICK next \in {"indexing", "extract"} :
        Goto(j, next) /\ (next = "indexing" <=> phase'[Server] = "writing")
  BY DEF Indexing
<1>3. /\ TypeOK' /\ JobsOk' /\ VectorsMatchTexts' /\ EntitiesOk'
      /\ GraphIsGrounded'
      /\ pc'[j] = next /\ \A k \in Jobs \ {j} : pc'[k] = pc[k]
  BY <1>1, <1>2, KeywordStep
<1>4. Indexes(j) /\ \A k \in Jobs \ {j} : pc[k] # "indexing"
  BY <1>1 DEF IInv, IndexingOk
<1>5. /\ Server \in open
      /\ \A i \in DOMAIN chunks[j] : index[Server].docs[<<j, i>>] = chunks[j][i]
  BY <1>4 DEF Indexes
<1>6. KeywordOk'
  <2>1. \A c \in ChunkIds : pc[c[1]] \in Late => pc'[c[1]] \in Late
    BY <1>1, <1>3 DEF ChunkIds, Late
  <2> QED
    BY <1>1, <2>1 DEF IInv, KeywordOk, FindsStored
<1>7. IndexingOk'
  <2>1. ASSUME next = "indexing" PROVE Indexes(j)'
    BY <1>1, <1>2, <1>5, <2>1 DEF Indexes, Item
  <2> QED
    BY <1>3, <1>4, <2>1 DEF IndexingOk
<1>8. AnsweredOk'
  <2> SUFFICES ASSUME crashes = 0, NEW k \in Jobs, pc'[k] \in Answered
               PROVE  IsIndexed(k)'
    BY <1>1 DEF AnsweredOk
  <2>1. CASE k = j
    BY <1>1, <1>5, <2>1 DEF IsIndexed
  <2>2. CASE k # j
    BY <1>1, <1>3, <2>2 DEF IInv, AnsweredOk, IsIndexed
  <2> QED
    BY <2>1, <2>2
<1> QED
  BY <1>3, <1>6, <1>7, <1>8 DEF IInv

LEMMA IndexingFacts ==
  ASSUME IInv, NEW j \in Jobs, pc[j] = "indexing"
  PROVE  /\ Keyword!TypeOK /\ CleanOk
         /\ index[Server] \in Keyword!Indexes
         /\ Server \in open
         /\ phase[Server] = "writing" => todo[Server] = <<>>
         /\ mixed = FALSE /\ Keyword!Writing(Server) = {}
         /\ \A c \in ChunkIds :
              index[Server].docs[c] # NoText =>
                index[Server].docs[c] = points[c].text /\ pc[c[1]] \in Late
         /\ \A c \in ChunkIds :
              Keyword!Loaded(disk).docs[c] # NoText =>
                /\ Keyword!Loaded(disk).docs[c] = points[c].text
                /\ pc[c[1]] \in Late
<1>1. Keyword!TypeOK /\ CleanOk /\ Indexes(j) /\ KeywordOk
  BY DEF IInv, TypeOK, IndexingOk
<1>2. Keyword!Writing(Server) = {}
  BY DEF Keyword!Writing
<1> QED
  BY <1>1, <1>2 DEF Keyword!TypeOK, Indexes, CleanOk, KeywordOk, FindsStored

(* A snapshot is read as it was written, a torn file as no index at all.   *)
LEMMA LoadedSnapshot ==
  /\ \A ix \in Keyword!Indexes : Keyword!Loaded(ix) = ix
  /\ Keyword!Loaded(Torn) = Keyword!Empty
BY SnapshotAssumption DEF Keyword!Loaded

LEMMA SaveBeginInv ==
  ASSUME IInv, NEW j \in Jobs, Indexing(j), Keyword!SaveBegin(Server)
  PROVE  IInv'
<1>1. /\ pc[j] = "indexing" /\ phase[Server] = "indexing"
      /\ todo[Server] = <<>> /\ UNCHANGED <<open, index, todo, kept>>
  BY DEF Indexing, Keyword!SaveBegin
<1>2. /\ Keyword!TypeOK /\ CleanOk /\ mixed = FALSE
      /\ Server \in open /\ Keyword!Writing(Server) = {}
      /\ \A c \in ChunkIds :
           Keyword!Loaded(disk).docs[c] # NoText =>
             /\ Keyword!Loaded(disk).docs[c] = points[c].text
             /\ pc[c[1]] \in Late
  BY <1>1, IndexingFacts
<1>3. CASE index[Server].dirty
  <2>1. /\ phase' = [phase EXCEPT ![Server] = "writing"]
        /\ disk' = Torn /\ mixed' = FALSE
    BY <1>2, <1>3 DEF Keyword!SaveBegin
  <2>2. Keyword!TypeOK' /\ phase'[Server] = "writing"
    BY <1>1, <1>2, <2>1 DEF Keyword!TypeOK
  <2>3. Keyword!Loaded(disk)' = Keyword!Empty
    BY <2>1, LoadedSnapshot DEF Keyword!Loaded
  <2>4. CleanOk'
    BY <1>1, <1>2, <1>3, <2>1, <2>2 DEF CleanOk
  <2> QED
    BY <1>1, <2>2, <2>3, <2>4, EmptyIndex, SaveStep
<1>4. CASE ~ index[Server].dirty
  <2>1. /\ phase' = [phase EXCEPT ![Server] = "idle"]
        /\ disk' = disk /\ mixed' = mixed
    BY <1>4 DEF Keyword!SaveBegin
  <2>2. Keyword!TypeOK' /\ phase'[Server] = "idle"
    BY <1>1, <1>2, <2>1 DEF Keyword!TypeOK
  <2>3. Keyword!Loaded(disk)' = Keyword!Loaded(disk)
    BY <2>1 DEF Keyword!Loaded
  <2>4. CleanOk'
    BY <1>1, <1>2, <1>4, <2>1, <2>2, <2>3 DEF CleanOk
  <2> QED
    BY <1>1, <1>2, <2>2, <2>3, <2>4, SaveStep
<1> QED
  BY <1>3, <1>4

LEMMA SaveEndInv ==
  ASSUME IInv, NEW j \in Jobs, Indexing(j), Keyword!SaveEnd(Server)
  PROVE  IInv'
<1> DEFINE snapshot == [index[Server] EXCEPT !.dirty = FALSE]
<1>1. pc[j] = "indexing" /\ phase[Server] = "writing"
  BY DEF Indexing, Keyword!SaveEnd
<1>2. /\ Keyword!TypeOK /\ CleanOk /\ mixed = FALSE
      /\ index[Server] \in Keyword!Indexes /\ todo[Server] = <<>>
      /\ Server \in open /\ Keyword!Writing(Server) = {}
      /\ \A c \in ChunkIds :
           index[Server].docs[c] # NoText =>
             index[Server].docs[c] = points[c].text /\ pc[c[1]] \in Late
  BY <1>1, IndexingFacts
<1>3. /\ phase' = [phase EXCEPT ![Server] = "idle"]
      /\ index' = [index EXCEPT ![Server].dirty = FALSE]
      /\ disk' = snapshot /\ mixed' = FALSE
      /\ kept' = kept \cup Keyword!Indexed(index[Server])
      /\ UNCHANGED <<open, todo>>
  BY <1>2 DEF Keyword!SaveEnd
<1>4. /\ snapshot \in Keyword!Indexes /\ snapshot.docs = index[Server].docs
      /\ snapshot.dirty = FALSE
  BY <1>2 DEF Keyword!Indexes
<1>5. index'[Server] = snapshot /\ index' \in [{Server} -> Keyword!Indexes]
  BY <1>2, <1>3, <1>4 DEF Keyword!TypeOK
<1> HIDE DEF snapshot
<1>6. Keyword!TypeOK' /\ phase'[Server] = "idle"
  <2>1. Keyword!Indexed(index[Server]) \subseteq ChunkIds
    BY DEF Keyword!Indexed
  <2> QED
    BY <1>2, <1>3, <1>4, <1>5, <2>1 DEF Keyword!TypeOK
<1>7. Keyword!Loaded(disk)' = snapshot
  BY <1>3, <1>4, LoadedSnapshot DEF Keyword!Loaded
<1>8. CleanOk'
  BY <1>3, <1>5, <1>6, <1>7, <1>2 DEF CleanOk
<1> QED
  BY <1>2, <1>3, <1>4, <1>5, <1>6, <1>7, <1>8, SaveStep

LEMMA SaveFailsInv ==
  ASSUME IInv, NEW j \in Jobs, Indexing(j), Keyword!SaveFails(Server)
  PROVE  IInv'
<1>1. /\ pc[j] = "indexing" /\ UNCHANGED <<open, index, todo, kept>>
      /\ \/ phase[Server] = "indexing" /\ todo[Server] = <<>>
         \/ phase[Server] = "writing"
      /\ phase' = [phase EXCEPT ![Server] = "idle"]
      /\ mixed' = (mixed /\ Keyword!Writing(Server) # {})
  BY DEF Indexing, Keyword!SaveFails
<1>2. /\ Keyword!TypeOK /\ CleanOk /\ mixed = FALSE /\ todo[Server] = <<>>
      /\ Server \in open
      /\ \A c \in ChunkIds :
           Keyword!Loaded(disk).docs[c] # NoText =>
             /\ Keyword!Loaded(disk).docs[c] = points[c].text
             /\ pc[c[1]] \in Late
  BY <1>1, IndexingFacts
<1>d. disk' = disk
  BY <1>2 DEF Indexing, Keyword!SaveFails, Keyword!CutShort, Keyword!CutShort
<1>3. Keyword!TypeOK' /\ phase'[Server] = "idle" /\ mixed' = FALSE
  BY <1>1, <1>2, <1>d DEF Keyword!TypeOK
<1>4. Keyword!Loaded(disk)' = Keyword!Loaded(disk)
  BY <1>d DEF Keyword!Loaded
<1>5. CleanOk'
  BY <1>1, <1>2, <1>3, <1>4 DEF CleanOk
<1> QED
  BY <1>1, <1>2, <1>3, <1>4, <1>5, SaveStep

-----------------------------------------------------------------------------
(***************************************************************************)
(* What extractAndStoreEntities writes is the request's own, mentions are  *)
(* of its chunks, and relations join two of the entities it wrote.         *)
(***************************************************************************)
LEMMA ExtractedIsGrounded ==
  ASSUME NEW j \in Jobs, chunks[j] \in TextSeqs, chunks[j] # <<>>,
         NEW x \in Extractions, NEW written \in SUBSET Firsts(x.entities)
  PROVE  /\ Ids(j, x.entities, written) \subseteq Jobs \X Names
         /\ \A e \in Ids(j, x.entities, written) : e[1] = j
         /\ \A k \in written :
              /\ <<j, x.entities[k].name>> \in Ids(j, x.entities, written)
              /\ \E i \in DOMAIN chunks[j] :
                   /\ ChunkAt(j, x.entities[k].chunk) = <<j, i>>
                   /\ <<j, i>> \in ChunkIds
         /\ \A e \in Edges(j, x.entities, written, x.relations) :
              /\ e = <<e[1], e[2]>> /\ e[1] # e[2]
              /\ e[1] \in Ids(j, x.entities, written)
              /\ e[2] \in Ids(j, x.entities, written)
<1> DEFINE ents == x.entities
<1>1. \A k \in written : ents[k].name \in Names /\ ents[k].chunk \in Nat
  <2>1. ents \in Seq([name : Names, chunk : Nat])
    BY IngestionAssumption
  <2>2. written \subseteq DOMAIN ents
    BY DEF Firsts
  <2> HIDE DEF ents
  <2>3. DOMAIN ents = 1..Len(ents)
    BY <2>1
  <2>4. \A k \in 1..Len(ents) : ents[k] \in [name : Names, chunk : Nat]
    BY <2>1, ElementOfSeq
  <2> QED
    BY <2>2, <2>3, <2>4
<1> HIDE DEF ents
<1>2. /\ Ids(j, ents, written) \subseteq Jobs \X Names
      /\ \A e \in Ids(j, ents, written) : e[1] = j
      /\ \A k \in written : <<j, ents[k].name>> \in Ids(j, ents, written)
  BY <1>1 DEF Ids
<1>3. ASSUME NEW k \in written
      PROVE  \E i \in DOMAIN chunks[j] :
               ChunkAt(j, ents[k].chunk) = <<j, i>> /\ <<j, i>> \in ChunkIds
  <2>1. /\ Len(chunks[j]) \in 0..MaxChunks /\ chunks[j] \in Seq(Texts \cup {NoText})
        /\ DOMAIN chunks[j] = 1..Len(chunks[j])
    BY TextSeqsAreSeqs
  <2>2. Len(chunks[j]) # 0
    BY <2>1
  <2>3. PICK i : i = IF ents[k].chunk + 1 <= Len(chunks[j])
                       THEN ents[k].chunk + 1 ELSE Len(chunks[j])
    OBVIOUS
  <2>4. i \in 1..Len(chunks[j]) /\ i \in 1..MaxChunks
    BY <1>1, <2>1, <2>2, <2>3, IngestionAssumption
  <2>5. ChunkAt(j, ents[k].chunk) = <<j, i>>
    BY <2>3 DEF ChunkAt
  <2> QED
    BY <2>1, <2>4, <2>5 DEF ChunkIds
<1>4. \A name : Resolved(j, ents, written, name) \subseteq Ids(j, ents, written)
  BY DEF Resolved, Ids
<1>5. \A e \in Edges(j, ents, written, x.relations) :
        /\ e = <<e[1], e[2]>> /\ e[1] # e[2]
        /\ e[1] \in Ids(j, ents, written) /\ e[2] \in Ids(j, ents, written)
  <2> SUFFICES ASSUME NEW e \in Edges(j, ents, written, x.relations)
               PROVE  /\ e = <<e[1], e[2]>> /\ e[1] # e[2]
                      /\ e[1] \in Ids(j, ents, written)
                      /\ e[2] \in Ids(j, ents, written)
    OBVIOUS
  <2>1. PICK r \in x.relations :
          /\ e \in Resolved(j, ents, written, r.from)
                     \X Resolved(j, ents, written, r.to)
          /\ e[1] # e[2]
    BY DEF Edges
  <2> QED
    BY <1>4, <2>1
<1> QED
  BY <1>2, <1>3, <1>5 DEF ents

LEMMA ExtractInv ==
  ASSUME IInv, NEW j \in Jobs, Extract(j)
  PROVE  IInv'
<1>1. /\ pc[j] = "extract" /\ Goto(j, "respond")
      /\ UNCHANGED <<chunks, found, vectors, cache, collection, points,
                     crashes, bm25Vars>>
  BY DEF Extract, Runs
<1>2. PICK x \in Extractions : \E w \in SUBSET Firsts(x.entities) :
         \E seen \in SUBSET w :
           /\ entities' = entities \cup Ids(j, x.entities, w)
           /\ mentions' = mentions \cup
                {<<<<j, x.entities[k].name>>,
                   ChunkAt(j, x.entities[k].chunk)>> : k \in seen}
           /\ \E E \in SUBSET Edges(j, x.entities, w, x.relations) :
                relations' = relations \cup E
  BY DEF Extract
<1>3. PICK written \in SUBSET Firsts(x.entities) :
         \E seen \in SUBSET written :
           /\ entities' = entities \cup Ids(j, x.entities, written)
           /\ mentions' = mentions \cup
                {<<<<j, x.entities[k].name>>,
                   ChunkAt(j, x.entities[k].chunk)>> : k \in seen}
           /\ \E E \in SUBSET Edges(j, x.entities, written, x.relations) :
                relations' = relations \cup E
  BY <1>2
<1>4. PICK seen \in SUBSET written, E \in SUBSET Edges(j, x.entities, written, x.relations) :
           /\ entities' = entities \cup Ids(j, x.entities, written)
           /\ mentions' = mentions \cup
                {<<<<j, x.entities[k].name>>,
                   ChunkAt(j, x.entities[k].chunk)>> : k \in seen}
           /\ relations' = relations \cup E
  BY <1>3
<1>5. /\ chunks[j] \in TextSeqs /\ chunks[j] # <<>> /\ JobOk(j)
      /\ pc \in [Jobs -> Steps] /\ Keyword!TypeOK
      /\ entities \subseteq Jobs \X Names
      /\ mentions \subseteq (Jobs \X Names) \X ChunkIds
      /\ relations \subseteq (Jobs \X Names) \X (Jobs \X Names)
  BY <1>1 DEF IInv, TypeOK, JobsOk, JobOk, Filed
<1> DEFINE ids == Ids(j, x.entities, written)
<1>6. /\ ids \subseteq Jobs \X Names
      /\ \A e \in ids : e[1] = j
      /\ \A k \in written :
           /\ <<j, x.entities[k].name>> \in ids
           /\ \E i \in DOMAIN chunks[j] :
                /\ ChunkAt(j, x.entities[k].chunk) = <<j, i>>
                /\ <<j, i>> \in ChunkIds
      /\ \A e \in Edges(j, x.entities, written, x.relations) :
           /\ e = <<e[1], e[2]>> /\ e[1] # e[2]
           /\ e[1] \in ids /\ e[2] \in ids
  <2>1. chunks[j] \in TextSeqs /\ chunks[j] # <<>>
    BY <1>5
  <2> QED
    BY <2>1, ExtractedIsGrounded, Zenon
<1>7. \A i \in DOMAIN chunks[j] : points[<<j, i>>].text # NoText
  BY <1>1, <1>5, IngestionAssumption DEF JobOk, Answered
<1>8. \A m \in mentions' : m \in mentions \/
        /\ m[1] \in ids /\ m[2] \in ChunkIds /\ m = <<m[1], m[2]>>
        /\ points[m[2]].text # NoText /\ m[2][1] = j
  <2> SUFFICES ASSUME NEW m \in mentions', m \notin mentions
               PROVE  /\ m[1] \in ids /\ m[2] \in ChunkIds /\ m = <<m[1], m[2]>>
                      /\ points[m[2]].text # NoText /\ m[2][1] = j
    OBVIOUS
  <2>1. PICK k \in seen : m = <<<<j, x.entities[k].name>>,
                                ChunkAt(j, x.entities[k].chunk)>>
    BY <1>4
  <2>2. PICK i \in DOMAIN chunks[j] :
          ChunkAt(j, x.entities[k].chunk) = <<j, i>> /\ <<j, i>> \in ChunkIds
    BY <1>6
  <2> QED
    BY <1>6, <1>7, <2>1, <2>2
<1>9. \A r \in relations' : r \in relations \/
        /\ r = <<r[1], r[2]>> /\ r[1] # r[2]
        /\ r[1] \in ids /\ r[2] \in ids
  <2> SUFFICES ASSUME NEW r \in relations', r \notin relations
               PROVE  /\ r = <<r[1], r[2]>> /\ r[1] # r[2]
                      /\ r[1] \in ids /\ r[2] \in ids
    OBVIOUS
  <2>1. r \in Edges(j, x.entities, written, x.relations)
    BY <1>4
  <2> HIDE DEF ids
  <2> QED
    BY <1>6, <2>1
<1>10. entities' = entities \cup ids
  BY <1>4
<1> HIDE DEF ids
<1>11. pc'[j] = "respond" /\ pc' \in [Jobs -> Steps]
  BY <1>1, <1>5 DEF Goto, Steps
<1>12. JobOk(j)'
  BY <1>1, <1>5, <1>11 DEF JobOk, Filed, Answered
<1>13. /\ JobsOk' /\ KeywordOk' /\ IndexingOk' /\ CleanOk' /\ AnsweredOk'
       /\ \A k \in Jobs \ {j} : pc'[k] = pc[k]
  BY <1>1, <1>12, JobFrame DEF Steps, Late, Answered
<1>14. TypeOK'
  <2>1. entities' \subseteq Jobs \X Names
    BY <1>5, <1>6, <1>10
  <2>2. mentions' \subseteq (Jobs \X Names) \X ChunkIds
    BY <1>5, <1>6, <1>8
  <2>3. relations' \subseteq (Jobs \X Names) \X (Jobs \X Names)
    BY <1>5, <1>6, <1>9
  <2> QED
    BY <1>1, <1>11, <2>1, <2>2, <2>3
       DEF IInv, TypeOK, Keyword!TypeOK, bm25Vars
<1>15. VectorsMatchTexts'
  BY <1>1 DEF IInv, VectorsMatchTexts
<1>16. EntitiesOk'
  <2>1. \A e \in entities : e[1] \in Jobs /\ pc[e[1]] \in Ended
    BY <1>5 DEF IInv, EntitiesOk
  <2>2. \A e \in entities' : pc'[e[1]] \in Ended
    BY <1>6, <1>10, <1>11, <1>13, <2>1 DEF Ended
  <2> QED
    BY <2>2 DEF EntitiesOk
<1>17. GraphIsGrounded'
  <2>1. \A m \in mentions' :
          m[1] \in entities' /\ points[m[2]].text # NoText /\ m[1][1] = m[2][1]
    BY <1>6, <1>8, <1>10 DEF IInv, GraphIsGrounded, Stored
  <2>2. \A r \in relations' :
          /\ r[1] \in entities' /\ r[2] \in entities'
          /\ r[1] # r[2] /\ r[1][1] = r[2][1]
    BY <1>6, <1>9, <1>10 DEF IInv, GraphIsGrounded
  <2> QED
    BY <1>1, <2>1, <2>2 DEF GraphIsGrounded, Stored
<1> QED
  BY <1>13, <1>14, <1>15, <1>16, <1>17 DEF IInv

(***************************************************************************)
(* A restart forgets the index in memory and what requests were doing; the *)
(* points, the snapshot and the graph stay.                                *)
(***************************************************************************)
LEMMA CrashInv ==
  ASSUME IInv, Crash
  PROVE  IInv'
<1>1. /\ crashes < MaxCrashes /\ crashes' = crashes + 1
      /\ pc' = [j \in Jobs |-> IF pc[j] \in {"new", "completed", "failed"}
                                 THEN pc[j] ELSE "lost"]
      /\ UNCHANGED <<chunks, found, vectors, cache, collection, points,
                     graphVars>>
  BY DEF Crash
<1>2. /\ pc \in [Jobs -> Steps] /\ crashes \in 0..MaxCrashes
      /\ Keyword!TypeOK /\ CleanOk
  BY DEF IInv, TypeOK
<1>3. /\ Keyword!TypeOK' /\ disk' = disk /\ mixed' = FALSE
      /\ Server \notin open' /\ phase'[Server] = "idle"
      /\ index'[Server] = Keyword!Empty \/ index'[Server] = index[Server]
  <2>1. CASE Server \in open
    <3>1. /\ open' = open \ {Server}
          /\ index' = [index EXCEPT ![Server] = Keyword!Empty]
          /\ todo' = [todo EXCEPT ![Server] = <<>>]
          /\ phase' = [phase EXCEPT ![Server] = "idle"]
          /\ mixed' = (mixed /\ Keyword!Writing(Server) # {})
          /\ disk' = disk /\ kept' = kept
      BY <1>2, <2>1 DEF Crash, CleanOk, Keyword!Exit, Keyword!CutShort
    <3>2. mixed' = FALSE
      BY <1>2, <3>1 DEF CleanOk
    <3>3. [todo EXCEPT ![Server] = <<>>] \in [{Server} -> Seq(Keyword!NewChunks)]
      BY <1>2 DEF Keyword!TypeOK
    <3>4. [index EXCEPT ![Server] = Keyword!Empty] \in [{Server} -> Keyword!Indexes]
      BY <1>2, EmptyIndex DEF Keyword!TypeOK
    <3>5. Keyword!TypeOK'
      BY <1>2, <3>1, <3>2, <3>3, <3>4 DEF Keyword!TypeOK
    <3> QED
      BY <1>2, <3>1, <3>2, <3>5 DEF Keyword!TypeOK
  <2>2. CASE Server \notin open
    <3>1. UNCHANGED bm25Vars
      BY <2>2 DEF Crash
    <3> QED
      BY <1>2, <2>2, <3>1 DEF bm25Vars, Keyword!TypeOK, CleanOk
  <2> QED
    BY <2>1, <2>2
<1>4. /\ pc' \in [Jobs -> Steps]
      /\ \A j \in Jobs : /\ pc'[j] \in {"new", "completed", "failed", "lost"}
                         /\ pc[j] \in Late => pc'[j] \in Late
                         /\ pc[j] \in Ended => pc'[j] \in Ended
                         /\ pc'[j] = "completed" => pc[j] = "completed"
  BY <1>1, <1>2 DEF Steps, Late, Ended
<1>5. TypeOK'
  <2>1. crashes' \in 0..MaxCrashes
    BY <1>1, <1>2, IngestionAssumption
  <2> QED
    BY <1>1, <1>3, <1>4, <2>1 DEF IInv, TypeOK, graphVars
<1>6. JobsOk'
  <2> SUFFICES ASSUME NEW j \in Jobs PROVE JobOk(j)'
    BY DEF JobsOk
  <2>1. JobOk(j)
    BY DEF IInv, JobsOk
  <2>2. pc'[j] \in {"new", "completed", "failed", "lost"}
        /\ (pc'[j] = "completed" => pc[j] = "completed")
    BY <1>4
  <2> QED
    BY <1>1, <2>1, <2>2 DEF JobOk, Filed, Answered
<1>7. VectorsMatchTexts'
  BY <1>1 DEF IInv, VectorsMatchTexts
<1>8. KeywordOk'
  <2>1. \A c \in ChunkIds : pc[c[1]] \in Late => pc'[c[1]] \in Late
    BY <1>4 DEF ChunkIds
  <2>2. FindsStored(index[Server].docs)'
    BY <1>1, <1>3, <2>1, EmptyIndex DEF IInv, KeywordOk, FindsStored
  <2>3. FindsStored(Keyword!Loaded(disk).docs)'
    BY <1>1, <1>3, <2>1 DEF IInv, KeywordOk, FindsStored, Keyword!Loaded
  <2> QED
    BY <2>2, <2>3 DEF KeywordOk
<1>9. IndexingOk' /\ CleanOk'
  BY <1>3, <1>4 DEF IndexingOk, CleanOk
<1>10. AnsweredOk'
  BY <1>1, <1>2 DEF AnsweredOk
<1>11. EntitiesOk'
  <2>1. \A e \in entities : e[1] \in Jobs
    BY DEF IInv, TypeOK
  <2> QED
    BY <1>1, <1>4, <2>1 DEF IInv, EntitiesOk, graphVars
<1>12. GraphIsGrounded'
  BY <1>1 DEF IInv, GraphIsGrounded, Stored, graphVars
<1> QED
  BY <1>5, <1>6, <1>7, <1>8, <1>9, <1>10, <1>11, <1>12 DEF IInv

-----------------------------------------------------------------------------
LEMMA NextInv == IInv /\ [Next]_vars => IInv'
<1> SUFFICES ASSUME IInv, [Next]_vars PROVE IInv'
  OBVIOUS
<1>1. ASSUME NEW j \in Jobs, Chunk(j) PROVE IInv'
  BY <1>1, ChunkInv
<1>2. ASSUME NEW j \in Jobs,
             \/ Accept(j) \/ Load(j) \/ EmbedFails(j) \/ FindCollection(j)
             \/ CreateCollection(j) \/ ExtractFails(j) \/ Respond(j)
      PROVE  IInv'
  BY <1>2, ControlInv
<1>3. ASSUME NEW j \in Jobs, LookUp(j) PROVE IInv'
  BY <1>3, LookUpInv
<1>4. ASSUME NEW j \in Jobs, Embed(j) PROVE IInv'
  BY <1>4, EmbedInv
<1>5. ASSUME NEW j \in Jobs, Store(j) PROVE IInv'
  BY <1>5, StoreInv
<1>6. ASSUME NEW j \in Jobs, StoreFails(j) PROVE IInv'
  BY <1>6, StoreFailsInv
<1>7. ASSUME NEW j \in Jobs, OpenIndex(j) PROVE IInv'
  BY <1>7, OpenIndexInv
<1>8. ASSUME NEW j \in Jobs, Index(j) PROVE IInv'
  BY <1>8, IndexInv
<1>9. ASSUME NEW j \in Jobs, Indexing(j) PROVE IInv'
  <2>1. \/ Keyword!Upsert(Server) \/ Keyword!SaveBegin(Server)
        \/ Keyword!SaveEnd(Server) \/ Keyword!SaveFails(Server)
    BY <1>9 DEF Indexing
  <2> QED
    BY <1>9, <2>1, UpsertInv, SaveBeginInv, SaveEndInv, SaveFailsInv
<1>10. ASSUME NEW j \in Jobs, Extract(j) PROVE IInv'
  BY <1>10, ExtractInv
<1>11. ASSUME NEW t \in Texts, Expire(t) PROVE IInv'
  BY <1>11, ExpireInv
<1>12. ASSUME Crash PROVE IInv'
  BY <1>12, CrashInv
<1>13. ASSUME UNCHANGED vars PROVE IInv'
  <2> USE <1>13 DEF IInv, vars, jobVars, graphVars, bm25Vars
  <2>1. TypeOK'
    BY DEF TypeOK, Keyword!TypeOK
  <2>2. JobsOk' /\ VectorsMatchTexts'
    BY DEF JobsOk, JobOk, VectorsMatchTexts
  <2>3. KeywordOk' /\ IndexingOk' /\ CleanOk' /\ AnsweredOk'
    BY DEF KeywordOk, FindsStored, IndexingOk, Indexes, Item, CleanOk,
       AnsweredOk, IsIndexed, Keyword!Loaded
  <2>4. EntitiesOk' /\ GraphIsGrounded'
    BY DEF EntitiesOk, GraphIsGrounded, Stored
  <2> QED
    BY <2>1, <2>2, <2>3, <2>4
<1> QED
  BY <1>1, <1>2, <1>3, <1>4, <1>5, <1>6, <1>7, <1>8, <1>9, <1>10, <1>11,
     <1>12, <1>13 DEF Next

LEMMA Invariance == Spec => []IInv
BY InitInv, NextInv, PTL DEF Spec

(***************************************************************************)
(* Requests and stores hold well-formed values, whatever fails,            *)
(* interleaves or crashes: documents and vectors have at most MaxChunks    *)
(* entries, and a mention names a chunk a document can have, although the  *)
(* model chose its index (pipeline.ts, kgExtractor.ts).                    *)
(***************************************************************************)
THEOREM IngestionTypes == Spec => []TypeOK
<1>1. IInv => TypeOK
  BY DEF IInv
<1> QED
  BY <1>1, Invariance, PTL

(***************************************************************************)
(* A stored chunk carries the vector of its own text, and the cache a      *)
(* text's own vector, however hits and fresh vectors were put together     *)
(* while other requests filled the cache and entries expired (cache.ts,    *)
(* embedBatch).                                                            *)
(***************************************************************************)
THEOREM Vectors == Spec => []VectorsMatchTexts
<1>1. IInv => VectorsMatchTexts
  BY DEF IInv
<1> QED
  BY <1>1, Invariance, PTL

(***************************************************************************)
(* Keyword search finds, now and after a restart, only chunks that Qdrant  *)
(* holds with the same text.                                               *)
(***************************************************************************)
THEOREM KeywordStored == Spec => []KeywordIsStored
<1>1. ASSUME IInv PROVE KeywordIsStored
  <2>1. KeywordOk
    BY <1>1 DEF IInv
  <2>2. \A c \in Keyword!Indexed(Keyword!Loaded(disk)) :
          c \in ChunkIds /\ Keyword!Loaded(disk).docs[c] # NoText
    BY DEF Keyword!Indexed
  <2>3. ASSUME NEW c \in Keyword!Indexed(Keyword!Loaded(disk))
        PROVE  Keyword!Loaded(disk) = disk
    BY <2>2, EmptyIndex DEF Keyword!Loaded
  <2>4. \A c \in ChunkIds : c \in Keyword!Indexed(Keyword!Loaded(disk)) =>
          disk.docs[c] = points[c].text
    BY <2>1, <2>2, <2>3 DEF KeywordOk, FindsStored
  <2>5. \A c \in ChunkIds : c \in Keyword!Indexed(index[Server]) =>
          index[Server].docs[c] = points[c].text
    BY <2>1 DEF KeywordOk, FindsStored, Keyword!Indexed
  <2> QED
    BY <2>4, <2>5 DEF KeywordIsStored
<1> QED
  BY <1>1, Invariance, PTL

(***************************************************************************)
(* A request that is told "completed" has all its chunks in Qdrant and, if *)
(* the server has not died, in the keyword index; one that failed has left *)
(* nothing in the keyword index and no entity (pipeline.ts, the order of   *)
(* the steps and what each does with an error).                            *)
(***************************************************************************)
THEOREM Outcomes == Spec => []OutcomesAreTrue
<1>1. ASSUME IInv PROVE OutcomesAreTrue
  <2> SUFFICES ASSUME NEW j \in Jobs
               PROVE  /\ pc[j] = "completed" =>
                           \A i \in DOMAIN chunks[j] :
                             /\ points[<<j, i>>].text = chunks[j][i]
                             /\ crashes = 0 =>
                                  index[Server].docs[<<j, i>>] = chunks[j][i]
                      /\ pc[j] = "failed" =>
                           /\ \A c \in ChunksOf(j) : ~ InKeyword(c)
                           /\ \A e \in entities : e[1] # j
    BY DEF OutcomesAreTrue
  <2>1. JobOk(j) /\ KeywordOk /\ AnsweredOk /\ EntitiesOk
    BY <1>1 DEF IInv, JobsOk
  <2>2. ASSUME pc[j] = "completed", NEW i \in DOMAIN chunks[j]
        PROVE  /\ points[<<j, i>>].text = chunks[j][i]
               /\ crashes = 0 => index[Server].docs[<<j, i>>] = chunks[j][i]
    BY <2>1, <2>2 DEF JobOk, AnsweredOk, IsIndexed, Answered
  <2>3. ASSUME pc[j] = "failed", NEW c \in ChunksOf(j) PROVE ~ InKeyword(c)
    <3>1. pc[c[1]] = "failed"
      BY <2>3 DEF ChunksOf
    <3>2. \A docs : FindsStored(docs) /\ c \in ChunkIds => docs[c] = NoText
      BY <3>1 DEF FindsStored, Late
    <3> QED
      BY <2>1, <3>2 DEF InKeyword, Keyword!Indexed, KeywordOk
  <2>4. ASSUME pc[j] = "failed", NEW e \in entities PROVE e[1] # j
    BY <2>1, <2>4 DEF EntitiesOk, Ended
  <2> QED
    BY <2>2, <2>3, <2>4
<1> QED
  BY <1>1, Invariance, PTL

(* Mentions and relations never dangle, and no entity relates to itself.   *)
THEOREM GraphGrounded == Spec => []GraphIsGrounded
<1>1. IInv => GraphIsGrounded
  BY DEF IInv
<1> QED
  BY <1>1, Invariance, PTL

(***************************************************************************)
(* The server is the index's only process, so whenever no call runs and    *)
(* nothing is left to save, the snapshot is the index in memory.           *)
(***************************************************************************)
THEOREM CleanPersisted == Spec => []CleanIsPersisted
<1>1. ASSUME IInv PROVE CleanIsPersisted
  <2>1. CleanOk
    BY <1>1 DEF IInv
  <2>2. ASSUME NEW p \in open, Keyword!Idle(p), ~ index[p].dirty
        PROVE  Keyword!Loaded(disk) = index[p]
    <3>1. p = Server
      BY <1>1 DEF IInv, TypeOK, Keyword!TypeOK
    <3> QED
      BY <2>1, <2>2, <3>1 DEF CleanOk, Keyword!Idle
  <2> QED
    BY <2>2 DEF CleanIsPersisted, Keyword!CleanIsPersisted
<1> QED
  BY <1>1, Invariance, PTL

-----------------------------------------------------------------------------
(***************************************************************************)
(* The pipeline uses the keyword index as BM25Index says a process does:   *)
(* it opens it once per life of the server, hands it no empty batch, and   *)
(* starts no call while one runs.                                          *)
(***************************************************************************)
LEMMA KeywordNext == IInv /\ [Next]_vars => [Keyword!Next]_(Keyword!vars)
<1> SUFFICES ASSUME IInv, [Next]_vars
             PROVE  Keyword!Next \/ UNCHANGED bm25Vars
  BY DEF Keyword!vars, bm25Vars
<1>1. ASSUME NEW j \in Jobs, Index(j) PROVE Keyword!Next
  <2> DEFINE batch == [i \in DOMAIN chunks[j] |->
                         [id |-> <<j, i>>, text |-> chunks[j][i]]]
  <2>1. pc[j] = "index" /\ Keyword!Ingest(Server, batch)
    BY <1>1 DEF Index, Runs
  <2>2. /\ chunks[j] \in TextSeqs /\ chunks[j] # <<>>
        /\ \A i \in DOMAIN chunks[j] : chunks[j][i] \in Texts
    BY <2>1 DEF IInv, TypeOK, JobsOk, JobOk, Filed
  <2>3. /\ chunks[j] \in Seq(Texts \cup {NoText})
        /\ Len(chunks[j]) \in 0..MaxChunks
        /\ DOMAIN chunks[j] = 1..Len(chunks[j])
    BY <2>2, TextSeqsAreSeqs
  <2>4. Len(chunks[j]) \in 1..MaxChunks
    <3>1. Len(chunks[j]) # 0
      BY <2>2, <2>3
    <3> QED
      BY <2>3, <3>1, IngestionAssumption
  <2>5. \A i \in 1..Len(chunks[j]) : <<j, i>> \in ChunkIds
    BY <2>4, IngestionAssumption DEF ChunkIds
  <2>6. batch \in [1..Len(chunks[j]) -> Keyword!NewChunks]
    BY <2>2, <2>3, <2>5 DEF Keyword!NewChunks
  <2>7. batch \in Keyword!Batches
    BY <2>4, <2>6 DEF Keyword!Batches
  <2> HIDE DEF batch
  <2> QED
    BY <2>1, <2>7 DEF Keyword!Next
<1>2. ASSUME NEW j \in Jobs, Indexing(j) \/ OpenIndex(j) PROVE Keyword!Next
  BY <1>2 DEF Indexing, OpenIndex, Keyword!Next
<1>3. ASSUME NEW j \in Jobs,
             \/ Accept(j) \/ Load(j) \/ Chunk(j) \/ LookUp(j) \/ Embed(j)
             \/ EmbedFails(j) \/ FindCollection(j) \/ CreateCollection(j)
             \/ Store(j) \/ StoreFails(j) \/ Extract(j) \/ ExtractFails(j)
             \/ Respond(j)
      PROVE  UNCHANGED bm25Vars
  BY <1>3 DEF Accept, Load, Chunk, LookUp, Embed, EmbedFails, FindCollection,
     CreateCollection, Store, StoreFails, Extract, ExtractFails, Respond
<1>4. ASSUME NEW t \in Texts, Expire(t) PROVE UNCHANGED bm25Vars
  BY <1>4 DEF Expire
<1>5. ASSUME Crash PROVE Keyword!Next \/ UNCHANGED bm25Vars
  BY <1>5 DEF Crash, Keyword!Next
<1>6. ASSUME UNCHANGED vars PROVE UNCHANGED bm25Vars
  BY <1>6 DEF vars
<1> QED
  BY <1>1, <1>2, <1>3, <1>4, <1>5, <1>6 DEF Next

(* Every behaviour of the pipeline is one of BM25Index with the server as  *)
(* its only process: it reads and writes the index by the index's own      *)
(* operations (pipeline.ts, bm25Index.ts).                                 *)
THEOREM UsesTheIndex == Spec => Keyword!Spec
<1>1. Init => Keyword!Init
  BY DEF Init
<1> QED
  BY <1>1, KeywordNext, Invariance, PTL DEF Spec, Keyword!Spec

-----------------------------------------------------------------------------
(***************************************************************************)
(* So what is proved of the index holds of the one the pipeline feeds.     *)
(***************************************************************************)
Proved == INSTANCE BM25IndexProofs WITH
  Procs <- {Server}, Docs <- ChunkIds,
  TenantOf <- [c \in ChunkIds |-> JobTenant[c[1]]],
  MaxBatch <- MaxChunks, Faults <- TRUE

LEMMA IndexIsAssumed == IsFiniteSet(Jobs) => Proved!IndexAssumption
<1> SUFFICES ASSUME IsFiniteSet(Jobs) PROVE Proved!IndexAssumption
  OBVIOUS
<1>1. IsFiniteSet(1..MaxChunks)
  <2>1. \A n \in Nat : IsFiniteSet(1..n)
    BY FS_Interval
  <2> QED
    BY <2>1, IngestionAssumption
<1>2. IsFiniteSet(ChunkIds)
  BY <1>1, FS_Product DEF ChunkIds
<1>3. [c \in ChunkIds |-> JobTenant[c[1]]] \in [ChunkIds -> Tenants]
  BY IngestionAssumption DEF ChunkIds
<1>4. Proved!IsFiniteSet(ChunkIds)
  BY <1>2, Zenon DEF IsFiniteSet, Proved!IsFiniteSet
<1> QED
  BY <1>3, <1>4, IngestionAssumption DEF Proved!IndexAssumption

LEMMA SameInit == Keyword!Init => Proved!Init
BY DEF Keyword!Init, Keyword!Empty, Proved!Init, Proved!Empty

LEMMA SameNext == Keyword!Next => Proved!Next
BY Zenon DEF Keyword!Next, Keyword!Open, Keyword!Idle, Keyword!Ingest,
   Keyword!Upsert, Keyword!SaveBegin, Keyword!SaveEnd, Keyword!SaveFails,
   Keyword!CutShort,
   Keyword!Remove, Keyword!Reset, Keyword!Exit, Keyword!Batches,
   Keyword!NewChunks, Keyword!Writing, Keyword!Loaded, Keyword!Empty,
   Keyword!Indexed, Keyword!Removed, Keyword!Added, Keyword!Upserted,
   Keyword!Less,
   Proved!Next, Proved!Open, Proved!Idle, Proved!Ingest,
   Proved!Upsert, Proved!SaveBegin, Proved!SaveEnd, Proved!SaveFails,
   Proved!CutShort,
   Proved!Remove, Proved!Reset, Proved!Exit, Proved!Batches,
   Proved!NewChunks, Proved!Writing, Proved!Loaded, Proved!Empty,
   Proved!Indexed, Proved!Removed, Proved!Added, Proved!Upserted,
   Proved!Less

LEMMA SameProperties ==
  IsFiniteSet(Jobs) /\ Proved!Inv
    => Keyword!Bookkeeping /\ Keyword!TenantsFindTheirOwn
<1>1. Proved!Inv => Keyword!Bookkeeping
  BY Zenon DEF Proved!Inv, Proved!Bookkeeping, Proved!Exact,
     Proved!Holding, Proved!Indexed, Proved!Loaded, Proved!Empty,
     Keyword!Bookkeeping, Keyword!Exact, Keyword!Holding, Keyword!Indexed,
     Keyword!Loaded, Keyword!Empty, Keyword!Cardinality, Proved!Cardinality
<1>2. IsFiniteSet(Jobs) /\ Proved!Inv => Proved!TenantsFindTheirOwn
  BY IndexIsAssumed, Proved!InvFinds
<1>3. Proved!TenantsFindTheirOwn => Keyword!TenantsFindTheirOwn
  BY Zenon DEF Proved!TenantsFindTheirOwn, Proved!Search, Proved!Filtered,
     Proved!Cut, Proved!Orders, Proved!Matching, Proved!Holding,
     Proved!Indexed,
     Keyword!TenantsFindTheirOwn, Keyword!Search, Keyword!Filtered,
     Keyword!Cut, Keyword!Orders, Keyword!Matching, Keyword!Holding,
     Keyword!Indexed, Keyword!Cardinality, Proved!Cardinality,
     Keyword!Range, Proved!Range, Keyword!IsInjective, Proved!IsInjective
<1> QED
  BY <1>1, <1>2, <1>3

(***************************************************************************)
(* Whatever finitely many ingestions did, failed at or lost in a crash,    *)
(* the statistics of the server's index and of its snapshot are exact, and *)
(* a tenant's search for a word finds as many of the tenant's chunks with  *)
(* the word as k allows and nothing else (pipeline.ts, bm25Index.ts).      *)
(***************************************************************************)
THEOREM TenantsFindWhatIsIndexed ==
  IsFiniteSet(Jobs) /\ Spec
    => [](Keyword!Bookkeeping /\ Keyword!TenantsFindTheirOwn)
<1> DEFINE Finite == IsFiniteSet(Jobs)
           I == Finite /\ Proved!Inv
<1>1. Finite /\ Keyword!Init => I
  BY IndexIsAssumed, SameInit, Proved!InitEstablishesInv
<1>2. I /\ [Keyword!Next]_(Keyword!vars) => I'
  <2>1. UNCHANGED Keyword!vars => UNCHANGED Proved!vars
    BY DEF Keyword!vars, Proved!vars
  <2> QED
    BY <2>1, IndexIsAssumed, SameNext, Proved!NextPreservesInv
<1>3. I => Keyword!Bookkeeping /\ Keyword!TenantsFindTheirOwn
  BY SameProperties
<1>4. Spec => Keyword!Spec
  BY UsesTheIndex
<1> HIDE DEF I, Finite
<1>5. Finite /\ Spec => [](Keyword!Bookkeeping /\ Keyword!TenantsFindTheirOwn)
  BY <1>1, <1>2, <1>3, <1>4, PTL DEF Keyword!Spec
<1> QED
  BY <1>5 DEF Finite
=============================================================================
