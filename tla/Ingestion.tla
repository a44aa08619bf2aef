------------------------------ MODULE Ingestion ------------------------------
(***************************************************************************)
(* POST /api/ingest: the controller calls runIngestion                     *)
(* (src/rag/ingestion/pipeline.ts), which loads and chunks one document,   *)
(* embeds the chunks through the Redis cache, and writes them to Qdrant,   *)
(* to the keyword index and, as entities, to Postgres.  No transaction     *)
(* spans the stores, requests of several clients interleave at every       *)
(* await, and the server may die between two steps.                        *)
(*                                                                         *)
(* The keyword index is BM25Index, instantiated with the server as its     *)
(* only process.  Its step of the pipeline is synchronous: while it runs,  *)
(* no other request of the server takes a step.                            *)
(*                                                                         *)
(* A document id is a fresh UUID of the request that loads it, and a chunk *)
(* id a fresh UUID of the chunker, so a document is named by its request   *)
(* and a chunk by the document and its position.  A vector is named by the *)
(* text it embeds.                                                         *)
(***************************************************************************)
EXTENDS Integers, Sequences, FiniteSets, FiniteSetsExt, Functions

CONSTANTS
  Jobs,         \* requests
  JobTenant,    \* the tenant of a request
  Texts,        \* chunk texts
  NoText,
  Files,        \* what loading, cleaning and chunking may give
  MaxChunks,    \* bound: chunks of one document
  Names,        \* entities an extraction may name: type and surface form
  Folded,       \* the surface form of a name, trimmed and in lower case
  Extractions,  \* what the LLM may extract
  MaxCrashes,   \* bound
  Terms, TermsOf, LenOf, Tenants, TopK, NoFile, Torn  \* see BM25Index

ASSUME IngestionAssumption ==
  /\ NoText \notin Texts
  /\ JobTenant \in [Jobs -> Tenants]
  /\ MaxChunks \in Nat /\ MaxCrashes \in Nat /\ TopK \in Nat
  /\ Files \subseteq UNION {[1..n -> Texts] : n \in 0..MaxChunks}
  /\ \A x \in Extractions : x.entities \in Seq([name : Names, chunk : Nat])
  /\ TermsOf \in [Texts -> SUBSET Terms] /\ LenOf \in [Texts -> Nat]

VARIABLES
  pc,         \* what a request does next
  chunks,     \* its chunks' texts
  found,      \* the cached vectors embedBatch read
  vectors,    \* the vectors embedBatch returned
  cache,      \* Redis: text -> vector
  collection, \* whether the Qdrant collection exists
  points,     \* Qdrant: chunk -> its text and vector
  entities, mentions, relations,  \* rows in Postgres
  crashes,    \* bound
  open, index, todo, phase, disk, mixed, kept   \* BM25Index

jobVars   == <<pc, chunks, found, vectors>>
graphVars == <<entities, mentions, relations>>
bm25Vars  == <<open, index, todo, phase, disk, mixed, kept>>
vars == <<jobVars, cache, collection, points, graphVars, crashes, bm25Vars>>

Server == "server"

ChunkIds == Jobs \X (1..MaxChunks)

Keyword == INSTANCE BM25Index WITH
  Procs <- {Server}, Docs <- ChunkIds,
  TenantOf <- [c \in ChunkIds |-> JobTenant[c[1]]],
  MaxBatch <- MaxChunks, Faults <- TRUE

(* A snapshot is not one of the two values that stand for none.            *)
ASSUME SnapshotAssumption == {NoFile, Torn} \cap Keyword!Indexes = {}

ChunksOf(j) == {<<j, i>> : i \in DOMAIN chunks[j]}

(* A request's callback runs when no synchronous call is running.          *)
Runs(j, at) == pc[j] = at /\ phase[Server] = "idle"

Goto(j, next) == pc' = [pc EXCEPT ![j] = next]

(* The controller: role, permission and body are checked first.            *)
Accept(j) ==
  /\ Runs(j, "new")
  /\ Goto(j, "load") \/ Goto(j, "failed")
  /\ UNCHANGED <<chunks, found, vectors, cache, collection, points, graphVars,
                 crashes, bm25Vars>>

(* The connector reads the file or page, or fails, or has no document.     *)
Load(j) ==
  /\ Runs(j, "load")
  /\ Goto(j, "chunk") \/ Goto(j, "failed")
  /\ UNCHANGED <<chunks, found, vectors, cache, collection, points, graphVars,
                 crashes, bm25Vars>>

(* Cleaning and chunking; a document without chunks is answered at once.   *)
Chunk(j) ==
  /\ Runs(j, "chunk")
  /\ \/ Goto(j, "failed") /\ UNCHANGED chunks
     \/ \E file \in Files :
          /\ chunks' = [chunks EXCEPT ![j] = file]
          /\ Goto(j, IF file = <<>> THEN "respond" ELSE "lookup")
  /\ UNCHANGED <<found, vectors, cache, collection, points, graphVars,
                 crashes, bm25Vars>>

(* embedBatch, MGET: a failing cache is an empty one.                      *)
LookUp(j) ==
  /\ Runs(j, "lookup")
  /\ \/ found' = [found EXCEPT ![j] = [i \in DOMAIN chunks[j] |->
                                          cache[chunks[j][i]]]]
     \/ found' = [found EXCEPT ![j] = [i \in DOMAIN chunks[j] |-> NoText]]
  /\ Goto(j, "embed")
  /\ UNCHANGED <<chunks, vectors, cache, collection, points, graphVars,
                 crashes, bm25Vars>>

(***************************************************************************)
(* embedBatch, the rest: the texts the cache did not have, in order, go to *)
(* the provider, and its vectors back to the positions they came from.     *)
(***************************************************************************)
Missing(hits) == {i \in DOMAIN hits : hits[i] = NoText}

Place(S, i) == Cardinality({k \in S : k <= i})

At(S, n) == CHOOSE i \in S : Place(S, i) = n

Fresh(texts, hits) ==
  [n \in 1..Cardinality(Missing(hits)) |-> texts[At(Missing(hits), n)]]

MergedFromTheFront(hits, fresh) ==
  [i \in DOMAIN hits |-> IF i <= Len(fresh) THEN fresh[i] ELSE hits[i]]

Merged(hits, fresh) ==
  [i \in DOMAIN hits |-> IF i \in Missing(hits)
                           THEN fresh[Place(Missing(hits), i)]
                           ELSE hits[i]]

(* The cache is written by a pipeline that may be cut short, unnoticed.    *)
Embed(j) ==
  LET result == Merged(found[j], Fresh(chunks[j], found[j]))
  IN  /\ Runs(j, "embed")
      /\ \E written \in SUBSET Missing(found[j]) :
           cache' = [t \in Texts |->
             IF \E i \in written : chunks[j][i] = t
               THEN result[CHOOSE i \in written : chunks[j][i] = t]
               ELSE cache[t]]
      /\ vectors' = [vectors EXCEPT ![j] = result]
      /\ found' = [found EXCEPT ![j] = <<>>]
      /\ Goto(j, "ensure")
      /\ UNCHANGED <<chunks, collection, points, graphVars,
                     crashes, bm25Vars>>

(* The provider fails, or sends too few or too many vectors; or a cached   *)
(* value is no JSON.                                                       *)
EmbedFails(j) ==
  /\ Runs(j, "embed")
  /\ Goto(j, "failed")
  /\ UNCHANGED <<chunks, found, vectors, cache, collection, points,
                 graphVars, crashes, bm25Vars>>

(* A cached vector reaches its TTL or is evicted by Redis.                 *)
Expire(t) ==
  /\ cache[t] # NoText
  /\ cache' = [cache EXCEPT ![t] = NoText]
  /\ UNCHANGED <<jobVars, collection, points, graphVars, crashes, bm25Vars>>

(***************************************************************************)
(* ensureCollection asks whether the collection exists and then creates    *)
(* it; Qdrant refuses to create one that exists.                           *)
(***************************************************************************)
FindCollection(j) ==
  /\ Runs(j, "ensure")
  /\ \/ Goto(j, IF collection THEN "upsert" ELSE "create")
     \/ Goto(j, "failed")
  /\ UNCHANGED <<chunks, found, vectors, cache, collection, points,
                 graphVars, crashes, bm25Vars>>

CreateCollection(j) ==
  /\ Runs(j, "create")
  /\ \/ ~ collection /\ collection' = TRUE /\ Goto(j, "upsert")
     \/ collection' \in {collection, TRUE} /\ Goto(j, "failed")
  /\ UNCHANGED <<chunks, found, vectors, cache, points, graphVars,
                 crashes, bm25Vars>>

(***************************************************************************)
(* store.upsert: one request for all points.  One that fails may have      *)
(* reached the store, and the pipeline does not take it back.              *)
(***************************************************************************)
Point(j, i) == [text |-> chunks[j][i], vector |-> vectors[j][i]]

WithPoints(j, S) ==
  [c \in ChunkIds |-> IF c \in S THEN Point(j, c[2]) ELSE points[c]]

StoreUnchecked(j) ==
  /\ Runs(j, "upsert")
  /\ \E S \in SUBSET ChunksOf(j) : points' = WithPoints(j, S)
  /\ Goto(j, "index")
  /\ UNCHANGED <<chunks, found, vectors, cache, collection, graphVars,
                 crashes, bm25Vars>>

Store(j) ==
  /\ Runs(j, "upsert")
  /\ points' = WithPoints(j, ChunksOf(j))
  /\ vectors' = [vectors EXCEPT ![j] = <<>>]
  /\ Goto(j, "index")
  /\ UNCHANGED <<chunks, found, cache, collection, graphVars,
                 crashes, bm25Vars>>

StoreFailsQuietly(j) ==
  /\ Runs(j, "upsert")
  /\ \E S \in SUBSET ChunksOf(j) : points' = WithPoints(j, S)
  /\ Goto(j, "completed")
  /\ UNCHANGED <<chunks, found, vectors, cache, collection, graphVars,
                 crashes, bm25Vars>>

StoreFails(j) ==
  /\ Runs(j, "upsert")
  /\ \E S \in SUBSET ChunksOf(j) : points' = WithPoints(j, S)
  /\ Goto(j, "failed")
  /\ UNCHANGED <<chunks, found, vectors, cache, collection, graphVars,
                 crashes, bm25Vars>>

(***************************************************************************)
(* The BM25 step: getBM25Index(), upsertBatch and save, in one go.  save   *)
(* swallows its errors, and the request goes on either way.                *)
(***************************************************************************)
OpenIndex(j) ==
  /\ Runs(j, "index")
  /\ Keyword!Open(Server)
  /\ UNCHANGED <<jobVars, cache, collection, points, graphVars, crashes>>

Index(j) ==
  /\ Runs(j, "index")
  /\ Keyword!Ingest(Server, [i \in DOMAIN chunks[j] |->
                               [id |-> <<j, i>>, text |-> chunks[j][i]]])
  /\ Goto(j, "indexing")
  /\ UNCHANGED <<chunks, found, vectors, cache, collection, points,
                 graphVars, crashes>>

Indexing(j) ==
  /\ pc[j] = "indexing"
  /\ Keyword!Upsert(Server) \/ Keyword!SaveBegin(Server)
       \/ Keyword!SaveEnd(Server) \/ Keyword!SaveFails(Server)
  /\ Goto(j, IF phase'[Server] = "idle" THEN "extract" ELSE "indexing")
  /\ UNCHANGED <<chunks, found, vectors, cache, collection, points,
                 graphVars, crashes>>

(***************************************************************************)
(* extractAndStoreEntities: every name once, at the chunk the LLM gave,    *)
(* clamped to the last one.  A row that cannot be written is skipped: the  *)
(* entity with its mention, or the mention alone.  Relations then join     *)
(* what was written, by folded name; of two entities that fold to one      *)
(* name, the later is meant.                                               *)
(***************************************************************************)
Firsts(ents) ==
  {k \in DOMAIN ents : \A l \in 1..(k - 1) : ents[l].name # ents[k].name}

ChunkUnclamped(j, k) == <<j, k + 1>>

ChunkAt(j, k) ==
  <<j, IF k + 1 <= Len(chunks[j]) THEN k + 1 ELSE Len(chunks[j])>>

Ids(j, ents, S) == {<<j, ents[k].name>> : k \in S}

Resolved(j, ents, S, name) ==
  LET same == {k \in S : Folded[ents[k].name] = Folded[name]}
  IN  Ids(j, ents, {k \in same : \A l \in same : l <= k})

EdgesWithSelfLoops(j, ents, S, rels) ==
  UNION {Resolved(j, ents, S, r.from) \X Resolved(j, ents, S, r.to) :
           r \in rels}

Edges(j, ents, S, rels) ==
  UNION {{e \in Resolved(j, ents, S, r.from) \X Resolved(j, ents, S, r.to) :
            e[1] # e[2]} : r \in rels}

Extract(j) ==
  /\ Runs(j, "extract")
  /\ \E x \in Extractions :
       \E written \in SUBSET Firsts(x.entities) :
         \E seen \in SUBSET written :
           /\ entities' = entities \cup Ids(j, x.entities, written)
           /\ mentions' = mentions \cup
                {<<<<j, x.entities[k].name>>,
                   ChunkAt(j, x.entities[k].chunk)>> : k \in seen}
           /\ \E E \in SUBSET Edges(j, x.entities, written, x.relations) :
                relations' = relations \cup E
  /\ Goto(j, "respond")
  /\ UNCHANGED <<chunks, found, vectors, cache, collection, points,
                 crashes, bm25Vars>>

(* The LLM or the database is down: nothing is written.                    *)
ExtractFails(j) ==
  /\ Runs(j, "extract")
  /\ Goto(j, "respond")
  /\ UNCHANGED <<chunks, found, vectors, cache, collection, points,
                 graphVars, crashes, bm25Vars>>

Respond(j) ==
  /\ Runs(j, "respond")
  /\ Goto(j, "completed")
  /\ UNCHANGED <<chunks, found, vectors, cache, collection, points,
                 graphVars, crashes, bm25Vars>>

(* The server dies and starts again; its requests get no answer.           *)
Crash ==
  /\ crashes < MaxCrashes
  /\ crashes' = crashes + 1
  /\ pc' = [j \in Jobs |-> IF pc[j] \in {"new", "completed", "failed"}
                             THEN pc[j] ELSE "lost"]
  /\ IF Server \in open THEN Keyword!Exit(Server)
                        ELSE UNCHANGED bm25Vars
  /\ UNCHANGED <<chunks, found, vectors, cache, collection, points,
                 graphVars>>

Init ==
  /\ pc = [j \in Jobs |-> "new"]
  /\ chunks = [j \in Jobs |-> <<>>]
  /\ found = [j \in Jobs |-> <<>>]
  /\ vectors = [j \in Jobs |-> <<>>]
  /\ cache = [t \in Texts |-> NoText]
  /\ collection = FALSE
  /\ points = [c \in ChunkIds |-> [text |-> NoText, vector |-> NoText]]
  /\ entities = {} /\ mentions = {} /\ relations = {}
  /\ crashes = 0
  /\ Keyword!Init

Next ==
  \/ \E j \in Jobs :
       \/ Accept(j) \/ Load(j) \/ Chunk(j)
       \/ LookUp(j) \/ Embed(j) \/ EmbedFails(j)
       \/ FindCollection(j) \/ CreateCollection(j) \/ Store(j) \/ StoreFails(j)
       \/ OpenIndex(j) \/ Index(j) \/ Indexing(j)
       \/ Extract(j) \/ ExtractFails(j) \/ Respond(j)
  \/ \E t \in Texts : Expire(t)
  \/ Crash

Spec == Init /\ [][Next]_vars
-----------------------------------------------------------------------------
Steps == {"new", "load", "chunk", "lookup", "embed", "ensure", "create",
          "upsert", "index", "indexing", "extract", "respond", "completed",
          "failed", "lost"}

TextSeqs == UNION {[1..n -> Texts \cup {NoText}] : n \in 0..MaxChunks}

TypeOK ==
  /\ pc \in [Jobs -> Steps]
  /\ chunks \in [Jobs -> TextSeqs]
  /\ found \in [Jobs -> TextSeqs]
  /\ vectors \in [Jobs -> TextSeqs]
  /\ cache \in [Texts -> Texts \cup {NoText}]
  /\ collection \in BOOLEAN
  /\ points \in [ChunkIds -> [text   : Texts \cup {NoText},
                              vector : Texts \cup {NoText}]]
  /\ entities \subseteq Jobs \X Names
  /\ mentions \subseteq (Jobs \X Names) \X ChunkIds
  /\ relations \subseteq (Jobs \X Names) \X (Jobs \X Names)
  /\ crashes \in 0..MaxCrashes
  /\ Keyword!TypeOK

Stored(c) == points[c].text # NoText

(* The chunks keyword search may return, now or after a restart.           *)
InKeyword(c) ==
  \/ c \in Keyword!Indexed(index[Server])
  \/ c \in Keyword!Indexed(Keyword!Loaded(disk))

(***************************************************************************)
(* A chunk is stored with the vector of its own text, although its batch   *)
(* was put together from cached and fresh vectors while other requests     *)
(* filled the cache and entries expired (cache.ts, embedBatch).            *)
(***************************************************************************)
VectorsMatchTexts ==
  /\ \A c \in ChunkIds : points[c].vector = points[c].text
  /\ \A t \in Texts : cache[t] \in {t, NoText}

(***************************************************************************)
(* What keyword search finds, vector search finds too, with the same text: *)
(* after failures of either store and after a restart.                     *)
(***************************************************************************)
KeywordIsStored ==
  \A c \in ChunkIds :
    /\ c \in Keyword!Indexed(index[Server]) =>
         index[Server].docs[c] = points[c].text
    /\ c \in Keyword!Indexed(Keyword!Loaded(disk)) =>
         disk.docs[c] = points[c].text

(***************************************************************************)
(* "completed" means that all chunks of the document are in Qdrant and, as *)
(* long as the server lives, in its keyword index, whether or not the      *)
(* snapshot could be written.  An ingestion that fails leaves at most      *)
(* points behind: no chunk in the keyword index and no entity.             *)
(***************************************************************************)
OutcomesAreTrue ==
  \A j \in Jobs :
    /\ pc[j] = "completed" =>
         \A i \in DOMAIN chunks[j] :
           /\ points[<<j, i>>].text = chunks[j][i]
           /\ crashes = 0 => index[Server].docs[<<j, i>>] = chunks[j][i]
    /\ pc[j] = "failed" =>
         /\ \A c \in ChunksOf(j) : ~ InKeyword(c)
         /\ \A e \in entities : e[1] # j

(***************************************************************************)
(* The knowledge graph refers to what exists: a mention to an entity row   *)
(* and to a stored chunk of the same document, a relation to two different *)
(* entity rows of one document; also where the LLM named a chunk that does *)
(* not exist or spelled a name in two ways, and where rows were skipped.   *)
(***************************************************************************)
GraphIsGrounded ==
  /\ \A m \in mentions :
       m[1] \in entities /\ Stored(m[2]) /\ m[1][1] = m[2][1]
  /\ \A r \in relations :
       /\ r[1] \in entities /\ r[2] \in entities
       /\ r[1] # r[2] /\ r[1][1] = r[2][1]

(* An index that is not dirty is what a restart loads (see BM25Index).     *)
CleanIsPersisted == Keyword!CleanIsPersisted
=============================================================================
