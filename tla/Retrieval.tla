------------------------------ MODULE Retrieval ------------------------------
(***************************************************************************)
(* What a query or a search retrieves: the vector, keyword and hybrid      *)
(* retrievers, the retrieve node of the query graph with its filter by     *)
(* document permissions, POST /api/search, and the knowledge-graph         *)
(* retriever that the factory offers beside them.  While a request waits   *)
(* for an embedding or for a store, ingestions add chunks to the stores    *)
(* and permissions are granted and revoked.                                *)
(*                                                                         *)
(* Requests share nothing but the stores, so the module follows one at a   *)
(* time.  A similarity or BM25 score is abstracted to the place it gives a *)
(* chunk: a request brings the order in which each store ranks the chunks. *)
(***************************************************************************)
EXTENDS Integers, Sequences, FiniteSets, Functions

CONSTANTS
  Chunks,
  DocOf, TenantOf,    \* a chunk's document and tenant
  None,               \* no tenant, no user
  Permissions,        \* possible rows: [user, doc, tenant]
  Inputs,             \* what requests may bring
  Matched,            \* entities whose name has a token of the query
  EntityTenant, Mentions,  \* rows in Postgres: entities with their tenant,
                           \* <<entity, chunk>>
  TopN,               \* topNEntities
  RrfK

(***************************************************************************)
(* An input has the api it calls (the walk is a retriever of its own and   *)
(* no leg of the hybrid one), the user (id, tenant, admin) or None, the    *)
(* filters (of a search, or of the understanding of a query, in which the  *)
(* node understand puts none), topK, whether hybrid search is on and a     *)
(* tenant context visible, and the order in which the stores rank the      *)
(* chunks: all of them by similarity, those with a word of the query by    *)
(* BM25.                                                                   *)
(***************************************************************************)
ASSUME RetrievalAssumption ==
  /\ RrfK \in Nat /\ TopN \in Nat
  /\ \A in \in Inputs :
       /\ in.topK \in Nat /\ in.hybrid \in BOOLEAN /\ in.context \in BOOLEAN
       /\ in.api \in {"query", "search", "kg"}
       /\ in.api = "kg" => ~ in.hybrid
       /\ in.nearest \in Seq(Chunks) /\ in.relevant \in Seq(Chunks)
       /\ IsInjective(in.nearest) /\ IsInjective(in.relevant)
       /\ Range(in.nearest) = Chunks

(***************************************************************************)
(* kgExtractor, the only writer of both tables, gives an entity the tenant *)
(* of its document and creates one mention of it, in a chunk of that       *)
(* document; documents and chunks have fresh ids, so no row comes twice.   *)
(***************************************************************************)
ASSUME MentionsAssumption ==
  /\ Matched \subseteq DOMAIN EntityTenant
  /\ Mentions \in Seq((DOMAIN EntityTenant) \X Chunks)
  /\ IsInjective(Mentions)
  /\ \A i \in DOMAIN Mentions :
       EntityTenant[Mentions[i][1]] = TenantOf[Mentions[i][2]]

VARIABLES
  stored,   \* chunks in Qdrant
  indexed,  \* chunks in the BM25 index of this process
  rows,     \* document_permissions with canRead
  pc, input,
  keyword, vector,  \* what the two legs found
  hits,     \* what the retriever returned
  chosen,   \* entities the knowledge-graph retriever kept
  allowed,  \* documents the user may read, by the rows that were read
  answer,
  lately    \* history: rows that held at some moment since the hits were found

stores == <<stored, indexed, rows>>
search == <<pc, input, keyword, vector, hits, chosen, allowed, answer>>
vars == <<stores, search, lately>>

Place(s, c) == CHOOSE i \in DOMAIN s : s[i] = c

(* The elements of S in the order of the pairs R, which order S strictly.  *)
Ranked(S, R) ==
  [i \in 1..Cardinality(S) |->
     CHOOSE c \in S : Cardinality({d \in S : <<d, c>> \in R}) = i - 1]

Along(s, S) == Ranked(S, {p \in S \X S : Place(s, p[1]) < Place(s, p[2])})

Take(k, s) == SubSeq(s, 1, IF k < Len(s) THEN k ELSE Len(s))

-----------------------------------------------------------------------------
(* A filter maps payload fields to the values they must have.  toPoint     *)
(* writes the tenant to both fields.                                       *)
Payload(c) == [f \in {"metadata.tenantId", "tenantId", "documentId"} |->
                 IF f = "documentId" THEN DocOf[c] ELSE TenantOf[c]]

Matching(S, filter) ==
  {c \in S : \A f \in DOMAIN filter : Payload(c)[f] = filter[f]}

TenantFilter(in) ==
  IF in.user = None \/ in.user.tenant = None
    THEN <<>>
    ELSE [f \in {"metadata.tenantId"} |-> in.user.tenant]

OptionsWithoutTenant(in) == in.filters

Options(in) == IF in.api = "query" THEN TenantFilter(in) ELSE in.filters

(* mergeFilters: the options' filter overrides that of the understanding.  *)
Over(f, g) == [x \in DOMAIN f \cup DOMAIN g |->
                 IF x \in DOMAIN f THEN f[x] ELSE g[x]]

Merged(in) == Over(Options(in), in.filters)

(* assertTenantFilter: without a tenant context anything goes.  Whether the *)
(* middleware's context reaches the retrievers is the runtime's choice.    *)
Refused(in, value) == in.context /\ value = None

NearestCutFirst(in, filter) ==
  Along(in.nearest, Matching({c \in stored :
          Place(Along(in.nearest, stored), c) <= in.topK}, filter))

Nearest(in, filter) ==
  Take(in.topK, Along(in.nearest, Matching(stored, filter)))

(* The keyword leg looks at the field tenantId only.                       *)
KeywordTenant(in) ==
  IF "tenantId" \in DOMAIN Options(in) THEN Options(in)["tenantId"] ELSE None

BestByKeyword(in) ==
  Take(in.topK, Along(in.relevant,
    {c \in indexed \cap Range(in.relevant) :
       KeywordTenant(in) \in {None, TenantOf[c]}}))

(***************************************************************************)
(* Reciprocal rank fusion, in exact fractions.  Ties keep the order of the *)
(* map's keys: the vector leg's chunks, then the others.                   *)
(***************************************************************************)
Numerator(vec, kw, c) ==
  CASE c \notin Range(kw)  -> 1
    [] c \notin Range(vec) -> 1
    [] OTHER               -> 2 * RrfK + Place(vec, c) + Place(kw, c)

Denominator(vec, kw, c) ==
  (IF c \in Range(vec) THEN RrfK + Place(vec, c) ELSE 1)
    * (IF c \in Range(kw) THEN RrfK + Place(kw, c) ELSE 1)

Key(vec, kw, c) ==
  IF c \in Range(vec) THEN Place(vec, c) ELSE Len(vec) + Place(kw, c)

FusedOneAfterTheOther(vec, kw) == vec \o kw

FusedByBestRank(vec, kw) ==
  LET S == Range(vec) \cup Range(kw)
      best(x) == IF x \in Range(vec) THEN Place(vec, x) ELSE Place(kw, x)
  IN  Ranked(S, {p \in S \X S :
        \/ best(p[1]) < best(p[2])
        \/ /\ best(p[1]) = best(p[2])
           /\ Key(vec, kw, p[1]) < Key(vec, kw, p[2])})

(* c's score is higher than d's, or the same and its key comes first.      *)
Ahead(vec, kw, c, d) ==
  LET left  == Numerator(vec, kw, c) * Denominator(vec, kw, d)
      right == Numerator(vec, kw, d) * Denominator(vec, kw, c)
  IN  \/ left > right
      \/ left = right /\ Key(vec, kw, c) < Key(vec, kw, d)

Fused(vec, kw) ==
  LET S == Range(vec) \cup Range(kw)
  IN  Ranked(S, {p \in S \X S : Ahead(vec, kw, p[1], p[2])})

-----------------------------------------------------------------------------
Direct(in) == in.api = "query" /\ ~ in.hybrid /\ TenantFilter(in) # <<>>

(* The node starts.  Of the two legs of a hybrid search, the keyword leg   *)
(* runs to its end before the vector leg's embedding is there.             *)
Start ==
  LET refused == input.hybrid /\ Refused(input, KeywordTenant(input))
  IN  /\ pc = "idle"
      /\ keyword' = IF input.hybrid /\ ~ refused
                      THEN BestByKeyword(input) ELSE <<>>
      /\ pc' = CASE input.api = "kg" -> "walk"
                 [] Direct(input)    -> "direct"
                 [] refused          -> "failed"
                 [] OTHER            -> "vector"
      /\ UNCHANGED <<stores, input, vector, hits, chosen, allowed, answer, lately>>

Retrieved(chunks) ==
  /\ hits' = chunks
  /\ IF input.api = "query" /\ input.user # None /\ ~ input.user.admin
       THEN answer' = answer /\ lately' = rows /\ pc' = "permissions"
       ELSE /\ answer' = IF input.api = "query" /\ input.user = None
                           THEN <<>> ELSE chunks
            /\ lately' = lately /\ pc' = "done"

(* The direct search of a tenant's query; it falls back to the retriever.  *)
SearchDirectly ==
  /\ pc = "direct"
  /\ \/ vector' = Nearest(input, TenantFilter(input)) /\ Retrieved(vector')
     \/ pc' = "vector" /\ UNCHANGED <<vector, hits, answer, lately>>
  /\ UNCHANGED <<stores, input, keyword, chosen, allowed>>

SearchVectors ==
  /\ pc = "vector"
  /\ Merged(input) = <<>> => ~ Refused(input, None)
  /\ vector' = Nearest(input, Merged(input))
  /\ Retrieved(IF input.hybrid
                 THEN Take(input.topK, Fused(vector', keyword)) ELSE vector')
  /\ UNCHANGED <<stores, input, keyword, chosen, allowed>>

(* The guard refuses, or the provider or the store fails.                  *)
SearchFails ==
  /\ pc = "vector"
  /\ pc' = "failed"
  /\ UNCHANGED <<stores, input, keyword, vector, hits, chosen, allowed,
                 answer, lately>>

(***************************************************************************)
(* filterChunksForUser reads the rows of the user; rows that cannot be     *)
(* read are no rows.                                                       *)
(***************************************************************************)
Allowed(user) ==
  {row.doc : row \in {r \in rows : r.user = user.id
                        /\ user.tenant \in {None, r.tenant}}}

ReadPermissionsFailingOpen ==
  /\ pc = "permissions"
  /\ allowed' \in {Allowed(input.user), {DocOf[c] : c \in Chunks}}
  /\ pc' = "filter"
  /\ UNCHANGED <<stores, input, keyword, vector, hits, chosen, answer, lately>>

ReadPermissions ==
  /\ pc = "permissions"
  /\ allowed' \in {Allowed(input.user), {}}
  /\ pc' = "filter"
  /\ UNCHANGED <<stores, input, keyword, vector, hits, chosen, answer, lately>>

(***************************************************************************)
(* By the time they are there, and by the time the node returns, which     *)
(* reads the rows again but only to count them, they may have changed.     *)
(***************************************************************************)
Visible(user, docs) ==
  {c \in Range(hits) : DocOf[c] \in docs
     /\ (user.tenant = None \/ TenantOf[c] \in {None, user.tenant})}

Filter ==
  /\ pc = "filter"
  /\ answer' = Along(hits, Visible(input.user, allowed))
  /\ allowed' = {}
  /\ pc' = "done"
  /\ UNCHANGED <<stores, input, keyword, vector, hits, chosen, lately>>

(***************************************************************************)
(* The knowledge-graph retriever: of the entities the query names, those   *)
(* with most mentions; of the chunks that mention them, those with the     *)
(* highest score: two for every entity, and one for every mention.         *)
(***************************************************************************)
Candidates(in) ==
  {e \in Matched : KeywordTenant(in) \in {None, EntityTenant[e]}}

Count(e) == Cardinality({i \in DOMAIN Mentions : Mentions[i][1] = e})

TopEntities(S) ==
  {T \in SUBSET S :
     /\ Cardinality(T) = IF TopN < Cardinality(S) THEN TopN ELSE Cardinality(S)
     /\ \A e \in T, f \in S \ T : Count(e) >= Count(f)}

Of(T) == {i \in DOMAIN Mentions : Mentions[i][1] \in T}

Entities(T, c) == {Mentions[i][1] : i \in {j \in Of(T) : Mentions[j][2] = c}}

ScoreNotAdded(T, c) == 3

Score(T, c) ==
  2 * Cardinality(Entities(T, c))
    + Cardinality({i \in Of(T) : Mentions[i][2] = c})

FirstMention(T, c) ==
  CHOOSE i \in Of(T) : /\ Mentions[i][2] = c
                       /\ \A j \in Of(T) : Mentions[j][2] = c => i <= j

Mentioning(T) == {Mentions[i][2] : i \in Of(T)}

ByScore(T) ==
  Ranked(Mentioning(T), {p \in Mentioning(T) \X Mentioning(T) :
    \/ Score(T, p[1]) > Score(T, p[2])
    \/ /\ Score(T, p[1]) = Score(T, p[2])
       /\ FirstMention(T, p[1]) < FirstMention(T, p[2])})

Walk ==
  /\ pc = "walk"
  /\ chosen' \in TopEntities(Candidates(input))
  /\ hits' = Take(input.topK, ByScore(chosen'))
  /\ answer' = hits'
  /\ pc' = "done"
  /\ UNCHANGED <<stores, input, keyword, vector, allowed, lately>>

WalkFails ==
  /\ pc = "walk"
  /\ pc' = "failed"
  /\ UNCHANGED <<stores, input, keyword, vector, hits, chosen, allowed,
                 answer, lately>>

(* Ingestion stores a chunk, then indexes it (see Ingestion).              *)
Upsert(c) ==
  /\ c \notin stored
  /\ stored' = stored \cup {c}
  /\ UNCHANGED <<indexed, rows, search, lately>>

Index(c) ==
  /\ c \in stored \ indexed
  /\ indexed' = indexed \cup {c}
  /\ UNCHANGED <<stored, rows, search, lately>>

Grant(row) ==
  /\ rows' = rows \cup {row}
  /\ lately' = IF pc \in {"permissions", "filter"} THEN lately \cup {row}
                                                  ELSE lately
  /\ UNCHANGED <<stored, indexed, search>>

Revoke(row) ==
  /\ rows' = rows \ {row}
  /\ UNCHANGED <<stored, indexed, search, lately>>

Init ==
  /\ stored = {} /\ indexed = {} /\ rows = {}
  /\ pc = "idle"
  /\ input \in Inputs
  /\ keyword = <<>> /\ vector = <<>> /\ hits = <<>>
  /\ chosen = {} /\ allowed = {} /\ answer = <<>> /\ lately = {}

Next ==
  \/ Start \/ SearchDirectly \/ SearchVectors \/ SearchFails
  \/ ReadPermissions \/ Filter \/ Walk \/ WalkFails
  \/ \E c \in Chunks : Upsert(c) \/ Index(c)
  \/ \E row \in Permissions : Grant(row) \/ Revoke(row)

Spec == Init /\ [][Next]_vars
-----------------------------------------------------------------------------
(* At most topK different chunks: what the query graph expects (Hits).     *)
IsResult(s) ==
  /\ s \in [1..Len(s) -> Chunks] /\ Len(s) <= input.topK
  /\ IsInjective(s)

TypeOK ==
  /\ indexed \subseteq stored /\ stored \subseteq Chunks
  /\ rows \subseteq Permissions /\ lately \subseteq Permissions
  /\ pc \in {"idle", "direct", "vector", "permissions", "filter", "walk",
            "done", "failed"}
  /\ input \in Inputs
  /\ IsResult(keyword) /\ IsResult(vector) /\ IsResult(hits) /\ IsResult(answer)
  /\ chosen \subseteq Matched
  /\ allowed \subseteq {row.doc : row \in Permissions}

(***************************************************************************)
(* Fusion rewards agreement: a chunk that both legs found comes before     *)
(* every chunk that only one of them found, and, of two that both found,   *)
(* one that is first in both legs is first (hybrid.ts,                     *)
(* reciprocalRankFusion).  That needs a topK of at most RrfK + 1.          *)
(***************************************************************************)
AgreementWins ==
  pc \in {"permissions", "filter", "done"} /\ input.hybrid /\ input.topK <= RrfK + 1 =>
    LET both == Range(vector) \cap Range(keyword)
        First(c, d) == d \in Range(hits) =>
                         c \in Range(hits) /\ Place(hits, c) < Place(hits, d)
    IN  /\ \A c \in both, d \in Range(hits) \ both : First(c, d)
        /\ \A c, d \in both :
             Place(vector, c) < Place(vector, d)
               /\ Place(keyword, c) < Place(keyword, d) => First(c, d)

NearerOnly(c) ==
  /\ Len(vector') = input.topK
  /\ \A d \in Range(vector') : Place(input.nearest, d) < Place(input.nearest, c)

(***************************************************************************)
(* No chunk outside the filter takes a place of one inside it: a chunk     *)
(* that matches is found unless topK nearer ones match too (vector.ts and  *)
(* retrieve.ts, whose filter is applied by the store, before the limit).   *)
(***************************************************************************)
NothingDisplaced ==
  [][(pc \in {"direct", "vector"} /\ pc' \in {"permissions", "done"}) =>
       LET filter == IF pc = "direct" THEN TenantFilter(input) ELSE Merged(input)
       IN  \A c \in Matching(stored, filter) :
             c \in Range(vector') \/ NearerOnly(c)]_vars

(***************************************************************************)
(* What is asked of one tenant is answered from it: a query that searches  *)
(* vectors, directly or with the shared retriever after the direct search  *)
(* failed; a search or a walk that names its tenant; and every answer to a *)
(* user who is no administrator (retrieve.ts, runTenantScopedOrRetriever). *)
(***************************************************************************)
ScopedAnswersAreOwn ==
  pc = "done" => \A c \in Range(answer) :
    /\ TenantFilter(input) # <<>> /\ input.api = "query" /\ ~ input.hybrid =>
         TenantOf[c] = input.user.tenant
    /\ KeywordTenant(input) \in {None, TenantOf[c]}
    /\ TenantFilter(input) # <<>> /\ input.api = "query" /\ ~ input.user.admin =>
         TenantOf[c] \in {None, input.user.tenant}

MayHaveRead(user, doc) ==
  \E row \in lately : row.user = user.id /\ row.doc = doc
                       /\ user.tenant \in {None, row.tenant}

(***************************************************************************)
(* A query answers nobody with nothing, and a user who is no administrator *)
(* with documents each of which he could read at some moment after the     *)
(* stores had been searched, although permissions are granted and revoked  *)
(* all the time and although the database may be down.  What is revoked    *)
(* between the read of the permissions and the answer is still in it.      *)
(***************************************************************************)
AnswersAreReadable ==
  pc = "done" /\ input.api = "query" =>
    IF input.user = None
      THEN answer = <<>>
      ELSE \/ input.user.admin
           \/ \A c \in Range(answer) : MayHaveRead(input.user, DocOf[c])

(***************************************************************************)
(* The knowledge graph ranks a chunk that more of the kept entities        *)
(* mention first; the store lists rows in any order                        *)
(* (knowledgeGraph.ts: "distinct entities matched (primary)").             *)
(***************************************************************************)
WalkRanksByEntities ==
  pc = "done" /\ input.api = "kg" =>
    \A d \in Range(answer), c \in Mentioning(chosen) :
      Cardinality(Entities(chosen, c)) > Cardinality(Entities(chosen, d)) =>
        c \in Range(answer) /\ Place(answer, c) < Place(answer, d)
=============================================================================
