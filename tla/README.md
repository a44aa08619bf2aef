# TLA+ verification of polyrag

polyrag is a multi-tenant RAG service in TypeScript: a Fastify API, a LangGraph
query agent with per-session checkpoints, hybrid retrieval over Qdrant and an
in-process BM25 index, an ingestion pipeline, and Redis and Postgres around
them. This directory holds TLA+ modules translated from the code under `src/`,
TLC configurations that check them on small instances, and proofs that TLAPS
checks for every value of the constants. `PROJECT.json` maps each definition to
the lines it stands for.

Contents: [1 Inventory](#1-inventory) ·
[2 The modules](#2-the-modules) · [3 The runs](#3-the-runs) ·
[4 What the code does and its docs do not say](#4-where-code-and-documentation-disagree) ·
[5 The proofs](#5-the-proofs) · [6 Not modelled](#6-not-modelled) ·
[7 Plan](#7-plan)

How to run, in this directory:

    tlc -workers 2 -config overlap.cfg MCQueryGraph.tla
    tlapm QueryGraphProofs.tla

Every run ends within three minutes on two workers; a module of proofs takes one
to five minutes from nothing.

## 1 Inventory

Paths are relative to `src/`; modules without a row of their own are not
modelled (section 6).

| Component | State | Operations | Talks to | Module |
|---|---|---|---|---|
| Query agent, `agents/query`, `query.service.ts` | graph channels per run; latest checkpoint per session (`platform/memory/session.ts`) | the six nodes, `runQuery`, `streamQuery` | retrieval, reranker, context builder, LLM, checkpointer | `QueryGraph` |
| Context builder, `rag/context/builder.ts` | none | `build` = dedupe, sort, pack | called by the agent | `ContextBuilder` |
| Rerankers, `rag/reranking` | cache of instances | `rerank` | LLM | in `QueryGraph` |
| BM25 index, `rag/retrieval/bm25Index.ts` | index in memory per process, one snapshot file per host | upsert, remove, search, save, load, reset | ingestion writes it, keyword retrieval reads it | `BM25Index` |
| Retrieval, `rag/retrieval`, `agents/query/nodes/retrieve.ts`, `search.service.ts` | none (clients) | vector, keyword, hybrid (rank fusion), knowledge graph, permission filter | Qdrant, BM25, Postgres | `Retrieval` |
| Document permissions, `documentPerms.ts` | rows in Postgres | allowed documents, chunk filter | retrieve node | `Retrieval` |
| Ingestion, `rag/ingestion/pipeline.ts`, `kgExtractor.ts`, `ingest.*.ts` | chunks in Qdrant and BM25, entity tables | `runIngestion` | all stores | `Ingestion` |
| Embedding cache, `rag/embeddings/cache.ts` | Redis keys | `embed`, `embedBatch` | Redis, OpenAI | `Ingestion` |
| Rate limiter, `platform/security/rateLimit.ts` | two Redis counters per minute | `check` in a preHandler, `consume` in the controller | Redis | `RateLimit` |
| Metering and billing, `metering.ts`, `billing.service.ts` | usage rows | `record`, sums of the month | Postgres | `Usage` |
| Tenant configuration, `platform/tenancy` | rows and versions in Postgres, cache per process | `getEffectiveConfig`, `updateConfig`, `invalidate`, `resolveNodeConfig` | every request | `TenantConfig` |
| OAuth2 login, `oauth2*.ts` | state cookie, user rows | login, callback, find or create | providers, Postgres | `Access` |
| Users, roles, tokens, `rbac.ts`, `auth.ts`, `adminTenants.*.ts` | user, role and tenant rows | `verifyAuth`, permissions, assignments | Postgres | `Access` |
| Reindex approval, `reindex.*.ts` | map of pending requests in memory | request, approve, reject | Qdrant | `Access` |
| Research agent, `agents/research` | channels with reducers | planner, parallel searchers, synthesizer | retrieval, LLM | `ResearchGraph` |
| Evaluation harness, `platform/evaluation` | none | metrics, judge, means | the query path | `Evaluation` |
| Server, session history, connectors, chunking, store clients | wiring, or none | | | |

What is hard about them:

* **Sessions.** A request names its session; nothing keeps two requests of one
  session apart. Each run holds channels of its own and stores them as the
  session's checkpoint after every node. Reducers append to `retrievedChunks`,
  `sources` and `messages`, so state of earlier turns stays in sight. A node
  may throw, the process may die, between any two checkpoints.
* **The keyword index.** Statistics are maintained incrementally; the snapshot
  is shared by processes that do not know of each other and is rewritten in
  place.
* **Ingestion.** Four stores without a transaction; a batch of embeddings put
  together from cached and fresh vectors; an LLM that names chunks and entities
  as it likes; a check and a creation of the collection that may race.
* **Retrieval.** Three tenant filters in three places (store, keyword leg,
  permission filter), fallbacks that change which of them apply, and a read of
  permissions that the answer waits for while they are granted and revoked.
* **The rate limiter and metering.** The check, the debit and the usage record
  are steps apart, with other requests, the turn of the minute and of the
  month, and failures of Redis and Postgres in between.
* **Configuration.** A cache per process without a common invalidation, a
  version read in one statement and written in another.
* **Logins and approvals.** A browser has one state cookie for all its logins;
  the user row is read before it is saved; approvals live in one process.

What makes each component correct is stated by the properties of section 3.

## 2 The modules

| Module | Models | Kind |
|---|---|---|
| `ContextBuilder` | `rag/context/builder.ts`, `dedupeSources` | declarative operators |
| `ContextBuilderLoops` | the same code as its loops | folds, checked and proved to agree with the operators |
| `QueryGraph` | `agents/query`, `query.service.ts`, `session.ts` | state machine, extends `ContextBuilder` |
| `Conversation` | what a session promises its client | abstract specification, implemented by `QueryGraph` |
| `BM25Index` | `rag/retrieval/bm25Index.ts`, the BM25 step of `pipeline.ts` | state machine |
| `Ingestion` | `pipeline.ts`, `kgExtractor.ts`, `embeddings/cache.ts`, `qdrant.ts` | state machine, instantiates `BM25Index` |
| `Retrieval` | `rag/retrieval`, the retrieve node, `documentPerms.ts` | state machine |
| `RateLimit` | `rateLimit.ts`, its middleware, `query.controller.ts` | state machine |
| `Usage` | `metering.ts`, `billing.service.ts` | state machine, extends `RateLimit` and implements it |
| `TenantConfig` | `platform/tenancy`, `_config.ts`, `adminConfig.controller.ts` | state machine |
| `Access` | `oauth2*.ts`, `auth.ts`, `rbac.ts`, `adminTenants.*.ts`, `reindex.*.ts` | state machine |
| `ResearchGraph` | `agents/research` | state machine |
| `Evaluation` | `platform/evaluation` | state machine, extends `ContextBuilder` |
| `QueryGraphProofs` | theorems about `ContextBuilder`, its loops, `QueryGraph` and `Conversation` | TLAPS |
| `BM25IndexProofs`, `IngestionProofs`, `RetrievalProofs`, `TenantConfigProofs`, `AccessProofs` | theorems about the module they are named after | TLAPS |
| `RateLimitProofs` | theorems about `RateLimit` and `Usage` | TLAPS |
| `CountingProofs` | lemmas about sums, orders and finite sets that the others cite | TLAPS |
| `MC*` | constants for TLC | |

Definitions such as `InputUnwritten` or `SearchCutsFirst` stand next to an
operation and repeat it with a plausible bug. No specification uses them; they
are kept to show, for every checked property, an error that the property
notices (`mutants` in `PROJECT.json`).

### ContextBuilder

A chunk is its id; the input of `build` is a sequence of ids with a score for
each position, because copies of a chunk may differ in score. The context is
the sequence of ids in marker order. `Firsts` and `BestScore` say what the
`Map` of `dedupe` ends up with, `Arrange` is the stable sort, and `Packed` is
the set of positions the greedy loop admits, described by `Packing`: a position
is in the set exactly if it is admitted after the positions before it. That
form says what the context is; `ContextBuilderLoops` says how the code gets it.
There every for-statement is a fold whose step is the body of the loop (`Put`,
`Insert`, `PackEntry`, `KeepFirst`), over entries that carry a chunk and its
score. The run `context_loops` shows on all small inputs, and the theorems
`LoopsBuild` and `LoopsAgree` for every input, that the two agree.

### QueryGraph

A *turn* is one `POST /api/query`. Variables: `checkpoint[s]`, the latest
checkpoint of session `s`; `chan[t]`, the channels of the run of turn `t`;
`pc[t]`, the node it runs next; `reply[t]`, the state its response is built
from. Actions:

* `Accept`: `graph.invoke` or `graph.stream` loads the latest checkpoint and
  writes the input into it.
* `Understand`, `Retrieve`, `Rerank`, `BuildContext`, `Generate`, `Evaluate`:
  one superstep each. The node's update goes through the reducers into the
  run's own channels, which become the session's latest checkpoint.
* `Respond`: `runQuery` answers from its final channels. `streamQuery` calls
  `getState`, which is `checkpoint[s]`.
* `Fail`: a node throws, or a stream cannot read the session's state at its end
  (`query.service.ts:172`). `evaluate` catches its errors, which is the second
  disjunct of `Evaluate`: it writes `evaluated: false` and leaves the verdict of
  an earlier turn where it is (`Unjudged`).
* `Crash`: all runs are lost; with a `MemorySaver` the checkpoints are too.

Abstractions: a query, its answer and its evaluation are named by the turn;
sources are chunk ids; what retrieval and the permission filter leave is any
sequence of at most `TopK` distinct chunks; a reranker returns any ranking of
`rerankTopK` of its chunks; no retrieved chunk carries `metadata.score`, so
`scoreOf` is 0 throughout. LangGraph's checkpointing is external and modelled
from how the code uses it.

### BM25Index

Per process: whether the singleton exists (`open`), the fields of the class
(`index`), the rest of a running `upsertBatch` (`todo`) and the `phase`. Node
runs a synchronous call to its end, so within a process calls do not
interleave, but the processes do, and a kill may come between two system calls.
`writeFileSync` truncates and then writes: `SaveBegin` leaves the file `Torn`,
`SaveEnd` completes it; if two processes had it open at the same time the
result may be a mix (`mixed`), and so may what a write leaves behind that is cut
short (`CutShort`). `kept` is a history variable: the chunks that a
completed save stored and nobody removed. Scores are abstracted to whether a
chunk's score is positive, which depends on the statistics (`df <= N`), and
their order is left open.

### RateLimit

`userCount` and `tenantCount` are the Redis counters, by owner and minute.
`Arrive`, `ReadUser`, `ReadTenant` are the check, `Consume` the debit, which
computes the minute anew; `CheckFails` and `ConsumeFails` are Redis errors
(fail open); `Reject` is a controller that refuses the request before the debit
(invalid body, no user), `Finish` the query; `Tick` turns the minute. `waved`
is a history variable: the requests a failed check let through.

### Usage

Extends the limiter with the two variables of metering: `tokens[r]`, the insert
that request `r` has started and nobody awaits, and `events`, the sums of the
table by tenant and month. `Answer` is the limiter's `Finish` together with
`record`, which runs only if the graph returned; `Insert` and `Drop` are the
database. An insert is dated when it runs, so `MonthOf` maps minutes to months
and the turn of a month may come between a query and its row.

### Ingestion

A *job* is one `POST /api/ingest`; `pc[j]` is the step of `runIngestion` it is
at, `chunks`, `found` and `vectors` its local values. Redis is `cache`, Qdrant
`collection` and `points`, Postgres `entities`, `mentions` and `relations`. Each
external call is an action with a failing alternative, and a write that fails
may have taken effect (`StoreFails` leaves any part of the points behind).
`LookUp` and `Embed` are the two halves of `embedBatch`, between which other
requests fill the cache and entries expire. The keyword index is `BM25Index`
with one process, `Server`; its step is synchronous, which `Runs` expresses: no
other request moves while it is under way. A vector is named by the text it
embeds, a chunk by its document and position. `EmbedFails` stands for the
provider and for a cached value that is no JSON (`cache.ts:88`).

### Retrieval

One request at a time, because requests share only the stores; `Upsert`,
`Index`, `Grant` and `Revoke` change those meanwhile. An input brings the order
in which each store would rank all chunks, so `Nearest` and `BestByKeyword` are
"filter, then the first k along that order". Rank fusion is computed in exact
fractions. A query brings no filters of its own: `understand.ts:66` yields none.
`ReadPermissions` and `Filter` are two steps, because `filterChunksForUser`
awaits the rows and the node awaits a second read, only to count them, before it
returns (`documentPerms.ts:65,96`, `retrieve.ts:138-140`). `allowed` is what the
first read gave; the history variable `lately` holds every row that was there at
some moment since the stores were searched. `Direct` is the retrieve node's own
search for a tenant's query, from which it falls back to the retriever.
`Refused` is `assertTenantFilter`; whether it and the nodes see the middleware's
`AsyncLocalStorage` context is left to the input, for it depends on how the
runtime resumes the handlers.

### TenantConfig

`cache[p]` is a process's map in insertion order, `past[t]` the rows the table
had for a tenant, `req` and `upd` the requests and updates under way. `Select`
and `Fill`, `ReadVersion`, `Write` and `Invalidate` are the statements between
which others run. `Node` is a query node that resolves the configuration again
with the version key the controller threads through the graph. `Parsed` is the
controller's schema, which strips what it does not know, the embedding's
settings with it (`adminConfig.controller.ts:14-51`, `96-99`). A tenant may have
a row of version 1 when the run begins; `MaxEarlier` bounds how many do. Two
variables are history: `raced`, the processes an update did not reach, and
`overtaken`, the rows that were replaced by an update which had read the version
before them.

### Access

`cookie[b]`, `login[l]`, `users`, `roles`, `tenants` for accounts; `pending[p]`
and `reindex[i]` for approvals. `Callback` clears the browser's cookie also when
it belongs to another login; `Find` and `Save` are the two statements of
`upsertUserFromProfile`, with the unique email in `Rejected`; `Assign` is the
transaction of `assignTenantAdmin`, which takes any tenant id: no code looks the
tenant up, and `User.tenantId` is no foreign key (`schema.prisma:420-440`).
`Identity` is `verifyAuth`.

### ResearchGraph and Evaluation

`ResearchGraph` is one run; `Superstep` is LangGraph's rule for applying what
the tasks of a step return, with and without reducer. `Evaluation` follows
`runEvaluation` over a dataset, with the responses of `QueryGraph`'s first turn
(`Response` uses `ContextBuilder!Build`) as input of the metrics.

## 3 The runs

Runs that pass:

| Run | Module | Question |
|---|---|---|
| `context_loops` (`MCContextBuilder.cfg`) | `ContextBuilderLoops` | Loops and definitions of `build` and `dedupeSources` agree on all inputs (`LoopsBuildTheContext`); a chunk is left out only because those packed before it fill the cap or leave it no room (`SkippedOnlyForBudget`). |
| `overlap` | `QueryGraph` | With overlapping turns, failures and a crash: `ContextIsCited`, `RepliesToOwnQuery`, `TypeOK`. |
| `serial` | `QueryGraph`, `Conversation` | For clients that wait for each answer: `IsConversation` (refinement), `AnswersAreRemembered`, and `EveryTurnEnds` (liveness). |
| `bm25_shared` | `BM25Index` | Two processes, failing writes, kills: `Bookkeeping`, `LengthsAddUp`, `TenantsFindTheirOwn`, `TypeOK`. |
| `ingestion` | `Ingestion`, `BM25Index` | Two ingestions, every store failing, a crash: `VectorsMatchTexts`, `KeywordIsStored`, `OutcomesAreTrue`, `GraphIsGrounded`, `CleanIsPersisted`, `TypeOK`. |
| `retrieval` | `Retrieval` | `AgreementWins`, `ScopedAnswersAreOwn`, `WalkRanksByEntities`, `NothingDisplaced`, `AnswersAreReadable`, `TypeOK`. |
| `rate` | `Usage`, `RateLimit` | `OverdraftIsBounded`, `DenialsAreJust`, `BucketsAgree`, `BilledIsServed`, `UTypeOK`. |
| `tenant_config` | `TenantConfig` | `CacheIsCommitted`, `StaleOnlyByRace`, `VersionsCount`, `ConfigsAreTheTenants`, `TypeOK`. |
| `access` | `Access` | `OneUserPerEmail`, `TokensCarryTheTenant`, `MembershipIsAssigned`, `ApprovalsAreDecidedOnce`, `TypeOK`. |

Runs that end in a violation, each of which is a finding of section 4:
`markers`, `research`, `metrics`.

What the main properties mean:

* `SkippedOnlyForBudget`. The greedy loop skips a chunk and goes on with those
  after it. Whether the skip was right is judged by what stood in the context at
  that moment, before the chunk's position, and not by what was packed later.
* `ContextIsCited`. Every chunk the LLM was shown is among the sources the
  client gets, and every source was retrieved for the session. Two reducers,
  the sources of two nodes and the packing have to fit together for it, across
  turns that failed half way or overwrote each other's checkpoints.
* `RepliesToOwnQuery`. A plain (not streamed) response answers its own query
  although its session's checkpoints are overwritten by others: it rests on
  each run having channels of its own. If its final state marks a verdict as
  made, that is on this answer, although verdicts of earlier turns stay in it.
* `IsConversation`. With one turn at a time per session, every step of the
  graph is a step of `Conversation` or no step of it: question and answer go on
  the record once, next to each other, before the client hears the answer, and
  an abandoned turn changes nothing but its own status. `record` maps to the
  `messages` channel of the checkpoint, `heard` to the answer in the reply.
* `Bookkeeping`. Document frequencies and counts equal what the indexed chunks
  say, after any history of upserts, replacements, removals, saves and loads.
* `TenantsFindTheirOwn`. A tenant finds exactly min(k, n) of its n matching
  chunks; the filter comes before the cut, and exact statistics make every
  matching chunk score above zero.
* `CleanIsPersisted`. With one process, "not dirty" means that a restart would
  load this index, also after a failed write. Its run is that of ingestion,
  where the index has the one process it needs and the callers it really has.
* `VectorsMatchTexts`. A chunk never gets another chunk's vector, although its
  batch mixes cached and fresh ones and the cache changes in between.
* `OutcomesAreTrue`. "completed" means searchable in both stores; a failed
  ingestion is not searchable by keyword and has no entity. Points it left in
  Qdrant stay: that is what the code does and the property allows.
* `GraphIsGrounded`. No mention or relation points at what was never stored.
* `NothingDisplaced`. A chunk outside the filter never takes the place of one
  inside; `ScopedAnswersAreOwn` says what the tenant filters together guarantee,
  for which api and mode.
* `AnswersAreReadable`. Each document in an answer is one its user could read at
  some moment after the stores had been searched, also when the database is down.
  It does not say "when he is answered": what is revoked between the read of the
  permissions and the answer is still in it.
* `AgreementWins`. A chunk found by both legs beats every chunk found by one,
  which holds while `topK` is at most `RrfK + 1`: beyond that two late ranks
  add up to less than one first rank.
* `OverdraftIsBounded`. A bucket exceeds its quota by at most the requests that
  were between check and debit together, less one, plus those that a failed
  check let through. Debits of the next minute by requests checked in the last
  one are included.
* `BilledIsServed`. Billing never shows a call that was not answered, counts
  none twice, and none earlier than its month, although rows arrive late or not
  at all.
* `StaleOnlyByRace`. The only ways for a process to serve an old configuration,
  by name: the update ran elsewhere, raced with a read under way, failed after
  it took effect, or is about to clear the entry.
* `VersionsCount`. The version is read in one statement and written in another,
  so overlapping updates of an existing row may take the same one. What is left
  of "bumped on each update" is a bound from both sides: a version never
  exceeds the number of updates, and lacks only those that one which had read an
  earlier row overtook. Of first updates that overlap only one inserts the row.
* `MembershipIsAssigned`, `TokensCarryTheTenant`, `OneUserPerEmail`. A login
  reads a row, waits, and saves it; assignments and other logins in between are
  not lost.
* `ApprovalsAreDecidedOnce`. No reindex runs on two approvals, and an approver
  is told "unknown" only for one of three reasons.

### Bounds

| Bound | Value | Why it is enough |
|---|---|---|
| chunks, input length of `context_loops` | 3, 5 | two duplicates, a tie, a chunk that overflows the budget after any other, and a cap that is reached, at once |
| `MaxChunks`, `Budget` of `overlap` | 2, 3 | the cap is below the number of chunks a second turn accumulates |
| `TopK`, `RerankTopK` | 2, 3 | a second turn reranks chunks of both turns and drops one |
| turns, `MaxOpen` | 2 and 2 in `overlap`, 3 and 1 in `serial` | one overlap; two turns in a row and a session beside them |
| `MaxCrashes` | 1 | a turn, or an ingestion, before, during and after a crash |
| processes, chunks, texts of BM25 | 2, 2, 2 sharing a term | two writers of the file, two tenants; a term whose frequency drops to zero, one that stays |
| requests, files, chunks of `ingestion` | 2, 3, 3 | a document without chunks, one with a text twice, and one that shares a cached text with it; batches that are partly cached |
| extractions | 2 | a chunk that does not exist, a name spelled in two ways, a relation between the two and one to a name that was not extracted |
| chunks, users, orders, `topK` of `retrieval` | 4, 4, 3, 2 | two tenants and none, an administrator and two users, legs that agree, disagree and differ in length, a cut that drops something |
| entities, `TopN` | 5, 3 | a tie at the cut, one of another tenant, one without mentions |
| requests, minutes, months, `MaxOpen` of `rate` | 3, 3, 2, 2 | both buckets fill, a second request overdraws, minute and month turn in between |
| processes, tenants, requests, updates of `tenant_config` | 2 each, `MaxCache` 1 | eviction by the other tenant, an update in the other process, two overlapping updates, a node after the middleware |
| `MaxEarlier` of `tenant_config` | 1 | two overlapping updates of an existing row, which take the same version, and two that race to insert the first |
| logins, browsers, emails, processes of `access` | 2 each | two first logins of one person, two logins in one browser, an approver in the wrong process |
| `MaxAnswers`, `MaxRestarts` | 2, 2 | two approvers of one reindex, before and after a restart; a restart while the reindex runs and another after it |
| sub-questions of `research` | 3 to 5 | the code's own limits |
| `JudgeScores`, samples of `metrics` | {1, 5}, 2 | the extremes the clamp lets through; a failed sample beside a good one |

`overlap`, `bm25_shared`, `rate`, `tenant_config` and `access` use symmetry of
values the specifications treat alike; `serial` checks liveness and uses none.
`ingestion` and `retrieval` use none, for their values are not alike. Deadlock
is checked for the keyword index. Everywhere else the system stops when all its
requests have ended, so it is not.

### Fairness

Only `serial` needs it: `FairSpec` has weak fairness of each turn's next step.
A node is an async function whose awaited calls resolve or reject (the clients
have timeouts), and the event loop runs the continuation; the step that follows
may be the node's result or its failure. Nothing is assumed of the arrival of
requests or of crashes. The other modules state safety only: their requests
make a bounded number of such steps each and wait for nobody, so that they end
for the same reason; what may not happen (a stale cache that is never refreshed,
an approval that is never given) the code does not rule out either.

## 4 Where code and documentation disagree

| Run | Quoted | What the code does |
|---|---|---|
| `markers` | "sources[i] corresponds to the `[i+1]` marker" (`builder.ts:10`) | The reducer puts the sources of retrieval first, so with a reranker that reorders, a marker names another chunk's source. |
| `research` | "Each searcher writes its findings to `state.findings`, and the `ReducedValue` reducer concatenates them" (`agents/research/graph.ts:13`) | Every searcher also returns `metadata`, a channel without a reducer (`state.ts:66`). LangGraph refuses several writes to it in one superstep, so a run whose searchers all succeed ends in an error. |
| `metrics` | "All metrics return a number in [0, 1]" (`platform/evaluation/retrieval.ts:8`) | Occurrences are counted, and a response names every retrieved chunk twice, so recall reaches 2. The same lifts the mean that `run-eval` compares with 0.85. |

Seen while modelling, and in the models, but without a run of their own:

* *Sessions.* Of two overlapping turns of a session, the last to store a
  checkpoint removes the other's messages, against "so the next turn resumes
  with full history" (`docs/ARCHITECTURE.md:242`); this is why `serial` has
  `MaxOpen = 1`. `retrievedChunks` accumulates over turns (`state.ts:42`), so a
  context may hold chunks of earlier ones. A streamed turn builds its last events
  from the session's latest checkpoint (`query.service.ts:171`), which may be
  another turn's. A judge that fails leaves the verdict of an earlier turn in
  the state, and a streamed response reports it (`evaluate.ts:112`); only the
  mark `evaluated`, which it does not read, tells (`RepliesToOwnQuery`). `topK`
  of a request body is accepted and not used by `retrieve`.
* *Keyword index.* A snapshot that was cut short does not parse and loads as
  empty, and the server and `scripts/ingest.ts` overwrite each other's
  (`bm25Index.ts:219`, "so it survives restarts", line 8). `reset()` says it
  wipes the index "in memory and on disk" (line 263) and leaves the file.
* *Limits and metering.* The controller debits before the query runs, while
  `middleware/rateLimit.ts:9` says after. A query that is not streamed is always
  recorded with 0 tokens, because `llmTokens` is no channel of the graph
  (`query.service.ts:78`). `checkMonthlyQuota` has no caller, so
  `monthlyTokenCap` changes only what billing displays.
* *Retrieval.* In hybrid mode the keyword leg gets no tenant: it may throw
  where a context is visible (`Refused`) and otherwise searches all tenants,
  and the permission filter runs after the cut, so a user may get fewer than
  `topK` chunks. A permission revoked between that filter's read and the answer
  is not noticed. The knowledge-graph retriever has no caller in the query path;
  that its ranking is "distinct entities (primary)" (`WalkRanksByEntities`)
  rests on an extraction mentioning an entity once.
* *Ingestion.* Chunk ids are UUIDs, although `chunking/base.ts:6` describes
  `<documentId>:<index>`, so ingesting a document again adds it again. The
  entity upsert is said to be case-insensitive (`kgExtractor.ts:94`), but the id
  keeps the case. Two first ingestions may both create the collection, and one
  of them fails.
* *Configuration.* The version key is the constant `"1"`
  (`query.controller.ts:39`), against "re-resolve config deterministically"
  (`README.md:153`). With the repository's own schema (`schema.prisma:361-371`)
  the raw SQL of `updateConfig` names columns that do not exist and gives no id,
  and `getEffectiveConfig` parses a `Json` column as a string
  (`configService.ts:53-109`); the model lets every statement fail and also lets
  it succeed, as it would with the table the code expects. A body that overrides
  the embedding is not refused, against the message of
  `assertNoEmbeddingOverrides`: the schema of the controller strips the setting
  first and the rest is stored.
* *Logins.* The Prisma model `User` has no `metadata` column, which
  `oauth2.service.ts:137-148` writes, so that with the repository's own schema
  every save is refused; the model lets it succeed or fail. `oauth2Login` sets
  the cookie before it learns that the provider is not configured, and of two
  logins in one browser both fail, since the first callback clears the second's
  cookie.
* *Identity.* `api/middleware/auth.ts:60` decodes the signature twice, so what
  it compares has at most 24 bytes and the digest has 32: no token is ever
  recognised (`Recognised` is false). A request without a token is an
  administrator unless `AUTH_REQUIRE_TOKEN` is set. Tokens always carry the role
  viewer, and no code reads a tenant's status. A user may be assigned to an id
  that no tenant has.
* *Reindex.* A second answer after a restart, or in another process, is told
  that the request may have been approved already. The route's comment reserves
  it to administrators in production; nothing checks that.
* *Evaluation.* `evaluate.service.ts:31` calls `runEvaluation` without options,
  so `POST /api/evaluate` always throws at `options.judge`. A judge that fails
  gives 3 in every aspect, and failed queries count as zeros in the means.

## 5 The proofs

Every invariant and every action property that a passing run checks is a
theorem for all values of the constants; only the liveness property is not (end
of this section). The proofs rest on the assumptions about the constants, which
TLC evaluates in the runs. Beyond types they say:

* `Requests`, `Docs` and, for one theorem, `Jobs` are finite.
* `LoopsAssumption`: scores are integers. `build` compares scores and prints
  them; the cost of a chunk is taken to be the same whatever score its header
  shows.
* `OneTenantAssumption`: a user has one tenant, as the token names one.
* `SnapshotAssumption`: "no file" and "torn" are no index.
* `RetrievalAssumption`: the stores rank each chunk once; the walk over the
  knowledge graph is a retriever of its own and no hybrid one (`factory.ts`).
* `MentionsAssumption`: the rows `kgExtractor.ts`, their only writer, creates:
  an entity has the tenant of its document, and one mention, in a chunk of that
  document; ids are fresh.
* `Serial`, a hypothesis of the two theorems that are false without it: one turn
  of a session at a time (`MaxOpen = 1`) and a durable checkpointer, which is the
  configuration of the run `serial`.

**`CountingProofs`.** `SumFunction` does not depend on the order of its
summands (`SumRemove`, `SumChange`), and a strict order of a finite set numbers
its elements (`BeforeIsOneToOne`). The library's induction theorems cannot be
instantiated here, so these facts, and the existence of the greedy packing, are
shown with a smallest counterexample: a set of naturals has a least element
(`LeastNatural`), a family of subsets of a finite set a smallest one.

**`QueryGraphProofs`: `BuildBounds`, `SkipsOnlyWhatDoesNotFit`.** The context
holds only chunks it was given, none twice, at most `MaxChunks`, and what is
left out did not fit beside the chunks before it, or those filled the cap. Ranks
are one-to-one, so `Arrange` permutes; the greedy set exists (`PackingExists`).

**`QueryGraphProofs`: `LoopsBuild`, `LoopsAgree`, `OnlyTheBudgetSkips`.** A fold
over a sequence is defined on sets of positions, by the last position of each.
`PositionInduction`, again shown with a smallest counterexample, says that what
holds of the empty set and survives adding a last position holds of all
positions; so a loop can be proved about with a loop invariant. There is one for
each loop: `Deduped`, that the entries are the first positions seen so far, in
their order, each with the best score so far; `InOrder`, that the entries
inserted so far are in descending order of score, and of position where scores
tie; `PackedUpTo`, that the entries packed so far are those at positions which
`Admits` takes, and the tokens used are the sum of their costs; for
`dedupeSources`, that each chunk seen is kept once, in the order in which it
came. At the end each invariant determines the result. The set of a greedy
packing is unique (`PackingIsUnique`), and a sequence that lists a set of
positions in the order `Before` is its `Arrange` (`EnumerationIsArranged`).
`OnlyTheBudgetSkips` follows: what is said of the set `Packed`, restricted to
the positions before the one that was skipped, then holds of what the loops
return.

**`QueryGraphProofs`: `TypeCorrect`, `ContextAlwaysCited`, `RepliesAreOwn`.**
`ContextIsCited` alone is not inductive. `Inv` says of every set of channels
(checkpoints, runs, replies) that it is `Sound`, which is typed and `WellCited`,
and adds `OwnChannels`: a running turn's channels hold its own query, from
`evaluate` on its own answer, and after it no verdict that is marked as made but
on that answer; and `RepliesToOwnQuery` itself. There is one lemma per node,
that it maps sound channels to sound channels; `BuiltIsSound` uses
`BuildBounds`. `SuperstepPreservesInv` lifts these to steps.

**`QueryGraphProofs`: `AnswersStayRemembered`, `ImplementsConversation`.**
`SerialInv` adds to `Inv`: one turn of a session runs at a time, its channels
are the session's checkpoint (`OwnsTheSession`), and question and answer stand
in the messages from the node on that writes them (`Spoken`). The refinement
maps messages, status and replies of each step to a step of `Conversation` or
to a stutter, one lemma per action.

**`BM25IndexProofs`: `IndexTypes`, `StatisticsAreExact`, `LengthsAreExact`,
`TenantsFind`.** `Inv` says that every index and the snapshot is `Good`: typed,
`Exact`, and with the sum of the lengths in `totalLen`. `Removed` keeps an index
good although it deletes a term whose frequency is at most 1, because in an
exact index that is the frequency of a term only this chunk holds. With exact
statistics every chunk that holds a word matches (`HoldersMatch`), an order of
them lists each once (`OrderListsAll`), and the filter numbers the tenant's
(`FilteredListsOwn`), so the cut is of the tenant's own list.

**`IngestionProofs`.** All six properties of `Ingestion`. `IInv` says what a
request relies on between two of its steps: that the vectors in its hands embed
its own texts (`JobOk`), that a chunk in the keyword index or the snapshot is
stored with the same text and belongs to a request that has come that far
(`KeywordOk`), how the chunks it has indexed and those in `todo` make up its
document (`IndexingOk`), and that an index which is not dirty is on disk
(`CleanOk`). `UsesTheIndex` shows that the pipeline drives the index as
`BM25Index` says a process does, so that what is proved of the index holds here:
`TenantsFindWhatIsIndexed`.

**`RetrievalProofs`.** All six properties of `Retrieval`. `Ranked` lists a
finite set once in its order (`RankedBy`), filtering and cutting a list keep its
order (`AlongPlaces`, `TakePlaces`). Fusion compares exact fractions: a chunk
that both legs found has at least two shares of 1/(k + topK), which is no less
than the one share of 1/(k + 1) when `topK <= RrfK + 1` (`TwoShares`,
`AgreementIsAhead`). The inductive invariant, `Sound`, says which stage a
request may be in (`Stages`), that its lists are lists (`Lists`), whose the
chunks in them are (`Owned`), and how they are ordered (`Ordered`). The action
property `NothingDisplaced` follows from `Sound` and the step.
`AnswersAreReadable` needs `Remembered`: while a request waits for its
permissions, every row that holds is in `lately`, and what it then takes the
user to be allowed rests on such a row, whether or not that still holds.
`RetrievalTypes` is what `QueryGraph` assumes of its `Hits`.

**`RateLimitProofs`: `OverdraftBound`, `JustDenials`, `BothBucketsAreDebited`.**
The bound is not inductive, for nothing in
it says how many requests are on their way to a debit. A request is a *risk* for
a bucket if it may debit it without reading it again: it has passed that check,
or its check is about an earlier minute. `Contained` says: once a bucket is
full, its count plus its risks is at most the quota plus `MaxOpen - 1` plus the
requests that a failed check let through. A debit turns a risk into a count; a
read of a full bucket makes no risk; the turn of the minute makes none either,
because the buckets of later minutes are empty (`FutureIsEmpty`). Denials stay
just because counts only grow; the two buckets agree because a debit moves one
summand of the tenant's sum (`DebitAddsUp`).

**`RateLimitProofs`: `MeteringImplementsLimiter`, `MeteredOverdraftBound`,
`MeterTypes`, `OnlyServedIsBilled`.** Every step of `Usage` is a step of
`RateLimit` or leaves its variables alone, so the quotas hold of the metered
service too. For the bill, `MeterInv` says for every month that the rows up to
it are covered by the requests that were answered by then and whose insert is
over, one call each, and `MaxTokens` for each stream (`Covered`).

**`AccessProofs`: `OneUser`, `Membership`, `TokenTenant`, `UsersExist`.**
None of these properties is inductive. `Inv` adds where a row comes from
(`Created`: its id is
a login that is over and has its email), what a login may rely on between
`Find` and `Save` (`Remembered`: a row with the id and email of the one it
found still exists, though its name and tenant may have changed), and that
nobody is assigned before he has a row (`Unassigned`). `SavedRow` shows from it
that `Save` writes one row, a new one or the user's own with the tenant he has
by now; `SavedInv` and `AssignInv` are the two steps that change rows, and
`LoginStep` stands for all the others of a login. `Placed` adds what cookies and
roles refer to. The theorem is about users only: a user's tenant need not exist.

**`AccessProofs.DecisionsAreFinal`.** `Approvals` says of every reindex that it
is decided, runs or was cut short at most once in all, and that, until then, it
waits in the process it was asked for in, unless a restart forgot it. The proof
found an error in an earlier form of the model: a restart while a reindex ran
did not mark the others of that process as forgotten; `access` now has a second
restart, which shows such a slip.

**`TenantConfigProofs`: `Isolation`, `Committed`, `Versions`, `Staleness`,
`CacheBounds`.** All properties of `TenantConfig`, for any number of processes
and any limit of the cache. `WithoutTenant` and `SetCacheEntries` are the lemmas
about the map: a deletion leaves no entry of the tenant, an insertion adds one
and keeps one per tenant, also in the branch that evicts an entry and then finds
the tenant still there. `Inv` then says of every entry that its configuration
and version were stored together (`IsStored`), of a request between `Select` and
`Fill` that its tenant has had the row it holds, and of a request at its nodes
that its tenant has had its configuration; `Grows` is why an update, which only
adds a row, disturbs none of it. `Isolation` and `Committed` follow from `Inv`
alone. `Versions` needs `Counted`: an update between its two statements holds
the version of a row its tenant has had, its base (`Bases`), and at every row
the version and the rows overtaken up to it account for all updates
(`CountsAt`). A write overtakes the rows after its base, and `LostRows` counts
them. `Staleness` needs `Fresh`: in a process that no update has missed, a row
on its way to the cache is the current one, and so is what the cache holds
unless an update is about to invalidate it. `CacheBounds` needs `Bounded`, which
counts the entries.

TLC and the provers read overlapping CASE guards differently (the first that
holds, or any), so the models keep guards exclusive.

Only model-checked:

* `EveryTurnEnds`: liveness under fairness is out of this prover's reach.
* The properties of the three runs that end in a violation, which are false.

## 6 Not modelled

Texts, prompts, token counts and the LLM itself (its outputs are choices); HTTP
details and headers; tracing, metrics and logs. Scores are modelled as ranks,
except in rank fusion.

* *Ingestion agent and queue* (`agents/ingestion`, `queue.ts`): the worker is
  never started, and the agent's load node passes a string to `getConnector`,
  which expects a request, so each of its runs ends there.
* *Session history API*, `longTerm` store: views of the checkpoints of
  `QueryGraph`; the query path does not call the store.
* *Server and error handler*: wiring of handlers that other modules model, and
  the mapping of errors to status codes.
* *Connectors, chunking, cleaning*: functions of a text; `Ingestion` takes the
  chunks of a document as an input.
* *Elasticsearch, S3*: no caller in the paths modelled. Redis and Postgres
  clients are thin; what their calls do is in the modules that make them.
* *Rerankers*: only their result, any ranking of at most `rerankTopK` chunks.
* `scripts/`: `run-eval`'s datasets are in `Evaluation`, `ingest.ts` is a second
  process of `BM25Index`; the end-to-end tests drive what is modelled.
* Definitions without callers: `MetadataRetriever`, `checkMonthlyQuota`, the
  synchronous permission checks.

## 7 Plan

Done: the modules of section 2 and the proofs of section 5. What would add
most next, in this order:

1. `QueryGraph` and `Retrieval` composed: the retrieve node instantiated with
   what `RetrievalProofs` shows of a result, so that `Hits` is no assumption.
2. `BM25Index` with several processes: which chunks a lost snapshot may lack,
   stated with `kept` and proved.
3. The abstract promise of `Ingestion` (a document is searchable in both stores
   or its client was told otherwise) as a specification of its own, and the
   refinement.
