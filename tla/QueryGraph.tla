----------------------------- MODULE QueryGraph -----------------------------
(***************************************************************************)
(* The query agent: POST /api/query runs a compiled LangGraph graph on the *)
(* thread of its session,                                                  *)
(*                                                                         *)
(*   understand -> retrieve -> rerank -> buildContext -> generate          *)
(*              -> evaluate                                                *)
(*                                                                         *)
(* A turn is one request.  Its run loads the latest checkpoint of the      *)
(* session into channels of its own, overwrites the input channels, and    *)
(* after every node stores the channels as the session's new latest        *)
(* checkpoint.  Nothing orders the runs of one session: the turns of a     *)
(* session may overlap, and each works on the channels it loaded.          *)
(*                                                                         *)
(* Reducers (state.ts): retrievedChunks, sources and messages append what  *)
(* a node returns; every other channel is overwritten.                     *)
(*                                                                         *)
(* A definition named like another with a suffix (InputUnwritten,          *)
(* CrashForgets, ...) is a mutant: the same operation with a plausible     *)
(* bug, kept to show which property notices it.                            *)
(***************************************************************************)
EXTENDS ContextBuilder, Functions

CONSTANTS
  Sessions,         \* session ids, the thread_id of the checkpointer
  Turns,            \* requests; the text of a query is identified with it
  NoTurn,           \* no query, no answer, no evaluation
  SessionOf,        \* the session each request names
  Streams,          \* the requests with stream: true
  TopK,             \* retrieval.topK
  RerankTopK,       \* retrieval.rerankTopK
  RerankerEnabled,  \* retrieval.rerankerEnabled
  Durable,          \* NODE_ENV = production: PostgresSaver, not MemorySaver
  MaxOpen,          \* bound: turns of one session in flight at a time
  MaxCrashes        \* bound: process crashes

ASSUME GraphAssumption ==
  /\ NoTurn \notin Turns
  /\ SessionOf \in [Turns -> Sessions]
  /\ Streams \subseteq Turns
  /\ TopK \in Nat /\ RerankTopK \in Nat
  /\ RerankerEnabled \in BOOLEAN /\ Durable \in BOOLEAN
  /\ MaxOpen \in Nat /\ MaxCrashes \in Nat

VARIABLES
  checkpoint,  \* the latest checkpoint of each session
  chan,        \* the channels of each turn's run
  pc,          \* the node a turn runs next, or how it ended
  reply,       \* the final state the response is built from
  crashes

vars == <<checkpoint, chan, pc, reply, crashes>>

Nodes == {"understand", "retrieve", "rerank", "buildContext", "generate",
          "evaluate"}
Running == Nodes \cup {"respond"}
Ended == {"answered", "failed", "lost"}

Messages == [role : {"human", "ai"}, turn : Turns]

(***************************************************************************)
(* QueryState.  A Source is identified by its chunk, an answer by the turn *)
(* it was generated for; retrievedCount, evaluated and evaluation (which   *)
(* answer the verdict is on) are the entries of the metadata channel that  *)
(* are read later.                                                         *)
(***************************************************************************)
Channels ==
  [query          : Turns \cup {NoTurn},
   retrieved      : Seq(Chunks),
   retrievedCount : Nat,
   reranked       : Seq(Chunks),
   context        : Seq(Chunks),
   sources        : Seq(Chunks),
   answer         : Turns \cup {NoTurn},
   approved       : BOOLEAN,
   evaluated      : BOOLEAN,
   evaluation     : Turns \cup {NoTurn},
   messages       : Seq(Messages)]

EmptyChannels ==
  [query |-> NoTurn, retrieved |-> <<>>, retrievedCount |-> 0,
   reranked |-> <<>>, context |-> <<>>, sources |-> <<>>,
   answer |-> NoTurn, approved |-> FALSE, evaluated |-> FALSE,
   evaluation |-> NoTurn, messages |-> <<>>]

(***************************************************************************)
(* The straight edges of the graph.                                        *)
(***************************************************************************)
EdgeToItself ==
  [understand |-> "retrieve", retrieve |-> "rerank",
   rerank |-> "buildContext", buildContext |-> "generate",
   generate |-> "evaluate", evaluate |-> "evaluate"]

Edge ==
  [understand |-> "retrieve", retrieve |-> "rerank",
   rerank |-> "buildContext", buildContext |-> "generate",
   generate |-> "evaluate", evaluate |-> "respond"]

InFlight(s) == {t \in Turns : SessionOf[t] = s /\ pc[t] \in Running}

(***************************************************************************)
(* graph.invoke / graph.stream on the session's thread: load the latest    *)
(* checkpoint, write the input, store the result as a checkpoint.          *)
(***************************************************************************)
InputUnwritten(c, t) == c

Input(c, t) == [c EXCEPT !.query = t]

Accept(t) ==
  LET s == SessionOf[t]
      c == Input(checkpoint[s], t)
  IN  /\ pc[t] = "new"
      /\ Cardinality(InFlight(s)) < MaxOpen
      /\ chan' = [chan EXCEPT ![t] = c]
      /\ checkpoint' = [checkpoint EXCEPT ![s] = c]
      /\ pc' = [pc EXCEPT ![t] = "understand"]
      /\ UNCHANGED <<reply, crashes>>

(***************************************************************************)
(* A superstep: node n returned, its update is reduced into the channels   *)
(* giving c, and c is stored as a checkpoint.                              *)
(***************************************************************************)
Superstep(t, n, c) ==
  /\ pc[t] = n
  /\ chan' = [chan EXCEPT ![t] = c]
  /\ checkpoint' = [checkpoint EXCEPT ![SessionOf[t]] = c]
  /\ pc' = [pc EXCEPT ![t] = Edge[n]]
  /\ UNCHANGED <<reply, crashes>>

Human(t) == [role |-> "human", turn |-> t]
AI(t)    == [role |-> "ai", turn |-> t]

UnderstoodSilently(c) == c

Understood(c) == [c EXCEPT !.messages = Append(@, Human(c.query))]

Understand(t) == Superstep(t, "understand", Understood(chan[t]))

(***************************************************************************)
(* What retrieval and the ACL filter leave: at most topK chunks, no chunk  *)
(* twice (Qdrant points, BM25 documents and the fused map are keyed by     *)
(* chunkId).  An anonymous request, or one without a permission, gets      *)
(* none.  sourcesFromChunks makes one source of each chunk.                *)
(***************************************************************************)
Hits == {h \in UNION {[1..n -> Chunks] : n \in 0..TopK} : IsInjective(h)}

RetrievedOverwrites(c, hits) ==
  [c EXCEPT !.retrieved = hits,
            !.sources = @ \o hits,
            !.retrievedCount = Len(hits)]

Retrieved(c, hits) ==
  [c EXCEPT !.retrieved = @ \o hits,
            !.sources = @ \o hits,
            !.retrievedCount = Len(hits)]

Retrieve(t) ==
  \E hits \in Hits : Superstep(t, "retrieve", Retrieved(chan[t], hits))

(***************************************************************************)
(* The reranker scores every accumulated chunk with an LLM and keeps the   *)
(* best rerankTopK in any order; when it is disabled the chunks pass       *)
(* through unchanged.                                                      *)
(***************************************************************************)
Least(m, n) == IF m <= n THEN m ELSE n

Rankings(n) == {p \in [1..Least(RerankTopK, n) -> 1..n] : IsInjective(p)}

RerankedSeqs(chunks) ==
  IF RerankerEnabled
    THEN {[i \in DOMAIN p |-> chunks[p[i]]] : p \in Rankings(Len(chunks))}
    ELSE {chunks}

Reranked(c, chunks) == [c EXCEPT !.reranked = chunks]

Rerank(t) ==
  \E chunks \in RerankedSeqs(chan[t].retrieved) :
    Superstep(t, "rerank", Reranked(chan[t], chunks))

(***************************************************************************)
(* buildContext packs the reranked chunks and returns the builder's        *)
(* sources, which are the packed chunks, followed by the sources already   *)
(* in the state, deduplicated; the reducer appends the result to sources.  *)
(* No retrieved chunk carries a metadata.score, so scoreOf is 0 for all.   *)
(***************************************************************************)
Context(c) ==
  IF c.reranked = <<>> THEN <<>> ELSE Build(c.reranked, Unscored(c.reranked))

Built(c) ==
  [c EXCEPT !.context = Context(c),
            !.sources = @ \o DedupeSources(Context(c) \o @)]

BuildContext(t) == Superstep(t, "buildContext", Built(chan[t]))

(***************************************************************************)
(* generate: the answer is drafted from query, context and sources.        *)
(***************************************************************************)
Generated(c) ==
  [c EXCEPT !.answer = c.query,
            !.approved = TRUE,
            !.messages = Append(@, AI(c.query))]

Generate(t) == Superstep(t, "generate", Generated(chan[t]))

(***************************************************************************)
(* evaluate: the judge's verdict on the answer, or, when the judge fails,  *)
(* is switched off or has an empty answer to judge, nothing but the mark   *)
(* that there is none: the entries of an earlier evaluation stay.          *)
(***************************************************************************)
Judged(c, verdict) ==
  [c EXCEPT !.evaluated = TRUE, !.evaluation = c.answer, !.approved = verdict]

UnjudgedUnmarked(c) == c

Unjudged(c) == [c EXCEPT !.evaluated = FALSE]

Evaluate(t) ==
  \/ \E verdict \in BOOLEAN :
       Superstep(t, "evaluate", Judged(chan[t], verdict))
  \/ Superstep(t, "evaluate", Unjudged(chan[t]))

(***************************************************************************)
(* runQuery answers with the final state invoke returned; streamQuery,     *)
(* when the token stream has ended, asks the checkpointer for the state of *)
(* the session's thread.                                                   *)
(***************************************************************************)
FinalStateOfThread(t) == checkpoint[SessionOf[t]]

FinalState(t) ==
  IF t \in Streams THEN checkpoint[SessionOf[t]] ELSE chan[t]

Respond(t) ==
  /\ pc[t] = "respond"
  /\ reply' = [reply EXCEPT ![t] = FinalState(t)]
  /\ pc' = [pc EXCEPT ![t] = "answered"]
  /\ chan' = [chan EXCEPT ![t] = EmptyChannels]
  /\ UNCHANGED <<checkpoint, crashes>>

(***************************************************************************)
(* A node throws (embedding, vector store, LLM): the run ends, the client  *)
(* gets an error, and the checkpoints of the earlier nodes stay.  evaluate *)
(* catches its errors; after it, a stream may fail to read the session's   *)
(* state.                                                                  *)
(***************************************************************************)
Fail(t) ==
  /\ \/ pc[t] \in Nodes \ {"evaluate"}
     \/ pc[t] = "respond" /\ t \in Streams
  /\ pc' = [pc EXCEPT ![t] = "failed"]
  /\ chan' = [chan EXCEPT ![t] = EmptyChannels]
  /\ UNCHANGED <<checkpoint, reply, crashes>>

(***************************************************************************)
(* The process dies: the runs in flight are lost, and with a MemorySaver   *)
(* the checkpoints too.                                                    *)
(***************************************************************************)
CrashForgets ==
  /\ crashes < MaxCrashes
  /\ crashes' = crashes + 1
  /\ pc' = [t \in Turns |-> IF pc[t] \in Running THEN "lost" ELSE pc[t]]
  /\ chan' = [t \in Turns |-> EmptyChannels]
  /\ checkpoint' = [s \in Sessions |-> EmptyChannels]
  /\ UNCHANGED reply

Crash ==
  /\ crashes < MaxCrashes
  /\ crashes' = crashes + 1
  /\ pc' = [t \in Turns |-> IF pc[t] \in Running THEN "lost" ELSE pc[t]]
  /\ chan' = [t \in Turns |-> EmptyChannels]
  /\ checkpoint' = IF Durable THEN checkpoint
                              ELSE [s \in Sessions |-> EmptyChannels]
  /\ UNCHANGED reply

Init ==
  /\ checkpoint = [s \in Sessions |-> EmptyChannels]
  /\ chan = [t \in Turns |-> EmptyChannels]
  /\ pc = [t \in Turns |-> "new"]
  /\ reply = [t \in Turns |-> EmptyChannels]
  /\ crashes = 0

Progress(t) ==
  \/ Understand(t) \/ Retrieve(t) \/ Rerank(t) \/ BuildContext(t)
  \/ Generate(t) \/ Evaluate(t) \/ Respond(t) \/ Fail(t)

Next == Crash \/ \E t \in Turns : Accept(t) \/ Progress(t)

Spec == Init /\ [][Next]_vars

(***************************************************************************)
(* A node that was started settles: its calls are awaited promises that    *)
(* resolve or reject, and the event loop runs their continuations.         *)
(***************************************************************************)
FairSpec == Spec /\ \A t \in Turns : WF_vars(Progress(t))
-----------------------------------------------------------------------------
TypeOK ==
  /\ checkpoint \in [Sessions -> Channels]
  /\ chan \in [Turns -> Channels]
  /\ pc \in [Turns -> {"new"} \cup Running \cup Ended]
  /\ reply \in [Turns -> Channels]
  /\ crashes \in Nat

(***************************************************************************)
(* Every chunk the context shows the LLM is in the sources the client      *)
(* gets, every source was retrieved for the session, and no chunk takes    *)
(* two markers or more than its share of the cap: also across turns, after *)
(* failures, crashes and overlapping runs (reducers of state.ts,           *)
(* buildContext.ts).                                                       *)
(***************************************************************************)
WellCited(c) ==
  /\ Range(c.context) \subseteq Range(c.sources)
  /\ Range(c.sources) \subseteq Range(c.retrieved)
  /\ IsInjective(c.context)
  /\ Len(c.context) <= MaxChunks

ContextIsCited ==
  /\ \A s \in Sessions : WellCited(checkpoint[s])
  /\ \A t \in Turns : WellCited(chan[t]) /\ WellCited(reply[t])

(***************************************************************************)
(* The response to a request answers that request's query, however the     *)
(* runs of its session overlap: a run that is not streamed answers from    *)
(* the channels it owns (query.service.ts, runQuery).  A verdict which     *)
(* that state marks as made was made on this answer: when the judge fails  *)
(* the verdict of an earlier turn stays in the state, but not its mark     *)
(* (evaluate.ts).                                                          *)
(***************************************************************************)
RepliesToOwnQuery ==
  \A t \in Turns \ Streams : pc[t] = "answered" =>
    /\ reply[t].answer = t
    /\ reply[t].evaluated => reply[t].evaluation = t

(***************************************************************************)
(* "PostgresSaver writes a checkpoint after every node ... so the next     *)
(* turn resumes with full history" (docs/ARCHITECTURE.md, section 5): what *)
(* the client was answered stays in the session's messages, question and   *)
(* answer next to each other.                                              *)
(***************************************************************************)
Remembers(s, t) ==
  LET m == checkpoint[s].messages
  IN  \E i \in 1..(Len(m) - 1) : m[i] = Human(t) /\ m[i + 1] = AI(t)

AnswersAreRemembered ==
  \A t \in Turns : pc[t] = "answered" => Remembers(SessionOf[t], t)

(***************************************************************************)
(* Every request that was accepted ends: it is answered, fails or is lost  *)
(* with the process.                                                       *)
(***************************************************************************)
EveryTurnEnds ==
  \A t \in Turns : pc[t] = "understand" ~> pc[t] \in Ended

(***************************************************************************)
(* A client that keeps to one turn at a time per session (MaxOpen = 1) has *)
(* the conversation of module Conversation: messages are its record, and   *)
(* the client of a turn hears the answer its reply was built from.         *)
(***************************************************************************)
Status(t) ==
  CASE pc[t] = "understand" -> "open"
    [] pc[t] \in {"retrieve", "rerank", "buildContext", "generate"} -> "asked"
    [] pc[t] \in {"evaluate", "respond"} -> "written"
    [] pc[t] \in {"failed", "lost"} -> "abandoned"
    [] OTHER -> pc[t]

Conv == INSTANCE Conversation WITH
  record <- [s \in Sessions |-> checkpoint[s].messages],
  status <- [t \in Turns |-> Status(t)],
  heard  <- [t \in Turns |-> IF pc[t] = "answered" THEN {reply[t].answer}
                                                   ELSE {}]

IsConversation == Conv!CSpec

(***************************************************************************)
(* What the code's comments and docs say and the reducers do not do.       *)
(***************************************************************************)

(* "sources[i] corresponds to the [i+1] marker in the context"             *)
(* (builder.ts:10): the sources block of the prompt and the response       *)
(* numbers the chunk of every context marker with that marker.             *)
MarkersNameSources ==
  \A t \in Turns : pc[t] = "generate" =>
    \A i \in DOMAIN chan[t].context :
      chan[t].sources[i] = chan[t].context[i]

(* "This split lets the graph stay focused on a single turn's working      *)
(* memory" (docs/ARCHITECTURE.md, section 5): the context of a turn is     *)
(* made of the chunks retrieved for that turn.                             *)
OwnHits(c) ==
  {c.retrieved[i] : i \in (Len(c.retrieved) - c.retrievedCount + 1)
                          ..Len(c.retrieved)}

ContextIsThisTurns ==
  \A t \in Turns : pc[t] = "generate" =>
    Range(chan[t].context) \subseteq OwnHits(chan[t])
=============================================================================
