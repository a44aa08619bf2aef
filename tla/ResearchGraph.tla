---------------------------- MODULE ResearchGraph ----------------------------
(***************************************************************************)
(* The research agent (src/agents/research): a planner splits the query in *)
(* sub-questions, one searcher per sub-question runs in parallel (Send),   *)
(* and a synthesizer answers from what all of them found.                  *)
(*                                                                         *)
(* LangGraph applies what the tasks of a superstep return when all have    *)
(* settled.  A channel with a reducer takes any number of writes; one      *)
(* without (LastValue) takes one, and a second write in the same superstep *)
(* is an InvalidUpdateError, which ends the run.                           *)
(***************************************************************************)
EXTENDS Integers, Sequences, FiniteSets, SequencesExt

CONSTANTS
  Chunks,
  TopK,          \* a searcher retrieves at most so many chunks
  MinSubs, MaxSubs

VARIABLES
  pc,        \* node to run next, or "searchers", "done", "failed"
  chan,      \* the channels of ResearchState
  tasks,     \* the searchers of the superstep: their status and result
  broken     \* history: a node has thrown

vars == <<pc, chan, tasks, broken>>

Reduced == {"subQuestions", "findings", "messages"}

(* The channels a node returned values for, and the result on the state.   *)
Collides(results) ==
  \E c \in UNION {DOMAIN results[i] : i \in DOMAIN results} \ Reduced :
    Cardinality({i \in DOMAIN results : c \in DOMAIN results[i]}) > 1

Written(c, results) ==
  SelectSeq(results, LAMBDA r : c \in DOMAIN r)

Applied(results) ==
  [c \in DOMAIN chan |->
     LET w == Written(c, results)
     IN  CASE c \in Reduced ->
                chan[c] \o FlattenSeq([i \in DOMAIN w |-> w[i][c]])
           [] c \notin Reduced /\ w # <<>> -> w[Len(w)][c]
           [] OTHER -> chan[c]]

(* A superstep ends: next is where the edge of the graph leads.            *)
Superstep(results, next) ==
  IF Collides(results)
    THEN pc' = "failed" /\ UNCHANGED chan
    ELSE pc' = next /\ chan' = Applied(results)

Throws == pc' = "failed" /\ broken' = TRUE /\ UNCHANGED <<chan, tasks>>

-----------------------------------------------------------------------------
(* The model proposes any number of sub-questions, or fails: the planner   *)
(* falls back to three of its own below three, and cuts at five.           *)
Plans == {[i \in 1..n |-> i] : n \in MinSubs..MaxSubs}

Planner ==
  /\ pc = "planner"
  /\ \/ /\ \E plan \in Plans :
             /\ Superstep(<<[subQuestions |-> plan, metadata |-> "planner",
                             iterations |-> chan.iterations + 1]>>, "searchers")
             /\ tasks' = [i \in DOMAIN plan |->
                            [status |-> "running", hits |-> <<>>]]
        /\ UNCHANGED broken
     \/ Throws

Hits == UNION {{s \in [1..n -> Chunks] : IsInjective(s)} : n \in 0..TopK}

Searcher(i) ==
  /\ pc = "searchers" /\ tasks[i].status = "running"
  /\ \/ \E hits \in Hits :
          tasks' = [tasks EXCEPT ![i] = [status |-> "done", hits |-> hits]]
     \/ tasks' = [tasks EXCEPT ![i].status = "failed"]
  /\ UNCHANGED <<pc, chan, broken>>

(* The join: all searchers have settled.  One that failed ends the run.    *)
Statuses == {tasks[i].status : i \in DOMAIN tasks}

Join ==
  /\ pc = "searchers" /\ "running" \notin Statuses
  /\ IF "failed" \in Statuses
       THEN Throws
       ELSE /\ Superstep([i \in DOMAIN tasks |->
                            [findings |-> tasks[i].hits,
                             metadata |-> "searcher"]],
                         "synthesizer")
            /\ UNCHANGED <<tasks, broken>>

(* The synthesizer has an answer without findings and without the model.   *)
Synthesizer ==
  /\ pc = "synthesizer"
  /\ Superstep(<<[draftAnswer |-> chan.findings, finalAnswer |-> chan.findings,
                  complete |-> TRUE, messages |-> <<chan.findings>>,
                  metadata |-> "synthesizer"]>>, "done")
  /\ UNCHANGED <<tasks, broken>>

Init ==
  /\ pc = "planner" /\ tasks = <<>> /\ broken = FALSE
  /\ chan = [subQuestions |-> <<>>, findings |-> <<>>, messages |-> <<>>,
             draftAnswer |-> <<>>, finalAnswer |-> <<>>, complete |-> FALSE,
             iterations |-> 0, metadata |-> "none"]

Next == Planner \/ (\E i \in DOMAIN tasks : Searcher(i)) \/ Join \/ Synthesizer

Spec == Init /\ [][Next]_vars
-----------------------------------------------------------------------------
(***************************************************************************)
(* graph.ts:13: the "reducer concatenates them so the synthesizer sees a   *)
(* single aggregated list": a run in which no node failed gets past its    *)
(* searchers.                                                              *)
(***************************************************************************)
FindingsReachSynthesizer == pc = "failed" => broken
=============================================================================
