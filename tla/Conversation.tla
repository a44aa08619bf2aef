---------------------------- MODULE Conversation ----------------------------
(***************************************************************************)
(* What the query agent promises the client of a session: a conversation.  *)
(* Each question is put on the record once, is answered at most once, and  *)
(* its answer directly follows it on the record before the client sees it. *)
(* A turn may be abandoned at any point (an error, a crash); what it put   *)
(* on the record stays there and nothing else changes.                     *)
(*                                                                         *)
(* The promise is for clients that wait for one turn of a session to end   *)
(* before they start the next one.                                         *)
(***************************************************************************)
EXTENDS Integers, Sequences

CONSTANTS Sessions, Turns, SessionOf

VARIABLES
  record,   \* the messages of each session
  status,   \* how far each turn is
  heard     \* whose answer the client of each turn was given, if any

cvars == <<record, status, heard>>

CInit ==
  /\ record = [s \in Sessions |-> <<>>]
  /\ status = [t \in Turns |-> "new"]
  /\ heard = [t \in Turns |-> {}]

Open == {"open", "asked", "written"}

Advance(t, from, to) ==
  /\ status[t] = from
  /\ status' = [status EXCEPT ![t] = to]

Say(t, role) ==
  record' = [record EXCEPT ![SessionOf[t]] =
               Append(@, [role |-> role, turn |-> t])]

Start(t) ==
  /\ \A u \in Turns : SessionOf[u] = SessionOf[t] => status[u] \notin Open
  /\ Advance(t, "new", "open")
  /\ UNCHANGED <<record, heard>>

Ask(t)   == Advance(t, "open", "asked") /\ Say(t, "human") /\ UNCHANGED heard
Write(t) == Advance(t, "asked", "written") /\ Say(t, "ai") /\ UNCHANGED heard

Hear(t) ==
  /\ Advance(t, "written", "answered")
  /\ heard' = [heard EXCEPT ![t] = {t}]
  /\ UNCHANGED record

(* An error ends one turn, a crash all turns that are open.                *)
Abandon(T) ==
  /\ \A t \in T : status[t] \in Open
  /\ status' = [t \in Turns |-> IF t \in T THEN "abandoned" ELSE status[t]]
  /\ UNCHANGED <<record, heard>>

CNext ==
  \/ \E t \in Turns : Start(t) \/ Ask(t) \/ Write(t) \/ Hear(t)
  \/ \E T \in SUBSET Turns : Abandon(T)

CSpec == CInit /\ [][CNext]_cvars
=============================================================================
