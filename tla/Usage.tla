-------------------------------- MODULE Usage --------------------------------
(***************************************************************************)
(* Metering and billing on top of the rate limiter: a query that was       *)
(* answered is recorded in the table usage_events by an insert nobody      *)
(* waits for (UsageMeter.record), and the billing endpoints sum up the     *)
(* rows of the tenant's current month.                                     *)
(*                                                                         *)
(* The rows of a tenant and a month are kept as their sums.  A request     *)
(* whose caller has no tenant is recorded without one: its row belongs to  *)
(* the tenant RateLimit gives such a request, which nobody can ask for.    *)
(*                                                                         *)
(* Definitions with a suffix (RecordsAll, ...) are mutants.                *)
(***************************************************************************)
EXTENDS RateLimit

CONSTANTS
  Streams,     \* the requests with stream: true
  MonthOf,     \* minute -> its month
  TokenCap,    \* quotas.monthlyTokenCap
  MaxTokens    \* bound: tokens of a streamed answer

ASSUME UsageAssumption ==
  /\ Streams \subseteq Requests
  /\ MonthOf \in [Windows -> Nat]
  /\ \A v, w \in Windows : v <= w => MonthOf[v] <= MonthOf[w]
  /\ TokenCap \in Nat \ {0} /\ MaxTokens \in Nat \ {0}

VARIABLES
  tokens,      \* request -> tokens of the insert under way, None without one
  events       \* usage_events: tenant, month -> calls and tokens

meter == <<tokens, events>>
uvars == <<window, userCount, tenantCount, pc, at, waved, tokens, events>>

Months == {MonthOf[w] : w \in Windows}
None == -1

Inserting == {r \in Requests : tokens[r] # None}

-----------------------------------------------------------------------------
(* runQuery looks for the count in the graph's final state, which has no   *)
(* such channel; streamQuery counts the messages that carry text, of which *)
(* there may be none.                                                      *)
TokensOf(r) == IF r \in Streams THEN 0..MaxTokens ELSE {0}

(* record runs after the graph has returned.                               *)
RecordsAll(r) == TRUE

Records(r) == pc'[r] = "succeeded"

Meter(r) ==
  IF Records(r)
    THEN \E n \in TokensOf(r) : tokens' = [tokens EXCEPT ![r] = n]
    ELSE UNCHANGED tokens

Answer(r) == Finish(r) /\ Meter(r) /\ UNCHANGED events

(* The database dates the row.                                             *)
Added(key, n) ==
  [events EXCEPT ![key] = [calls |-> @.calls + 1, tokens |-> @.tokens + n]]

Insert(r) ==
  /\ r \in Inserting
  /\ events' = Added(<<TenantOf[r], MonthOf[window]>>, tokens[r])
  /\ tokens' = [tokens EXCEPT ![r] = None]
  /\ UNCHANGED vars

(* A failed insert is logged and forgotten.                                *)
Drop(r) ==
  /\ r \in Inserting
  /\ tokens' = [tokens EXCEPT ![r] = None]
  /\ UNCHANGED <<vars, events>>

Limit(r) ==
  /\ \/ Arrive(r) \/ ReadUser(r) \/ ReadTenant(r) \/ CheckFails(r)
     \/ Reject(r) \/ Consume(r) \/ ConsumeFails(r)
  /\ UNCHANGED meter

UInit ==
  /\ Init
  /\ tokens = [r \in Requests |-> None]
  /\ events = [key \in Tenants \X Months |-> [calls |-> 0, tokens |-> 0]]

UNext ==
  \/ Tick /\ UNCHANGED meter
  \/ \E r \in Requests : Limit(r) \/ Answer(r) \/ Insert(r) \/ Drop(r)

USpec == UInit /\ [][UNext]_uvars
-----------------------------------------------------------------------------
(* The rows since the first of the month, and what is left of the cap.     *)
Sum(t, months, field) ==
  SumFunction([m \in months |-> events[<<t, m>>][field]])

Used(t) == Sum(t, {m \in Months : m >= MonthOf[window]}, "tokens")

Remaining(t) == IF Used(t) > TokenCap THEN 0 ELSE TokenCap - Used(t)

UTypeOK ==
  /\ TypeOK
  /\ tokens \in [Requests -> {None} \cup 0..MaxTokens]
  /\ events \in [Tenants \X Months -> [calls : Nat, tokens : Nat]]

(***************************************************************************)
(* A tenant is billed only for queries that were answered, for each at     *)
(* most once, in the month of its minute or a later one, and never for     *)
(* more tokens than his streams produced, although an insert may run long  *)
(* after the response and in another month (query.service.ts, runQuery and *)
(* streamQuery; billing.service.ts).                                       *)
(***************************************************************************)
Served(t, m) ==
  {r \in Requests : pc[r] = "succeeded" /\ TenantOf[r] = t
                      /\ MonthOf[at[r]] <= m}

BilledIsServed ==
  \A t \in Tenants :
    /\ \A m \in Months :
         Sum(t, {n \in Months : n <= m}, "calls")
           + Cardinality(Served(t, m) \cap Inserting)
           <= Cardinality(Served(t, m))
    /\ TokenCap - Remaining(t) <=
         MaxTokens * Cardinality(Served(t, MonthOf[window]) \cap Streams)
=============================================================================
