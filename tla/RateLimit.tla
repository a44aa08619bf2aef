------------------------------ MODULE RateLimit ------------------------------
(***************************************************************************)
(* The rate limiter of POST /api/query (src/platform/security/rateLimit.ts *)
(* and its callers): the preHandler checks two counters in Redis, one of   *)
(* the user and one of the tenant, both of the current minute; the         *)
(* controller, later in the request, debits both in one MULTI.  Between    *)
(* the two, any number of other requests may do the same.                  *)
(*                                                                         *)
(* A counter key holds the minute it counts, so a counter is only ever     *)
(* incremented, and it outlives its minute (EXPIRE of 65 s).  A request    *)
(* without a user counts for the user "anon" and that user's own tenant.   *)
(*                                                                         *)
(* Definitions with a suffix (PassesAtLimit, DebitUserOnly, ...) are       *)
(* mutants: an operation with a plausible bug.                             *)
(***************************************************************************)
EXTENDS Integers, FiniteSets, Functions

CONSTANTS
  Requests, Users, Tenants,
  UserOf, TenantOf,   \* of a request
  UserPerMin,         \* quotas.userPerMin
  TenantPerMin,       \* quotas.tenantPerMin
  MaxOpen,            \* bound: requests between check and consume at a time
  MaxWindow           \* bound: the last minute

ASSUME LimitAssumption ==
  /\ IsFiniteSet(Requests)
  /\ UserOf \in [Requests -> Users]
  /\ TenantOf \in [Requests -> Tenants]
  /\ UserPerMin \in Nat \ {0}
  /\ TenantPerMin \in Nat \ {0}
  /\ MaxOpen \in Nat \ {0}
  /\ MaxWindow \in Nat

(* The token of a user names one tenant.                                   *)
ASSUME OneTenantAssumption ==
  \A q, r \in Requests : UserOf[q] = UserOf[r] => TenantOf[q] = TenantOf[r]

VARIABLES
  window,       \* currentWindow(): the minute of the clock
  userCount,    \* rl:u:<user>:query:<window>
  tenantCount,  \* rl:t:<tenant>:query:<window>
  pc,           \* how far a request is
  at,           \* the window its check computed
  waved         \* history: the requests a failed check let through

vars == <<window, userCount, tenantCount, pc, at, waved>>

Windows == 0..MaxWindow

Checking == {"reading", "userOk", "admitted"}
Denied   == {"deniedByUser", "deniedByTenant"}
States   == {"new", "rejected", "running", "succeeded", "failed"}
              \cup Checking \cup Denied

Pending == {r \in Requests : pc[r] \in Checking}

Goto(r, from, to) ==
  /\ pc[r] = from
  /\ pc' = [pc EXCEPT ![r] = to]

(* The preHandler calls check, which computes the window.                  *)
Arrive(r) ==
  /\ Cardinality(Pending) < MaxOpen
  /\ Goto(r, "new", "reading")
  /\ at' = [at EXCEPT ![r] = window]
  /\ UNCHANGED <<window, userCount, tenantCount, waved>>

(***************************************************************************)
(* The two GETs, sent together and answered one after the other.  A full   *)
(* user bucket decides the request whatever count the second GET returns.  *)
(* If either GET fails the check lets the request through: a failure of    *)
(* the second after a full first bucket is a CheckFails that comes first.  *)
(***************************************************************************)
PassesAtLimit(count, limit) == count <= limit
PassesBelowLimit(count, limit) == count + 1 < limit

Passes(count, limit) == count < limit

ReadUser(r) ==
  /\ IF Passes(userCount[<<UserOf[r], at[r]>>], UserPerMin)
       THEN Goto(r, "reading", "userOk")
       ELSE Goto(r, "reading", "deniedByUser")
  /\ UNCHANGED <<window, userCount, tenantCount, at, waved>>

ReadTenant(r) ==
  /\ IF Passes(tenantCount[<<TenantOf[r], at[r]>>], TenantPerMin)
       THEN Goto(r, "userOk", "admitted")
       ELSE Goto(r, "userOk", "deniedByTenant")
  /\ UNCHANGED <<window, userCount, tenantCount, at, waved>>

CheckFails(r) ==
  /\ Goto(r, "reading", "admitted") \/ Goto(r, "userOk", "admitted")
  /\ waved' = waved \cup {r}
  /\ UNCHANGED <<window, userCount, tenantCount, at>>

(* The controller rejects an admitted request before it debits: the body   *)
(* does not parse, or there is no user.                                    *)
Reject(r) ==
  /\ Goto(r, "admitted", "rejected")
  /\ UNCHANGED <<window, userCount, tenantCount, at, waved>>

(***************************************************************************)
(* consume: a MULTI of two INCRs, in a window that consume computes anew:  *)
(* the clock may have moved on since the check.                            *)
(***************************************************************************)
DebitDown(r, w) ==
  /\ userCount' = [userCount EXCEPT ![<<UserOf[r], w>>] = @ - 1]
  /\ tenantCount' = [tenantCount EXCEPT ![<<TenantOf[r], w>>] = @ - 1]

DebitUserOnly(r, w) ==
  /\ userCount' = [userCount EXCEPT ![<<UserOf[r], w>>] = @ + 1]
  /\ UNCHANGED tenantCount

Debit(r, w) ==
  /\ userCount' = [userCount EXCEPT ![<<UserOf[r], w>>] = @ + 1]
  /\ tenantCount' = [tenantCount EXCEPT ![<<TenantOf[r], w>>] = @ + 1]

Consume(r) ==
  /\ Goto(r, "admitted", "running")
  /\ \E w \in at[r]..window : Debit(r, w)
  /\ UNCHANGED <<window, at, waved>>

ConsumeFails(r) ==
  /\ Goto(r, "admitted", "running")
  /\ UNCHANGED <<window, userCount, tenantCount, at, waved>>

(* The query graph runs after the debit, and may throw.                    *)
Finish(r) ==
  /\ Goto(r, "running", "succeeded") \/ Goto(r, "running", "failed")
  /\ UNCHANGED <<window, userCount, tenantCount, at, waved>>

Tick ==
  /\ window < MaxWindow
  /\ window' = window + 1
  /\ UNCHANGED <<userCount, tenantCount, pc, at, waved>>

Init ==
  /\ window = 0
  /\ userCount = [b \in Users \X Windows |-> 0]
  /\ tenantCount = [b \in Tenants \X Windows |-> 0]
  /\ pc = [r \in Requests |-> "new"]
  /\ at = [r \in Requests |-> 0]
  /\ waved = {}

Handle(r) ==
  \/ Arrive(r) \/ ReadUser(r) \/ ReadTenant(r) \/ CheckFails(r) \/ Reject(r)
  \/ Consume(r) \/ ConsumeFails(r) \/ Finish(r)

Next == Tick \/ \E r \in Requests : Handle(r)

Spec == Init /\ [][Next]_vars
-----------------------------------------------------------------------------
TypeOK ==
  /\ window \in Windows
  /\ userCount \in [Users \X Windows -> Nat]
  /\ tenantCount \in [Tenants \X Windows -> Nat]
  /\ pc \in [Requests -> States]
  /\ at \in [Requests -> Windows]
  /\ waved \subseteq Requests

(***************************************************************************)
(* check and consume are two steps, so a bucket can be overdrawn, but by   *)
(* no more than the requests that were between the two at the same time,   *)
(* less one, and those of its requests that a failed check let through.    *)
(* With one request at a time and a Redis that answers, the quota is       *)
(* exact, also when the minute turns between check and consume.            *)
(***************************************************************************)
OverdraftIsBounded ==
  /\ \A b \in Users \X Windows :
       userCount[b] <= UserPerMin + MaxOpen - 1
                         + Cardinality({r \in waved : UserOf[r] = b[1]})
  /\ \A b \in Tenants \X Windows :
       tenantCount[b] <= TenantPerMin + MaxOpen - 1
                           + Cardinality({r \in waved : TenantOf[r] = b[1]})

(***************************************************************************)
(* Nobody is turned away while the bucket that is named as the reason has  *)
(* tokens left in the minute the check looked at.                          *)
(***************************************************************************)
DenialsAreJust ==
  \A r \in Requests :
    /\ pc[r] = "deniedByUser" => userCount[<<UserOf[r], at[r]>>] >= UserPerMin
    /\ pc[r] = "deniedByTenant" =>
         tenantCount[<<TenantOf[r], at[r]>>] >= TenantPerMin

(* Both buckets are debited for the same requests: a tenant's count is the *)
(* sum of the counts of its users.                                         *)
UsersOf(t) == {UserOf[r] : r \in {q \in Requests : TenantOf[q] = t}}

BucketsAgree ==
  \A t \in Tenants, w \in Windows :
    tenantCount[<<t, w>>] = SumFunction([u \in UsersOf(t) |-> userCount[<<u, w>>]])
=============================================================================
