-------------------------- MODULE RateLimitProofs --------------------------
(***************************************************************************)
(* How far a bucket can be overdrawn, who is turned away and what is       *)
(* billed, for any number of users, tenants, requests and minutes.         *)
(*                                                                         *)
(* The bound itself is not inductive: nothing in it says how many requests *)
(* are on their way to a debit.  Call a request a risk for a bucket if it  *)
(* may still debit it without looking at it again: it has passed the       *)
(* bucket's check, or its check looks at an earlier minute.  Once a bucket *)
(* is full no new risk can arise but by a failed check, because a request  *)
(* that arrives looks at the current minute and finds the bucket full; so  *)
(* from then on the count and the number of risks together grow only with  *)
(* the number of requests that failed checks let through, and when the     *)
(* bucket became full there were at most MaxOpen risks, the last debit     *)
(* included.                                                               *)
(*                                                                         *)
(* That a tenant's count is the sum of the counts of its users needs only  *)
(* the types: a debit changes one value of that sum, or none.              *)
(*                                                                         *)
(* The last part is about Usage: metering watches the limiter and does not *)
(* disturb it, so what is proved of the limiter holds of the metered one.  *)
(* For the bill the invariant says which requests have paid for the rows   *)
(* of the months up to m: those answered by then whose insert is over.     *)
(***************************************************************************)
EXTENDS Usage, CountingProofs

UserRisks(b) ==
  {r \in Pending : /\ UserOf[r] = b[1] /\ at[r] <= b[2]
                   /\ pc[r] = "reading" => at[r] < b[2]}

TenantRisks(b) ==
  {r \in Pending : /\ TenantOf[r] = b[1] /\ at[r] <= b[2]
                   /\ pc[r] \in {"reading", "userOk"} => at[r] < b[2]}

(* The requests of a bucket that a failed check let through.               *)
UserWaved(b) == {r \in waved : UserOf[r] = b[1]}
TenantWaved(b) == {r \in waved : TenantOf[r] = b[1]}

Contained(count, limit, risks, excused) ==
  count >= limit =>
    count + Cardinality(risks) <= limit + MaxOpen - 1 + Cardinality(excused)

FutureIsEmpty ==
  /\ \A b \in Users \X Windows : b[2] > window => userCount[b] = 0
  /\ \A b \in Tenants \X Windows : b[2] > window => tenantCount[b] = 0

WavedHavePassed ==
  \A r \in waved : pc[r] \notin {"new", "reading", "userOk"}

UsersContained ==
  \A b \in Users \X Windows :
    Contained(userCount[b], UserPerMin, UserRisks(b), UserWaved(b))

TenantsContained ==
  \A b \in Tenants \X Windows :
    Contained(tenantCount[b], TenantPerMin, TenantRisks(b), TenantWaved(b))

Inv ==
  /\ TypeOK
  /\ Cardinality(Pending) <= MaxOpen
  /\ FutureIsEmpty
  /\ WavedHavePassed
  /\ UsersContained
  /\ TenantsContained
-----------------------------------------------------------------------------
(* The risks of a bucket are pending requests, and those are finitely      *)
(* many, as are the requests that were let through.                        *)
LEMMA RisksArePending ==
  /\ IsFiniteSet(Pending) /\ Cardinality(Pending) \in Nat
  /\ \A b : UserRisks(b) \subseteq Pending /\ TenantRisks(b) \subseteq Pending
<1>1. Pending \subseteq Requests
  BY DEF Pending
<1>2. IsFiniteSet(Pending)
  BY <1>1, LimitAssumption, FS_Subset
<1>3. QED
  BY <1>2, FS_CardinalityType DEF UserRisks, TenantRisks

(* All four sets of a bucket are finite.                                   *)
LEMMA BucketSetsAreFinite ==
  ASSUME TypeOK, NEW b
  PROVE  /\ IsFiniteSet(UserRisks(b)) /\ IsFiniteSet(TenantRisks(b))
         /\ IsFiniteSet(UserWaved(b)) /\ IsFiniteSet(TenantWaved(b))
<1>1. UserRisks(b) \subseteq Pending /\ TenantRisks(b) \subseteq Pending
  BY RisksArePending
<1>2. UserWaved(b) \subseteq Requests /\ TenantWaved(b) \subseteq Requests
  BY DEF TypeOK, UserWaved, TenantWaved
<1>3. QED
  BY <1>1, <1>2, RisksArePending, LimitAssumption, FS_Subset

(* Fewer risks keep a bucket contained.                                    *)
LEMMA ContainedShrinks ==
  ASSUME NEW R, IsFiniteSet(R), NEW R2, R2 \subseteq R,
         NEW W, IsFiniteSet(W),
         NEW count \in Nat, NEW limit \in Nat, Contained(count, limit, R, W)
  PROVE  Contained(count, limit, R2, W)
<1>1. /\ Cardinality(R2) <= Cardinality(R)
      /\ Cardinality(R) \in Nat /\ Cardinality(R2) \in Nat
  BY FS_Subset, FS_CardinalityType
<1>2. Cardinality(W) \in Nat
  BY FS_CardinalityType
<1>3. QED
  BY <1>1, <1>2, LimitAssumption DEF Contained

(* A debit turns one of at most MaxOpen risks into a count.                *)
LEMMA ContainedDebit ==
  ASSUME NEW R, IsFiniteSet(R), NEW r \in R, NEW R2, R2 \subseteq R \ {r},
         NEW W, IsFiniteSet(W), Cardinality(R) <= MaxOpen,
         NEW count \in Nat, NEW limit \in Nat \ {0}, Contained(count, limit, R, W)
  PROVE  Contained(count + 1, limit, R2, W)
<1>1. /\ IsFiniteSet(R \ {r}) /\ Cardinality(R \ {r}) = Cardinality(R) - 1
      /\ Cardinality(R) \in Nat
  BY FS_RemoveElement, FS_CardinalityType
<1>2. Cardinality(R2) <= Cardinality(R) - 1 /\ Cardinality(R2) \in Nat
  BY <1>1, FS_Subset, FS_CardinalityType
<1>3. Cardinality(W) \in Nat
  BY FS_CardinalityType
<1>4. QED
  BY <1>1, <1>2, <1>3, LimitAssumption DEF Contained

(* A failed check may add a risk, and adds the request to the excused.     *)
LEMMA ContainedExcuse ==
  ASSUME NEW R, IsFiniteSet(R), NEW r, NEW R2, R2 \subseteq R \cup {r},
         NEW W, IsFiniteSet(W), r \notin W,
         NEW count \in Nat, NEW limit \in Nat, Contained(count, limit, R, W)
  PROVE  Contained(count, limit, R2, W \cup {r})
<1>1. /\ IsFiniteSet(R \cup {r}) /\ Cardinality(R \cup {r}) <= Cardinality(R) + 1
      /\ Cardinality(R) \in Nat /\ Cardinality(R \cup {r}) \in Nat
  <2>1. Cardinality(R) \in Nat
    BY FS_CardinalityType
  <2>2. /\ IsFiniteSet(R \cup {r})
        /\ \/ Cardinality(R \cup {r}) = Cardinality(R)
           \/ Cardinality(R \cup {r}) = Cardinality(R) + 1
    BY FS_AddElement
  <2>3. QED  BY <2>1, <2>2
<1>2. Cardinality(R2) <= Cardinality(R) + 1 /\ Cardinality(R2) \in Nat
  <2>1. IsFiniteSet(R2) /\ Cardinality(R2) <= Cardinality(R \cup {r})
    BY <1>1, FS_Subset
  <2>2. QED  BY <1>1, <2>1, FS_CardinalityType
<1>3. Cardinality(W \cup {r}) = Cardinality(W) + 1 /\ Cardinality(W) \in Nat
  BY FS_AddElement, FS_CardinalityType
<1>4. QED
  BY <1>1, <1>2, <1>3, LimitAssumption DEF Contained

(* A step that leaves a user's count alone and makes no new risk for it,   *)
(* or for which the bucket is not full, keeps it contained.                *)
LEMMA UsersStayContained ==
  ASSUME TypeOK, UsersContained, userCount' = userCount, waved' = waved,
         \A b \in Users \X Windows :
           UserRisks(b)' \subseteq UserRisks(b) \/ userCount[b] < UserPerMin
  PROVE  UsersContained'
<1> SUFFICES ASSUME NEW b \in Users \X Windows
             PROVE  Contained(userCount[b], UserPerMin, UserRisks(b)',
                              UserWaved(b))
  BY DEF UsersContained, UserWaved
<1>1. userCount[b] \in Nat /\ UserPerMin \in Nat
  BY LimitAssumption DEF TypeOK
<1>2. CASE userCount[b] < UserPerMin
  BY <1>1, <1>2 DEF Contained
<1>3. CASE UserRisks(b)' \subseteq UserRisks(b)
  <2>1. IsFiniteSet(UserRisks(b)) /\ IsFiniteSet(UserWaved(b))
    BY BucketSetsAreFinite
  <2>2. Contained(userCount[b], UserPerMin, UserRisks(b), UserWaved(b))
    BY DEF UsersContained
  <2>3. QED
    BY <1>1, <1>3, <2>1, <2>2, ContainedShrinks
<1>4. QED
  BY <1>2, <1>3

(* The same for the tenants.                                               *)
LEMMA TenantsStayContained ==
  ASSUME TypeOK, TenantsContained, tenantCount' = tenantCount, waved' = waved,
         \A b \in Tenants \X Windows :
           TenantRisks(b)' \subseteq TenantRisks(b)
             \/ tenantCount[b] < TenantPerMin
  PROVE  TenantsContained'
<1> SUFFICES ASSUME NEW b \in Tenants \X Windows
             PROVE  Contained(tenantCount[b], TenantPerMin, TenantRisks(b)',
                              TenantWaved(b))
  BY DEF TenantsContained, TenantWaved
<1>1. tenantCount[b] \in Nat /\ TenantPerMin \in Nat
  BY LimitAssumption DEF TypeOK
<1>2. CASE tenantCount[b] < TenantPerMin
  BY <1>1, <1>2 DEF Contained
<1>3. CASE TenantRisks(b)' \subseteq TenantRisks(b)
  <2>1. IsFiniteSet(TenantRisks(b)) /\ IsFiniteSet(TenantWaved(b))
    BY BucketSetsAreFinite
  <2>2. Contained(tenantCount[b], TenantPerMin, TenantRisks(b), TenantWaved(b))
    BY DEF TenantsContained
  <2>3. QED
    BY <1>1, <1>3, <2>1, <2>2, ContainedShrinks
<1>4. QED
  BY <1>2, <1>3

(* A step that moves one request to a state in which it is not pending, or *)
(* from one pending state to another, makes no more requests pending.      *)
LEMMA PendingShrinks ==
  ASSUME Cardinality(Pending) <= MaxOpen, Pending' \subseteq Pending
  PROVE  Cardinality(Pending') <= MaxOpen
<1>1. /\ IsFiniteSet(Pending') /\ Cardinality(Pending') <= Cardinality(Pending)
  BY RisksArePending, FS_Subset
<1>2. QED
  BY <1>1, RisksArePending, FS_CardinalityType, LimitAssumption
-----------------------------------------------------------------------------
(* The invariant holds initially.                                          *)
LEMMA InitEstablishesInv == Init => Inv
<1> SUFFICES ASSUME Init PROVE Inv
  OBVIOUS
<1>1. 0 \in Windows
  BY LimitAssumption DEF Windows
<1>2. TypeOK
  BY <1>1 DEF Init, TypeOK, States
<1>9. WavedHavePassed
  BY DEF Init, WavedHavePassed
<1>3. Pending = {}
  BY DEF Init, Pending, Checking
<1>4. Cardinality(Pending) <= MaxOpen
  BY <1>3, FS_EmptySet, LimitAssumption
<1>5. FutureIsEmpty
  BY DEF Init, FutureIsEmpty
<1>6. UsersContained
  BY LimitAssumption DEF Init, UsersContained, Contained
<1>7. TenantsContained
  BY LimitAssumption DEF Init, TenantsContained, Contained
<1>8. QED
  BY <1>2, <1>4, <1>5, <1>6, <1>7, <1>9 DEF Inv

(* A request that arrives is no risk for a bucket of this minute, and the  *)
(* buckets of later minutes are empty.                                     *)
LEMMA ArrivePreservesInv ==
  ASSUME Inv, NEW r \in Requests, Arrive(r)
  PROVE  Inv'
<1>1. /\ pc[r] = "new" /\ pc' = [pc EXCEPT ![r] = "reading"]
      /\ at' = [at EXCEPT ![r] = window]
      /\ UNCHANGED <<window, userCount, tenantCount, waved>>
      /\ Cardinality(Pending) < MaxOpen
  BY DEF Arrive, Goto
<1>2. TypeOK
  BY DEF Inv
<1>3. TypeOK'
  BY <1>1, <1>2 DEF TypeOK, States, Checking
<1>4. Cardinality(Pending') <= MaxOpen
  <2>1. Pending' = Pending \cup {r} /\ r \notin Pending
    BY <1>1, <1>2 DEF Pending, TypeOK, Checking
  <2>2. Cardinality(Pending') = Cardinality(Pending) + 1
    BY <2>1, RisksArePending, FS_AddElement
  <2>3. QED
    BY <1>1, <2>2, RisksArePending, LimitAssumption
<1>5. FutureIsEmpty'
  BY <1>1 DEF Inv, FutureIsEmpty
<1>6. /\ \A q \in Requests : q # r => pc'[q] = pc[q] /\ at'[q] = at[q]
      /\ pc'[r] = "reading" /\ at'[r] = window /\ window \in Int
      /\ \A w \in Windows : w \in Int
  BY <1>1, <1>2 DEF TypeOK, Windows
<1>7. UsersContained'
  <2>1. ASSUME NEW b \in Users \X Windows
        PROVE  UserRisks(b)' \subseteq UserRisks(b) \/ userCount[b] < UserPerMin
    <3>1. CASE b[2] > window
      BY <3>1, LimitAssumption DEF Inv, FutureIsEmpty
    <3>2. CASE ~ (b[2] > window)
      BY <1>6, <3>2 DEF UserRisks, Pending
    <3>3. QED  BY <3>1, <3>2
  <2>2. QED
    BY <1>1, <1>2, <2>1, UsersStayContained DEF Inv
<1>8. TenantsContained'
  <2>1. ASSUME NEW b \in Tenants \X Windows
        PROVE  TenantRisks(b)' \subseteq TenantRisks(b)
                 \/ tenantCount[b] < TenantPerMin
    <3>1. CASE b[2] > window
      BY <3>1, LimitAssumption DEF Inv, FutureIsEmpty
    <3>2. CASE ~ (b[2] > window)
      BY <1>6, <3>2 DEF TenantRisks, Pending
    <3>3. QED  BY <3>1, <3>2
  <2>2. QED
    BY <1>1, <1>2, <2>1, TenantsStayContained DEF Inv
<1>9. WavedHavePassed'
  BY <1>1, <1>2, <1>6 DEF Inv, WavedHavePassed, TypeOK
<1>10. QED
  BY <1>3, <1>4, <1>5, <1>7, <1>8, <1>9 DEF Inv

(* A step of one request that debits nothing: it must not become a risk    *)
(* for a bucket unless that bucket has tokens left.                        *)
LEMMA MovePreservesInv ==
  ASSUME Inv, NEW r \in Requests, NEW to \in States \ {"new"},
         pc' = [pc EXCEPT ![r] = to],
         UNCHANGED <<window, userCount, tenantCount, at, waved>>,
         to \in Checking =>
           \/ /\ pc[r] = "reading" /\ to = "userOk"
              /\ userCount[<<UserOf[r], at[r]>>] < UserPerMin
           \/ /\ pc[r] = "userOk" /\ to = "admitted"
              /\ tenantCount[<<TenantOf[r], at[r]>>] < TenantPerMin
  PROVE  Inv'
<1>1. TypeOK
  BY DEF Inv
<1>2. TypeOK'
  BY <1>1 DEF TypeOK
<1>3. (\A q \in Requests : q # r => pc'[q] = pc[q]) /\ pc'[r] = to
  BY <1>1 DEF TypeOK
<1>4. Pending' \subseteq Pending
  BY <1>3 DEF Pending, Checking
<1>5. Cardinality(Pending') <= MaxOpen
  BY <1>4, PendingShrinks DEF Inv
<1>6. FutureIsEmpty'
  BY DEF Inv, FutureIsEmpty
<1>7. at[r] \in Int /\ \A w \in Windows : w \in Int
  BY <1>1 DEF TypeOK, Windows
<1>8. UsersContained'
  <2>1. ASSUME NEW b \in Users \X Windows, ~ (userCount[b] < UserPerMin),
               NEW q \in UserRisks(b)'
        PROVE  q \in UserRisks(b)
    <3>1. q \in Pending /\ q \in Requests /\ UserOf[q] = b[1] /\ at[q] <= b[2]
      BY <1>4, <2>1 DEF UserRisks, Pending
    <3>2. CASE q # r
      BY <1>3, <2>1, <3>1, <3>2 DEF UserRisks
    <3>3. CASE q = r
      <4>1. to \in Checking
        BY <1>3, <2>1, <3>3 DEF UserRisks, Pending
      <4>2. CASE pc[r] = "userOk"
        BY <3>1, <3>3, <4>2 DEF UserRisks
      <4>3. CASE pc[r] # "userOk"
        <5>1. userCount[<<UserOf[r], at[r]>>] < UserPerMin
          BY <4>1, <4>3
        <5>2. b = <<b[1], b[2]>> /\ b[2] \in Windows
          BY <2>1
        <5>3. at[r] # b[2]
          BY <2>1, <3>1, <3>3, <5>1, <5>2
        <5>4. at[r] < b[2]
          BY <1>7, <3>1, <3>3, <5>2, <5>3
        <5>5. QED
          BY <3>1, <3>3, <5>4 DEF UserRisks
      <4>4. QED  BY <4>2, <4>3
    <3>4. QED  BY <3>2, <3>3
  <2>2. QED
    BY <1>1, <2>1, UsersStayContained DEF Inv
<1>9. TenantsContained'
  <2>1. ASSUME NEW b \in Tenants \X Windows,
               ~ (tenantCount[b] < TenantPerMin), NEW q \in TenantRisks(b)'
        PROVE  q \in TenantRisks(b)
    <3>1. /\ q \in Pending /\ q \in Requests
          /\ TenantOf[q] = b[1] /\ at[q] <= b[2]
      BY <1>4, <2>1 DEF TenantRisks, Pending
    <3>2. CASE q # r
      BY <1>3, <2>1, <3>1, <3>2 DEF TenantRisks
    <3>3. CASE q = r
      <4>1. to \in Checking /\ (to \in {"reading", "userOk"} => at[r] < b[2])
        BY <1>3, <2>1, <3>3 DEF TenantRisks, Pending
      <4>2. CASE to = "userOk"
        BY <3>1, <3>3, <4>1, <4>2 DEF TenantRisks
      <4>3. CASE to # "userOk"
        <5>1. tenantCount[<<TenantOf[r], at[r]>>] < TenantPerMin
          BY <4>1, <4>3
        <5>2. b = <<b[1], b[2]>> /\ b[2] \in Windows
          BY <2>1
        <5>3. at[r] # b[2]
          BY <2>1, <3>1, <3>3, <5>1, <5>2
        <5>4. at[r] < b[2]
          BY <1>7, <3>1, <3>3, <5>2, <5>3
        <5>5. QED
          BY <3>1, <3>3, <5>4 DEF TenantRisks
      <4>4. QED  BY <4>2, <4>3
    <3>4. QED  BY <3>2, <3>3
  <2>2. QED
    BY <1>1, <2>1, TenantsStayContained DEF Inv
<1>10. WavedHavePassed'
  BY <1>1, <1>3 DEF Inv, WavedHavePassed, TypeOK, Checking
<1>11. QED
  BY <1>2, <1>5, <1>6, <1>8, <1>9, <1>10 DEF Inv

(* A failed check: the request may become a risk for every bucket of its   *)
(* user and its tenant, and is excused by each of them.                    *)
LEMMA CheckFailsPreservesInv ==
  ASSUME Inv, NEW r \in Requests, CheckFails(r)
  PROVE  Inv'
<1>1. /\ pc[r] \in {"reading", "userOk"} /\ pc' = [pc EXCEPT ![r] = "admitted"]
      /\ waved' = waved \cup {r}
      /\ UNCHANGED <<window, userCount, tenantCount, at>>
  BY DEF CheckFails, Goto
<1>2. TypeOK
  BY DEF Inv
<1>3. TypeOK'
  BY <1>1, <1>2 DEF TypeOK, States, Checking
<1>4. (\A q \in Requests : q # r => pc'[q] = pc[q]) /\ pc'[r] = "admitted"
  BY <1>1, <1>2 DEF TypeOK
<1>5. Pending' \subseteq Pending
  BY <1>1, <1>4 DEF Pending, Checking
<1>6. Cardinality(Pending') <= MaxOpen
  BY <1>5, PendingShrinks DEF Inv
<1>7. FutureIsEmpty'
  BY <1>1 DEF Inv, FutureIsEmpty
<1>8. WavedHavePassed' /\ r \notin waved
  BY <1>1, <1>2, <1>4 DEF Inv, WavedHavePassed, TypeOK
<1>9. ASSUME NEW b \in Users \X Windows
      PROVE  Contained(userCount[b], UserPerMin, UserRisks(b)', UserWaved(b)')
  <2>1. /\ userCount[b] \in Nat /\ UserPerMin \in Nat
        /\ Contained(userCount[b], UserPerMin, UserRisks(b), UserWaved(b))
        /\ IsFiniteSet(UserRisks(b)) /\ IsFiniteSet(UserWaved(b))
    BY <1>2, BucketSetsAreFinite, LimitAssumption
    DEF Inv, TypeOK, UsersContained
  <2>2. CASE UserOf[r] = b[1]
    <3>1. UserWaved(b)' = UserWaved(b) \cup {r} /\ r \notin UserWaved(b)
      BY <1>1, <1>8, <2>2 DEF UserWaved
    <3>2. UserRisks(b)' \subseteq UserRisks(b) \cup {r}
      BY <1>1, <1>4, <1>5 DEF UserRisks, Pending
    <3>3. QED
      BY <2>1, <3>1, <3>2, ContainedExcuse
  <2>3. CASE UserOf[r] # b[1]
    <3>1. UserWaved(b)' = UserWaved(b)
      BY <1>1, <2>3 DEF UserWaved
    <3>2. UserRisks(b)' \subseteq UserRisks(b)
      BY <1>1, <1>4, <1>5, <2>3 DEF UserRisks, Pending
    <3>3. QED
      BY <2>1, <3>1, <3>2, ContainedShrinks
  <2>4. QED  BY <2>2, <2>3
<1>10. ASSUME NEW b \in Tenants \X Windows
       PROVE  Contained(tenantCount[b], TenantPerMin, TenantRisks(b)',
                        TenantWaved(b)')
  <2>1. /\ tenantCount[b] \in Nat /\ TenantPerMin \in Nat
        /\ Contained(tenantCount[b], TenantPerMin, TenantRisks(b),
                     TenantWaved(b))
        /\ IsFiniteSet(TenantRisks(b)) /\ IsFiniteSet(TenantWaved(b))
    BY <1>2, BucketSetsAreFinite, LimitAssumption
    DEF Inv, TypeOK, TenantsContained
  <2>2. CASE TenantOf[r] = b[1]
    <3>1. TenantWaved(b)' = TenantWaved(b) \cup {r} /\ r \notin TenantWaved(b)
      BY <1>1, <1>8, <2>2 DEF TenantWaved
    <3>2. TenantRisks(b)' \subseteq TenantRisks(b) \cup {r}
      BY <1>1, <1>4, <1>5 DEF TenantRisks, Pending
    <3>3. QED
      BY <2>1, <3>1, <3>2, ContainedExcuse
  <2>3. CASE TenantOf[r] # b[1]
    <3>1. TenantWaved(b)' = TenantWaved(b)
      BY <1>1, <2>3 DEF TenantWaved
    <3>2. TenantRisks(b)' \subseteq TenantRisks(b)
      BY <1>1, <1>4, <1>5, <2>3 DEF TenantRisks, Pending
    <3>3. QED
      BY <2>1, <3>1, <3>2, ContainedShrinks
  <2>4. QED  BY <2>2, <2>3
<1>11. QED
  BY <1>1, <1>3, <1>6, <1>7, <1>8, <1>9, <1>10
  DEF Inv, UsersContained, TenantsContained

(* A debit: the request was a risk for the buckets it debits.              *)
LEMMA ConsumePreservesInv ==
  ASSUME Inv, NEW r \in Requests, Consume(r)
  PROVE  Inv'
<1>1. PICK w \in at[r]..window : Debit(r, w)
  BY DEF Consume
<1>2. /\ pc[r] = "admitted" /\ pc' = [pc EXCEPT ![r] = "running"]
      /\ window' = window /\ at' = at /\ waved' = waved
      /\ userCount' = [userCount EXCEPT ![<<UserOf[r], w>>] = @ + 1]
      /\ tenantCount' = [tenantCount EXCEPT ![<<TenantOf[r], w>>] = @ + 1]
  BY <1>1 DEF Consume, Goto, Debit
<1> DEFINE ub == <<UserOf[r], w>>
           tb == <<TenantOf[r], w>>
<1>3. TypeOK /\ Cardinality(Pending) <= MaxOpen
  BY DEF Inv
<1>4. at[r] \in Int /\ window \in Windows /\ w \in Windows
  <2>1. at[r] \in Windows /\ window \in Windows
    BY <1>3 DEF TypeOK
  <2>2. QED
    BY <1>1, <2>1, LimitAssumption DEF Windows
<1>5. ub \in Users \X Windows /\ tb \in Tenants \X Windows
  BY <1>4, LimitAssumption
<1>6. /\ userCount[ub] \in Nat /\ tenantCount[tb] \in Nat
      /\ userCount'[ub] = userCount[ub] + 1
      /\ tenantCount'[tb] = tenantCount[tb] + 1
      /\ \A b \in Users \X Windows : b # ub => userCount'[b] = userCount[b]
      /\ \A b \in Tenants \X Windows : b # tb => tenantCount'[b] = tenantCount[b]
  BY <1>2, <1>3, <1>5 DEF TypeOK
<1> HIDE DEF ub, tb
<1>7. TypeOK'
  <2>1. userCount' \in [Users \X Windows -> Nat]
    BY <1>2, <1>3, <1>5, <1>6 DEF TypeOK, ub
  <2>2. tenantCount' \in [Tenants \X Windows -> Nat]
    BY <1>2, <1>3, <1>5, <1>6 DEF TypeOK, tb
  <2>3. QED
    BY <1>2, <1>3, <2>1, <2>2 DEF TypeOK, States
<1>8. (\A q \in Requests : q # r => pc'[q] = pc[q]) /\ pc'[r] = "running"
  BY <1>2, <1>3 DEF TypeOK
<1>9. Pending' \subseteq Pending \ {r}
  BY <1>8 DEF Pending, Checking
<1>10. Cardinality(Pending') <= MaxOpen
  BY <1>3, <1>9, PendingShrinks
<1>11. FutureIsEmpty'
  <2>1. ub[2] = w /\ tb[2] = w /\ ~ (w > window)
    BY <1>4 DEF ub, tb, Windows
  <2>2. QED
    BY <1>2, <1>6, <2>1 DEF Inv, FutureIsEmpty
<1>12. /\ \A b : UserRisks(b)' \subseteq UserRisks(b) \ {r}
       /\ \A b : TenantRisks(b)' \subseteq TenantRisks(b) \ {r}
  BY <1>2, <1>8, <1>9 DEF UserRisks, TenantRisks, Pending
<1>13. r \in UserRisks(ub) /\ r \in TenantRisks(tb)
  BY <1>2, <1>4 DEF UserRisks, TenantRisks, Pending, Checking, ub, tb
<1>14. \A b : /\ IsFiniteSet(UserRisks(b)) /\ IsFiniteSet(TenantRisks(b))
              /\ Cardinality(UserRisks(b)) <= MaxOpen
              /\ Cardinality(TenantRisks(b)) <= MaxOpen
  <2> SUFFICES ASSUME NEW b
               PROVE  /\ IsFiniteSet(UserRisks(b)) /\ IsFiniteSet(TenantRisks(b))
                      /\ Cardinality(UserRisks(b)) <= MaxOpen
                      /\ Cardinality(TenantRisks(b)) <= MaxOpen
    OBVIOUS
  <2>1. UserRisks(b) \subseteq Pending /\ TenantRisks(b) \subseteq Pending
    BY RisksArePending
  <2>2. /\ IsFiniteSet(UserRisks(b)) /\ IsFiniteSet(TenantRisks(b))
        /\ Cardinality(UserRisks(b)) <= Cardinality(Pending)
        /\ Cardinality(TenantRisks(b)) <= Cardinality(Pending)
    BY <2>1, RisksArePending, FS_Subset
  <2>3. /\ Cardinality(UserRisks(b)) \in Nat
        /\ Cardinality(TenantRisks(b)) \in Nat
    BY <2>2, FS_CardinalityType
  <2>4. QED
    BY <1>3, <2>2, <2>3, RisksArePending, LimitAssumption
<1>15. ASSUME NEW b \in Users \X Windows
       PROVE  Contained(userCount'[b], UserPerMin, UserRisks(b)',
                        UserWaved(b)')
  <2>0. UserWaved(b)' = UserWaved(b)
    BY <1>2 DEF UserWaved
  <2>1. /\ userCount[b] \in Nat /\ IsFiniteSet(UserWaved(b))
        /\ Contained(userCount[b], UserPerMin, UserRisks(b), UserWaved(b))
    BY <1>3, BucketSetsAreFinite DEF Inv, TypeOK, UsersContained
  <2>2. CASE b = ub
    <3>1. /\ r \in UserRisks(b) /\ UserRisks(b)' \subseteq UserRisks(b) \ {r}
          /\ IsFiniteSet(UserRisks(b)) /\ Cardinality(UserRisks(b)) <= MaxOpen
          /\ UserPerMin \in Nat \ {0}
      BY <1>12, <1>13, <1>14, <2>2, LimitAssumption
    <3>2. Contained(userCount[b] + 1, UserPerMin, UserRisks(b)', UserWaved(b))
      BY <2>1, <3>1, ContainedDebit
    <3>3. QED  BY <1>6, <2>0, <2>2, <3>2
  <2>3. CASE b # ub
    <3>1. /\ UserRisks(b)' \subseteq UserRisks(b) /\ IsFiniteSet(UserRisks(b))
          /\ UserPerMin \in Nat
      BY <1>12, <1>14, LimitAssumption
    <3>2. Contained(userCount[b], UserPerMin, UserRisks(b)', UserWaved(b))
      BY <2>1, <3>1, ContainedShrinks
    <3>3. QED  BY <1>6, <2>0, <2>3, <3>2
  <2>4. QED  BY <2>2, <2>3
<1>16. ASSUME NEW b \in Tenants \X Windows
       PROVE  Contained(tenantCount'[b], TenantPerMin, TenantRisks(b)',
                        TenantWaved(b)')
  <2>0. TenantWaved(b)' = TenantWaved(b)
    BY <1>2 DEF TenantWaved
  <2>1. /\ tenantCount[b] \in Nat /\ IsFiniteSet(TenantWaved(b))
        /\ Contained(tenantCount[b], TenantPerMin, TenantRisks(b),
                     TenantWaved(b))
    BY <1>3, BucketSetsAreFinite DEF Inv, TypeOK, TenantsContained
  <2>2. CASE b = tb
    <3>1. /\ r \in TenantRisks(b) /\ TenantRisks(b)' \subseteq TenantRisks(b) \ {r}
          /\ IsFiniteSet(TenantRisks(b)) /\ Cardinality(TenantRisks(b)) <= MaxOpen
          /\ TenantPerMin \in Nat \ {0}
      BY <1>12, <1>13, <1>14, <2>2, LimitAssumption
    <3>2. Contained(tenantCount[b] + 1, TenantPerMin, TenantRisks(b)', TenantWaved(b))
      BY <2>1, <3>1, ContainedDebit
    <3>3. QED  BY <1>6, <2>0, <2>2, <3>2
  <2>3. CASE b # tb
    <3>1. /\ TenantRisks(b)' \subseteq TenantRisks(b) /\ IsFiniteSet(TenantRisks(b))
          /\ TenantPerMin \in Nat
      BY <1>12, <1>14, LimitAssumption
    <3>2. Contained(tenantCount[b], TenantPerMin, TenantRisks(b)', TenantWaved(b))
      BY <2>1, <3>1, ContainedShrinks
    <3>3. QED  BY <1>6, <2>0, <2>3, <3>2
  <2>4. QED  BY <2>2, <2>3
<1>17. WavedHavePassed'
  BY <1>2, <1>3, <1>8 DEF Inv, WavedHavePassed, TypeOK
<1>18. QED
  BY <1>7, <1>10, <1>11, <1>15, <1>16, <1>17
  DEF Inv, UsersContained, TenantsContained

(* The clock makes no request a risk and leaves the counters alone.        *)
LEMMA TickPreservesInv ==
  ASSUME Inv, Tick
  PROVE  Inv'
<1>1. /\ window' = window + 1 /\ window < MaxWindow
      /\ UNCHANGED <<userCount, tenantCount, pc, at, waved>>
  BY DEF Tick
<1>2. TypeOK' /\ window \in Int
  BY <1>1, LimitAssumption DEF Inv, TypeOK, Windows
<1>3. FutureIsEmpty'
  BY <1>1, <1>2 DEF Inv, FutureIsEmpty, Windows
<1>4. /\ Pending' = Pending
      /\ \A b : UserRisks(b)' = UserRisks(b) /\ TenantRisks(b)' = TenantRisks(b)
      /\ \A b : UserWaved(b)' = UserWaved(b) /\ TenantWaved(b)' = TenantWaved(b)
  BY <1>1 DEF UserRisks, TenantRisks, UserWaved, TenantWaved, Pending
<1>5. QED
  BY <1>1, <1>2, <1>3, <1>4
  DEF Inv, WavedHavePassed, UsersContained, TenantsContained
-----------------------------------------------------------------------------
(* Every step preserves the invariant.                                     *)
LEMMA NextPreservesInv == Inv /\ [Next]_vars => Inv'
<1> SUFFICES ASSUME Inv, [Next]_vars PROVE Inv'
  OBVIOUS
<1>1. CASE UNCHANGED vars
  BY <1>1 DEF vars, Inv, TypeOK, FutureIsEmpty, UsersContained,
              TenantsContained, UserRisks, TenantRisks, UserWaved,
              TenantWaved, WavedHavePassed, Pending
<1>2. CASE Tick
  BY <1>2, TickPreservesInv
<1>3. ASSUME NEW r \in Requests, Handle(r)  PROVE Inv'
  <2>0. {"deniedByUser", "deniedByTenant", "rejected", "running",
         "succeeded", "failed"} \subseteq (States \ {"new"}) \ Checking
    BY DEF States, Checking, Denied
  <2>1. CASE Arrive(r)
    BY <2>1, ArrivePreservesInv
  <2>2. CASE ReadUser(r)
    <3>1. CASE userCount[<<UserOf[r], at[r]>>] < UserPerMin
      <4>1. /\ pc[r] = "reading" /\ pc' = [pc EXCEPT ![r] = "userOk"]
            /\ UNCHANGED <<window, userCount, tenantCount, at, waved>>
        BY <2>2, <3>1 DEF ReadUser, Passes, Goto
      <4>2. "userOk" \in States \ {"new"}
        BY DEF States, Checking
      <4>3. QED  BY <3>1, <4>1, <4>2, MovePreservesInv
    <3>2. CASE ~ (userCount[<<UserOf[r], at[r]>>] < UserPerMin)
      <4>1. /\ pc' = [pc EXCEPT ![r] = "deniedByUser"]
            /\ UNCHANGED <<window, userCount, tenantCount, at, waved>>
        BY <2>2, <3>2 DEF ReadUser, Passes, Goto
      <4>2. QED  BY <2>0, <4>1, MovePreservesInv
    <3>3. QED  BY <3>1, <3>2
  <2>3. CASE ReadTenant(r)
    <3>1. CASE tenantCount[<<TenantOf[r], at[r]>>] < TenantPerMin
      <4>1. /\ pc[r] = "userOk" /\ pc' = [pc EXCEPT ![r] = "admitted"]
            /\ UNCHANGED <<window, userCount, tenantCount, at, waved>>
        BY <2>3, <3>1 DEF ReadTenant, Passes, Goto
      <4>2. "admitted" \in States \ {"new"}
        BY DEF States, Checking
      <4>3. QED  BY <3>1, <4>1, <4>2, MovePreservesInv
    <3>2. CASE ~ (tenantCount[<<TenantOf[r], at[r]>>] < TenantPerMin)
      <4>1. /\ pc' = [pc EXCEPT ![r] = "deniedByTenant"]
            /\ UNCHANGED <<window, userCount, tenantCount, at, waved>>
        BY <2>3, <3>2 DEF ReadTenant, Passes, Goto
      <4>2. QED  BY <2>0, <4>1, MovePreservesInv
    <3>3. QED  BY <3>1, <3>2
  <2>4. CASE CheckFails(r)
    BY <2>4, CheckFailsPreservesInv
  <2>5. CASE Reject(r)
    BY <2>0, <2>5, MovePreservesInv DEF Reject, Goto
  <2>6. CASE Consume(r)
    BY <2>6, ConsumePreservesInv
  <2>7. CASE ConsumeFails(r)
    BY <2>0, <2>7, MovePreservesInv DEF ConsumeFails, Goto
  <2>8. CASE Finish(r)
    BY <2>0, <2>8, MovePreservesInv DEF Finish, Goto
  <2>9. QED
    BY <1>3, <2>1, <2>2, <2>3, <2>4, <2>5, <2>6, <2>7, <2>8 DEF Handle
<1>4. QED
  BY <1>1, <1>2, <1>3 DEF Next

(* A contained bucket is overdrawn by less than MaxOpen and those excused. *)
LEMMA InvBoundsOverdraft == Inv => OverdraftIsBounded
<1> SUFFICES ASSUME Inv  PROVE OverdraftIsBounded
  OBVIOUS
<1>1. ASSUME NEW R, IsFiniteSet(R), NEW W, IsFiniteSet(W),
             NEW count \in Nat, NEW limit \in Nat, Contained(count, limit, R, W)
      PROVE  count <= limit + MaxOpen - 1 + Cardinality(W)
  <2>1. Cardinality(R) \in Nat /\ Cardinality(W) \in Nat
    BY <1>1, FS_CardinalityType
  <2>2. QED
    BY <1>1, <2>1, LimitAssumption DEF Contained
<1>2. ASSUME NEW b \in Users \X Windows
      PROVE  userCount[b] <= UserPerMin + MaxOpen - 1
                               + Cardinality({r \in waved : UserOf[r] = b[1]})
  <2>1. IsFiniteSet(UserRisks(b)) /\ IsFiniteSet(UserWaved(b))
    BY BucketSetsAreFinite DEF Inv
  <2>2. /\ userCount[b] \in Nat /\ UserPerMin \in Nat
        /\ Contained(userCount[b], UserPerMin, UserRisks(b), UserWaved(b))
    BY LimitAssumption DEF Inv, TypeOK, UsersContained
  <2>3. userCount[b] <= UserPerMin + MaxOpen - 1 + Cardinality(UserWaved(b))
    BY <1>1, <2>1, <2>2
  <2>4. QED  BY <2>3 DEF UserWaved
<1>3. ASSUME NEW b \in Tenants \X Windows
      PROVE  tenantCount[b] <= TenantPerMin + MaxOpen - 1
                               + Cardinality({r \in waved : TenantOf[r] = b[1]})
  <2>1. IsFiniteSet(TenantRisks(b)) /\ IsFiniteSet(TenantWaved(b))
    BY BucketSetsAreFinite DEF Inv
  <2>2. /\ tenantCount[b] \in Nat /\ TenantPerMin \in Nat
        /\ Contained(tenantCount[b], TenantPerMin, TenantRisks(b),
                     TenantWaved(b))
    BY LimitAssumption DEF Inv, TypeOK, TenantsContained
  <2>3. tenantCount[b] <= TenantPerMin + MaxOpen - 1 + Cardinality(TenantWaved(b))
    BY <1>1, <2>1, <2>2
  <2>4. QED  BY <2>3 DEF TenantWaved
<1>4. QED
  BY <1>2, <1>3 DEF OverdraftIsBounded

(* Not counting requests that a failed check let through, no minute of a   *)
(* user or a tenant has MaxOpen or more requests above its quota, whatever *)
(* the interleaving of checks, debits, failures and the clock              *)
(* (rateLimit.ts, check and consume).                                      *)
THEOREM OverdraftBound == Spec => []OverdraftIsBounded
<1>1. Init => Inv
  BY InitEstablishesInv
<1>2. Inv /\ [Next]_vars => Inv'
  BY NextPreservesInv
<1>3. Inv => OverdraftIsBounded
  BY InvBoundsOverdraft
<1>4. QED
  BY <1>1, <1>2, <1>3, PTL DEF Spec

(* The invariant holds in every reachable state.                           *)
LEMMA Invariance == Spec => []Inv
<1> QED
  BY InitEstablishesInv, NextPreservesInv, PTL DEF Spec

(* Counts, windows and the states of requests keep their types, whatever   *)
(* the requests and the clock do (rateLimit.ts).                           *)
THEOREM LimiterTypes == Spec => []TypeOK
<1>1. Inv => TypeOK
  BY DEF Inv
<1> QED
  BY <1>1, Invariance, PTL

(* A count never goes down, so a reason to turn somebody away stays one.   *)
LEMMA DenialsStayJust ==
  TypeOK /\ DenialsAreJust /\ [Next]_vars => DenialsAreJust'
<1> SUFFICES ASSUME TypeOK, DenialsAreJust, [Next]_vars, NEW r \in Requests
             PROVE  /\ pc'[r] = "deniedByUser" =>
                         userCount'[<<UserOf[r], at'[r]>>] >= UserPerMin
                    /\ pc'[r] = "deniedByTenant" =>
                         tenantCount'[<<TenantOf[r], at'[r]>>] >= TenantPerMin
  BY DEF DenialsAreJust
<1> DEFINE mine  == <<UserOf[r], at[r]>>
           ours  == <<TenantOf[r], at[r]>>
<1>1. /\ mine \in Users \X Windows /\ ours \in Tenants \X Windows
      /\ userCount[mine] \in Nat /\ tenantCount[ours] \in Nat
      /\ UserPerMin \in Nat /\ TenantPerMin \in Nat
      /\ userCount \in [Users \X Windows -> Nat]
      /\ tenantCount \in [Tenants \X Windows -> Nat]
      /\ pc \in [Requests -> States] /\ at \in [Requests -> Windows]
  BY LimitAssumption DEF TypeOK
<1>2. /\ pc[r] = "deniedByUser" => userCount[mine] >= UserPerMin
      /\ pc[r] = "deniedByTenant" => tenantCount[ours] >= TenantPerMin
  BY DEF DenialsAreJust
<1>3. /\ userCount'[mine] >= userCount[mine] /\ userCount'[mine] \in Nat
      /\ tenantCount'[ours] >= tenantCount[ours] /\ tenantCount'[ours] \in Nat
  <2>1. CASE UNCHANGED <<userCount, tenantCount>>
    BY <1>1, <2>1
  <2>2. ASSUME NEW q \in Requests, Consume(q)
        PROVE  /\ userCount'[mine] >= userCount[mine]
               /\ userCount'[mine] \in Nat
               /\ tenantCount'[ours] >= tenantCount[ours]
               /\ tenantCount'[ours] \in Nat
    <3>1. PICK w \in at[q]..window : Debit(q, w)
      BY <2>2 DEF Consume
    <3>2. PICK user, tenant : user = <<UserOf[q], w>> /\ tenant = <<TenantOf[q], w>>
      OBVIOUS
    <3>3. /\ userCount' = [userCount EXCEPT ![user] = @ + 1]
          /\ tenantCount' = [tenantCount EXCEPT ![tenant] = @ + 1]
      BY <3>1, <3>2 DEF Debit
    <3>4. /\ userCount'[mine] = userCount[mine]
               \/ userCount'[mine] = userCount[mine] + 1
          /\ tenantCount'[ours] = tenantCount[ours]
               \/ tenantCount'[ours] = tenantCount[ours] + 1
      <4> HIDE DEF mine, ours
      <4> QED
        BY <1>1, <3>3
    <3> QED
      BY <1>1, <3>4
  <2> QED
    BY <2>1, <2>2 DEF Next, Handle, Tick, Arrive, ReadUser, ReadTenant,
       CheckFails, Reject, ConsumeFails, Finish, vars
<1>4. \/ pc'[r] = pc[r] /\ at'[r] = at[r]
      \/ pc'[r] \notin Denied
      \/ at'[r] = at[r] /\ ReadUser(r) /\ pc'[r] = "deniedByUser"
      \/ at'[r] = at[r] /\ ReadTenant(r) /\ pc'[r] = "deniedByTenant"
  <2>1. CASE UNCHANGED vars
    BY <2>1 DEF vars
  <2>2. CASE Tick
    BY <2>2 DEF Tick
  <2>3. ASSUME NEW q \in Requests, Handle(q), q # r
        PROVE  pc'[r] = pc[r] /\ at'[r] = at[r]
    BY <1>1, <2>3 DEF Handle, Goto, Arrive, ReadUser, ReadTenant, CheckFails,
       Reject, Consume, ConsumeFails, Finish
  <2>4. CASE Handle(r)
    BY <1>1, <2>4 DEF Handle, Goto, Arrive, ReadUser, ReadTenant, CheckFails,
       Reject, Consume, ConsumeFails, Finish, Denied
  <2> QED
    BY <2>1, <2>2, <2>3, <2>4 DEF Next
<1>5. CASE ReadUser(r) /\ pc'[r] = "deniedByUser" /\ at'[r] = at[r]
  <2>1. ~ (userCount[mine] < UserPerMin) /\ userCount' = userCount
    BY <1>1, <1>5 DEF ReadUser, Goto, Passes
  <2> QED
    BY <1>1, <1>5, <2>1
<1>6. CASE ReadTenant(r) /\ pc'[r] = "deniedByTenant" /\ at'[r] = at[r]
  <2>1. ~ (tenantCount[ours] < TenantPerMin) /\ tenantCount' = tenantCount
    BY <1>1, <1>6 DEF ReadTenant, Goto, Passes
  <2> QED
    BY <1>1, <1>6, <2>1
<1>7. CASE pc'[r] = pc[r] /\ at'[r] = at[r]
  BY <1>1, <1>2, <1>3, <1>7
<1> QED
  BY <1>4, <1>5, <1>6, <1>7 DEF Denied

(***************************************************************************)
(* A request is denied only for a bucket that was full in the minute its   *)
(* check looked at, and the bucket stays full (rateLimit.ts, check).       *)
(***************************************************************************)
THEOREM JustDenials == Spec => []DenialsAreJust
<1>1. Init => DenialsAreJust
  BY DEF Init, DenialsAreJust
<1> QED
  BY <1>1, DenialsStayJust, LimiterTypes, PTL DEF Spec
-----------------------------------------------------------------------------
(* The users of a tenant are finitely many, and their counts are integers. *)
LEMMA UsersAreFinite ==
  ASSUME NEW t
  PROVE  IsFiniteSet(UsersOf(t)) /\ UsersOf(t) \subseteq Users
<1>1. /\ UsersOf(t) \subseteq Users
      /\ \A u \in UsersOf(t) : \E r \in Requests : u = UserOf[r]
  BY LimitAssumption DEF UsersOf
<1>2. IsFiniteSet(UsersOf(t))
  BY <1>1, LimitAssumption, ImageIsFinite
<1> QED
  BY <1>1, <1>2

(* A debit moves the count of one user of one tenant.                      *)
LEMMA DebitAddsUp ==
  ASSUME TypeOK, BucketsAgree, NEW r \in Requests, NEW m \in Windows, Debit(r, m)
  PROVE  BucketsAgree'
<1> SUFFICES ASSUME NEW t \in Tenants, NEW w \in Windows
             PROVE  tenantCount'[<<t, w>>]
                      = SumFunction([u \in UsersOf(t) |-> userCount'[<<u, w>>]])
  BY DEF BucketsAgree, UsersOf
<1> DEFINE f == [u \in UsersOf(t) |-> userCount[<<u, w>>]]
           h == [u \in UsersOf(t) |-> userCount'[<<u, w>>]]
<1>1. /\ IsFiniteSet(UsersOf(t)) /\ UsersOf(t) \subseteq Users
      /\ UserOf[r] \in Users /\ TenantOf[r] \in Tenants
      /\ userCount \in [Users \X Windows -> Nat]
      /\ tenantCount \in [Tenants \X Windows -> Nat]
  BY UsersAreFinite, LimitAssumption DEF TypeOK
<1>2. /\ userCount' = [userCount EXCEPT ![<<UserOf[r], m>>] =
                         userCount[<<UserOf[r], m>>] + 1]
      /\ tenantCount' = [tenantCount EXCEPT ![<<TenantOf[r], m>>] =
                           tenantCount[<<TenantOf[r], m>>] + 1]
  BY DEF Debit
<1>3. tenantCount[<<t, w>>] = SumFunction(f)
  BY DEF BucketsAgree
<1>4. CASE w = m /\ t = TenantOf[r]
  <2> DEFINE x == UserOf[r]
  <2>1. x \in UsersOf(t)
    BY <1>4 DEF UsersOf
  <2>2. f \in [UsersOf(t) -> Int] /\ h \in [UsersOf(t) -> Int]
    BY <1>1, <1>2
  <2>3. h[x] = f[x] + 1 /\ \A y \in UsersOf(t) : y # x => h[y] = f[y]
    BY <1>1, <1>2, <1>4, <2>1
  <2>4. f[x] \in Int
    BY <2>1, <2>2
  <2> HIDE DEF f, h, x
  <2>5. SumFunction(h) = SumFunction(f) - f[x] + h[x]
    BY <1>1, <2>1, <2>2, <2>3, SumChange
  <2>6. SumFunction(f) \in Int
    BY <1>1, <2>2, SumType
  <2>7. tenantCount'[<<t, w>>] = tenantCount[<<t, w>>] + 1
    BY <1>1, <1>2, <1>4
  <2>8. tenantCount'[<<t, w>>] = SumFunction(h)
    BY <1>3, <2>3, <2>4, <2>5, <2>6, <2>7
  <2> QED
    BY <2>8 DEF h
<1>5. CASE ~ (w = m /\ t = TenantOf[r])
  <2>1. \A u \in UsersOf(t) : u = UserOf[r] => t = TenantOf[r]
    BY OneTenantAssumption DEF UsersOf
  <2>2. \A u \in UsersOf(t) : userCount'[<<u, w>>] = userCount[<<u, w>>]
    BY <1>1, <1>2, <1>5, <2>1
  <2>3. h = f
    BY <2>2
  <2>4. tenantCount'[<<t, w>>] = tenantCount[<<t, w>>]
    BY <1>1, <1>2, <1>5
  <2> QED
    BY <1>3, <2>3, <2>4
<1> QED
  BY <1>4, <1>5

(* No other step touches a count.                                          *)
LEMMA BucketsStayInAgreement ==
  TypeOK /\ BucketsAgree /\ [Next]_vars => BucketsAgree'
<1> SUFFICES ASSUME TypeOK, BucketsAgree, [Next]_vars PROVE BucketsAgree'
  OBVIOUS
<1>1. CASE UNCHANGED <<userCount, tenantCount>>
  BY <1>1 DEF BucketsAgree, UsersOf
<1>2. ASSUME NEW r \in Requests, Consume(r) PROVE BucketsAgree'
  <2>1. PICK w \in at[r]..window : Debit(r, w)
    BY <1>2 DEF Consume
  <2>2. at[r] \in Windows /\ window \in Windows
    BY DEF TypeOK
  <2>3. w \in Windows
    BY <2>1, <2>2, LimitAssumption DEF Windows
  <2> QED
    BY <2>1, <2>3, DebitAddsUp
<1> QED
  BY <1>1, <1>2 DEF Next, Handle, Tick, Arrive, ReadUser, ReadTenant,
     CheckFails, Reject, ConsumeFails, Finish, vars

LEMMA BucketsAgreeInitially == Init => BucketsAgree
<1> SUFFICES ASSUME Init, NEW t \in Tenants, NEW w \in Windows
             PROVE  tenantCount[<<t, w>>]
                      = SumFunction([u \in UsersOf(t) |-> userCount[<<u, w>>]])
  BY DEF BucketsAgree
<1> DEFINE f == [u \in UsersOf(t) |-> userCount[<<u, w>>]]
<1>1. IsFiniteSet(UsersOf(t)) /\ UsersOf(t) \subseteq Users
  BY UsersAreFinite
<1>2. f \in [UsersOf(t) -> Int] /\ \A u \in UsersOf(t) : f[u] = 0
  BY <1>1 DEF Init
<1>3. SumFunction(f) = 0
  BY <1>1, <1>2, SumZero
<1>4. tenantCount[<<t, w>>] = 0
  BY DEF Init
<1> QED
  BY <1>3, <1>4

(***************************************************************************)
(* Check and debit may interleave in any way, fail or straddle a minute:   *)
(* the count of a tenant stays the sum of the counts of its users, because *)
(* one MULTI debits both (rateLimit.ts, consume).                          *)
(***************************************************************************)
THEOREM BothBucketsAreDebited == Spec => []BucketsAgree
<1> QED
  BY BucketsAgreeInitially, BucketsStayInAgreement, LimiterTypes, PTL DEF Spec
-----------------------------------------------------------------------------
(* Every step of Usage is a step of RateLimit or leaves its variables.     *)
LEMMA MeteredStep == [UNext]_uvars => [Next]_vars
<1> SUFFICES ASSUME [UNext]_uvars PROVE [Next]_vars
  OBVIOUS
<1>1. CASE Tick
  BY <1>1 DEF Next
<1>2. ASSUME NEW r \in Requests, Limit(r) PROVE Next
  BY <1>2 DEF Limit, Next, Handle
<1>3. ASSUME NEW r \in Requests, Answer(r) PROVE Next
  BY <1>3 DEF Answer, Next, Handle
<1>4. ASSUME NEW r \in Requests, Insert(r) \/ Drop(r) PROVE UNCHANGED vars
  BY <1>4 DEF Insert, Drop
<1>5. CASE UNCHANGED uvars
  BY <1>5 DEF uvars, vars
<1> QED
  BY <1>1, <1>2, <1>3, <1>4, <1>5 DEF UNext

(***************************************************************************)
(* The metered service implements the rate limiter.                        *)
(***************************************************************************)
THEOREM MeteringImplementsLimiter == USpec => Spec
<1>1. UInit => Init
  BY DEF UInit
<1> QED
  BY <1>1, MeteredStep, PTL DEF USpec, Spec

(***************************************************************************)
(* The quotas hold, up to the overdraft, whatever metering does and        *)
(* whenever its inserts run or fail.                                       *)
(***************************************************************************)
THEOREM MeteredOverdraftBound == USpec => []OverdraftIsBounded
<1> QED
  BY MeteringImplementsLimiter, OverdraftBound, PTL

LEMMA MeterStep ==
  ASSUME UTypeOK, TypeOK', [UNext]_uvars
  PROVE  UTypeOK'
<1> USE DEF UTypeOK
<1>1. -1 \notin 0..MaxTokens /\ 0 \in 0..MaxTokens
  BY UsageAssumption
<1>2. CASE UNCHANGED meter
  BY <1>2 DEF meter
<1>3. ASSUME NEW r \in Requests, Answer(r) PROVE UTypeOK'
  <2>1. TokensOf(r) \subseteq 0..MaxTokens
    BY <1>1 DEF TokensOf
  <2>2. /\ events' = events
        /\ \/ tokens' = tokens
           \/ \E n \in TokensOf(r) : tokens' = [tokens EXCEPT ![r] = n]
    BY <1>3 DEF Answer, Meter
  <2> QED
    BY <2>1, <2>2
<1>4. ASSUME NEW r \in Requests, Insert(r) PROVE UTypeOK'
  <2> DEFINE key == <<TenantOf[r], MonthOf[window]>>
  <2>1. key \in Tenants \X Months
    BY LimitAssumption DEF Months, TypeOK
  <2>2. tokens[r] \in 0..MaxTokens /\ tokens[r] \in Nat
    BY <1>4, UsageAssumption DEF Insert, Inserting
  <2>3. events' = [events EXCEPT ![key] =
                     [calls  |-> events[key].calls + 1,
                      tokens |-> events[key].tokens + tokens[r]]]
    BY <1>4 DEF Insert, Added
  <2>4. [calls  |-> events[key].calls + 1,
         tokens |-> events[key].tokens + tokens[r]] \in [calls : Nat, tokens : Nat]
    <3>1. events[key] \in [calls : Nat, tokens : Nat]
      BY <2>1
    <3> QED
      BY <2>2, <3>1
  <2>5. events' \in [Tenants \X Months -> [calls : Nat, tokens : Nat]]
    BY <2>3, <2>4
  <2> QED
    BY <1>4, <2>5 DEF Insert
<1>5. ASSUME NEW r \in Requests, Drop(r) PROVE UTypeOK'
  BY <1>5 DEF Drop
<1>6. ASSUME NEW r \in Requests, Limit(r) PROVE UNCHANGED meter
  BY <1>6 DEF Limit
<1> QED
  BY <1>2, <1>3, <1>4, <1>5, <1>6 DEF UNext, uvars, meter

(* The meter's variables keep their types (metering.ts).                 *)
THEOREM MeterTypes == USpec => []UTypeOK
<1>1. UInit /\ TypeOK => UTypeOK
  BY DEF UInit, UTypeOK
<1> QED
  BY <1>1, MeterStep, MeteringImplementsLimiter, LimiterTypes, PTL DEF USpec

-----------------------------------------------------------------------------
(***************************************************************************)
(* What a tenant is billed for: a request that was answered and whose      *)
(* insert is no longer under way pays for at most one row.                 *)
(***************************************************************************)
Done(t, m) == Served(t, m) \ Inserting
Upto(m) == {n \in Months : n <= m}

Covered(field, base, cost) ==
  \A t \in Tenants, m \in Months :
    Sum(t, Upto(m), field) <= cost * Cardinality(Done(t, m) \cap base)

RecordsAreServed ==
  \A r \in Inserting : pc[r] = "succeeded" /\ tokens[r] \in TokensOf(r)

ChecksArePast == \A r \in Requests : at[r] <= window

FutureIsUnbilled ==
  \A t \in Tenants, m \in Months :
    m > MonthOf[window] => events[<<t, m>>].tokens = 0

MeterInv ==
  /\ UTypeOK
  /\ ChecksArePast
  /\ RecordsAreServed
  /\ FutureIsUnbilled
  /\ Covered("calls", Requests, 1)
  /\ Covered("tokens", Streams, MaxTokens)

(* The months and the requests are finitely many.                          *)
LEMMA MonthsAreFinite ==
  /\ IsFiniteSet(Months) /\ Months \subseteq Nat
  /\ \A w \in Windows : MonthOf[w] \in Months
<1>1. IsFiniteSet(Windows)
  BY LimitAssumption, FS_Interval DEF Windows
<1>2. Months \subseteq Nat /\ \A w \in Windows : MonthOf[w] \in Months
  BY UsageAssumption DEF Months
<1>3. \A m \in Months : \E w \in Windows : m = MonthOf[w]
  BY DEF Months
<1>4. IsFiniteSet(Months)
  BY <1>1, <1>3, UsageAssumption, ImageIsFinite
<1> QED
  BY <1>2, <1>4

LEMMA DoneIsFinite ==
  ASSUME NEW t, NEW m, NEW base
  PROVE  /\ IsFiniteSet(Served(t, m)) /\ Cardinality(Served(t, m)) \in Nat
         /\ IsFiniteSet(Done(t, m)) /\ Cardinality(Done(t, m)) \in Nat
         /\ IsFiniteSet(Done(t, m) \cap base)
         /\ Cardinality(Done(t, m) \cap base) \in Nat
<1>1. /\ Served(t, m) \subseteq Requests /\ Done(t, m) \subseteq Requests
      /\ Done(t, m) \cap base \subseteq Requests
  BY DEF Done, Served
<1>2. /\ IsFiniteSet(Served(t, m)) /\ IsFiniteSet(Done(t, m))
      /\ IsFiniteSet(Done(t, m) \cap base)
  BY <1>1, LimitAssumption, FS_Subset
<1> QED
  BY <1>2, FS_CardinalityType

(* The rows of some months add up to a natural number.                     *)
LEMMA RowsAddUp ==
  ASSUME UTypeOK, NEW t \in Tenants, NEW S \in SUBSET Months,
         NEW field \in {"calls", "tokens"}, NEW f,
         f = [m \in S |-> events[<<t, m>>][field]]
  PROVE  /\ IsFiniteSet(S) /\ f \in [S -> Nat] /\ f \in [S -> Int]
         /\ SumFunction(f) \in Nat
<1>1. IsFiniteSet(S)
  BY MonthsAreFinite, FS_Subset
<1>2. f \in [S -> Nat] /\ f \in [S -> Int]
  BY DEF UTypeOK
<1> QED
  BY <1>1, <1>2, SumNatural

(* Room for one more row in a larger set, at most at the cost of one.      *)
LEMMA CoverGrows ==
  ASSUME NEW A, NEW B, IsFiniteSet(B), A \subseteq B,
         NEW cost \in Nat, NEW s \in Int, s <= cost * Cardinality(A),
         NEW x \in Nat, x <= cost, x # 0 => A # B
  PROVE  s + x <= cost * Cardinality(B)
<1>1. /\ Cardinality(A) \in Nat /\ Cardinality(B) \in Nat
      /\ Cardinality(A) <= Cardinality(B)
      /\ A # B => Cardinality(A) # Cardinality(B)
  BY FS_Subset, FS_CardinalityType
<1>2. \A a, b, c \in Nat : a <= b => c * a <= c * b
  OBVIOUS
<1>3. \A a, c \in Nat : c * (a + 1) = c * a + c
  OBVIOUS
<1>4. CASE x = 0
  <2>1. cost * Cardinality(A) <= cost * Cardinality(B)
    BY <1>1, <1>2
  <2>2. cost * Cardinality(A) \in Int /\ cost * Cardinality(B) \in Int
    BY <1>1
  <2> QED
    BY <1>4, <2>1, <2>2
<1>5. CASE x # 0
  <2>1. Cardinality(A) + 1 <= Cardinality(B)
    BY <1>1, <1>5
  <2>2. cost * (Cardinality(A) + 1) <= cost * Cardinality(B)
    BY <1>1, <1>2, <2>1
  <2>3. cost * (Cardinality(A) + 1) = cost * Cardinality(A) + cost
    BY <1>1, <1>3
  <2>4. cost * Cardinality(A) \in Int /\ cost * Cardinality(B) \in Int
    BY <1>1
  <2> QED
    BY <2>2, <2>3, <2>4
<1> QED
  BY <1>4, <1>5

(* Only Arrive says when a request was checked, and only for a new one.    *)
LEMMA ChecksStayPast ==
  ASSUME UTypeOK, ChecksArePast, [UNext]_uvars
  PROVE  /\ ChecksArePast'
         /\ \A r \in Requests :
              pc[r] \in {"running", "succeeded"} => at'[r] = at[r]
         /\ \A r \in Requests : pc[r] = "succeeded" => pc'[r] = "succeeded"
<1>1. /\ at \in [Requests -> Windows] /\ pc \in [Requests -> States]
      /\ window \in Nat /\ \A r \in Requests : at[r] <= window
  BY LimitAssumption DEF UTypeOK, TypeOK, Windows, ChecksArePast
<1>2. CASE UNCHANGED <<at, pc>> /\ (window' = window \/ window' = window + 1)
  <2>1. \A r \in Requests : at[r] \in Nat
    BY <1>1 DEF Windows
  <2> QED
    BY <1>1, <1>2, <2>1 DEF ChecksArePast
<1>3. ASSUME NEW q \in Requests, Arrive(q)
      PROVE  /\ ChecksArePast'
             /\ \A r \in Requests :
                  pc[r] \in {"running", "succeeded"} => at'[r] = at[r]
             /\ \A r \in Requests : pc[r] = "succeeded" => pc'[r] = "succeeded"
  BY <1>1, <1>3 DEF Arrive, Goto, ChecksArePast
<1>4. ASSUME NEW q \in Requests, UNCHANGED <<at, window>>,
             NEW from \in States \ {"succeeded"}, NEW to \in States, Goto(q, from, to)
      PROVE  /\ ChecksArePast'
             /\ \A r \in Requests :
                  pc[r] \in {"running", "succeeded"} => at'[r] = at[r]
             /\ \A r \in Requests : pc[r] = "succeeded" => pc'[r] = "succeeded"
  BY <1>1, <1>4 DEF Goto, ChecksArePast
<1>5. ASSUME NEW q \in Requests,
             ReadUser(q) \/ ReadTenant(q) \/ CheckFails(q) \/ Reject(q)
               \/ Consume(q) \/ ConsumeFails(q) \/ Finish(q)
      PROVE  /\ UNCHANGED <<at, window>>
             /\ \E from \in States \ {"succeeded"}, to \in States : Goto(q, from, to)
  BY <1>5 DEF ReadUser, ReadTenant, CheckFails, Reject, Consume, ConsumeFails,
     Finish, States, Checking, Denied
<1>6. ASSUME NEW q \in Requests, Limit(q) \/ Answer(q)
      PROVE  \/ Arrive(q)
             \/ ReadUser(q) \/ ReadTenant(q) \/ CheckFails(q) \/ Reject(q)
                  \/ Consume(q) \/ ConsumeFails(q) \/ Finish(q)
  BY <1>6 DEF Limit, Answer
<1>7. CASE Tick \/ UNCHANGED uvars
  BY <1>2, <1>7 DEF Tick, uvars
<1>8. ASSUME NEW q \in Requests, Insert(q) \/ Drop(q)
      PROVE  UNCHANGED <<at, pc>> /\ window' = window
  BY <1>8 DEF Insert, Drop, vars
<1> QED
  BY <1>2, <1>3, <1>4, <1>5, <1>6, <1>7, <1>8 DEF UNext

(* A request records when it succeeds, once.                               *)
LEMMA RecordsStayServed ==
  ASSUME UTypeOK, ChecksArePast, RecordsAreServed, [UNext]_uvars
  PROVE  /\ RecordsAreServed'
         /\ \A r \in Requests :
              pc[r] = "succeeded" /\ tokens[r] = None => tokens'[r] = None
<1> DEFINE Quiet(r) == pc[r] = "succeeded" /\ tokens[r] = None
<1>1. /\ \A r \in Requests : pc[r] = "succeeded" => pc'[r] = "succeeded"
      /\ tokens \in [Requests -> {None} \cup 0..MaxTokens]
      /\ pc \in [Requests -> States]
  BY ChecksStayPast DEF UTypeOK, TypeOK
<1>2. \A r \in Requests :
        tokens[r] # None => pc[r] = "succeeded" /\ tokens[r] \in TokensOf(r)
  BY DEF RecordsAreServed, Inserting
<1>3. \A r \in Requests : TokensOf(r)' = TokensOf(r)
  BY DEF TokensOf
<1>4. CASE UNCHANGED tokens
  BY <1>1, <1>2, <1>4 DEF RecordsAreServed, Inserting, TokensOf
<1>5. ASSUME NEW q \in Requests, tokens' = [tokens EXCEPT ![q] = None]
      PROVE  RecordsAreServed' /\ \A r \in Requests : Quiet(r) => tokens'[r] = None
  BY <1>1, <1>2, <1>5 DEF RecordsAreServed, Inserting, TokensOf
<1>6. ASSUME NEW q \in Requests, Answer(q), pc'[q] = "succeeded",
             NEW n \in TokensOf(q), tokens' = [tokens EXCEPT ![q] = n]
      PROVE  RecordsAreServed' /\ \A r \in Requests : Quiet(r) => tokens'[r] = None
  <2>1. pc[q] = "running"
    BY <1>6 DEF Answer, Finish, Goto
  <2> QED
    BY <1>1, <1>2, <1>6, <2>1 DEF RecordsAreServed, Inserting, TokensOf
<1>7. ASSUME NEW q \in Requests, Answer(q)
      PROVE  RecordsAreServed' /\ \A r \in Requests : Quiet(r) => tokens'[r] = None
  BY <1>4, <1>6, <1>7 DEF Answer, Meter, Records
<1>8. ASSUME NEW q \in Requests, Insert(q) \/ Drop(q)
      PROVE  tokens' = [tokens EXCEPT ![q] = None]
  BY <1>8 DEF Insert, Drop
<1>9. ASSUME NEW q \in Requests, Limit(q) PROVE UNCHANGED tokens
  BY <1>9 DEF Limit, meter
<1> QED
  BY <1>4, <1>5, <1>7, <1>8, <1>9 DEF UNext, uvars, meter

(* So a request that is done stays done.                                   *)
LEMMA DoneGrows ==
  ASSUME UTypeOK, ChecksArePast, RecordsAreServed, [UNext]_uvars, NEW t, NEW m
  PROVE  Done(t, m) \subseteq Done(t, m)'
<1> SUFFICES ASSUME NEW r \in Done(t, m) PROVE r \in Done(t, m)'
  OBVIOUS
<1>1. /\ r \in Requests /\ pc[r] = "succeeded" /\ tokens[r] = None
      /\ TenantOf[r] = t /\ MonthOf[at[r]] <= m
  BY DEF Done, Served, Inserting
<1>2. pc'[r] = "succeeded" /\ at'[r] = at[r] /\ tokens'[r] = None
  BY <1>1, ChecksStayPast, RecordsStayServed
<1> QED
  BY <1>1, <1>2 DEF Done, Served, Inserting

(* A step that inserts nothing leaves the sums alone.                      *)
LEMMA QuietStepCovers ==
  ASSUME UTypeOK, ChecksArePast, RecordsAreServed, [UNext]_uvars,
         events' = events, NEW field \in {"calls", "tokens"},
         NEW base, NEW cost \in Nat, Covered(field, base, cost)
  PROVE  Covered(field, base, cost)'
<1> SUFFICES ASSUME NEW t \in Tenants, NEW m \in Months
             PROVE  Sum(t, Upto(m), field)'
                      <= cost * Cardinality(Done(t, m)' \cap base)
  BY DEF Covered, Months
<1>1. Sum(t, Upto(m), field)' = Sum(t, Upto(m), field)
  BY DEF Sum, Upto, Months
<1>2. Sum(t, Upto(m), field) \in Int
  <2>1. Upto(m) \in SUBSET Months
    BY DEF Upto
  <2> QED
    BY <2>1, RowsAddUp DEF Sum
<1>3. Done(t, m) \cap base \subseteq Done(t, m)' \cap base
  BY DoneGrows
<1>4. IsFiniteSet(Done(t, m)' \cap base)
  <2>1. Done(t, m)' \cap base \subseteq Requests
    BY DEF Done, Served
  <2> QED
    BY <2>1, LimitAssumption, FS_Subset
<1>5. Sum(t, Upto(m), field) <= cost * Cardinality(Done(t, m) \cap base)
  BY DEF Covered
<1>6. Sum(t, Upto(m), field) + 0 <= cost * Cardinality(Done(t, m)' \cap base)
  BY <1>2, <1>3, <1>4, <1>5, CoverGrows
<1> QED
  BY <1>1, <1>2, <1>6

(***************************************************************************)
(* An insert adds a row in a month the request was checked in or a later   *)
(* one, and from then on the request is done: every sum the row enters has *)
(* one more request to pay for it.                                         *)
(***************************************************************************)
LEMMA InsertCovers ==
  ASSUME UTypeOK, ChecksArePast, RecordsAreServed, NEW r \in Requests, Insert(r),
         NEW field \in {"calls", "tokens"}, NEW base, NEW cost \in Nat,
         NEW x \in Nat, x <= cost, x # 0 => r \in base,
         NEW month, month = MonthOf[window],
         \A t \in Tenants, n \in Months :
           events'[<<t, n>>][field] =
             events[<<t, n>>][field]
               + (IF t = TenantOf[r] /\ n = month THEN x ELSE 0),
         Covered(field, base, cost)
  PROVE  Covered(field, base, cost)'
<1> SUFFICES ASSUME NEW t \in Tenants, NEW m \in Months
             PROVE  Sum(t, Upto(m), field)'
                      <= cost * Cardinality(Done(t, m)' \cap base)
  BY DEF Covered, Months
<1>0. [UNext]_uvars
  BY DEF UNext
<1> DEFINE S == Upto(m)
           f == [n \in S |-> events[<<t, n>>][field]]
           h == [n \in S |-> events'[<<t, n>>][field]]
<1>1. /\ month \in Months /\ month \in Nat /\ m \in Nat
      /\ \A q \in Requests : at[q] \in Windows /\ MonthOf[at[q]] \in Nat
      /\ window \in Windows
  BY MonthsAreFinite DEF UTypeOK, TypeOK
<1>2. MonthOf[at[r]] <= month
  BY <1>1, UsageAssumption DEF ChecksArePast
<1>3. /\ pc[r] = "succeeded" /\ tokens[r] # None /\ pc' = pc /\ at' = at
      /\ tokens' = [tokens EXCEPT ![r] = None]
      /\ tokens \in [Requests -> {None} \cup 0..MaxTokens]
  BY DEF Insert, Inserting, RecordsAreServed, vars, UTypeOK
<1>4. S \in SUBSET Months
  BY DEF Upto
<1>5. /\ IsFiniteSet(S) /\ f \in [S -> Int] /\ SumFunction(f) \in Int
  <2>1. f = [n \in S |-> events[<<t, n>>][field]]
    OBVIOUS
  <2> HIDE DEF f, S
  <2> QED
    BY <1>4, <2>1, RowsAddUp
<1>6. /\ Sum(t, S, field) = SumFunction(f)
      /\ Sum(t, Upto(m), field)' = SumFunction(h)
  BY DEF Sum, Upto, Months
<1>7. Sum(t, S, field) <= cost * Cardinality(Done(t, m) \cap base)
  BY DEF Covered
<1>8. Done(t, m) \cap base \subseteq Done(t, m)' \cap base
  BY <1>0, DoneGrows
<1>9. IsFiniteSet(Done(t, m)' \cap base)
  <2>1. Done(t, m)' \cap base \subseteq Requests
    BY DEF Done, Served
  <2> QED
    BY <2>1, LimitAssumption, FS_Subset
<1>10. \A n \in S : h[n] = f[n] + (IF t = TenantOf[r] /\ n = month THEN x ELSE 0)
  BY <1>4
<1>11. h \in [S -> Int]
  <2>1. \A n \in S : h[n] \in Int
    <3> HIDE DEF f, h
    <3> QED
      BY <1>5, <1>10
  <2> QED
    BY <2>1
<1>12. CASE t = TenantOf[r] /\ month \in S
  <2>1. MonthOf[at[r]] <= m
    BY <1>1, <1>2, <1>12 DEF Upto
  <2>2. r \in Done(t, m)' /\ r \notin Done(t, m)
    BY <1>3, <1>12, <2>1 DEF Done, Served, Inserting
  <2>3. x # 0 => Done(t, m) \cap base # Done(t, m)' \cap base
    BY <2>2
  <2>4. SumFunction(f) + x <= cost * Cardinality(Done(t, m)' \cap base)
    BY <1>5, <1>6, <1>7, <1>8, <1>9, <2>3, CoverGrows
  <2>5. h[month] = f[month] + x /\ \A n \in S : n # month => h[n] = f[n]
    <3>1. f[month] \in Int /\ \A n \in S : f[n] \in Int
      <4> HIDE DEF f
      <4> QED
        BY <1>5, <1>12
    <3> HIDE DEF f, h
    <3> QED
      BY <1>10, <1>12, <3>1
  <2>6. SumFunction(h) = SumFunction(f) - f[month] + h[month]
    <3> HIDE DEF f, h, S
    <3> QED
      BY <1>5, <1>11, <1>12, <2>5, SumChange
  <2>7. f[month] \in Int
    <3> HIDE DEF f
    <3> QED
      BY <1>5, <1>12
  <2> HIDE DEF f, h
  <2> QED
    BY <1>5, <1>6, <2>4, <2>5, <2>6, <2>7
<1>13. CASE ~ (t = TenantOf[r] /\ month \in S)
  <2>1. \A n \in S : h[n] = f[n]
    <3>1. \A n \in S : f[n] \in Int
      <4> HIDE DEF f
      <4> QED
        BY <1>5
    <3> HIDE DEF f, h
    <3> QED
      BY <1>10, <1>13, <3>1
  <2>2. h = f
    BY <2>1
  <2>3. SumFunction(f) + 0 <= cost * Cardinality(Done(t, m)' \cap base)
    <3> HIDE DEF f, h
    <3> QED
      BY <1>5, <1>6, <1>7, <1>8, <1>9, CoverGrows
  <2> HIDE DEF f, h
  <2> QED
    BY <1>5, <1>6, <2>2, <2>3
<1> QED
  BY <1>12, <1>13

(* The row that Insert writes, field by field.                             *)
LEMMA InsertedRow ==
  ASSUME UTypeOK, NEW r \in Requests, Insert(r), NEW month, month = MonthOf[window]
  PROVE  /\ tokens[r] \in 0..MaxTokens
         /\ \A t \in Tenants, n \in Months :
              events'[<<t, n>>]["calls"] =
                events[<<t, n>>]["calls"]
                  + (IF t = TenantOf[r] /\ n = month THEN 1 ELSE 0)
         /\ \A t \in Tenants, n \in Months :
              events'[<<t, n>>]["tokens"] =
                events[<<t, n>>]["tokens"]
                  + (IF t = TenantOf[r] /\ n = month THEN tokens[r] ELSE 0)
<1> DEFINE key == <<TenantOf[r], MonthOf[window]>>
           row == [calls  |-> events[key].calls + 1,
                   tokens |-> events[key].tokens + tokens[r]]
<1>1. tokens[r] \in 0..MaxTokens
  BY DEF Insert, Inserting, UTypeOK
<1>2. key \in Tenants \X Months
  BY LimitAssumption, MonthsAreFinite DEF UTypeOK, TypeOK
<1>3. events \in [Tenants \X Months -> [calls : Nat, tokens : Nat]]
  BY DEF UTypeOK
<1>4. events' = [events EXCEPT ![key] = row]
  BY DEF Insert, Added
<1>5. /\ row["calls"] = events[key]["calls"] + 1
      /\ row["tokens"] = events[key]["tokens"] + tokens[r]
  OBVIOUS
<1> HIDE DEF row
<1>6. ASSUME NEW t \in Tenants, NEW n \in Months
      PROVE  /\ t = TenantOf[r] /\ n = MonthOf[window] => events'[<<t, n>>] = row
             /\ ~ (t = TenantOf[r] /\ n = MonthOf[window]) =>
                  events'[<<t, n>>] = events[<<t, n>>]
  BY <1>2, <1>3, <1>4
<1>7. ASSUME NEW t \in Tenants, NEW n \in Months
      PROVE  events[<<t, n>>]["calls"] \in Nat /\ events[<<t, n>>]["tokens"] \in Nat
  BY <1>3
<1> QED
  BY <1>1, <1>5, <1>6, <1>7

(* Every step preserves the invariant of the meter.                        *)
LEMMA MeterStepPreservesInv ==
  ASSUME MeterInv, UTypeOK', [UNext]_uvars
  PROVE  MeterInv'
<1> USE DEF MeterInv
<1>1. ChecksArePast'
  BY ChecksStayPast
<1>2. RecordsAreServed'
  BY RecordsStayServed
<1>3. 1 \in Nat /\ MaxTokens \in Nat
  BY UsageAssumption
<1>4. CASE events' = events
  <2>1. Covered("calls", Requests, 1)'
    BY <1>3, <1>4, QuietStepCovers
  <2>2. Covered("tokens", Streams, MaxTokens)'
    BY <1>3, <1>4, QuietStepCovers
  <2>3. FutureIsUnbilled'
    <3>1. window \in Windows /\ window' \in Windows /\ window <= window'
      <4>1. window' = window \/ window' = window + 1
        BY DEF UNext, Limit, Answer, Insert, Drop, Tick, Arrive, ReadUser,
           ReadTenant, CheckFails, Reject, Consume, ConsumeFails, Finish, vars,
           uvars
      <4>2. window \in Windows /\ window' \in Windows
        BY DEF UTypeOK, TypeOK
      <4> QED
        BY <4>1, <4>2 DEF Windows
    <3>2. /\ MonthOf[window] <= MonthOf[window'] /\ MonthOf[window] \in Nat
          /\ MonthOf[window'] \in Nat /\ Months \subseteq Nat
      BY <3>1, UsageAssumption, MonthsAreFinite
    <3>3. \A m \in Months : m > MonthOf[window'] => m > MonthOf[window]
      BY <3>2
    <3> QED
      BY <1>4, <3>3 DEF FutureIsUnbilled, Months
  <2> QED
    BY <1>1, <1>2, <2>1, <2>2, <2>3
<1>5. ASSUME NEW r \in Requests, Insert(r) PROVE MeterInv'
  <2>1. PICK month : month = MonthOf[window]
    OBVIOUS
  <2>2. /\ tokens[r] \in Nat /\ tokens[r] <= MaxTokens
        /\ tokens[r] # 0 => r \in Streams
    <3>1. tokens[r] \in 0..MaxTokens
      BY <1>5, InsertedRow
    <3>2. tokens[r] \in TokensOf(r)
      BY <1>5 DEF RecordsAreServed, Insert
    <3> QED
      BY <1>3, <3>1, <3>2 DEF TokensOf
  <2>3. /\ \A t \in Tenants, n \in Months :
             events'[<<t, n>>]["calls"] =
               events[<<t, n>>]["calls"]
                 + (IF t = TenantOf[r] /\ n = month THEN 1 ELSE 0)
        /\ \A t \in Tenants, n \in Months :
             events'[<<t, n>>]["tokens"] =
               events[<<t, n>>]["tokens"]
                 + (IF t = TenantOf[r] /\ n = month THEN tokens[r] ELSE 0)
    <3> HIDE DEF MeterInv
    <3>1. UTypeOK
      BY DEF MeterInv
    <3> QED
      BY <1>5, <2>1, <3>1, InsertedRow
  <2>4. Covered("calls", Requests, 1)'
    BY <1>3, <1>5, <2>1, <2>3, InsertCovers
  <2>5. Covered("tokens", Streams, MaxTokens)'
    BY <1>3, <1>5, <2>1, <2>2, <2>3, InsertCovers
  <2>6. FutureIsUnbilled'
    <3>1. window' = window /\ month \in Nat /\ Months \subseteq Nat
      BY <1>5, <2>1, MonthsAreFinite DEF Insert, vars, UTypeOK, TypeOK
    <3>2. ASSUME NEW t \in Tenants, NEW m \in Months, m > month
          PROVE  events'[<<t, m>>]["tokens"] = 0
      <4>1. events[<<t, m>>]["tokens"] = 0 /\ m # month
        BY <2>1, <3>1, <3>2 DEF FutureIsUnbilled
      <4> QED
        BY <2>3, <4>1
    <3> QED
      BY <2>1, <3>1, <3>2 DEF FutureIsUnbilled, Months
  <2> QED
    BY <1>1, <1>2, <2>4, <2>5, <2>6
<1> QED
  BY <1>4, <1>5 DEF UNext, Limit, Answer, Drop, meter, uvars

LEMMA MeterInvInitially == UInit /\ UTypeOK => MeterInv
<1> SUFFICES ASSUME UInit, UTypeOK PROVE MeterInv
  OBVIOUS
<1>1. ChecksArePast /\ RecordsAreServed /\ FutureIsUnbilled
  BY DEF UInit, Init, ChecksArePast, RecordsAreServed, Inserting, FutureIsUnbilled
<1>2. ASSUME NEW field \in {"calls", "tokens"}, NEW base, NEW cost \in Nat
      PROVE  Covered(field, base, cost)
  <2> SUFFICES ASSUME NEW t \in Tenants, NEW m \in Months
               PROVE  Sum(t, Upto(m), field)
                        <= cost * Cardinality(Done(t, m) \cap base)
    BY DEF Covered
  <2> DEFINE f == [n \in Upto(m) |-> events[<<t, n>>][field]]
  <2>1. \A n \in Months : events[<<t, n>>][field] = 0
    BY DEF UInit
  <2>2. f \in [Upto(m) -> Int] /\ \A n \in Upto(m) : f[n] = 0
    BY <2>1 DEF Upto
  <2>3. IsFiniteSet(Upto(m))
    <3>1. Upto(m) \in SUBSET Months
      BY DEF Upto
    <3> QED
      BY <3>1, MonthsAreFinite, FS_Subset
  <2>4. SumFunction(f) = 0
    <3> HIDE DEF f
    <3> QED
      BY <2>2, <2>3, SumZero
  <2>5. Sum(t, Upto(m), field) = 0
    BY <2>4 DEF Sum
  <2>6. Cardinality(Done(t, m) \cap base) \in Nat
    BY DoneIsFinite
  <2>7. \A a, b \in Nat : 0 <= a * b
    OBVIOUS
  <2> QED
    BY <2>5, <2>6, <2>7
<1>3. 1 \in Nat /\ MaxTokens \in Nat
  BY UsageAssumption
<1> QED
  BY <1>1, <1>2, <1>3 DEF MeterInv

(* The sum of a tenant's rows is one of them and the sum of the rest.      *)
LEMMA OneRow ==
  ASSUME UTypeOK, NEW t \in Tenants, NEW S \in SUBSET Months, NEW cur \in S
  PROVE  \E n \in Nat :
           /\ Sum(t, S, "tokens") = events[<<t, cur>>]["tokens"] + n
           /\ (\A m \in S \ {cur} : events[<<t, m>>]["tokens"] = 0) => n = 0
<1>1. PICK T : T = S \ {cur}
  OBVIOUS
<1>2. PICK f : f = [m \in S |-> events[<<t, m>>]["tokens"]]
  OBVIOUS
<1>3. PICK h : h = [m \in T |-> events[<<t, m>>]["tokens"]]
  OBVIOUS
<1>4. IsFiniteSet(S) /\ f \in [S -> Int]
  BY <1>2, RowsAddUp
<1>5. IsFiniteSet(T) /\ h \in [T -> Int] /\ SumFunction(h) \in Nat
  <2>1. T \in SUBSET Months
    BY <1>1
  <2> QED
    BY <1>3, <2>1, RowsAddUp
<1>6. \A m \in T : h[m] = f[m]
  BY <1>1, <1>2, <1>3
<1>7. SumFunction(f) = f[cur] + SumFunction(h)
  <2>1. /\ IsFiniteSet(S) /\ f \in [S -> Int] /\ cur \in S /\ T = S \ {cur}
        /\ h \in [T -> Int] /\ \A m \in T : h[m] = f[m]
    BY <1>1, <1>4, <1>5, <1>6
  <2> QED
    BY <2>1, SumRemove, SMTT(60)
<1>8. f[cur] = events[<<t, cur>>]["tokens"] /\ Sum(t, S, "tokens") = SumFunction(f)
  BY <1>2 DEF Sum
<1>9. ASSUME \A m \in S \ {cur} : events[<<t, m>>]["tokens"] = 0
      PROVE  SumFunction(h) = 0
  <2>1. \A m \in T : h[m] = 0
    BY <1>1, <1>3, <1>9
  <2> QED
    BY <1>5, <2>1, SumZero
<1> QED
  BY <1>5, <1>7, <1>8, <1>9

(* What the invariant says of the bill.                                    *)
LEMMA MeterInvBillsServed == MeterInv => BilledIsServed
<1> SUFFICES ASSUME MeterInv, NEW t \in Tenants
             PROVE  /\ \A m \in Months :
                         Sum(t, {n \in Months : n <= m}, "calls")
                           + Cardinality(Served(t, m) \cap Inserting)
                           <= Cardinality(Served(t, m))
                    /\ TokenCap - Remaining(t) <=
                         MaxTokens * Cardinality(Served(t, MonthOf[window]) \cap Streams)
  BY DEF BilledIsServed
<1> USE DEF MeterInv
<1>1. ASSUME NEW m \in Months
      PROVE  Sum(t, {n \in Months : n <= m}, "calls")
               + Cardinality(Served(t, m) \cap Inserting)
               <= Cardinality(Served(t, m))
  <2>1. Sum(t, Upto(m), "calls") <= 1 * Cardinality(Done(t, m) \cap Requests)
    BY DEF Covered
  <2>2. Done(t, m) \cap Requests = Done(t, m) /\ \A n \in Nat : 1 * n = n
    BY DEF Done, Served
  <2>3. Cardinality(Done(t, m)) =
          Cardinality(Served(t, m)) - Cardinality(Served(t, m) \cap Inserting)
    BY DoneIsFinite, FS_Difference DEF Done
  <2>4. Cardinality(Served(t, m) \cap Inserting) \in Nat
    BY DoneIsFinite, FS_Intersection, FS_CardinalityType
  <2>5. Cardinality(Served(t, m)) \in Nat /\ Cardinality(Done(t, m)) \in Nat
    BY DoneIsFinite
  <2>6. Upto(m) \in SUBSET Months
    BY DEF Upto
  <2>7. Sum(t, Upto(m), "calls") \in Nat
    BY <2>6, RowsAddUp DEF Sum
  <2>8. Sum(t, Upto(m), "calls") <= Cardinality(Done(t, m))
    BY <2>1, <2>2, <2>5
  <2>9. Sum(t, Upto(m), "calls") + Cardinality(Served(t, m) \cap Inserting)
          <= Cardinality(Served(t, m))
    BY <2>3, <2>4, <2>5, <2>7, <2>8
  <2> QED
    BY <2>9 DEF Upto
<1>2. PICK cur : cur = MonthOf[window]
  OBVIOUS
<1>3. cur \in Months /\ cur \in Nat /\ Months \subseteq Nat
  BY <1>2, MonthsAreFinite DEF UTypeOK, TypeOK
<1>4. /\ Used(t) \in Nat
      /\ Used(t) <= Sum(t, Upto(cur), "tokens") /\ Sum(t, Upto(cur), "tokens") \in Nat
  <2>1. ASSUME NEW S \in SUBSET Months, cur \in S
        PROVE  \E n \in Nat :
                 /\ Sum(t, S, "tokens") = events[<<t, cur>>]["tokens"] + n
                 /\ (\A m \in S \ {cur} : m > cur) => n = 0
    <3>1. \A m \in S \ {cur} : m > cur => events[<<t, m>>]["tokens"] = 0
      BY <1>2 DEF FutureIsUnbilled
    <3>2. PICK n \in Nat :
            /\ Sum(t, S, "tokens") = events[<<t, cur>>]["tokens"] + n
            /\ (\A m \in S \ {cur} : events[<<t, m>>]["tokens"] = 0) => n = 0
      BY <2>1, OneRow
    <3> QED
      BY <3>1, <3>2
  <2>2. events[<<t, cur>>]["tokens"] \in Nat
    BY <1>3 DEF UTypeOK
  <2>3. PICK n \in Nat : Sum(t, Upto(cur), "tokens") = events[<<t, cur>>]["tokens"] + n
    <3>1. Upto(cur) \in SUBSET Months /\ cur \in Upto(cur)
      BY <1>3 DEF Upto
    <3> QED
      BY <2>1, <3>1
  <2>4. Used(t) = events[<<t, cur>>]["tokens"]
    <3> DEFINE S == {m \in Months : m >= cur}
    <3>1. /\ S \in SUBSET Months /\ cur \in S
          /\ \A m \in S \ {cur} : m > cur
      BY <1>3
    <3>2. Used(t) = Sum(t, S, "tokens")
      BY <1>2 DEF Used
    <3> HIDE DEF S
    <3> QED
      BY <2>1, <2>2, <3>1, <3>2
  <2> QED
    BY <2>2, <2>3, <2>4
<1>5. TokenCap - Remaining(t) <= Used(t) /\ TokenCap - Remaining(t) \in Int
  BY <1>4, UsageAssumption DEF Remaining
<1>6. Sum(t, Upto(cur), "tokens") + 0 <= MaxTokens * Cardinality(Served(t, cur) \cap Streams)
  <2>1. /\ Done(t, cur) \cap Streams \subseteq Served(t, cur) \cap Streams
        /\ IsFiniteSet(Served(t, cur) \cap Streams)
    BY DoneIsFinite, FS_Intersection DEF Done
  <2>2. Sum(t, Upto(cur), "tokens")
          <= MaxTokens * Cardinality(Done(t, cur) \cap Streams)
    BY <1>3 DEF Covered
  <2>3. 0 \in Nat /\ MaxTokens \in Nat /\ 0 <= MaxTokens
    BY UsageAssumption
  <2>4. Sum(t, Upto(cur), "tokens") \in Int
    BY <1>4
  <2> QED
    BY <2>1, <2>2, <2>3, <2>4, CoverGrows
<1>7. Cardinality(Served(t, cur) \cap Streams) \in Nat
  BY DoneIsFinite, FS_Intersection, FS_CardinalityType
<1>8. MaxTokens * Cardinality(Served(t, cur) \cap Streams) \in Int
  BY <1>7, UsageAssumption
<1> QED
  BY <1>1, <1>2, <1>4, <1>5, <1>6, <1>8

(***************************************************************************)
(* A tenant is billed only for queries that were answered, at most once    *)
(* each, and for no more tokens than his streams can have produced, for    *)
(* any number of tenants, requests and months and however late an insert   *)
(* runs (query.service.ts, runQuery and streamQuery; billing.service.ts).  *)
(***************************************************************************)
THEOREM OnlyServedIsBilled == USpec => []BilledIsServed
<1>1. MeterInv /\ UTypeOK' /\ [UNext]_uvars => MeterInv'
  BY MeterStepPreservesInv
<1> QED
  BY <1>1, MeterInvInitially, MeterInvBillsServed, MeterTypes, PTL DEF USpec
=============================================================================
