------------------------------- MODULE Access -------------------------------
(***************************************************************************)
(* Who a user is and what he may do: OAuth2 logins that create the users,  *)
(* administrators who assign them to tenants, the identity a request runs  *)
(* with (verifyAuth), and the approval of a reindex by a second request.   *)
(*                                                                         *)
(* The provider and the database are external; every call to them may      *)
(* fail, and a write may fail after it took effect.  A login is named by   *)
(* the random state it was started with, a user by the login that created  *)
(* it.  The audit trail in users.metadata is left out.                     *)
(***************************************************************************)
EXTENDS Integers, Sequences, FiniteSets

CONSTANTS
  Logins, Browsers, Emails, Names,
  Providers, ClientIds, ClientSecrets,  \* providers, and those with a setting
  Tenants, Roles,      \* tenants and database roles to assign
  Interrupts, Procs,   \* reindex requests, and server processes
  RequireToken,        \* AUTH_REQUIRE_TOKEN
  MaxAnswers,          \* bound: answers to the approvers of one reindex
  MaxRestarts,         \* bound
  None

ASSUME AccessAssumption ==
  /\ RequireToken \in BOOLEAN
  /\ MaxAnswers \in Nat /\ MaxRestarts \in Nat
  /\ None \notin Logins \cup Emails \cup Names \cup Tenants \cup Procs

VARIABLES
  cookie,     \* browser -> the state it keeps in rag_oauth2_state
  login,      \* login -> where it is and what it knows
  users,      \* the rows of the table users
  tenants,    \* the tenants that were created
  roles,      \* the rows of user_roles
  assigned,   \* history: user -> his assignments, in order
  pending,    \* process -> the reindex requests it waits for a decision on
  reindex,    \* reindex request -> its process and the answers given
  restarts    \* bound

vars == <<cookie, login, users, tenants, roles, assigned, pending, reindex,
          restarts>>
accounts == <<cookie, login, users, tenants, roles, assigned>>
members == <<tenants, roles, assigned>>
approvals == <<pending, reindex, restarts>>

-----------------------------------------------------------------------------
(* verifyAuth.  The middleware decodes the signature of a token twice, the *)
(* first time into text: what is compared with the 32 bytes of the digest  *)
(* is the decoding of at most 32 characters.                               *)
DigestBytes == 32

Recognised == \E chars \in 0..DigestBytes : (chars * 3) \div 4 = DigestBytes

Nobody == [roles |-> {}]

Identity(hasToken) ==
  CASE hasToken /\ Recognised           -> [roles |-> {"viewer"}]
    [] hasToken /\ ~ Recognised         -> Nobody
    [] ~ hasToken /\ RequireToken       -> Nobody
    [] ~ hasToken /\ ~ RequireToken -> [roles |-> {"admin", "editor", "viewer"}]

(* The highest role decides: requirePermission with ROLE_PERMISSIONS.      *)
Rank(role) == CASE role = "viewer" -> 1 [] role = "editor" -> 2
                [] role = "admin" -> 3 [] role = "super_admin" -> 4

Permissions(role) ==
  CASE role = "viewer" -> {"query", "search", "view"}
    [] role = "editor" -> {"query", "search", "view", "ingest", "reindex"}
    [] OTHER -> {"*"}

Permitted(caller, action) ==
  \E role \in caller.roles :
    /\ \A other \in caller.roles : Rank(other) <= Rank(role)
    /\ Permissions(role) \cap {"*", action} # {}

-----------------------------------------------------------------------------
(* oauth2Login: the state goes to the browser's cookie, which a later      *)
(* login in the same browser replaces, before it shows that the provider   *)
(* is not configured.                                                      *)
Configured(p) == p \in ClientIds /\ p \in ClientSecrets

Begin(l, b, p) ==
  /\ login[l].pc = "new"
  /\ cookie' = [cookie EXCEPT ![b] = l]
  /\ login' = [login EXCEPT ![l].browser = b,
                 ![l].pc = IF Configured(p) THEN "provider" ELSE "failed"]
  /\ UNCHANGED <<users, members, approvals>>

Expire(b) ==
  /\ cookie[b] # None
  /\ cookie' = [cookie EXCEPT ![b] = None]
  /\ UNCHANGED <<login, users, members, approvals>>

(* oauth2Callback: a missing code leaves the cookie, anything else clears  *)
(* it, also when it is the cookie of another login.                        *)
Callback(l) ==
  /\ login[l].pc = "provider"
  /\ \/ /\ cookie[login[l].browser] = l
        /\ login' = [login EXCEPT ![l].pc = "exchange"]
        /\ cookie' = [cookie EXCEPT ![login[l].browser] = None]
     \/ /\ cookie[login[l].browser] # l
        /\ login' = [login EXCEPT ![l].pc = "failed"]
        /\ cookie' = [cookie EXCEPT ![login[l].browser] = None]
     \/ login' = [login EXCEPT ![l].pc = "failed"] /\ UNCHANGED cookie
  /\ UNCHANGED <<users, members, approvals>>

(* mapProfile: what the provider leaves out is empty, the name undefined.  *)
Profiles ==
  [hasId : BOOLEAN, email : Emails \cup {None}, name : Names \cup {None}]

Complete(profile) == profile.hasId /\ profile.email # None

(* exchangeCodeForToken, and the checks that upsertUserFromProfile makes   *)
(* at once; either request may fail.                                       *)
Exchange(l) ==
  /\ login[l].pc = "exchange"
  /\ \/ \E profile \in Profiles :
          /\ Complete(profile)
          /\ login' = [login EXCEPT ![l].pc = "find",
                         ![l].email = profile.email, ![l].name = profile.name]
     \/ login' = [login EXCEPT ![l].pc = "failed"]
  /\ UNCHANGED <<cookie, users, members, approvals>>

(* upsertUserFromProfile reads the user of this email ...                  *)
Find(l) ==
  /\ login[l].pc = "find"
  /\ \/ login' = [login EXCEPT ![l].pc = "save",
            ![l].found = {u \in users : u.email = login[l].email}]
     \/ login' = [login EXCEPT ![l].pc = "failed"]
  /\ UNCHANGED <<cookie, users, members, approvals>>

(* ... and updates that row, or creates one; the email is unique.          *)
NameFor(l) ==
  IF login[l].name = None /\ login[l].found # {}
    THEN (CHOOSE u \in login[l].found : TRUE).name ELSE login[l].name

NewUser(l) ==
  [id |-> l, email |-> login[l].email, name |-> NameFor(l), tenant |-> None]

SavedRestoringRow(l) ==
  IF login[l].found # {}
    THEN {[u EXCEPT !.name = NameFor(l)] : u \in login[l].found}
    ELSE {NewUser(l)}

Saved(l) ==
  IF login[l].found # {}
    THEN {[u EXCEPT !.email = login[l].email, !.name = NameFor(l)] :
            u \in {u \in users : \E f \in login[l].found : f.id = u.id}}
    ELSE {NewUser(l)}

NeverRejected(l) == FALSE

Rejected(l) ==
  \E u \in users, s \in Saved(l) : u.email = s.email /\ u.id # s.id

(* The token carries the row that was saved, and always the role viewer.   *)
TokenAsFound(l) ==
  [user |-> (CHOOSE s \in Saved(l) : TRUE).id,
   tenant |-> IF login[l].found = {} THEN None
                ELSE (CHOOSE u \in login[l].found : TRUE).tenant,
   roles |-> {"viewer"}]

Token(l) ==
  LET row == CHOOSE s \in Saved(l) : TRUE
  IN  [user |-> row.id, tenant |-> row.tenant, roles |-> {"viewer"}]

Save(l) ==
  /\ login[l].pc = "save"
  /\ \/ /\ ~ Rejected(l)
        /\ users' = Saved(l)
             \cup {u \in users : \A s \in Saved(l) : u.id # s.id}
        /\ \/ login' = [login EXCEPT ![l].pc = "done", ![l].token = Token(l)]
           \/ login' = [login EXCEPT ![l].pc = "failed"]
     \/ login' = [login EXCEPT ![l].pc = "failed"] /\ UNCHANGED users
  /\ UNCHANGED <<cookie, members, approvals>>

-----------------------------------------------------------------------------
(* createTenant: the slug is unique.  No code reads a tenant's name or     *)
(* status, which updateTenant changes; they are left out.                  *)
CreateTenant(hasToken, t) ==
  /\ Permitted(Identity(hasToken), "manage_tenants")
  /\ t \notin tenants
  /\ tenants' = tenants \cup {t}
  /\ UNCHANGED <<cookie, login, users, roles, assigned, approvals>>

(* assignTenantAdmin: role and tenant in one transaction, which fails when *)
(* the user is unknown or has the role.  Neither the code nor the schema   *)
(* asks whether the tenant was created.                                    *)
Assigned(u, t) ==
  {IF r.id = u THEN [r EXCEPT !.tenant = t] ELSE r : r \in users}

Assign(hasToken, u, t, role) ==
  /\ Permitted(Identity(hasToken), "manage_tenants")
  /\ \E r \in users : r.id = u
  /\ <<u, role>> \notin roles
  /\ users' = Assigned(u, t)
  /\ roles' = roles \cup {<<u, role>>}
  /\ assigned' = [assigned EXCEPT ![u] = Append(@, <<t, role>>)]
  /\ login' = [l \in Logins |->
       [login[l] EXCEPT !.moved = @ \/ login[l].token.user = u]]
  /\ UNCHANGED <<cookie, tenants, approvals>>

-----------------------------------------------------------------------------
(* createReindexInterrupt: the request waits in the memory of its process. *)
Request(i, p) ==
  /\ reindex[i].proc = None
  /\ pending' = [pending EXCEPT ![p] = @ \cup {i}]
  /\ reindex' = [reindex EXCEPT ![i].proc = p]
  /\ UNCHANGED <<accounts, restarts>>

(* reindexResume: looked up, removed and decided before the first await.   *)
Answer(i, kind, p) ==
  [reindex EXCEPT ![i].answers = Append(@, [kind |-> kind, proc |-> p])]

ResumeKeepingIt(i, p, approved) ==
  /\ reindex[i].proc # None
  /\ Len(reindex[i].answers) + reindex[i].running < MaxAnswers
  /\ \/ i \notin pending[p] /\ reindex' = Answer(i, "unknown_interrupt", p)
     \/ i \in pending[p] /\ ~ approved /\ reindex' = Answer(i, "cancelled", p)
     \/ /\ i \in pending[p] /\ approved
        /\ reindex' = [reindex EXCEPT ![i].running = @ + 1]
  /\ pending' = [pending EXCEPT ![p] = IF approved THEN @ ELSE @ \ {i}]
  /\ UNCHANGED <<accounts, restarts>>

Resume(i, p, approved) ==
  /\ reindex[i].proc # None
  /\ Len(reindex[i].answers) + reindex[i].running < MaxAnswers
  /\ \/ i \notin pending[p] /\ reindex' = Answer(i, "unknown_interrupt", p)
     \/ i \in pending[p] /\ ~ approved /\ reindex' = Answer(i, "cancelled", p)
     \/ /\ i \in pending[p] /\ approved
        /\ reindex' = [reindex EXCEPT ![i].running = @ + 1]
  /\ pending' = [pending EXCEPT ![p] = @ \ {i}]
  /\ UNCHANGED <<accounts, restarts>>

(* runReindex: whatever happens, the approver is told.                     *)
RunReindex(i) ==
  /\ reindex[i].running > 0
  /\ \E kind \in {"completed", "failed"} :
       reindex' = [Answer(i, kind, reindex[i].proc) EXCEPT ![i].running = @ - 1]
  /\ UNCHANGED <<accounts, pending, restarts>>

Restart(p) ==
  /\ restarts < MaxRestarts
  /\ restarts' = restarts + 1
  /\ pending' = [pending EXCEPT ![p] = {}]
  /\ reindex' = [i \in Interrupts |->
       IF reindex[i].proc = p
         THEN [reindex[i] EXCEPT !.running = 0,
                 !.forgotten = @ \/ i \in pending[p],
                 !.cut = @ + reindex[i].running]
         ELSE reindex[i]]
  /\ UNCHANGED accounts

Init ==
  /\ cookie = [b \in Browsers |-> None]
  /\ login = [l \in Logins |-> [pc |-> "new", browser |-> None, email |-> None,
       name |-> None, found |-> {}, moved |-> FALSE,
       token |-> [user |-> None, tenant |-> None, roles |-> {}]]]
  /\ users = {} /\ tenants = {} /\ roles = {}
  /\ assigned = [u \in Logins |-> <<>>]
  /\ pending = [p \in Procs |-> {}]
  /\ reindex = [i \in Interrupts |-> [proc |-> None, answers |-> <<>>,
       running |-> 0, forgotten |-> FALSE, cut |-> 0]]
  /\ restarts = 0

Next ==
  \/ \E l \in Logins :
       \/ \E b \in Browsers, p \in Providers : Begin(l, b, p)
       \/ Callback(l) \/ Exchange(l) \/ Find(l) \/ Save(l)
  \/ \E b \in Browsers : Expire(b)
  \/ \E hasToken \in BOOLEAN, t \in Tenants :
       \/ CreateTenant(hasToken, t)
       \/ \E u \in Logins, role \in Roles : Assign(hasToken, u, t, role)
  \/ \E i \in Interrupts :
       \/ \E p \in Procs : Request(i, p)
       \/ \E p \in Procs, approved \in BOOLEAN : Resume(i, p, approved)
       \/ RunReindex(i)
  \/ \E p \in Procs : Restart(p)

Spec == Init /\ [][Next]_vars
-----------------------------------------------------------------------------
Ids == {u.id : u \in users}

(* Roles and tokens refer to users that exist, a waiting request to its    *)
(* process; a user's tenant need not have been created.                    *)
TypeOK ==
  /\ cookie \in [Browsers -> Logins \cup {None}]
  /\ \A l \in Logins :
       /\ login[l].pc \in {"new", "provider", "exchange", "find", "save",
                           "done", "failed"}
       /\ Cardinality(login[l].found) <= 1
       /\ login[l].pc = "done" => login[l].token.user \in Ids
  /\ \A u \in users :
       /\ u.id \in Logins /\ u.email \in Emails
       /\ u.name \in Names \cup {None} /\ u.tenant \in Tenants \cup {None}
  /\ tenants \subseteq Tenants /\ roles \subseteq Ids \X Roles
  /\ \A p \in Procs : \A i \in pending[p] :
       reindex[i].proc = p /\ reindex[i].running = 0
  /\ restarts \in 0..MaxRestarts

(***************************************************************************)
(* However many first logins of one person overlap, he has one user row,   *)
(* and every token minted for his email names it (oauth2.service.ts,       *)
(* upsertUserFromProfile).                                                 *)
(***************************************************************************)
OneUserPerEmail ==
  /\ \A u, v \in users : u.email = v.email \/ u.id = v.id => u = v
  /\ \A l \in Logins : login[l].pc = "done" =>
       \E u \in users : u.id = login[l].token.user /\ u.email = login[l].email

(***************************************************************************)
(* A token carries the tenant its user had when the login saved him, not   *)
(* the one it found: unless he was assigned since, it is his tenant.       *)
(***************************************************************************)
TokensCarryTheTenant ==
  \A l \in Logins : login[l].pc = "done" /\ ~ login[l].moved =>
    \A u \in users :
      u.id = login[l].token.user => u.tenant = login[l].token.tenant

(* The row u has the tenant and the roles of the assignments given.        *)
Follows(u, given, held) ==
  /\ u.tenant = IF given = <<>> THEN None ELSE given[Len(given)][1]
  /\ {r \in Roles : <<u.id, r>> \in held} = {given[k][2] : k \in DOMAIN given}

(***************************************************************************)
(* A user belongs to the tenant of his last assignment and has the roles   *)
(* of all of them, whatever logins save in between and however often an    *)
(* assignment is repeated (adminTenants.service.ts, assignTenantAdmin).    *)
(***************************************************************************)
MembershipIsAssigned ==
  \A u \in users : Follows(u, assigned[u.id], roles)

Decisions(i) == {k \in DOMAIN reindex[i].answers :
                   reindex[i].answers[k].kind # "unknown_interrupt"}

(***************************************************************************)
(* A reindex is decided once, though two approvers answer at the same      *)
(* time, and an approver is told that a request is unknown only if it was  *)
(* decided before, asked about in another process, or forgotten by a       *)
(* restart (reindex.controller.ts, reindexResume).                         *)
(***************************************************************************)
ApprovalsAreDecidedOnce ==
  \A i \in Interrupts :
    LET taken == Cardinality(Decisions(i)) + reindex[i].running + reindex[i].cut
    IN  /\ taken <= 1
        /\ \A k \in DOMAIN reindex[i].answers \ Decisions(i) :
             \/ taken = 1
             \/ reindex[i].answers[k].proc # reindex[i].proc
             \/ reindex[i].forgotten
        /\ reindex[i].proc # None /\ taken = 0 /\ ~ reindex[i].forgotten =>
             i \in pending[reindex[i].proc]
=============================================================================
