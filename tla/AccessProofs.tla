----------------------------- MODULE AccessProofs -----------------------------
(***************************************************************************)
(* For any number of logins, persons, browsers and assignments: a person   *)
(* has one user row, which belongs to the tenant of his last assignment    *)
(* and has the roles of all of them.                                       *)
(*                                                                         *)
(* Neither invariant is inductive.  What is missing is where a row comes   *)
(* from: its id is a login that is over and whose email it has; and what   *)
(* a login may rely on between Find and Save: the row it found may have    *)
(* changed its name and tenant, but not its id and email.                  *)
(***************************************************************************)
EXTENDS Access, FiniteSetTheorems, TLAPS

Rows == [id : Logins, email : Emails, name : Names \cup {None},
         tenant : Tenants \cup {None}]

LoginStates ==
  [pc : {"new", "provider", "exchange", "find", "save", "done", "failed"},
   browser : Browsers \cup {None}, email : Emails \cup {None},
   name : Names \cup {None}, found : SUBSET Rows, moved : BOOLEAN,
   token : [user : Logins \cup {None}, tenant : Tenants \cup {None},
            roles : {{}, {"viewer"}}]]

Typed ==
  /\ users \subseteq Rows
  /\ login \in [Logins -> LoginStates]
  /\ assigned \in [Logins -> Seq(Tenants \X Roles)]

Unique == \A u, v \in users : u.email = v.email \/ u.id = v.id => u = v

Created ==
  \A u \in users :
    login[u.id].pc \in {"done", "failed"} /\ login[u.id].email = u.email

Remembered ==
  \A l \in Logins : login[l].pc \in {"find", "save"} =>
    /\ login[l].email \in Emails
    /\ login[l].pc = "save" =>
         \A f \in login[l].found :
           /\ f.email = login[l].email
           /\ \E u \in users : u.id = f.id /\ u.email = f.email

Minted ==
  \A l \in Logins : login[l].pc = "done" =>
    \E u \in users : u.id = login[l].token.user /\ u.email = login[l].email

(* Nobody is assigned before he has a row.                                 *)
Unassigned ==
  \A l \in Logins : (\A u \in users : u.id # l) =>
    assigned[l] = <<>> /\ \A r \in Roles : <<l, r>> \notin roles

Inv == /\ Typed /\ Unique /\ Created /\ Remembered /\ Minted
       /\ Unassigned /\ MembershipIsAssigned /\ TokensCarryTheTenant

-----------------------------------------------------------------------------
(* No user, no assignment, no login under way.                             *)
LEMMA InitInv == Init => Inv
<1> SUFFICES ASSUME Init PROVE Inv
  OBVIOUS
<1> USE DEF Init
<1>1. Typed
  BY DEF Typed, LoginStates
<1>2. Unique /\ Created /\ Remembered /\ Minted /\ Unassigned
  BY DEF Unique, Created, Remembered, Minted, Unassigned
<1>3. MembershipIsAssigned /\ TokensCarryTheTenant
  BY DEF MembershipIsAssigned, TokensCarryTheTenant
<1> QED
  BY <1>1, <1>2, <1>3 DEF Inv

(* A step of one login that neither ends another nor changes a row.        *)
LEMMA LoginStep ==
  ASSUME Inv, NEW l \in Logins, NEW x \in LoginStates,
         login' = [login EXCEPT ![l] = x],
         users' = users, roles' = roles, assigned' = assigned,
         login[l].pc \notin {"done", "failed"},
         \/ x.pc \in {"provider", "exchange", "failed"}
         \/ x.pc = "find" /\ x.email \in Emails
         \/ /\ x.pc = "save" /\ x.email \in Emails
            /\ \A f \in x.found : f.email = x.email /\ f \in users
  PROVE  Inv'
<1>1. Typed' /\ login'[l] = x /\ \A m \in Logins \ {l} : login'[m] = login[m]
  BY DEF Inv, Typed
<1>2. Unique' /\ Unassigned'
  BY DEF Inv, Unique, Unassigned
<1>3. MembershipIsAssigned'
  BY DEF Inv, MembershipIsAssigned
<1>4. Created'
  <2> SUFFICES ASSUME NEW u \in users
               PROVE  /\ login'[u.id].pc \in {"done", "failed"}
                      /\ login'[u.id].email = u.email
    BY DEF Created
  <2>1. u.id \in Logins /\ u.id # l
    BY DEF Inv, Typed, Rows, Created
  <2> QED
    BY <1>1, <2>1 DEF Inv, Created
<1>5. Remembered'
  BY <1>1 DEF Inv, Remembered
<1>6. Minted' /\ TokensCarryTheTenant'
  BY <1>1 DEF Inv, Minted, TokensCarryTheTenant
<1> QED
  BY <1>1, <1>2, <1>3, <1>4, <1>5, <1>6 DEF Inv

(***************************************************************************)
(* What a login saves: one row of its email, which is a new row, or the    *)
(* row the user has now, with the tenant he has now.                       *)
(***************************************************************************)
LEMMA SavedRow ==
  ASSUME Inv, NEW l \in Logins, login[l].pc = "save"
  PROVE  \E s \in Rows :
           /\ Saved(l) = {s}
           /\ s.email = login[l].email
           /\ \/ s.id = l /\ s.tenant = None
              \/ \E u \in users : /\ u.id = s.id /\ u.email = s.email
                                  /\ u.tenant = s.tenant
<1>0. /\ login[l] \in LoginStates /\ login[l].email \in Emails
      /\ users \subseteq Rows
  BY DEF Inv, Typed, Remembered
<1>1. NameFor(l) \in Names \cup {None}
  BY <1>0 DEF NameFor, LoginStates, Rows
<1>2. CASE login[l].found = {}
  <2> DEFINE s == NewUser(l)
  <2>1. s \in Rows
    BY <1>0, <1>1 DEF NewUser, Rows
  <2> QED
    BY <1>2, <2>1 DEF Saved, NewUser
<1>3. CASE login[l].found # {}
  <2>1. PICK g \in login[l].found : TRUE
    BY <1>3
  <2>2. PICK u \in users : u.id = g.id /\ u.email = g.email
    BY <2>1 DEF Inv, Remembered
  <2>3. u.email = login[l].email /\ u \in Rows
    BY <1>0, <2>1, <2>2 DEF Inv, Remembered
  <2>4. ASSUME NEW v \in users
        PROVE  (\E f \in login[l].found : f.id = v.id) <=> v = u
    <3>1. ASSUME NEW f \in login[l].found, f.id = v.id PROVE v = u
      <4>1. PICK w \in users : w.id = f.id /\ w.email = f.email
        BY <3>1 DEF Inv, Remembered
      <4>2. f.email = login[l].email
        BY <3>1 DEF Inv, Remembered
      <4> QED
        BY <2>3, <3>1, <4>1, <4>2 DEF Inv, Unique
    <3> QED
      BY <2>1, <2>2, <3>1
  <2> DEFINE s == [u EXCEPT !.email = login[l].email, !.name = NameFor(l)]
  <2>5. s \in Rows /\ s.email = login[l].email /\ s.id = u.id
          /\ s.tenant = u.tenant
    BY <1>0, <1>1, <2>3 DEF Rows
  <2>6. {v \in users : \E f \in login[l].found : f.id = v.id} = {u}
    BY <2>4
  <2>7. Saved(l) = {s}
    BY <1>3, <2>6 DEF Saved
  <2>8. u.email = s.email
    BY <2>3, <2>5
  <2> HIDE DEF s
  <2> QED
    BY <2>2, <2>5, <2>7, <2>8
<1> QED
  BY <1>2, <1>3
-----------------------------------------------------------------------------
(* The steps of a login before it saves, and its failure at any of them.   *)
LEMMA FailureInv ==
  ASSUME Inv, NEW l \in Logins, login[l].pc \notin {"done", "failed"},
         login' = [login EXCEPT ![l].pc = "failed"],
         users' = users, roles' = roles, assigned' = assigned
  PROVE  Inv'
<1> DEFINE x == [login[l] EXCEPT !.pc = "failed"]
<1>1. x \in LoginStates /\ x.pc = "failed"
  BY DEF Inv, Typed, LoginStates
<1>2. login' = [login EXCEPT ![l] = x]
  OBVIOUS
<1> HIDE DEF x
<1> QED
  BY <1>1, <1>2, LoginStep

LEMMA BeginInv ==
  ASSUME Inv, NEW l \in Logins, NEW b \in Browsers, NEW p \in Providers,
         Begin(l, b, p)
  PROVE  Inv'
<1> DEFINE pc == IF Configured(p) THEN "provider" ELSE "failed"
           x == [login[l] EXCEPT !.browser = b, !.pc = pc]
<1>1. login[l] \in LoginStates /\ login \in [Logins -> LoginStates]
  BY DEF Inv, Typed
<1>2. /\ login[l].pc = "new"
      /\ users' = users /\ roles' = roles /\ assigned' = assigned
  BY DEF Begin, members
<1>3. login' = [login EXCEPT ![l] = x]
  BY <1>1 DEF Begin
<1>4. pc \in {"provider", "failed"}
  OBVIOUS
<1> HIDE DEF pc
<1>5. x \in LoginStates /\ x.pc \in {"provider", "exchange", "failed"}
  BY <1>1, <1>4 DEF LoginStates
<1> HIDE DEF x
<1> QED
  BY <1>2, <1>3, <1>5, LoginStep

LEMMA CallbackInv ==
  ASSUME Inv, NEW l \in Logins, Callback(l)
  PROVE  Inv'
<1> DEFINE x == [login[l] EXCEPT !.pc = "exchange"]
<1>1. /\ login[l].pc = "provider"
      /\ users' = users /\ roles' = roles /\ assigned' = assigned
  BY DEF Callback, members
<1>2. CASE login' = [login EXCEPT ![l].pc = "exchange"]
  <2>1. x \in LoginStates /\ x.pc = "exchange"
    BY DEF Inv, Typed, LoginStates
  <2>2. login' = [login EXCEPT ![l] = x]
    BY <1>2
  <2> HIDE DEF x
  <2> QED
    BY <1>1, <2>1, <2>2, LoginStep
<1>3. CASE login' = [login EXCEPT ![l].pc = "failed"]
  BY <1>1, <1>3, FailureInv
<1> QED
  BY <1>2, <1>3 DEF Callback

LEMMA ExchangeInv ==
  ASSUME Inv, NEW l \in Logins, Exchange(l)
  PROVE  Inv'
<1>1. /\ login[l].pc = "exchange"
      /\ users' = users /\ roles' = roles /\ assigned' = assigned
  BY DEF Exchange, members
<1>2. CASE login' = [login EXCEPT ![l].pc = "failed"]
  BY <1>1, <1>2, FailureInv
<1>3. ASSUME NEW profile \in Profiles, Complete(profile),
             login' = [login EXCEPT ![l].pc = "find",
                         ![l].email = profile.email, ![l].name = profile.name]
      PROVE  Inv'
  <2> DEFINE x == [login[l] EXCEPT !.pc = "find", !.email = profile.email,
                     !.name = profile.name]
  <2>1. login[l] \in LoginStates /\ login \in [Logins -> LoginStates]
    BY DEF Inv, Typed
  <2>2. profile.email \in Emails /\ profile.name \in Names \cup {None}
    BY <1>3 DEF Profiles, Complete
  <2>3. x \in LoginStates /\ x.pc = "find" /\ x.email \in Emails
    BY <2>1, <2>2 DEF LoginStates
  <2>4. login' = [login EXCEPT ![l] = x]
    BY <1>3, <2>1
  <2> HIDE DEF x
  <2> QED
    BY <1>1, <2>3, <2>4, LoginStep
<1> QED
  BY <1>2, <1>3 DEF Exchange

LEMMA FindInv ==
  ASSUME Inv, NEW l \in Logins, Find(l)
  PROVE  Inv'
<1>1. /\ login[l].pc = "find"
      /\ users' = users /\ roles' = roles /\ assigned' = assigned
  BY DEF Find, members
<1>2. CASE login' = [login EXCEPT ![l].pc = "failed"]
  BY <1>1, <1>2, FailureInv
<1>3. CASE login' = [login EXCEPT ![l].pc = "save",
                       ![l].found = {u \in users : u.email = login[l].email}]
  <2> DEFINE same == {u \in users : u.email = login[l].email}
             x == [login[l] EXCEPT !.pc = "save", !.found = same]
  <2>1. login[l] \in LoginStates /\ login \in [Logins -> LoginStates]
    BY DEF Inv, Typed
  <2>2. same \in SUBSET Rows /\ login[l].email \in Emails
    BY <1>1 DEF Inv, Typed, Remembered
  <2>3. \A f \in same : f.email = login[l].email /\ f \in users
    OBVIOUS
  <2>4. login' = [login EXCEPT ![l] = x]
    BY <1>3, <2>1
  <2> HIDE DEF same
  <2>5. /\ x \in LoginStates /\ x.pc = "save"
        /\ x.found = same /\ x.email = login[l].email
    BY <2>1, <2>2 DEF LoginStates
  <2> HIDE DEF x
  <2> QED
    BY <1>1, <2>2, <2>3, <2>4, <2>5, LoginStep
<1> QED
  BY <1>2, <1>3 DEF Find

(***************************************************************************)
(* Save writes one row s and removes the row it replaces.  That row had    *)
(* the same email and tenant; no other row has the email, or the           *)
(* database would have rejected the write.                                 *)
(***************************************************************************)
LEMMA SavedInv ==
  ASSUME Inv, NEW l \in Logins, login[l].pc = "save",
         NEW s \in Rows, s.email = login[l].email,
         \/ s.id = l /\ s.tenant = None
         \/ \E u \in users : /\ u.id = s.id /\ u.email = s.email
                             /\ u.tenant = s.tenant,
         \A u \in users : u.email = s.email => u.id = s.id,
         users' = {s} \cup {u \in users : u.id # s.id},
         NEW x \in LoginStates, login' = [login EXCEPT ![l] = x],
         x.email = login[l].email,
         \/ x.pc = "failed"
         \/ /\ x.pc = "done" /\ x.token.user = s.id
            /\ x.token.tenant = s.tenant,
         roles' = roles, assigned' = assigned
  PROVE  Inv'
<1>0. /\ login'[l] = x /\ login \in [Logins -> LoginStates]
      /\ \A m \in Logins \ {l} : login'[m] = login[m]
  BY DEF Inv, Typed
<1>1. \A u \in users : u.id \in Logins /\ u.id # l
  BY DEF Inv, Typed, Rows, Created
<1>2. \A u \in users : u.id = s.id => u.email = s.email /\ u.tenant = s.tenant
  BY <1>1 DEF Inv, Unique
<1>3. /\ s \in users'
      /\ \A u \in users : u.id # s.id => u \in users'
      /\ \A u \in users' : u = s \/ (u \in users /\ u.id # s.id)
  OBVIOUS
<1>4. ASSUME NEW u \in users
      PROVE  \E v \in users' :
               v.id = u.id /\ v.email = u.email /\ v.tenant = u.tenant
  <2>1. CASE u.id = s.id
    BY <1>2, <1>3, <2>1
  <2>2. CASE u.id # s.id
    BY <1>3, <2>2
  <2> QED
    BY <2>1, <2>2
<1>5. Typed'
  BY DEF Inv, Typed
<1>6. Unique'
  BY <1>3 DEF Inv, Unique
<1>7. Created'
  <2> SUFFICES ASSUME NEW u \in users'
               PROVE  /\ login'[u.id].pc \in {"done", "failed"}
                      /\ login'[u.id].email = u.email
    BY DEF Created
  <2>1. CASE u \in users
    BY <1>0, <1>1, <2>1 DEF Inv, Created
  <2>2. CASE u = s /\ s.id = l
    BY <1>0, <2>2
  <2>3. CASE u = s /\ s.id # l
    <3>1. PICK v \in users : v.id = s.id /\ v.email = s.email
      BY <2>3
    <3> QED
      BY <1>0, <1>1, <2>3, <3>1 DEF Inv, Created
  <2> QED
    BY <1>3, <2>1, <2>2, <2>3
<1>8. Remembered'
  <2> SUFFICES ASSUME NEW m \in Logins, login'[m].pc \in {"find", "save"}
               PROVE  /\ login'[m].email \in Emails
                      /\ login'[m].pc = "save" =>
                           \A f \in login'[m].found :
                             /\ f.email = login'[m].email
                             /\ \E u \in users' :
                                  u.id = f.id /\ u.email = f.email
    BY DEF Remembered
  <2>1. m # l
    BY <1>0
  <2> QED
    BY <1>0, <1>4, <2>1 DEF Inv, Remembered
<1>9. Minted'
  <2> SUFFICES ASSUME NEW m \in Logins, login'[m].pc = "done"
               PROVE  \E u \in users' : /\ u.id = login'[m].token.user
                                        /\ u.email = login'[m].email
    BY DEF Minted
  <2>1. CASE m = l
    BY <1>0, <1>3, <2>1
  <2>2. CASE m # l
    BY <1>0, <1>4, <2>2 DEF Inv, Minted
  <2> QED
    BY <2>1, <2>2
<1>10. Unassigned'
  <2> SUFFICES ASSUME NEW m \in Logins, \A u \in users' : u.id # m
               PROVE  assigned[m] = <<>> /\ \A r \in Roles : <<m, r>> \notin roles
    BY DEF Unassigned
  <2>1. \A u \in users : u.id # m
    BY <1>4
  <2> QED
    BY <2>1 DEF Inv, Unassigned
<1>11. MembershipIsAssigned'
  <2> SUFFICES ASSUME NEW u \in users'
               PROVE  Follows(u, assigned[u.id], roles)
    BY DEF MembershipIsAssigned
  <2>1. CASE \E v \in users : v.id = u.id /\ v.tenant = u.tenant
    <3>1. PICK v \in users : v.id = u.id /\ v.tenant = u.tenant
      BY <2>1
    <3>2. Follows(v, assigned[v.id], roles)
      BY DEF Inv, MembershipIsAssigned
    <3> QED
      BY <3>1, <3>2 DEF Follows
  <2>2. CASE u.id = l /\ u.tenant = None
    <3>1. assigned[l] = <<>> /\ \A r \in Roles : <<l, r>> \notin roles
      BY <1>1 DEF Inv, Unassigned
    <3> QED
      BY <2>2, <3>1 DEF Follows
  <2> QED
    BY <1>3, <2>1, <2>2
<1>12. TokensCarryTheTenant'
  <2> SUFFICES ASSUME NEW m \in Logins, login'[m].pc = "done",
                      ~ login'[m].moved, NEW u \in users',
                      u.id = login'[m].token.user
               PROVE  u.tenant = login'[m].token.tenant
    BY DEF TokensCarryTheTenant
  <2>1. CASE m = l
    BY <1>0, <1>3, <2>1
  <2>2. CASE m # l
    <3>1. PICK v \in users : v.id = login[m].token.user
      BY <1>0, <2>2 DEF Inv, Minted
    <3>2. v.tenant = login[m].token.tenant
      BY <1>0, <2>2, <3>1 DEF Inv, TokensCarryTheTenant
    <3>3. u.tenant = v.tenant
      BY <1>0, <1>2, <1>3, <2>2, <3>1 DEF Inv, Unique
    <3> QED
      BY <1>0, <2>2, <3>2, <3>3
  <2> QED
    BY <2>1, <2>2
<1> QED
  BY <1>5, <1>6, <1>7, <1>8, <1>9, <1>10, <1>11, <1>12 DEF Inv

LEMMA SaveInv ==
  ASSUME Inv, NEW l \in Logins, Save(l)
  PROVE  Inv'
<1>1. /\ login[l].pc = "save" /\ login[l] \in LoginStates
      /\ login \in [Logins -> LoginStates]
      /\ roles' = roles /\ assigned' = assigned
  BY DEF Save, members, Inv, Typed
<1>2. PICK s \in Rows :
        /\ Saved(l) = {s}
        /\ s.email = login[l].email
        /\ \/ s.id = l /\ s.tenant = None
           \/ \E u \in users : /\ u.id = s.id /\ u.email = s.email
                               /\ u.tenant = s.tenant
  BY <1>1, SavedRow
<1>3. CASE users' = users /\ login' = [login EXCEPT ![l].pc = "failed"]
  BY <1>1, <1>3, FailureInv
<1>4. ASSUME ~ Rejected(l),
             users' = Saved(l)
               \cup {u \in users : \A t \in Saved(l) : u.id # t.id},
             NEW x \in LoginStates, login' = [login EXCEPT ![l] = x],
             x.email = login[l].email,
             \/ x.pc = "failed"
             \/ /\ x.pc = "done" /\ x.token.user = s.id
                /\ x.token.tenant = s.tenant
      PROVE  Inv'
  <2>1. \A u \in users : u.email = s.email => u.id = s.id
    BY <1>2, <1>4 DEF Rejected
  <2>2. users' = {s} \cup {u \in users : u.id # s.id}
    BY <1>2, <1>4
  <2>3. s.email = login[l].email
    BY <1>2
  <2>4. \/ s.id = l /\ s.tenant = None
        \/ \E u \in users : /\ u.id = s.id /\ u.email = s.email
                            /\ u.tenant = s.tenant
    BY <1>2
  <2> QED
    BY <1>1, <1>4, <2>1, <2>2, <2>3, <2>4, SavedInv
<1>5. CASE /\ ~ Rejected(l)
           /\ users' = Saved(l)
                \cup {u \in users : \A t \in Saved(l) : u.id # t.id}
           /\ login' = [login EXCEPT ![l].pc = "failed"]
  <2> DEFINE x == [login[l] EXCEPT !.pc = "failed"]
  <2>1. x \in LoginStates /\ x.pc = "failed" /\ x.email = login[l].email
    BY <1>1 DEF LoginStates
  <2>2. login' = [login EXCEPT ![l] = x]
    BY <1>1, <1>5
  <2> HIDE DEF x
  <2> QED
    BY <1>4, <1>5, <2>1, <2>2
<1>6. CASE /\ ~ Rejected(l)
           /\ users' = Saved(l)
                \cup {u \in users : \A t \in Saved(l) : u.id # t.id}
           /\ login' = [login EXCEPT ![l].pc = "done", ![l].token = Token(l)]
  <2> DEFINE token == [user |-> s.id, tenant |-> s.tenant, roles |-> {"viewer"}]
             x == [login[l] EXCEPT !.pc = "done", !.token = token]
  <2>1. (CHOOSE row \in Saved(l) : TRUE) = s
    BY <1>2
  <2>2. Token(l) = token
    BY <2>1 DEF Token
  <2>3. login' = [login EXCEPT ![l] = x]
    BY <1>1, <1>6, <2>2
  <2>4. /\ token \in [user : Logins \cup {None}, tenant : Tenants \cup {None},
                      roles : {{}, {"viewer"}}]
        /\ token.user = s.id /\ token.tenant = s.tenant
    BY <1>2 DEF Rows
  <2> HIDE DEF token
  <2>5. /\ x \in LoginStates /\ x.pc = "done" /\ x.email = login[l].email
        /\ x.token = token
    BY <1>1, <2>4 DEF LoginStates
  <2> HIDE DEF x
  <2> QED
    BY <1>4, <1>6, <2>3, <2>4, <2>5
<1> QED
  BY <1>3, <1>5, <1>6 DEF Save

-----------------------------------------------------------------------------
(* An assignment moves one row to a tenant and adds one role, and is the   *)
(* last of that user's assignments.                                        *)
LEMMA FollowsOne ==
  ASSUME NEW u \in Rows, NEW v \in Rows, v.id = u.id,
         NEW given \in Seq(Tenants \X Roles), NEW held,
         NEW t \in Tenants, NEW role \in Roles,
         Follows(u, given, held), v.tenant = t
  PROVE  Follows(v, Append(given, <<t, role>>), held \cup {<<u.id, role>>})
<1> DEFINE after == Append(given, <<t, role>>)
<1>1. /\ Len(given) \in Nat /\ Len(after) = Len(given) + 1
      /\ DOMAIN given = 1..Len(given) /\ DOMAIN after = 1..(Len(given) + 1)
      /\ \A k \in 1..Len(given) : after[k] = given[k]
      /\ after[Len(given) + 1] = <<t, role>>
  OBVIOUS
<1>2. after # <<>>
  BY <1>1
<1> HIDE DEF after
<1>3. v.tenant = after[Len(after)][1]
  BY <1>1
<1>4. {r \in Roles : <<v.id, r>> \in held \cup {<<u.id, role>>}}
        = {r \in Roles : <<u.id, r>> \in held} \cup {role}
  OBVIOUS
<1>5. {after[k][2] : k \in DOMAIN after}
        = {given[k][2] : k \in DOMAIN given} \cup {role}
  <2>1. DOMAIN after = DOMAIN given \cup {Len(given) + 1}
    BY <1>1
  <2>2. /\ \A k \in DOMAIN given : after[k][2] = given[k][2]
        /\ after[Len(given) + 1][2] = role
    BY <1>1
  <2> QED
    BY <2>1, <2>2
<1>6. {r \in Roles : <<u.id, r>> \in held} = {given[k][2] : k \in DOMAIN given}
  BY DEF Follows
<1>7. Follows(v, after, held \cup {<<u.id, role>>})
  BY <1>2, <1>3, <1>4, <1>5, <1>6 DEF Follows
<1> QED
  BY <1>7 DEF after

LEMMA AssignInv ==
  ASSUME Inv, NEW hasToken \in BOOLEAN, NEW t \in Tenants, NEW a \in Logins,
         NEW role \in Roles, Assign(hasToken, a, t, role)
  PROVE  Inv'
<1>0. /\ users \subseteq Rows /\ login \in [Logins -> LoginStates]
      /\ assigned \in [Logins -> Seq(Tenants \X Roles)]
      /\ None \notin Logins
  BY AccessAssumption DEF Inv, Typed
<1>1. /\ \E r \in users : r.id = a
      /\ users' = {IF r.id = a THEN [r EXCEPT !.tenant = t] ELSE r : r \in users}
      /\ roles' = roles \cup {<<a, role>>}
      /\ assigned' = [assigned EXCEPT ![a] = Append(@, <<t, role>>)]
      /\ login' = [l \in Logins |->
           [login[l] EXCEPT !.moved = @ \/ login[l].token.user = a]]
  BY DEF Assign, Assigned
<1>2. ASSUME NEW v \in users'
      PROVE  /\ v \in Rows
             /\ \E u \in users : /\ v.id = u.id /\ v.email = u.email
                                 /\ v.tenant = IF u.id = a THEN t ELSE u.tenant
                                 /\ v = IF u.id = a
                                          THEN [u EXCEPT !.tenant = t] ELSE u
  <2>1. PICK u \in users :
          v = IF u.id = a THEN [u EXCEPT !.tenant = t] ELSE u
    BY <1>1
  <2>2. u \in Rows
    BY <1>0
  <2> QED
    BY <2>1, <2>2 DEF Rows
<1>3. ASSUME NEW u \in users
      PROVE  \E v \in users' : /\ v.id = u.id /\ v.email = u.email
                               /\ v.tenant = IF u.id = a THEN t ELSE u.tenant
  <2> DEFINE v == IF u.id = a THEN [u EXCEPT !.tenant = t] ELSE u
  <2>1. v \in users'
    BY <1>1
  <2>2. v.id = u.id /\ v.email = u.email
          /\ v.tenant = IF u.id = a THEN t ELSE u.tenant
    BY <1>0 DEF Rows
  <2> HIDE DEF v
  <2> QED
    BY <2>1, <2>2
<1>4. ASSUME NEW l \in Logins
      PROVE  /\ login'[l] \in LoginStates
             /\ login'[l].pc = login[l].pc /\ login'[l].email = login[l].email
             /\ login'[l].found = login[l].found
             /\ login'[l].token = login[l].token
             /\ ~ login'[l].moved =>
                  ~ login[l].moved /\ login[l].token.user # a
  <2>1. login[l] \in LoginStates
    BY <1>0
  <2>2. login'[l] = [login[l] EXCEPT
                       !.moved = login[l].moved \/ login[l].token.user = a]
    BY <1>1
  <2>3. login[l].moved \in BOOLEAN
    BY <2>1 DEF LoginStates
  <2>4. (login[l].moved \/ login[l].token.user = a) \in BOOLEAN
    OBVIOUS
  <2> QED
    BY <2>1, <2>2, <2>3, <2>4 DEF LoginStates
<1>5. Typed'
  <2>1. login' \in [Logins -> LoginStates]
    BY <1>1, <1>4
  <2>2. assigned' \in [Logins -> Seq(Tenants \X Roles)]
    BY <1>0, <1>1
  <2>3. users' \subseteq Rows
    BY <1>2
  <2> QED
    BY <2>1, <2>2, <2>3 DEF Typed
<1>6. Unique'
  <2> SUFFICES ASSUME NEW v \in users', NEW w \in users',
                      v.email = w.email \/ v.id = w.id
               PROVE  v = w
    BY DEF Unique
  <2>1. PICK u \in users :
          /\ v.id = u.id /\ v.email = u.email
          /\ v = IF u.id = a THEN [u EXCEPT !.tenant = t] ELSE u
    BY <1>2
  <2>2. PICK z \in users :
          /\ w.id = z.id /\ w.email = z.email
          /\ w = IF z.id = a THEN [z EXCEPT !.tenant = t] ELSE z
    BY <1>2
  <2>3. u = z
    BY <2>1, <2>2 DEF Inv, Unique
  <2> QED
    BY <2>1, <2>2, <2>3
<1>7. Created'
  <2> SUFFICES ASSUME NEW v \in users'
               PROVE  /\ login'[v.id].pc \in {"done", "failed"}
                      /\ login'[v.id].email = v.email
    BY DEF Created
  <2>1. PICK u \in users : v.id = u.id /\ v.email = u.email
    BY <1>2
  <2>2. u.id \in Logins
    BY <1>0 DEF Rows
  <2> QED
    BY <1>4, <2>1, <2>2 DEF Inv, Created
<1>8. Remembered'
  BY <1>3, <1>4 DEF Inv, Remembered
<1>9. Minted'
  <2> SUFFICES ASSUME NEW l \in Logins, login'[l].pc = "done"
               PROVE  \E v \in users' : /\ v.id = login'[l].token.user
                                        /\ v.email = login'[l].email
    BY DEF Minted
  <2>1. PICK u \in users : u.id = login[l].token.user /\ u.email = login[l].email
    BY <1>4 DEF Inv, Minted
  <2> QED
    BY <1>3, <1>4, <2>1
<1>10. Unassigned'
  <2> SUFFICES ASSUME NEW l \in Logins, \A v \in users' : v.id # l
               PROVE  /\ assigned'[l] = <<>>
                      /\ \A r \in Roles : <<l, r>> \notin roles'
    BY DEF Unassigned
  <2>1. \A u \in users : u.id # l
    BY <1>3
  <2>2. l # a
    BY <1>1, <2>1
  <2>3. assigned[l] = <<>> /\ \A r \in Roles : <<l, r>> \notin roles
    BY <2>1 DEF Inv, Unassigned
  <2> QED
    BY <1>0, <1>1, <2>2, <2>3
<1>11. MembershipIsAssigned'
  <2> SUFFICES ASSUME NEW v \in users'
               PROVE  Follows(v, assigned'[v.id], roles')
    BY DEF MembershipIsAssigned
  <2>1. PICK u \in users : /\ v.id = u.id
                           /\ v.tenant = IF u.id = a THEN t ELSE u.tenant
    BY <1>2
  <2>2. u \in Rows /\ v \in Rows /\ u.id \in Logins
    BY <1>0, <1>2 DEF Rows
  <2>3. Follows(u, assigned[u.id], roles)
    BY DEF Inv, MembershipIsAssigned
  <2>4. CASE u.id = a
    <3>1. /\ assigned[a] \in Seq(Tenants \X Roles)
          /\ assigned'[a] = Append(assigned[a], <<t, role>>)
      BY <1>0, <1>1
    <3>2. Follows(u, assigned[a], roles) /\ v.id = u.id /\ v.tenant = t
      BY <2>1, <2>3, <2>4
    <3>3. Follows(v, Append(assigned[a], <<t, role>>),
                  roles \cup {<<u.id, role>>})
      BY <2>2, <3>1, <3>2, FollowsOne
    <3>4. v.id = a /\ u.id = a
      BY <2>1, <2>4
    <3> QED
      BY <1>1, <3>1, <3>3, <3>4
  <2>5. CASE u.id # a
    <3>1. assigned'[u.id] = assigned[u.id]
      BY <1>0, <1>1, <2>2, <2>5
    <3>2. {r \in Roles : <<u.id, r>> \in roles'}
            = {r \in Roles : <<u.id, r>> \in roles}
      BY <1>1, <2>5
    <3> QED
      BY <2>1, <2>3, <2>5, <3>1, <3>2 DEF Follows
  <2> QED
    BY <2>4, <2>5
<1>12. TokensCarryTheTenant'
  <2> SUFFICES ASSUME NEW l \in Logins, login'[l].pc = "done",
                      ~ login'[l].moved, NEW v \in users',
                      v.id = login'[l].token.user
               PROVE  v.tenant = login'[l].token.tenant
    BY DEF TokensCarryTheTenant
  <2>1. PICK u \in users : /\ v.id = u.id
                           /\ v.tenant = IF u.id = a THEN t ELSE u.tenant
    BY <1>2
  <2>2. /\ login[l].pc = "done" /\ ~ login[l].moved
        /\ login[l].token.user # a /\ login[l].token = login'[l].token
    BY <1>4
  <2> QED
    BY <2>1, <2>2 DEF Inv, TokensCarryTheTenant
<1> QED
  BY <1>5, <1>6, <1>7, <1>8, <1>9, <1>10, <1>11, <1>12 DEF Inv

-----------------------------------------------------------------------------
(* Everything else leaves the accounts alone.                              *)
LEMMA NextInv == Inv /\ [Next]_vars => Inv'
<1> SUFFICES ASSUME Inv, [Next]_vars PROVE Inv'
  OBVIOUS
<1>0. ASSUME users' = users, login' = login, roles' = roles,
             assigned' = assigned
      PROVE  Inv'
  BY <1>0 DEF Inv, Typed, Unique, Created, Remembered, Minted, Unassigned,
     MembershipIsAssigned, TokensCarryTheTenant
<1>1. ASSUME NEW l \in Logins, NEW b \in Browsers, NEW p \in Providers,
             Begin(l, b, p)
      PROVE  Inv'
  BY <1>1, BeginInv
<1>2. ASSUME NEW l \in Logins,
             Callback(l) \/ Exchange(l) \/ Find(l) \/ Save(l)
      PROVE  Inv'
  BY <1>2, CallbackInv, ExchangeInv, FindInv, SaveInv
<1>3. ASSUME NEW b \in Browsers, Expire(b) PROVE Inv'
  BY <1>0, <1>3 DEF Expire, members
<1>4. ASSUME NEW hasToken \in BOOLEAN, NEW t \in Tenants,
             CreateTenant(hasToken, t)
      PROVE  Inv'
  BY <1>0, <1>4 DEF CreateTenant
<1>5. ASSUME NEW hasToken \in BOOLEAN, NEW t \in Tenants, NEW u \in Logins,
             NEW role \in Roles, Assign(hasToken, u, t, role)
      PROVE  Inv'
  BY <1>5, AssignInv
<1>6. ASSUME NEW i \in Interrupts, NEW p \in Procs, Request(i, p) PROVE Inv'
  BY <1>0, <1>6 DEF Request, accounts
<1>7. ASSUME NEW i \in Interrupts, NEW p \in Procs, NEW approved \in BOOLEAN,
             Resume(i, p, approved)
      PROVE  Inv'
  BY <1>0, <1>7 DEF Resume, accounts
<1>8. ASSUME NEW i \in Interrupts, RunReindex(i) PROVE Inv'
  BY <1>0, <1>8 DEF RunReindex, accounts
<1>9. ASSUME NEW p \in Procs, Restart(p) PROVE Inv'
  BY <1>0, <1>9 DEF Restart, accounts
<1>10. CASE UNCHANGED vars
  BY <1>0, <1>10 DEF vars
<1> QED
  BY <1>1, <1>2, <1>3, <1>4, <1>5, <1>6, <1>7, <1>8, <1>9, <1>10 DEF Next

LEMMA Invariance == Spec => []Inv
<1> QED
  BY InitInv, NextInv, PTL DEF Spec

(***************************************************************************)
(* However first logins overlap, fail or repeat: one row per email, and    *)
(* every token names the row of the email it was minted for.               *)
(***************************************************************************)
THEOREM OneUser == Spec => []OneUserPerEmail
<1>1. Inv => OneUserPerEmail
  BY DEF Inv, Unique, Minted, OneUserPerEmail
<1> QED
  BY <1>1, Invariance, PTL

(***************************************************************************)
(* Logins never undo an assignment, nor an assignment another's role.      *)
(***************************************************************************)
THEOREM Membership == Spec => []MembershipIsAssigned
<1>1. Inv => MembershipIsAssigned
  BY DEF Inv
<1> QED
  BY <1>1, Invariance, PTL

(***************************************************************************)
(* A token's tenant is its user's, until he is assigned to another.        *)
(***************************************************************************)
THEOREM TokenTenant == Spec => []TokensCarryTheTenant
<1>1. Inv => TokensCarryTheTenant
  BY DEF Inv
<1> QED
  BY <1>1, Invariance, PTL

-----------------------------------------------------------------------------
(***************************************************************************)
(* What cookies, roles and users refer to, whether or not it exists, is of *)
(* its type; and a login finds one row at most.                            *)
(***************************************************************************)
FoundOne == \A l \in Logins : \A f, g \in login[l].found : f = g

Placed ==
  /\ cookie \in [Browsers -> Logins \cup {None}]
  /\ FoundOne
  /\ \A u \in users : u.tenant \in Tenants \cup {None}
  /\ tenants \subseteq Tenants /\ roles \subseteq Ids \X Roles

(* The row a login found does not change between Find and Save.            *)
LEMMA LoginPlaced ==
  ASSUME Placed, login \in [Logins -> LoginStates],
         NEW l \in Logins, NEW x, login' = [login EXCEPT ![l] = x],
         x.found = login[l].found,
         cookie' = cookie \/ \E b : \E v \in Logins \cup {None} :
                               cookie' = [cookie EXCEPT ![b] = v],
         UNCHANGED <<users, tenants, roles>>
  PROVE  Placed'
<1>1. FoundOne'
  BY DEF Placed, FoundOne
<1>2. cookie' \in [Browsers -> Logins \cup {None}]
  BY DEF Placed
<1> QED
  BY <1>1, <1>2 DEF Placed, Ids

LEMMA SavePlaced ==
  ASSUME Inv, Placed, NEW l \in Logins, Save(l)
  PROVE  Placed'
<1>1. /\ login[l].pc = "save" /\ login \in [Logins -> LoginStates]
      /\ UNCHANGED <<cookie, roles, tenants>>
  BY DEF Save, members, Inv, Typed
<1>2. PICK s \in Rows :
        /\ Saved(l) = {s}
        /\ s.email = login[l].email
        /\ \/ s.id = l /\ s.tenant = None
           \/ \E u \in users : /\ u.id = s.id /\ u.email = s.email
                               /\ u.tenant = s.tenant
  BY <1>1, SavedRow
<1>3. users' = users \/ users' = {s} \cup {u \in users : u.id # s.id}
  BY <1>2 DEF Save
<1>4. \A u \in users' : u.tenant \in Tenants \cup {None}
  BY <1>2, <1>3 DEF Placed
<1>5. Ids \subseteq Ids'
  BY <1>3 DEF Ids
<1>6. \A m \in Logins : login'[m].found = login[m].found
  <2>1. ASSUME NEW x, x.found = login[l].found, login' = [login EXCEPT ![l] = x]
        PROVE  \A m \in Logins : login'[m].found = login[m].found
    BY <1>1, <2>1
  <2>2. CASE login' = [login EXCEPT ![l].pc = "failed"]
    <3>1. [login[l] EXCEPT !.pc = "failed"].found = login[l].found
      BY <1>1 DEF LoginStates
    <3> QED
      BY <2>1, <2>2, <3>1
  <2>3. CASE login' = [login EXCEPT ![l].pc = "done", ![l].token = Token(l)]
    <3> DEFINE x == [login[l] EXCEPT !.pc = "done", !.token = Token(l)]
    <3>1. x.found = login[l].found /\ login' = [login EXCEPT ![l] = x]
      BY <1>1, <2>3 DEF LoginStates
    <3> HIDE DEF x
    <3> QED
      BY <2>1, <3>1
  <2> QED
    BY <2>2, <2>3 DEF Save
<1>7. FoundOne'
  BY <1>6 DEF Placed, FoundOne
<1> QED
  BY <1>1, <1>4, <1>5, <1>7 DEF Placed

LEMMA AssignPlaced ==
  ASSUME Inv, Placed, NEW h, NEW u \in Logins, NEW t \in Tenants,
         NEW role \in Roles, Assign(h, u, t, role)
  PROVE  Placed'
<1>1. /\ \E r \in users : r.id = u
      /\ users' = Assigned(u, t)
      /\ roles' = roles \cup {<<u, role>>}
      /\ cookie' = cookie /\ tenants' = tenants
      /\ users \subseteq Rows /\ login \in [Logins -> LoginStates]
  BY DEF Assign, Inv, Typed
<1>2. \A r \in users : /\ [r EXCEPT !.tenant = t].tenant = t
                       /\ [r EXCEPT !.tenant = t].id = r.id
  BY <1>1 DEF Rows
<1>3. \A v \in users' : v.tenant \in Tenants \cup {None}
  BY <1>1, <1>2 DEF Assigned, Placed
<1>4. Ids \subseteq Ids'
  <2> SUFFICES ASSUME NEW r \in users PROVE \E v \in users' : v.id = r.id
    BY DEF Ids
  <2>1. (IF r.id = u THEN [r EXCEPT !.tenant = t] ELSE r) \in users'
    BY <1>1 DEF Assigned
  <2> QED
    BY <1>2, <2>1
<1>5. u \in Ids
  BY <1>1 DEF Ids
<1>6. FoundOne'
  <2>1. ASSUME NEW l \in Logins PROVE login'[l].found = login[l].found
    <3>1. login[l] \in LoginStates
      BY <1>1
    <3>2. \A m : [login[l] EXCEPT !.moved = m].found = login[l].found
      BY <3>1 DEF LoginStates
    <3>3. login'[l] = [login[l] EXCEPT !.moved = @ \/ login[l].token.user = u]
      BY DEF Assign
    <3> QED
      BY <3>2, <3>3
  <2> QED
    BY <2>1 DEF Placed, FoundOne
<1> QED
  BY <1>1, <1>3, <1>4, <1>5, <1>6 DEF Placed

LEMMA PlacedNext == Inv /\ Placed /\ [Next]_vars => Placed'
<1> SUFFICES ASSUME Inv, Placed, [Next]_vars PROVE Placed'
  OBVIOUS
<1>0. login \in [Logins -> LoginStates]
  BY DEF Inv, Typed
<1>1. ASSUME NEW l \in Logins, NEW b \in Browsers, NEW p \in Providers,
             Begin(l, b, p)
      PROVE  Placed'
  <2> DEFINE pc == IF Configured(p) THEN "provider" ELSE "failed"
             x == [login[l] EXCEPT !.browser = b, !.pc = pc]
  <2>1. login' = [login EXCEPT ![l] = x] /\ x.found = login[l].found
    BY <1>0, <1>1 DEF Begin, LoginStates
  <2>2. cookie' = [cookie EXCEPT ![b] = l] /\ UNCHANGED <<users, tenants, roles>>
    BY <1>1 DEF Begin, members
  <2> HIDE DEF x
  <2> QED
    BY <1>0, <2>1, <2>2, LoginPlaced
<1>2. ASSUME NEW l \in Logins, Callback(l) PROVE Placed'
  <2> DEFINE x == [login[l] EXCEPT !.pc = "exchange"]
             y == [login[l] EXCEPT !.pc = "failed"]
  <2>1. x.found = login[l].found /\ y.found = login[l].found
    BY <1>0 DEF LoginStates
  <2>2. login' = [login EXCEPT ![l] = x] \/ login' = [login EXCEPT ![l] = y]
    BY <1>2 DEF Callback
  <2>3. /\ UNCHANGED <<users, tenants, roles>>
        /\ \/ cookie' = cookie
           \/ cookie' = [cookie EXCEPT ![login[l].browser] = None]
    BY <1>2 DEF Callback, members
  <2> HIDE DEF x, y
  <2> QED
    BY <1>0, <2>1, <2>2, <2>3, LoginPlaced
<1>3. ASSUME NEW l \in Logins, Exchange(l) PROVE Placed'
  <2>1. UNCHANGED <<cookie, users, tenants, roles>>
    BY <1>3 DEF Exchange, members
  <2>2. CASE login' = [login EXCEPT ![l].pc = "failed"]
    <3> DEFINE x == [login[l] EXCEPT !.pc = "failed"]
    <3>1. x.found = login[l].found /\ login' = [login EXCEPT ![l] = x]
      BY <1>0, <2>2 DEF LoginStates
    <3> HIDE DEF x
    <3> QED
      BY <1>0, <2>1, <3>1, LoginPlaced
  <2>3. ASSUME NEW profile \in Profiles,
               login' = [login EXCEPT ![l].pc = "find",
                           ![l].email = profile.email, ![l].name = profile.name]
        PROVE  Placed'
    <3> DEFINE x == [login[l] EXCEPT !.pc = "find", !.email = profile.email,
                       !.name = profile.name]
    <3>1. x.found = login[l].found /\ login' = [login EXCEPT ![l] = x]
      BY <1>0, <2>3 DEF LoginStates
    <3> HIDE DEF x
    <3> QED
      BY <1>0, <2>1, <3>1, LoginPlaced
  <2> QED
    BY <1>3, <2>2, <2>3 DEF Exchange
<1>4. ASSUME NEW l \in Logins, Find(l) PROVE Placed'
  <2>1. UNCHANGED <<cookie, users, tenants, roles>>
    BY <1>4 DEF Find, members
  <2>2. CASE login' = [login EXCEPT ![l].pc = "failed"]
    <3> DEFINE x == [login[l] EXCEPT !.pc = "failed"]
    <3>1. x.found = login[l].found /\ login' = [login EXCEPT ![l] = x]
      BY <1>0, <2>2 DEF LoginStates
    <3> HIDE DEF x
    <3> QED
      BY <1>0, <2>1, <3>1, LoginPlaced
  <2>3. CASE login' = [login EXCEPT ![l].pc = "save",
                ![l].found = {u \in users : u.email = login[l].email}]
    <3> DEFINE S == {u \in users : u.email = login[l].email}
               x == [login[l] EXCEPT !.pc = "save", !.found = S]
    <3>1. x.found = S /\ login' = [login EXCEPT ![l] = x]
      BY <1>0, <2>3 DEF LoginStates
    <3>2. \A f, g \in S : f = g
      BY DEF Inv, Unique
    <3> HIDE DEF x, S
    <3>3. FoundOne'
      BY <1>0, <3>1, <3>2 DEF Placed, FoundOne
    <3> QED
      BY <2>1, <3>3 DEF Placed, Ids
  <2> QED
    BY <1>4, <2>2, <2>3 DEF Find
<1>5. ASSUME NEW l \in Logins, Save(l) PROVE Placed'
  BY <1>5, SavePlaced
<1>6. ASSUME NEW b \in Browsers, Expire(b) PROVE Placed'
  BY <1>6 DEF Expire, members, Placed, FoundOne, Ids
<1>7. ASSUME NEW h \in BOOLEAN, NEW t \in Tenants, CreateTenant(h, t)
      PROVE  Placed'
  BY <1>7 DEF CreateTenant, Placed, FoundOne, Ids
<1>8. ASSUME NEW h \in BOOLEAN, NEW t \in Tenants, NEW u \in Logins,
             NEW role \in Roles, Assign(h, u, t, role)
      PROVE  Placed'
  BY <1>8, AssignPlaced
<1>9. ASSUME UNCHANGED accounts PROVE Placed'
  BY <1>9 DEF accounts, Placed, FoundOne, Ids
<1>10. ASSUME NEW i \in Interrupts,
              \/ \E p \in Procs : Request(i, p)
              \/ \E p \in Procs, approved \in BOOLEAN : Resume(i, p, approved)
              \/ RunReindex(i)
       PROVE  UNCHANGED accounts
  BY <1>10 DEF Request, Resume, RunReindex
<1>11. ASSUME NEW p \in Procs, Restart(p) PROVE UNCHANGED accounts
  BY <1>11 DEF Restart
<1>12. ASSUME UNCHANGED vars PROVE UNCHANGED accounts
  BY <1>12 DEF vars, accounts
<1> QED
  BY <1>1, <1>2, <1>3, <1>4, <1>5, <1>6, <1>7, <1>8, <1>9, <1>10, <1>11,
     <1>12 DEF Next

-----------------------------------------------------------------------------
(***************************************************************************)
(* The approvals.  What is said of one reindex request, x, with the        *)
(* processes that wait for it: it was taken at most once, and while it was *)
(* not, it waits in its process, unless a restart forgot it.               *)
(***************************************************************************)
AnswerType ==
  [kind : {"unknown_interrupt", "cancelled", "completed", "failed"},
   proc : Procs \cup {None}]

ReindexType ==
  [proc : Procs \cup {None}, answers : Seq(AnswerType), running : Nat,
   forgotten : BOOLEAN, cut : Nat]

Made(x) == {k \in DOMAIN x.answers : x.answers[k].kind # "unknown_interrupt"}

Taken(x) == Cardinality(Made(x)) + x.running + x.cut

DecidedOnce(i, x, waits) ==
  /\ Taken(x) <= 1
  /\ \A k \in DOMAIN x.answers \ Made(x) :
       Taken(x) = 1 \/ x.answers[k].proc # x.proc \/ x.forgotten
  /\ x.proc # None /\ Taken(x) = 0 /\ ~ x.forgotten => i \in waits[x.proc]
  /\ x.proc = None => Taken(x) = 0 /\ x.answers = <<>>
  /\ \A p \in Procs : i \in waits[p] => x.proc = p /\ Taken(x) = 0

Approvals ==
  /\ pending \in [Procs -> SUBSET Interrupts]
  /\ reindex \in [Interrupts -> ReindexType]
  /\ restarts \in 0..MaxRestarts
  /\ \A i \in Interrupts : DecidedOnce(i, reindex[i], pending)

LEMMA NoneIsNoProc == None \notin Procs
BY AccessAssumption

LEMMA MadeIsFinite ==
  ASSUME NEW x \in ReindexType
  PROVE  /\ IsFiniteSet(Made(x)) /\ Cardinality(Made(x)) \in Nat
         /\ Taken(x) \in Nat
         /\ DOMAIN x.answers = 1..Len(x.answers) /\ Len(x.answers) \in Nat
         /\ Len(x.answers) + 1 \notin Made(x)
<1>1. DOMAIN x.answers = 1..Len(x.answers) /\ Len(x.answers) \in Nat
  <2>1. \A s \in Seq(AnswerType) : DOMAIN s = 1..Len(s) /\ Len(s) \in Nat
    OBVIOUS
  <2>2. x.answers \in Seq(AnswerType)
    BY DEF ReindexType
  <2> QED
    BY <2>1, <2>2
<1>2. IsFiniteSet(1..Len(x.answers))
  <2>1. \A n \in Nat : IsFiniteSet(1..n)
    BY FS_Interval
  <2> QED
    BY <1>1, <2>1
<1>3. IsFiniteSet(Made(x))
  BY <1>1, <1>2, FS_Subset DEF Made
<1>4. Cardinality(Made(x)) \in Nat
  BY <1>3, FS_CardinalityType
<1> QED
  BY <1>1, <1>3, <1>4 DEF Taken, Made, ReindexType

(* An answer is one more thing made, unless it says "unknown".             *)
LEMMA AnswerMakes ==
  ASSUME NEW x \in ReindexType, NEW a \in AnswerType, NEW y \in ReindexType,
         y.answers = Append(x.answers, a)
  PROVE  /\ a.kind = "unknown_interrupt" => Made(y) = Made(x)
         /\ a.kind # "unknown_interrupt" =>
              Cardinality(Made(y)) = Cardinality(Made(x)) + 1
         /\ DOMAIN y.answers = DOMAIN x.answers \cup {Len(x.answers) + 1}
         /\ \A k \in DOMAIN x.answers : y.answers[k] = x.answers[k]
         /\ y.answers[Len(x.answers) + 1] = a
<1> DEFINE n == Len(x.answers) + 1
<1>1. /\ DOMAIN x.answers = 1..Len(x.answers) /\ Len(x.answers) \in Nat
      /\ n \notin Made(x) /\ IsFiniteSet(Made(x))
  BY MadeIsFinite
<1>2. /\ DOMAIN y.answers = DOMAIN x.answers \cup {n}
      /\ \A k \in DOMAIN x.answers : y.answers[k] = x.answers[k]
      /\ y.answers[n] = a
  <2>1. x.answers \in Seq(AnswerType)
    BY DEF ReindexType
  <2> QED
    BY <1>1, <2>1
<1> HIDE DEF n
<1>3. a.kind = "unknown_interrupt" => Made(y) = Made(x)
  BY <1>2 DEF Made
<1>4. ASSUME a.kind # "unknown_interrupt"
      PROVE  Cardinality(Made(y)) = Cardinality(Made(x)) + 1
  <2>1. Made(y) = Made(x) \cup {n}
    BY <1>2, <1>4 DEF Made
  <2> QED
    BY <1>1, <2>1, FS_AddElement
<1> QED
  BY <1>2, <1>3, <1>4 DEF n

(* One reindex request moves, and waits in other processes than before.    *)
LEMMA ApprovalStep ==
  ASSUME Approvals, NEW i \in Interrupts, NEW y \in ReindexType,
         NEW W \in [Procs -> SUBSET Interrupts],
         reindex' = [reindex EXCEPT ![i] = y], pending' = W,
         restarts' = restarts, DecidedOnce(i, y, W),
         \A p \in Procs : \A j \in Interrupts \ {i} :
           j \in W[p] <=> j \in pending[p]
  PROVE  Approvals'
<1>1. reindex' \in [Interrupts -> ReindexType]
  BY DEF Approvals
<1>2. ASSUME NEW j \in Interrupts PROVE DecidedOnce(j, reindex'[j], W)
  <2>1. CASE j = i
    BY <2>1 DEF Approvals
  <2>2. CASE j # i
    <3>1. reindex'[j] = reindex[j] /\ DecidedOnce(j, reindex[j], pending)
      BY <2>2 DEF Approvals
    <3>2. reindex[j].proc \in Procs \cup {None}
      BY DEF Approvals, ReindexType
    <3> QED
      BY <2>2, <3>1, <3>2 DEF DecidedOnce
  <2> QED
    BY <2>1, <2>2
<1> QED
  BY <1>1, <1>2 DEF Approvals

LEMMA RequestApprovals ==
  ASSUME Approvals, NEW i \in Interrupts, NEW p \in Procs, Request(i, p)
  PROVE  Approvals'
<1> DEFINE x == reindex[i]
           y == [x EXCEPT !.proc = p]
           W == [pending EXCEPT ![p] = @ \cup {i}]
<1>1. x \in ReindexType /\ x.proc = None /\ DecidedOnce(i, x, pending)
  BY DEF Request, Approvals
<1>2. /\ reindex' = [reindex EXCEPT ![i] = y] /\ pending' = W
      /\ restarts' = restarts
  BY DEF Request
<1>3. /\ y \in ReindexType /\ y.proc = p /\ y.answers = x.answers
      /\ y.running = x.running /\ y.cut = x.cut
  BY <1>1 DEF ReindexType
<1>4. /\ W \in [Procs -> SUBSET Interrupts] /\ i \in W[p]
      /\ \A q \in Procs : q # p => W[q] = pending[q]
      /\ \A q \in Procs : \A j \in Interrupts \ {i} :
           j \in W[q] <=> j \in pending[q]
  BY DEF Approvals
<1> HIDE DEF x, y, W
<1>5. Taken(y) = Taken(x) /\ Made(y) = Made(x)
  BY <1>3 DEF Taken, Made
<1>6. DecidedOnce(i, y, W)
  <2>1. Taken(y) = 0 /\ y.answers = <<>>
    BY <1>1, <1>3, <1>5 DEF DecidedOnce
  <2>2. DOMAIN y.answers = {}
    BY <2>1
  <2>3. \A q \in Procs : q # p => i \notin W[q]
    BY <1>1, <1>4, NoneIsNoProc DEF DecidedOnce
  <2> QED
    BY <1>3, <1>4, <2>1, <2>2, <2>3, NoneIsNoProc DEF DecidedOnce
<1> QED
  BY <1>2, <1>3, <1>4, <1>6, ApprovalStep

LEMMA ResumeApprovals ==
  ASSUME Approvals, NEW i \in Interrupts, NEW p \in Procs,
         NEW approved \in BOOLEAN, Resume(i, p, approved)
  PROVE  Approvals'
<1> DEFINE x == reindex[i]
           W == [pending EXCEPT ![p] = @ \ {i}]
<1>1. /\ x \in ReindexType /\ x.proc # None /\ DecidedOnce(i, x, pending)
      /\ x.proc \in Procs
  BY DEF Resume, Approvals, ReindexType
<1>2. pending' = W /\ restarts' = restarts
  BY DEF Resume
<1>3. /\ W \in [Procs -> SUBSET Interrupts] /\ i \notin W[p]
      /\ \A q \in Procs : q # p => W[q] = pending[q]
      /\ \A q \in Procs : \A j \in Interrupts \ {i} :
           j \in W[q] <=> j \in pending[q]
      /\ i \notin pending[p] => \A q \in Procs : i \in W[q] <=> i \in pending[q]
  BY DEF Approvals
<1>4. Taken(x) \in Nat /\ Cardinality(Made(x)) \in Nat /\ x.running \in Nat /\ x.cut \in Nat
  BY <1>1, MadeIsFinite DEF ReindexType
<1>5. ASSUME NEW kind \in {"unknown_interrupt", "cancelled"},
             reindex' = Answer(i, kind, p)
      PROVE  \E y \in ReindexType, a \in AnswerType :
               /\ reindex' = [reindex EXCEPT ![i] = y]
               /\ a.kind = kind /\ a.proc = p
               /\ y.answers = Append(x.answers, a) /\ y.proc = x.proc
               /\ y.running = x.running /\ y.cut = x.cut
               /\ y.forgotten = x.forgotten
  <2> DEFINE a == [kind |-> kind, proc |-> p]
             y == [x EXCEPT !.answers = Append(@, a)]
  <2>1. a \in AnswerType /\ a.kind = kind /\ a.proc = p
    BY DEF AnswerType
  <2>2. reindex' = [reindex EXCEPT ![i] = y]
    BY <1>5 DEF Answer
  <2> HIDE DEF a
  <2>3. Append(x.answers, a) \in Seq(AnswerType)
    BY <1>1, <2>1 DEF ReindexType
  <2>4. /\ y \in ReindexType
        /\ y.answers = Append(x.answers, a) /\ y.proc = x.proc
        /\ y.running = x.running /\ y.cut = x.cut
        /\ y.forgotten = x.forgotten
    BY <1>1, <2>3 DEF ReindexType
  <2> HIDE DEF y
  <2> QED
    BY <2>1, <2>2, <2>4
<1> HIDE DEF x, W
<1>6. CASE i \notin pending[p] /\ reindex' = Answer(i, "unknown_interrupt", p)
  <2>1. PICK y \in ReindexType, a \in AnswerType :
               /\ reindex' = [reindex EXCEPT ![i] = y]
               /\ a.kind = "unknown_interrupt" /\ a.proc = p
               /\ y.answers = Append(x.answers, a) /\ y.proc = x.proc
               /\ y.running = x.running /\ y.cut = x.cut
               /\ y.forgotten = x.forgotten
    BY <1>5, <1>6
  <2>2. /\ Made(y) = Made(x)
        /\ DOMAIN y.answers = DOMAIN x.answers \cup {Len(x.answers) + 1}
        /\ \A k \in DOMAIN x.answers : y.answers[k] = x.answers[k]
        /\ y.answers[Len(x.answers) + 1] = a
    BY <1>1, <2>1, AnswerMakes
  <2>3. Taken(y) = Taken(x)
    BY <2>1, <2>2 DEF Taken
  <2>4. Taken(x) = 1 \/ p # x.proc \/ x.forgotten
    BY <1>1, <1>4, <1>6 DEF DecidedOnce
  <2>5. ASSUME NEW k \in DOMAIN y.answers \ Made(y)
        PROVE  Taken(y) = 1 \/ y.answers[k].proc # y.proc \/ y.forgotten
    <3>1. CASE k = Len(x.answers) + 1
      BY <2>1, <2>2, <2>3, <2>4, <3>1
    <3>2. CASE k \in DOMAIN x.answers
      BY <1>1, <2>1, <2>2, <2>3, <2>5, <3>2 DEF DecidedOnce
    <3> QED
      BY <2>2, <3>1, <3>2
  <2>6. /\ Taken(y) <= 1
        /\ y.proc # None /\ Taken(y) = 0 /\ ~ y.forgotten => i \in W[y.proc]
        /\ y.proc = None => Taken(y) = 0 /\ y.answers = <<>>
        /\ \A q \in Procs : i \in W[q] => y.proc = q /\ Taken(y) = 0
    BY <1>1, <1>3, <1>6, <2>1, <2>3 DEF DecidedOnce
  <2>7. DecidedOnce(i, y, W)
    BY <2>5, <2>6 DEF DecidedOnce
  <2> QED
    BY <1>2, <1>3, <2>1, <2>7, ApprovalStep
<1>7. ASSUME i \in pending[p], NEW y \in ReindexType,
             reindex' = [reindex EXCEPT ![i] = y],
             Taken(y) = 1, y.proc = x.proc
      PROVE  Approvals'
  <2>1. x.proc = p
    BY <1>1, <1>7 DEF DecidedOnce
  <2>2. \A q \in Procs : i \notin W[q]
    BY <1>1, <1>3, <2>1 DEF DecidedOnce
  <2>3. DecidedOnce(i, y, W)
    BY <1>1, <1>7, <2>2 DEF DecidedOnce
  <2> QED
    BY <1>2, <1>3, <1>7, <2>3, ApprovalStep
<1>8. CASE i \in pending[p] /\ reindex' = Answer(i, "cancelled", p)
  <2>1. PICK y \in ReindexType, a \in AnswerType :
               /\ reindex' = [reindex EXCEPT ![i] = y]
               /\ a.kind = "cancelled" /\ a.proc = p
               /\ y.answers = Append(x.answers, a) /\ y.proc = x.proc
               /\ y.running = x.running /\ y.cut = x.cut
               /\ y.forgotten = x.forgotten
    BY <1>5, <1>8
  <2>2. Cardinality(Made(y)) = Cardinality(Made(x)) + 1
    BY <1>1, <2>1, AnswerMakes
  <2>3. Taken(x) = 0
    BY <1>1, <1>8 DEF DecidedOnce
  <2>4. Taken(y) = 1
    BY <1>4, <2>1, <2>2, <2>3 DEF Taken
  <2> QED
    BY <1>7, <1>8, <2>1, <2>4
<1>9. CASE i \in pending[p] /\ reindex' = [reindex EXCEPT ![i].running = @ + 1]
  <2> DEFINE y == [x EXCEPT !.running = @ + 1]
  <2>1. reindex' = [reindex EXCEPT ![i] = y]
    BY <1>9 DEF x
  <2>2. /\ y \in ReindexType /\ y.answers = x.answers /\ y.proc = x.proc
        /\ y.running = x.running + 1 /\ y.cut = x.cut
    BY <1>1 DEF ReindexType
  <2> HIDE DEF y
  <2>3. Taken(x) = 0 /\ Made(y) = Made(x)
    BY <1>1, <1>9, <2>2 DEF DecidedOnce, Made
  <2>4. Taken(y) = 1
    BY <1>4, <2>2, <2>3 DEF Taken
  <2> QED
    BY <1>7, <1>9, <2>1, <2>2, <2>4
<1> QED
  BY <1>6, <1>8, <1>9 DEF Resume

LEMMA RunApprovals ==
  ASSUME Approvals, NEW i \in Interrupts, RunReindex(i)
  PROVE  Approvals'
<1> DEFINE x == reindex[i]
<1>1. /\ x \in ReindexType /\ x.running > 0 /\ DecidedOnce(i, x, pending)
      /\ pending \in [Procs -> SUBSET Interrupts]
      /\ pending' = pending /\ restarts' = restarts
  BY DEF RunReindex, Approvals
<1>2. PICK kind \in {"completed", "failed"} :
        reindex' = [Answer(i, kind, x.proc) EXCEPT ![i].running = @ - 1]
  BY DEF RunReindex
<1> DEFINE a == [kind |-> kind, proc |-> x.proc]
           y == [x EXCEPT !.answers = Append(x.answers, a),
                          !.running = x.running - 1]
<1>3. a \in AnswerType /\ a.kind # "unknown_interrupt"
  BY <1>1 DEF AnswerType, ReindexType
<1>4. reindex' = [reindex EXCEPT ![i] = y]
  <2>1. reindex \in [Interrupts -> ReindexType]
    BY DEF Approvals
  <2> QED
    BY <1>1, <1>2, <2>1 DEF Answer, ReindexType
<1> HIDE DEF a, x
<1>5. Append(x.answers, a) \in Seq(AnswerType) /\ x.running - 1 \in Nat
  <2>1. x.answers \in Seq(AnswerType) /\ x.running \in Nat
    BY <1>1 DEF ReindexType
  <2> QED
    BY <1>1, <1>3, <2>1
<1>6. /\ y \in ReindexType /\ y.answers = Append(x.answers, a)
      /\ y.proc = x.proc /\ y.running = x.running - 1 /\ y.cut = x.cut
  BY <1>1, <1>5 DEF ReindexType
<1> HIDE DEF y
<1>7. Cardinality(Made(y)) = Cardinality(Made(x)) + 1
  BY <1>1, <1>3, <1>6, AnswerMakes
<1>8. Cardinality(Made(x)) \in Nat /\ x.running \in Nat /\ x.cut \in Nat
  BY <1>1, MadeIsFinite DEF ReindexType
<1>9. Taken(x) = 1 /\ Taken(y) = 1
  BY <1>1, <1>6, <1>7, <1>8 DEF Taken, DecidedOnce
<1>10. DecidedOnce(i, y, pending)
  BY <1>1, <1>6, <1>9 DEF DecidedOnce
<1> QED
  BY <1>1, <1>4, <1>6, <1>10, ApprovalStep

LEMMA RestartApprovals ==
  ASSUME Approvals, NEW p \in Procs, Restart(p)
  PROVE  Approvals'
<1> DEFINE forgets(i) == reindex[i].forgotten \/ i \in pending[p]
           cuts(i) == reindex[i].cut + reindex[i].running
           cut(i) == [reindex[i] EXCEPT !.running = 0, !.forgotten = forgets(i),
                                        !.cut = cuts(i)]
<1>0. restarts' = restarts + 1 /\ restarts < MaxRestarts
  BY DEF Restart
<1>1. /\ pending' = [pending EXCEPT ![p] = {}]
      /\ reindex' = [i \in Interrupts |->
                       IF reindex[i].proc = p THEN cut(i) ELSE reindex[i]]
  BY DEF Restart
<1>2. /\ pending \in [Procs -> SUBSET Interrupts]
      /\ reindex \in [Interrupts -> ReindexType]
      /\ restarts' \in 0..MaxRestarts
  <2>1. restarts \in 0..MaxRestarts /\ MaxRestarts \in Nat
    BY AccessAssumption DEF Approvals
  <2>2. restarts' \in 0..MaxRestarts
    BY <1>0, <2>1
  <2> QED
    BY <2>2 DEF Approvals
<1>3. ASSUME NEW i \in Interrupts
      PROVE  /\ cut(i) \in ReindexType /\ cut(i).proc = reindex[i].proc
             /\ cut(i).answers = reindex[i].answers /\ cut(i).running = 0
             /\ cut(i).forgotten = forgets(i) /\ cut(i).cut = cuts(i)
  <2>1. reindex[i] \in ReindexType
    BY <1>2
  <2>2. cuts(i) \in Nat /\ forgets(i) \in BOOLEAN
    BY <2>1 DEF ReindexType
  <2> HIDE DEF cuts, forgets
  <2> QED
    BY <2>1, <2>2 DEF ReindexType
<1> HIDE DEF cut
<1>4. /\ pending' \in [Procs -> SUBSET Interrupts] /\ pending'[p] = {}
      /\ \A q \in Procs : q # p => pending'[q] = pending[q]
  BY <1>1, <1>2
<1>5. reindex' \in [Interrupts -> ReindexType]
  BY <1>1, <1>2, <1>3
<1>6. ASSUME NEW i \in Interrupts PROVE DecidedOnce(i, reindex'[i], pending')
  <2> DEFINE x == reindex[i]
  <2>1. DecidedOnce(i, x, pending) /\ x \in ReindexType
    BY DEF Approvals
  <2>2. CASE x.proc = p
    <3> DEFINE y == cut(i)
    <3>1. /\ reindex'[i] = y /\ y.proc = p /\ y.answers = x.answers
          /\ y.running = 0 /\ y.cut = x.cut + x.running
          /\ y.forgotten = (x.forgotten \/ i \in pending[p])
      BY <1>1, <1>3, <2>2
    <3> HIDE DEF y, x
    <3>2. Cardinality(Made(x)) \in Nat /\ x.running \in Nat /\ x.cut \in Nat
      BY <2>1, MadeIsFinite DEF ReindexType
    <3>3. Made(y) = Made(x)
      BY <3>1 DEF Made
    <3>4. Taken(y) = Taken(x)
      BY <3>1, <3>2, <3>3 DEF Taken
    <3>5. \A q \in Procs : i \notin pending'[q]
      BY <1>4, <2>1, <2>2 DEF DecidedOnce
    <3>6. p # None
      BY NoneIsNoProc
    <3>8. ~ (Taken(y) = 0 /\ ~ y.forgotten)
      BY <2>1, <2>2, <3>1, <3>4, <3>6 DEF DecidedOnce
    <3>9. \A k \in DOMAIN y.answers \ Made(y) :
            Taken(y) = 1 \/ y.answers[k].proc # y.proc \/ y.forgotten
      BY <2>1, <2>2, <3>1, <3>3, <3>4 DEF DecidedOnce
    <3>10. DecidedOnce(i, y, pending')
      BY <2>1, <3>1, <3>4, <3>5, <3>6, <3>8, <3>9 DEF DecidedOnce
    <3> QED
      BY <3>1, <3>10
  <2>3. CASE x.proc # p
    <3>1. reindex'[i] = x /\ x.proc \in Procs \cup {None}
      BY <1>1, <2>1, <2>3 DEF ReindexType
    <3>2. i \notin pending[p]
      BY <2>1, <2>3 DEF DecidedOnce
    <3>3. \A q \in Procs : i \in pending'[q] <=> i \in pending[q]
      BY <1>4, <3>2
    <3> HIDE DEF x
    <3>4. DecidedOnce(i, x, pending')
      BY <2>1, <2>3, <3>1, <3>3 DEF DecidedOnce
    <3> QED
      BY <3>1, <3>4
  <2> QED
    BY <2>2, <2>3
<1> QED
  BY <1>2, <1>4, <1>5, <1>6 DEF Approvals

LEMMA ApprovalsNext == Approvals /\ [Next]_vars => Approvals'
<1> SUFFICES ASSUME Approvals, [Next]_vars PROVE Approvals'
  OBVIOUS
<1>1. ASSUME UNCHANGED approvals PROVE Approvals'
  BY <1>1 DEF approvals, Approvals
<1>2. ASSUME NEW l \in Logins,
             \/ \E b \in Browsers, p \in Providers : Begin(l, b, p)
             \/ Callback(l) \/ Exchange(l) \/ Find(l) \/ Save(l)
      PROVE  UNCHANGED approvals
  BY <1>2 DEF Begin, Callback, Exchange, Find, Save
<1>3. ASSUME NEW b \in Browsers, Expire(b) PROVE UNCHANGED approvals
  BY <1>3 DEF Expire
<1>4. ASSUME NEW h \in BOOLEAN, NEW t \in Tenants,
             \/ CreateTenant(h, t)
             \/ \E u \in Logins, role \in Roles : Assign(h, u, t, role)
      PROVE  UNCHANGED approvals
  BY <1>4 DEF CreateTenant, Assign
<1>5. CASE UNCHANGED vars
  BY <1>1, <1>5 DEF vars, approvals
<1> QED
  BY <1>1, <1>2, <1>3, <1>4, <1>5, RequestApprovals, ResumeApprovals,
     RunApprovals, RestartApprovals DEF Next

LEMMA ApprovalsInit == Init => Approvals
<1> SUFFICES ASSUME Init PROVE Approvals
  OBVIOUS
<1> DEFINE x == [proc |-> None, answers |-> <<>>, running |-> 0,
                 forgotten |-> FALSE, cut |-> 0]
<1>1. /\ pending = [p \in Procs |-> {}] /\ reindex = [i \in Interrupts |-> x]
      /\ restarts \in 0..MaxRestarts
  BY AccessAssumption DEF Init
<1>2. x \in ReindexType
  <2>1. <<>> \in Seq(AnswerType)
    OBVIOUS
  <2> QED
    BY <2>1 DEF ReindexType
<1>3. Made(x) = {}
  <2>1. DOMAIN x.answers = {}
    OBVIOUS
  <2> HIDE DEF x
  <2> QED
    BY <2>1 DEF Made
<1>4. Taken(x) = 0
  <2>1. Cardinality(Made(x)) = 0 /\ x.running = 0 /\ x.cut = 0
    BY <1>3, FS_EmptySet
  <2> HIDE DEF x
  <2> QED
    BY <2>1 DEF Taken
<1>5. \A i \in Interrupts : DecidedOnce(i, x, pending)
  BY <1>1, <1>4 DEF DecidedOnce
<1> QED
  BY <1>1, <1>2, <1>5 DEF Approvals

LEMMA ApprovalsInvariance == Spec => []Approvals
BY ApprovalsInit, ApprovalsNext, PTL DEF Spec

(***************************************************************************)
(* However approvers and restarts interleave: a reindex is decided once,   *)
(* and an approver hears "unknown interrupt" for one of three reasons only *)
(* (reindex.controller.ts, reindexResume).                                 *)
(***************************************************************************)
THEOREM DecisionsAreFinal == Spec => []ApprovalsAreDecidedOnce
<1>1. Approvals => ApprovalsAreDecidedOnce
  <2> SUFFICES ASSUME Approvals, NEW i \in Interrupts
               PROVE  LET taken == Cardinality(Decisions(i)) + reindex[i].running
                                     + reindex[i].cut
                      IN  /\ taken <= 1
                          /\ \A k \in DOMAIN reindex[i].answers \ Decisions(i) :
                               \/ taken = 1
                               \/ reindex[i].answers[k].proc # reindex[i].proc
                               \/ reindex[i].forgotten
                          /\ reindex[i].proc # None /\ taken = 0
                               /\ ~ reindex[i].forgotten =>
                               i \in pending[reindex[i].proc]
    BY DEF ApprovalsAreDecidedOnce
  <2>1. Decisions(i) = Made(reindex[i])
    BY DEF Decisions, Made
  <2>2. DecidedOnce(i, reindex[i], pending)
    BY DEF Approvals
  <2> QED
    BY <2>1, <2>2 DEF DecidedOnce, Taken
<1> QED
  BY <1>1, ApprovalsInvariance, PTL

(***************************************************************************)
(* Roles, and the tokens that were minted, name users whose rows exist; a  *)
(* reindex that waits for a decision waits in the process that was asked   *)
(* and does not run; and no login finds two users of its email             *)
(* (oauth2.service.ts, adminTenants.service.ts, reindex.controller.ts).    *)
(***************************************************************************)
THEOREM UsersExist == Spec => []TypeOK
<1>1. Init => Placed
  BY DEF Init, Placed, FoundOne
<1>2. Inv /\ Placed /\ Approvals => TypeOK
  <2> SUFFICES ASSUME Inv, Placed, Approvals PROVE TypeOK
    OBVIOUS
  <2>1. ASSUME NEW l \in Logins
        PROVE  /\ login[l].pc \in {"new", "provider", "exchange", "find", "save",
                                   "done", "failed"}
               /\ Cardinality(login[l].found) <= 1
               /\ login[l].pc = "done" => login[l].token.user \in Ids
    <3>1. \A f \in login[l].found : login[l].found = {f}
      BY DEF Placed, FoundOne
    <3>2. Cardinality({}) = 0 /\ \A f : Cardinality({f}) = 1
      BY FS_EmptySet, FS_Singleton
    <3>3. Cardinality(login[l].found) \in {0, 1}
      BY <3>1, <3>2
    <3> QED
      BY <3>3 DEF Inv, Typed, LoginStates, Minted, Ids
  <2>2. ASSUME NEW u \in users
        PROVE  /\ u.id \in Logins /\ u.email \in Emails
               /\ u.name \in Names \cup {None} /\ u.tenant \in Tenants \cup {None}
    BY DEF Inv, Typed, Rows, Placed
  <2>3. ASSUME NEW p \in Procs, NEW i \in pending[p]
        PROVE  reindex[i].proc = p /\ reindex[i].running = 0
    <3>1. i \in Interrupts /\ reindex[i] \in ReindexType
      BY DEF Approvals
    <3>2. reindex[i].proc = p /\ Taken(reindex[i]) = 0
      BY <3>1 DEF Approvals, DecidedOnce
    <3>3. Cardinality(Made(reindex[i])) \in Nat
      BY <3>1, MadeIsFinite
    <3>4. reindex[i].running \in Nat /\ reindex[i].cut \in Nat
      BY <3>1 DEF ReindexType
    <3>5. \A m, n, k \in Nat : m + n + k = 0 => n = 0
      OBVIOUS
    <3> QED
      BY <3>2, <3>3, <3>4, <3>5 DEF Taken
  <2> QED
    BY <2>1, <2>2, <2>3 DEF Placed, Approvals, TypeOK
<1> QED
  BY <1>1, <1>2, PlacedNext, Invariance, ApprovalsInvariance, PTL DEF Spec
=============================================================================
