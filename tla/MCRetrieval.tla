---------------------------- MODULE MCRetrieval ----------------------------
(* Values for TLC: four chunks of two tenants and three documents, one     *)
(* chunk without a tenant; queries and searches of an administrator, of    *)
(* two users and of nobody; five entities, one of them of the other tenant *)
(* and one that is mentioned nowhere.                                      *)
EXTENDS Retrieval, TLC

CONSTANTS c1, c2, c3, c4, d1, d2, d3, a, b, ann, bob

MCChunks   == {c1, c2, c3, c4}
MCDocOf    == (c1 :> d1) @@ (c2 :> d1) @@ (c3 :> d2) @@ (c4 :> d3)
MCTenantOf == (c1 :> a) @@ (c2 :> a) @@ (c3 :> b) @@ (c4 :> None)

MCPermissions == {[user |-> ann, doc |-> d1, tenant |-> a],
                  [user |-> bob, doc |-> d2, tenant |-> b]}

Users == {None,
          [id |-> ann, tenant |-> a, admin |-> TRUE],
          [id |-> ann, tenant |-> a, admin |-> FALSE],
          [id |-> bob, tenant |-> None, admin |-> FALSE]}

ByField(f, v) == [x \in {f} |-> v]

Orders == {<<<<c1, c2, c3, c4>>, <<c2, c3>>>>,
           <<<<c3, c1, c4, c2>>, <<c2, c1, c3, c4>>>>,
           <<<<c4, c3, c2, c1>>, <<c1, c3, c2>>>>}

Requests(api, users, filters) ==
  {[api |-> api, hybrid |-> h, context |-> x, user |-> u, topK |-> 2,
    filters |-> f, nearest |-> o[1], relevant |-> o[2]] :
     h \in BOOLEAN, x \in BOOLEAN, u \in users, f \in filters, o \in Orders}

MCInputs ==
  Requests("query", Users, {<<>>})
    \cup Requests("search", {None}, {<<>>, ByField("tenantId", a),
                                     ByField("documentId", d1)})
    \cup {in \in Requests("kg", {None}, {<<>>, ByField("tenantId", a)}) :
            ~ in.hybrid /\ ~ in.context}

MCMatched      == {"e1", "e2", "e3", "e4", "e5"}
MCEntityTenant == [e \in MCMatched \cup {"e6"} |->
                     IF e = "e3" THEN b ELSE a]
MCMentions     == <<<<"e1", c2>>, <<"e2", c1>>, <<"e3", c3>>, <<"e4", c1>>,
                    <<"e6", c2>>>>
=============================================================================
