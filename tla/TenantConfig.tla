---------------------------- MODULE TenantConfig ----------------------------
(***************************************************************************)
(* Per-tenant configuration: TenantConfigService with its cache in every   *)
(* server process, the middleware that resolves a request's configuration, *)
(* the query nodes that resolve it again (resolveNodeConfig), and the      *)
(* administrators' updates, over the table tenant_configs.                 *)
(*                                                                         *)
(* A resolved configuration is a function from settings to values; a row's *)
(* overrides are defined on some of them.  deepMergeTenantConfig merges    *)
(* section by section, that is, setting by setting.                        *)
(***************************************************************************)
EXTENDS Integers, Sequences, FiniteSets, SequencesExt, Functions, TLC

CONSTANTS
  Procs, Tenants,
  Requests, Updates,  \* requests to nodes, and updates of administrators
  Defaults,           \* buildGlobalDefaults: setting -> value
  Bodies,             \* what administrators may send: setting -> value
  Pinned,             \* settings of the embedding
  MaxCache,           \* MAX_CACHE_SIZE
  MaxEarlier,         \* bound: tenants that have a row when the run begins
  MaxNodes,           \* bound: nodes a request runs
  MaxRestarts,        \* bound
  None

ASSUME TenantConfigAssumption ==
  /\ MaxCache \in Nat \ {0} /\ MaxNodes \in Nat /\ MaxRestarts \in Nat
  /\ MaxEarlier \in Nat
  /\ Pinned \cap DOMAIN Defaults = {}

VARIABLES
  cache,     \* process -> the entries of its map, oldest first
  past,      \* history: tenant -> the rows the table had, the last is current
  req,       \* request -> where it is and what it knows
  upd,       \* update -> likewise
  raced,     \* history: <<process, tenant>> that an update did not reach
  overtaken, \* history: tenant -> its rows that were replaced by an update
             \* which had read an earlier one
  restarts   \* bound

vars == <<cache, past, req, upd, raced, overtaken, restarts>>

(* No row counts as version 0 without overrides, as in getEffectiveConfig. *)
NoRow == [version |-> 0, overrides |-> <<>>]

Row(t) == past[t][Len(past[t])]

Resolved(overrides) ==
  [s \in DOMAIN overrides \cup DOMAIN Defaults |->
     IF s \in DOMAIN overrides THEN overrides[s] ELSE Defaults[s]]

(* assertNoEmbeddingOverrides                                              *)
IsPinned(overrides) == DOMAIN overrides \cap Pinned # {}

(* The schema of the controller knows no setting of the embedding, and     *)
(* leaves out what it does not know without a word.                        *)
Parsed(body) == Restrict(body, DOMAIN body \ Pinned)

Stored == {Parsed(body) : body \in Bodies} \cup {<<>>}

-----------------------------------------------------------------------------
(* The cache: a JavaScript map, which lists its keys by time of insertion. *)
Without(entries, t) ==
  IF \E i \in DOMAIN entries : entries[i].tenant = t
    THEN RemoveAt(entries, CHOOSE i \in DOMAIN entries : entries[i].tenant = t)
    ELSE entries

Cached(p, t) == \E e \in Range(cache[p]) : e.tenant = t

Entry(p, t) == CHOOSE e \in Range(cache[p]) : e.tenant = t

(* setCache: a full map loses its first key, even when t has one already.  *)
SetCacheLate(entries, entry) ==
  LET kept == IF Len(entries) > MaxCache THEN Tail(entries) ELSE entries
  IN  Append(Without(kept, entry.tenant), entry)

SetCache(entries, entry) ==
  LET kept == IF Len(entries) >= MaxCache THEN Tail(entries) ELSE entries
  IN  IF \E i \in DOMAIN kept : kept[i].tenant = entry.tenant
        THEN [i \in DOMAIN kept |->
                IF kept[i].tenant = entry.tenant THEN entry ELSE kept[i]]
        ELSE Append(kept, entry)

-----------------------------------------------------------------------------
(* A request enters the middleware of a process: getEffectiveConfig.       *)
Enter(r, p, t) ==
  /\ req[r].pc = "new"
  /\ req' = [req EXCEPT ![r].proc = p, ![r].tenant = t,
               ![r].pc = IF Cached(p, t) THEN "nodes" ELSE "select",
               ![r].config = IF Cached(p, t) THEN Entry(p, t).config ELSE @]
  /\ UNCHANGED <<cache, past, upd, raced, overtaken, restarts>>

(* The row is read, but its reader has not run again; or the query fails.  *)
Select(r) ==
  /\ req[r].pc = "select"
  /\ \/ req' = [req EXCEPT ![r].pc = "fill", ![r].row = Row(req[r].tenant)]
     \/ req' = [req EXCEPT ![r].pc = "failed"]
  /\ UNCHANGED <<cache, past, upd, raced, overtaken, restarts>>

FilledWithNewestVersion(r) ==
  [tenant |-> req[r].tenant, version |-> Row(req[r].tenant).version,
   config |-> Resolved(req[r].row.overrides)]

FilledEntry(r) ==
  [tenant |-> req[r].tenant, version |-> req[r].row.version,
   config |-> Resolved(req[r].row.overrides)]

Fill(r) ==
  /\ req[r].pc = "fill"
  /\ IF IsPinned(req[r].row.overrides)
       THEN req' = [req EXCEPT ![r].pc = "failed"] /\ UNCHANGED cache
       ELSE /\ cache' = [cache EXCEPT ![req[r].proc] =
                           SetCache(@, FilledEntry(r))]
            /\ req' = [req EXCEPT ![r].pc = "nodes", ![r].row = NoRow,
                                  ![r].config = FilledEntry(r).config]
  /\ UNCHANGED <<past, upd, raced, overtaken, restarts>>

(***************************************************************************)
(* resolveNodeConfig.  The controller threads "1" through the graph as the *)
(* version when it sees the middleware's context and nothing when it does  *)
(* not, which is the runtime's choice.  A node of a request that has no    *)
(* matching entry uses the context, or else the defaults.                  *)
(***************************************************************************)
Usable(r) ==
  /\ Cached(req[r].proc, req[r].tenant)
  /\ req[r].context => Entry(req[r].proc, req[r].tenant).version = 1

NodeConfigOfAnyone(r) ==
  IF cache[req[r].proc] # <<>> THEN cache[req[r].proc][1].config
                               ELSE req[r].config

NodeConfig(r) ==
  CASE Usable(r) -> Entry(req[r].proc, req[r].tenant).config
    [] ~ Usable(r) /\ req[r].context -> req[r].config
    [] OTHER -> Defaults

Node(r) ==
  /\ req[r].pc = "nodes" /\ Len(req[r].used) < MaxNodes
  /\ req' = [req EXCEPT ![r].used = Append(@, NodeConfig(r))]
  /\ UNCHANGED <<cache, past, upd, raced, overtaken, restarts>>

-----------------------------------------------------------------------------
(* The controller parses the body, and updateConfig checks the result ...  *)
Begin(u, p, t, body) ==
  /\ upd[u].pc = "new"
  /\ upd' = [upd EXCEPT ![u] = [@ EXCEPT !.proc = p, !.tenant = t,
               !.overrides = Parsed(body),
               !.pc = IF IsPinned(Parsed(body)) THEN "failed" ELSE "read"]]
  /\ UNCHANGED <<cache, past, req, raced, overtaken, restarts>>

(* ... reads the version ...                                               *)
ReadVersion(u) ==
  /\ upd[u].pc = "read"
  /\ \/ upd' = [upd EXCEPT ![u].pc = "write",
                           ![u].version = Row(upd[u].tenant).version,
                           ![u].base = Len(past[upd[u].tenant])]
     \/ upd' = [upd EXCEPT ![u].pc = "failed"]
  /\ UNCHANGED <<cache, past, req, raced, overtaken, restarts>>

(* ... and updates the row, or inserts it if there was none; tenantId is   *)
(* unique.  The statement may fail, and it may fail after it took effect.  *)
NewRow(u) == [version |-> upd[u].version + 1, overrides |-> upd[u].overrides]

AcceptedAnyway(u) == TRUE

Accepted(u) == upd[u].version = 0 => Row(upd[u].tenant) = NoRow

Unreached(p, t) ==
  {<<q, t>> : q \in {q \in Procs :
     \/ q # p
     \/ \E r \in Requests : req[r].pc = "fill" /\ req[r].proc = q
                              /\ req[r].tenant = t}}

Write(u) ==
  LET t == upd[u].tenant
  IN  /\ upd[u].pc = "write"
      /\ Accepted(u)
      /\ past' = [past EXCEPT ![t] = Append(@, NewRow(u))]
      /\ overtaken' = [overtaken EXCEPT ![t] =
                         @ \cup (upd[u].base + 1)..Len(past[t])]
      /\ \/ /\ upd' = [upd EXCEPT ![u].pc = "invalidate"]
            /\ raced' = raced \cup Unreached(upd[u].proc, t)
         \/ /\ upd' = [upd EXCEPT ![u].pc = "failed"]
            /\ raced' = raced \cup Procs \X {t}
      /\ UNCHANGED <<cache, req, restarts>>

WriteFails(u) ==
  /\ upd[u].pc = "write"
  /\ upd' = [upd EXCEPT ![u].pc = "failed"]
  /\ UNCHANGED <<cache, past, req, raced, overtaken, restarts>>

(* Only the process of the update forgets the old configuration.           *)
InvalidateNothing(u) ==
  /\ upd[u].pc = "invalidate"
  /\ upd' = [upd EXCEPT ![u].pc = "done"]
  /\ UNCHANGED <<cache, past, req, raced, overtaken, restarts>>

Invalidate(u) ==
  /\ upd[u].pc = "invalidate"
  /\ cache' = [cache EXCEPT ![upd[u].proc] = Without(@, upd[u].tenant)]
  /\ upd' = [upd EXCEPT ![u].pc = "done"]
  /\ UNCHANGED <<past, req, raced, overtaken, restarts>>

Restart(p) ==
  /\ restarts < MaxRestarts
  /\ restarts' = restarts + 1
  /\ cache' = [cache EXCEPT ![p] = <<>>]
  /\ req' = [r \in Requests |->
       IF req[r].proc = p /\ req[r].pc \in {"select", "fill", "nodes"}
         THEN [req[r] EXCEPT !.pc = "failed"] ELSE req[r]]
  /\ upd' = [u \in Updates |->
       IF upd[u].proc = p /\ upd[u].pc \in {"read", "write", "invalidate"}
         THEN [upd[u] EXCEPT !.pc = "failed"] ELSE upd[u]]
  /\ raced' = raced \ {p} \X Tenants
  /\ UNCHANGED <<past, overtaken>>

Init ==
  /\ cache = [p \in Procs |-> <<>>]
  /\ past \in [Tenants -> {<<NoRow>>} \cup
       {<<NoRow, [version |-> 1, overrides |-> Parsed(b)]>> : b \in Bodies}]
  /\ Cardinality({t \in Tenants : past[t] # <<NoRow>>}) <= MaxEarlier
  /\ req \in [Requests -> {[pc |-> "new", proc |-> None, tenant |-> None,
       context |-> c, row |-> NoRow, config |-> Defaults, used |-> <<>>] :
       c \in BOOLEAN}]
  /\ upd = [u \in Updates |-> [pc |-> "new", proc |-> None, tenant |-> None,
                               version |-> 0, base |-> 0, overrides |-> <<>>]]
  /\ raced = {} /\ overtaken = [t \in Tenants |-> {}] /\ restarts = 0

Next ==
  \/ \E r \in Requests :
       \/ \E p \in Procs, t \in Tenants : Enter(r, p, t)
       \/ Select(r) \/ Fill(r) \/ Node(r)
  \/ \E u \in Updates :
       \/ \E p \in Procs, t \in Tenants, body \in Bodies : Begin(u, p, t, body)
       \/ ReadVersion(u) \/ Write(u) \/ WriteFails(u) \/ Invalidate(u)
  \/ \E p \in Procs : Restart(p)

Spec == Init /\ [][Next]_vars
-----------------------------------------------------------------------------
Rows == UNION {Range(past[t]) : t \in Tenants}

(* The cache never outgrows its limit and has one entry per tenant, whose  *)
(* configuration lacks no setting.                                         *)
TypeOK ==
  /\ \A p \in Procs :
       /\ Len(cache[p]) <= MaxCache
       /\ \A i, j \in DOMAIN cache[p] :
            cache[p][i].tenant = cache[p][j].tenant => i = j
       /\ \A e \in Range(cache[p]) :
            e.tenant \in Tenants /\ DOMAIN Defaults \subseteq DOMAIN e.config
  /\ \A row \in Rows :
       row.version \in Nat /\ row.overrides \in Stored
  /\ \A r \in Requests :
       /\ req[r].pc \in {"new", "select", "fill", "nodes", "failed"}
       /\ req[r].row \in Rows \cup {NoRow}
  /\ \A u \in Updates :
       upd[u].pc \in {"new", "read", "write", "invalidate", "done", "failed"}
  /\ raced \subseteq Procs \X Tenants
  /\ \A t \in Tenants : overtaken[t] \subseteq DOMAIN past[t]
  /\ restarts \in 0..MaxRestarts

(***************************************************************************)
(* The version of a cache entry is the one its configuration was stored    *)
(* under, although rows change between the read and the fill               *)
(* (configService.ts, getEffectiveConfig).                                 *)
(***************************************************************************)
CacheIsCommitted ==
  \A p \in Procs : \A e \in Range(cache[p]) :
    \E row \in Range(past[e.tenant]) :
      e.version = row.version /\ e.config = Resolved(row.overrides)

Stale(p, t) ==
  Cached(p, t) /\ Entry(p, t).config # Resolved(Row(t).overrides)

(***************************************************************************)
(* A process that serves an old configuration does so because the update   *)
(* ran in another process, raced with a read that was under way, reported  *)
(* an error after it took effect, or is about to invalidate the entry; an  *)
(* update that does none of these takes effect at once.                    *)
(***************************************************************************)
StaleOnlyByRace ==
  \A p \in Procs, t \in Tenants :
    Stale(p, t) =>
      \/ <<p, t>> \in raced
      \/ \E u \in Updates :
           upd[u].pc = "invalidate" /\ upd[u].proc = p /\ upd[u].tenant = t

(***************************************************************************)
(* Versions count updates, however they overlap: the version of a row is   *)
(* at most the number of updates up to it, and lacks no more than those    *)
(* that were overtaken by one which had read the version before them; and  *)
(* of first updates that overlap one inserts the row, so that no row after *)
(* it has version 1 (configService.ts, updateConfig; schema.prisma,        *)
(* tenantId is unique).                                                    *)
(***************************************************************************)
VersionsCount ==
  \A t \in Tenants : \A i \in DOMAIN past[t] :
    LET count == i - 1
        lost  == Cardinality(overtaken[t] \cap 1..i)
    IN  /\ past[t][i].version \in (count - lost)..count
        /\ count > 1 => past[t][i].version > 1

(***************************************************************************)
(* What a node runs with is the defaults or a configuration of its own     *)
(* tenant, whichever entries were evicted, replaced or invalidated since   *)
(* the request began; with the context, it is one its tenant has had.      *)
(***************************************************************************)
ConfigsAreTheTenants ==
  \A r \in Requests : \A c \in Range(req[r].used) :
    \/ ~ req[r].context /\ c = Defaults
    \/ \E row \in Range(past[req[r].tenant]) : c = Resolved(row.overrides)

=============================================================================
