-------------------------- MODULE TenantConfigProofs --------------------------
(***************************************************************************)
(* For any number of processes, tenants, requests and updates, and any     *)
(* limit of the cache: what is cached was stored, what a node runs with    *)
(* was its tenant's, an old configuration is served for one of the named   *)
(* causes only, and versions count updates.                                *)
(*                                                                         *)
(* The strengthenings say what holds between two statements of a request   *)
(* or an update: of the row a request has read but not yet cached, and of  *)
(* the version an update has read but not yet written.                     *)
(***************************************************************************)
EXTENDS TenantConfig, SequenceTheorems, FiniteSetTheorems, TLAPS

RowType == [version : Nat, overrides : Stored]

Configs == {Resolved(o) : o \in Stored} \cup {Defaults}

EntryType == [tenant : Tenants, version : Nat, config : Configs]

ReqType ==
  [pc : {"new", "select", "fill", "nodes", "failed"},
   proc : Procs \cup {None}, tenant : Tenants \cup {None}, context : BOOLEAN,
   row : RowType, config : Configs, used : Seq(Configs)]

UpdType ==
  [pc : {"new", "read", "write", "invalidate", "done", "failed"},
   proc : Procs \cup {None}, tenant : Tenants \cup {None}, version : Nat,
   base : Nat, overrides : Stored]

OnePerTenant(entries) ==
  \A i, j \in DOMAIN entries : entries[i].tenant = entries[j].tenant => i = j

(* Tenant t has had this row, or this configuration, under this version.   *)
HadRow(t, row) == \E i \in DOMAIN past[t] : past[t][i] = row

Had(t, config) ==
  \E i \in DOMAIN past[t] : config = Resolved(past[t][i].overrides)

IsStored(e) ==
  \E i \in DOMAIN past[e.tenant] :
    /\ past[e.tenant][i].version = e.version
    /\ Resolved(past[e.tenant][i].overrides) = e.config

PastOk ==
  /\ past \in [Tenants -> Seq(RowType)]
  /\ \A t \in Tenants :
       /\ Len(past[t]) > 0
       /\ \A i \in DOMAIN past[t] : ~ IsPinned(past[t][i].overrides)

CacheOk(entries) ==
  /\ entries \in Seq(EntryType)
  /\ OnePerTenant(entries)
  /\ \A k \in DOMAIN entries : IsStored(entries[k])

ReqOk(x) ==
  /\ x \in ReqType
  /\ x.pc \in {"select", "fill", "nodes"} =>
       x.proc \in Procs /\ x.tenant \in Tenants
  /\ x.used # <<>> => x.pc # "new" /\ x.tenant \in Tenants
  /\ x.pc = "fill" => HadRow(x.tenant, x.row)
  /\ x.pc = "nodes" => Had(x.tenant, x.config)
  /\ \A k \in DOMAIN x.used :
       (~ x.context /\ x.used[k] = Defaults) \/ Had(x.tenant, x.used[k])

UpdOk(x) ==
  /\ x \in UpdType
  /\ x.pc \in {"read", "write", "invalidate"} =>
       x.proc \in Procs /\ x.tenant \in Tenants /\ ~ IsPinned(x.overrides)

Inv ==
  /\ PastOk
  /\ cache \in [Procs -> Seq(EntryType)] /\ \A p \in Procs : CacheOk(cache[p])
  /\ req \in [Requests -> ReqType] /\ \A r \in Requests : ReqOk(req[r])
  /\ upd \in [Updates -> UpdType] /\ \A u \in Updates : UpdOk(upd[u])

-----------------------------------------------------------------------------
(* The map of the cache: what setCache and delete leave in it.             *)
LEMMA WithoutTenant ==
  ASSUME NEW entries \in Seq(EntryType), NEW t, OnePerTenant(entries)
  PROVE  /\ Without(entries, t) \in Seq(EntryType)
         /\ OnePerTenant(Without(entries, t))
         /\ \A k \in DOMAIN Without(entries, t) :
              /\ Without(entries, t)[k].tenant # t
              /\ \E i \in DOMAIN entries : Without(entries, t)[k] = entries[i]
<1>1. CASE \A i \in DOMAIN entries : entries[i].tenant # t
  BY <1>1 DEF Without
<1>2. CASE \E i \in DOMAIN entries : entries[i].tenant = t
  <2> DEFINE i == CHOOSE i \in DOMAIN entries : entries[i].tenant = t
             left == SubSeq(entries, 1, i - 1)
             right == SubSeq(entries, i + 1, Len(entries))
  <2>1. i \in 1..Len(entries) /\ entries[i].tenant = t
    BY <1>2
  <2>2. Without(entries, t) = left \o right
    BY <1>2 DEF Without, RemoveAt
  <2> HIDE DEF i
  <2>3. /\ left \in Seq(EntryType) /\ Len(left) = i - 1
        /\ \A k \in 1..(i - 1) : left[k] = entries[k]
    BY <2>1
  <2>4. /\ right \in Seq(EntryType) /\ Len(right) = Len(entries) - i
        /\ \A k \in 1..(Len(entries) - i) : right[k] = entries[i + k]
    BY <2>1
  <2> HIDE DEF left, right
  <2>5. /\ left \o right \in Seq(EntryType)
        /\ Len(left \o right) = Len(entries) - 1
        /\ \A k \in 1..(Len(entries) - 1) :
             (left \o right)[k] = IF k < i THEN entries[k] ELSE entries[k + 1]
    <3>1. /\ left \o right \in Seq(EntryType)
          /\ Len(left \o right) = Len(entries) - 1
      <4>1. /\ left \o right \in Seq(EntryType)
            /\ Len(left \o right) = Len(left) + Len(right)
        BY <2>3, <2>4, ConcatProperties
      <4> QED
        BY <2>1, <2>3, <2>4, <4>1
    <3>2. ASSUME NEW k \in 1..(Len(entries) - 1), k < i
          PROVE  (left \o right)[k] = entries[k]
      BY <2>1, <2>3, <2>4, <3>2
    <3>3. ASSUME NEW k \in 1..(Len(entries) - 1), ~ (k < i)
          PROVE  (left \o right)[k] = entries[k + 1]
      <4>1. k - (i - 1) \in 1..(Len(entries) - i) /\ i + (k - (i - 1)) = k + 1
        BY <2>1, <3>3
      <4>2. (left \o right)[k] = right[k - (i - 1)]
        BY <2>1, <2>3, <2>4, <3>3
      <4> QED
        BY <2>4, <4>1, <4>2
    <3> QED
      BY <3>1, <3>2, <3>3
  <2> DEFINE rest == left \o right
  <2> HIDE DEF rest
  <2>6. /\ rest \in Seq(EntryType) /\ DOMAIN rest = 1..(Len(entries) - 1)
        /\ \A k \in DOMAIN rest :
             rest[k] = IF k < i THEN entries[k] ELSE entries[k + 1]
    BY <2>5 DEF rest
  <2>7. ASSUME NEW k \in DOMAIN rest
        PROVE  /\ rest[k].tenant # t
               /\ \E n \in DOMAIN entries : rest[k] = entries[n]
    BY <2>1, <2>6 DEF OnePerTenant
  <2>8. OnePerTenant(rest)
    BY <2>1, <2>6 DEF OnePerTenant
  <2> QED
    BY <2>2, <2>6, <2>7, <2>8 DEF rest
<1> QED
  BY <1>1, <1>2

LEMMA SetCacheEntries ==
  ASSUME NEW entries \in Seq(EntryType), NEW entry \in EntryType,
         OnePerTenant(entries)
  PROVE  /\ SetCache(entries, entry) \in Seq(EntryType)
         /\ OnePerTenant(SetCache(entries, entry))
         /\ \A k \in DOMAIN SetCache(entries, entry) :
              \/ SetCache(entries, entry)[k] = entry
              \/ \E i \in DOMAIN entries : SetCache(entries, entry)[k] = entries[i]
<1> DEFINE kept == IF Len(entries) >= MaxCache THEN Tail(entries) ELSE entries
           result == IF \E i \in DOMAIN kept : kept[i].tenant = entry.tenant
                       THEN [i \in DOMAIN kept |->
                               IF kept[i].tenant = entry.tenant
                                 THEN entry ELSE kept[i]]
                       ELSE Append(kept, entry)
<1>0. MaxCache \in Nat \ {0}
  BY TenantConfigAssumption
<1>1. SetCache(entries, entry) = result
  BY DEF SetCache
<1>2. /\ kept \in Seq(EntryType) /\ OnePerTenant(kept)
      /\ \A k \in DOMAIN kept : \E i \in DOMAIN entries : kept[k] = entries[i]
  <2>1. CASE Len(entries) >= MaxCache
    <3>1. entries # <<>>
      BY <1>0, <2>1
    <3>2. /\ Tail(entries) \in Seq(EntryType)
          /\ DOMAIN Tail(entries) = 1..(Len(entries) - 1)
          /\ \A k \in 1..(Len(entries) - 1) :
               Tail(entries)[k] = entries[k + 1] /\ k + 1 \in DOMAIN entries
      BY <3>1
    <3> QED
      BY <2>1, <3>2 DEF OnePerTenant
  <2>2. CASE ~ (Len(entries) >= MaxCache)
    BY <2>2
  <2> QED
    BY <2>1, <2>2
<1> HIDE DEF kept
<1>3. CASE \E i \in DOMAIN kept : kept[i].tenant = entry.tenant
  <2>1. /\ result = [i \in DOMAIN kept |-> IF kept[i].tenant = entry.tenant
                                             THEN entry ELSE kept[i]]
        /\ DOMAIN kept = 1..Len(kept)
    BY <1>2, <1>3
  <2>2. ASSUME NEW i \in DOMAIN kept
        PROVE  (IF kept[i].tenant = entry.tenant THEN entry ELSE kept[i]) \in EntryType
    <3>1. kept[i] \in EntryType
      BY <1>2, <2>1, ElementOfSeq
    <3> QED
      BY <3>1
  <2>3. Len(kept) \in Nat
    BY <1>2
  <2> HIDE DEF result
  <2>4. result \in Seq(EntryType) /\ DOMAIN result = DOMAIN kept
    BY <2>1, <2>2, <2>3
  <2>5. OnePerTenant(result)
    BY <1>2, <2>1 DEF OnePerTenant
  <2>6. ASSUME NEW k \in DOMAIN result
        PROVE  result[k] = entry \/ \E i \in DOMAIN entries : result[k] = entries[i]
    BY <1>2, <2>1, <2>4
  <2> QED
    BY <1>1, <2>4, <2>5, <2>6
<1>4. CASE \A i \in DOMAIN kept : kept[i].tenant # entry.tenant
  <2>1. /\ result = Append(kept, entry) /\ DOMAIN kept = 1..Len(kept)
        /\ Len(kept) \in Nat
    BY <1>2, <1>4
  <2> HIDE DEF result
  <2>2. /\ result \in Seq(EntryType) /\ DOMAIN result = 1..(Len(kept) + 1)
        /\ \A k \in DOMAIN kept : result[k] = kept[k]
        /\ result[Len(kept) + 1] = entry
    BY <1>2, <2>1
  <2>3. OnePerTenant(result)
    BY <1>2, <1>4, <2>1, <2>2 DEF OnePerTenant
  <2>4. ASSUME NEW k \in DOMAIN result
        PROVE  result[k] = entry \/ \E i \in DOMAIN entries : result[k] = entries[i]
    BY <1>2, <2>1, <2>2
  <2> QED
    BY <1>1, <2>2, <2>3, <2>4
<1> QED
  BY <1>3, <1>4

-----------------------------------------------------------------------------
(* Rows are only added, so whatever was stored stays stored.               *)
LEMMA Grows ==
  ASSUME Inv, PastOk',
         \A t \in Tenants : \A i \in DOMAIN past[t] :
           i \in DOMAIN past'[t] /\ past'[t][i] = past[t][i]
  PROVE  /\ \A entries : CacheOk(entries) => CacheOk(entries)'
         /\ \A x : ReqOk(x) => ReqOk(x)'
<1>1. ASSUME NEW t \in Tenants, NEW row, HadRow(t, row) PROVE HadRow(t, row)'
  BY <1>1 DEF HadRow
<1>2. ASSUME NEW t \in Tenants, NEW c, Had(t, c) PROVE Had(t, c)'
  BY <1>2 DEF Had
<1>3. ASSUME NEW entries, CacheOk(entries) PROVE CacheOk(entries)'
  <2>1. ASSUME NEW k \in DOMAIN entries PROVE IsStored(entries[k])'
    <3>1. entries[k] \in EntryType
      BY <1>3, ElementOfSeq DEF CacheOk
    <3>2. entries[k].tenant \in Tenants
      BY <3>1 DEF EntryType
    <3> QED
      BY <1>3, <3>2 DEF CacheOk, IsStored
  <2> QED
    BY <1>3, <2>1 DEF CacheOk
<1>4. ASSUME NEW x, ReqOk(x) PROVE ReqOk(x)'
  <2>1. x.used = <<>> \/ x.tenant \in Tenants
    BY <1>4 DEF ReqOk
  <2>2. ASSUME NEW k \in DOMAIN x.used
        PROVE  ((~ x.context /\ x.used[k] = Defaults) \/ Had(x.tenant, x.used[k]))'
    <3>1. x.tenant \in Tenants
      BY <2>1
    <3> QED
      BY <1>2, <1>4, <3>1 DEF ReqOk
  <2>3. x.pc = "fill" => HadRow(x.tenant, x.row)'
    BY <1>1, <1>4 DEF ReqOk
  <2>4. x.pc = "nodes" => Had(x.tenant, x.config)'
    BY <1>2, <1>4 DEF ReqOk
  <2> QED
    BY <1>4, <2>2, <2>3, <2>4 DEF ReqOk
<1> QED
  BY <1>3, <1>4

LEMMA Stays ==
  ASSUME Inv, past' = past
  PROVE  /\ PastOk'
         /\ \A entries : CacheOk(entries) => CacheOk(entries)'
         /\ \A x : ReqOk(x) => ReqOk(x)'
<1>1. PastOk'
  BY DEF Inv, PastOk
<1> QED
  BY <1>1, Grows

(* What the schema of the controller leaves of a body pins nothing.        *)
LEMMA ParsedPinsNothing ==
  ASSUME NEW body
  PROVE  ~ IsPinned(Parsed(body))
<1>1. DOMAIN Parsed(body) = DOMAIN body \ Pinned
  BY DEF Parsed, Restrict
<1> QED
  BY <1>1 DEF IsPinned

(* Rows of earlier runs, nothing cached, nobody under way.                 *)
LEMMA InitInv == Init => Inv
<1> SUFFICES ASSUME Init PROVE Inv
  OBVIOUS
<1>1. NoRow \in RowType /\ ~ IsPinned(NoRow.overrides)
  BY DEF NoRow, RowType, Stored, IsPinned
<1>2. PastOk
  <2>1. ASSUME NEW b \in Bodies, NEW row,
               row = [version |-> 1, overrides |-> Parsed(b)]
        PROVE  row \in RowType /\ ~ IsPinned(row.overrides)
    <3>1. ~ IsPinned(Parsed(b))
      BY ParsedPinsNothing
    <3> QED
      BY <2>1, <3>1 DEF RowType, Stored
  <2>2. ASSUME NEW t \in Tenants
        PROVE  /\ past[t] \in Seq(RowType) /\ Len(past[t]) > 0
               /\ \A i \in DOMAIN past[t] : ~ IsPinned(past[t][i].overrides)
    <3>1. CASE past[t] = <<NoRow>>
      BY <1>1, <3>1
    <3>2. ASSUME NEW b \in Bodies, NEW row,
                 row = [version |-> 1, overrides |-> Parsed(b)],
                 past[t] = <<NoRow, row>>
          PROVE  /\ past[t] \in Seq(RowType) /\ Len(past[t]) > 0
                 /\ \A i \in DOMAIN past[t] : ~ IsPinned(past[t][i].overrides)
      <4>1. row \in RowType /\ ~ IsPinned(row.overrides)
        BY <2>1, <3>2
      <4> QED
        BY <1>1, <3>2, <4>1
    <3> QED
      BY <3>1, <3>2 DEF Init
  <2> QED
    BY <2>2 DEF Init, PastOk
<1>3. /\ cache \in [Procs -> Seq(EntryType)]
      /\ \A p \in Procs : CacheOk(cache[p])
  BY DEF Init, CacheOk, OnePerTenant
<1>4. ASSUME NEW r \in Requests
      PROVE  req[r] \in ReqType /\ ReqOk(req[r])
  <2>1. PICK c \in BOOLEAN :
          req[r] = [pc |-> "new", proc |-> None, tenant |-> None,
            context |-> c, row |-> NoRow, config |-> Defaults, used |-> <<>>]
    BY DEF Init
  <2>2. req[r] \in ReqType
    BY <1>1, <2>1 DEF ReqType, Configs
  <2> QED
    BY <2>1, <2>2 DEF ReqOk
<1>5. req \in [Requests -> ReqType]
  BY <1>4 DEF Init
<1>6. upd \in [Updates -> UpdType] /\ \A u \in Updates : UpdOk(upd[u])
  BY DEF Init, UpdOk, UpdType, Stored
<1> QED
  BY <1>2, <1>3, <1>4, <1>5, <1>6 DEF Inv

(* One request moves; so does the cache of at most one process.            *)
LEMMA RequestStep ==
  ASSUME Inv, NEW r \in Requests, NEW x, ReqOk(x),
         req' = [req EXCEPT ![r] = x],
         past' = past, upd' = upd,
         \/ cache' = cache
         \/ \E p \in Procs : \E entries :
              CacheOk(entries) /\ cache' = [cache EXCEPT ![p] = entries]
  PROVE  Inv'
<1>1. /\ PastOk'
      /\ \A entries : CacheOk(entries) => CacheOk(entries)'
      /\ \A y : ReqOk(y) => ReqOk(y)'
  BY Stays
<1>2. req' \in [Requests -> ReqType] /\ \A q \in Requests : ReqOk(req'[q])
  BY DEF Inv, ReqOk
<1>3. /\ cache' \in [Procs -> Seq(EntryType)]
      /\ \A q \in Procs : CacheOk(cache'[q])
  <2>1. CASE cache' = cache
    BY <2>1 DEF Inv
  <2>2. CASE \E p \in Procs : \E entries :
               CacheOk(entries) /\ cache' = [cache EXCEPT ![p] = entries]
    BY <2>2 DEF Inv, CacheOk
  <2> QED
    BY <2>1, <2>2
<1>4. \A u \in Updates : UpdOk(upd[u])'
  BY DEF Inv, UpdOk
<1> QED
  BY <1>1, <1>2, <1>3, <1>4 DEF Inv

(* The configuration of a cached entry is one its tenant has had.          *)
LEMMA EntryIsHad ==
  ASSUME Inv, NEW p \in Procs, NEW t \in Tenants, Cached(p, t)
  PROVE  /\ Entry(p, t).tenant = t /\ Entry(p, t).config \in Configs
         /\ Had(t, Entry(p, t).config)
         /\ \E k \in DOMAIN cache[p] : cache[p][k] = Entry(p, t)
<1>1. Entry(p, t) \in Range(cache[p]) /\ Entry(p, t).tenant = t
  BY DEF Cached, Entry
<1>2. PICK k \in DOMAIN cache[p] : cache[p][k] = Entry(p, t)
  BY <1>1 DEF Range
<1>3. IsStored(Entry(p, t)) /\ cache[p] \in Seq(EntryType)
  BY <1>2 DEF Inv, CacheOk
<1>4. Entry(p, t) \in EntryType
  BY <1>2, <1>3, ElementOfSeq
<1> QED
  BY <1>1, <1>2, <1>3, <1>4 DEF IsStored, Had, EntryType

LEMMA EnterInv ==
  ASSUME Inv, NEW r \in Requests, NEW p \in Procs, NEW t \in Tenants,
         Enter(r, p, t)
  PROVE  Inv'
<1> DEFINE pc == IF Cached(p, t) THEN "nodes" ELSE "select"
           config == IF Cached(p, t) THEN Entry(p, t).config ELSE req[r].config
           x == [req[r] EXCEPT !.proc = p, !.tenant = t, !.pc = pc,
                   !.config = config]
<1>1. /\ req \in [Requests -> ReqType] /\ req[r] \in ReqType /\ ReqOk(req[r])
      /\ req[r].pc = "new"
      /\ past' = past /\ upd' = upd /\ cache' = cache
  BY DEF Inv, Enter
<1>2. req' = [req EXCEPT ![r] = x]
  BY <1>1 DEF Enter
<1>3. /\ pc \in {"nodes", "select"} /\ config \in Configs
      /\ pc = "nodes" => Had(t, config)
  BY <1>1, EntryIsHad DEF ReqType
<1> HIDE DEF pc, config
<1>4. /\ x \in ReqType /\ x.pc = pc /\ x.proc = p /\ x.tenant = t
      /\ x.config = config /\ x.used = req[r].used
  BY <1>1, <1>3 DEF ReqType
<1>5. x.used = <<>>
  BY <1>1, <1>4 DEF ReqOk
<1> HIDE DEF x
<1>6. ReqOk(x)
  BY <1>3, <1>4, <1>5 DEF ReqOk
<1> QED
  BY <1>1, <1>2, <1>6, RequestStep

LEMMA SelectInv ==
  ASSUME Inv, NEW r \in Requests, Select(r)
  PROVE  Inv'
<1>1. /\ req \in [Requests -> ReqType] /\ req[r] \in ReqType /\ ReqOk(req[r])
      /\ req[r].pc = "select"
      /\ past' = past /\ upd' = upd /\ cache' = cache
  BY DEF Inv, Select
<1>2. CASE req' = [req EXCEPT ![r].pc = "failed"]
  <2> DEFINE x == [req[r] EXCEPT !.pc = "failed"]
  <2>1. req' = [req EXCEPT ![r] = x]
    BY <1>1, <1>2
  <2>2. /\ x \in ReqType /\ x.pc = "failed" /\ x.tenant = req[r].tenant
        /\ x.used = req[r].used /\ x.context = req[r].context
    BY <1>1 DEF ReqType
  <2> HIDE DEF x
  <2>3. ReqOk(x)
    BY <1>1, <2>2 DEF ReqOk
  <2> QED
    BY <1>1, <2>1, <2>3, RequestStep
<1>3. CASE req' = [req EXCEPT ![r].pc = "fill", ![r].row = Row(req[r].tenant)]
  <2> DEFINE t == req[r].tenant
             x == [req[r] EXCEPT !.pc = "fill", !.row = Row(t)]
  <2>1. req' = [req EXCEPT ![r] = x]
    BY <1>1, <1>3
  <2>2. t \in Tenants /\ past[t] \in Seq(RowType) /\ Len(past[t]) > 0
    BY <1>1 DEF Inv, PastOk, ReqOk
  <2>3. Len(past[t]) \in DOMAIN past[t]
    BY <2>2
  <2>4. Row(t) \in RowType /\ HadRow(t, Row(t))
    BY <2>2, <2>3, ElementOfSeq DEF Row, HadRow
  <2>5. /\ x \in ReqType /\ x.pc = "fill" /\ x.tenant = t /\ x.row = Row(t)
        /\ x.used = req[r].used /\ x.context = req[r].context
        /\ x.proc = req[r].proc
    BY <1>1, <2>4 DEF ReqType
  <2> HIDE DEF x
  <2>6. ReqOk(x)
    BY <1>1, <2>4, <2>5 DEF ReqOk
  <2> QED
    BY <1>1, <2>1, <2>6, RequestStep
<1> QED
  BY <1>2, <1>3 DEF Select

(* What Fill caches was stored, under the version it has in the cache.     *)
LEMMA Filled ==
  ASSUME Inv, NEW r \in Requests, req[r].pc = "fill"
  PROVE  /\ req[r].proc \in Procs /\ req[r].tenant \in Tenants
         /\ FilledEntry(r) \in EntryType /\ IsStored(FilledEntry(r))
         /\ FilledEntry(r).tenant = req[r].tenant
         /\ FilledEntry(r).config = Resolved(req[r].row.overrides)
         /\ Had(req[r].tenant, FilledEntry(r).config)
<1>1. /\ req[r] \in ReqType /\ req[r].proc \in Procs /\ req[r].tenant \in Tenants
      /\ HadRow(req[r].tenant, req[r].row)
  BY DEF Inv, ReqOk
<1>2. req[r].row.version \in Nat /\ req[r].row.overrides \in Stored
  BY <1>1 DEF ReqType, RowType
<1> QED
  BY <1>1, <1>2 DEF FilledEntry, EntryType, Configs, IsStored, HadRow, Had

LEMMA FillInv ==
  ASSUME Inv, NEW r \in Requests, Fill(r)
  PROVE  Inv'
<1>1. /\ req \in [Requests -> ReqType] /\ req[r] \in ReqType /\ ReqOk(req[r])
      /\ req[r].pc = "fill"
      /\ past' = past /\ upd' = upd
  BY DEF Inv, Fill
<1>2. CASE req' = [req EXCEPT ![r].pc = "failed"] /\ cache' = cache
  <2> DEFINE x == [req[r] EXCEPT !.pc = "failed"]
  <2>1. req' = [req EXCEPT ![r] = x]
    BY <1>1, <1>2
  <2>2. /\ x \in ReqType /\ x.pc = "failed" /\ x.tenant = req[r].tenant
        /\ x.used = req[r].used /\ x.context = req[r].context
    BY <1>1 DEF ReqType
  <2> HIDE DEF x
  <2>3. ReqOk(x)
    BY <1>1, <2>2 DEF ReqOk
  <2> QED
    BY <1>1, <1>2, <2>1, <2>3, RequestStep
<1>3. CASE /\ cache' = [cache EXCEPT ![req[r].proc] = SetCache(@, FilledEntry(r))]
           /\ req' = [req EXCEPT ![r].pc = "nodes", ![r].row = NoRow,
                                 ![r].config = FilledEntry(r).config]
  <2> DEFINE p == req[r].proc
             e == FilledEntry(r)
             x == [req[r] EXCEPT !.pc = "nodes", !.row = NoRow,
                                 !.config = e.config]
  <2>1. req' = [req EXCEPT ![r] = x]
    BY <1>1, <1>3
  <2>2. /\ p \in Procs /\ req[r].tenant \in Tenants /\ e \in EntryType
        /\ IsStored(e) /\ Had(req[r].tenant, e.config)
    BY <1>1, Filled
  <2>3. NoRow \in RowType /\ e.config \in Configs
    BY <2>2 DEF NoRow, RowType, Stored, EntryType
  <2> HIDE DEF e
  <2>4. /\ x \in ReqType /\ x.pc = "nodes" /\ x.tenant = req[r].tenant
        /\ x.used = req[r].used /\ x.context = req[r].context
        /\ x.proc = p /\ x.config = e.config
    BY <1>1, <2>3 DEF ReqType
  <2> HIDE DEF x
  <2>5. ReqOk(x)
    BY <1>1, <2>2, <2>4 DEF ReqOk
  <2>6. CacheOk(cache[p]) /\ cache \in [Procs -> Seq(EntryType)]
    BY <2>2 DEF Inv
  <2>7. CacheOk(SetCache(cache[p], e))
    BY <2>2, <2>6, SetCacheEntries DEF CacheOk
  <2>8. cache' = [cache EXCEPT ![p] = SetCache(cache[p], e)]
    BY <1>3, <2>6 DEF e
  <2> QED
    BY <1>1, <2>1, <2>2, <2>5, <2>7, <2>8, RequestStep
<1> QED
  BY <1>2, <1>3 DEF Fill

LEMMA NodeInv ==
  ASSUME Inv, NEW r \in Requests, Node(r)
  PROVE  Inv'
<1> DEFINE c == NodeConfig(r)
           used == Append(req[r].used, c)
           x == [req[r] EXCEPT !.used = used]
<1>1. /\ req \in [Requests -> ReqType] /\ req[r] \in ReqType /\ ReqOk(req[r])
      /\ req[r].pc = "nodes"
      /\ past' = past /\ upd' = upd /\ cache' = cache
  BY DEF Inv, Node
<1>2. req' = [req EXCEPT ![r] = x]
  BY <1>1 DEF Node
<1>3. /\ req[r].proc \in Procs /\ req[r].tenant \in Tenants
      /\ Had(req[r].tenant, req[r].config) /\ req[r].config \in Configs
      /\ req[r].used \in Seq(Configs) /\ req[r].context \in BOOLEAN
  BY <1>1 DEF ReqOk, ReqType
<1>4. /\ c \in Configs
      /\ (~ req[r].context /\ c = Defaults) \/ Had(req[r].tenant, c)
  <2>1. CASE Usable(r)
    BY <1>3, <2>1, EntryIsHad DEF NodeConfig, Usable
  <2>2. CASE ~ Usable(r) /\ req[r].context
    BY <1>3, <2>2 DEF NodeConfig
  <2>3. CASE ~ Usable(r) /\ ~ req[r].context
    BY <1>3, <2>3 DEF NodeConfig, Configs
  <2> QED
    BY <1>3, <2>1, <2>2, <2>3
<1> HIDE DEF c
<1>5. /\ used \in Seq(Configs) /\ DOMAIN used = 1..(Len(req[r].used) + 1)
      /\ \A k \in DOMAIN req[r].used : used[k] = req[r].used[k]
      /\ used[Len(req[r].used) + 1] = c
      /\ DOMAIN req[r].used = 1..Len(req[r].used) /\ Len(req[r].used) \in Nat
  BY <1>3, <1>4
<1> HIDE DEF used
<1>6. /\ x \in ReqType /\ x.pc = "nodes" /\ x.tenant = req[r].tenant
      /\ x.context = req[r].context /\ x.proc = req[r].proc
      /\ x.config = req[r].config /\ x.used = used
  BY <1>1, <1>5 DEF ReqType
<1> HIDE DEF x
<1>7. ASSUME NEW k \in DOMAIN x.used
      PROVE  (~ x.context /\ x.used[k] = Defaults) \/ Had(x.tenant, x.used[k])
  <2>1. CASE k \in DOMAIN req[r].used
    <3>1. x.used[k] = req[r].used[k]
      BY <1>5, <1>6, <2>1
    <3> QED
      BY <1>1, <1>6, <2>1, <3>1 DEF ReqOk
  <2>2. CASE k \notin DOMAIN req[r].used
    <3>1. k = Len(req[r].used) + 1
      BY <1>5, <1>6, <2>2
    <3> QED
      BY <1>4, <1>5, <1>6, <3>1
  <2> QED
    BY <2>1, <2>2
<1>8. ReqOk(x)
  BY <1>3, <1>6, <1>7 DEF ReqOk
<1> QED
  BY <1>1, <1>2, <1>8, RequestStep

-----------------------------------------------------------------------------
(* One update moves; the rows and the caches stay.                         *)
LEMMA UpdateStep ==
  ASSUME Inv, NEW u \in Updates, NEW x, UpdOk(x),
         upd' = [upd EXCEPT ![u] = x],
         past' = past, req' = req, cache' = cache
  PROVE  Inv'
<1>1. /\ PastOk'
      /\ \A entries : CacheOk(entries) => CacheOk(entries)'
      /\ \A y : ReqOk(y) => ReqOk(y)'
  BY Stays
<1>2. upd' \in [Updates -> UpdType] /\ \A v \in Updates : UpdOk(upd'[v])
  BY DEF Inv, UpdOk
<1>3. \A v \in Updates : UpdOk(upd[v])'
  BY <1>2 DEF UpdOk
<1> QED
  BY <1>1, <1>2, <1>3 DEF Inv

LEMMA BeginInv ==
  ASSUME Inv, NEW u \in Updates, NEW p \in Procs, NEW t \in Tenants,
         NEW body \in Bodies, Begin(u, p, t, body)
  PROVE  Inv'
<1>0. PICK o : o = Parsed(body)
  OBVIOUS
<1> DEFINE pc == IF IsPinned(o) THEN "failed" ELSE "read"
           x == [upd[u] EXCEPT !.proc = p, !.tenant = t, !.overrides = o,
                               !.pc = pc]
<1>1. /\ upd \in [Updates -> UpdType] /\ upd[u] \in UpdType
      /\ past' = past /\ req' = req /\ cache' = cache
  BY DEF Inv, Begin
<1>2. upd' = [upd EXCEPT ![u] = x]
  BY <1>0, <1>1 DEF Begin
<1>3. pc \in {"failed", "read"} /\ (pc = "read" => ~ IsPinned(o))
  OBVIOUS
<1>4. o \in Stored
  BY <1>0 DEF Stored
<1> HIDE DEF pc
<1>5. /\ x \in UpdType /\ x.pc = pc /\ x.proc = p /\ x.tenant = t
      /\ x.overrides = o
  BY <1>1, <1>3, <1>4 DEF UpdType
<1> HIDE DEF x
<1>6. UpdOk(x)
  BY <1>3, <1>5 DEF UpdOk
<1> QED
  BY <1>1, <1>2, <1>6, UpdateStep

(* An update that goes on to another statement, or fails, keeps its data.  *)
LEMMA UpdateMoves ==
  ASSUME Inv, NEW u \in Updates, NEW pc \in {"write", "failed"},
         upd[u].pc \in {"read", "write", "invalidate"},
         NEW version \in Nat, NEW base \in Nat,
         upd' = [upd EXCEPT ![u] = [@ EXCEPT !.pc = pc, !.version = version,
                                             !.base = base]],
         past' = past, req' = req, cache' = cache
  PROVE  Inv'
<1> DEFINE x == [upd[u] EXCEPT !.pc = pc, !.version = version, !.base = base]
<1>1. upd \in [Updates -> UpdType] /\ upd[u] \in UpdType /\ UpdOk(upd[u])
  BY DEF Inv
<1>2. upd' = [upd EXCEPT ![u] = x]
  BY <1>1
<1>3. /\ x \in UpdType /\ x.pc = pc /\ x.proc = upd[u].proc
      /\ x.tenant = upd[u].tenant /\ x.overrides = upd[u].overrides
  BY <1>1 DEF UpdType
<1> HIDE DEF x
<1>4. UpdOk(x)
  BY <1>1, <1>3 DEF UpdOk
<1> QED
  BY <1>2, <1>4, UpdateStep

LEMMA ReadVersionInv ==
  ASSUME Inv, NEW u \in Updates, ReadVersion(u)
  PROVE  Inv'
<1>1. /\ upd \in [Updates -> UpdType] /\ upd[u] \in UpdType /\ UpdOk(upd[u])
      /\ upd[u].pc = "read"
      /\ past' = past /\ req' = req /\ cache' = cache
  BY DEF Inv, ReadVersion
<1>2. CASE upd' = [upd EXCEPT ![u].pc = "write",
                              ![u].version = Row(upd[u].tenant).version,
                              ![u].base = Len(past[upd[u].tenant])]
  <2> DEFINE t == upd[u].tenant
  <2>1. t \in Tenants /\ past[t] \in Seq(RowType) /\ Len(past[t]) > 0
    BY <1>1 DEF Inv, PastOk, UpdOk
  <2>2. Row(t) \in RowType
    BY <2>1, ElementOfSeq DEF Row
  <2>3. Row(t).version \in Nat
    BY <2>2 DEF RowType
  <2>4. upd' = [upd EXCEPT ![u] =
                  [@ EXCEPT !.pc = "write", !.version = Row(t).version,
                            !.base = Len(past[t])]]
    BY <1>1, <1>2
  <2>5. Len(past[t]) \in Nat
    BY <2>1
  <2> QED
    BY <1>1, <2>3, <2>4, <2>5, UpdateMoves
<1>3. CASE upd' = [upd EXCEPT ![u].pc = "failed"]
  <2>1. upd[u].version \in Nat /\ upd[u].base \in Nat
    BY <1>1 DEF UpdType
  <2>2. upd' = [upd EXCEPT ![u] =
                  [@ EXCEPT !.pc = "failed", !.version = upd[u].version,
                            !.base = upd[u].base]]
    BY <1>1, <1>3 DEF UpdType
  <2> QED
    BY <1>1, <2>1, <2>2, UpdateMoves
<1> QED
  BY <1>2, <1>3 DEF ReadVersion

LEMMA WriteFailsInv ==
  ASSUME Inv, NEW u \in Updates, WriteFails(u)
  PROVE  Inv'
<1>1. /\ upd \in [Updates -> UpdType] /\ upd[u] \in UpdType
      /\ upd[u].pc = "write"
      /\ past' = past /\ req' = req /\ cache' = cache
  BY DEF Inv, WriteFails
<1>2. upd[u].version \in Nat /\ upd[u].base \in Nat
  BY <1>1 DEF UpdType
<1>3. upd' = [upd EXCEPT ![u] =
                [@ EXCEPT !.pc = "failed", !.version = upd[u].version,
                          !.base = upd[u].base]]
  BY <1>1 DEF UpdType, WriteFails
<1> QED
  BY <1>1, <1>2, <1>3, UpdateMoves

(* A write adds a row, which pins what its update was checked to pin.      *)
LEMMA WriteInv ==
  ASSUME Inv, NEW u \in Updates, Write(u)
  PROVE  Inv'
<1> DEFINE t == upd[u].tenant
           row == NewRow(u)
<1>1. /\ upd \in [Updates -> UpdType] /\ upd[u] \in UpdType /\ UpdOk(upd[u])
      /\ upd[u].pc = "write"
      /\ past' = [past EXCEPT ![t] = Append(@, row)]
      /\ req' = req /\ cache' = cache
  BY DEF Inv, Write
<1>2. t \in Tenants /\ row \in RowType /\ ~ IsPinned(row.overrides)
  BY <1>1 DEF UpdOk, UpdType, NewRow, RowType
<1>3. past \in [Tenants -> Seq(RowType)]
  BY DEF Inv, PastOk
<1> HIDE DEF row
<1>4. past' \in [Tenants -> Seq(RowType)]
  BY <1>1, <1>2, <1>3
<1>5. /\ DOMAIN past[t] = 1..Len(past[t])
      /\ DOMAIN past'[t] = 1..(Len(past[t]) + 1) /\ Len(past'[t]) > 0
      /\ \A i \in 1..Len(past[t]) : past'[t][i] = past[t][i]
      /\ past'[t][Len(past[t]) + 1] = row /\ Len(past[t]) \in Nat
  BY <1>1, <1>2, <1>3
<1>6. \A s \in Tenants \ {t} : past'[s] = past[s]
  BY <1>1, <1>3
<1>7. PastOk'
  <2>1. ASSUME NEW s \in Tenants
        PROVE  /\ Len(past'[s]) > 0
               /\ \A i \in DOMAIN past'[s] : ~ IsPinned(past'[s][i].overrides)
    <3>1. CASE s # t
      BY <1>6, <3>1 DEF Inv, PastOk
    <3>2. ASSUME NEW i \in 1..(Len(past[t]) + 1)
          PROVE  ~ IsPinned(past'[t][i].overrides)
      <4>1. CASE i = Len(past[t]) + 1
        BY <1>2, <1>5, <4>1
      <4>2. CASE i \in DOMAIN past[t]
        <5>1. past'[t][i] = past[t][i]
          BY <1>5, <4>2
        <5>2. ~ IsPinned(past[t][i].overrides)
          BY <1>2, <4>2 DEF Inv, PastOk
        <5> QED
          BY <5>1, <5>2
      <4> QED
        BY <1>5, <4>1, <4>2
    <3> QED
      BY <1>5, <3>1, <3>2
  <2>2. \A o : IsPinned(o)' = IsPinned(o)
    BY DEF IsPinned
  <2> QED
    BY <1>4, <2>1, <2>2 DEF PastOk
<1>8. \A s \in Tenants : \A i \in DOMAIN past[s] :
        i \in DOMAIN past'[s] /\ past'[s][i] = past[s][i]
  BY <1>5, <1>6
<1>9. /\ \A entries : CacheOk(entries) => CacheOk(entries)'
      /\ \A y : ReqOk(y) => ReqOk(y)'
  BY <1>7, <1>8, Grows
<1>10. PICK pc \in {"invalidate", "failed"} : upd' = [upd EXCEPT ![u].pc = pc]
  BY DEF Write
<1>11. upd' \in [Updates -> UpdType] /\ \A v \in Updates : UpdOk(upd'[v])
  <2> DEFINE x == [upd[u] EXCEPT !.pc = pc]
  <2>1. upd' = [upd EXCEPT ![u] = x]
    BY <1>1, <1>10
  <2>2. /\ x \in UpdType /\ x.pc = pc /\ x.proc = upd[u].proc
        /\ x.tenant = t /\ x.overrides = upd[u].overrides
    BY <1>1 DEF UpdType
  <2> HIDE DEF x
  <2>3. UpdOk(x)
    BY <1>1, <2>2 DEF UpdOk
  <2> QED
    BY <1>1, <2>1, <2>2, <2>3 DEF Inv
<1>12. \A v \in Updates : UpdOk(upd[v])'
  BY <1>11 DEF UpdOk
<1> QED
  BY <1>1, <1>7, <1>9, <1>11, <1>12 DEF Inv

LEMMA InvalidateInv ==
  ASSUME Inv, NEW u \in Updates, Invalidate(u)
  PROVE  Inv'
<1> DEFINE p == upd[u].proc
           t == upd[u].tenant
           x == [upd[u] EXCEPT !.pc = "done"]
           entries == Without(cache[p], t)
<1>1. /\ upd \in [Updates -> UpdType] /\ upd[u] \in UpdType /\ UpdOk(upd[u])
      /\ upd[u].pc = "invalidate" /\ p \in Procs
      /\ cache \in [Procs -> Seq(EntryType)] /\ CacheOk(cache[p])
      /\ past' = past /\ req' = req
      /\ cache' = [cache EXCEPT ![p] = Without(@, t)]
  BY DEF Inv, Invalidate, UpdOk
<1>2. upd' = [upd EXCEPT ![u] = x]
  BY <1>1 DEF Invalidate
<1>3. /\ x \in UpdType /\ x.pc = "done"
  BY <1>1 DEF UpdType
<1> HIDE DEF x
<1>4. UpdOk(x)
  BY <1>3 DEF UpdOk
<1>5. /\ entries \in Seq(EntryType) /\ OnePerTenant(entries)
      /\ \A k \in DOMAIN entries :
           \E i \in DOMAIN cache[p] : entries[k] = cache[p][i]
  BY <1>1, WithoutTenant DEF CacheOk
<1>6. cache' = [cache EXCEPT ![p] = entries]
  BY <1>1
<1> HIDE DEF entries
<1>7. CacheOk(entries)
  BY <1>1, <1>5 DEF CacheOk
<1>8. /\ PastOk'
      /\ \A es : CacheOk(es) => CacheOk(es)'
      /\ \A y : ReqOk(y) => ReqOk(y)'
  BY <1>1, Stays
<1>9. /\ cache' \in [Procs -> Seq(EntryType)]
      /\ \A q \in Procs : CacheOk(cache'[q])
  BY <1>1, <1>5, <1>6, <1>7 DEF Inv
<1>10. upd' \in [Updates -> UpdType] /\ \A v \in Updates : UpdOk(upd'[v])
  BY <1>1, <1>2, <1>3, <1>4 DEF Inv
<1>11. \A v \in Updates : UpdOk(upd[v])'
  BY <1>10 DEF UpdOk
<1> QED
  BY <1>1, <1>8, <1>9, <1>10, <1>11 DEF Inv

(* A restart empties one cache and fails what was under way there.         *)
LEMMA RestartInv ==
  ASSUME Inv, NEW p \in Procs, Restart(p)
  PROVE  Inv'
<1>1. /\ past' = past /\ cache' = [cache EXCEPT ![p] = <<>>]
      /\ cache \in [Procs -> Seq(EntryType)]
  BY DEF Inv, Restart
<1>2. /\ PastOk'
      /\ \A es : CacheOk(es) => CacheOk(es)'
      /\ \A y : ReqOk(y) => ReqOk(y)'
  BY <1>1, Stays
<1>3. CacheOk(<<>>)
  BY DEF CacheOk, OnePerTenant
<1>4. /\ cache' \in [Procs -> Seq(EntryType)]
      /\ \A q \in Procs : CacheOk(cache'[q])
  BY <1>1, <1>3 DEF Inv
<1>5. ASSUME NEW r \in Requests
      PROVE  req'[r] \in ReqType /\ ReqOk(req'[r])
  <2> DEFINE x == [req[r] EXCEPT !.pc = "failed"]
  <2>1. req[r] \in ReqType /\ ReqOk(req[r])
    BY DEF Inv
  <2>2. req'[r] = req[r] \/ req'[r] = x
    BY DEF Restart
  <2>3. /\ x \in ReqType /\ x.pc = "failed" /\ x.tenant = req[r].tenant
        /\ x.used = req[r].used /\ x.context = req[r].context
    BY <2>1 DEF ReqType
  <2> HIDE DEF x
  <2>4. ReqOk(x)
    BY <2>1, <2>3 DEF ReqOk
  <2> QED
    BY <2>1, <2>2, <2>3, <2>4
<1>6. ASSUME NEW u \in Updates
      PROVE  upd'[u] \in UpdType /\ UpdOk(upd'[u])
  <2> DEFINE x == [upd[u] EXCEPT !.pc = "failed"]
  <2>1. upd[u] \in UpdType /\ UpdOk(upd[u])
    BY DEF Inv
  <2>2. upd'[u] = upd[u] \/ upd'[u] = x
    BY DEF Restart
  <2>3. x \in UpdType /\ x.pc = "failed"
    BY <2>1 DEF UpdType
  <2> HIDE DEF x
  <2>4. UpdOk(x)
    BY <2>3 DEF UpdOk
  <2> QED
    BY <2>1, <2>2, <2>3, <2>4
<1>7. req' \in [Requests -> ReqType]
  BY <1>5 DEF Restart
<1>8. upd' \in [Updates -> UpdType]
  BY <1>6 DEF Restart
<1>9. \A u \in Updates : UpdOk(upd[u])'
  BY <1>6 DEF UpdOk
<1> QED
  BY <1>2, <1>4, <1>5, <1>7, <1>8, <1>9 DEF Inv

LEMMA NextInv == Inv /\ [Next]_vars => Inv'
<1> SUFFICES ASSUME Inv, [Next]_vars PROVE Inv'
  OBVIOUS
<1>1. ASSUME NEW r \in Requests, NEW p \in Procs, NEW t \in Tenants,
             Enter(r, p, t)
      PROVE  Inv'
  BY <1>1, EnterInv
<1>2. ASSUME NEW r \in Requests, Select(r) \/ Fill(r) \/ Node(r) PROVE Inv'
  BY <1>2, SelectInv, FillInv, NodeInv
<1>3. ASSUME NEW u \in Updates, NEW p \in Procs, NEW t \in Tenants,
             NEW body \in Bodies, Begin(u, p, t, body)
      PROVE  Inv'
  BY <1>3, BeginInv
<1>4. ASSUME NEW u \in Updates,
             ReadVersion(u) \/ Write(u) \/ WriteFails(u) \/ Invalidate(u)
      PROVE  Inv'
  BY <1>4, ReadVersionInv, WriteInv, WriteFailsInv, InvalidateInv
<1>5. ASSUME NEW p \in Procs, Restart(p) PROVE Inv'
  BY <1>5, RestartInv
<1>6. CASE UNCHANGED vars
  <2>1. past' = past /\ cache' = cache /\ req' = req /\ upd' = upd
    BY <1>6 DEF vars
  <2>2. /\ PastOk'
        /\ \A es : CacheOk(es) => CacheOk(es)'
        /\ \A y : ReqOk(y) => ReqOk(y)'
    BY <2>1, Stays
  <2>3. \A u \in Updates : UpdOk(upd[u])'
    BY <2>1 DEF Inv, UpdOk
  <2> QED
    BY <2>1, <2>2, <2>3 DEF Inv
<1> QED
  BY <1>1, <1>2, <1>3, <1>4, <1>5, <1>6 DEF Next

LEMMA Invariant == Spec => []Inv
  BY InitInv, NextInv, PTL DEF Spec

-----------------------------------------------------------------------------
(***************************************************************************)
(* The version of a cache entry is always the one its configuration was    *)
(* stored under, whatever updates ran between the read and the fill.       *)
(***************************************************************************)
THEOREM Committed == Spec => []CacheIsCommitted
<1>1. Inv => CacheIsCommitted
  <2> SUFFICES ASSUME Inv, NEW p \in Procs, NEW e \in Range(cache[p])
               PROVE  \E row \in Range(past[e.tenant]) :
                        e.version = row.version /\ e.config = Resolved(row.overrides)
    BY DEF CacheIsCommitted
  <2>1. PICK k \in DOMAIN cache[p] : cache[p][k] = e
    BY DEF Range
  <2>2. IsStored(e)
    BY <2>1 DEF Inv, CacheOk
  <2> QED
    BY <2>2 DEF IsStored, Range
<1> QED
  BY <1>1, Invariant, PTL

(***************************************************************************)
(* What a node runs with is the defaults or a configuration its own tenant *)
(* has had, whatever was evicted, replaced or invalidated meanwhile.       *)
(***************************************************************************)
THEOREM Isolation == Spec => []ConfigsAreTheTenants
<1>1. Inv => ConfigsAreTheTenants
  <2> SUFFICES ASSUME Inv, NEW r \in Requests, NEW c \in Range(req[r].used)
               PROVE  \/ ~ req[r].context /\ c = Defaults
                      \/ \E row \in Range(past[req[r].tenant]) :
                           c = Resolved(row.overrides)
    BY DEF ConfigsAreTheTenants
  <2>1. PICK k \in DOMAIN req[r].used : req[r].used[k] = c
    BY DEF Range
  <2>2. (~ req[r].context /\ c = Defaults) \/ Had(req[r].tenant, c)
    BY <2>1 DEF Inv, ReqOk
  <2> QED
    BY <2>2 DEF Had, Range
<1> QED
  BY <1>1, Invariant, PTL

-----------------------------------------------------------------------------
(***************************************************************************)
(* Versions.  An update that has read a version holds that of the row it   *)
(* read, its base; the rows after the base are overtaken when it writes.   *)
(* A version of 0 can be written only as the first row.                    *)
(***************************************************************************)
Lost(t, i) == Cardinality(overtaken[t] \cap 1..i)

CountsAt(t, i) ==
  /\ past[t][i].version <= i - 1
  /\ i - 1 <= past[t][i].version + Lost(t, i)
  /\ i >= 2 => past[t][i].version >= 1
  /\ i >= 3 => past[t][i].version >= 2

Bases(t) ==
  \A u \in Updates : upd[u].pc = "write" /\ upd[u].tenant = t =>
    /\ upd[u].base \in 1..Len(past[t])
    /\ upd[u].version = past[t][upd[u].base].version

Counts(t) ==
  /\ overtaken[t] \subseteq 1..Len(past[t])
  /\ \A i \in 1..Len(past[t]) : CountsAt(t, i)
  /\ Bases(t)

Counted == overtaken \in [Tenants -> SUBSET Nat] /\ \A t \in Tenants : Counts(t)

(* Rows overtaken after position b are lost in addition to those before.   *)
LEMMA LostRows ==
  ASSUME NEW O \in SUBSET Nat, NEW n \in Nat, NEW b \in 1..n
  PROVE  LET more == O \cup ((b + 1)..n)
         IN  /\ \A i \in Nat : /\ Cardinality(O \cap 1..i) \in Nat
                               /\ Cardinality(O \cap 1..i)
                                    <= Cardinality(more \cap 1..i)
             /\ Cardinality(more \cap 1..(n + 1))
                  >= Cardinality(O \cap 1..b) + (n - b)
<1> DEFINE more == O \cup ((b + 1)..n)
<1>1. \A S : \A i \in Nat : IsFiniteSet(S \cap 1..i)
  <2>1. \A i \in Nat : IsFiniteSet(1..i)
    BY FS_Interval
  <2> QED
    BY <2>1, FS_Subset
<1>2. ASSUME NEW i \in Nat
      PROVE  /\ Cardinality(O \cap 1..i) \in Nat
             /\ Cardinality(O \cap 1..i) <= Cardinality(more \cap 1..i)
  <2>1. O \cap 1..i \subseteq more \cap 1..i
    OBVIOUS
  <2> QED
    BY <1>1, <2>1, FS_Subset, FS_CardinalityType
<1>3. Cardinality(more \cap 1..(n + 1)) >= Cardinality(O \cap 1..b) + (n - b)
  <2> DEFINE low == O \cap 1..b
             high == (b + 1)..n
  <2>1. IsFiniteSet(high) /\ Cardinality(high) = n - b
    <3>1. CASE b + 1 > n
      <4>1. n - b = 0 /\ high = {}
        BY <3>1
      <4> QED
        BY <4>1, FS_EmptySet
    <3>2. CASE b + 1 <= n
      <4>1. Cardinality(high) = n - (b + 1) + 1 /\ IsFiniteSet(high)
        BY <3>2, FS_Interval
      <4>2. n - (b + 1) + 1 = n - b
        OBVIOUS
      <4> QED
        BY <4>1, <4>2
    <3> QED
      BY <3>1, <3>2
  <2>2. IsFiniteSet(low) /\ Cardinality(low) \in Nat
    <3>1. IsFiniteSet(low)
      BY <1>1
    <3> QED
      BY <3>1, FS_CardinalityType
  <2>3. low \cap high = {}
    OBVIOUS
  <2>4. /\ IsFiniteSet(low \cup high)
        /\ Cardinality(low \cup high)
             = Cardinality(low) + Cardinality(high) - Cardinality(low \cap high)
    <3> HIDE DEF low, high
    <3> QED
      BY <2>1, <2>2, FS_Union
  <2>5. Cardinality({}) = 0
    BY FS_EmptySet
  <2>6. low \cup high \subseteq more \cap 1..(n + 1)
    OBVIOUS
  <2>7. IsFiniteSet(more \cap 1..(n + 1))
    <3>1. n + 1 \in Nat
      OBVIOUS
    <3> HIDE DEF more
    <3> QED
      BY <1>1, <3>1
  <2>8. Cardinality(low \cup high) <= Cardinality(more \cap 1..(n + 1))
    <3> HIDE DEF low, high, more
    <3> QED
      BY <2>6, <2>7, FS_Subset
  <2>9. Cardinality(more \cap 1..(n + 1)) \in Nat
    <3> HIDE DEF more
    <3> QED
      BY <2>7, FS_CardinalityType
  <2> HIDE DEF low, high, more
  <2>10. Cardinality(low \cup high) = Cardinality(low) + (n - b)
    <3>1. Cardinality(low \cap high) = 0
      BY <2>3, <2>5
    <3>2. n - b \in Int /\ Cardinality(high) = n - b
      BY <2>1
    <3> QED
      BY <2>2, <2>4, <3>1, <3>2
  <2>11. Cardinality(more \cap 1..(n + 1)) >= Cardinality(low) + (n - b)
    BY <2>2, <2>8, <2>9, <2>10
  <2> QED
    BY <2>11 DEF low, more
<1> QED
  BY <1>2, <1>3

(* A step that starts no write keeps the counts.                           *)
LEMMA NoWriter ==
  ASSUME Inv, Counted, past' = past, overtaken' = overtaken,
         \A u \in Updates : upd'[u].pc = "write" => upd'[u] = upd[u]
  PROVE  Counted'
<1>1. ASSUME NEW t \in Tenants PROVE Counts(t)'
  <2>1. Counts(t)
    BY DEF Counted
  <2>2. Bases(t)'
    BY <2>1 DEF Counts, Bases
  <2>3. \A i : CountsAt(t, i)' = CountsAt(t, i)
    BY DEF CountsAt, Lost
  <2> QED
    BY <2>1, <2>2, <2>3 DEF Counts
<1> QED
  BY <1>1 DEF Counted

LEMMA ReadVersionCounts ==
  ASSUME Inv, Counted, NEW u \in Updates, ReadVersion(u)
  PROVE  Counted'
<1>1. /\ upd \in [Updates -> UpdType] /\ upd[u] \in UpdType /\ UpdOk(upd[u])
      /\ upd[u].pc = "read" /\ past' = past /\ overtaken' = overtaken
  BY DEF Inv, ReadVersion
<1>2. CASE upd' = [upd EXCEPT ![u].pc = "failed"]
  <2>1. \A v \in Updates : upd'[v].pc = "write" => upd'[v] = upd[v]
    BY <1>1, <1>2 DEF UpdType
  <2> QED
    BY <1>1, <2>1, NoWriter
<1>3. CASE upd' = [upd EXCEPT ![u].pc = "write",
                              ![u].version = Row(upd[u].tenant).version,
                              ![u].base = Len(past[upd[u].tenant])]
  <2>0. PICK t \in Tenants : t = upd[u].tenant
    BY <1>1 DEF UpdOk
  <2>n. PICK n \in Nat \ {0} : n = Len(past[t])
    BY DEF Inv, PastOk
  <2>1. /\ upd'[u].tenant = t /\ upd'[u].base = n
        /\ upd'[u].version = past[t][n].version
        /\ \A v \in Updates \ {u} : upd'[v] = upd[v]
    BY <1>1, <1>3, <2>0, <2>n DEF UpdType, Row
  <2>2. ASSUME NEW s \in Tenants PROVE Counts(s)'
    <3>1. Counts(s)
      BY DEF Counted
    <3>2. Bases(s)'
      <4>1. ASSUME NEW v \in Updates, upd'[v].pc = "write", upd'[v].tenant = s
            PROVE  /\ upd'[v].base \in 1..Len(past[s])
                   /\ upd'[v].version = past[s][upd'[v].base].version
        <5>1. CASE v = u
          BY <2>n, <2>1, <4>1, <5>1
        <5>2. CASE v # u
          BY <2>1, <3>1, <4>1, <5>2 DEF Counts, Bases
        <5> QED
          BY <5>1, <5>2
      <4> QED
        BY <1>1, <4>1 DEF Bases
    <3>3. \A i : CountsAt(s, i)' = CountsAt(s, i)
      BY <1>1 DEF CountsAt, Lost
    <3> QED
      BY <1>1, <3>1, <3>2, <3>3 DEF Counts
  <2> QED
    BY <1>1, <2>2 DEF Counted
<1> QED
  BY <1>2, <1>3 DEF ReadVersion

LEMMA WriteCounts ==
  ASSUME Inv, Counted, NEW u \in Updates, Write(u)
  PROVE  Counted'
<1> DEFINE row == NewRow(u)
<1>0. PICK t \in Tenants : t = upd[u].tenant
  BY DEF Inv, UpdOk, Write
<1>n. PICK n \in Nat \ {0} : n = Len(past[t])
  BY DEF Inv, PastOk
<1>1. /\ upd \in [Updates -> UpdType] /\ upd[u] \in UpdType
      /\ upd[u].pc = "write" /\ upd[u].version \in Nat
      /\ past' = [past EXCEPT ![t] = Append(@, row)]
      /\ past \in [Tenants -> Seq(RowType)]
      /\ Accepted(u)
  BY <1>0 DEF Inv, PastOk, Write, UpdType
<1>2. past[t] \in Seq(RowType)
  BY <1>1
<1>3. row.version = upd[u].version + 1
  BY DEF NewRow
<1> HIDE DEF row
<1>4. /\ Len(past'[t]) = n + 1 /\ past'[t][n + 1] = row
      /\ \A i \in 1..n : past'[t][i] = past[t][i]
      /\ \A i \in 1..n : past[t][i].version \in Nat
  <2>1. \A i \in 1..n : past[t][i] \in RowType
    BY <1>2, <1>n
  <2> QED
    BY <1>1, <1>2, <1>n, <2>1 DEF RowType
<1>5. ASSUME NEW v \in Updates, upd'[v].pc = "write"
      PROVE  v # u /\ upd'[v] = upd[v]
  BY <1>1, <1>5 DEF Write, UpdType
<1>6. Counts(t) /\ overtaken \in [Tenants -> SUBSET Nat]
  BY DEF Counted
<1>7. PICK b \in 1..n : b = upd[u].base /\ upd[u].version = past[t][b].version
  BY <1>0, <1>n, <1>1, <1>6 DEF Counts, Bases
<1>8. PICK O : O = overtaken[t]
  OBVIOUS
<1>9. PICK more : more = O \cup ((b + 1)..n)
  OBVIOUS
<1>10. overtaken' = [overtaken EXCEPT ![t] = more]
  <2>1. overtaken' = [overtaken EXCEPT ![t] =
                        @ \cup (upd[u].base + 1)..Len(past[t])]
    BY <1>0 DEF Write
  <2> QED
    BY <1>n, <1>7, <1>8, <1>9, <2>1
<1>11. /\ O \in SUBSET Nat /\ O \subseteq 1..n /\ n \in Nat
       /\ more \subseteq 1..(n + 1) /\ more \in SUBSET Nat
  <2>1. O \in SUBSET Nat /\ O \subseteq 1..n
    BY <1>n, <1>6, <1>8 DEF Counts
  <2> QED
    BY <1>9, <2>1
<1>12. overtaken'[t] = more /\ \A s \in Tenants \ {t} : overtaken'[s] = overtaken[s]
  BY <1>6, <1>10
<1>13. /\ \A i \in Nat : /\ Cardinality(O \cap 1..i) \in Nat
                         /\ Cardinality(O \cap 1..i) <= Cardinality(more \cap 1..i)
       /\ Cardinality(more \cap 1..(n + 1)) >= Cardinality(O \cap 1..b) + (n - b)
  BY <1>9, <1>11, LostRows
<1>14. \A i \in Nat : Cardinality(more \cap 1..i) \in Nat
  <2>1. \A i \in Nat : IsFiniteSet(1..i)
    BY FS_Interval
  <2>2. \A i \in Nat : IsFiniteSet(more \cap 1..i)
    BY <2>1, FS_Subset
  <2> QED
    BY <2>2, FS_CardinalityType
<1>15. \A i \in 1..n : /\ past[t][i].version <= i - 1
                       /\ i - 1 <= past[t][i].version + Cardinality(O \cap 1..i)
                       /\ i >= 2 => past[t][i].version >= 1
                       /\ i >= 3 => past[t][i].version >= 2
  BY <1>n, <1>6, <1>8 DEF Counts, CountsAt, Lost
<1>16. upd[u].version = 0 => n = 1
  <2>1. upd[u].version = 0 => past[t][n].version = 0
    <3>1. NoRow.version = 0
      BY DEF NoRow
    <3>2. upd[u].version = 0 => past[t][n] = NoRow
      BY <1>0, <1>1, <1>n DEF Accepted, Row
    <3> QED
      BY <3>1, <3>2
  <2>2. n >= 2 => past[t][n].version >= 1
    <3>1. n \in 1..n
      BY <1>n
    <3> QED
      BY <1>15, <3>1
  <2>3. n >= 2 \/ n = 1
    <3>1. \A k \in Nat \ {0} : k >= 2 \/ k = 1
      OBVIOUS
    <3>2. n \in Nat \ {0}
      BY <1>7, <1>11
    <3> QED
      BY <3>1, <3>2
  <2>4. ~ (0 >= 1)
    OBVIOUS
  <2>5. PICK w : w = past[t][n].version
    OBVIOUS
  <2>6. upd[u].version = 0 => ~ (n >= 2)
    BY <2>1, <2>2, <2>4, <2>5
  <2> QED
    BY <2>3, <2>6
<1>17. ASSUME NEW i \in 1..(n + 1)
       PROVE  /\ past'[t][i].version <= i - 1
              /\ i - 1 <= past'[t][i].version + Cardinality(more \cap 1..i)
              /\ i >= 2 => past'[t][i].version >= 1
              /\ i >= 3 => past'[t][i].version >= 2
  <2>1. CASE i \in 1..n
    <3>1. past'[t][i] = past[t][i] /\ past[t][i].version \in Nat
      BY <1>4, <2>1
    <3>2. /\ Cardinality(O \cap 1..i) \in Nat
          /\ Cardinality(more \cap 1..i) \in Nat
          /\ Cardinality(O \cap 1..i) <= Cardinality(more \cap 1..i)
      BY <1>13, <1>14, <2>1
    <3>3. /\ past[t][i].version <= i - 1
          /\ i - 1 <= past[t][i].version + Cardinality(O \cap 1..i)
          /\ i >= 2 => past[t][i].version >= 1
          /\ i >= 3 => past[t][i].version >= 2
      BY <1>15, <2>1
    <3>4. i - 1 <= past[t][i].version + Cardinality(more \cap 1..i)
      BY <2>1, <3>1, <3>2, <3>3
    <3> QED
      BY <3>1, <3>3, <3>4
  <2>2. CASE i = n + 1
    <3>1. past'[t][i].version = upd[u].version + 1
      BY <1>3, <1>4, <2>2
    <3>2. /\ upd[u].version <= b - 1
          /\ b - 1 <= upd[u].version + Cardinality(O \cap 1..b)
      BY <1>7, <1>15
    <3>3. /\ Cardinality(O \cap 1..b) \in Nat
          /\ Cardinality(more \cap 1..(n + 1)) \in Nat
          /\ Cardinality(more \cap 1..(n + 1)) >= Cardinality(O \cap 1..b) + (n - b)
      <4>1. b \in Nat /\ n + 1 \in Nat
        BY <1>11
      <4> QED
        BY <1>13, <1>14, <4>1
    <3>4. PICK k \in Nat, m \in Nat, v \in Nat :
            /\ k = Cardinality(O \cap 1..b)
            /\ m = Cardinality(more \cap 1..(n + 1))
            /\ v = upd[u].version
      BY <1>1, <3>3
    <3>5. b \in Nat /\ b <= n /\ v <= b - 1 /\ b - 1 <= v + k /\ m >= k + (n - b)
      BY <1>7, <1>11, <3>2, <3>3, <3>4
    <3>6. n <= v + 1 + m /\ v + 1 <= n
      BY <1>11, <3>5
    <3>7. n >= 2 => v + 1 >= 2
      BY <1>11, <1>16, <3>4
    <3>8. n + 1 - 1 = n /\ v + 1 \in Nat /\ (n + 1 >= 3 => n >= 2)
      BY <1>11
    <3>9. past'[t][i].version = v + 1 /\ i - 1 = n /\ m = Cardinality(more \cap 1..i)
      BY <2>2, <3>1, <3>4, <3>8
    <3>10. i >= 3 => n >= 2
      BY <2>2, <3>8
    <3>11. v + 1 >= 1
      OBVIOUS
    <3> QED
      BY <3>6, <3>7, <3>9, <3>10, <3>11
  <2> QED
    BY <1>11, <2>1, <2>2
<1>18. Counts(t)'
  <2>1. \A i \in 1..(n + 1) : CountsAt(t, i)'
    BY <1>12, <1>17 DEF CountsAt, Lost
  <2>2. Bases(t)'
    <3>1. ASSUME NEW v \in Updates, upd'[v].pc = "write", upd'[v].tenant = t
          PROVE  /\ upd'[v].base \in 1..(n + 1)
                 /\ upd'[v].version = past'[t][upd'[v].base].version
      <4>1. upd'[v] = upd[v]
        BY <1>5, <3>1
      <4>2. /\ upd[v].base \in 1..n
            /\ upd[v].version = past[t][upd[v].base].version
        BY <1>n, <1>6, <3>1, <4>1 DEF Counts, Bases
      <4> QED
        BY <1>4, <1>11, <4>1, <4>2
    <3> QED
      BY <1>4, <3>1 DEF Bases
  <2> QED
    BY <1>4, <1>11, <1>12, <2>1, <2>2 DEF Counts
<1>19. ASSUME NEW s \in Tenants \ {t} PROVE Counts(s)'
  <2>1. past'[s] = past[s] /\ overtaken'[s] = overtaken[s]
    BY <1>1, <1>12
  <2>2. Counts(s)
    BY DEF Counted
  <2>3. Bases(s)'
    BY <1>5, <2>1, <2>2 DEF Counts, Bases
  <2>4. \A i : CountsAt(s, i)' = CountsAt(s, i)
    BY <2>1 DEF CountsAt, Lost
  <2> QED
    BY <2>1, <2>2, <2>3, <2>4 DEF Counts
<1>20. overtaken' \in [Tenants -> SUBSET Nat]
  BY <1>6, <1>10, <1>11
<1> QED
  BY <1>18, <1>19, <1>20 DEF Counted

LEMMA CountedNext ==
  ASSUME Inv, Counted, [Next]_vars
  PROVE  Counted'
<1>0. upd \in [Updates -> UpdType] /\ \A u \in Updates : upd[u] \in UpdType
  BY DEF Inv
<1>1. ASSUME NEW r \in Requests,
             (\E p \in Procs, t \in Tenants : Enter(r, p, t))
               \/ Select(r) \/ Fill(r) \/ Node(r)
      PROVE  Counted'
  <2>1. past' = past /\ overtaken' = overtaken /\ upd' = upd
    BY <1>1 DEF Enter, Select, Fill, Node
  <2> QED
    BY <2>1, NoWriter
<1>2. ASSUME NEW u \in Updates,
             (\E p \in Procs, t \in Tenants, body \in Bodies : Begin(u, p, t, body))
               \/ WriteFails(u) \/ Invalidate(u)
      PROVE  Counted'
  <2>1. past' = past /\ overtaken' = overtaken
    BY <1>2 DEF Begin, WriteFails, Invalidate
  <2>2. /\ upd'[u].pc # "write"
        /\ \A v \in Updates \ {u} : upd'[v] = upd[v]
    BY <1>0, <1>2 DEF Begin, WriteFails, Invalidate, UpdType
  <2> QED
    BY <2>1, <2>2, NoWriter
<1>3. ASSUME NEW u \in Updates, ReadVersion(u) \/ Write(u) PROVE Counted'
  BY <1>3, ReadVersionCounts, WriteCounts
<1>4. ASSUME NEW p \in Procs, Restart(p) PROVE Counted'
  <2>1. past' = past /\ overtaken' = overtaken
    BY <1>4 DEF Restart
  <2>2. ASSUME NEW v \in Updates, upd'[v].pc = "write" PROVE upd'[v] = upd[v]
    <3>1. upd'[v] = upd[v] \/ upd'[v] = [upd[v] EXCEPT !.pc = "failed"]
      BY <1>4 DEF Restart
    <3>2. [upd[v] EXCEPT !.pc = "failed"].pc = "failed"
      BY <1>0 DEF UpdType
    <3> QED
      BY <2>2, <3>1, <3>2
  <2> QED
    BY <2>1, <2>2, NoWriter
<1>5. CASE UNCHANGED vars
  BY <1>5, NoWriter DEF vars
<1> QED
  BY <1>1, <1>2, <1>3, <1>4, <1>5 DEF Next

LEMMA CountsAlways == Spec => []Counted
<1>1. Init => Counted
  <2> SUFFICES ASSUME Init PROVE Counted
    OBVIOUS
  <2>1. overtaken \in [Tenants -> SUBSET Nat]
    BY DEF Init
  <2>2. ASSUME NEW t \in Tenants PROVE Counts(t)
    <3>1. overtaken[t] = {} /\ \A i : Lost(t, i) = 0
      BY FS_EmptySet DEF Init, Lost
    <3>2. Bases(t)
      BY DEF Init, Bases
    <3>3. CASE past[t] = <<NoRow>>
      <4>1. Len(past[t]) = 1 /\ past[t][1].version = 0
        BY <3>3 DEF NoRow
      <4>2. \A i \in 1..1 : CountsAt(t, i)
        BY <3>1, <4>1 DEF CountsAt
      <4> QED
        BY <3>1, <3>2, <4>1, <4>2 DEF Counts
    <3>4. ASSUME NEW b \in Bodies,
                 past[t] = <<NoRow, [version |-> 1, overrides |-> Parsed(b)]>>
          PROVE  Counts(t)
      <4>1. /\ Len(past[t]) = 2
            /\ past[t][1].version = 0 /\ past[t][2].version = 1
        BY <3>4 DEF NoRow
      <4>2. \A i \in 1..2 : CountsAt(t, i)
        BY <3>1, <4>1 DEF CountsAt
      <4> QED
        BY <3>1, <3>2, <4>1, <4>2 DEF Counts
    <3> QED
      BY <3>3, <3>4 DEF Init
  <2> QED
    BY <2>1, <2>2 DEF Counted
<1>2. Inv /\ Counted /\ [Next]_vars => Counted'
  BY CountedNext
<1> QED
  BY <1>1, <1>2, Invariant, PTL DEF Spec

(***************************************************************************)
(* However many updates of a tenant overlap, the version of a row is never *)
(* above the number of updates up to it and lacks only those that an       *)
(* update overtook which had read an earlier row; version 1 is given once. *)
(***************************************************************************)
THEOREM Versions == Spec => []VersionsCount
<1>1. Inv /\ Counted => VersionsCount
  <2> SUFFICES ASSUME Inv, Counted, NEW t \in Tenants, NEW i \in DOMAIN past[t]
               PROVE  LET count == i - 1
                          lost  == Cardinality(overtaken[t] \cap 1..i)
                      IN  /\ past[t][i].version \in (count - lost)..count
                          /\ count > 1 => past[t][i].version > 1
    BY DEF VersionsCount
  <2>1. past[t] \in Seq(RowType) /\ i \in 1..Len(past[t]) /\ i \in Nat
    BY DEF Inv, PastOk
  <2>2. past[t][i].version \in Nat
    <3>1. past[t][i] \in RowType
      BY <2>1
    <3> QED
      BY <3>1 DEF RowType
  <2>3. CountsAt(t, i)
    BY <2>1 DEF Counted, Counts
  <2>4. PICK lost : lost = Cardinality(overtaken[t] \cap 1..i)
    OBVIOUS
  <2>5. lost \in Nat
    <3>1. IsFiniteSet(1..i)
      BY <2>1, FS_Interval
    <3>2. IsFiniteSet(overtaken[t] \cap 1..i)
      BY <3>1, FS_Subset
    <3> QED
      BY <2>4, <3>2, FS_CardinalityType
  <2>6. PICK v \in Nat : v = past[t][i].version
    BY <2>2
  <2>7. v \in (i - 1 - lost)..(i - 1) /\ (i - 1 > 1 => v > 1)
    <3>1. /\ v <= i - 1 /\ i - 1 <= v + lost
          /\ i >= 3 => v >= 2
      BY <2>3, <2>4, <2>6 DEF CountsAt, Lost
    <3> QED
      BY <2>1, <2>5, <3>1
  <2> QED
    BY <2>4, <2>6, <2>7
<1> QED
  BY <1>1, CountsAlways, Invariant, PTL

-----------------------------------------------------------------------------
(***************************************************************************)
(* Staleness.  In a process that every update of a tenant has reached, a   *)
(* row that was read and not yet cached is still the current one, and so   *)
(* is what is cached, unless an update is about to invalidate it.          *)
(***************************************************************************)
UnderWay(p, t) ==
  \E u \in Updates :
    upd[u].pc = "invalidate" /\ upd[u].proc = p /\ upd[u].tenant = t

Filling(r, p, t) ==
  req[r].pc = "fill" /\ req[r].proc = p /\ req[r].tenant = t

ReadsFresh(p, t) == \A r \in Requests : Filling(r, p, t) => req[r].row = Row(t)

AllFresh(entries, t) ==
  \A k \in DOMAIN entries :
    entries[k].tenant = t => entries[k].config = Resolved(Row(t).overrides)

Fresh ==
  \A p \in Procs, t \in Tenants :
    <<p, t>> \notin raced =>
      ReadsFresh(p, t) /\ (UnderWay(p, t) \/ AllFresh(cache[p], t))

(* A step of a request or update that touches neither rows nor caches.     *)
LEMMA StaysFresh ==
  ASSUME Fresh, past' = past, cache' = cache, raced' = raced,
         \A r \in Requests : req'[r].pc = "fill" =>
           (req'[r] = req[r]) \/ (req'[r].row = Row(req'[r].tenant)),
         \A u \in Updates : upd[u].pc = "invalidate" => upd'[u] = upd[u]
  PROVE  Fresh'
<1> SUFFICES ASSUME NEW p \in Procs, NEW t \in Tenants, <<p, t>> \notin raced'
             PROVE  /\ ReadsFresh(p, t)'
                    /\ UnderWay(p, t)' \/ AllFresh(cache[p], t)'
  BY DEF Fresh
<1>1. /\ ReadsFresh(p, t) /\ (UnderWay(p, t) \/ AllFresh(cache[p], t))
      /\ Row(t)' = Row(t)
  BY DEF Fresh, Row
<1>2. UnderWay(p, t) => UnderWay(p, t)'
  BY DEF UnderWay
<1>3. AllFresh(cache[p], t) => AllFresh(cache[p], t)'
  BY <1>1 DEF AllFresh
<1>4. ASSUME NEW r \in Requests, Filling(r, p, t)' PROVE req'[r].row = Row(t)'
  BY <1>1, <1>4 DEF ReadsFresh, Filling
<1> QED
  BY <1>1, <1>2, <1>3, <1>4 DEF ReadsFresh

LEMMA RequestFresh ==
  ASSUME Inv, Fresh, NEW r \in Requests,
         (\E p \in Procs, t \in Tenants : Enter(r, p, t))
           \/ Select(r) \/ Node(r)
  PROVE  Fresh'
<1>1. /\ past' = past /\ cache' = cache /\ raced' = raced /\ upd' = upd
      /\ req \in [Requests -> ReqType] /\ req[r] \in ReqType
  BY DEF Inv, Enter, Select, Node
<1>2. \A q \in Requests \ {r} : req'[q] = req[q]
  BY <1>1 DEF Enter, Select, Node
<1>3. CASE \E p \in Procs, t \in Tenants : Enter(r, p, t)
  <2>1. PICK p \in Procs, t \in Tenants : Enter(r, p, t)
    BY <1>3
  <2> DEFINE pc == IF Cached(p, t) THEN "nodes" ELSE "select"
             config == IF Cached(p, t) THEN Entry(p, t).config
                                       ELSE req[r].config
             x == [req[r] EXCEPT !.proc = p, !.tenant = t, !.pc = pc,
                     !.config = config]
  <2>2. req'[r] = x
    BY <1>1, <2>1 DEF Enter
  <2>3. pc # "fill"
    OBVIOUS
  <2> HIDE DEF pc, config
  <2>4. x.pc = pc
    BY <1>1 DEF ReqType
  <2>5. req'[r].pc # "fill"
    BY <2>2, <2>3, <2>4
  <2> QED
    BY <1>1, <1>2, <2>5, StaysFresh
<1>4. CASE Select(r)
  <2>1. req'[r].pc = "fill" => req'[r].row = Row(req'[r].tenant)
    BY <1>1, <1>4 DEF Select, ReqType
  <2> QED
    BY <1>1, <1>2, <2>1, StaysFresh
<1>5. CASE Node(r)
  <2>1. req'[r].pc = "nodes"
    BY <1>1, <1>5 DEF Node, ReqType
  <2> QED
    BY <1>1, <1>2, <2>1, StaysFresh
<1> QED
  BY <1>3, <1>4, <1>5

LEMMA FillFresh ==
  ASSUME Inv, Fresh, NEW r \in Requests, Fill(r)
  PROVE  Fresh'
<1>1. /\ past' = past /\ raced' = raced /\ upd' = upd
      /\ req \in [Requests -> ReqType] /\ req[r] \in ReqType
      /\ req[r].pc = "fill"
  BY DEF Inv, Fill
<1>2. /\ \A q \in Requests \ {r} : req'[q] = req[q]
      /\ req'[r].pc \in {"failed", "nodes"}
  BY <1>1 DEF Fill, ReqType
<1>3. CASE cache' = cache
  BY <1>1, <1>2, <1>3, StaysFresh
<1>4. CASE cache' = [cache EXCEPT ![req[r].proc] = SetCache(@, FilledEntry(r))]
  <2> DEFINE e == FilledEntry(r)
  <2>0. PICK p \in Procs, t \in Tenants : p = req[r].proc /\ t = req[r].tenant
    BY <1>1, Filled
  <2>1. e \in EntryType /\ e.tenant = t /\ e.config = Resolved(req[r].row.overrides)
    BY <1>1, <2>0, Filled
  <2> HIDE DEF e
  <2>2. /\ cache \in [Procs -> Seq(EntryType)] /\ CacheOk(cache[p])
        /\ cache' = [cache EXCEPT ![p] = SetCache(cache[p], e)]
    BY <1>4, <2>0 DEF Inv, e
  <2>3. \A k \in DOMAIN cache'[p] :
          \/ cache'[p][k] = e
          \/ \E i \in DOMAIN cache[p] : cache'[p][k] = cache[p][i]
    BY <2>1, <2>2, SetCacheEntries DEF CacheOk
  <2> SUFFICES ASSUME NEW q \in Procs, NEW s \in Tenants, <<q, s>> \notin raced'
               PROVE  /\ ReadsFresh(q, s)'
                      /\ UnderWay(q, s)' \/ AllFresh(cache[q], s)'
    BY DEF Fresh
  <2>4. /\ ReadsFresh(q, s) /\ (UnderWay(q, s) \/ AllFresh(cache[q], s))
        /\ Row(s)' = Row(s)
    BY <1>1 DEF Fresh, Row
  <2>5. ReadsFresh(q, s)'
    BY <1>2, <2>4 DEF ReadsFresh, Filling
  <2>6. UnderWay(q, s) => UnderWay(q, s)'
    BY <1>1 DEF UnderWay
  <2>7. ASSUME AllFresh(cache[q], s), NEW k \in DOMAIN cache'[q],
               cache'[q][k].tenant = s
        PROVE  cache'[q][k].config = Resolved(Row(s).overrides)
    <3>1. CASE q # p
      <4>1. cache'[q] = cache[q]
        BY <2>2, <3>1
      <4> QED
        BY <2>7, <4>1 DEF AllFresh
    <3>2. CASE q = p /\ cache'[q][k] = e
      <4>1. s = t /\ Filling(r, q, s)
        BY <1>1, <2>0, <2>1, <2>7, <3>2 DEF Filling
      <4>2. req[r].row = Row(s)
        BY <2>4, <4>1 DEF ReadsFresh
      <4> QED
        BY <2>1, <3>2, <4>2
    <3>3. CASE q = p /\ \E i \in DOMAIN cache[p] : cache'[q][k] = cache[p][i]
      BY <2>7, <3>3 DEF AllFresh
    <3> QED
      BY <2>3, <2>7, <3>1, <3>2, <3>3
  <2>8. \A o : Resolved(o)' = Resolved(o)
    BY DEF Resolved
  <2>9. AllFresh(cache[q], s) => AllFresh(cache[q], s)'
    BY <2>4, <2>7 DEF AllFresh
  <2> QED
    BY <2>4, <2>5, <2>6, <2>9
<1> QED
  BY <1>3, <1>4 DEF Fill

(* An update that has not written, or fails to, disturbs nothing.          *)
LEMMA UpdateFresh ==
  ASSUME Inv, Fresh, NEW u \in Updates,
         (\E p \in Procs, t \in Tenants, body \in Bodies : Begin(u, p, t, body))
           \/ ReadVersion(u) \/ WriteFails(u)
  PROVE  Fresh'
<1>1. /\ past' = past /\ cache' = cache /\ raced' = raced /\ req' = req
      /\ upd \in [Updates -> UpdType] /\ upd[u].pc # "invalidate"
  BY DEF Inv, Begin, ReadVersion, WriteFails
<1>2. \A v \in Updates \ {u} : upd'[v] = upd[v]
  BY <1>1 DEF Begin, ReadVersion, WriteFails
<1> QED
  BY <1>1, <1>2, StaysFresh

LEMMA WriteFresh ==
  ASSUME Inv, Fresh, NEW u \in Updates, Write(u)
  PROVE  Fresh'
<1>0. PICK p \in Procs, t \in Tenants : p = upd[u].proc /\ t = upd[u].tenant
  BY DEF Inv, UpdOk, Write
<1>1. /\ upd \in [Updates -> UpdType] /\ upd[u] \in UpdType
      /\ upd[u].pc = "write" /\ past \in [Tenants -> Seq(RowType)]
      /\ req' = req /\ cache' = cache
      /\ past' = [past EXCEPT ![t] = Append(@, NewRow(u))]
  BY <1>0 DEF Inv, PastOk, Write
<1>2. \/ /\ upd' = [upd EXCEPT ![u].pc = "invalidate"]
         /\ raced' = raced \cup Unreached(p, t)
      \/ /\ upd' = [upd EXCEPT ![u].pc = "failed"]
         /\ raced' = raced \cup (Procs \X {t})
  BY <1>0 DEF Write
<1>3. \A v \in Updates : upd[v].pc = "invalidate" => upd'[v] = upd[v]
  BY <1>1, <1>2
<1> SUFFICES ASSUME NEW q \in Procs, NEW s \in Tenants, <<q, s>> \notin raced'
             PROVE  /\ ReadsFresh(q, s)'
                    /\ UnderWay(q, s)' \/ AllFresh(cache[q], s)'
  BY DEF Fresh
<1>4. ReadsFresh(q, s) /\ (UnderWay(q, s) \/ AllFresh(cache[q], s))
  BY <1>2 DEF Fresh
<1>5. CASE s # t
  <2>1. Row(s)' = Row(s)
    BY <1>1, <1>5 DEF Row
  <2>2. ReadsFresh(q, s)'
    BY <1>1, <1>4, <2>1 DEF ReadsFresh, Filling
  <2>3. UnderWay(q, s) => UnderWay(q, s)'
    BY <1>3 DEF UnderWay
  <2>4. AllFresh(cache[q], s) => AllFresh(cache[q], s)'
    BY <1>1, <2>1 DEF AllFresh
  <2> QED
    BY <1>4, <2>2, <2>3, <2>4
<1>6. CASE s = t
  <2>1. /\ upd' = [upd EXCEPT ![u].pc = "invalidate"]
        /\ <<q, s>> \notin Unreached(p, t)
    BY <1>2, <1>6
  <2>2. q = p /\ \A r \in Requests : ~ Filling(r, p, t)
    BY <1>6, <2>1 DEF Unreached, Filling
  <2>3. ReadsFresh(q, s)'
    BY <1>1, <1>6, <2>2 DEF ReadsFresh, Filling
  <2>4. upd'[u].pc = "invalidate" /\ upd'[u].proc = p /\ upd'[u].tenant = t
    BY <1>0, <1>1, <2>1 DEF UpdType
  <2>5. UnderWay(q, s)'
    BY <1>6, <2>2, <2>4 DEF UnderWay
  <2> QED
    BY <2>3, <2>5
<1> QED
  BY <1>5, <1>6

LEMMA InvalidateFresh ==
  ASSUME Inv, Fresh, NEW u \in Updates, Invalidate(u)
  PROVE  Fresh'
<1>0. PICK p \in Procs, t \in Tenants : p = upd[u].proc /\ t = upd[u].tenant
  BY DEF Inv, UpdOk, Invalidate
<1>1. /\ upd \in [Updates -> UpdType] /\ upd[u].pc = "invalidate"
      /\ past' = past /\ req' = req /\ raced' = raced
      /\ cache \in [Procs -> Seq(EntryType)] /\ CacheOk(cache[p])
      /\ cache' = [cache EXCEPT ![p] = Without(cache[p], t)]
  BY <1>0 DEF Inv, Invalidate
<1>2. \A v \in Updates \ {u} : upd'[v] = upd[v]
  BY <1>1 DEF Invalidate
<1>3. \A k \in DOMAIN cache'[p] :
        /\ cache'[p][k].tenant # t
        /\ \E i \in DOMAIN cache[p] : cache'[p][k] = cache[p][i]
  BY <1>1, WithoutTenant DEF CacheOk
<1> SUFFICES ASSUME NEW q \in Procs, NEW s \in Tenants, <<q, s>> \notin raced'
             PROVE  /\ ReadsFresh(q, s)'
                    /\ UnderWay(q, s)' \/ AllFresh(cache[q], s)'
  BY DEF Fresh
<1>4. /\ ReadsFresh(q, s) /\ (UnderWay(q, s) \/ AllFresh(cache[q], s))
      /\ Row(s)' = Row(s)
  BY <1>1 DEF Fresh, Row
<1>5. ReadsFresh(q, s)'
  BY <1>1, <1>4 DEF ReadsFresh, Filling
<1>6. CASE q = p /\ s = t
  <2>1. AllFresh(cache[q], s)'
    BY <1>3, <1>6 DEF AllFresh
  <2> QED
    BY <1>5, <2>1
<1>7. CASE ~ (q = p /\ s = t)
  <2>1. UnderWay(q, s) => UnderWay(q, s)'
    BY <1>0, <1>2, <1>7 DEF UnderWay
  <2>2. \A k \in DOMAIN cache'[q] :
          \E i \in DOMAIN cache[q] : cache'[q][k] = cache[q][i]
    <3>1. CASE q = p
      BY <1>3, <3>1
    <3>2. CASE q # p
      BY <1>1, <3>2
    <3> QED
      BY <3>1, <3>2
  <2>3. AllFresh(cache[q], s) => AllFresh(cache[q], s)'
    BY <1>4, <2>2 DEF AllFresh
  <2> QED
    BY <1>4, <1>5, <2>1, <2>3
<1> QED
  BY <1>6, <1>7

(* The process that restarts forgets what it read and what it cached.      *)
LEMMA RestartFresh ==
  ASSUME Inv, Fresh, NEW p \in Procs, Restart(p)
  PROVE  Fresh'
<1>1. /\ past' = past /\ cache' = [cache EXCEPT ![p] = <<>>]
      /\ cache \in [Procs -> Seq(EntryType)]
      /\ raced' = raced \ ({p} \X Tenants)
  BY DEF Inv, Restart
<1>2. ASSUME NEW r \in Requests, req'[r].pc = "fill"
      PROVE  req'[r] = req[r] /\ req'[r].proc # p
  <2>1. req[r] \in ReqType
    BY DEF Inv
  <2>2. [req[r] EXCEPT !.pc = "failed"].pc = "failed"
    BY <2>1 DEF ReqType
  <2> QED
    BY <1>2, <2>2 DEF Restart
<1>3. ASSUME NEW u \in Updates, upd[u].proc # p PROVE upd'[u] = upd[u]
  BY <1>3 DEF Restart
<1> SUFFICES ASSUME NEW q \in Procs, NEW s \in Tenants, <<q, s>> \notin raced'
             PROVE  /\ ReadsFresh(q, s)'
                    /\ UnderWay(q, s)' \/ AllFresh(cache[q], s)'
  BY DEF Fresh
<1>4. CASE q = p
  <2>1. cache'[q] = <<>>
    BY <1>1, <1>4
  <2>2. AllFresh(cache[q], s)'
    BY <2>1 DEF AllFresh
  <2>3. ReadsFresh(q, s)'
    BY <1>2, <1>4 DEF ReadsFresh, Filling
  <2> QED
    BY <2>2, <2>3
<1>5. CASE q # p
  <2>1. <<q, s>> \notin raced
    BY <1>1, <1>5
  <2>2. /\ ReadsFresh(q, s) /\ (UnderWay(q, s) \/ AllFresh(cache[q], s))
        /\ Row(s)' = Row(s) /\ cache'[q] = cache[q]
    BY <1>1, <1>5, <2>1 DEF Fresh, Row
  <2>3. ReadsFresh(q, s)'
    BY <1>2, <2>2 DEF ReadsFresh, Filling
  <2>4. UnderWay(q, s) => UnderWay(q, s)'
    BY <1>3, <1>5 DEF UnderWay
  <2>5. AllFresh(cache[q], s) => AllFresh(cache[q], s)'
    BY <2>2 DEF AllFresh
  <2> QED
    BY <2>2, <2>3, <2>4, <2>5
<1> QED
  BY <1>4, <1>5

(***************************************************************************)
(* A process serves an old configuration only when an update did not reach *)
(* it (another process, a read under way, an error after the effect) or is *)
(* about to invalidate the entry.                                          *)
(***************************************************************************)
THEOREM Staleness == Spec => []StaleOnlyByRace
<1>1. Init => Fresh
  <2> SUFFICES ASSUME Init PROVE Fresh
    OBVIOUS
  <2>1. ASSUME NEW p \in Procs PROVE cache[p] = <<>>
    BY DEF Init
  <2>2. ASSUME NEW r \in Requests PROVE req[r].pc # "fill"
    BY DEF Init
  <2> QED
    BY <2>1, <2>2 DEF Fresh, ReadsFresh, Filling, AllFresh
<1>2. Inv /\ Fresh /\ [Next]_vars => Fresh'
  <2> SUFFICES ASSUME Inv, Fresh, [Next]_vars PROVE Fresh'
    OBVIOUS
  <2>1. CASE UNCHANGED vars
    BY <2>1, StaysFresh DEF vars
  <2>2. CASE \E r \in Requests :
               (\E p \in Procs, t \in Tenants : Enter(r, p, t))
                 \/ Select(r) \/ Fill(r) \/ Node(r)
    BY <2>2, RequestFresh, FillFresh
  <2>3. CASE \E u \in Updates :
               (\E p \in Procs, t \in Tenants, body \in Bodies : Begin(u, p, t, body))
                 \/ ReadVersion(u) \/ Write(u) \/ WriteFails(u) \/ Invalidate(u)
    BY <2>3, UpdateFresh, WriteFresh, InvalidateFresh
  <2>4. CASE \E p \in Procs : Restart(p)
    BY <2>4, RestartFresh
  <2> QED
    BY <2>1, <2>2, <2>3, <2>4 DEF Next
<1>3. Inv /\ Fresh => StaleOnlyByRace
  <2> SUFFICES ASSUME Inv, Fresh, NEW p \in Procs, NEW t \in Tenants,
                      Stale(p, t), <<p, t>> \notin raced
               PROVE  UnderWay(p, t)
    BY DEF StaleOnlyByRace, UnderWay
  <2>1. PICK k \in DOMAIN cache[p] : cache[p][k] = Entry(p, t)
    BY EntryIsHad DEF Stale
  <2>2. Entry(p, t).tenant = t
    BY EntryIsHad DEF Stale
  <2>3. ~ AllFresh(cache[p], t)
    BY <2>1, <2>2 DEF AllFresh, Stale
  <2> QED
    BY <2>3 DEF Fresh
<1> QED
  BY <1>1, <1>2, <1>3, Invariant, PTL DEF Spec

-----------------------------------------------------------------------------
(***************************************************************************)
(* The bounds of the caches, and what the bookkeeping of the model is      *)
(* about.  A full map that has the tenant already loses an entry all the   *)
(* same.                                                                   *)
(***************************************************************************)
Bounded ==
  /\ \A p \in Procs : Len(cache[p]) <= MaxCache
  /\ \A r \in Requests : req[r].row \in Rows \cup {NoRow}
  /\ raced \subseteq Procs \X Tenants
  /\ restarts \in 0..MaxRestarts

LEMMA SetCacheSize ==
  ASSUME NEW entries \in Seq(EntryType), NEW entry \in EntryType,
         Len(entries) <= MaxCache
  PROVE  Len(SetCache(entries, entry)) <= MaxCache
<1> DEFINE kept == IF Len(entries) >= MaxCache THEN Tail(entries) ELSE entries
           replaced == [i \in DOMAIN kept |->
                          IF kept[i].tenant = entry.tenant THEN entry ELSE kept[i]]
<1>0. MaxCache \in Nat \ {0}
  BY TenantConfigAssumption
<1>1. kept \in Seq(EntryType) /\ Len(kept) < MaxCache
  <2>1. CASE Len(entries) >= MaxCache
    <3>1. entries # <<>>
      BY <1>0, <2>1
    <3>2. Tail(entries) \in Seq(EntryType) /\ Len(Tail(entries)) = Len(entries) - 1
      BY <3>1
    <3> QED
      BY <1>0, <2>1, <3>2
  <2>2. CASE ~ (Len(entries) >= MaxCache)
    BY <1>0, <2>2
  <2> QED
    BY <2>1, <2>2
<1>2. SetCache(entries, entry) = IF \E i \in DOMAIN kept : kept[i].tenant = entry.tenant
                                   THEN replaced ELSE Append(kept, entry)
  BY DEF SetCache
<1> HIDE DEF kept
<1>3. Len(Append(kept, entry)) <= MaxCache
  BY <1>0, <1>1
<1>4. Len(replaced) = Len(kept)
  <2>1. DOMAIN replaced = 1..Len(kept) /\ Len(kept) \in Nat
    BY <1>1
  <2> HIDE DEF replaced
  <2> QED
    BY <2>1
<1>5. Len(replaced) <= MaxCache
  BY <1>0, <1>1, <1>4
<1> QED
  BY <1>2, <1>3, <1>5

LEMMA WithoutSize ==
  ASSUME NEW entries \in Seq(EntryType), NEW t
  PROVE  Len(Without(entries, t)) <= Len(entries)
<1>1. CASE \A i \in DOMAIN entries : entries[i].tenant # t
  BY <1>1 DEF Without
<1>2. CASE \E i \in DOMAIN entries : entries[i].tenant = t
  <2> DEFINE i == CHOOSE i \in DOMAIN entries : entries[i].tenant = t
             left == SubSeq(entries, 1, i - 1)
             right == SubSeq(entries, i + 1, Len(entries))
  <2>1. i \in 1..Len(entries)
    BY <1>2
  <2>2. Without(entries, t) = left \o right
    BY <1>2 DEF Without, RemoveAt
  <2> HIDE DEF i
  <2>3. left \in Seq(EntryType) /\ Len(left) = i - 1
    BY <2>1
  <2>4. right \in Seq(EntryType) /\ Len(right) = Len(entries) - i
    BY <2>1
  <2> HIDE DEF left, right
  <2>5. Len(left \o right) = Len(entries) - 1
    BY <2>1, <2>3, <2>4
  <2> QED
    BY <2>2, <2>5
<1> QED
  BY <1>1, <1>2

(* The row a request holds is one the table had, and stays one.            *)
LEMMA RowsGrow ==
  ASSUME \A t \in Tenants : Range(past[t]) \subseteq Range(past'[t])
  PROVE  Rows \subseteq Rows'
BY DEF Rows

LEMMA CurrentRow ==
  ASSUME Inv, NEW t \in Tenants
  PROVE  Row(t) \in Rows
<1>1. Len(past[t]) \in DOMAIN past[t]
  <2>1. past[t] \in Seq(RowType) /\ Len(past[t]) > 0
    BY DEF Inv, PastOk
  <2> QED
    BY <2>1
<1> QED
  BY <1>1 DEF Row, Rows, Range

LEMMA BoundedNext == Inv /\ Bounded /\ [Next]_vars => Bounded'
<1> SUFFICES ASSUME Inv, Bounded, [Next]_vars PROVE Bounded'
  OBVIOUS
<1>0. /\ req \in [Requests -> ReqType] /\ upd \in [Updates -> UpdType]
      /\ cache \in [Procs -> Seq(EntryType)]
      /\ past \in [Tenants -> Seq(RowType)]
      /\ MaxCache \in Nat \ {0} /\ MaxRestarts \in Nat
  BY TenantConfigAssumption DEF Inv, PastOk
<1>1. ASSUME NEW r \in Requests, NEW x, req' = [req EXCEPT ![r] = x],
             x.row \in Rows \cup {NoRow},
             UNCHANGED <<past, raced, restarts>>,
             \/ cache' = cache
             \/ \E p \in Procs : \E entries : /\ cache' = [cache EXCEPT ![p] = entries]
                                             /\ Len(entries) <= MaxCache
      PROVE  Bounded'
  <2>1. Rows' = Rows
    BY <1>1 DEF Rows
  <2>2. \A q \in Requests : req'[q].row \in Rows \cup {NoRow}
    BY <1>0, <1>1 DEF Bounded
  <2>3. \A p \in Procs : Len(cache'[p]) <= MaxCache
    BY <1>0, <1>1 DEF Bounded
  <2> QED
    BY <1>1, <2>1, <2>2, <2>3 DEF Bounded
<1>2. ASSUME NEW r \in Requests, NEW p \in Procs, NEW t \in Tenants, Enter(r, p, t)
      PROVE  Bounded'
  <2> DEFINE x == [req[r] EXCEPT !.proc = p, !.tenant = t,
                     !.pc = IF Cached(p, t) THEN "nodes" ELSE "select",
                     !.config = IF Cached(p, t) THEN Entry(p, t).config ELSE @]
  <2>1. x.row = req[r].row /\ req' = [req EXCEPT ![r] = x]
    BY <1>0, <1>2 DEF Enter, ReqType
  <2> HIDE DEF x
  <2> QED
    BY <1>1, <1>2, <2>1 DEF Enter, Bounded
<1>3. ASSUME NEW r \in Requests, Select(r) PROVE Bounded'
  <2> DEFINE x == [req[r] EXCEPT !.pc = "fill", !.row = Row(req[r].tenant)]
             y == [req[r] EXCEPT !.pc = "failed"]
  <2>1. req[r].tenant \in Tenants
    BY <1>3 DEF Select, Inv, ReqOk
  <2>2. x.row \in Rows /\ y.row = req[r].row
    BY <1>0, <2>1, CurrentRow DEF ReqType
  <2>3. req' = [req EXCEPT ![r] = x] \/ req' = [req EXCEPT ![r] = y]
    BY <1>0, <1>3 DEF Select
  <2> HIDE DEF x, y
  <2> QED
    BY <1>1, <1>3, <2>2, <2>3 DEF Select, Bounded
<1>4. ASSUME NEW r \in Requests, Fill(r) PROVE Bounded'
  <2> DEFINE x == [req[r] EXCEPT !.pc = "nodes", !.row = NoRow,
                                 !.config = FilledEntry(r).config]
             y == [req[r] EXCEPT !.pc = "failed"]
             p == req[r].proc
  <2>1. /\ p \in Procs /\ FilledEntry(r) \in EntryType
    <3>1. req[r] \in ReqType /\ req[r].pc = "fill" /\ ReqOk(req[r])
      BY <1>0, <1>4 DEF Fill, Inv
    <3>2. p \in Procs /\ req[r].tenant \in Tenants
      BY <3>1 DEF ReqOk
    <3>3. req[r].row \in RowType
      BY <3>1 DEF ReqType
    <3>4. req[r].row.version \in Nat /\ Resolved(req[r].row.overrides) \in Configs
      BY <3>3 DEF RowType, Configs
    <3> QED
      BY <3>2, <3>4 DEF FilledEntry, EntryType
  <2>2. x.row = NoRow /\ y.row = req[r].row
    BY <1>0 DEF ReqType
  <2>3. Len(SetCache(cache[p], FilledEntry(r))) <= MaxCache
    BY <1>0, <2>1, SetCacheSize DEF Bounded
  <2>4. \/ req' = [req EXCEPT ![r] = y] /\ cache' = cache
        \/ /\ req' = [req EXCEPT ![r] = x]
           /\ cache' = [cache EXCEPT ![p] = SetCache(cache[p], FilledEntry(r))]
    BY <1>0, <1>4, <2>1 DEF Fill
  <2> HIDE DEF x, y, p
  <2> QED
    BY <1>1, <1>4, <2>1, <2>2, <2>3, <2>4 DEF Fill, Bounded
<1>5. ASSUME NEW r \in Requests, Node(r) PROVE Bounded'
  <2> DEFINE x == [req[r] EXCEPT !.used = Append(@, NodeConfig(r))]
  <2>1. x.row = req[r].row /\ req' = [req EXCEPT ![r] = x]
    BY <1>0, <1>5 DEF Node, ReqType
  <2> HIDE DEF x
  <2> QED
    BY <1>1, <1>5, <2>1 DEF Node, Bounded
<1>6. ASSUME NEW u \in Updates,
             \/ \E p \in Procs, t \in Tenants, body \in Bodies : Begin(u, p, t, body)
             \/ ReadVersion(u) \/ WriteFails(u)
      PROVE  Bounded'
  <2>1. UNCHANGED <<cache, past, req, raced, restarts>>
    BY <1>6 DEF Begin, ReadVersion, WriteFails
  <2>2. Rows' = Rows
    BY <2>1 DEF Rows
  <2> QED
    BY <2>1, <2>2 DEF Bounded
<1>7. ASSUME NEW u \in Updates, Write(u) PROVE Bounded'
  <2> DEFINE t == upd[u].tenant
  <2>1. t \in Tenants /\ upd[u].proc \in Procs
    BY <1>7 DEF Write, Inv, UpdOk
  <2>2. /\ past' = [past EXCEPT ![t] = Append(past[t], NewRow(u))]
        /\ UNCHANGED <<cache, req, restarts>>
        /\ raced' = raced \cup Unreached(upd[u].proc, t) \/ raced' = raced \cup Procs \X {t}
    BY <1>7 DEF Write
  <2>3. raced' \subseteq Procs \X Tenants
    BY <2>1, <2>2 DEF Bounded, Unreached
  <2>4. ASSUME NEW v \in Tenants PROVE Range(past[v]) \subseteq Range(past'[v])
    <3>1. CASE v = t
      <4>1. /\ past'[v] = Append(past[v], NewRow(u)) /\ past[v] \in Seq(RowType)
        BY <1>0, <2>1, <2>2, <3>1
      <4>2. \A i \in DOMAIN past[v] : i \in DOMAIN past'[v] /\ past'[v][i] = past[v][i]
        BY <4>1
      <4> QED
        BY <4>2 DEF Range
    <3>2. CASE v # t
      BY <1>0, <2>2, <3>2
    <3> QED
      BY <3>1, <3>2
  <2>5. Rows \subseteq Rows'
    BY <2>4, RowsGrow
  <2> QED
    BY <2>2, <2>3, <2>5 DEF Bounded
<1>8. ASSUME NEW u \in Updates, Invalidate(u) PROVE Bounded'
  <2> DEFINE p == upd[u].proc
             left == Without(cache[p], upd[u].tenant)
  <2>1. p \in Procs /\ cache[p] \in Seq(EntryType)
    BY <1>0, <1>8 DEF Invalidate, Inv, UpdOk
  <2>2. Len(left) <= Len(cache[p]) /\ Len(cache[p]) <= MaxCache /\ Len(cache[p]) \in Nat
    BY <2>1, WithoutSize DEF Bounded
  <2>3. Len(left) <= MaxCache
    <3>1. left \in Seq(EntryType)
      BY <2>1, WithoutTenant DEF Inv, CacheOk
    <3>2. Len(left) \in Nat
      BY <3>1
    <3> HIDE DEF left
    <3> QED
      BY <1>0, <2>2, <3>2
  <2>4. cache' = [cache EXCEPT ![p] = left]
    BY <1>8 DEF Invalidate
  <2> HIDE DEF left
  <2>5. \A q \in Procs : Len(cache'[q]) <= MaxCache
    BY <1>0, <2>1, <2>3, <2>4 DEF Bounded
  <2>6. UNCHANGED <<past, req, raced, restarts>>
    BY <1>8 DEF Invalidate
  <2> QED
    BY <2>5, <2>6 DEF Bounded, Rows
<1>9. ASSUME NEW p \in Procs, Restart(p) PROVE Bounded'
  <2>1. /\ past' = past /\ restarts' = restarts + 1
        /\ restarts < MaxRestarts /\ raced' \subseteq raced
        /\ cache' = [cache EXCEPT ![p] = <<>>]
    BY <1>9 DEF Restart
  <2>2. \A q \in Procs : Len(cache'[q]) <= MaxCache
    BY <1>0, <2>1 DEF Bounded
  <2>3. ASSUME NEW r \in Requests PROVE req'[r].row = req[r].row
    <3>1. req[r] \in ReqType
      BY <1>0
    <3>2. [req[r] EXCEPT !.pc = "failed"].row = req[r].row
      BY <3>1 DEF ReqType
    <3>3. req'[r] = [req[r] EXCEPT !.pc = "failed"] \/ req'[r] = req[r]
      BY <1>9 DEF Restart
    <3> QED
      BY <3>2, <3>3
  <2>4. Rows' = Rows
    BY <2>1 DEF Rows
  <2>5. restarts' \in 0..MaxRestarts
    BY <1>0, <2>1 DEF Bounded
  <2> QED
    BY <2>1, <2>2, <2>3, <2>4, <2>5 DEF Bounded
<1>10. CASE UNCHANGED vars
  BY <1>10 DEF vars, Bounded, Rows
<1> QED
  BY <1>2, <1>3, <1>4, <1>5, <1>6, <1>7, <1>8, <1>9, <1>10 DEF Next

(***************************************************************************)
(* The cache of a process never outgrows its limit, has one entry for a    *)
(* tenant, and every configuration in it has all settings                  *)
(* (configService.ts, setCache; resolve.ts, deepMergeTenantConfig).        *)
(***************************************************************************)
THEOREM CacheBounds == Spec => []TypeOK
<1>1. Init => Bounded
  <2> SUFFICES ASSUME Init PROVE Bounded
    OBVIOUS
  <2>1. \A r \in Requests : req[r].row = NoRow
    BY DEF Init
  <2>2. \A p \in Procs : Len(cache[p]) <= MaxCache
    BY TenantConfigAssumption DEF Init
  <2>3. restarts \in 0..MaxRestarts
    BY TenantConfigAssumption DEF Init
  <2> QED
    BY <2>1, <2>2, <2>3 DEF Init, Bounded
<1>2. Inv /\ Bounded /\ Counted => TypeOK
  <2> SUFFICES ASSUME Inv, Bounded, Counted PROVE TypeOK
    OBVIOUS
  <2>1. ASSUME NEW p \in Procs, NEW e \in Range(cache[p])
        PROVE  e.tenant \in Tenants /\ DOMAIN Defaults \subseteq DOMAIN e.config
    <3>1. PICK k \in DOMAIN cache[p] : e = cache[p][k]
      BY <2>1 DEF Range
    <3>2. e \in EntryType
      BY <3>1, ElementOfSeq DEF Inv
    <3>3. e.tenant \in Tenants /\ e.config \in Configs
      BY <3>2 DEF EntryType
    <3> QED
      BY <3>3 DEF Configs, Resolved
  <2>2. ASSUME NEW row \in Rows
        PROVE  row.version \in Nat /\ row.overrides \in Stored
    <3>1. PICK t \in Tenants : row \in Range(past[t])
      BY <2>2 DEF Rows
    <3>2. PICK k \in DOMAIN past[t] : row = past[t][k]
      BY <3>1 DEF Range
    <3>3. past[t] \in Seq(RowType)
      BY DEF Inv, PastOk
    <3>4. row \in RowType
      BY <3>2, <3>3, ElementOfSeq
    <3> QED
      BY <3>4 DEF RowType
  <2>3. /\ \A r \in Requests :
             req[r].pc \in {"new", "select", "fill", "nodes", "failed"}
        /\ \A u \in Updates :
             upd[u].pc \in {"new", "read", "write", "invalidate", "done", "failed"}
    BY DEF Inv, ReqType, UpdType
  <2>4. ASSUME NEW t \in Tenants PROVE overtaken[t] \subseteq DOMAIN past[t]
    <3>1. past[t] \in Seq(RowType) /\ Counts(t)
      BY DEF Inv, PastOk, Counted
    <3> QED
      BY <3>1 DEF Counts
  <2> QED
    BY <2>1, <2>2, <2>3, <2>4
       DEF Inv, Bounded, CacheOk, OnePerTenant, TypeOK
<1> QED
  BY <1>1, <1>2, BoundedNext, CountsAlways, Invariant, PTL DEF Spec
=============================================================================
