------------------------------ MODULE BM25Index ------------------------------
(***************************************************************************)
(* InProcessBM25Index (src/rag/retrieval/bm25Index.ts), the keyword index: *)
(* an in-memory index per process, and one JSON snapshot on disk that      *)
(* every process of the host loads on first use and overwrites after each  *)
(* ingestion.  The API server and the ingestion command line               *)
(* (scripts/ingest.ts) are such processes.                                 *)
(*                                                                         *)
(* A process runs one call at a time; the system calls of two processes    *)
(* interleave.  writeFileSync truncates the file, then writes it, so the   *)
(* file is torn while a process is writing.                                *)
(*                                                                         *)
(* Definitions with a suffix (RemovedKeepsLength, SearchCutsFirst, ...)    *)
(* are mutants: an operation with a plausible bug.                         *)
(***************************************************************************)
EXTENDS Integers, Sequences, FiniteSets, Functions

CONSTANTS
  Procs,      \* processes that use the index
  Docs,       \* chunk ids
  Texts,      \* chunk texts
  NoText,     \* the text of a chunk that is not indexed
  Terms,      \* tokens
  TermsOf,    \* distinct tokens of a text
  LenOf,      \* number of tokens of a text
  Tenants,
  TenantOf,   \* the tenant stamped on a chunk
  TopK,       \* k of search
  MaxBatch,   \* bound: chunks of one ingestion
  Faults,     \* whether writes fail and processes are killed
  NoFile, Torn

ASSUME IndexAssumption ==
  /\ IsFiniteSet(Docs)
  /\ NoText \notin Texts
  /\ TermsOf \in [Texts -> SUBSET Terms]
  /\ LenOf \in [Texts -> Nat]
  /\ TenantOf \in [Docs -> Tenants]
  /\ TopK \in Nat /\ MaxBatch \in Nat /\ Faults \in BOOLEAN

VARIABLES
  open,    \* the processes that called getBM25Index()
  index,   \* their index in memory
  todo,    \* chunks of the running upsertBatch still to do
  phase,   \* idle, indexing (in upsertBatch) or writing (in save)
  disk,    \* the snapshot file
  mixed,   \* two processes hold the file open for writing
  kept     \* history: chunks a completed save stored, not removed since

vars == <<open, index, todo, phase, disk, mixed, kept>>

(***************************************************************************)
(* The fields of the class; docFreq is 0 for a term that is not in the     *)
(* map.  The snapshot is an index whose dirty flag is FALSE.               *)
(***************************************************************************)
Indexes ==
  [docs      : [Docs -> Texts \cup {NoText}],
   docFreq   : [Terms -> Nat],
   totalDocs : Int,
   totalLen  : Int,
   dirty     : BOOLEAN]

Empty ==
  [docs |-> [d \in Docs |-> NoText], docFreq |-> [w \in Terms |-> 0],
   totalDocs |-> 0, totalLen |-> 0, dirty |-> FALSE]

Indexed(ix) == {d \in Docs : ix.docs[d] # NoText}
Holding(ix, w) == {d \in Indexed(ix) : w \in TermsOf[ix.docs[d]]}

(***************************************************************************)
(* remove: a term whose frequency would drop to 0 leaves the map.          *)
(***************************************************************************)
Less(n) == IF n <= 1 THEN 0 ELSE n - 1

RemovedKeepsLength(ix, d) ==
  IF d \notin Indexed(ix) THEN ix
  ELSE LET x == ix.docs[d]
       IN  [ix EXCEPT !.docs[d] = NoText,
                      !.docFreq = [w \in Terms |->
                                     IF w \in TermsOf[x] THEN Less(@[w])
                                                         ELSE @[w]],
                      !.totalDocs = @ - 1, !.dirty = TRUE]

RemovedFromEveryTerm(ix, d) ==
  IF d \notin Indexed(ix) THEN ix
  ELSE [ix EXCEPT !.docs[d] = NoText,
                  !.docFreq = [w \in Terms |-> @[w] - 1],
                  !.totalDocs = @ - 1,
                  !.totalLen = @ - LenOf[ix.docs[d]],
                  !.dirty = TRUE]

Removed(ix, d) ==
  IF d \notin Indexed(ix) THEN ix
  ELSE LET x == ix.docs[d]
       IN  [docs      |-> [ix.docs EXCEPT ![d] = NoText],
            docFreq   |-> [w \in Terms |->
                             IF w \in TermsOf[x] THEN Less(ix.docFreq[w])
                                                 ELSE ix.docFreq[w]],
            totalDocs |-> ix.totalDocs - 1,
            totalLen  |-> ix.totalLen - LenOf[x],
            dirty     |-> TRUE]

(* The second half of upsert: a chunk that is not indexed is added.        *)
Added(ix, d, x) ==
  [docs      |-> [ix.docs EXCEPT ![d] = x],
   docFreq   |-> [w \in Terms |->
                    IF w \in TermsOf[x] THEN ix.docFreq[w] + 1
                                        ELSE ix.docFreq[w]],
   totalDocs |-> ix.totalDocs + 1,
   totalLen  |-> ix.totalLen + LenOf[x],
   dirty     |-> TRUE]

UpsertedWithoutRemoving(ix, d, x) == Added(ix, d, x)

Upserted(ix, d, x) == Added(Removed(ix, d), d, x)

(***************************************************************************)
(* search: the chunks with a positive score, in the order of their scores  *)
(* (left open), those of the tenant, the first k.  A term contributes a    *)
(* positive amount when its idf, log(1 + (N - df + 0.5) / (df + 0.5)), is  *)
(* positive, which is when df <= N.                                        *)
(***************************************************************************)
Matching(ix, q) ==
  {d \in Indexed(ix) :
     \E w \in q \cap TermsOf[ix.docs[d]] : ix.docFreq[w] <= ix.totalDocs}

Orders(S) == {s \in [1..Cardinality(S) -> S] : IsInjective(s)}

Cut(s, k) == SubSeq(s, 1, IF Len(s) <= k THEN Len(s) ELSE k)

(* The chunks of s of one tenant, in the order they have in s.             *)
Filtered(s, tenant) ==
  LET own == {i \in DOMAIN s : TenantOf[s[i]] = tenant}
  IN  [n \in 1..Cardinality(own) |->
         s[CHOOSE i \in own : Cardinality({j \in own : j < i}) = n - 1]]

SearchCutsFirst(ix, q, k, tenant) ==
  {Filtered(Cut(s, k), tenant) : s \in Orders(Matching(ix, q))}

Search(ix, q, k, tenant) ==
  {Cut(Filtered(s, tenant), k) : s \in Orders(Matching(ix, q))}

(***************************************************************************)
(* load: no file, or one that does not parse, leaves the index empty.      *)
(***************************************************************************)
Loaded(file) == IF file \in {NoFile, Torn} THEN Empty ELSE file

(* The first getBM25Index() of a process.                                  *)
Open(p) ==
  /\ p \notin open
  /\ open' = open \cup {p}
  /\ index' = [index EXCEPT ![p] = Loaded(disk)]
  /\ UNCHANGED <<todo, phase, disk, mixed, kept>>

Idle(p) == p \in open /\ phase[p] = "idle"

(* The BM25 step of runIngestion: upsertBatch(chunks), then save().        *)
NewChunks == [id : Docs, text : Texts]

Batches == UNION {[1..n -> NewChunks] : n \in 1..MaxBatch}

Ingest(p, chunks) ==
  /\ Idle(p)
  /\ todo' = [todo EXCEPT ![p] = chunks]
  /\ phase' = [phase EXCEPT ![p] = "indexing"]
  /\ UNCHANGED <<open, index, disk, mixed, kept>>

Upsert(p) ==
  LET c == Head(todo[p])
  IN  /\ phase[p] = "indexing"
      /\ todo[p] # <<>>
      /\ index' = [index EXCEPT ![p] = Upserted(@, c.id, c.text)]
      /\ todo' = [todo EXCEPT ![p] = Tail(@)]
      /\ UNCHANGED <<open, phase, disk, mixed, kept>>

Writing(p) == {q \in Procs \ {p} : phase[q] = "writing"}

SaveBegin(p) ==
  /\ phase[p] = "indexing"
  /\ todo[p] = <<>>
  /\ IF index[p].dirty
       THEN /\ phase' = [phase EXCEPT ![p] = "writing"]
            /\ disk' = Torn
            /\ mixed' = (mixed \/ Writing(p) # {})
       ELSE /\ phase' = [phase EXCEPT ![p] = "idle"]
            /\ UNCHANGED <<disk, mixed>>
  /\ UNCHANGED <<open, index, todo, kept>>

(* Where two processes wrote at the same time, the file may hold a mix.    *)
SaveEnd(p) ==
  LET snapshot == [index[p] EXCEPT !.dirty = FALSE]
  IN  /\ phase[p] = "writing"
      /\ phase' = [phase EXCEPT ![p] = "idle"]
      /\ index' = [index EXCEPT ![p].dirty = FALSE]
      /\ \/ disk' = snapshot
         \/ mixed /\ disk' = Torn
      /\ mixed' = (mixed /\ Writing(p) # {})
      /\ kept' = kept \cup Indexed(index[p])
      /\ UNCHANGED <<open, todo>>

(* A write that stops half way leaves its own torn file, or the snapshot   *)
(* another process has written since, or a mix of the two.                 *)
CutShort(p) ==
  \/ UNCHANGED disk
  \/ phase[p] = "writing" /\ mixed /\ disk' = Torn

(* save swallows the error, logs it and leaves the index dirty: the file   *)
(* could not be opened, or the write stopped half way.                     *)
SaveFailsClean(p) ==
  /\ Faults
  /\ \/ phase[p] = "indexing" /\ todo[p] = <<>>
     \/ phase[p] = "writing"
  /\ phase' = [phase EXCEPT ![p] = "idle"]
  /\ index' = [index EXCEPT ![p].dirty = FALSE]
  /\ mixed' = (mixed /\ Writing(p) # {})
  /\ CutShort(p)
  /\ UNCHANGED <<open, todo, kept>>

SaveFails(p) ==
  /\ Faults
  /\ \/ phase[p] = "indexing" /\ todo[p] = <<>>
     \/ phase[p] = "writing"
  /\ phase' = [phase EXCEPT ![p] = "idle"]
  /\ mixed' = (mixed /\ Writing(p) # {})
  /\ CutShort(p)
  /\ UNCHANGED <<open, index, todo, kept>>

(* remove(chunkId) and reset() change the memory only.                     *)
Remove(p, d) ==
  /\ Idle(p)
  /\ index' = [index EXCEPT ![p] = Removed(@, d)]
  /\ kept' = kept \ {d}
  /\ UNCHANGED <<open, todo, phase, disk, mixed>>

Reset(p) ==
  /\ Idle(p)
  /\ index' = [index EXCEPT ![p] = [Empty EXCEPT !.dirty = TRUE]]
  /\ kept' = {}
  /\ UNCHANGED <<open, todo, phase, disk, mixed>>

(* The process ends: between two calls, or killed in the middle of one.    *)
Exit(p) ==
  /\ p \in open
  /\ phase[p] = "idle" \/ Faults
  /\ open' = open \ {p}
  /\ index' = [index EXCEPT ![p] = Empty]
  /\ todo' = [todo EXCEPT ![p] = <<>>]
  /\ phase' = [phase EXCEPT ![p] = "idle"]
  /\ mixed' = (mixed /\ Writing(p) # {})
  /\ CutShort(p)
  /\ UNCHANGED kept

Init ==
  /\ open = {}
  /\ index = [p \in Procs |-> Empty]
  /\ todo = [p \in Procs |-> <<>>]
  /\ phase = [p \in Procs |-> "idle"]
  /\ disk = NoFile
  /\ mixed = FALSE
  /\ kept = {}

Next ==
  \E p \in Procs :
    \/ Open(p) \/ Upsert(p) \/ SaveBegin(p) \/ SaveEnd(p) \/ SaveFails(p)
    \/ Reset(p) \/ Exit(p)
    \/ \E chunks \in Batches : Ingest(p, chunks)
    \/ \E d \in Docs : Remove(p, d)

Spec == Init /\ [][Next]_vars
-----------------------------------------------------------------------------
TypeOK ==
  /\ open \subseteq Procs
  /\ index \in [Procs -> Indexes]
  /\ todo \in [Procs -> Seq(NewChunks)]
  /\ phase \in [Procs -> {"idle", "indexing", "writing"}]
  /\ disk \in Indexes \cup {NoFile, Torn}
  /\ mixed \in BOOLEAN
  /\ kept \subseteq Docs

(***************************************************************************)
(* The statistics BM25 scores with stay exact over every history of        *)
(* upserts, removals, saves, loads and crashes: the frequency of a term is *)
(* the number of indexed chunks that hold it, and totalDocs the number of  *)
(* indexed chunks; in memory and in the snapshot.                          *)
(***************************************************************************)
Exact(ix) ==
  /\ \A w \in Terms : ix.docFreq[w] = Cardinality(Holding(ix, w))
  /\ ix.totalDocs = Cardinality(Indexed(ix))

Bookkeeping ==
  /\ \A p \in Procs : Exact(index[p])
  /\ Exact(Loaded(disk))

(* The same for totalLen, from which the average length is computed.       *)
Lengths(ix) == SumFunction([d \in Indexed(ix) |-> LenOf[ix.docs[d]]])

LengthsAddUp ==
  /\ \A p \in Procs : index[p].totalLen = Lengths(index[p])
  /\ Loaded(disk).totalLen = Lengths(Loaded(disk))

(***************************************************************************)
(* A tenant's search finds min(k, n) of the n chunks of that tenant that   *)
(* hold the term, none of another tenant: the chunks of other tenants      *)
(* neither appear nor crowd the tenant's out of the first k, and the       *)
(* statistics never give a matching chunk a score of zero or less.         *)
(***************************************************************************)
TenantsFindTheirOwn ==
  \A p \in open, w \in Terms, tenant \in Tenants :
    LET own == {d \in Holding(index[p], w) : TenantOf[d] = tenant}
    IN  \A hits \in Search(index[p], {w}, TopK, tenant) :
          /\ Range(hits) \subseteq own
          /\ IsInjective(hits)
          /\ Len(hits) = IF Cardinality(own) <= TopK THEN Cardinality(own)
                                                     ELSE TopK

(***************************************************************************)
(* With one process, an index that is not dirty is what a restart loads:   *)
(* also after a write that failed and a kill in the middle of a write.     *)
(***************************************************************************)
CleanIsPersisted ==
  \A p \in open :
    Idle(p) /\ ~ index[p].dirty => Loaded(disk) = index[p]

(***************************************************************************)
(* "persisted via a JSON snapshot on disk ... so it survives restarts"     *)
(* (bm25Index.ts:6): between two writes, what a completed save stored and  *)
(* nobody removed is in the snapshot a restart loads.                      *)
(***************************************************************************)
SurvivesRestarts ==
  (\A p \in Procs : phase[p] # "writing") =>
    kept \subseteq Indexed(Loaded(disk))
=============================================================================
