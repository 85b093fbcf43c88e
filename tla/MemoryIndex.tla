------------------------------ MODULE MemoryIndex ------------------------------
(***************************************************************************)
(* The memories table and the vector index that follows it: remember, edit, *)
(* forget, recover, the retention sweep and the repairs on one side, and on *)
(* the other the four writers of embeddings (the remember request, an edit, *)
(* the embedding tracker, the re-embed repair), each of which asks the      *)
(* provider before it opens its transaction.                                *)
(*                                                                          *)
(* A content stands for its hash: texts that normalise alike are one.  An   *)
(* embedding row is keyed by that hash, which is unique in the table, or by *)
(* hash:scope; vec says whether vec_embeddings has its vector.  A search    *)
(* finds a memory by a row that names the memory as its source.             *)
(***************************************************************************)
EXTENDS Naturals, FiniteSets, Sequences, SequencesExt

CONSTANTS
  Mem,                 \* memory ids
  Scopings,            \* the sets of memories that may be in the one scope
  Contents,            \* contents
  RecoverWindow,       \* SOFT_DELETE_RETENTION_MS, in days
  TombstoneRetention,  \* tombstoneRetentionMs, in days
  BatchSize,           \* batchSize of the tracker
  MaxEdits,            \* bound: changes of version explored
  None                 \* no row, no content, no request

ASSUME IndexAssumption ==
  /\ Scopings \subseteq SUBSET Mem /\ IsFiniteSet(Mem)
  /\ RecoverWindow \in Nat /\ TombstoneRetention \in Nat
  /\ RecoverWindow <= TombstoneRetention
  /\ BatchSize \in Nat \ {0}
  /\ MaxEdits \in Nat
  /\ None \notin Contents

VARIABLES
  scoped,   \* the memories remembered in the scope, fixed from the start
  row,      \* memories
  newer,    \* the pairs <<m, n>> such that updated_at of m is after n's
  emb,      \* embeddings and vec_embeddings, by key
  asked,    \* the key a remember request awaits the vector of, by memory
  batch,    \* what the tracker's cycle awaits, as <<memory, key>>
  repair,   \* what the re-embed repair awaits, likewise
  sweeping, \* is the retention sweep between its embeddings and its rows
  edits     \* bounded counter

vars == <<scoped, row, newer, emb, asked, batch, repair, sweeping, edits>>

Keys == [hash : Contents, scoped : BOOLEAN]
PlainKey(c) == [hash |-> c, scoped |-> FALSE]
RememberKey(m, c) == [hash |-> c, scoped |-> m \in scoped]

Row(state, c, version, age) ==
  [state |-> state, content |-> c, version |-> version, age |-> age]
Live(m) == row[m].state = "live"
Key(m) == PlainKey(row[m].content)

\* The bound on edits.
CountEdit == edits < MaxEdits /\ edits' = edits + 1

\* Writes updated_at; two changes within a millisecond are not modelled.
Touch(m) == newer' = (newer \ (Mem \X {m})) \cup ({m} \X (Mem \ {m}))

SameScope(m, n) == (m \in scoped) <=> (n \in scoped)
\* What the unique index on content_hash and scope of live rows refuses.
Taken(m, c) ==
  \E n \in Mem \ {m} : Live(n) /\ SameScope(m, n) /\ row[n].content = c

RowsOfSource(e, m) == {k \in Keys : e[k] # None /\ e[k].src = m}
DeleteRows(e, ks) == [k \in Keys |-> IF k \in ks THEN None ELSE e[k]]
DeleteVecs(e, ks) ==
  [k \in Keys |-> IF k \in ks THEN [e[k] EXCEPT !.vec = FALSE] ELSE e[k]]

(***************************************************************************)
(* Requests                                                                 *)
(***************************************************************************)

\* POST remember; the request then awaits the vector.
Remember(m, c) ==
  /\ ~sweeping
  /\ row[m].state = "absent"
  /\ ~Taken(m, c)
  /\ row' = [row EXCEPT ![m] = Row("live", c, 1, 0)]
  /\ Touch(m)
  /\ asked' = [asked EXCEPT ![m] = RememberKey(m, c)]
  /\ UNCHANGED <<scoped, emb, batch, repair, sweeping, edits>>

\* The vector is there: whatever the memory is by now, its rows are replaced
\* by one for the content it was remembered with; the transaction is rolled
\* back when another memory's row holds the key.
EmbedRemembered(m) ==
  /\ ~sweeping
  /\ asked[m] # None
  /\ asked' = [asked EXCEPT ![m] = None]
  /\ LET e == DeleteRows(emb, RowsOfSource(emb, m))
     IN emb' = IF e[asked[m]] = None
               THEN [e EXCEPT ![asked[m]] = [src |-> m, vec |-> TRUE]]
               ELSE emb
  /\ UNCHANGED <<scoped, row, newer, batch, repair, sweeping, edits>>

\* The provider has no answer, or one of the wrong dimension.
EmbedFails(m) ==
  /\ ~sweeping
  /\ asked[m] # None
  /\ asked' = [asked EXCEPT ![m] = None]
  /\ UNCHANGED <<scoped, row, newer, emb, batch, repair, sweeping, edits>>

\* insertMemoryEmbedding: the row of that hash is taken over.
TakeOver(e, m, k) ==
  LET kept == DeleteRows(e, RowsOfSource(e, m) \ {k})
  IN [kept EXCEPT ![k] = [src |-> m, vec |-> TRUE]]

\* A fact of the pipeline becomes a memory with its vector; one without is like
\* a request whose provider fails.
InsertFact(m, c) ==
  /\ ~sweeping
  /\ row[m].state = "absent"
  /\ ~Taken(m, c)
  /\ row' = [row EXCEPT ![m] = Row("live", c, 1, 0)]
  /\ Touch(m)
  /\ emb' = TakeOver(emb, m, PlainKey(c))
  /\ UNCHANGED <<scoped, asked, batch, repair, sweeping, edits>>

\* Faulty: the version stays.
ReplaceQuietly(m, c, vector) ==
  /\ \A n \in Mem \ {m} : Live(n) => row[n].content # c
  /\ CountEdit
  /\ row' = [row EXCEPT ![m] = Row("live", c, @.version, 0)]
  /\ emb' = IF vector THEN TakeOver(emb, m, PlainKey(c)) ELSE emb

\* The content changes: rows of other hashes go; the vector, if there is one,
\* goes in under the id of a new row, which a row that holds the hash keeps
\* from existing.
ReplaceContent(m, c, vector) ==
  LET k == PlainKey(c)
      kept == DeleteRows(emb, RowsOfSource(emb, m) \ {k})
  IN /\ \A n \in Mem \ {m} : Live(n) => row[n].content # c
     /\ CountEdit
     /\ row' = [row EXCEPT ![m] = Row("live", c, @.version + 1, 0)]
     /\ emb' = IF ~vector THEN kept
               ELSE IF kept[k] = None
               THEN [kept EXCEPT ![k] = [src |-> m, vec |-> TRUE]]
               ELSE [kept EXCEPT ![k].src = m]

\* PATCH, or an update of the pipeline.  A request with an if_version that is not
\* the version any more changes nothing.
ModifyMemory(m, c, vector) ==
  /\ ~sweeping
  /\ Live(m)
  /\ ReplaceContent(m, c, vector)
  /\ Touch(m)
  /\ UNCHANGED <<scoped, asked, batch, repair, sweeping>>

\* PATCH of type, tags, importance or pinned.
ModifyMetadata(m) ==
  /\ ~sweeping
  /\ Live(m) /\ CountEdit
  /\ row' = [row EXCEPT ![m].version = @ + 1]
  /\ Touch(m)
  /\ UNCHANGED <<scoped, emb, asked, batch, repair, sweeping>>

\* DELETE, or a delete of the pipeline.
ForgetMemory(m) ==
  /\ ~sweeping
  /\ Live(m) /\ CountEdit
  /\ row' = [row EXCEPT ![m] = Row("deleted", @.content, @.version + 1, 0)]
  /\ UNCHANGED <<scoped, newer, emb, asked, batch, repair, sweeping>>

\* forget-dead-memories, or a semantic duplicate, whose tags the memory that
\* is kept may take: the version stays.
ForgetQuietly(m) ==
  /\ ~sweeping
  /\ Live(m)
  /\ row' = [row EXCEPT ![m] = Row("deleted", @.content, @.version, 0)]
  /\ \/ UNCHANGED newer
     \/ \E n \in Mem \ {m} : Live(n) /\ Touch(n)
  /\ UNCHANGED <<scoped, emb, asked, batch, repair, sweeping, edits>>

\* Faulty: without the unique index.
RecoverUnchecked(m) ==
  /\ ~sweeping
  /\ row[m].state = "deleted" /\ row[m].age <= RecoverWindow
  /\ CountEdit
  /\ row' = [row EXCEPT ![m] = Row("live", @.content, @.version + 1, 0)]
  /\ Touch(m)
  /\ UNCHANGED <<scoped, emb, asked, batch, repair, sweeping>>

\* Nothing looks for a duplicate: the unique index refuses the update.
RecoverMemory(m) ==
  /\ ~sweeping
  /\ row[m].state = "deleted" /\ row[m].age <= RecoverWindow
  /\ ~Taken(m, row[m].content)
  /\ CountEdit
  /\ row' = [row EXCEPT ![m] = Row("live", @.content, @.version + 1, 0)]
  /\ Touch(m)
  /\ UNCHANGED <<scoped, emb, asked, batch, repair, sweeping>>

(***************************************************************************)
(* The embedding tracker and the repairs                                    *)
(***************************************************************************)

Covered(m) == RowsOfSource(emb, m) # {} \/ emb[Key(m)] # None

\* listUnembeddedMemories and listStaleEmbeddingRows.
Unembedded(m) == Live(m) /\ ~Covered(m)
\* Faulty: overlooks a row of another hash.
StaleIfUncovered(m) == Live(m) /\ ~Covered(m)
Stale(m) == Live(m) /\ (~Covered(m) \/ RowsOfSource(emb, m) \ {Key(m)} # {})

\* The memories of ms that are read first, latest change first.
Latest(ms) ==
  {m \in ms : Cardinality({n \in ms : <<n, m>> \in newer}) < BatchSize}

\* A cycle reads what is stale, as much of it as its batch holds, and asks for
\* the vectors.
TrackerQuery ==
  /\ ~sweeping
  /\ batch = {} /\ \E m \in Mem : Stale(m)
  /\ batch' = {<<m, Key(m)>> : m \in Latest({n \in Mem : Stale(n)})}
  /\ UNCHANGED <<scoped, row, newer, emb, asked, repair, sweeping, edits>>

\* The vectors of other hashes go, their rows stay; the source of a row that
\* holds the hash stays as well.
TrackerUpsert(e, r) ==
  LET m == r[1]
      k == r[2]
      kept == DeleteVecs(e, RowsOfSource(e, m) \ {k})
  IN [kept EXCEPT ![k] = IF @ = None THEN [src |-> m, vec |-> TRUE]
                                     ELSE [@ EXCEPT !.vec = TRUE]]

\* The embeddings once the answers are written, one after the other.
TrackerWritten(answers) ==
  LET after[i \in 0 .. Len(answers)] ==
        IF i = 0 THEN emb ELSE TrackerUpsert(after[i - 1], answers[i])
  IN  after[Len(answers)]

\* Whatever answers came are written in one transaction.
TrackerWrite(answers) ==
  /\ ~sweeping
  /\ batch # {}
  /\ emb' = TrackerWritten(answers)
  /\ batch' = {}
  /\ UNCHANGED <<scoped, row, newer, asked, repair, sweeping, edits>>

\* reembedMissingMemories, likewise; ms are the oldest, up to the limit the
\* request names, and created_at is not modelled.
RepairQuery(ms) ==
  /\ ~sweeping
  /\ repair = {} /\ ms # {}
  /\ repair' = {<<m, Key(m)>> : m \in ms}
  /\ UNCHANGED <<scoped, row, newer, emb, asked, batch, sweeping, edits>>

RepairUpsert(e, r) ==
  LET m == r[1]
      k == r[2]
      kept == DeleteRows(e, RowsOfSource(e, m) \ {k})
  IN [kept EXCEPT ![k] = IF @ = None THEN [src |-> m, vec |-> TRUE]
                                     ELSE [@ EXCEPT !.vec = TRUE]]

RepairWritten(answers) ==
  LET after[i \in 0 .. Len(answers)] ==
        IF i = 0 THEN emb ELSE RepairUpsert(after[i - 1], answers[i])
  IN  after[Len(answers)]

RepairWrite(answers) ==
  /\ ~sweeping
  /\ repair # {}
  /\ emb' = RepairWritten(answers)
  /\ repair' = {}
  /\ UNCHANGED <<scoped, row, newer, asked, batch, sweeping, edits>>

\* Rows of memories that are gone or deleted, unless a live one has the hash.
Orphans ==
  {k \in Keys : /\ emb[k] # None /\ ~Live(emb[k].src)
                /\ \A m \in Mem : Live(m) => Key(m) # k}

CleanOrphanedEmbeddings ==
  /\ ~sweeping
  /\ Orphans # {}
  /\ emb' = DeleteRows(emb, Orphans)
  /\ UNCHANGED <<scoped, row, newer, asked, batch, repair, sweeping, edits>>

ResyncVectorIndex ==
  /\ ~sweeping
  /\ \E k \in Keys : emb[k] # None /\ ~emb[k].vec
  /\ emb' = [k \in Keys |-> IF emb[k] = None THEN None
                            ELSE [emb[k] EXCEPT !.vec = TRUE]]
  /\ UNCHANGED <<scoped, row, newer, asked, batch, repair, sweeping, edits>>

(***************************************************************************)
(* Retention                                                                *)
(***************************************************************************)

Expired(m) == row[m].state = "deleted" /\ row[m].age > TombstoneRetention

\* The sweep's transactions follow each other without an await.
PurgeEmbeddings ==
  /\ ~sweeping
  /\ \E m \in Mem : Expired(m)
  /\ emb' = DeleteRows(emb, UNION {RowsOfSource(emb, m) :
                                     m \in {n \in Mem : Expired(n)}})
  /\ sweeping' = TRUE
  /\ UNCHANGED <<scoped, row, newer, asked, batch, repair, edits>>

\* Faulty: purges what the other transaction has not seen expire.
PurgeAllTombstones ==
  /\ sweeping
  /\ row' = [m \in Mem |-> IF row[m].state = "deleted"
                           THEN Row("purged", None, 0, 0) ELSE row[m]]
  /\ sweeping' = FALSE
  /\ UNCHANGED <<scoped, newer, emb, asked, batch, repair, edits>>

PurgeTombstones ==
  /\ sweeping
  /\ row' = [m \in Mem |-> IF Expired(m)
                           THEN Row("purged", None, 0, 0) ELSE row[m]]
  /\ sweeping' = FALSE
  /\ UNCHANGED <<scoped, newer, emb, asked, batch, repair, edits>>

\* Faulty: ages live rows as well.
ElapseForAll ==
  /\ ~sweeping
  /\ batch = {} /\ repair = {} /\ \A m \in Mem : asked[m] = None
  /\ row' = [m \in Mem |-> [row[m] EXCEPT !.age = @ + 1]]
  /\ UNCHANGED <<scoped, newer, emb, asked, batch, repair, sweeping, edits>>

\* A day goes by; a request or a cycle takes minutes.
Elapse ==
  /\ ~sweeping
  /\ batch = {} /\ repair = {} /\ \A m \in Mem : asked[m] = None
  /\ \E m \in Mem : row[m].state = "deleted" /\ row[m].age <= TombstoneRetention
  /\ row' = [m \in Mem |->
               IF row[m].state = "deleted" /\ row[m].age <= TombstoneRetention
               THEN [row[m] EXCEPT !.age = @ + 1] ELSE row[m]]
  /\ UNCHANGED <<scoped, newer, emb, asked, batch, repair, sweeping, edits>>

\* The daemon dies, also between the transactions of a sweep, and restarts.
Crash ==
  /\ asked' = [m \in Mem |-> None]
  /\ batch' = {} /\ repair' = {}
  /\ sweeping' = FALSE
  /\ UNCHANGED <<scoped, row, newer, emb, edits>>

Init ==
  /\ scoped \in Scopings
  /\ row = [m \in Mem |-> Row("absent", None, 0, 0)]
  /\ newer = {}
  /\ emb = [k \in Keys |-> None]
  /\ asked = [m \in Mem |-> None]
  /\ batch = {} /\ repair = {}
  /\ sweeping = FALSE
  /\ edits = 0

Next ==
  \/ \E m \in Mem :
       \/ EmbedRemembered(m) \/ EmbedFails(m) \/ ModifyMetadata(m)
       \/ ForgetMemory(m) \/ ForgetQuietly(m)
       \/ RecoverMemory(m)
       \/ \E c \in Contents :
            \/ Remember(m, c) \/ InsertFact(m, c)
            \/ \E vector \in BOOLEAN : ModifyMemory(m, c, vector)
  \/ TrackerQuery \/ \E a \in SetToAllKPermutations(batch) : TrackerWrite(a)
  \/ \E ms \in SUBSET {m \in Mem : Unembedded(m)} : RepairQuery(ms)
  \/ \E a \in SetToAllKPermutations(repair) : RepairWrite(a)
  \/ CleanOrphanedEmbeddings \/ ResyncVectorIndex
  \/ PurgeEmbeddings \/ PurgeTombstones \/ Elapse \/ Crash

Spec == Init /\ [][Next]_vars

\* The tracker cycles while the daemon runs, and the provider, asked again and
\* again, at some time answers for a whole batch.
Fairness ==
  /\ WF_vars(PurgeTombstones)
  /\ SF_vars(TrackerQuery)
  /\ SF_vars(\E a \in SetToSeqs(batch) : TrackerWrite(a))

FairSpec == Spec /\ Fairness

(***************************************************************************)
(* Properties                                                               *)
(***************************************************************************)

TypeOK ==
  /\ scoped \subseteq Mem
  /\ row \in [Mem -> [state : {"absent", "live", "deleted", "purged"},
                      content : Contents \cup {None},
                      version : 0 .. MaxEdits + 1,
                      age : 0 .. TombstoneRetention + 1]]
  /\ newer \subseteq Mem \X Mem
  /\ emb \in [Keys -> [src : Mem, vec : BOOLEAN] \cup {None}]
  /\ asked \in [Mem -> Keys \cup {None}]
  /\ batch \subseteq Mem \X Keys /\ repair \subseteq Mem \X Keys
  /\ sweeping \in BOOLEAN
  /\ edits \in 0 .. MaxEdits

\* Two live memories of one scope never have the same content, however
\* remembered, edited, forgotten and recovered.
UniqueLive ==
  \A m, n \in Mem : m # n /\ Live(m) /\ Live(n) /\ SameScope(m, n)
                      => row[m].content # row[n].content

\* A version names one content for good, also across quiet deletes and a
\* recovery: an edit that passes the if_version check edits what its client read.
VersionNamesContent ==
  [][\A m \in Mem : row[m].state \in {"live", "deleted"} =>
       \/ row'[m].state = "purged"
       \/ row'[m].version > row[m].version
       \/ /\ row'[m].version = row[m].version
          /\ row'[m].content = row[m].content]_vars

\* No embedding outlives the row of its memory, also when the daemon dies
\* between the transactions of a sweep.
NoEmbeddingOfPurged ==
  \A k \in Keys : emb[k] # None => row[emb[k].src].state # "purged"

\* A row of another hash: the tracker takes its vector and leaves the row, so
\* the memory stays stale for good.
StaleForGood(m) == Live(m) /\ RowsOfSource(emb, m) \ {Key(m)} # {}

\* As many as fill a batch come before m in every cycle.
Starved(m) ==
  Cardinality({n \in Mem : StaleForGood(n) /\ <<n, m>> \in newer}) >= BatchSize

\* What the tracker is for: again and again, every live memory has a row for
\* the content it has by then, whatever was edited, recovered, purged or lost
\* while vectors were awaited; except one starved by memories that changed
\* later and that no cycle ever settles.
KeepsEmbedded ==
  []<>(\A m \in Mem : Live(m) => emb[Key(m)] # None \/ Starved(m))
=============================================================================
