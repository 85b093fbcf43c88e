------------------------- MODULE DocumentIngestProofs -------------------------
(***************************************************************************)
(* Proofs about document ingest for any documents, texts, bounds and number *)
(* of attempts in flight: typing, what an attempt has indexed so far, and   *)
(* that a document in progress has a job; and that its chunks hold all of   *)
(* its text.                                                                *)
(***************************************************************************)
EXTENDS DocumentIngest, Chunking, TLAPS

\* How a status is written, and the names of sets of stages and statuses.
USE DEF SetStatus, SetIngesting, standing, Stretches, InProgress

\* Next, by who acts.
Requests(d) ==
  \/ \E text \in Texts \cup {NoText} :
       SubmitDocument(d, text) \/ UpdateDocument(d, text)
  \/ EnqueueDocumentIngestJob(d) \/ EnqueueFails(d)
  \/ DeleteDocument(d)
  \/ \E removed \in SUBSET indexed[d] : DeleteFails(d, removed)

AttemptNext(s) ==
  \/ \E j \in Jobs : LeaseDocumentJob(s, j)
  \/ SkipDone(s) \/ BeginIngest(s)
  \/ \E text \in Texts \cup {NoText} : FetchUrlContent(s, text)
  \/ IndexChunk(s) \/ SetIndexing(s) \/ CompleteDocument(s)
  \/ FailIngest(s) \/ LoseIngest(s)

\* The jobs by themselves, and the daemon.
JobsNext ==
  \/ \E j \in Jobs : Elapse(j)
  \/ RecoverStaleLeases \/ RequeueDeadJobs \/ PurgeJobs
  \/ StartPipeline \/ StopPipeline \/ Crash

LEMMA NextByActor ==
  ASSUME [Next]_vars
  PROVE  \/ UNCHANGED vars
         \/ \E d \in Docs : Requests(d)
         \/ \E s \in Slots : AttemptNext(s)
         \/ JobsNext
BY DEF Next, Requests, AttemptNext, JobsNext

(***************************************************************************)
(* Rows, texts and typing                                                   *)
(***************************************************************************)

LEMMA RowsTyped ==
  ASSUME NEW row \in Row, NEW n \in Nat
  PROVE  /\ NoRow \in Row /\ PendingRow(n) \in Row
         /\ Lease(row) \in Row /\ CompleteJob(row) \in Row
         /\ FailJob(row, n) \in Row /\ RecoverStaleLease(row) \in Row
         /\ RequeueDeadJob(row) \in Row /\ RecoverMemoryJob(row) \in Row
         /\ LeaseAges(row) \in Row /\ RetentionEnds(row) \in Row
<1>1. NoRow \in Row /\ PendingRow(n) \in Row
  BY DEF NoRow, PendingRow, Row
<1>2. Lease(row) \in Row
  <2>1. row.attempts + 1 \in Nat
    BY DEF Row
  <2>. QED BY <2>1 DEF Lease, Row
<1>3. CompleteJob(row) \in Row /\ FailJob(row, n) \in Row
  BY DEF CompleteJob, FailJob, Row
<1>4. RecoverStaleLease(row) \in Row
  BY DEF RecoverStaleLease, LeaseExpired, DeadLetter, Row
<1>5. RequeueDeadJob(row) \in Row /\ RecoverMemoryJob(row) \in Row
  BY DEF RequeueDeadJob, RecoverMemoryJob, Exhausted, Row
<1>6. LeaseAges(row) \in Row /\ RetentionEnds(row) \in Row
  BY DEF LeaseAges, RetentionEnds, Row
<1>. QED BY <1>1, <1>2, <1>3, <1>4, <1>5, <1>6

\* A row that is pending, leased or dead can still be worked on.
Workable(row) == row.status \in {"pending", "leased", "dead"}

LEMMA RowsWorkable ==
  ASSUME NEW row \in Row, NEW n \in Nat
  PROVE  /\ Workable(PendingRow(n))
         /\ Lease(row).status = "leased"
         /\ Workable(row) => Workable(FailJob(row, n))
         /\ row.status = "leased" => Workable(row)
         /\ Workable(RecoverStaleLease(row)) <=> Workable(row)
         /\ row.status = "dead" => Workable(RequeueDeadJob(row))
         /\ Workable(RecoverMemoryJob(row)) <=> Workable(row)
         /\ LeaseAges(row).status = row.status
         /\ RetentionEnds(row).status = row.status
<1>1. Workable(PendingRow(n)) /\ Lease(row).status = "leased"
  BY DEF Workable, PendingRow, NoRow, Lease, Row
<1>2. Workable(row) => Workable(FailJob(row, n))
  BY DEF Workable, FailJob, Row
<1>3. row.status = "leased" => Workable(row)
  BY DEF Workable
<1>4. Workable(RecoverStaleLease(row)) <=> Workable(row)
  BY DEF Workable, RecoverStaleLease, LeaseExpired, DeadLetter, Row
<1>5. row.status = "dead" => Workable(RequeueDeadJob(row))
  BY DEF Workable, RequeueDeadJob, Row
<1>6. Workable(RecoverMemoryJob(row)) <=> Workable(row)
  BY DEF Workable, RecoverMemoryJob, Exhausted, Row
<1>7. LeaseAges(row).status = row.status /\ RetentionEnds(row).status = row.status
  BY DEF LeaseAges, RetentionEnds, Row
<1>. QED BY <1>1, <1>2, <1>3, <1>4, <1>5, <1>6, <1>7

LEMMA JobsOfDocs ==
  ASSUME NEW j \in Jobs
  PROVE  DocOf(j) \in Docs
BY DEF Jobs, DocOf

\* An attempt in flight has the fields of one, and a document.
LEMMA AttemptFields ==
  ASSUME TypeOK, NEW s \in Slots
  PROVE  /\ Running(s) => attempt[s] \in AttemptType /\ Doc(s) \in Docs
         /\ attempt[s].stage # "idle" => Running(s)
         /\ ~Running(s) => attempt[s].stage = "idle"
<1>1. attempt[s] \in AttemptType \/ attempt[s] = Idle
  BY DEF TypeOK
<1>2. attempt[s] \in AttemptType => attempt[s].job \in Jobs
  BY DEF AttemptType
<1>. QED BY <1>1, <1>2, JobsOfDocs DEF Running, Idle, Doc

LEMMA TypeInit == Init => TypeOK
<1>1. NoRow \in Row
  BY DEF NoRow, Row
<1>. QED BY <1>1 DEF Init, TypeOK, Idle

LEMMA TypeRequests ==
  ASSUME TypeOK, NEW d \in Docs, Requests(d)
  PROVE  TypeOK'
<1>. USE DEF TypeOK, history, counters
<1>1. ASSUME NEW text \in Texts \cup {NoText},
             SubmitDocument(d, text) \/ UpdateDocument(d, text)
      PROVE  TypeOK'
  BY <1>1 DEF SubmitDocument, UpdateDocument
<1>2. CASE EnqueueDocumentIngestJob(d)
  <2>0. NoRow \in Row /\ clock \in Nat /\ clock + 1 \in Nat
    BY DEF NoRow, Row
  <2>1. job' \in [Jobs -> Row] /\ clock' \in Nat
    BY <1>2, <2>0, RowsTyped DEF EnqueueDocumentIngestJob, RowsOf
  <2>. QED BY <1>2, <2>1 DEF EnqueueDocumentIngestJob
<1>3. CASE EnqueueFails(d)
  BY <1>3 DEF EnqueueFails
<1>4. ASSUME attempt' = CutAttempts(d)
      PROVE  attempt' \in [Slots -> AttemptType \cup {Idle}]
  <2>1. \A s \in Slots : Running(s) =>
          [attempt[s] EXCEPT !.cut = TRUE] \in AttemptType
    BY AttemptFields DEF AttemptType
  <2>. QED BY <1>4, <2>1 DEF CutAttempts
<1>5. CASE DeleteDocument(d)
  BY <1>5, <1>4 DEF DeleteDocument
<1>6. ASSUME NEW removed \in SUBSET indexed[d], DeleteFails(d, removed)
      PROVE  TypeOK'
  BY <1>6, <1>4 DEF DeleteFails
<1>. QED BY <1>1, <1>2, <1>3, <1>5, <1>6 DEF Requests

LEMMA FailedLease ==
  ASSUME TypeOK, NEW s \in Slots, Running(s), FailLease(s)
  PROVE  job' \in [Jobs -> Row]
<1>1. attempt[s].job \in Jobs /\ attempt[s].attempts \in Nat
  BY AttemptFields DEF AttemptType
<1>. QED BY <1>1, RowsTyped DEF TypeOK, FailLease

LEMMA IndexTyped ==
  ASSUME TypeOK, NEW s \in Slots, Running(s),
         NEW text \in Texts \cup {NoText}, Index(s, text)
  PROVE  /\ status' \in [Docs -> {"absent", "queued", "ingesting", "done",
                                  "failed", "deleted"}]
         /\ job' \in [Jobs -> Row]
         /\ attempt' \in [Slots -> AttemptType \cup {Idle}]
         /\ reopened' \in SUBSET Docs
<1>0. attempt[s] \in AttemptType /\ Doc(s) \in Docs
  BY AttemptFields
<1>1. CASE text = NoText
  BY <1>0, <1>1, FailedLease DEF TypeOK, Index, EndAttempt
<1>2. CASE text # NoText
  <2>1. text \in Texts /\ text \in Seq(Chunks)
    BY <1>2, IngestAssumption
  <2>2. [attempt[s] EXCEPT
           !.stage = IF text = <<>> THEN "indexed" ELSE "embedding",
           !.whole = text, !.rest = text] \in AttemptType
    BY <1>0, <2>1 DEF AttemptType
  <2>. QED BY <1>0, <1>2, <2>2 DEF TypeOK, Index
<1>. QED BY <1>1, <1>2

\* What an attempt holds at each stage.
StagesOK ==
  \A s \in Slots : Running(s) =>
    /\ attempt[s].stage = "embedding" => attempt[s].rest # <<>>
    /\ attempt[s].stage \in {"indexed", "finishing"} => attempt[s].rest = <<>>

LEMMA TypeAttempts ==
  ASSUME TypeOK, StagesOK, NEW s \in Slots, AttemptNext(s)
  PROVE  TypeOK'
<1>. USE DEF TypeOK, history, counters
<1>0. attempt[s].stage # "idle" => attempt[s] \in AttemptType /\ Doc(s) \in Docs
                                   /\ attempt[s].job \in Jobs /\ Running(s)
  BY AttemptFields DEF AttemptType
<1>1. ASSUME NEW j \in Jobs, LeaseDocumentJob(s, j) PROVE TypeOK'
  <2>1. job[j].attempts + 1 \in Nat
    BY DEF Row
  <2>2. Attempt("leased", j, job[j].attempts + 1, NoText, <<>>, FALSE)
          \in AttemptType
    BY <2>1 DEF Attempt, AttemptType
  <2>3. job' \in [Jobs -> Row]
    BY <1>1, RowsTyped DEF LeaseDocumentJob
  <2>. QED BY <1>1, <2>2, <2>3 DEF LeaseDocumentJob
<1>2. CASE SkipDone(s)
  <2>1. job' \in [Jobs -> Row]
    BY <1>0, <1>2, RowsTyped DEF SkipDone
  <2>. QED BY <1>0, <1>2, <2>1 DEF SkipDone, EndAttempt, Rest
<1>3. CASE BeginIngest(s)
  <2>0. attempt[s].stage # "idle"
    BY <1>3 DEF BeginIngest
  <2>1. CASE Doc(s) \in UrlDocs
    <3>1. [attempt[s] EXCEPT !.stage = "fetching"] \in AttemptType
      BY <1>0, <2>0 DEF AttemptType
    <3>. QED BY <1>0, <1>3, <2>0, <2>1, <3>1 DEF BeginIngest, Rest
  <2>2. CASE Doc(s) \notin UrlDocs
    <3>1. Index(s, content[Doc(s)]) /\ content[Doc(s)] \in Texts \cup {NoText}
      BY <1>0, <1>3, <2>0, <2>2 DEF BeginIngest
    <3>2. /\ status' \in [Docs -> {"absent", "queued", "ingesting", "done",
                                   "failed", "deleted"}]
          /\ job' \in [Jobs -> Row]
          /\ attempt' \in [Slots -> AttemptType \cup {Idle}]
          /\ reopened' \in SUBSET Docs
      BY <1>0, <2>0, <3>1, IndexTyped
    <3>. QED BY <1>3, <3>2 DEF BeginIngest, Rest
  <2>. QED BY <2>1, <2>2
<1>4. ASSUME NEW text \in Texts \cup {NoText}, FetchUrlContent(s, text)
      PROVE  TypeOK'
  <2>1. attempt[s].stage # "idle" /\ Index(s, text)
    BY <1>4 DEF FetchUrlContent
  <2>2. /\ status' \in [Docs -> {"absent", "queued", "ingesting", "done",
                                 "failed", "deleted"}]
        /\ job' \in [Jobs -> Row]
        /\ attempt' \in [Slots -> AttemptType \cup {Idle}]
        /\ reopened' \in SUBSET Docs
    BY <1>0, <2>1, IndexTyped
  <2>. QED BY <1>4, <2>2 DEF FetchUrlContent, Rest
<1>5. CASE IndexChunk(s)
  <2>0. attempt[s].stage = "embedding" /\ attempt[s] \in AttemptType
    BY <1>0, <1>5 DEF IndexChunk
  <2>1. attempt[s].rest \in Seq(Chunks) /\ attempt[s].rest # <<>>
    BY <1>0, <2>0 DEF AttemptType, StagesOK
  <2>2. Head(attempt[s].rest) \in Chunks /\ Tail(attempt[s].rest) \in Seq(Chunks)
    BY <2>1
  <2>3. [attempt[s] EXCEPT
           !.rest = Tail(@),
           !.stage = IF Tail(attempt[s].rest) = <<>> THEN "indexed" ELSE @]
          \in AttemptType
    BY <2>0, <2>2 DEF AttemptType
  <2>. QED BY <1>0, <1>5, <2>0, <2>2, <2>3 DEF IndexChunk, Rest
<1>6. CASE CompleteDocument(s)
  <2>1. job' \in [Jobs -> Row]
    BY <1>0, <1>6, RowsTyped DEF CompleteDocument
  <2>2. attempt[s].whole \in Texts \cup {NoText} /\ attempt[s].cut \in BOOLEAN
    BY <1>0, <1>6 DEF CompleteDocument, AttemptType
  <2>. QED BY <1>0, <1>6, <2>1, <2>2 DEF CompleteDocument, EndAttempt, Rest
<1>7. CASE FailIngest(s)
  <2>1. Running(s) /\ FailLease(s)
    BY <1>7 DEF FailIngest, Throws
  <2>2. job' \in [Jobs -> Row]
    BY <2>1, FailedLease
  <2>. QED BY <1>7, <2>2 DEF FailIngest, EndAttempt, Rest
<1>8. CASE LoseIngest(s)
  BY <1>8 DEF LoseIngest, EndAttempt
<1>9. CASE SetIndexing(s)
  <2>0. attempt[s].stage # "idle"
    BY <1>9 DEF SetIndexing
  <2>1. [attempt[s] EXCEPT !.stage = "finishing"] \in AttemptType
    BY <1>0, <2>0 DEF AttemptType
  <2>. QED BY <1>0, <1>9, <2>0, <2>1 DEF SetIndexing, Rest
<1>. QED BY <1>1, <1>2, <1>3, <1>4, <1>5, <1>6, <1>7, <1>8, <1>9
          DEF AttemptNext

LEMMA TypeJobs ==
  ASSUME TypeOK, JobsNext
  PROVE  TypeOK'
<1>. USE DEF TypeOK, history, counters
<1>0. \A j \in Jobs : job[j] \in Row
  OBVIOUS
<1>1. ASSUME NEW j \in Jobs, Elapse(j) PROVE TypeOK'
  <2>1. job' \in [Jobs -> Row]
    BY <1>0, <1>1, RowsTyped DEF Elapse
  <2>. QED BY <1>1, <2>1 DEF Elapse
<1>2. CASE RecoverStaleLeases
  <2>1. job' \in [Jobs -> Row]
    BY <1>0, <1>2, RowsTyped DEF RecoverStaleLeases
  <2>. QED BY <1>2, <2>1 DEF RecoverStaleLeases
<1>3. CASE RequeueDeadJobs
  <2>1. job' \in [Jobs -> Row]
    BY <1>0, <1>3, RowsTyped DEF RequeueDeadJobs
  <2>. QED BY <1>3, <2>1 DEF RequeueDeadJobs
<1>4. CASE PurgeJobs
  <2>1. job' \in [Jobs -> Row]
    BY <1>0, <1>4, RowsTyped DEF PurgeJobs
  <2>2. forsaken' \subseteq Docs
    BY <1>4, JobsOfDocs DEF PurgeJobs
  <2>. QED BY <1>4, <2>1, <2>2 DEF PurgeJobs
<1>5. CASE StartPipeline
  <2>1. job' \in [Jobs -> Row]
    BY <1>0, <1>5, RowsTyped DEF StartPipeline
  <2>. QED BY <1>5, <2>1 DEF StartPipeline
<1>6. CASE StopPipeline
  BY <1>6 DEF StopPipeline
<1>7. CASE Crash
  BY <1>7 DEF Crash
<1>. QED BY <1>1, <1>2, <1>3, <1>4, <1>5, <1>6, <1>7 DEF JobsNext


(***************************************************************************)
(* What attempts hold and have indexed                                      *)
(***************************************************************************)

\* The stages in which an attempt holds a text.
Reading == {"embedding", "indexed", "finishing"}

\* The rest of an attempt is the end of the text it read, and what is before
\* it has been indexed, unless a DELETE cut into it.
Passed(s) ==
  LET a == attempt[s]
      n == Len(a.whole) - Len(a.rest)
  IN  a.stage \in Reading =>
        /\ a.whole \in Texts /\ n \in Nat
        /\ \A i \in 1 .. Len(a.rest) : a.rest[i] = a.whole[n + i]
        /\ ~a.cut => \A i \in 1 .. n : a.whole[i] \in indexed[Doc(s)]

PassedInv == \A s \in Slots : Passed(s)

\* The ways in which an attempt goes on.
Begun(s, a) ==
  /\ a.stage \in {"leased", "fetching"}
  /\ UNCHANGED indexed

Indexing(s, a) ==
  /\ Running(s) /\ a.job = attempt[s].job
  /\ a.whole \in Texts /\ a.rest = a.whole
  /\ a.stage = IF a.rest = <<>> THEN "indexed" ELSE "embedding"
  /\ UNCHANGED indexed

Finishing(s, a) ==
  /\ Running(s) /\ attempt[s] \in AttemptType /\ attempt[s].stage = "indexed"
  /\ a = [attempt[s] EXCEPT !.stage = "finishing"]
  /\ UNCHANGED indexed

LEMMA IndexSteps ==
  ASSUME TypeOK, NEW s \in Slots, Running(s),
         NEW text \in Texts \cup {NoText}, Index(s, text), UNCHANGED indexed
  PROVE  \E a : /\ attempt' = [attempt EXCEPT ![s] = a]
                /\ a = Idle \/ Indexing(s, a)
<1>0. attempt[s] \in AttemptType
  BY AttemptFields
<1>1. CASE text = NoText
  BY <1>1 DEF Index, EndAttempt
<1>2. CASE text # NoText
  <2> DEFINE a == [attempt[s] EXCEPT
           !.stage = IF text = <<>> THEN "indexed" ELSE "embedding",
           !.whole = text, !.rest = text]
  <2>1. attempt' = [attempt EXCEPT ![s] = a]
    BY <1>2 DEF Index
  <2>2. Indexing(s, a)
    BY <1>0, <1>2 DEF Indexing, AttemptType
  <2>. QED BY <2>1, <2>2
<1>. QED BY <1>1, <1>2

LEMMA AttemptSteps ==
  ASSUME TypeOK, NEW s \in Slots, AttemptNext(s)
  PROVE  \/ IndexChunk(s)
         \/ \E a : /\ attempt' = [attempt EXCEPT ![s] = a]
                   /\ \/ a = Idle /\ UNCHANGED indexed
                      \/ Begun(s, a)
                      \/ Indexing(s, a)
                      \/ Finishing(s, a)
<1>0. attempt[s].stage # "idle" => attempt[s] \in AttemptType /\ Running(s)
                                   /\ Doc(s) \in Docs
  BY AttemptFields
<1>1. ASSUME NEW j \in Jobs, LeaseDocumentJob(s, j)
      PROVE  \E a : /\ attempt' = [attempt EXCEPT ![s] = a]
                    /\ Begun(s, a)
  BY <1>1 DEF LeaseDocumentJob, Attempt, Begun
<1>2. CASE SkipDone(s) \/ CompleteDocument(s) \/ FailIngest(s) \/ LoseIngest(s)
  BY <1>2 DEF SkipDone, CompleteDocument, FailIngest, LoseIngest, EndAttempt, Rest
<1>3. CASE BeginIngest(s)
  <2>0. Running(s) /\ attempt[s] \in AttemptType /\ UNCHANGED indexed
    BY <1>0, <1>3 DEF BeginIngest
  <2>1. CASE Doc(s) \in UrlDocs
    <3> DEFINE a == [attempt[s] EXCEPT !.stage = "fetching"]
    <3>1. attempt' = [attempt EXCEPT ![s] = a]
      BY <1>3, <2>1 DEF BeginIngest
    <3>2. Begun(s, a)
      BY <2>0, <2>1 DEF Begun, AttemptType, Doc
    <3>. QED BY <3>1, <3>2
  <2>2. CASE Doc(s) \notin UrlDocs
    <3>1. Index(s, content[Doc(s)]) /\ content[Doc(s)] \in Texts \cup {NoText}
      BY <1>0, <1>3, <2>2 DEF BeginIngest, TypeOK
    <3>. QED BY <2>0, <3>1, IndexSteps
  <2>. QED BY <2>1, <2>2
<1>4. ASSUME NEW text \in Texts \cup {NoText}, FetchUrlContent(s, text)
      PROVE  \E a : /\ attempt' = [attempt EXCEPT ![s] = a]
                    /\ (a = Idle /\ UNCHANGED indexed) \/ Indexing(s, a)
  <2>1. Running(s) /\ Index(s, text) /\ UNCHANGED indexed
    BY <1>0, <1>4 DEF FetchUrlContent
  <2>. QED BY <2>1, IndexSteps
<1>5. CASE SetIndexing(s)
  BY <1>0, <1>5 DEF SetIndexing, Finishing
<1>. QED BY <1>1, <1>2, <1>3, <1>4, <1>5 DEF AttemptNext

\* A step that indexes nothing keeps what every other attempt holds.
LEMMA OthersKeep ==
  ASSUME PassedInv, StagesOK, TypeOK, NEW s \in Slots, NEW a,
         attempt' = [attempt EXCEPT ![s] = a],
         \A d \in Docs : indexed[d] \subseteq indexed'[d]
  PROVE  \A t \in Slots \ {s} :
           Passed(t)' /\ (Running(t)' => /\ Running(t)
                                         /\ attempt'[t] = attempt[t]
                                         /\ Doc(t)' = Doc(t))
<1> SUFFICES ASSUME NEW t \in Slots \ {s}
             PROVE  Passed(t)' /\ (Running(t)' => /\ Running(t)
                                                  /\ attempt'[t] = attempt[t]
                                                  /\ Doc(t)' = Doc(t))
  OBVIOUS
<1>1. attempt'[t] = attempt[t] /\ Doc(t)' = Doc(t)
  BY DEF TypeOK, Doc
<1>2. Passed(t)
  BY DEF PassedInv
<1>3. attempt[t].stage \in Reading => Doc(t) \in Docs
  BY AttemptFields DEF Reading
<1>4. Passed(t)'
  BY <1>1, <1>2, <1>3 DEF Passed
<1>. QED BY <1>1, <1>4 DEF Running

LEMMA TailOfSuffix ==
  ASSUME NEW whole \in Seq(Chunks), NEW rest \in Seq(Chunks), NEW n \in Nat,
         rest # <<>>, n = Len(whole) - Len(rest),
         \A i \in 1 .. Len(rest) : rest[i] = whole[n + i]
  PROVE  /\ Tail(rest) \in Seq(Chunks) /\ Len(whole) - Len(Tail(rest)) = n + 1
         /\ whole[n + 1] = Head(rest)
         /\ \A i \in 1 .. Len(Tail(rest)) : Tail(rest)[i] = whole[n + 1 + i]
<1>1. Len(rest) \in Nat /\ Len(rest) >= 1 /\ Len(whole) \in Nat
  OBVIOUS
<1>2. /\ Tail(rest) \in Seq(Chunks) /\ Len(Tail(rest)) = Len(rest) - 1
      /\ \A i \in 1 .. Len(rest) - 1 : Tail(rest)[i] = rest[i + 1]
      /\ Head(rest) = rest[1]
  OBVIOUS
<1>3. whole[n + 1] = Head(rest)
  BY <1>1, <1>2
<1>4. ASSUME NEW i \in 1 .. Len(rest) - 1
      PROVE  Tail(rest)[i] = whole[n + 1 + i]
  <2>1. i + 1 \in 1 .. Len(rest)
    BY <1>1
  <2>2. rest[i + 1] = whole[n + (i + 1)]
    BY <2>1
  <2>3. n + (i + 1) = n + 1 + i
    BY <1>1
  <2>. QED BY <1>2, <2>2, <2>3
<1>5. Len(whole) - Len(Tail(rest)) = n + 1
  BY <1>1, <1>2
<1>. QED BY <1>2, <1>3, <1>4, <1>5

LEMMA OneMore ==
  ASSUME NEW n \in Nat, NEW i \in 1 .. n + 1
  PROVE  i \in 1 .. n \/ i = n + 1
OBVIOUS

LEMMA ChunkStep ==
  ASSUME TypeOK, StagesOK, PassedInv, NEW s \in Slots, IndexChunk(s)
  PROVE  /\ StagesOK' /\ PassedInv'
         /\ \A d \in Docs : indexed[d] \subseteq indexed'[d]
<1> DEFINE a == attempt[s]
           rest == Tail(a.rest)
           n == Len(a.whole) - Len(a.rest)
           b == [a EXCEPT !.rest = Tail(@),
                          !.stage = IF rest = <<>> THEN "indexed" ELSE @]
<1>0. /\ a \in AttemptType /\ Doc(s) \in Docs /\ a.stage = "embedding"
      /\ Running(s)
  BY AttemptFields DEF IndexChunk
<1>1. /\ a.rest \in Seq(Chunks) /\ a.rest # <<>>
      /\ a.whole \in Texts /\ a.whole \in Seq(Chunks)
      /\ n \in Nat
      /\ \A i \in 1 .. Len(a.rest) : a.rest[i] = a.whole[n + i]
      /\ ~a.cut => \A i \in 1 .. n : a.whole[i] \in indexed[Doc(s)]
  BY <1>0, IngestAssumption DEF AttemptType, StagesOK, PassedInv, Passed, Reading
<1>2. /\ rest \in Seq(Chunks) /\ Len(a.whole) - Len(rest) = n + 1
      /\ a.whole[n + 1] = Head(a.rest)
      /\ \A i \in 1 .. Len(rest) : rest[i] = a.whole[n + 1 + i]
  BY <1>1, TailOfSuffix
<1>3. /\ attempt' = [attempt EXCEPT ![s] = b]
      /\ indexed' = [indexed EXCEPT ![Doc(s)] = @ \cup {Head(a.rest)}]
  BY DEF IndexChunk
<1>4. \A d \in Docs : indexed[d] \subseteq indexed'[d]
  BY <1>3 DEF TypeOK
<1>5. /\ attempt'[s] = b /\ b.rest = rest /\ b.whole = a.whole
      /\ b.cut = a.cut /\ b.job = a.job /\ b.stage \in {"embedding", "indexed"}
      /\ b.stage = IF rest = <<>> THEN "indexed" ELSE "embedding"
      /\ Doc(s)' = Doc(s)
  BY <1>0, <1>3 DEF TypeOK, AttemptType, Doc
<1> HIDE DEF rest, b
<1>6. ~a.cut => \A i \in 1 .. n + 1 : a.whole[i] \in indexed'[Doc(s)]
  <2> SUFFICES ASSUME ~a.cut, NEW i \in 1 .. n + 1
               PROVE  a.whole[i] \in indexed'[Doc(s)]
    OBVIOUS
  <2>1. indexed'[Doc(s)] = indexed[Doc(s)] \cup {Head(a.rest)}
    BY <1>0, <1>3 DEF TypeOK
  <2>2. i \in 1 .. n \/ i = n + 1
    BY <1>1, OneMore
  <2>. QED BY <1>1, <1>2, <2>1, <2>2
<1>7. Passed(s)'
  <2>1. n + 1 \in Nat
    BY <1>1
  <2>. QED BY <1>1, <1>2, <1>5, <1>6, <2>1 DEF Passed, Reading
<1>8. PassedInv'
  BY <1>3, <1>4, <1>7, OthersKeep DEF PassedInv
<1>9. StagesOK'
  <2>1. \A t \in Slots \ {s} : Running(t)' => /\ Running(t)
                                              /\ attempt'[t] = attempt[t]
                                              /\ Doc(t)' = Doc(t)
    BY <1>3, <1>4, OthersKeep
  <2>2. ASSUME NEW t \in Slots, Running(t)'
        PROVE  /\ attempt'[t].stage = "embedding" => attempt'[t].rest # <<>>
               /\ attempt'[t].stage \in {"indexed", "finishing"} =>
                    attempt'[t].rest = <<>>
    <3>1. CASE t = s
      BY <1>5, <3>1
    <3>2. CASE t # s
      BY <2>1, <2>2, <3>2 DEF StagesOK
    <3>. QED BY <3>1, <3>2
  <2>. QED BY <2>2 DEF StagesOK
<1>. QED BY <1>4, <1>8, <1>9

\* DELETE takes chunks of one document away and marks its attempts.
LEMMA CutStep ==
  ASSUME TypeOK, StagesOK, PassedInv, NEW d \in Docs,
         attempt' = CutAttempts(d), \A e \in Docs \ {d} : indexed'[e] = indexed[e]
  PROVE  StagesOK' /\ PassedInv'
<1> SUFFICES ASSUME NEW s \in Slots
             PROVE  /\ Passed(s)'
                    /\ Running(s)' =>
                         /\ attempt'[s].stage = "embedding" => attempt'[s].rest # <<>>
                         /\ attempt'[s].stage \in {"indexed", "finishing"} =>
                              attempt'[s].rest = <<>>
  BY DEF StagesOK, PassedInv
<1>0. Passed(s)
  BY DEF PassedInv
<1>1. CASE Running(s) /\ Doc(s) = d
  <2>1. attempt[s] \in AttemptType
    BY <1>1, AttemptFields
  <2>2. /\ attempt'[s].cut /\ attempt'[s].stage = attempt[s].stage
        /\ attempt'[s].whole = attempt[s].whole
        /\ attempt'[s].rest = attempt[s].rest /\ Doc(s)' = Doc(s)
    BY <1>1, <2>1 DEF CutAttempts, AttemptType, Doc
  <2>3. Passed(s)'
    BY <1>0, <2>2 DEF Passed
  <2>. QED BY <1>1, <2>2, <2>3 DEF StagesOK
<1>2. CASE ~(Running(s) /\ Doc(s) = d)
  <2>1. attempt'[s] = attempt[s] /\ Doc(s)' = Doc(s)
    BY <1>2 DEF CutAttempts, Doc
  <2>2. Running(s) => indexed'[Doc(s)] = indexed[Doc(s)]
    BY <1>2, AttemptFields
  <2>3. attempt[s].stage \in Reading => Running(s)
    BY AttemptFields DEF Reading
  <2>4. Passed(s)'
    BY <1>0, <2>1, <2>2, <2>3 DEF Passed
  <2>. QED BY <2>1, <2>4 DEF StagesOK, Running
<1>. QED BY <1>1, <1>2

LEMMA AttemptsKeep ==
  ASSUME TypeOK, StagesOK, PassedInv, NEW s \in Slots, AttemptNext(s)
  PROVE  /\ StagesOK' /\ PassedInv'
         /\ \A d \in Docs : indexed[d] \subseteq indexed'[d]
<1>1. CASE IndexChunk(s)
  BY <1>1, ChunkStep
<1>2. ASSUME NEW a, attempt' = [attempt EXCEPT ![s] = a],
             \/ a = Idle /\ UNCHANGED indexed
             \/ Begun(s, a)
             \/ Indexing(s, a)
             \/ Finishing(s, a)
      PROVE  /\ StagesOK' /\ PassedInv'
             /\ \A d \in Docs : indexed[d] \subseteq indexed'[d]
  <2>1. UNCHANGED indexed
    BY <1>2 DEF Begun, Indexing, Finishing
  <2>2. attempt'[s] = a /\ Doc(s)' = DocOf(a.job)
    BY <1>2 DEF TypeOK, Doc
  <2>3. \A t \in Slots \ {s} :
           Passed(t)' /\ (Running(t)' => /\ Running(t)
                                         /\ attempt'[t] = attempt[t]
                                         /\ Doc(t)' = Doc(t))
    BY <1>2, <2>1, OthersKeep
  <2>4. Running(s)' => \/ Begun(s, a)
                       \/ Indexing(s, a)
                       \/ Finishing(s, a)
    BY <1>2, <2>2 DEF Running
  <2>5. StagesOK'
    <3>1. Running(s)' =>
            /\ a.stage = "embedding" => a.rest # <<>>
            /\ a.stage \in {"indexed", "finishing"} => a.rest = <<>>
      BY <2>4 DEF Begun, Indexing, Finishing, StagesOK, AttemptType
    <3>. QED BY <2>2, <2>3, <3>1 DEF StagesOK
  <2>6. Passed(s)'
    <3>1. CASE a = Idle \/ Begun(s, a)
      BY <2>2, <3>1 DEF Passed, Reading, Idle, Begun
    <3>2. CASE Indexing(s, a)
      <4>1. a.whole \in Texts /\ a.rest = a.whole /\ Len(a.whole) \in Nat
        BY <3>2, IngestAssumption DEF Indexing
      <4>2. Len(a.whole) - Len(a.rest) = 0
        BY <4>1
      <4>. QED BY <2>2, <4>1, <4>2 DEF Passed
    <3>3. CASE Finishing(s, a)
      <4>1. /\ a.stage = "finishing" /\ a.whole = attempt[s].whole
            /\ a.rest = attempt[s].rest /\ a.cut = attempt[s].cut
            /\ Doc(s)' = Doc(s)
        BY <2>2, <3>3 DEF Finishing, AttemptType, Doc
      <4>2. attempt[s].stage \in Reading /\ Passed(s)
        BY <3>3 DEF Finishing, Reading, PassedInv
      <4>. QED BY <2>1, <2>2, <4>1, <4>2 DEF Passed
    <3>. QED BY <1>2, <3>1, <3>2, <3>3
  <2>. QED BY <2>1, <2>3, <2>5, <2>6 DEF PassedInv
<1>. QED BY <1>1, <1>2, AttemptSteps

AttemptInv == TypeOK /\ StagesOK /\ PassedInv

LEMMA AttemptInit == Init => AttemptInv
<1>. SUFFICES ASSUME Init PROVE AttemptInv
  OBVIOUS
<1>1. \A s \in Slots : attempt[s] = Idle
  BY DEF Init
<1>2. StagesOK
  BY <1>1 DEF StagesOK, Running
<1>3. \A s \in Slots : attempt[s].stage = "idle"
  BY <1>1 DEF Idle
<1>4. PassedInv
  BY <1>3 DEF PassedInv, Passed, Reading
<1>. QED BY <1>2, <1>4, TypeInit DEF AttemptInv

LEMMA AttemptStep == AttemptInv /\ [Next]_vars => AttemptInv'
<1>. SUFFICES ASSUME AttemptInv, [Next]_vars PROVE AttemptInv'
  OBVIOUS
<1>. USE DEF AttemptInv
<1>0. ASSUME UNCHANGED <<attempt, indexed>>
      PROVE  StagesOK' /\ PassedInv'
  BY <1>0 DEF StagesOK, PassedInv, Passed, Running, Doc
<1>1. CASE UNCHANGED vars
  BY <1>0, <1>1 DEF vars, TypeOK, history, counters
<1>2. ASSUME NEW d \in Docs, Requests(d) PROVE AttemptInv'
  <2>1. \/ UNCHANGED <<attempt, indexed>>
        \/ /\ attempt' = CutAttempts(d)
           /\ \A e \in Docs \ {d} : indexed'[e] = indexed[e]
    BY <1>2 DEF Requests, SubmitDocument, UpdateDocument,
       EnqueueDocumentIngestJob, EnqueueFails, DeleteDocument, DeleteFails,
       TypeOK
  <2>. QED BY <1>0, <1>2, <2>1, CutStep, TypeRequests
<1>3. ASSUME NEW s \in Slots, AttemptNext(s) PROVE AttemptInv'
  BY <1>3, AttemptsKeep, TypeAttempts
<1>4. CASE JobsNext
  <2>1. CASE Crash
    <3>1. \A s \in Slots : attempt'[s] = Idle
      BY <2>1 DEF Crash
    <3>2. StagesOK'
      BY <3>1 DEF StagesOK, Running
    <3>3. \A s \in Slots : attempt'[s].stage = "idle"
      BY <3>1 DEF Idle
    <3>4. PassedInv'
      BY <3>3 DEF PassedInv, Passed, Reading
    <3>. QED BY <1>4, <3>2, <3>4, TypeJobs
  <2>2. CASE ~Crash
    <3>1. UNCHANGED <<attempt, indexed>>
      BY <1>4, <2>2 DEF JobsNext, Elapse, RecoverStaleLeases, RequeueDeadJobs,
         PurgeJobs, StartPipeline, StopPipeline
    <3>. QED BY <1>0, <1>4, <3>1, TypeJobs
  <2>. QED BY <2>1, <2>2
<1>. QED BY <1>1, <1>2, <1>3, <1>4, NextByActor

\* The variables of DocumentIngest keep their types.
THEOREM TypeCorrect == Spec => []TypeOK
BY AttemptInit, AttemptStep, PTL DEF Spec, AttemptInv

\* What an attempt has passed is linked to its document, however attempts of
\* one document overlap, unless a DELETE cut into it.
THEOREM PassedStaysIndexed == Spec => []PassedIsIndexed
<1>1. AttemptInv => PassedIsIndexed
  BY DEF AttemptInv, PassedInv, Passed, Reading, PassedIsIndexed
<1>. QED BY <1>1, AttemptInit, AttemptStep, PTL DEF Spec

(***************************************************************************)
(* Done means indexed                                                       *)
(***************************************************************************)

DoneInv == AttemptInv /\ DoneIsIndexed

LEMMA DoneStep ==
  ASSUME DoneInv, [Next]_vars
  PROVE  DoneIsIndexed'
<1>. USE DEF DoneInv, AttemptInv
<1>0. ASSUME UNCHANGED <<ingested, torn>>,
             \A d \in Docs : indexed[d] \subseteq indexed'[d],
             \A d \in Docs : status'[d] = "done" => status[d] = "done"
      PROVE  DoneIsIndexed'
  BY <1>0 DEF DoneIsIndexed
<1>1. CASE UNCHANGED vars
  BY <1>0, <1>1 DEF vars, history
<1>2. ASSUME NEW d \in Docs, Requests(d) PROVE DoneIsIndexed'
  <2>1. ASSUME NEW text \in Texts \cup {NoText},
               SubmitDocument(d, text) \/ UpdateDocument(d, text)
        PROVE  DoneIsIndexed'
    BY <1>0, <2>1 DEF SubmitDocument, UpdateDocument, TypeOK, history
  <2>2. CASE EnqueueDocumentIngestJob(d) \/ EnqueueFails(d)
    BY <1>0, <2>2 DEF EnqueueDocumentIngestJob, EnqueueFails
  <2>3. CASE DeleteDocument(d)
    BY <2>3 DEF DeleteDocument, DoneIsIndexed, TypeOK, history
  <2>4. ASSUME NEW removed \in SUBSET indexed[d], DeleteFails(d, removed)
        PROVE  DoneIsIndexed'
    BY <2>4 DEF DeleteFails, DoneIsIndexed, TypeOK
  <2>. QED BY <1>2, <2>1, <2>2, <2>3, <2>4 DEF Requests
<1>3. ASSUME NEW s \in Slots, AttemptNext(s) PROVE DoneIsIndexed'
  <2>1. \A d \in Docs : indexed[d] \subseteq indexed'[d]
    BY <1>3, AttemptsKeep
  <2>2. CASE CompleteDocument(s)
    <3> DEFINE a == attempt[s]
    <3>1. Running(s) /\ a \in AttemptType /\ a.stage = "finishing" /\ Doc(s) \in Docs
      BY <2>2, AttemptFields DEF CompleteDocument
    <3>2. a.rest = <<>> /\ a.whole \in Texts /\ a.whole \in Seq(Chunks)
      BY <3>1, IngestAssumption DEF StagesOK, PassedInv, Passed, Reading
    <3>3. Len(a.whole) - Len(a.rest) = Len(a.whole) /\ DOMAIN a.whole = 1 .. Len(a.whole)
      BY <3>2
    <3>4. ~a.cut => ChunksOf(a.whole) \subseteq indexed[Doc(s)]
      BY <3>1, <3>2, <3>3 DEF PassedInv, Passed, Reading, ChunksOf
    <3>5. /\ status' = [status EXCEPT ![Doc(s)] = "done"]
          /\ ingested' = [ingested EXCEPT ![Doc(s)] = a.whole]
          /\ torn' = [torn EXCEPT ![Doc(s)] = a.cut]
          /\ UNCHANGED indexed
      BY <2>2 DEF CompleteDocument
    <3>6. ASSUME NEW d \in Docs, status'[d] = "done", ~torn'[d]
          PROVE  ChunksOf(ingested'[d]) \subseteq indexed'[d]
      <4>1. CASE d = Doc(s)
        <5>1. ingested'[d] = a.whole /\ ~a.cut
          BY <3>5, <3>6, <4>1 DEF TypeOK
        <5>. QED BY <3>4, <3>5, <4>1, <5>1
      <4>2. CASE d # Doc(s)
        <5>1. status[d] = "done" /\ ~torn[d] /\ ingested'[d] = ingested[d]
          BY <3>5, <3>6, <4>2 DEF TypeOK
        <5>. QED BY <3>5, <5>1 DEF DoneIsIndexed
      <4>. QED BY <4>1, <4>2
    <3>. QED BY <3>6 DEF DoneIsIndexed
  <2>3. CASE ~CompleteDocument(s)
    <3>1. UNCHANGED <<ingested, torn>>
      BY <1>3, <2>3 DEF AttemptNext, LeaseDocumentJob, SkipDone, BeginIngest,
         FetchUrlContent, IndexChunk, SetIndexing, FailIngest, LoseIngest, Rest,
         history
    <3>2. \A d \in Docs : status'[d] = "done" => status[d] = "done"
      BY <1>3, <2>3 DEF AttemptNext, LeaseDocumentJob, SkipDone, BeginIngest,
         FetchUrlContent, IndexChunk, SetIndexing, FailIngest, LoseIngest, Index,
         TypeOK
    <3>. QED BY <1>0, <2>1, <3>1, <3>2
  <2>. QED BY <2>2, <2>3
<1>4. CASE JobsNext
  BY <1>0, <1>4 DEF JobsNext, Elapse, RecoverStaleLeases, RequeueDeadJobs,
     PurgeJobs, StartPipeline, StopPipeline, Crash, history
<1>. QED BY <1>1, <1>2, <1>3, <1>4, NextByActor

\* A document that reads as done has all chunks of the text it was completed
\* with, unless a DELETE cut into that attempt.
THEOREM DoneMeansIndexed == Spec => []DoneIsIndexed
<1>1. Init => DoneInv
  <2>1. Init => DoneIsIndexed
    BY DEF Init, DoneIsIndexed
  <2>. QED BY <2>1, AttemptInit DEF DoneInv
<1>2. DoneInv /\ [Next]_vars => DoneInv'
  BY AttemptStep, DoneStep DEF DoneInv
<1>. QED BY <1>1, <1>2, PTL DEF Spec, DoneInv

(***************************************************************************)
(* No document is lost                                                      *)
(***************************************************************************)

HasWork(d) == d \in submitting \/ \E j \in RowsOf(d) : Workable(job[j])

\* An attempt that has just taken its job still holds it: nothing else happens
\* in the stretch before its first await.
Stretch(s) == attempt[s].stage \in Stretches
LeaseHeld ==
  /\ \A s, t \in Slots : Stretch(s) /\ Stretch(t) => s = t
  /\ \A s \in Slots : attempt[s].stage = "leased" =>
       job[attempt[s].job].status = "leased"

\* Not inductive alone: that a document being ingested has a job comes from the
\* job that was leased for it.
WorkInv ==
  \A d \in Docs \ (reopened \cup forsaken) :
    status[d] \in InProgress => HasWork(d)

LEMMA WorkIsNotLost == WorkInv => NoLostDocument
BY DEF WorkInv, HasWork, Workable, NoLostDocument, Lost

\* Only the lease brings an attempt to the stretch that starts with it.
LEMMA NotLeasedAgain ==
  ASSUME TypeOK, NEW s \in Slots, AttemptNext(s),
         \A j \in Jobs : ~LeaseDocumentJob(s, j)
  PROVE  attempt'[s].stage # "leased"
<1>0. attempt[s].stage # "idle" => attempt[s] \in AttemptType
  BY AttemptFields
<1>1. ASSUME NEW text, Index(s, text), attempt[s].stage # "idle"
      PROVE  attempt'[s].stage # "leased"
  BY <1>0, <1>1 DEF Index, EndAttempt, Idle, TypeOK, AttemptType
<1>2. CASE SkipDone(s) \/ CompleteDocument(s) \/ FailIngest(s) \/ LoseIngest(s)
  BY <1>2 DEF SkipDone, CompleteDocument, FailIngest, LoseIngest, EndAttempt,
     Idle, TypeOK
<1>3. CASE BeginIngest(s)
  <2>1. attempt[s].stage = "leased" /\ attempt[s] \in AttemptType
    BY <1>0, <1>3 DEF BeginIngest
  <2>2. CASE Doc(s) \in UrlDocs
    BY <1>3, <2>1, <2>2 DEF BeginIngest, TypeOK, AttemptType
  <2>3. CASE Doc(s) \notin UrlDocs
    BY <1>1, <1>3, <2>1, <2>3 DEF BeginIngest
  <2>. QED BY <2>2, <2>3
<1>4. ASSUME NEW text \in Texts \cup {NoText}, FetchUrlContent(s, text)
      PROVE  attempt'[s].stage # "leased"
  BY <1>1, <1>4 DEF FetchUrlContent
<1>5. CASE IndexChunk(s) \/ SetIndexing(s)
  BY <1>0, <1>5 DEF IndexChunk, SetIndexing, TypeOK, AttemptType
<1>. QED BY <1>2, <1>3, <1>4, <1>5 DEF AttemptNext

LEMMA LeaseHeldStep ==
  ASSUME AttemptInv, LeaseHeld, [Next]_vars
  PROVE  LeaseHeld'
<1>. USE DEF AttemptInv
<1>0. ASSUME UNCHANGED attempt,
             \A j \in Jobs : job[j].status = "leased" => job'[j].status = "leased"
      PROVE  LeaseHeld'
  <2>1. \A s \in Slots : attempt[s].stage = "leased" => attempt[s].job \in Jobs
    BY AttemptFields DEF AttemptType
  <2>. QED BY <1>0, <2>1 DEF LeaseHeld, Stretch
<1>1. ASSUME \A s \in Slots : ~Stretch(s)'
      PROVE  LeaseHeld'
  BY <1>1 DEF LeaseHeld, Stretch
<1>2. CASE UNCHANGED vars
  BY <1>0, <1>2 DEF vars
<1>3. ASSUME NEW d \in Docs, Requests(d) PROVE LeaseHeld'
  <2>1. CASE EnqueueDocumentIngestJob(d) \/ EnqueueFails(d)
    <3>1. \A j \in Jobs : job[j].status = "leased" => job'[j].status = "leased"
      BY <2>1 DEF EnqueueDocumentIngestJob, EnqueueFails, RowsOf, TypeOK
    <3>. QED BY <1>0, <2>1, <3>1 DEF EnqueueDocumentIngestJob, EnqueueFails
  <2>2. CASE ~(EnqueueDocumentIngestJob(d) \/ EnqueueFails(d))
    <3>1. Yielded /\ (attempt' = attempt \/ attempt' = CutAttempts(d))
      BY <1>3, <2>2 DEF Requests, SubmitDocument, UpdateDocument,
         DeleteDocument, DeleteFails
    <3>2. \A s \in Slots : attempt'[s].stage = attempt[s].stage
      <4>1. \A s \in Slots : Running(s) =>
              [attempt[s] EXCEPT !.cut = TRUE].stage = attempt[s].stage
        BY AttemptFields DEF AttemptType
      <4>. QED BY <3>1, <4>1 DEF CutAttempts
    <3>. QED BY <1>1, <3>1, <3>2 DEF Yielded, Stretch
  <2>. QED BY <2>1, <2>2
<1>4. ASSUME NEW s \in Slots, AttemptNext(s) PROVE LeaseHeld'
  <2>1. PICK a : attempt' = [attempt EXCEPT ![s] = a]
    BY <1>4, AttemptSteps DEF IndexChunk
  <2>2. Stretch(s) \/ Yielded
    BY <1>4 DEF AttemptNext, LeaseDocumentJob, SkipDone, BeginIngest,
       FetchUrlContent, IndexChunk, SetIndexing, CompleteDocument, FailIngest,
       LoseIngest, Throws, Stretch
  <2>3. \A t \in Slots \ {s} : ~Stretch(t)'
    BY <2>1, <2>2 DEF LeaseHeld, Yielded, Stretch, TypeOK
  <2>4. attempt'[s].stage = "leased" => job'[attempt'[s].job].status = "leased"
    <3>1. ASSUME NEW j \in Jobs, LeaseDocumentJob(s, j)
          PROVE  job'[attempt'[s].job].status = "leased"
      <4>1. attempt'[s].job = j
        BY <3>1 DEF LeaseDocumentJob, Attempt, TypeOK
      <4>2. job'[j].status = "leased"
        BY <3>1, RowsWorkable DEF LeaseDocumentJob, TypeOK, Row
      <4>. QED BY <4>1, <4>2
    <3>2. CASE \A j \in Jobs : ~LeaseDocumentJob(s, j)
      <4>1. attempt'[s].stage # "leased"
        BY <1>4, <3>2, NotLeasedAgain
      <4>. QED BY <4>1
    <3>. QED BY <3>1, <3>2
  <2>5. \A t, u \in Slots : Stretch(t)' /\ Stretch(u)' => t = u
    BY <2>3
  <2>6. ASSUME NEW t \in Slots, attempt'[t].stage = "leased"
        PROVE  job'[attempt'[t].job].status = "leased"
    <3>1. t = s
      BY <2>3, <2>6 DEF Stretch
    <3>. QED BY <2>4, <2>6, <3>1
  <2>. QED BY <2>5, <2>6 DEF LeaseHeld
<1>5. CASE JobsNext
  <2>1. ASSUME NEW j \in Jobs, Elapse(j) PROVE LeaseHeld'
    <3>1. \A k \in Jobs : job'[k].status = job[k].status
      BY <2>1, RowsWorkable DEF Elapse, TypeOK
    <3>. QED BY <1>0, <2>1, <3>1 DEF Elapse
  <2>2. CASE Crash
    BY <1>1, <2>2 DEF Crash, Stretch, Idle
  <2>3. CASE ~Crash /\ \A j \in Jobs : ~Elapse(j)
    BY <1>1, <1>5, <2>3 DEF JobsNext, RecoverStaleLeases, RequeueDeadJobs,
       PurgeJobs, StartPipeline, StopPipeline, Yielded, Stretch
  <2>. QED BY <2>1, <2>2, <2>3
<1>. QED BY <1>2, <1>3, <1>4, <1>5, NextByActor

\* Work that is there stays, or its document needs none any more.
LEMMA WorkStays ==
  ASSUME WorkInv, submitting \subseteq submitting', forsaken \subseteq forsaken',
         \A j \in Jobs : Workable(job[j]) =>
           \/ Workable(job'[j])
           \/ status'[DocOf(j)] \notin InProgress
           \/ DocOf(j) \in reopened' \cup forsaken',
         \A d \in Docs \ (reopened' \cup forsaken') :
           status'[d] \in InProgress =>
             (d \notin reopened /\ status[d] \in InProgress) \/ HasWork(d)'
  PROVE  WorkInv'
<1> SUFFICES ASSUME NEW d \in Docs \ (reopened' \cup forsaken'),
                    status'[d] \in InProgress
             PROVE  HasWork(d)'
  BY DEF WorkInv
<1>1. CASE HasWork(d)
  <2>1. \A j \in RowsOf(d) : Workable(job[j]) => Workable(job'[j])
    BY DEF RowsOf
  <2>. QED BY <1>1, <2>1 DEF HasWork
<1>2. CASE ~HasWork(d)
  BY <1>2 DEF WorkInv
<1>. QED BY <1>1, <1>2

LEMMA WorkRequests ==
  ASSUME TypeOK, WorkInv, NEW d \in Docs, Requests(d)
  PROVE  WorkInv'
<1>1. ASSUME NEW text \in Texts \cup {NoText},
             SubmitDocument(d, text) \/ UpdateDocument(d, text)
      PROVE  WorkInv'
  <2>1. /\ submitting \subseteq submitting' /\ d \in submitting'
        /\ UNCHANGED <<job, forsaken>>
        /\ status' = [status EXCEPT ![d] = "queued"]
        /\ reopened' = reopened \ {d}
    BY <1>1 DEF SubmitDocument, UpdateDocument, Yielded, history
  <2>2. HasWork(d)'
    BY <2>1 DEF HasWork
  <2>3. \A e \in Docs \ {d} : status'[e] = status[e]
    BY <2>1 DEF TypeOK
  <2>. QED BY <2>1, <2>2, <2>3, WorkStays
<1>2. CASE EnqueueDocumentIngestJob(d)
  <2>1. /\ submitting = {d} /\ submitting' = {}
        /\ forsaken' = forsaken \ {d} /\ UNCHANGED <<status, reopened>>
    BY <1>2 DEF EnqueueDocumentIngestJob
  <2>2. \A n \in Nat : Workable(PendingRow(n))
    BY DEF Workable, PendingRow, NoRow
  <2>3. \A j \in Jobs : Workable(job[j]) => Workable(job'[j])
    BY <1>2, <2>2 DEF EnqueueDocumentIngestJob, RowsOf, TypeOK
  <2>4. \E j \in RowsOf(d) : Workable(job'[j])
    <3>1. CASE \E j \in RowsOf(d) : Live(job[j])
      BY <1>2, <3>1 DEF EnqueueDocumentIngestJob, Live, Workable
    <3>2. CASE ~\E j \in RowsOf(d) : Live(job[j])
      BY <1>2, <2>2, <3>2 DEF EnqueueDocumentIngestJob, RowsOf, TypeOK
    <3>. QED BY <3>1, <3>2
  <2>5. ASSUME NEW e \in Docs \ (reopened' \cup forsaken'),
               status'[e] \in InProgress
        PROVE  HasWork(e)'
    <3>1. CASE e = d
      BY <2>4, <3>1 DEF HasWork, RowsOf
    <3>2. CASE e # d
      <4>1. HasWork(e) /\ e \notin submitting
        BY <2>1, <2>5, <3>2 DEF WorkInv
      <4>. QED BY <2>3, <4>1 DEF HasWork, RowsOf
    <3>. QED BY <3>1, <3>2
  <2>. QED BY <2>5 DEF WorkInv
<1>3. CASE EnqueueFails(d)
  <2>1. /\ submitting = {d} /\ forsaken' = forsaken \cup {d}
        /\ UNCHANGED <<status, reopened, job>>
    BY <1>3 DEF EnqueueFails
  <2>. QED BY <2>1 DEF WorkInv, HasWork
<1>4. CASE DeleteDocument(d)
  <2>1. /\ status' = [status EXCEPT ![d] = "deleted"]
        /\ reopened' = reopened \ {d}
        /\ UNCHANGED <<job, submitting, forsaken>>
    BY <1>4 DEF DeleteDocument, history
  <2>. QED BY <2>1, WorkStays DEF TypeOK
<1>5. ASSUME NEW removed \in SUBSET indexed[d], DeleteFails(d, removed)
      PROVE  WorkInv'
  BY <1>5 DEF DeleteFails, WorkInv, HasWork
<1>. QED BY <1>1, <1>2, <1>3, <1>4, <1>5 DEF Requests

LEMMA WorkAttempts ==
  ASSUME AttemptInv, LeaseHeld, WorkInv, NEW s \in Slots, AttemptNext(s)
  PROVE  WorkInv'
<1>. USE DEF AttemptInv
<1>0. \A j \in Jobs : job[j] \in Row
  BY DEF TypeOK
<1>1. UNCHANGED <<submitting, forsaken>>
  BY DEF AttemptNext, LeaseDocumentJob, SkipDone, BeginIngest, FetchUrlContent,
     IndexChunk, SetIndexing, CompleteDocument, FailIngest, LoseIngest, Rest,
     history
<1>2. attempt[s].stage # "idle" =>
        /\ Running(s) /\ attempt[s].job \in Jobs /\ attempt[s].attempts \in Nat
        /\ Doc(s) = DocOf(attempt[s].job) /\ Doc(s) \in Docs
  BY AttemptFields DEF AttemptType, Doc
<1>3. ASSUME attempt[s].stage # "idle", FailLease(s)
      PROVE  \A j \in Jobs : Workable(job[j]) => Workable(job'[j])
  BY <1>0, <1>2, <1>3, RowsWorkable DEF FailLease, TypeOK
<1>4. ASSUME attempt[s].stage # "idle",
             NEW to \in {"done", "failed"},
             status' = [status EXCEPT ![Doc(s)] = to],
             reopened' = reopened \ {Doc(s)},
             \A j \in Jobs \ {attempt[s].job} : job'[j] = job[j]
      PROVE  WorkInv'
  BY <1>1, <1>2, <1>4, WorkStays DEF TypeOK
<1>5. ASSUME NEW j \in Jobs, LeaseDocumentJob(s, j) PROVE WorkInv'
  <2>1. UNCHANGED <<status, reopened>> /\ job' = [job EXCEPT ![j] = Lease(@)]
    BY <1>5 DEF LeaseDocumentJob
  <2>2. Workable(job'[j])
    BY <1>0, <2>1, RowsWorkable DEF Workable, TypeOK
  <2>. QED BY <1>1, <2>1, <2>2, WorkStays DEF TypeOK
<1>6. CASE SkipDone(s)
  <2>1. /\ attempt[s].stage # "idle" /\ status[Doc(s)] = "done"
        /\ UNCHANGED <<status, reopened>>
        /\ \A j \in Jobs \ {attempt[s].job} : job'[j] = job[j]
    BY <1>6 DEF SkipDone, TypeOK
  <2>. QED BY <1>1, <1>2, <2>1, WorkStays DEF TypeOK
<1>7. CASE CompleteDocument(s) \/ FailIngest(s)
  <2>1. attempt[s].stage # "idle"
    BY <1>7, AttemptFields DEF CompleteDocument, FailIngest, Throws, Idle, Running,
       AttemptType
  <2>2. /\ \E to \in {"done", "failed"} : status' = [status EXCEPT ![Doc(s)] = to]
        /\ reopened' = reopened \ {Doc(s)}
    BY <1>7 DEF CompleteDocument, FailIngest
  <2>3. \A j \in Jobs \ {attempt[s].job} : job'[j] = job[j]
    BY <1>7 DEF CompleteDocument, FailIngest, FailLease, TypeOK
  <2>. QED BY <1>4, <2>1, <2>2, <2>3
<1>8. CASE IndexChunk(s) \/ LoseIngest(s)
  BY <1>1, <1>8 DEF IndexChunk, LoseIngest, Rest, WorkInv, HasWork
\* The status overwritten at once, under the lease, or later, without it.
<1>9. ASSUME attempt[s].stage # "idle", SetIngesting(s), UNCHANGED job
      PROVE  WorkInv'
  <2>1. CASE attempt[s].stage = "leased"
    <3>1. ASSUME NEW d \in Docs, d = Doc(s) PROVE HasWork(d)'
      <4>1. PICK j \in Jobs : j = attempt[s].job /\ j \in RowsOf(d)
        BY <1>2, <1>9, <3>1 DEF RowsOf
      <4>2. Workable(job[j]) /\ job'[j] = job[j]
        BY <1>9, <2>1, <4>1 DEF LeaseHeld, Workable
      <4>3. Workable(job[j])'
        BY <4>2 DEF Workable
      <4>. QED BY <4>1, <4>3 DEF HasWork, RowsOf
    <3>2. ASSUME NEW d \in Docs \ (reopened' \cup forsaken'),
                 status'[d] \in InProgress
          PROVE  (d \notin reopened /\ status[d] \in InProgress) \/ HasWork(d)'
      BY <1>2, <1>9, <2>1, <3>1, <3>2 DEF TypeOK
    <3>. QED BY <1>1, <1>9, <3>2, WorkStays
  <2>2. CASE attempt[s].stage # "leased"
    <3>1. \A d \in Docs \ (reopened' \cup forsaken') :
            status'[d] \in InProgress =>
              d \notin reopened /\ status[d] \in InProgress
      BY <1>2, <1>9, <2>2 DEF TypeOK
    <3>. QED BY <1>1, <1>9, <3>1, WorkStays
  <2>. QED BY <2>1, <2>2
<1>10. ASSUME NEW text, attempt[s].stage # "idle", Index(s, text) PROVE WorkInv'
  <2>1. CASE text = NoText
    <3>1. /\ status' = [status EXCEPT ![Doc(s)] = "failed"]
          /\ reopened' = reopened \ {Doc(s)}
          /\ \A j \in Jobs \ {attempt[s].job} : job'[j] = job[j]
      BY <1>10, <2>1 DEF Index, FailLease, TypeOK
    <3>. QED BY <1>4, <1>10, <3>1
  <2>2. CASE text # NoText
    <3>1. SetIngesting(s) /\ UNCHANGED job
      BY <1>10, <2>2 DEF Index
    <3>. QED BY <1>9, <1>10, <3>1
  <2>. QED BY <2>1, <2>2
<1>11. CASE BeginIngest(s)
  <2>0. attempt[s].stage # "idle"
    BY <1>11 DEF BeginIngest
  <2>1. CASE Doc(s) \in UrlDocs
    <3>1. SetIngesting(s) /\ UNCHANGED job
      BY <1>11, <2>1 DEF BeginIngest
    <3>. QED BY <1>9, <2>0, <3>1
  <2>2. CASE Doc(s) \notin UrlDocs
    <3>1. Index(s, content[Doc(s)])
      BY <1>11, <2>2 DEF BeginIngest
    <3>. QED BY <1>10, <2>0, <3>1
  <2>. QED BY <2>1, <2>2
<1>12. ASSUME NEW text \in Texts \cup {NoText}, FetchUrlContent(s, text)
       PROVE  WorkInv'
  <2>1. attempt[s].stage # "idle" /\ Index(s, text)
    BY <1>12 DEF FetchUrlContent
  <2>. QED BY <1>10, <2>1
<1>13. CASE SetIndexing(s)
  <2>1. attempt[s].stage # "idle" /\ SetIngesting(s) /\ UNCHANGED job
    BY <1>13 DEF SetIndexing
  <2>. QED BY <1>9, <2>1
<1>. QED BY <1>5, <1>6, <1>7, <1>8, <1>11, <1>12, <1>13 DEF AttemptNext

LEMMA WorkJobs ==
  ASSUME TypeOK, WorkInv, JobsNext
  PROVE  WorkInv'
<1>0. \A j \in Jobs : job[j] \in Row
  BY DEF TypeOK
<1>1. ASSUME UNCHANGED <<status, reopened, submitting, forsaken>>,
             \A j \in Jobs : Workable(job[j]) => Workable(job'[j])
      PROVE  WorkInv'
  BY <1>1, WorkStays
<1>2. ASSUME NEW j \in Jobs, Elapse(j) PROVE WorkInv'
  <2>1. \A k \in Jobs : Workable(job[k]) => Workable(job'[k])
    BY <1>0, <1>2, RowsWorkable DEF Elapse, Workable, TypeOK
  <2>. QED BY <1>1, <1>2, <2>1 DEF Elapse, history
<1>3. CASE RecoverStaleLeases
  <2>1. \A k \in Jobs : Workable(job[k]) => Workable(job'[k])
    BY <1>0, <1>3, RowsWorkable DEF RecoverStaleLeases
  <2>. QED BY <1>1, <1>3, <2>1 DEF RecoverStaleLeases, history
<1>4. CASE RequeueDeadJobs
  <2>1. \A k \in Jobs : Workable(job[k]) => Workable(job'[k])
    BY <1>0, <1>4, RowsWorkable DEF RequeueDeadJobs
  <2>. QED BY <1>1, <1>4, <2>1 DEF RequeueDeadJobs, history
<1>5. CASE StartPipeline
  <2>1. \A k \in Jobs : Workable(job[k]) => Workable(job'[k])
    BY <1>0, <1>5, RowsWorkable DEF StartPipeline
  <2>. QED BY <1>1, <1>5, <2>1 DEF StartPipeline, history
<1>6. CASE StopPipeline
  BY <1>1, <1>6 DEF StopPipeline, history
<1>7. CASE PurgeJobs
  <2>1. /\ UNCHANGED <<status, reopened, submitting>> /\ forsaken \subseteq forsaken'
        /\ \A j \in Jobs : job[j].status = "dead" /\ Purgeable(job[j])
                             => DocOf(j) \in forsaken'
    BY <1>7 DEF PurgeJobs
  <2>2. \A j \in Jobs : Workable(job[j]) =>
          Workable(job'[j]) \/ DocOf(j) \in forsaken'
    BY <1>7, <2>1 DEF PurgeJobs, Purgeable, Workable
  <2>. QED BY <2>1, <2>2, WorkStays
<1>8. CASE Crash
  <2>1. /\ UNCHANGED <<status, reopened, job>> /\ forsaken' = forsaken \cup submitting
    BY <1>8 DEF Crash
  <2>. QED BY <2>1 DEF WorkInv, HasWork
<1>. QED BY <1>2, <1>3, <1>4, <1>5, <1>6, <1>7, <1>8 DEF JobsNext

\* A document that waits, or is being ingested, has a job that can be run or
\* requeued, or is about to get one; only an error or a crash between the
\* transactions that store it and its job, the purge of its dead job, and an
\* attempt that outlived its lease and takes it back into progress after it was
\* settled, leave it without.
THEOREM NothingLost == Spec => []NoLostDocument
<1> DEFINE IInv == AttemptInv /\ LeaseHeld /\ WorkInv
<1>1. Init => IInv
  <2>1. Init => LeaseHeld /\ WorkInv
    BY DEF Init, LeaseHeld, WorkInv, Stretch, Idle
  <2>. QED BY <2>1, AttemptInit
<1>2. IInv /\ [Next]_vars => IInv'
  <2> SUFFICES ASSUME IInv, [Next]_vars PROVE IInv'
    OBVIOUS
  <2>1. AttemptInv' /\ LeaseHeld'
    BY AttemptStep, LeaseHeldStep
  <2>2. CASE UNCHANGED vars
    BY <2>1, <2>2 DEF vars, history, WorkInv, HasWork
  <2>3. ASSUME NEW d \in Docs, Requests(d) PROVE IInv'
    BY <2>1, <2>3, WorkRequests DEF AttemptInv
  <2>4. ASSUME NEW s \in Slots, AttemptNext(s) PROVE IInv'
    BY <2>1, <2>4, WorkAttempts
  <2>5. CASE JobsNext
    BY <2>1, <2>5, WorkJobs DEF AttemptInv
  <2>. QED BY <2>2, <2>3, <2>4, <2>5, NextByActor
<1>3. IInv => NoLostDocument
  BY WorkIsNotLost
<1>. QED BY <1>1, <1>2, <1>3, PTL DEF Spec

(***************************************************************************)
(* How a document is cut into chunks                                        *)
(*                                                                          *)
(* chunkText drops no character of any text, for any window and any overlap *)
(* that is smaller.  The inductive invariant: what lies before the end of   *)
(* the last chunk is covered, the next chunk begins no later than that end, *)
(* and the loop is only left when that end is the end of the text.          *)
(***************************************************************************)

\* reached is the end of the last chunk.
CoveredTo(reached) ==
  /\ reached \in Nat
  /\ start <= reached /\ reached <= length
  /\ \A position \in 0 .. reached - 1 : Covered(position)
  /\ start >= length => reached = length
  /\ returned => reached = length

CoverInv ==
  /\ ChunkingTypeOK
  /\ overlap < chunkSize => \E reached \in Nat : CoveredTo(reached)

LEMMA InitCover == ChunkingInit => CoverInv
<1> SUFFICES ASSUME ChunkingInit PROVE CoverInv
  OBVIOUS
<1>1. ChunkingTypeOK
  <2>1. length \in Nat /\ chunkSize \in Nat \ {0} /\ overlap \in Nat /\ start = 0
    BY ChunkingAssumption DEF ChunkingInit
  <2>2. chunks = {} /\ returned = FALSE
    BY DEF ChunkingInit
  <2>. QED BY <2>1, <2>2 DEF ChunkingTypeOK
<1>2. CoveredTo(0)
  BY ChunkingAssumption DEF ChunkingInit, CoveredTo
<1>. QED BY <1>1, <1>2 DEF CoverInv

\* One turn of the loop, with its local variables named as constants.
LEMMA CutChunkTurn ==
  ASSUME ChunkingTypeOK, CutChunk
  PROVE  \E end \in Nat :
           /\ start < end /\ end <= length
           /\ end = length \/ end = start + chunkSize
           /\ chunks' = chunks \cup {Chunk(start, end)}
           /\ ~returned
           /\ IF end - overlap <= start
              THEN returned' = TRUE /\ start' = start
              ELSE start' = end - overlap /\ returned' = returned
           /\ UNCHANGED <<length, chunkSize, overlap>>
<1> DEFINE end == Shorter(start + chunkSize, length)
<1>1. /\ length \in Nat /\ chunkSize \in Nat \ {0} /\ overlap \in Nat
      /\ start \in Nat /\ start < length
  BY DEF ChunkingTypeOK, CutChunk
<1>2. /\ end \in Nat /\ start < end /\ end <= length
      /\ end = length \/ end = start + chunkSize
  BY <1>1 DEF Shorter
<1>3. /\ chunks' = chunks \cup {Chunk(start, end)}
      /\ ~returned
      /\ IF end - overlap <= start
         THEN returned' = TRUE /\ start' = start
         ELSE start' = end - overlap /\ returned' = returned
      /\ UNCHANGED <<length, chunkSize, overlap>>
  BY DEF CutChunk
<1> HIDE DEF end
<1>. QED BY <1>2, <1>3

LEMMA CutChunkTyped == ChunkingTypeOK /\ CutChunk => ChunkingTypeOK'
<1> SUFFICES ASSUME ChunkingTypeOK, CutChunk PROVE ChunkingTypeOK'
  OBVIOUS
<1>1. PICK end \in Nat :
        /\ chunks' = chunks \cup {Chunk(start, end)}
        /\ IF end - overlap <= start
           THEN returned' = TRUE /\ start' = start
           ELSE start' = end - overlap /\ returned' = returned
        /\ UNCHANGED <<length, chunkSize, overlap>>
  BY CutChunkTurn
<1>2. start' \in Nat
  BY <1>1, SMT DEF ChunkingTypeOK
<1>3. returned' \in BOOLEAN
  BY <1>1, Zenon DEF ChunkingTypeOK
<1>4. chunks' \in SUBSET [from : Nat, to : Nat]
  BY <1>1 DEF ChunkingTypeOK, Chunk
<1>. QED BY <1>1, <1>2, <1>3, <1>4 DEF ChunkingTypeOK

LEMMA CutChunkCovers ==
  ASSUME CoverInv, CutChunk, overlap < chunkSize
  PROVE  \E reached \in Nat : CoveredTo(reached)'
<1>1. PICK reached \in Nat : CoveredTo(reached)
  BY DEF CoverInv
<1>2. PICK end \in Nat :
        /\ start < end /\ end <= length
        /\ end = length \/ end = start + chunkSize
        /\ chunks' = chunks \cup {Chunk(start, end)}
        /\ ~returned
        /\ IF end - overlap <= start
           THEN returned' = TRUE /\ start' = start
           ELSE start' = end - overlap /\ returned' = returned
        /\ UNCHANGED <<length, chunkSize, overlap>>
  BY CutChunkTurn DEF CoverInv
<1>3. /\ length \in Nat /\ chunkSize \in Nat \ {0} /\ overlap \in Nat
      /\ start \in Nat
  BY DEF CoverInv, ChunkingTypeOK
<1>4. \A position \in 0 .. end - 1 : Covered(position)'
  <2> SUFFICES ASSUME NEW position \in 0 .. end - 1 PROVE Covered(position)'
    OBVIOUS
  <2>1. CASE position < start
    <3>1. position \in 0 .. reached - 1
      BY <1>1, <1>3, <2>1 DEF CoveredTo
    <3>2. Covered(position)
      BY <1>1, <3>1 DEF CoveredTo
    <3>. QED BY <1>2, <3>2 DEF Covered
  <2>2. CASE position >= start
    <3>1. Chunk(start, end) \in chunks'
      BY <1>2
    <3>2. Chunk(start, end).from <= position /\ position < Chunk(start, end).to
      BY <1>3, <2>2 DEF Chunk
    <3>. QED BY <3>1, <3>2 DEF Covered
  <2>. QED BY <1>3, <2>1, <2>2
<1>5. /\ start' <= end
      /\ start' >= length => end = length
      /\ returned' => end = length
  BY <1>2, <1>3
<1>6. CoveredTo(end)'
  BY <1>2, <1>3, <1>4, <1>5 DEF CoveredTo
<1>. QED BY <1>6

LEMMA StepCover == CoverInv /\ [ChunkingNext]_chunkingVars => CoverInv'
<1> SUFFICES ASSUME CoverInv, [ChunkingNext]_chunkingVars PROVE CoverInv'
  OBVIOUS
<1>1. CASE ShortText
  <2>1. ChunkingTypeOK'
    BY <1>1 DEF ShortText, CoverInv, ChunkingTypeOK, Chunk
  <2>2. ASSUME (overlap < chunkSize)' PROVE CoveredTo(length)'
    <3>1. /\ length \in Nat /\ chunkSize \in Nat /\ UNCHANGED length
          /\ chunks' = {Chunk(0, length)} /\ start' = start
      BY <1>1 DEF ShortText, CoverInv, ChunkingTypeOK
    <3>2. start <= length
      <4>1. overlap < chunkSize
        BY <1>1, <2>2 DEF ShortText
      <4>2. PICK reached \in Nat : CoveredTo(reached)
        BY <4>1 DEF CoverInv
      <4>. QED BY <3>1, <4>2 DEF CoveredTo, CoverInv, ChunkingTypeOK
    <3>3. \A position \in 0 .. length - 1 : Covered(position)'
      BY <3>1 DEF Covered, Chunk
    <3>. QED BY <3>1, <3>2, <3>3 DEF CoveredTo
  <2>3. length' \in Nat
    BY <2>1 DEF ChunkingTypeOK
  <2>. QED BY <1>1, <2>1, <2>2, <2>3 DEF CoverInv, ShortText
<1>2. CASE CutChunk
  <2>1. ChunkingTypeOK'
    BY <1>2, CutChunkTyped DEF CoverInv
  <2>2. (overlap < chunkSize)' => overlap < chunkSize
    BY <1>2 DEF CutChunk
  <2>. QED BY <1>2, <2>1, <2>2, CutChunkCovers DEF CoverInv
<1>3. CASE EndLoop
  <2>1. ChunkingTypeOK'
    BY <1>3 DEF EndLoop, CoverInv, ChunkingTypeOK
  <2>2. ASSUME (overlap < chunkSize)'
        PROVE  \E reached \in Nat : CoveredTo(reached)'
    <3>1. overlap < chunkSize
      BY <1>3, <2>2 DEF EndLoop
    <3>2. PICK reached \in Nat : CoveredTo(reached)
      BY <3>1 DEF CoverInv
    <3>3. CoveredTo(reached)'
      BY <1>3, <3>2 DEF EndLoop, CoveredTo, Covered
    <3>. QED BY <3>3
  <2>. QED BY <2>1, <2>2 DEF CoverInv
<1>4. CASE UNCHANGED chunkingVars
  BY <1>4 DEF chunkingVars, CoverInv, ChunkingTypeOK, CoveredTo, Covered
<1>. QED BY <1>1, <1>2, <1>3, <1>4 DEF ChunkingNext

\* The loop's variables keep their types: it never starts before the text.
THEOREM ChunksTyped == ChunkingSpec => []ChunkingTypeOK
<1>1. CoverInv => ChunkingTypeOK
  BY DEF CoverInv
<1>. QED BY <1>1, InitCover, StepCover, PTL DEF ChunkingSpec

\* With an overlap smaller than the window, chunkText returns chunks that hold
\* every character of the text, whatever its length and the configuration.
THEOREM ChunksCoverText == ChunkingSpec => []CoversText
<1>1. CoverInv => CoversText
  BY DEF CoverInv, CoveredTo, CoversText
<1>2. ChunkingSpec => []CoverInv
  BY InitCover, StepCover, PTL DEF ChunkingSpec
<1>. QED BY <1>1, <1>2, PTL
=============================================================================
