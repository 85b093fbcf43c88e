------------------------------ MODULE Continuity ------------------------------
(***************************************************************************)
(* What a session has been about, kept for the next one: notes pile up in   *)
(* memory (continuity-state), are consumed into a checkpoint by one of four *)
(* hooks, and become rows of session_checkpoints, at once or through a      *)
(* queue that is flushed by a timer.                                        *)
(*                                                                          *)
(* A note is what a prompt adds to the pending queries, or a remember; those *)
(* of a session are numbered.  A checkpoint is the notes it carries and the *)
(* note that was the last when its digest was made.                         *)
(***************************************************************************)
EXTENDS Naturals, SequencesExt

CONSTANTS
  Sessions,     \* session keys
  None,         \* not tracked, nothing queued
  Keep,         \* MAX_PENDING_QUERIES, and the cap of a merge
  MaxRows,      \* maxCheckpointsPerSession
  MaxNoted      \* bound: prompts and remembers of a session

Kinds == {"periodic", "pre_compaction", "mid_session_extract", "session_end"}

\* Pending state, and checkpoints.
States == [pending : Seq(Nat), spoke : BOOLEAN]
Checkpoints == [kind : Kinds, notes : Seq(Nat), upto : Nat]

ASSUME ContinuityAssumption ==
  /\ Keep \in Nat \ {0} /\ MaxRows \in Nat \ {0} /\ MaxNoted \in Nat
  /\ None \notin States /\ None \notin Checkpoints

VARIABLES
  state,     \* by session: the notes since the last checkpoint and whether
             \* there was a prompt at all, or None
  starting,  \* sessions whose start awaits what it will inject
  seen,      \* sessionStartSeen
  queued,    \* pendingWrites, by session, or None
  timer,     \* is flushTimer armed
  rows,      \* session_checkpoints, by session, oldest first
  noted,     \* prompts and remembers of each session so far
  lost       \* history: those that are in no place any more

vars == <<state, starting, seen, queued, timer, rows, noted, lost>>

Fresh == [pending |-> <<>>, spoke |-> FALSE]
Tracked(k) == state[k] # None
Pending(k) == IF Tracked(k) THEN state[k].pending ELSE <<>>
Carried(checkpoint) == IF checkpoint = None THEN <<>> ELSE checkpoint.notes

Checkpoint(k, kind) ==
  [kind |-> kind, notes |-> Pending(k), upto |-> noted[k]]

\* The last n elements of a sequence, and those before them.
Over(s, n) == IF Len(s) > n THEN Len(s) - n ELSE 0
Latest(s, n) == SubSeq(s, Over(s, n) + 1, Len(s))
Earlier(s, n) == SubSeq(s, 1, Over(s, n))

\* writeCheckpoint: the row goes in, rows above the cap go out.
Written(rs, checkpoint) == Latest(Append(rs, checkpoint), MaxRows)
Evicted(rs, checkpoint) ==
  UNION {Range(r.notes) :
           r \in Range(Earlier(Append(rs, checkpoint), MaxRows))}

Lose(k, ps) == lost' = [lost EXCEPT ![k] = @ \cup ps]

(***************************************************************************)
(* The queue                                                                *)
(***************************************************************************)

\* Faulty: a second trigger within the flush window replaces the first.
QueueLatest(k, checkpoint, overflow) ==
  /\ queued' = [queued EXCEPT ![k] = checkpoint]
  /\ Lose(k, overflow)
  /\ timer' = TRUE

\* Faulty: a merge is not cut at the cap.
QueueUncapped(k, checkpoint, overflow) ==
  /\ queued' = [queued EXCEPT ![k] = [checkpoint EXCEPT !.notes =
                  Carried(queued[k]) \o @]]
  /\ Lose(k, overflow)
  /\ timer' = TRUE

\* queueCheckpointWrite: what is queued already is merged into it.
QueueWrite(k, checkpoint, overflow) ==
  LET all == Carried(queued[k]) \o checkpoint.notes
  IN  /\ queued' = [queued EXCEPT ![k] =
                      [checkpoint EXCEPT !.notes = Latest(all, Keep)]]
      /\ Lose(k, overflow \cup Range(Earlier(all, Keep)))
      /\ timer' = TRUE

\* flushPendingCheckpoints: every entry leaves the queue and is written, unless
\* its own write fails.
Flushed(k, ok) ==
  IF queued[k] # None /\ ok THEN Written(rows[k], queued[k]) ELSE rows[k]
FlushLoses(k, ok) ==
  IF queued[k] = None THEN {}
  ELSE IF ok THEN Evicted(rows[k], queued[k])
  ELSE Range(queued[k].notes)
Waiting == {k \in Sessions : queued[k] # None}
EmptyQueue == queued' = [k \in Sessions |-> None] /\ timer' = FALSE

FlushTimer(failed) ==
  /\ timer
  /\ EmptyQueue
  /\ rows' = [k \in Sessions |-> Flushed(k, k \notin failed)]
  /\ lost' = [k \in Sessions |-> lost[k] \cup FlushLoses(k, k \notin failed)]
  /\ UNCHANGED <<state, starting, seen, noted>>

(***************************************************************************)
(* Hooks                                                                    *)
(***************************************************************************)

\* session-start: tracking begins anew, unless the session has had its inject.
StartSession(k) ==
  /\ k \notin seen
  /\ state' = [state EXCEPT ![k] = Fresh]
  /\ Lose(k, Range(Pending(k)))
  /\ starting' = starting \cup {k}
  /\ UNCHANGED <<seen, queued, timer, rows, noted>>

\* The inject is there, whatever has become of the session meanwhile.
FinishStart(k) ==
  /\ k \in starting
  /\ starting' = starting \ {k}
  /\ seen' = seen \cup {k}
  /\ UNCHANGED <<state, queued, timer, rows, noted, lost>>

\* user-prompt-submit or remember of a session that is not tracked, as after a
\* restart.
NoteUntracked(k) ==
  /\ ~Tracked(k) /\ noted[k] < MaxNoted
  /\ noted' = [noted EXCEPT ![k] = @ + 1]
  /\ Lose(k, {noted'[k]})
  /\ UNCHANGED <<state, starting, seen, queued, timer, rows>>

\* What a session has pending once it has noted something more, up to the cap.
All(k) == Append(state[k].pending, noted[k] + 1)
Overflow(k) == Range(Earlier(All(k), Keep))

Note(k, spoke, pending) ==
  /\ noted[k] < MaxNoted
  /\ noted' = [noted EXCEPT ![k] = @ + 1]
  /\ state' = [state EXCEPT ![k] = [pending |-> pending, spoke |-> spoke]]
  /\ UNCHANGED <<starting, seen, rows>>

\* remember: no checkpoint is due before the next prompt.
RecordRemember(k) ==
  /\ Tracked(k) /\ Note(k, state[k].spoke, Latest(All(k), Keep))
  /\ Lose(k, Overflow(k))
  /\ UNCHANGED <<queued, timer>>

\* user-prompt-submit, with no checkpoint due.
RecordPrompt(k) ==
  /\ Tracked(k) /\ Note(k, TRUE, Latest(All(k), Keep))
  /\ Lose(k, Overflow(k))
  /\ UNCHANGED <<queued, timer>>

Due(k) ==
  [kind |-> "periodic", notes |-> Latest(All(k), Keep), upto |-> noted[k] + 1]

\* Faulty: takes a snapshot and resets nothing.
PromptSnapshot(k) ==
  /\ Tracked(k) /\ Note(k, TRUE, Latest(All(k), Keep))
  /\ QueueWrite(k, Due(k), Overflow(k))

\* user-prompt-submit: by the number of prompts or the time since the last one a
\* checkpoint is due, and queued for the next flush.
PromptDue(k) ==
  /\ Tracked(k) /\ Note(k, TRUE, <<>>)
  /\ QueueWrite(k, Due(k), Overflow(k))

\* A checkpoint that is written at once; a failure is only logged.
WriteNow(k, checkpoint, ok) ==
  IF ok
  THEN /\ rows' = [rows EXCEPT ![k] = Written(@, checkpoint)]
       /\ Lose(k, Evicted(rows[k], checkpoint))
  ELSE Lose(k, Range(checkpoint.notes)) /\ UNCHANGED rows

\* pre-compaction; what is queued stays there.
PreCompaction(k, ok) ==
  /\ Tracked(k)
  /\ state' = [state EXCEPT ![k].pending = <<>>]
  /\ WriteNow(k, Checkpoint(k, "pre_compaction"), ok)
  /\ UNCHANGED <<starting, seen, queued, timer, noted>>

\* session-checkpoint-extract: tracking begins anew, also of a session that was
\* not tracked.
CheckpointExtract(k, ok) ==
  /\ state' = [state EXCEPT ![k] = Fresh]
  /\ IF Tracked(k) /\ state[k].spoke
     THEN WriteNow(k, Checkpoint(k, "mid_session_extract"), ok)
     ELSE Lose(k, Range(Pending(k))) /\ UNCHANGED rows
  /\ UNCHANGED <<starting, seen, queued, timer, noted>>

\* Faulty: the queue is left to its timer.
EndUnflushed(k, clear, ok, failed) ==
  /\ failed = {}
  /\ state' = [state EXCEPT ![k] = None]
  /\ IF ~clear /\ Tracked(k) /\ state[k].spoke
     THEN WriteNow(k, Checkpoint(k, "session_end"), ok)
     ELSE Lose(k, Range(Pending(k))) /\ UNCHANGED rows
  /\ seen' = seen \ {k}
  /\ UNCHANGED <<starting, queued, timer, noted>>

\* Faulty: clears the timer, but flushes the queue of one session only.
EndFlushesOne(k, clear, ok, failed) ==
  /\ failed = {} /\ ~clear /\ ok
  /\ Tracked(k) => ~state[k].spoke
  /\ queued' = [queued EXCEPT ![k] = None]
  /\ timer' = FALSE
  /\ rows' = [rows EXCEPT ![k] = Flushed(k, TRUE)]
  /\ Lose(k, FlushLoses(k, TRUE) \cup Range(Pending(k)))
  /\ state' = [state EXCEPT ![k] = None]
  /\ seen' = seen \ {k}
  /\ UNCHANGED <<starting, noted>>

\* session-end: the whole queue is flushed, then the session's last checkpoint
\* is written, unless it had no prompt or is to be forgotten.
EndSession(k, clear, ok, failed) ==
  LET last == Checkpoint(k, "session_end")
      flushed == [j \in Sessions |-> Flushed(j, j \notin failed)]
      ends == ~clear /\ Tracked(k) /\ state[k].spoke
      endLoses == IF ends /\ ok THEN Evicted(flushed[k], last)
                  ELSE Range(Pending(k))
  IN  /\ EmptyQueue
      /\ rows' = IF ends /\ ok
                 THEN [flushed EXCEPT ![k] = Written(@, last)] ELSE flushed
      /\ lost' = [j \in Sessions |->
                    lost[j] \cup FlushLoses(j, j \notin failed)
                      \cup (IF j = k THEN endLoses ELSE {})]
      /\ state' = [state EXCEPT ![k] = None]
      /\ seen' = seen \ {k}
      /\ UNCHANGED <<starting, noted>>

(***************************************************************************)
(* The daemon                                                               *)
(***************************************************************************)

\* pruneCheckpoints: rows past their retention, the oldest of a session.
Prune(k, n) ==
  /\ n \in 1 .. Len(rows[k])
  /\ rows' = [rows EXCEPT ![k] = SubSeq(@, n + 1, Len(@))]
  /\ Lose(k, UNION {Range(rows[k][i].notes) : i \in 1 .. n})
  /\ UNCHANGED <<state, starting, seen, queued, timer, noted>>

ForgetSessions ==
  /\ state' = [k \in Sessions |-> None]
  /\ starting' = {} /\ seen' = {}
  /\ EmptyQueue
  /\ UNCHANGED noted

\* The daemon ends in order: the queue is flushed, what sessions have pending is
\* not.
Shutdown(failed) ==
  /\ ForgetSessions
  /\ rows' = [k \in Sessions |-> Flushed(k, k \notin failed)]
  /\ lost' = [k \in Sessions |-> lost[k] \cup FlushLoses(k, k \notin failed)
                                   \cup Range(Pending(k))]

Crash ==
  /\ ForgetSessions
  /\ lost' = [k \in Sessions |-> lost[k] \cup Range(Carried(queued[k]))
                                   \cup Range(Pending(k))]
  /\ UNCHANGED rows

Init ==
  /\ state = [k \in Sessions |-> None]
  /\ starting = {} /\ seen = {}
  /\ queued = [k \in Sessions |-> None]
  /\ timer = FALSE
  /\ rows = [k \in Sessions |-> <<>>]
  /\ noted = [k \in Sessions |-> 0]
  /\ lost = [k \in Sessions |-> {}]

Next ==
  \/ \E k \in Sessions :
       \/ StartSession(k) \/ FinishStart(k)
       \/ NoteUntracked(k) \/ RecordRemember(k)
       \/ RecordPrompt(k) \/ PromptDue(k)
       \/ \E ok \in BOOLEAN :
            \/ PreCompaction(k, ok) \/ CheckpointExtract(k, ok)
            \/ \E clear \in BOOLEAN, failed \in SUBSET Waiting :
                 EndSession(k, clear, ok, failed)
       \/ \E n \in 1 .. MaxRows : Prune(k, n)
  \/ \E failed \in SUBSET Waiting : FlushTimer(failed) \/ Shutdown(failed)
  \/ Crash

Spec == Init /\ [][Next]_vars

\* The flush timer fires.
Fairness == WF_vars(\E failed \in SUBSET Waiting : FlushTimer(failed))

(***************************************************************************)
(* Properties                                                               *)
(***************************************************************************)

TypeOK ==
  /\ state \in [Sessions ->
                  [pending : Seq(1 .. MaxNoted), spoke : BOOLEAN] \cup {None}]
  /\ starting \subseteq Sessions /\ seen \subseteq Sessions
  /\ timer \in BOOLEAN
  /\ \A k \in Sessions :
       /\ Len(rows[k]) <= MaxRows
       /\ \A r \in Range(rows[k]) \cup ({queued[k]} \ {None}) :
            r.kind \in Kinds /\ r.upto \in 0 .. noted[k]
       /\ Len(Pending(k)) <= Keep /\ Len(Carried(queued[k])) <= Keep
  /\ noted \in [Sessions -> 0 .. MaxNoted]
  /\ lost \in [Sessions -> SUBSET (1 .. MaxNoted)]

\* The places a note of the session can be in: the rows, the queue, and what is
\* pending.
Places(k) ==
  Append(Append([i \in DOMAIN rows[k] |-> rows[k][i].notes], Carried(queued[k])),
         Pending(k))

\* "merge the queries and remembers so data isn't lost when two triggers fire
\* within the flush window": no note gets lost on its way from hook to hook and
\* through the queue, and none gets into two checkpoints, or twice into one,
\* except where a write fails, a cap or the retention cuts, or the notes are
\* dropped: with those of a session that ends, and by an extract from the
\* transcript after remembers but no prompt, though the session goes on.
NotesAccountedFor ==
  \A k \in Sessions :
    LET places == Places(k)
    IN  /\ \A i \in DOMAIN places : IsInjective(places[i])
        /\ \A i, j \in DOMAIN places :
             i # j => Range(places[i]) \cap Range(places[j]) = {}
        /\ UNION {Range(places[i]) : i \in DOMAIN places}
             = (1 .. noted[k]) \ lost[k]

\* The checkpoint of a session's end, which recovery takes for the latest, is
\* about the latest notes: no queued write of an earlier moment comes after
\* it, and what comes before it is not about later ones.
EndIsLatest ==
  \A k \in Sessions : \A i, j \in DOMAIN rows[k] :
    i < j /\ "session_end" \in {rows[k][i].kind, rows[k][j].kind}
      => rows[k][i].upto <= rows[k][j].upto

\* A queued checkpoint does not stay in the queue, whoever clears the timer.
QueueIsFlushed == \A k \in Sessions : queued[k] # None ~> queued[k] = None
=============================================================================
