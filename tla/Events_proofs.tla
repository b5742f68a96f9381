---------------------------- MODULE Events_proofs ----------------------------
(***************************************************************************)
(* Theorems about the outbox: OutboxPoller, for every number of servers,   *)
(* events, retries and disruptions and every batch size, and EventStore,   *)
(* which the events of the outbox are written by, for every number of      *)
(* concurrent calls, aggregates, keys and events.                          *)
(***************************************************************************)
EXTENDS OutboxPoller, EventStore, TLAPS

\* A call holds a job's snapshot only while the row had a try left.
SeenHasTriesLeft ==
    \A c \in Calls, e \in Events : job[c][e] # "none" => seen[c][e] < MaxRetries

\* Type correctness is not inductive alone: an attempt count stays within
\* 0 .. MaxRetries because snapshots are taken below the limit.
BaseInv == TypeOK /\ PendingHasTriesLeft /\ SeenHasTriesLeft

LEMMA BumpCounts ==
    \A n \in Count : Bump(n) \in Count /\ Bump(n) > 0 /\ (n > 0 => n - 1 \in Count)
BY DEF Count, Many, Bump

LEMMA BaseInit == Init => BaseInv
<1> SUFFICES ASSUME Init PROVE BaseInv
  OBVIOUS
<1> USE RetriesAssumption, DisruptionsAssumption DEF Init
<1>1. outbox \in [Events -> Row]
  BY DEF Row, NoRow, Settled
<1>2. 0 \in Count
  BY DEF Count, Many
<1>3. job \in [Calls -> [Events -> Step]] /\ seen \in [Calls -> [Events -> 0 .. MaxRetries]]
  BY DEF Quiet, Unseen, Step
<1>4. log \in Seq(Events) /\ disruptions \in 0 .. MaxDisruptions
  OBVIOUS
<1>5. batch \in [Calls -> {"idle", "reading", "delivering"}] /\ phase \in [Servers -> Phase]
  BY DEF Phase
<1>6. TypeOK
  BY <1>1, <1>2, <1>3, <1>4, <1>5 DEF TypeOK
<1>7. PendingHasTriesLeft /\ SeenHasTriesLeft
  BY DEF PendingHasTriesLeft, SeenHasTriesLeft, NoRow, Quiet
<1> QED
  BY <1>6, <1>7 DEF BaseInv

LEMMA BaseStep == BaseInv /\ [Next]_vars => BaseInv'
<1> SUFFICES ASSUME BaseInv, [Next]_vars PROVE BaseInv'
  OBVIOUS
<1> USE RetriesAssumption, DisruptionsAssumption DEF BaseInv
<1> USE DEF TypeOK, PendingHasTriesLeft, SeenHasTriesLeft, Settled, Phase,
            Step, Row, tables, effects, process
<1>1. ASSUME NEW s \in Servers, NEW e \in Events, LogEvent(s, e) PROVE BaseInv'
  BY <1>1 DEF LogEvent, NewRow
<1>2. ASSUME NEW s \in Servers, NEW e \in Events, NEW kind \in {"publish", "trigger"},
             SettleDetached(s, kind, e)
      PROVE BaseInv'
  <2> DEFINE sent == [stream EXCEPT ![e] = Bump(@)]
             woken == [triggered EXCEPT ![e] = Bump(@)]
  <2>1. sent \in [Events -> Count] /\ woken \in [Events -> Count]
    BY BumpCounts
  <2>2. stream' \in {stream, sent} /\ triggered' \in {triggered, woken}
    BY <1>2 DEF SettleDetached
  <2> HIDE DEF sent, woken
  <2>3. stream' \in [Events -> Count] /\ triggered' \in [Events -> Count]
    BY <2>1, <2>2
  <2>4. detached' \in [Servers -> SUBSET ({"publish", "trigger"} \X Events)]
    BY <1>2 DEF SettleDetached
  <2> QED
    BY <2>3, <2>4, <1>2 DEF SettleDetached
<1>3. ASSUME NEW s \in Servers, Tick(s) PROVE BaseInv'
  BY <1>3 DEF Tick, Acquire, ServerOf, Calls
<1>4. ASSUME NEW s \in Servers, Shutdown(s) PROVE BaseInv'
  BY <1>4 DEF Shutdown, Disrupt
<1>5. ASSUME NEW s \in Servers, Drain(s) PROVE BaseInv'
  BY <1>5 DEF Drain, Acquire, ServerOf, Calls
<1>6. ASSUME NEW s \in Servers, DrainSkipped(s) PROVE BaseInv'
  BY <1>6 DEF DrainSkipped
<1>7. ASSUME NEW s \in Servers, Exit(s) PROVE BaseInv'
  BY <1>7 DEF Exit, Die, Quiet, Unseen, Calls
<1>8. ASSUME NEW s \in Servers, Crash(s) PROVE BaseInv'
  BY <1>8 DEF Crash, Die, Disrupt, Quiet, Unseen, Calls
<1>9. ASSUME NEW s \in Servers, Restart(s) PROVE BaseInv'
  BY <1>9 DEF Restart
<1>10. ASSUME NEW c \in Calls, ReadBatch(c) PROVE BaseInv'
  BY <1>10 DEF ReadBatch, DueBatch, Due
<1>11. ASSUME NEW c \in Calls, ReadFails(c) PROVE BaseInv'
  BY <1>11 DEF ReadFails, Disrupt
<1>12. ASSUME NEW c \in Calls, FinishBatch(c) PROVE BaseInv'
  BY <1>12 DEF FinishBatch, ServerOf, Calls
<1>13. ASSUME NEW c \in Calls, NEW e \in Events, Publish(c, e) PROVE BaseInv'
  <2> DEFINE sent == [stream EXCEPT ![e] = Bump(@)]
  <2>1. sent \in [Events -> Count]
    BY BumpCounts
  <2>2. stream' = sent \/ stream' = stream
    BY <1>13 DEF Publish
  <2> HIDE DEF sent
  <2>3. PICK step \in Step \ {"none"} : Advance(c, e, step)
    BY <1>13 DEF Publish
  <2>4. stream' \in [Events -> Count]
    BY <2>1, <2>2
  <2>5. job' \in [Calls -> [Events -> Step]]
    BY <2>3 DEF Advance
  <2>6. SeenHasTriesLeft'
    BY <2>3, <1>13 DEF Advance, Publish
  <2> QED
    BY <2>4, <2>5, <2>6, <1>13 DEF Publish
<1>14. ASSUME NEW c \in Calls, NEW e \in Events, Project(c, e) PROVE BaseInv'
  BY <1>14, BumpCounts DEF Project, Advance, ServerOf, Calls
<1>15. ASSUME NEW c \in Calls, NEW e \in Events, MarkDelivered(c, e) PROVE BaseInv'
  <2>1. seen[c][e] + 1 \in 0 .. MaxRetries
    <3>1. job[c][e] # "none"
      BY <1>15 DEF MarkDelivered
    <3> QED
      BY <3>1
  <2> USE <1>15 DEF MarkDelivered, Leave, Advance, Write
  <2>2. outbox' \in [Events -> Row] /\ PendingHasTriesLeft'
    BY <2>1
  <2>3. job' \in [Calls -> [Events -> Step]] /\ seen' \in [Calls -> [Events -> 0 .. MaxRetries]]
    OBVIOUS
  <2>4. SeenHasTriesLeft'
    OBVIOUS
  <2> QED
    BY <2>2, <2>3, <2>4
<1>16. ASSUME NEW c \in Calls, NEW e \in Events, MarkFails(c, e) PROVE BaseInv'
  BY <1>16 DEF MarkFails, Advance
<1>17. ASSUME NEW c \in Calls, NEW e \in Events, ScheduleRetry(c, e) PROVE BaseInv'
  BY <1>17 DEF ScheduleRetry, Leave, Advance, NewAttempts, Write
<1>18. ASSUME NEW c \in Calls, NEW e \in Events, DeadLetter(c, e) PROVE BaseInv'
  <2>1. seen[c][e] + 1 \in 0 .. MaxRetries
    <3>1. job[c][e] # "none"
      BY <1>18 DEF DeadLetter
    <3> QED
      BY <3>1
  <2> USE <1>18 DEF DeadLetter, Leave, Advance, NewAttempts, Write
  <2>2. outbox' \in [Events -> Row] /\ PendingHasTriesLeft'
    BY <2>1
  <2>3. deadLetters' \in [Events -> Count]
    BY BumpCounts
  <2>4. job' \in [Calls -> [Events -> Step]] /\ seen' \in [Calls -> [Events -> 0 .. MaxRetries]]
    OBVIOUS
  <2>5. SeenHasTriesLeft'
    OBVIOUS
  <2> QED
    BY <2>2, <2>3, <2>4, <2>5
<1>19. ASSUME NEW c \in Calls, NEW e \in Events, RecordingFails(c, e) PROVE BaseInv'
  BY <1>19 DEF RecordingFails, Leave, Advance, Disrupt
<1>20. ASSUME NEW e \in Events, RetryDeadLetter(e) PROVE BaseInv'
  <2>1. /\ deadLetters[e] \in Count /\ deadLetters[e] > 0 /\ deadLetters[e] - 1 \in Count
        /\ NewRow \in Row /\ outbox[e] \in Row
    BY <1>20, BumpCounts DEF RetryDeadLetter, NewRow
  <2>2. outbox' \in [Events -> Row] /\ deadLetters' \in [Events -> Count]
    <3> HIDE DEF Row
    <3> QED
      BY <1>20, <2>1 DEF RetryDeadLetter
  <2>3. PendingHasTriesLeft'
    BY <1>20 DEF RetryDeadLetter, NewRow
  <2> QED
    BY <1>20, <2>2, <2>3 DEF RetryDeadLetter
<1>21. ASSUME NEW e \in Events, BecomeDue(e) PROVE BaseInv'
  <2>1. [outbox[e] EXCEPT !.due = TRUE] \in Row
    <3>1. outbox[e] \in Row
      OBVIOUS
    <3> QED
      BY ONLY <3>1 DEF Row
  <2>2. outbox' = [outbox EXCEPT ![e] = [outbox[e] EXCEPT !.due = TRUE]]
    BY <1>21 DEF BecomeDue
  <2>3. outbox' \in [Events -> Row]
    <3> HIDE DEF Row
    <3> QED
      BY <2>1, <2>2
  <2>4. PendingHasTriesLeft'
    BY <2>2
  <2> QED
    BY <1>21, <2>3, <2>4 DEF BecomeDue
<1>22. CASE LockExpires
  BY <1>22 DEF LockExpires
<1>23. CASE LockExpiresEarly
  <2>1. UNCHANGED <<tables, effects, process>>
    BY <1>23 DEF LockExpiresEarly
  <2>2. lock' \in BOOLEAN
    BY <1>23 DEF LockExpiresEarly
  <2>3. disruptions' \in 0 .. MaxDisruptions
    <3>1. Disrupt
      BY <1>23 DEF LockExpiresEarly
    <3> QED
      BY <3>1 DEF Disrupt
  <2> QED
    BY <2>1, <2>2, <2>3
<1>24. CASE UNCHANGED vars
  BY <1>24 DEF vars
<1> HIDE DEF BaseInv
<1> QED
  BY <1>1, <1>2, <1>3, <1>4, <1>5, <1>6, <1>7, <1>8, <1>9, <1>10, <1>11, <1>12, <1>13,
     <1>14, <1>15, <1>16, <1>17, <1>18, <1>19, <1>20, <1>21, <1>22, <1>23, <1>24
  DEF Next, Deliver, vars

\* Every variable keeps its type: in particular no attempt count passes
\* MaxRetries, although deliverEntry counts from a snapshot.
THEOREM TypeCorrect == Spec => []TypeOK
BY BaseInit, BaseStep, PTL DEF Spec, BaseInv

\* A row that is still pending has attempts left, also when batches overlap.
THEOREM PendingRowsHaveTries == Spec => []PendingHasTriesLeft
BY BaseInit, BaseStep, PTL DEF Spec, BaseInv

-----------------------------------------------------------------------------
(* The steps of the poller, sorted by what the next proofs read.            *)

\* A step that touches neither a row, a dead letter nor a job.  The stream may
\* still grow (a legacy publish settles).
Aside ==
    /\ UNCHANGED <<outbox, deadLetters, projected, job, seen>>
    /\ \A e \in Events : stream[e] > 0 => stream'[e] > 0

LEMMA StepKinds ==
    ASSUME BaseInv, [Next]_vars
    PROVE  \/ Aside
           \/ \E s \in Servers, e \in Events : LogEvent(s, e)
           \/ \E s \in Servers : Die(s)
           \/ \E c \in Calls : ReadBatch(c)
           \/ \E c \in Calls, e \in Events : Deliver(c, e) \/ RecordingFails(c, e)
           \/ \E e \in Events : RetryDeadLetter(e) \/ BecomeDue(e)
<1> USE DEF tables, effects, process
<1>1. ASSUME NEW s \in Servers, NEW e \in Events, NEW kind \in {"publish", "trigger"},
             SettleDetached(s, kind, e)
      PROVE Aside
  <2>1. stream \in [Events -> Count]
    BY DEF BaseInv, TypeOK
  <2> DEFINE sent == [stream EXCEPT ![e] = Bump(@)]
  <2>2. \A d \in Events : stream[d] > 0 => sent[d] > 0
    BY <2>1, BumpCounts
  <2>3. stream' = stream \/ stream' = sent
    BY <1>1 DEF SettleDetached
  <2> HIDE DEF sent
  <2> QED
    BY <2>2, <2>3, <1>1 DEF SettleDetached, Aside
<1>2. ASSUME NEW s \in Servers,
             Tick(s) \/ Shutdown(s) \/ Drain(s) \/ DrainSkipped(s) \/ Restart(s)
      PROVE Aside
  BY <1>2 DEF Tick, Shutdown, Drain, DrainSkipped, Restart, Aside
<1>3. ASSUME NEW s \in Servers, Exit(s) \/ Crash(s) PROVE Die(s)
  BY <1>3 DEF Exit, Crash
<1>4. ASSUME NEW c \in Calls, ReadFails(c) \/ FinishBatch(c) PROVE Aside
  BY <1>4 DEF ReadFails, FinishBatch, Aside
<1>5. ASSUME LockExpires \/ LockExpiresEarly PROVE Aside
  BY <1>5 DEF LockExpires, LockExpiresEarly, Aside
<1>6. ASSUME UNCHANGED vars PROVE Aside
  BY <1>6 DEF vars, Aside
<1> QED
  BY <1>1, <1>2, <1>3, <1>4, <1>5, <1>6 DEF Next

-----------------------------------------------------------------------------
(* Delivered rows were fanned out; dead-lettered rows have a dead letter.    *)

\* What a job has done so far, by its step; this is what makes
\* DeliveredWasFannedOut inductive.
JobsDidTheirSteps ==
    \A c \in Calls, e \in Events :
        /\ job[c][e] \in {"project", "mark"} => stream[e] > 0
        /\ job[c][e] = "mark" => projected[e] > 0

FanoutInv == JobsDidTheirSteps /\ DeliveredWasFannedOut /\ DeadLetterIsRecorded

LEMMA FanoutInit == Init => FanoutInv
BY DEF Init, FanoutInv, JobsDidTheirSteps, DeliveredWasFannedOut, DeadLetterIsRecorded,
       NoRow, Quiet

LEMMA FanoutStep == BaseInv /\ FanoutInv /\ [Next]_vars => FanoutInv'
<1> SUFFICES ASSUME BaseInv, FanoutInv, [Next]_vars PROVE FanoutInv'
  OBVIOUS
<1>0. TypeOK
  BY DEF BaseInv
<1> USE <1>0 DEF FanoutInv, JobsDidTheirSteps, DeliveredWasFannedOut, DeadLetterIsRecorded,
                 TypeOK, Row, Settled, Step, tables, effects, process
<1>1. CASE Aside
  BY <1>1 DEF Aside
<1>2. ASSUME NEW s \in Servers, NEW e \in Events, LogEvent(s, e) PROVE FanoutInv'
  BY <1>2 DEF LogEvent, NewRow
<1>3. ASSUME NEW s \in Servers, Die(s) PROVE FanoutInv'
  BY <1>3 DEF Die, Quiet
<1>4. ASSUME NEW c \in Calls, ReadBatch(c) PROVE FanoutInv'
  BY <1>4 DEF ReadBatch
<1>5. ASSUME NEW c \in Calls, NEW e \in Events, Publish(c, e) PROVE FanoutInv'
  <2>1. CASE Advance(c, e, "project") /\ stream' = [stream EXCEPT ![e] = Bump(@)]
    <3>1. stream'[e] > 0 /\ \A d \in Events : stream[d] > 0 => stream'[d] > 0
      BY <2>1, BumpCounts
    <3>2. UNCHANGED <<outbox, deadLetters, projected>>
      BY <1>5 DEF Publish
    <3> QED
      BY <2>1, <3>1, <3>2 DEF Advance
  <2>2. CASE Advance(c, e, "fail") /\ UNCHANGED stream
    BY <2>2, <1>5 DEF Publish, Advance
  <2> QED
    BY <2>1, <2>2, <1>5 DEF Publish
<1>6. ASSUME NEW c \in Calls, NEW e \in Events, Project(c, e) PROVE FanoutInv'
  BY <1>6, BumpCounts DEF Project, Advance
<1>7. ASSUME NEW c \in Calls, NEW e \in Events, MarkDelivered(c, e) PROVE FanoutInv'
  BY <1>7 DEF MarkDelivered, Leave, Advance, Write
<1>8. ASSUME NEW c \in Calls, NEW e \in Events, MarkFails(c, e) PROVE FanoutInv'
  BY <1>8 DEF MarkFails, Advance
<1>9. ASSUME NEW c \in Calls, NEW e \in Events, ScheduleRetry(c, e) PROVE FanoutInv'
  BY <1>9 DEF ScheduleRetry, Leave, Advance, Write
<1>10. ASSUME NEW c \in Calls, NEW e \in Events, DeadLetter(c, e) PROVE FanoutInv'
  BY <1>10, BumpCounts DEF DeadLetter, Leave, Advance, Write
<1>11. ASSUME NEW c \in Calls, NEW e \in Events, RecordingFails(c, e) PROVE FanoutInv'
  BY <1>11 DEF RecordingFails, Leave, Advance
<1>12. ASSUME NEW e \in Events, RetryDeadLetter(e) PROVE FanoutInv'
  BY <1>12 DEF RetryDeadLetter, NewRow
<1>13. ASSUME NEW e \in Events, BecomeDue(e) PROVE FanoutInv'
  BY <1>13 DEF BecomeDue
<1> HIDE DEF FanoutInv
<1> QED
  BY StepKinds, <1>1, <1>2, <1>3, <1>4, <1>5, <1>6, <1>7, <1>8, <1>9, <1>10, <1>11,
     <1>12, <1>13
  DEF Deliver

\* Also when batches overlap, a delivered row means an event that is in the
\* stream and was projected.
THEOREM DeliveredRowsAreHonest == Spec => []DeliveredWasFannedOut
BY BaseInit, BaseStep, FanoutInit, FanoutStep, PTL DEF Spec, FanoutInv

\* Also when batches overlap, a dead-lettered row has its dead letter,
\* retried or not.
THEOREM DeadRowsHaveLetters == Spec => []DeadLetterIsRecorded
BY BaseInit, BaseStep, FanoutInit, FanoutStep, PTL DEF Spec, FanoutInv

-----------------------------------------------------------------------------
(* One batch at a time, when no batch outlives its lock.                    *)

\* Jobs exist only inside a delivering batch.
JobsAreInBatch ==
    \A c \in Calls, e \in Events : job[c][e] # "none" => batch[c] = "delivering"

LockIsHeld == \A c \in Calls : batch[c] # "idle" => lock

\* The lock alone does not give mutual exclusion: DEL is sent by whoever
\* finishes.  It takes the exclusion itself to show that the key deleted is
\* the deleter's own.
ExclusionInv ==
    /\ JobsAreInBatch
    /\ LockOutlivesBatch => LockIsHeld /\ OneBatchAtATime

LEMMA ExclusionInit == Init => ExclusionInv
BY DEF Init, ExclusionInv, JobsAreInBatch, LockIsHeld, OneBatchAtATime, Quiet

LEMMA ExclusionStep == BaseInv /\ ExclusionInv /\ [Next]_vars => ExclusionInv'
<1> SUFFICES ASSUME BaseInv, ExclusionInv, [Next]_vars PROVE ExclusionInv'
  OBVIOUS
<1>0. TypeOK
  BY DEF BaseInv
<1> USE <1>0 DEF ExclusionInv, JobsAreInBatch, LockIsHeld, OneBatchAtATime, TypeOK,
                 tables, effects, process
<1>1. ASSUME UNCHANGED <<batch, job, lock>> PROVE ExclusionInv'
  BY <1>1
<1>2. ASSUME NEW c \in Calls, Acquire(c), UNCHANGED job PROVE ExclusionInv'
  BY <1>2 DEF Acquire
<1>3. ASSUME NEW s \in Servers, Tick(s) \/ Drain(s) PROVE ExclusionInv'
  BY <1>2, <1>3 DEF Tick, Drain, Calls
<1>4. ASSUME NEW s \in Servers, Die(s) PROVE ExclusionInv'
  BY <1>4 DEF Die, Quiet
<1>5. ASSUME NEW c \in Calls, ReadBatch(c) PROVE ExclusionInv'
  BY <1>5 DEF ReadBatch
<1>6. ASSUME NEW c \in Calls, ReadFails(c) PROVE ExclusionInv'
  BY <1>6 DEF ReadFails
<1>7. ASSUME NEW c \in Calls, FinishBatch(c) PROVE ExclusionInv'
  BY <1>7 DEF FinishBatch, Quiet
\* A job that moves on is, and stays, in the batch of its call.
<1>8. ASSUME NEW c \in Calls, NEW e \in Events, NEW step \in Step, job[c][e] # "none",
             Advance(c, e, step), UNCHANGED <<batch, lock>>
      PROVE ExclusionInv'
  BY <1>8 DEF Advance
<1>9. ASSUME NEW c \in Calls, NEW e \in Events, Deliver(c, e) \/ RecordingFails(c, e)
      PROVE ExclusionInv'
  <2>1. job[c][e] # "none" /\ UNCHANGED <<batch, lock>>
    BY <1>9 DEF Deliver, Publish, Project, MarkDelivered, MarkFails, ScheduleRetry,
                DeadLetter, RecordingFails
  <2>2. PICK step \in Step : Advance(c, e, step)
    BY <1>9 DEF Deliver, Publish, Project, MarkDelivered, MarkFails, ScheduleRetry,
                DeadLetter, RecordingFails, Leave, Step
  <2> HIDE DEF ExclusionInv
  <2> QED
    BY <2>1, <2>2, <1>8
<1>10. ASSUME NEW s \in Servers, Shutdown(s) \/ DrainSkipped(s) \/ Restart(s)
       PROVE ExclusionInv'
  BY <1>10, <1>1 DEF Shutdown, DrainSkipped, Restart
<1>11. ASSUME NEW s \in Servers, NEW e \in Events,
              LogEvent(s, e) \/ \E kind \in {"publish", "trigger"} : SettleDetached(s, kind, e)
       PROVE ExclusionInv'
  BY <1>11, <1>1 DEF LogEvent, SettleDetached
<1>12. ASSUME NEW e \in Events, RetryDeadLetter(e) \/ BecomeDue(e) PROVE ExclusionInv'
  BY <1>12, <1>1 DEF RetryDeadLetter, BecomeDue
<1>13. CASE LockExpires
  BY <1>13 DEF LockExpires, BatchInFlight
<1>14. CASE LockExpiresEarly
  BY <1>14 DEF LockExpiresEarly
<1>15. CASE UNCHANGED vars
  BY <1>15, <1>1 DEF vars
<1> HIDE DEF ExclusionInv
<1> QED
  BY <1>3, <1>4, <1>5, <1>6, <1>7, <1>9, <1>10, <1>11, <1>12, <1>13, <1>14, <1>15
  DEF Next, Exit, Crash

\* Provided that no batch lasts longer than the lock's TTL, two calls of
\* processOutboxBatch never overlap: not two servers, not a tick and a drain.
THEOREM MutualExclusion ==
    ASSUME LockOutlivesBatch PROVE Spec => []OneBatchAtATime
<1>1. Spec => []ExclusionInv
  BY BaseInit, BaseStep, ExclusionInit, ExclusionStep, PTL DEF Spec
<1>2. ExclusionInv => OneBatchAtATime
  BY DEF ExclusionInv
<1> QED
  BY <1>1, <1>2, PTL

-----------------------------------------------------------------------------
(* Snapshots are current, and a failure has one dead letter.                *)

AbsentIsUntried ==
    \A e \in Events : outbox[e].status = "absent" => outbox[e].attempts = 0

RowInv == SnapshotIsCurrent /\ OneDeadLetterPerFailure /\ AbsentIsUntried

LEMMA RowInit == Init => RowInv
BY DEF Init, RowInv, SnapshotIsCurrent, OneDeadLetterPerFailure, AbsentIsUntried, NoRow, Quiet

\* With one batch at a time, the rows of a batch are written by its own jobs
\* alone, and a job leaves the batch with the write.
LEMMA RowStep ==
    LockOutlivesBatch /\ BaseInv /\ ExclusionInv /\ RowInv /\ [Next]_vars => RowInv'
<1> SUFFICES ASSUME LockOutlivesBatch, BaseInv, ExclusionInv, RowInv, [Next]_vars
             PROVE RowInv'
  OBVIOUS
<1>0. TypeOK /\ JobsAreInBatch /\ OneBatchAtATime
  BY DEF BaseInv, ExclusionInv
<1> USE DEF RowInv, SnapshotIsCurrent, OneDeadLetterPerFailure, AbsentIsUntried
<1>a. outbox \in [Events -> Row] /\ deadLetters \in [Events -> Count]
      /\ job \in [Calls -> [Events -> Step]]
      /\ seen \in [Calls -> [Events -> 0 .. MaxRetries]]
  BY <1>0 DEF TypeOK
<1>b. \A c, d \in Calls, e \in Events : job[c][e] # "none" /\ job[d][e] # "none" => c = d
  BY <1>0 DEF JobsAreInBatch, OneBatchAtATime
<1> USE <1>a DEF Row, Settled
<1>1. CASE Aside
  BY <1>1 DEF Aside
<1>2. ASSUME NEW s \in Servers, NEW e \in Events, LogEvent(s, e) PROVE RowInv'
  BY <1>2 DEF LogEvent, NewRow, process
<1>3. ASSUME NEW s \in Servers, Die(s) PROVE RowInv'
  BY <1>3 DEF Die, Quiet, Unseen, tables
<1>4. ASSUME NEW c \in Calls, ReadBatch(c) PROVE RowInv'
  <2>1. \A e \in Events : e \in DueBatch => outbox[e].status = "pending"
    BY DEF DueBatch, Due
  <2> QED
    BY <1>4, <2>1 DEF ReadBatch, tables
<1>5. ASSUME NEW c \in Calls, NEW e \in Events, NEW step \in Step, job[c][e] # "none",
             Advance(c, e, step), UNCHANGED <<outbox, deadLetters, seen>>
      PROVE RowInv'
  BY <1>5 DEF Advance
<1>7. ASSUME NEW c \in Calls, NEW e \in Events, MarkDelivered(c, e) PROVE RowInv'
  <2>1. job[c][e] # "none" /\ outbox[e].status = "pending" /\ deadLetters[e] = 0
    BY <1>7 DEF MarkDelivered
  <2>2. outbox'[e].status = "delivered" /\ UNCHANGED deadLetters
    BY <1>7 DEF MarkDelivered, Write
  <2>3. \A d \in Events : d # e => outbox'[d] = outbox[d]
    BY <1>7 DEF MarkDelivered, Write
  <2>4. SnapshotIsCurrent'
    BY <1>7, <1>b, <2>1, <2>3 DEF MarkDelivered, Leave, Advance
  <2>5. AbsentIsUntried'
    BY <2>2, <2>3
  <2>6. OneDeadLetterPerFailure'
    BY <2>1, <2>2, <2>3
  <2> QED
    BY <2>4, <2>5, <2>6
<1>8. ASSUME NEW c \in Calls, NEW e \in Events, ScheduleRetry(c, e) PROVE RowInv'
  BY <1>8, <1>b DEF ScheduleRetry, Write, Leave, Advance
<1>9. ASSUME NEW c \in Calls, NEW e \in Events, DeadLetter(c, e) PROVE RowInv'
  <2>1. /\ job[c][e] # "none" /\ outbox[e].status = "pending" /\ deadLetters[e] = 0
        /\ outbox'[e].status = "dead_lettered" /\ deadLetters'[e] = 1
    BY <1>9 DEF DeadLetter, Write, Bump, Many
  <2>2. \A d \in Events : d # e => outbox'[d] = outbox[d] /\ deadLetters'[d] = deadLetters[d]
    BY <1>9 DEF DeadLetter, Write
  <2>3. SnapshotIsCurrent'
    BY <1>9, <1>b, <2>1, <2>2 DEF DeadLetter, Leave, Advance
  <2>4. AbsentIsUntried'
    BY <2>1, <2>2
  <2>5. OneDeadLetterPerFailure'
    BY <2>1, <2>2
  <2> QED
    BY <2>3, <2>4, <2>5
<1>10. ASSUME NEW c \in Calls, NEW e \in Events, RecordingFails(c, e) PROVE RowInv'
  BY <1>10 DEF RecordingFails, Leave, Advance, tables
<1>11. ASSUME NEW e \in Events, RetryDeadLetter(e) PROVE RowInv'
  BY <1>11 DEF RetryDeadLetter, process
<1>12. ASSUME NEW e \in Events, BecomeDue(e) PROVE RowInv'
  BY <1>12 DEF BecomeDue, process
<1>13. ASSUME NEW c \in Calls, NEW e \in Events, Publish(c, e) \/ Project(c, e) \/ MarkFails(c, e)
       PROVE RowInv'
  <2>1. job[c][e] # "none" /\ UNCHANGED <<outbox, deadLetters, seen>>
    BY <1>13 DEF Publish, Project, MarkFails, tables
  <2>2. PICK step \in Step : Advance(c, e, step)
    BY <1>13 DEF Publish, Project, MarkFails, Step
  <2> HIDE DEF RowInv
  <2> QED
    BY <2>1, <2>2, <1>5
<1> HIDE DEF RowInv
<1> QED
  BY StepKinds, <1>1, <1>2, <1>3, <1>4, <1>7, <1>8, <1>9, <1>10, <1>11, <1>12, <1>13
  DEF Deliver

LEMMA ExclusiveInvariant ==
    ASSUME LockOutlivesBatch
    PROVE  Spec => [](BaseInv /\ FanoutInv /\ ExclusionInv /\ RowInv)
BY BaseInit, BaseStep, FanoutInit, FanoutStep, ExclusionInit, ExclusionStep,
   RowInit, RowStep, PTL DEF Spec

\* Provided that no batch outlives its lock, no deliverEntry works from a stale
\* row.
THEOREM SnapshotsAreCurrent == ASSUME LockOutlivesBatch PROVE Spec => []SnapshotIsCurrent
BY ExclusiveInvariant, PTL DEF RowInv

\* Provided that no batch outlives its lock, a row has exactly one dead letter
\* while it is dead-lettered and none before.
THEOREM DeadLettersMatchFailures ==
    ASSUME LockOutlivesBatch PROVE Spec => []OneDeadLetterPerFailure
BY ExclusiveInvariant, PTL DEF RowInv

-----------------------------------------------------------------------------
(* The steps of a row, and the abstract delivery service.                   *)

ExclusiveInv == BaseInv /\ FanoutInv /\ ExclusionInv /\ RowInv

\* Nothing the service sees happens to the rows.
RowsKeep ==
    \A e \in Events : /\ outbox'[e].status = outbox[e].status
                      /\ outbox'[e].attempts = outbox[e].attempts
                      /\ outbox[e].status \in Settled => outbox'[e] = outbox[e]

\* One row is created, or a try of it ends.
RowMoves(e) ==
    /\ \A d \in Events \ {e} : outbox'[d] = outbox[d]
    /\ \/ /\ outbox[e].status = "absent" /\ outbox'[e].status = "pending"
          /\ outbox'[e].attempts = outbox[e].attempts
       \/ /\ outbox[e].status = "pending"
          /\ outbox'[e].attempts = outbox[e].attempts + 1
          /\ \/ outbox'[e].status = "pending" /\ outbox'[e].attempts < MaxRetries
             \/ outbox'[e].status = "dead_lettered" /\ outbox'[e].attempts = MaxRetries
             \/ outbox'[e].status = "delivered" /\ projected[e] > 0

\* The projectors run on one event, which is pending.
Projects(e) ==
    /\ outbox[e].status = "pending"
    /\ projected'[e] > 0
    /\ \A d \in Events \ {e} : projected'[d] = projected[d]

LEMMA RowSteps ==
    ASSUME LockOutlivesBatch, ExclusiveInv, [Next]_vars
    PROVE  \/ RowsKeep /\ UNCHANGED projected
           \/ \E e \in Events : RowMoves(e) /\ UNCHANGED projected
           \/ \E e \in Events : RowsKeep /\ Projects(e)
<1> USE DEF tables, effects, process
<1>1. /\ outbox \in [Events -> Row] /\ projected \in [Events -> Count]
      /\ SnapshotIsCurrent /\ JobsDidTheirSteps /\ SeenHasTriesLeft /\ AbsentIsUntried
      /\ seen \in [Calls -> [Events -> 0 .. MaxRetries]]
      /\ OneDeadLetterPerFailure
  BY DEF ExclusiveInv, BaseInv, TypeOK, FanoutInv, RowInv
<1>2. CASE Aside
  BY <1>2 DEF Aside, RowsKeep
<1>3. ASSUME NEW s \in Servers, NEW e \in Events, LogEvent(s, e)
      PROVE RowMoves(e) /\ UNCHANGED projected
  BY <1>1, <1>3 DEF LogEvent, NewRow, RowMoves, AbsentIsUntried
<1>4. ASSUME NEW s \in Servers, Die(s) PROVE RowsKeep /\ UNCHANGED projected
  BY <1>4 DEF Die, RowsKeep
<1>5. ASSUME NEW c \in Calls, ReadBatch(c) PROVE RowsKeep /\ UNCHANGED projected
  BY <1>5 DEF ReadBatch, RowsKeep
<1>6. ASSUME NEW c \in Calls, NEW e \in Events, job[c][e] # "none"
      PROVE /\ outbox[e].status = "pending" /\ outbox[e].attempts = seen[c][e]
            /\ seen[c][e] \in 0 .. MaxRetries /\ seen[c][e] < MaxRetries
  BY <1>1, <1>6 DEF SnapshotIsCurrent, SeenHasTriesLeft
<1>7. ASSUME NEW c \in Calls, NEW e \in Events,
             Publish(c, e) \/ MarkFails(c, e) \/ RecordingFails(c, e)
      PROVE RowsKeep /\ UNCHANGED projected
  BY <1>7 DEF Publish, MarkFails, RecordingFails, RowsKeep
<1>8. ASSUME NEW c \in Calls, NEW e \in Events, Project(c, e) PROVE RowsKeep /\ Projects(e)
  BY <1>1, <1>6, <1>8, BumpCounts DEF Project, RowsKeep, Projects
<1>9. ASSUME NEW c \in Calls, NEW e \in Events, MarkDelivered(c, e)
      PROVE RowMoves(e) /\ UNCHANGED projected
  BY <1>1, <1>6, <1>9 DEF MarkDelivered, Write, RowMoves, JobsDidTheirSteps
<1>10. ASSUME NEW c \in Calls, NEW e \in Events, ScheduleRetry(c, e)
       PROVE RowMoves(e) /\ UNCHANGED projected
  BY <1>1, <1>6, <1>10 DEF ScheduleRetry, NewAttempts, Write, RowMoves
<1>11. ASSUME NEW c \in Calls, NEW e \in Events, DeadLetter(c, e)
       PROVE RowMoves(e) /\ UNCHANGED projected
  BY <1>1, <1>6, <1>11, RetriesAssumption DEF DeadLetter, NewAttempts, Write, RowMoves
<1>12. ASSUME NEW e \in Events, RetryDeadLetter(e) PROVE RowsKeep /\ UNCHANGED projected
  BY <1>1, <1>12 DEF RetryDeadLetter, RowsKeep, OneDeadLetterPerFailure
<1>13. ASSUME NEW e \in Events, BecomeDue(e) PROVE RowsKeep /\ UNCHANGED projected
  BY <1>1, <1>13 DEF BecomeDue, RowsKeep, Row, Settled
<1> QED
  BY StepKinds, <1>2, <1>3, <1>4, <1>5, <1>7, <1>8, <1>9, <1>10, <1>11, <1>12, <1>13
  DEF ExclusiveInv, Deliver

LEMMA RowsOnlyProgress ==
    ASSUME LockOutlivesBatch PROVE Spec => SettledIsFinal /\ AttemptsOnlyGrow
<1>1. ASSUME ExclusiveInv, [Next]_vars
      PROVE \A e \in Events : /\ outbox[e].status \in Settled => outbox'[e] = outbox[e]
                              /\ outbox'[e].attempts >= outbox[e].attempts
  <2>1. \A e \in Events : outbox[e].attempts \in Nat
    BY <1>1 DEF ExclusiveInv, BaseInv, TypeOK, Row
  <2>2. CASE RowsKeep
    BY <2>1, <2>2 DEF RowsKeep
  <2>3. ASSUME NEW e \in Events, RowMoves(e)
        PROVE \A d \in Events : /\ outbox[d].status \in Settled => outbox'[d] = outbox[d]
                                /\ outbox'[d].attempts >= outbox[d].attempts
    BY <2>1, <2>3 DEF RowMoves, Settled
  <2> QED
    BY <1>1, <2>2, <2>3, RowSteps
<1>2. ExclusiveInv /\ [Next]_vars =>
        [\A e \in Events : outbox[e].status \in Settled => outbox'[e] = outbox[e]]_vars
  BY <1>1
<1>3. ExclusiveInv /\ [Next]_vars =>
        [\A e \in Events : outbox'[e].attempts >= outbox[e].attempts]_vars
  BY <1>1
<1> QED
  BY <1>2, <1>3, ExclusiveInvariant, PTL DEF ExclusiveInv, Spec, SettledIsFinal,
     AttemptsOnlyGrow

\* Provided that no batch outlives its lock, delivered and dead-lettered are final.
THEOREM SettledRowsAreFinal == ASSUME LockOutlivesBatch PROVE Spec => SettledIsFinal
BY RowsOnlyProgress

\* Provided that no batch outlives its lock, no step takes an attempt back.
THEOREM AttemptsNeverShrink == ASSUME LockOutlivesBatch PROVE Spec => AttemptsOnlyGrow
BY RowsOnlyProgress

\* Provided that no batch outlives its lock, the poller implements the abstract
\* at-least-once delivery service.
THEOREM PollerImplementsDelivery == ASSUME LockOutlivesBatch PROVE Spec => ImplementsDelivery
<1> DEFINE State == [e \in Events |-> outbox[e].status]
           Performed == [e \in Events |-> projected[e] > 0]
           Failures == [e \in Events |-> outbox[e].attempts]
<1>1. ASSUME Init PROVE Delivery!Init
  <2>1. State = [e \in Events |-> "absent"] /\ Failures = [e \in Events |-> 0]
    BY <1>1 DEF Init, NoRow
  <2>2. \A e \in Events : (projected[e] > 0) = FALSE
    BY <1>1 DEF Init
  <2>3. Performed = [e \in Events |-> FALSE]
    BY <2>2
  <2> QED
    BY <2>1, <2>3 DEF Delivery!Init
<1>2. ASSUME ExclusiveInv, [Next]_vars PROVE [Delivery!Next]_(Delivery!dvars)
  <2>0. outbox \in [Events -> Row] /\ projected \in [Events -> Count]
    BY <1>2 DEF ExclusiveInv, BaseInv, TypeOK
  <2>1. CASE RowsKeep /\ UNCHANGED projected
    BY <2>1 DEF RowsKeep, Delivery!dvars
  <2>2. ASSUME NEW e \in Events, RowsKeep, Projects(e) PROVE Delivery!Perform(e)
    <3>1. State[e] = "pending" /\ UNCHANGED <<State, Failures>>
      BY <2>2 DEF RowsKeep, Projects
    <3>2. Performed' = [Performed EXCEPT ![e] = TRUE]
      BY <2>2 DEF Projects
    <3> QED
      BY <3>1, <3>2 DEF Delivery!Perform
  <2>3. ASSUME NEW e \in Events, RowMoves(e), UNCHANGED projected
        PROVE Delivery!Log(e) \/ Delivery!Fail(e) \/ Delivery!GiveUp(e) \/ Delivery!Complete(e)
    <3>1. UNCHANGED Performed
      BY <2>3
    <3>2. State' = [State EXCEPT ![e] = outbox'[e].status]
      BY <2>3 DEF RowMoves
    <3>3. Failures' = [Failures EXCEPT ![e] = outbox'[e].attempts]
      BY <2>3 DEF RowMoves
    <3>4. /\ State[e] = outbox[e].status /\ Failures[e] = outbox[e].attempts
          /\ Performed[e] = (projected[e] > 0)
      OBVIOUS
    <3>5. CASE outbox[e].status = "absent"
      <4>1. outbox'[e].status = "pending" /\ outbox'[e].attempts = outbox[e].attempts
        BY <2>3, <3>5 DEF RowMoves
      <4>2. UNCHANGED Failures
        BY <2>3, <4>1 DEF RowMoves
      <4> QED
        BY <3>1, <3>2, <3>4, <3>5, <4>1, <4>2 DEF Delivery!Log
    <3>6. CASE outbox[e].status = "pending"
      <4>1. Failures' = [Failures EXCEPT ![e] = @ + 1]
        BY <2>3, <3>3, <3>4, <3>6 DEF RowMoves
      <4>2. CASE outbox'[e].status = "pending" /\ outbox'[e].attempts < MaxRetries
        <5>1. UNCHANGED State
          BY <2>3, <3>6, <4>2 DEF RowMoves
        <5> QED
          BY <2>3, <3>1, <3>4, <3>6, <4>1, <4>2, <5>1 DEF RowMoves, Delivery!Fail
      <4>3. CASE outbox'[e].status = "dead_lettered" /\ outbox'[e].attempts = MaxRetries
        BY <2>3, <3>1, <3>2, <3>4, <3>6, <4>1, <4>3 DEF RowMoves, Delivery!GiveUp
      <4>4. CASE outbox'[e].status = "delivered" /\ projected[e] > 0
        BY <3>1, <3>2, <3>4, <3>6, <4>1, <4>4 DEF Delivery!Complete
      <4> QED
        BY <2>3, <3>6, <4>2, <4>3, <4>4 DEF RowMoves
    <3> QED
      BY <2>3, <3>5, <3>6 DEF RowMoves
  <2> QED
    BY <1>2, <2>1, <2>2, <2>3, RowSteps DEF Delivery!Next
<1> QED
  BY <1>1, <1>2, ExclusiveInvariant, PTL DEF ExclusiveInv, Spec, ImplementsDelivery,
     Delivery!Spec

-----------------------------------------------------------------------------
(* EventStore, for any number of concurrent callers, aggregates, keys and   *)
(* events.                                                                  *)

\* What a call read still says something about the store when it commits: an
\* event it could see has another key and a lower version.
KeyUnseen(k, n) == \A i \in Recent : i <= n /\ k # NoKey => store[i].key # k
VersionAbove(a, v, n) ==
    \A i \in Stored : i <= n /\ store[i].aggregate = a => store[i].version < v

CheckedHolds(c) ==
    call[c].at = "checked" =>
        /\ call[c].checked <= Len(store)
        /\ KeyUnseen(call[c].key, call[c].checked)

VersionedHolds(c) ==
    LET ev == call[c].event IN
    call[c].at = "versioned" =>
        /\ ev.checked <= Len(store)
        /\ ev.based <= Len(store)
        /\ KeyUnseen(ev.key, ev.checked)
        /\ VersionAbove(ev.aggregate, ev.version, ev.based)

ReadsHold == \A c \in Callers : CheckedHolds(c) /\ VersionedHolds(c)

StoreInv == StoreTypeOK /\ ReadsHold /\ VersionsFollowCommits /\ KeyReuseNeedsOverlap

LEMMA StoreInit == InitStore => StoreInv
BY BoundAssumption DEF InitStore, StoreInv, StoreTypeOK, ReadsHold, VersionsFollowCommits,
   KeyReuseNeedsOverlap, Stored, Recent, Call, Idle, CheckedHolds, VersionedHolds

LEMMA StoreStep == StoreInv /\ [NextStore]_storeVars => StoreInv'
<1> SUFFICES ASSUME StoreInv, [NextStore]_storeVars PROVE StoreInv'
  OBVIOUS
<1> USE DEF StoreInv, StoreTypeOK
<1>0. Len(store) \in Nat /\ stale \in Nat /\ deleted \in Nat
  OBVIOUS
<1>1. ASSUME NEW c \in Callers, NEW a \in Aggregates, NEW k \in Keys \cup {NoKey},
             CheckKey(c, a, k)
      PROVE StoreInv'
  <2>1. UNCHANGED <<store, deleted, stale>>
    BY <1>1 DEF CheckKey
  <2>2. call' \in [Callers -> Call]
    BY <1>0, <1>1 DEF CheckKey, Call
  <2>3. \A i \in Recent : k # NoKey => store[i].key # k
    BY <1>1 DEF CheckKey, KeyTaken
  <2>4. ReadsHold'
    <3>1. ASSUME NEW d \in Callers, d # c PROVE CheckedHolds(d)' /\ VersionedHolds(d)'
      BY <1>1, <2>1, <3>1 DEF CheckKey, ReadsHold, CheckedHolds, VersionedHolds,
                             KeyUnseen, VersionAbove, Recent, Stored
    <3>2. CheckedHolds(c)' /\ VersionedHolds(c)'
      BY <1>0, <1>1, <2>1, <2>3 DEF CheckKey, CheckedHolds, VersionedHolds, KeyUnseen,
                                    Recent, Stored
    <3> QED
      BY <3>1, <3>2 DEF ReadsHold
  <2> QED
    BY <2>1, <2>2, <2>4 DEF VersionsFollowCommits, KeyReuseNeedsOverlap,
       Stored, Recent
<1>2. ASSUME NEW c \in Callers, ReadVersion(c) PROVE StoreInv'
  <2>1. UNCHANGED <<store, deleted, stale>>
    BY <1>2 DEF ReadVersion
  <2>2. PICK v \in Version :
           /\ IsNextVersion(call[c].aggregate, v)
           /\ call' = [call EXCEPT ![c] =
                          [at |-> "versioned",
                           event |-> [aggregate |-> call[c].aggregate, key |-> call[c].key,
                                      version |-> v, checked |-> call[c].checked,
                                      based |-> Len(store)]]]
    BY <1>2 DEF ReadVersion
  <2>3. /\ call[c].at = "checked"
        /\ call[c].aggregate \in Aggregates
        /\ call[c].key \in Keys \cup {NoKey}
        /\ call[c].checked \in 0 .. MaxEvents
    BY <1>2 DEF ReadVersion, Call, Idle
  <2>4. call' \in [Callers -> Call]
    BY <1>0, <2>2, <2>3 DEF Call, Event
  <2>5. ReadsHold'
    <3>1. ASSUME NEW d \in Callers, d # c PROVE CheckedHolds(d)' /\ VersionedHolds(d)'
      BY <2>1, <2>2, <3>1 DEF ReadsHold, CheckedHolds, VersionedHolds,
                             KeyUnseen, VersionAbove, Recent, Stored
    <3>2. call'[c] = [at |-> "versioned",
                      event |-> [aggregate |-> call[c].aggregate, key |-> call[c].key,
                                 version |-> v, checked |-> call[c].checked,
                                 based |-> Len(store)]]
      BY <2>2
    <3>3. CheckedHolds(c)'
      BY <3>2 DEF CheckedHolds
    <3>4. CheckedHolds(c)
      BY DEF ReadsHold
    <3>5. KeyUnseen(call[c].key, call[c].checked) /\ VersionAbove(call[c].aggregate, v, Len(store))
      BY <2>2, <2>3, <3>4 DEF CheckedHolds, VersionAbove, IsNextVersion
    <3>6. VersionedHolds(c)'
      BY <1>0, <2>1, <2>3, <3>2, <3>4, <3>5 DEF VersionedHolds, CheckedHolds, KeyUnseen,
                                               VersionAbove, Recent, Stored
    <3> QED
      BY <3>1, <3>3, <3>6 DEF ReadsHold
  <2> QED
    BY <2>1, <2>4, <2>5 DEF VersionsFollowCommits, KeyReuseNeedsOverlap,
       Stored, Recent
<1>3. ASSUME NEW c \in Callers, Commit(c) PROVE StoreInv'
  <2> DEFINE ev == call[c].event
  <2>1. ev \in Event /\ call[c].at = "versioned"
    BY <1>3 DEF Commit, Call, Idle
  <2>2. /\ store' = Append(store, ev)
        /\ Len(store') = Len(store) + 1
        /\ Len(store) < MaxEvents
        /\ store' \in Seq(Event)
        /\ \A i \in 1 .. Len(store) : store'[i] = store[i]
        /\ store'[Len(store) + 1] = ev
    BY <1>3, <2>1 DEF Commit
  <2>3. /\ UNCHANGED <<deleted, stale>>
        /\ call' = [call EXCEPT ![c] = Idle]
    BY <1>3 DEF Commit
  <2>4. StoreTypeOK'
    BY BoundAssumption, <1>0, <2>2, <2>3 DEF Call, Idle
  <2>5. Stored' = Stored \cup {Len(store) + 1} /\ Recent' = Recent \cup {Len(store) + 1}
    BY <1>0, <2>2, <2>3 DEF Stored, Recent
  <2>6. \A i \in Stored : i \in 1 .. Len(store) /\ i \in Nat
    BY <1>0 DEF Stored
  <2>7. Recent \subseteq Stored
    BY DEF Recent
  <2>8. ReadsHold'
    <3>1. ASSUME NEW d \in Callers, d # c PROVE CheckedHolds(d)' /\ VersionedHolds(d)'
      <4>1. call'[d] = call[d]
        BY <2>3, <3>1
      <4>2. CASE call[d].at = "checked"
        <5>1. call[d].checked \in Nat /\ call[d].checked <= Len(store)
              /\ KeyUnseen(call[d].key, call[d].checked)
          BY <4>2 DEF Call, Idle, ReadsHold, CheckedHolds
        <5>2. KeyUnseen(call[d].key, call[d].checked)'
          BY <1>0, <2>2, <2>5, <2>6, <2>7, <4>1, <5>1 DEF KeyUnseen
        <5> QED
          BY <1>0, <2>2, <4>1, <4>2, <5>1, <5>2 DEF CheckedHolds, VersionedHolds
      <4>3. CASE call[d].at = "versioned"
        <5> DEFINE other == call[d].event
        <5>1. /\ other \in Event /\ other.checked <= Len(store) /\ other.based <= Len(store)
              /\ KeyUnseen(other.key, other.checked)
              /\ VersionAbove(other.aggregate, other.version, other.based)
          BY <4>3 DEF Call, Idle, ReadsHold, VersionedHolds
        <5>2. other' = other /\ other.checked \in Nat /\ other.based \in Nat
          BY <4>1, <5>1 DEF Event
        <5> HIDE DEF other
        <5>3. KeyUnseen(other.key, other.checked)'
          <6> SUFFICES ASSUME NEW i \in Recent', i <= other.checked, other.key # NoKey
                       PROVE  store'[i].key # other.key
            BY <5>2 DEF KeyUnseen
          <6>1. i \in Recent /\ i \in 1 .. Len(store)
            BY <1>0, <2>5, <2>6, <2>7, <5>1, <5>2
          <6> QED
            BY <2>2, <5>1, <6>1 DEF KeyUnseen
        <5>4. VersionAbove(other.aggregate, other.version, other.based)'
          <6> SUFFICES ASSUME NEW i \in Stored', i <= other.based,
                              store'[i].aggregate = other.aggregate
                       PROVE  store'[i].version < other.version
            BY <5>2 DEF VersionAbove
          <6>1. i \in Stored /\ i \in 1 .. Len(store)
            BY <1>0, <2>5, <2>6, <5>1, <5>2
          <6> QED
            BY <2>2, <5>1, <6>1 DEF VersionAbove
        <5>5. other'.checked <= Len(store') /\ other'.based <= Len(store')
          BY <1>0, <2>2, <5>1, <5>2
        <5> QED
          BY <4>1, <4>3, <5>3, <5>4, <5>5 DEF CheckedHolds, VersionedHolds, other
      <4> QED
        BY <4>1, <4>2, <4>3 DEF CheckedHolds, VersionedHolds
    <3>2. CheckedHolds(c)' /\ VersionedHolds(c)'
      BY <2>3 DEF Idle, CheckedHolds, VersionedHolds
    <3> QED
      BY <3>1, <3>2 DEF ReadsHold
  <2>9. /\ ev.checked \in Nat /\ ev.based \in Nat
        /\ KeyUnseen(ev.key, ev.checked) /\ VersionAbove(ev.aggregate, ev.version, ev.based)
    BY <2>1 DEF Event, ReadsHold, VersionedHolds
  <2> HIDE DEF ev
  <2>10. VersionsFollowCommits'
    <3> SUFFICES ASSUME NEW i \in Stored', NEW j \in Stored', i < j,
                        store'[i].aggregate = store'[j].aggregate, i <= store'[j].based
                 PROVE  store'[i].version < store'[j].version
      BY DEF VersionsFollowCommits
    <3>1. i \in Stored /\ store'[i] = store[i]
      BY <1>0, <2>2, <2>5, <2>6
    <3>2. CASE j \in Stored
      BY <2>2, <2>6, <3>1, <3>2 DEF VersionsFollowCommits
    <3>3. CASE j = Len(store) + 1
      BY <2>2, <2>9, <3>1, <3>3 DEF VersionAbove
    <3> QED
      BY <2>5, <3>2, <3>3
  <2>11. KeyReuseNeedsOverlap'
    <3> SUFFICES ASSUME NEW i \in Recent', NEW j \in Recent', i < j,
                        store'[i].key = store'[j].key, store'[i].key # NoKey
                 PROVE  store'[j].checked < i
      BY DEF KeyReuseNeedsOverlap
    <3>1. i \in Recent /\ store'[i] = store[i] /\ i \in Nat
      BY <1>0, <2>2, <2>5, <2>6, <2>7
    <3>2. CASE j \in Recent
      BY <2>2, <2>6, <2>7, <3>1, <3>2 DEF KeyReuseNeedsOverlap
    <3>3. CASE j = Len(store) + 1
      BY <2>2, <2>9, <3>1, <3>3 DEF KeyUnseen
    <3> QED
      BY <2>5, <3>2, <3>3
  <2> QED
    BY <2>4, <2>8, <2>10, <2>11
<1>4. ASSUME NEW c \in Callers, Abandon(c) PROVE StoreInv'
  BY <1>4 DEF Abandon, ReadsHold, CheckedHolds, VersionedHolds, KeyUnseen, VersionAbove,
              VersionsFollowCommits, KeyReuseNeedsOverlap, Stored,
              Recent, Call, Idle
<1>5. CASE Age
  <2>1. Recent' \subseteq Recent /\ Stored' = Stored /\ UNCHANGED <<store, call>>
    BY <1>0, <1>5 DEF Age, Recent, Stored
  <2>2. StoreTypeOK'
    BY <1>0, <1>5 DEF Age
  <2> QED
    BY <2>1, <2>2 DEF ReadsHold, CheckedHolds, VersionedHolds, KeyUnseen, VersionAbove,
                      VersionsFollowCommits, KeyReuseNeedsOverlap
<1>6. CASE Cleanup
  <2>1. /\ Recent' \subseteq Recent /\ Stored' \subseteq Stored
        /\ UNCHANGED <<store, call, stale>>
    BY <1>0, <1>6 DEF Cleanup, Recent, Stored
  <2>2. StoreTypeOK'
    BY <1>0, <1>6 DEF Cleanup
  <2> QED
    BY <2>1, <2>2 DEF ReadsHold, CheckedHolds, VersionedHolds, KeyUnseen, VersionAbove,
                      VersionsFollowCommits, KeyReuseNeedsOverlap
<1>7. CASE UNCHANGED storeVars
  BY <1>7 DEF storeVars, ReadsHold, CheckedHolds, VersionedHolds, KeyUnseen, VersionAbove,
              VersionsFollowCommits, KeyReuseNeedsOverlap, Stored,
              Recent
<1> HIDE DEF StoreInv
<1> QED
  BY <1>1, <1>2, <1>3, <1>4, <1>5, <1>6, <1>7 DEF NextStore

\* Every variable stays in its type.
THEOREM EventTypesHold == StoreSpec => []StoreTypeOK
BY StoreInit, StoreStep, PTL DEF StoreSpec, StoreInv

\* An event that was committed before another call read the version has a lower
\* version: this is all that is left of "optimistic versioning" without a unique
\* index on the aggregate and the version.
THEOREM OnlyOverlapsCollide == StoreSpec => []VersionsFollowCommits
BY StoreInit, StoreStep, PTL DEF StoreSpec, StoreInv

\* An idempotency key is used twice within a day only where calls overlapped.
THEOREM OnlyOverlapsReuseKeys == StoreSpec => []KeyReuseNeedsOverlap
BY StoreInit, StoreStep, PTL DEF StoreSpec, StoreInv

-----------------------------------------------------------------------------
(* Without retention the versions have no gap.                              *)

Filled(a, v) == \E j \in Stored : store[j].aggregate = a /\ store[j].version = v
FilledBefore(i, v) ==
    \E j \in Stored : /\ j <= i
                      /\ store[j].aggregate = store[i].aggregate
                      /\ store[j].version = v

\* What a call has read: every version below the one it is about to use.
ReadsFill ==
    \A c \in Callers : call[c].at = "versioned" =>
        \A v \in Version : v < call[c].event.version => Filled(call[c].event.aggregate, v)

GapInv == deleted = 0 =>
    /\ \A i \in Stored : \A v \in 1 .. store[i].version : FilledBefore(i, v)
    /\ ReadsFill

LEMMA GapStep == StoreInv /\ GapInv /\ [NextStore]_storeVars => GapInv'
<1> SUFFICES ASSUME StoreInv, GapInv, [NextStore]_storeVars, (deleted = 0)' PROVE
               /\ (\A i \in Stored : \A v \in 1 .. store[i].version : FilledBefore(i, v))'
               /\ ReadsFill'
  BY DEF GapInv
<1>0. /\ StoreTypeOK
      /\ Len(store) \in Nat /\ stale \in Nat /\ deleted \in Nat
      /\ \A i \in Stored : i \in 1 .. Len(store)
  BY DEF StoreInv, StoreTypeOK, Stored
<1>1. \A i \in Stored : store[i].version \in Version /\ store[i].version \in Nat
  <2>1. \A i \in Stored : store[i] \in Event
    BY <1>0 DEF StoreTypeOK
  <2> QED
    BY <2>1 DEF Event, Version
<1>2. ASSUME UNCHANGED <<store, deleted>>
      PROVE  /\ Stored' = Stored
             /\ \A a \in Aggregates, v \in Version : Filled(a, v)' = Filled(a, v)
             /\ GapInv => (\A i \in Stored : \A v \in 1 .. store[i].version : FilledBefore(i, v))'
  BY <1>2 DEF Stored, Filled, FilledBefore, GapInv
<1>3. ASSUME NEW c \in Callers, NEW a \in Aggregates, NEW k \in Keys \cup {NoKey},
             CheckKey(c, a, k)
      PROVE  ReadsFill' /\ UNCHANGED <<store, deleted>>
  BY <1>0, <1>3 DEF CheckKey, ReadsFill, GapInv, StoreTypeOK, Stored, Filled
<1>4. ASSUME NEW c \in Callers, ReadVersion(c) PROVE ReadsFill' /\ UNCHANGED <<store, deleted>>
  <2>1. UNCHANGED <<store, deleted>>
    BY <1>4 DEF ReadVersion
  <2>2. PICK w \in Version :
           /\ IsNextVersion(call[c].aggregate, w)
           /\ call' = [call EXCEPT ![c] =
                          [at |-> "versioned",
                           event |-> [aggregate |-> call[c].aggregate, key |-> call[c].key,
                                      version |-> w, checked |-> call[c].checked,
                                      based |-> Len(store)]]]
    BY <1>4 DEF ReadVersion
  <2>3. call'[c].event.version = w /\ call'[c].event.aggregate = call[c].aggregate
    BY <1>0, <2>2 DEF StoreTypeOK
  <2>4. ASSUME NEW v \in Version, v < w PROVE Filled(call[c].aggregate, v)
    <3>1. PICK i \in Stored : store[i].aggregate = call[c].aggregate /\ store[i].version = w - 1
      BY <2>2, <2>4 DEF IsNextVersion, Version
    <3>2. v \in 1 .. store[i].version
      BY <2>2, <2>4, <3>1 DEF Version
    <3>3. FilledBefore(i, v)
      BY <2>1, <3>2 DEF GapInv
    <3> QED
      BY <3>1, <3>3 DEF Filled, FilledBefore
  <2>5. \A d \in Callers \ {c} : call'[d] = call[d]
    BY <1>0, <2>2 DEF StoreTypeOK
  <2>6. ASSUME NEW d \in Callers, call'[d].at = "versioned", NEW v \in Version,
               v < call'[d].event.version
        PROVE  Filled(call'[d].event.aggregate, v)
    BY <2>1, <2>3, <2>4, <2>5, <2>6 DEF ReadsFill, GapInv
  <2> QED
    BY <2>1, <2>6 DEF ReadsFill, Filled, Stored
<1>5. ASSUME NEW c \in Callers, Commit(c)
      PROVE  /\ (\A i \in Stored : \A v \in 1 .. store[i].version : FilledBefore(i, v))'
             /\ ReadsFill'
  <2> DEFINE ev == call[c].event
  <2>1. ev \in Event /\ call[c].at = "versioned"
    BY <1>0, <1>5 DEF Commit, Call, Idle, StoreTypeOK
  <2>2. /\ store' = Append(store, ev)
        /\ Len(store') = Len(store) + 1
        /\ \A i \in 1 .. Len(store) : store'[i] = store[i]
        /\ store'[Len(store) + 1] = ev
        /\ UNCHANGED deleted
        /\ \A d \in Callers \ {c} : call'[d] = call[d]
        /\ call'[c].at = "idle"
    BY <1>0, <1>5, <2>1 DEF Commit, StoreTypeOK, Idle
  <2>3. Stored' = Stored \cup {Len(store) + 1}
    BY <1>0, <2>2 DEF Stored
  <2>4. \A v \in Version : v < ev.version => Filled(ev.aggregate, v)
    BY <2>1, <2>2 DEF ReadsFill, GapInv
  <2>5. ev.version \in Version /\ ev.version \in Nat
    BY <2>1 DEF Event, Version
  <2> HIDE DEF ev
  <2>6. \A a, v : Filled(a, v) => \E j \in Stored : /\ store'[j].aggregate = a
                                                     /\ store'[j].version = v
    BY <1>0, <2>2 DEF Filled
  <2>7. ASSUME NEW i \in Stored', NEW v \in 1 .. store'[i].version PROVE FilledBefore(i, v)'
    <3>1. CASE i \in Stored
      <4>1. store'[i] = store[i]
        BY <1>0, <2>2, <3>1
      <4>2. FilledBefore(i, v)
        BY <2>2, <2>7, <3>1, <4>1 DEF GapInv
      <4> QED
        BY <1>0, <2>2, <2>3, <4>1, <4>2 DEF FilledBefore
    <3>2. CASE i = Len(store) + 1
      <4>1. store'[i] = ev /\ i \in Stored' /\ i \in Nat
        BY <1>0, <2>2, <2>3, <3>2
      <4>2. CASE v = ev.version
        BY <4>1, <4>2 DEF FilledBefore
      <4>3. CASE v # ev.version
        <5>1. v \in Version /\ v < ev.version
          BY BoundAssumption, <2>5, <2>7, <4>1, <4>3 DEF Version
        <5>2. PICK j \in Stored : store'[j].aggregate = ev.aggregate /\ store'[j].version = v
          BY <2>4, <2>6, <5>1
        <5>3. j \in Stored' /\ j <= i
          BY <1>0, <2>3, <3>2, <5>2
        <5> QED
          BY <4>1, <5>2, <5>3 DEF FilledBefore
      <4> QED
        BY <4>2, <4>3
    <3> QED
      BY <2>3, <2>7, <3>1, <3>2
  <2>8. ASSUME NEW d \in Callers, call'[d].at = "versioned", NEW v \in Version,
               v < call'[d].event.version
        PROVE  \E j \in Stored' : /\ store'[j].aggregate = call'[d].event.aggregate
                                        /\ store'[j].version = v
    <3>1. d # c /\ call'[d] = call[d]
      BY <2>2, <2>8
    <3>2. Filled(call[d].event.aggregate, v)
      BY <2>2, <2>8, <3>1 DEF ReadsFill, GapInv
    <3> QED
      BY <2>3, <2>6, <3>1, <3>2
  <2> QED
    BY <2>7, <2>8 DEF ReadsFill, Filled
<1>6. ASSUME NEW c \in Callers, Abandon(c) PROVE ReadsFill' /\ UNCHANGED <<store, deleted>>
  BY <1>0, <1>6 DEF Abandon, ReadsFill, GapInv, StoreTypeOK, Stored, Filled,
     Idle
<1>7. ASSUME Age PROVE ReadsFill' /\ UNCHANGED <<store, deleted>>
  <2>1. deleted = 0 /\ UNCHANGED <<store, deleted, call>>
    BY <1>7 DEF Age
  <2> QED
    BY <2>1 DEF ReadsFill, GapInv, Stored, Filled
<1>8. ASSUME Cleanup PROVE FALSE
  BY <1>0, <1>8 DEF Cleanup
<1>9. ASSUME UNCHANGED storeVars PROVE ReadsFill' /\ UNCHANGED <<store, deleted>>
  <2>1. deleted = 0 /\ UNCHANGED <<store, deleted, call>>
    BY <1>9 DEF storeVars
  <2> QED
    BY <2>1 DEF ReadsFill, GapInv, Stored, Filled
<1> QED
  BY <1>2, <1>3, <1>4, <1>5, <1>6, <1>7, <1>8, <1>9 DEF NextStore

\* As long as retention has deleted nothing, every version below a stored one is
\* stored before it, however calls of logEvent overlap or fail.
THEOREM VersionsAreDense == StoreSpec => []VersionsHaveNoGap
<1>1. InitStore => GapInv
  BY DEF InitStore, GapInv, ReadsFill, Stored, Idle
<1>2. GapInv => VersionsHaveNoGap
  BY DEF GapInv, VersionsHaveNoGap, FilledBefore
<1> QED
  BY StoreInit, StoreStep, GapStep, <1>1, <1>2, PTL DEF StoreSpec

=============================================================================
