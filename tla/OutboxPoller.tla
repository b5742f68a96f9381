---------------------------- MODULE OutboxPoller ----------------------------
(***************************************************************************)
(* The transactional outbox of the event store, and the poller that drains *)
(* it (packages/api/src/jobs/outbox.worker.ts).                            *)
(*                                                                         *)
(* Several API servers share one Postgres and one Redis.  logEvent writes  *)
(* an event and its outbox row in one transaction.  Every server ticks a   *)
(* poller: take the Redis lock, read the due rows, deliver each of them    *)
(* (stream, projectors, agent triggers), mark it delivered or record the   *)
(* failure, and delete the lock.  At shutdown the server calls the same    *)
(* batch once more, then exits with whatever is still in flight.           *)
(*                                                                         *)
(* One action is one awaited call, so every place where another callback,  *)
(* another server or a crash can slip in is a state of the model.          *)
(***************************************************************************)
EXTENDS Naturals, Sequences, FiniteSets

CONSTANTS
    Servers,            \* API server processes
    Events,             \* events that may be logged
    MaxRetries,         \* env.OUTBOX_MAX_RETRIES
    BatchSize,          \* env.OUTBOX_BATCH_SIZE
    LockOutlivesBatch,  \* TRUE: no batch lasts longer than LOCK_TTL_SECONDS
    MaxDisruptions      \* bound: crashes, shutdowns, early expiries, lost DB calls

ASSUME RetriesAssumption == MaxRetries \in Nat \ {0}
ASSUME BatchAssumption == BatchSize \in Nat \ {0}
ASSUME LockAssumption == LockOutlivesBatch \in BOOLEAN
ASSUME DisruptionsAssumption == MaxDisruptions \in Nat

VARIABLES
    outbox,       \* event_outbox, keyed by its UNIQUE event_id
    log,          \* the events in creation order (created_at)
    deadLetters,  \* event_dead_letters: how many rows name the event
    stream,       \* entries of the event in the Redis stream
    projected,    \* how often the projectors ran on the event
    triggered,    \* how often the event's agent triggers were enqueued
    retried,      \* answer of the last POST dead-letters/:id/retry
    lock,         \* does the Redis key outbox:poller:lock exist
    phase,        \* life cycle of each server
    running,      \* the module variable `running` of each server
    batch,        \* where each call of processOutboxBatch is
    job,          \* where each concurrent deliverEntry of a call is
    seen,         \* entry.attempts in the snapshot a call read
    detached,     \* promises started with `void`, per server
    disruptions   \* crashes, shutdowns, early expiries, lost DB calls so far

tables == <<outbox, log, deadLetters, retried>>
effects == <<stream, projected, triggered>>
process == <<phase, running, batch, job, seen, detached>>
vars == <<tables, effects, lock, process, disruptions>>

-----------------------------------------------------------------------------
(* Types.  Counts saturate at Many: the properties tell 0, 1 and more apart. *)

Many == 2
Count == 0 .. Many
Bump(n) == IF n < Many THEN n + 1 ELSE n

\* A server runs the batch from its interval timer and from gracefulShutdown.
Calls == Servers \X {"tick", "drain"}
ServerOf(c) == c[1]

Settled == {"delivered", "dead_lettered"}
Row == [status : {"absent", "pending"} \cup Settled,
        attempts : 0 .. MaxRetries,
        due : BOOLEAN]            \* next_retry_at <= now()
NoRow == [status |-> "absent", attempts |-> 0, due |-> FALSE]
NewRow == [status |-> "pending", attempts |-> 0, due |-> TRUE]

Phase == {"up", "stopping", "draining", "drained", "down"}
Step == {"none", "publish", "project", "mark", "fail"}

Quiet == [e \in Events |-> "none"]
Unseen == [e \in Events |-> 0]

TypeOK ==
    /\ outbox \in [Events -> Row]
    /\ log \in Seq(Events)
    /\ deadLetters \in [Events -> Count]
    /\ stream \in [Events -> Count]
    /\ projected \in [Events -> Count]
    /\ triggered \in [Events -> Count]
    /\ retried \in [Events -> {"never", "requeued", "conflict"}]
    /\ lock \in BOOLEAN
    /\ phase \in [Servers -> Phase]
    /\ running \in [Servers -> BOOLEAN]
    /\ batch \in [Calls -> {"idle", "reading", "delivering"}]
    /\ job \in [Calls -> [Events -> Step]]
    /\ seen \in [Calls -> [Events -> 0 .. MaxRetries]]
    /\ detached \in [Servers -> SUBSET ({"publish", "trigger"} \X Events)]
    /\ disruptions \in 0 .. MaxDisruptions

Init ==
    /\ outbox = [e \in Events |-> NoRow]
    /\ log = <<>>
    /\ deadLetters = [e \in Events |-> 0]
    /\ stream = [e \in Events |-> 0]
    /\ projected = [e \in Events |-> 0]
    /\ triggered = [e \in Events |-> 0]
    /\ retried = [e \in Events |-> "never"]
    /\ lock = FALSE
    /\ phase = [s \in Servers |-> "up"]
    /\ running = [s \in Servers |-> FALSE]
    /\ batch = [c \in Calls |-> "idle"]
    /\ job = [c \in Calls |-> Quiet]
    /\ seen = [c \in Calls |-> Unseen]
    /\ detached = [s \in Servers |-> {}]
    /\ disruptions = 0

Disrupt ==
    /\ disruptions < MaxDisruptions
    /\ disruptions' = disruptions + 1

-----------------------------------------------------------------------------
(* Appending: the transaction of EventsService.logEvent.  The versioning of *)
(* the event is the business of module EventStore.                          *)

\* The event and its outbox row are one transaction; the legacy publish is
\* started without being awaited.
LogEvent(s, e) ==
    /\ phase[s] # "down"
    /\ outbox[e].status = "absent"
    /\ outbox' = [outbox EXCEPT ![e] = NewRow]
    /\ log' = Append(log, e)
    /\ detached' = [detached EXCEPT ![s] = @ \cup {<<"publish", e>>}]
    /\ UNCHANGED <<deadLetters, retried, effects, lock, phase, running, batch,
                   job, seen, disruptions>>

\* publishToStream (legacy) or processTriggers settles; a rejection is only
\* logged, so the effect may simply not happen.
SettleDetached(s, kind, e) ==
    /\ <<kind, e>> \in detached[s]
    /\ detached' = [detached EXCEPT ![s] = @ \ {<<kind, e>>}]
    /\ stream' \in {stream, IF kind = "publish"
                            THEN [stream EXCEPT ![e] = Bump(@)] ELSE stream}
    /\ triggered' \in {triggered, IF kind = "trigger"
                                  THEN [triggered EXCEPT ![e] = Bump(@)] ELSE triggered}
    /\ UNCHANGED <<tables, projected, lock, phase, running, batch, job, seen,
                   disruptions>>

-----------------------------------------------------------------------------
(* The poller: processOutboxBatch.                                          *)

\* Mutant of Acquire: SET without NX.
AcquireWithoutNX(c) ==
    /\ batch[c] = "idle"
    /\ lock' = TRUE
    /\ running' = [running EXCEPT ![ServerOf(c)] = TRUE]
    /\ batch' = [batch EXCEPT ![c] = "reading"]

\* A call begins: SET key 1 EX 30 NX succeeds, and `running` is set.
Acquire(c) ==
    /\ batch[c] = "idle"
    /\ ~lock
    /\ lock' = TRUE
    /\ running' = [running EXCEPT ![ServerOf(c)] = TRUE]
    /\ batch' = [batch EXCEPT ![c] = "reading"]

\* A timer tick; it does nothing while a batch runs in this process, or when
\* the key exists.
Tick(s) ==
    /\ phase[s] = "up"
    /\ ~running[s]
    /\ Acquire(<<s, "tick">>)
    /\ UNCHANGED <<tables, effects, phase, job, seen, detached, disruptions>>

\* Mutant of Due: only rows that were never tried are read.
DueOnce == {e \in Events :
              outbox[e].status = "pending" /\ outbox[e].due /\ outbox[e].attempts = 0}

Due == {e \in Events : outbox[e].status = "pending" /\ outbox[e].due}
Older(d, e) == \E i, j \in DOMAIN log : i < j /\ log[i] = d /\ log[j] = e
DueBatch == {e \in Due : Cardinality({d \in Due : Older(d, e)}) < BatchSize}

\* findMany: the oldest due rows, with the attempts they have now.
ReadBatch(c) ==
    /\ batch[c] = "reading"
    /\ batch' = [batch EXCEPT ![c] = "delivering"]
    /\ job' = [job EXCEPT ![c] =
                  [e \in Events |-> IF e \in DueBatch THEN "publish" ELSE "none"]]
    /\ seen' = [seen EXCEPT ![c] =
                  [e \in Events |-> IF e \in DueBatch THEN outbox[e].attempts ELSE 0]]
    /\ UNCHANGED <<tables, effects, lock, phase, running, detached, disruptions>>

\* findMany rejects: the batch goes straight to its finally block.
ReadFails(c) ==
    /\ batch[c] = "reading"
    /\ Disrupt
    /\ batch' = [batch EXCEPT ![c] = "delivering"]
    /\ UNCHANGED <<tables, effects, lock, phase, running, job, seen, detached>>

\* finally: every deliverEntry has settled; `running` is cleared and DEL is
\* sent, whoever holds the key now.  A DEL that fails is swallowed.
FinishBatch(c) ==
    /\ batch[c] = "delivering"
    /\ job[c] = Quiet
    /\ batch' = [batch EXCEPT ![c] = "idle"]
    /\ running' = [running EXCEPT ![ServerOf(c)] = FALSE]
    /\ lock' \in {FALSE, lock}
    /\ phase' = [phase EXCEPT ![ServerOf(c)] = IF c[2] = "drain" THEN "drained" ELSE @]
    /\ UNCHANGED <<tables, effects, job, seen, detached, disruptions>>

-----------------------------------------------------------------------------
(* One deliverEntry of a batch; the entries of a batch run concurrently.    *)

Advance(c, e, step) == job' = [job EXCEPT ![c][e] = step]

\* The job leaves the batch; what its snapshot held no longer matters.
Leave(c, e) ==
    /\ Advance(c, e, "none")
    /\ seen' = [seen EXCEPT ![c][e] = 0]

\* An update of the row by its id, whatever the row holds by then.
Write(e, status, attempts, due) ==
    outbox' = [outbox EXCEPT ![e] =
                  [status |-> status, attempts |-> attempts, due |-> due]]

\* Mutant of Publish: the projectors are skipped.
PublishOnly(c, e) ==
    /\ job[c][e] = "publish"
    /\ stream' = [stream EXCEPT ![e] = Bump(@)]
    /\ Advance(c, e, "mark")
    /\ UNCHANGED <<tables, projected, triggered, lock, phase, running, batch,
                   seen, detached, disruptions>>

\* Mutant of Publish: a failed XADD is swallowed.
PublishSwallowingErrors(c, e) ==
    /\ job[c][e] = "publish"
    /\ stream' \in {stream, [stream EXCEPT ![e] = Bump(@)]}
    /\ Advance(c, e, "project")
    /\ UNCHANGED <<tables, projected, triggered, lock, phase, running, batch,
                   seen, detached, disruptions>>

\* emitToOrg, then XADD with a fresh id; the XADD may fail.
Publish(c, e) ==
    /\ job[c][e] = "publish"
    /\ \/ /\ stream' = [stream EXCEPT ![e] = Bump(@)]
          /\ Advance(c, e, "project")
       \/ /\ Advance(c, e, "fail")
          /\ UNCHANGED stream
    /\ UNCHANGED <<tables, projected, triggered, lock, phase, running, batch,
                   seen, detached, disruptions>>

\* runProjectors never rejects; the triggers are started without being awaited.
Project(c, e) ==
    /\ job[c][e] = "project"
    /\ projected' = [projected EXCEPT ![e] = Bump(@)]
    /\ detached' = [detached EXCEPT ![ServerOf(c)] = @ \cup {<<"trigger", e>>}]
    /\ Advance(c, e, "mark")
    /\ UNCHANGED <<tables, stream, triggered, lock, phase, running, batch, seen,
                   disruptions>>

\* The update to `delivered`.  It is by id alone: no test of the row's status.
MarkDelivered(c, e) ==
    /\ job[c][e] = "mark"
    /\ Write(e, "delivered", seen[c][e] + 1, outbox[e].due)
    /\ Leave(c, e)
    /\ UNCHANGED <<log, deadLetters, retried, effects, lock, phase, running,
                   batch, detached, disruptions>>

\* That update rejects, and the catch block takes over.
MarkFails(c, e) ==
    /\ job[c][e] = "mark"
    /\ Advance(c, e, "fail")
    /\ UNCHANGED <<tables, effects, lock, phase, running, batch, seen, detached,
                   disruptions>>

\* Mutant of NewAttempts: the try is counted twice.
NewAttemptsTwice(c, e) == seen[c][e] + 2

\* handleDeliveryFailure counts from the snapshot, not from the row.
NewAttempts(c, e) == seen[c][e] + 1

\* Below the limit: the next retry is put off, the status is not written.
ScheduleRetry(c, e) ==
    /\ job[c][e] = "fail"
    /\ NewAttempts(c, e) < MaxRetries
    /\ Write(e, outbox[e].status, NewAttempts(c, e), FALSE)
    /\ Leave(c, e)
    /\ UNCHANGED <<log, deadLetters, retried, effects, lock, phase, running,
                   batch, detached, disruptions>>

\* Mutant of DeadLetter: the dead letter is written without the status.
DeadLetterWithoutStatus(c, e) ==
    /\ job[c][e] = "fail"
    /\ NewAttempts(c, e) >= MaxRetries
    /\ deadLetters' = [deadLetters EXCEPT ![e] = Bump(@)]
    /\ Leave(c, e)
    /\ UNCHANGED <<outbox, log, retried, effects, lock, phase, running, batch,
                   detached, disruptions>>

\* At the limit: status and dead letter in one transaction.
DeadLetter(c, e) ==
    /\ job[c][e] = "fail"
    /\ NewAttempts(c, e) >= MaxRetries
    /\ Write(e, "dead_lettered", NewAttempts(c, e), outbox[e].due)
    /\ deadLetters' = [deadLetters EXCEPT ![e] = Bump(@)]
    /\ Leave(c, e)
    /\ UNCHANGED <<log, retried, effects, lock, phase, running, batch, detached,
                   disruptions>>

\* handleDeliveryFailure itself rejects: the row keeps its attempts and is due.
RecordingFails(c, e) ==
    /\ job[c][e] = "fail"
    /\ Disrupt
    /\ Leave(c, e)
    /\ UNCHANGED <<tables, effects, lock, phase, running, batch, detached>>

Deliver(c, e) ==
    \/ Publish(c, e) \/ Project(c, e)
    \/ MarkDelivered(c, e) \/ MarkFails(c, e)
    \/ ScheduleRetry(c, e) \/ DeadLetter(c, e)

-----------------------------------------------------------------------------
(* POST /v1/events/dead-letters/:id/retry                                   *)

\* One transaction: insert an outbox row with the SAME event id, delete the
\* dead letter.  The insert conflicts when a row of that event exists, and the
\* whole transaction is rolled back.
RetryDeadLetter(e) ==
    LET fits == outbox[e].status = "absent" IN
    /\ deadLetters[e] > 0
    /\ outbox' = [outbox EXCEPT ![e] = IF fits THEN NewRow ELSE @]
    /\ deadLetters' = [deadLetters EXCEPT ![e] = IF fits THEN @ - 1 ELSE @]
    /\ retried' = [retried EXCEPT ![e] = IF fits THEN "requeued" ELSE "conflict"]
    /\ UNCHANGED <<log, effects, lock, process, disruptions>>

-----------------------------------------------------------------------------
(* Time, and the life cycle of a server.                                    *)

\* The backoff of a failed row has passed.
BecomeDue(e) ==
    /\ outbox[e].status = "pending"
    /\ ~outbox[e].due
    /\ outbox' = [outbox EXCEPT ![e].due = TRUE]
    /\ UNCHANGED <<log, deadLetters, retried, effects, lock, process, disruptions>>

BatchInFlight == \E c \in Calls : batch[c] # "idle"

\* The key of a batch that died, or whose DEL failed, reaches its TTL.
LockExpires ==
    /\ lock
    /\ ~BatchInFlight
    /\ lock' = FALSE
    /\ UNCHANGED <<tables, effects, process, disruptions>>

\* The key reaches its TTL under a batch that is still delivering.
LockExpiresEarly ==
    /\ ~LockOutlivesBatch
    /\ lock
    /\ BatchInFlight
    /\ Disrupt
    /\ lock' = FALSE
    /\ UNCHANGED <<tables, effects, process>>

\* gracefulShutdown, SIGTERM: the timer is stopped.
Shutdown(s) ==
    /\ phase[s] = "up"
    /\ Disrupt
    /\ phase' = [phase EXCEPT ![s] = "stopping"]
    /\ UNCHANGED <<tables, effects, lock, running, batch, job, seen, detached>>

\* Mutant of Drain: the shutdown does not take the lock.
DrainUnlocked(s) ==
    /\ phase[s] = "stopping"
    /\ batch' = [batch EXCEPT ![<<s, "drain">>] = "reading"]
    /\ running' = [running EXCEPT ![s] = TRUE]
    /\ phase' = [phase EXCEPT ![s] = "draining"]
    /\ UNCHANGED <<tables, effects, lock, job, seen, detached, disruptions>>

\* ... then one more batch, without a look at `running` ...
Drain(s) ==
    /\ phase[s] = "stopping"
    /\ Acquire(<<s, "drain">>)
    /\ phase' = [phase EXCEPT ![s] = "draining"]
    /\ UNCHANGED <<tables, effects, job, seen, detached, disruptions>>

\* ... which does nothing if the key exists, or the SET rejects ...
DrainSkipped(s) ==
    /\ phase[s] = "stopping"
    /\ phase' = [phase EXCEPT ![s] = "drained"]
    /\ UNCHANGED <<tables, effects, lock, running, batch, job, seen, detached,
                   disruptions>>

\* The process is gone, and with it every call and promise of it.
Die(s) ==
    /\ phase' = [phase EXCEPT ![s] = "down"]
    /\ running' = [running EXCEPT ![s] = FALSE]
    /\ batch' = [c \in Calls |-> IF ServerOf(c) = s THEN "idle" ELSE batch[c]]
    /\ job' = [c \in Calls |-> IF ServerOf(c) = s THEN Quiet ELSE job[c]]
    /\ seen' = [c \in Calls |-> IF ServerOf(c) = s THEN Unseen ELSE seen[c]]
    /\ detached' = [detached EXCEPT ![s] = {}]
    /\ UNCHANGED <<tables, effects, lock>>

\* ... and process.exit(0), with a tick's batch possibly still in flight.
Exit(s) ==
    /\ phase[s] = "drained"
    /\ Die(s)
    /\ UNCHANGED disruptions

Crash(s) ==
    /\ phase[s] # "down"
    /\ Disrupt
    /\ Die(s)

\* The supervisor starts the process again.
Restart(s) ==
    /\ phase[s] = "down"
    /\ phase' = [phase EXCEPT ![s] = "up"]
    /\ UNCHANGED <<tables, effects, lock, running, batch, job, seen, detached,
                   disruptions>>

-----------------------------------------------------------------------------

Next ==
    \/ \E s \in Servers :
          \/ \E e \in Events :
                \/ LogEvent(s, e)
                \/ \E kind \in {"publish", "trigger"} : SettleDetached(s, kind, e)
          \/ Tick(s)
          \/ Shutdown(s) \/ Drain(s) \/ DrainSkipped(s) \/ Exit(s)
          \/ Crash(s) \/ Restart(s)
    \/ \E c \in Calls :
          \/ ReadBatch(c) \/ ReadFails(c) \/ FinishBatch(c)
          \/ \E e \in Events : Deliver(c, e) \/ RecordingFails(c, e)
    \/ \E e \in Events : RetryDeadLetter(e) \/ BecomeDue(e)
    \/ LockExpires \/ LockExpiresEarly

\* Timers fire, awaited calls return, TTLs and backoffs pass, processes are
\* restarted.  Nothing is assumed of requests, crashes or shutdowns.
Fairness ==
    /\ WF_vars(\E s \in Servers : Tick(s))
    /\ \A s \in Servers :
          /\ WF_vars(Drain(s) \/ DrainSkipped(s))
          /\ WF_vars(Exit(s))
          /\ WF_vars(Restart(s))
    /\ \A c \in Calls :
          /\ WF_vars(ReadBatch(c))
          /\ WF_vars(FinishBatch(c))
          /\ \A e \in Events : WF_vars(Deliver(c, e))
    /\ \A e \in Events : WF_vars(BecomeDue(e))
    /\ WF_vars(LockExpires)

Spec == Init /\ [][Next]_vars
FairSpec == Spec /\ Fairness

-----------------------------------------------------------------------------
(* What holds in every deployment, even when a batch outlives its lock.     *)

\* No row is called delivered that was not: its event is in the Reality Stream
\* and the projectors have run on it (the order of the four steps in
\* deliverEntry), whichever of several overlapping calls wrote the status.
DeliveredWasFannedOut ==
    \A e \in Events :
        outbox[e].status = "delivered" => stream[e] > 0 /\ projected[e] > 0

\* A dead-lettered row always has its dead letter to inspect, also after
\* attempts to re-queue it (handleDeliveryFailure and retryDeadLetter keep
\* the two tables in step with transactions).
DeadLetterIsRecorded ==
    \A e \in Events : outbox[e].status = "dead_lettered" => deadLetters[e] > 0

\* A row that is still pending has tries left: the boundary test of
\* handleDeliveryFailure cannot be stepped over, not even by a call that
\* counts from an old snapshot.
PendingHasTriesLeft ==
    \A e \in Events : outbox[e].status = "pending" => outbox[e].attempts < MaxRetries

\* Every logged event is delivered or dead-lettered in the end, whatever fails
\* on the way a bounded number of times: "the Outbox pattern guarantees zero
\* event loss".
EventuallySettled ==
    \A e \in Events :
        outbox[e].status = "pending" ~> outbox[e].status \in Settled

-----------------------------------------------------------------------------
(* What needs LockOutlivesBatch.                                            *)

\* The Redis lock: no two calls of processOutboxBatch, in one server or in two,
\* are past their SET NX at the same time.
OneBatchAtATime ==
    \A c, d \in Calls : batch[c] # "idle" /\ batch[d] # "idle" => c = d

\* The entry a deliverEntry works from is not stale: its row is still pending
\* with the attempts the snapshot holds, so the unconditional updates by id
\* lose nothing.
SnapshotIsCurrent ==
    \A c \in Calls, e \in Events :
        job[c][e] # "none" =>
            /\ outbox[e].status = "pending"
            /\ outbox[e].attempts = seen[c][e]

\* A row is dead-lettered exactly when there is one dead letter of it: no
\* second one, and none of an event that was delivered after all.
OneDeadLetterPerFailure ==
    \A e \in Events :
        deadLetters[e] = IF outbox[e].status = "dead_lettered" THEN 1 ELSE 0

\* Delivered and dead-lettered are final.
SettledIsFinal ==
    [][\A e \in Events :
          outbox[e].status \in Settled => outbox'[e] = outbox[e]]_vars

\* Retries make progress: no call writes an attempt count below the row's.
AttemptsOnlyGrow ==
    [][\A e \in Events : outbox'[e].attempts >= outbox[e].attempts]_vars

\* Delivery is at least once, as an abstract service promises it (see module
\* EventDelivery): the status of the row is the status of the delivery.
Delivery == INSTANCE EventDelivery WITH
    state <- [e \in Events |-> outbox[e].status],
    performed <- [e \in Events |-> projected[e] > 0],
    failures <- [e \in Events |-> outbox[e].attempts]

ImplementsDelivery == Delivery!Spec

-----------------------------------------------------------------------------
(* What the documentation says and the code does not do.                    *)

\* events.controller.ts:19, "(re-queue a DLQ entry)": re-queueing a dead letter
\* never fails for a dead letter that exists.
RetryRequeues == \A e \in Events : retried[e] # "conflict"

=============================================================================
