------------------------------ MODULE JobQueue ------------------------------
(***************************************************************************)
(* Outbound webhooks: jobs of a BullMQ queue (modules/webhooks), their     *)
(* worker (jobs/webhook.worker.ts), the dead-letter table and the          *)
(* administrator's operations on both (modules/queue).                     *)
(*                                                                         *)
(* A job is attempted until an attempt returns or its tries are used up.   *)
(* The listener of the worker's `failed` event then copies it to the       *)
(* table, from which a request may put it back into the queue as a new     *)
(* job.  Listener and requests take several awaited steps in a process     *)
(* that may die; BullMQ starts the jobs it was working on once more.       *)
(***************************************************************************)
EXTENDS Naturals, FiniteSets

CONSTANTS
    Hooks,           \* webhooks to deliver
    None,            \* no webhook, no row
    Jobs,            \* job ids BullMQ may give out
    Rows,            \* ids of rows of dead_letter_jobs
    Requests,        \* POST dead-letters/:id/retry
    Attempts,        \* tries of a new webhook
    Retries,         \* tries of a job that comes back from the table
    Concurrency,     \* jobs the worker has active
    MaxDisruptions   \* bound: crashes, failing inserts, interventions

ASSUME NoneAssumption == None \notin Hooks /\ None \notin Rows
ASSUME TriesAssumption == Attempts \in Nat \ {0} /\ Retries \in Nat \ {0}
ASSUME ConcurrencyAssumption == Concurrency \in Nat

VARIABLES
    job,          \* the jobs in Redis
    moving,       \* listeners of a final failure that have not finished, per job
    dead,         \* dead_letter_jobs: the webhook of each row
    recorded,     \* webhooks with a row `delivered` in webhook_deliveries
    request,      \* the retry requests
    excused,      \* history: webhooks an administrator took out of the queue,
                  \* or whose listener died or could not write
    disruptions   \* crashes, failing inserts, interventions so far

vars == <<job, moving, dead, recorded, request, excused, disruptions>>

-----------------------------------------------------------------------------

Active == {"posting", "recording", "finishing", "throwing"}
Tries == 0 .. (Attempts + Retries)
Job == [state : {"unused", "waiting", "failed", "completed", "removed"} \cup Active,
        hook : Hooks \cup {None}, made : Tries, limit : Tries, stalled : BOOLEAN]
Unused == [state |-> "unused", hook |-> None, made |-> 0, limit |-> 0, stalled |-> FALSE]
NoRequest == [at |-> "idle", row |-> None, hook |-> None]

TypeOK ==
    /\ job \in [Jobs -> Job]
    /\ moving \in [Jobs -> Nat]
    /\ \A j \in Jobs : job[j].state # "unused" \/ moving[j] > 0 => job[j].hook \in Hooks
    /\ dead \in [Rows -> Hooks \cup {None}]
    /\ recorded \subseteq Hooks
    /\ request \in [Requests -> {NoRequest} \cup [at : {"add", "delete"}, row : Rows, hook : Hooks]]
    /\ excused \subseteq Hooks
    /\ disruptions \in Nat

Init ==
    /\ job = [j \in Jobs |-> Unused]
    /\ moving = [j \in Jobs |-> 0]
    /\ dead = [x \in Rows |-> None]
    /\ recorded = {}
    /\ request = [r \in Requests |-> NoRequest]
    /\ excused = {}
    /\ disruptions = 0

Disrupt ==
    /\ disruptions < MaxDisruptions
    /\ disruptions' = disruptions + 1

NewJob(w, tries) ==
    [state |-> "waiting", hook |-> w, made |-> 0, limit |-> tries, stalled |-> FALSE]

-----------------------------------------------------------------------------
(* A webhook and the worker's attempts at it.                               *)

\* deliverWebhook: queue.add.
DeliverWebhook(w) ==
    /\ \A j \in Jobs : job[j].hook # w
    /\ \E j \in Jobs :
          /\ job[j] = Unused
          /\ job' = [job EXCEPT ![j] = NewJob(w, Attempts)]
    /\ UNCHANGED <<moving, dead, recorded, request, excused, disruptions>>

Take(j) ==
    /\ job[j].state = "waiting"
    /\ Cardinality({i \in Jobs : job[i].state \in Active}) < Concurrency
    /\ job' = [job EXCEPT ![j].state = "posting"]
    /\ UNCHANGED <<moving, dead, recorded, request, excused, disruptions>>

\* axios.post is answered below 500, which a 4xx is too; or it rejects, whether or
\* not the other side has received the webhook.
Post(j) ==
    /\ job[j].state = "posting"
    /\ \E next \in {"recording", "throwing"} : job' = [job EXCEPT ![j].state = next]
    /\ UNCHANGED <<moving, dead, recorded, request, excused, disruptions>>

\* webhookDelivery.create; its rejection ends in the same catch block and fails the
\* attempt, although the webhook was received.
Record(j) ==
    /\ job[j].state = "recording"
    /\ \/ /\ recorded' = recorded \cup {job[j].hook}
          /\ job' = [job EXCEPT ![j].state = "finishing"]
       \/ /\ job' = [job EXCEPT ![j].state = "throwing"]
          /\ UNCHANGED recorded
    /\ UNCHANGED <<moving, dead, request, excused, disruptions>>

Complete(j) ==
    /\ job[j].state = "finishing"
    /\ job' = [job EXCEPT ![j].state = "completed"]
    /\ UNCHANGED <<moving, dead, recorded, request, excused, disruptions>>

\* BullMQ counts the attempt and waits or gives up; the listener of `failed` goes on
\* only when no try is left.
Made(j) == IF job[j].made < job[j].limit THEN job[j].made + 1 ELSE job[j].made
GivesUp(j) == Made(j) >= job[j].limit

AttemptFails(j) ==
    /\ job[j].state = "throwing"
    /\ job' = [job EXCEPT ![j].made = Made(j),
                          ![j].state = IF GivesUp(j) THEN "failed" ELSE "waiting"]
    /\ moving' = [moving EXCEPT ![j] = IF GivesUp(j) THEN @ + 1 ELSE @]
    /\ UNCHANGED <<dead, recorded, request, excused, disruptions>>

-----------------------------------------------------------------------------
(* The dead-letter table.                                                   *)

\* moveJobToDLQ looks the job up, does nothing if it is gone, and copies it.
MoveJobToDLQ(j) ==
    /\ moving[j] > 0
    /\ moving' = [moving EXCEPT ![j] = @ - 1]
    /\ \/ /\ job[j].state # "removed"
          /\ \E x \in Rows :
                /\ dead[x] = None
                /\ \A r \in Requests : request[r].row # x
                /\ dead' = [dead EXCEPT ![x] = job[j].hook]
          /\ UNCHANGED <<excused, disruptions>>
       \/ /\ job[j].state = "removed"
          /\ UNCHANGED <<dead, excused, disruptions>>
       \/ /\ Disrupt
          /\ excused' = excused \cup {job[j].hook}
          /\ UNCHANGED dead
    /\ UNCHANGED <<job, recorded, request>>

\* Mutant of FindRow: the row is deleted before the job is added.
DeletesFirst(r, x) ==
    /\ request[r].at = "idle"
    /\ dead[x] # None
    /\ request' = [request EXCEPT ![r] = [at |-> "add", row |-> x, hook |-> dead[x]]]
    /\ dead' = [dead EXCEPT ![x] = None]
    /\ UNCHANGED <<job, moving, recorded, excused, disruptions>>

\* retryDLQJob finds the row, adds a job, and deletes the row.
FindRow(r, x) ==
    /\ request[r].at = "idle"
    /\ dead[x] # None
    /\ request' = [request EXCEPT ![r] = [at |-> "add", row |-> x, hook |-> dead[x]]]
    /\ UNCHANGED <<job, moving, dead, recorded, excused, disruptions>>

AddAgain(r) ==
    /\ request[r].at = "add"
    /\ \E j \in Jobs :
          /\ job[j] = Unused
          /\ job' = [job EXCEPT ![j] = NewJob(request[r].hook, Retries)]
    /\ request' = [request EXCEPT ![r].at = "delete"]
    /\ UNCHANGED <<moving, dead, recorded, excused, disruptions>>

\* Mutant of DeleteRow: the request keeps what it was about.
KeepsRow(r) ==
    /\ request[r].at = "delete"
    /\ dead' = [dead EXCEPT ![request[r].row] = None]
    /\ request' = [request EXCEPT ![r].at = "idle"]
    /\ UNCHANGED <<job, moving, recorded, excused, disruptions>>

\* A row that another request has deleted makes the delete reject: an error to the
\* administrator, with the job added all the same.
DeleteRow(r) ==
    /\ request[r].at = "delete"
    /\ dead' = [dead EXCEPT ![request[r].row] = None]
    /\ request' = [request EXCEPT ![r] = NoRequest]
    /\ UNCHANGED <<job, moving, recorded, excused, disruptions>>

-----------------------------------------------------------------------------
(* The administrator, and crashes.                                          *)

\* job.retry(): BullMQ takes failed jobs only, and keeps the attempts made.
RetryJob(j) ==
    /\ Disrupt
    /\ job[j].state = "failed"
    /\ job' = [job EXCEPT ![j].state = "waiting"]
    /\ UNCHANGED <<moving, dead, recorded, request, excused>>

\* job.remove(): not of an active job, which is locked.
RemoveJob(j) ==
    /\ Disrupt
    /\ job[j].state \in {"waiting", "failed", "completed"}
    /\ job' = [job EXCEPT ![j].state = "removed"]
    /\ excused' = IF job[j].state = "waiting" \/ moving[j] > 0
                  THEN excused \cup {job[j].hook} ELSE excused
    /\ UNCHANGED <<moving, dead, recorded, request>>

\* removeOnComplete and removeOnFail, long after the listener is done.
Expire(j) ==
    /\ job[j].state \in {"failed", "completed"} /\ moving[j] = 0
    /\ job' = [job EXCEPT ![j].state = "removed"]
    /\ UNCHANGED <<moving, dead, recorded, request, excused, disruptions>>

\* Active jobs stall and wait again; the second time BullMQ fails them, with
\* attempts left, so that the listener does not move them.
Stalls(j) == job[j].state \in Active
AfterCrash(j) ==
    [job[j] EXCEPT !.state = IF ~Stalls(j) THEN @ ELSE IF job[j].stalled THEN "failed" ELSE "waiting",
                   !.stalled = @ \/ Stalls(j)]

Crash ==
    /\ Disrupt
    /\ job' = [j \in Jobs |-> AfterCrash(j)]
    /\ moving' = [j \in Jobs |-> 0]
    /\ request' = [r \in Requests |-> NoRequest]
    /\ excused' = excused \cup {job[j].hook : j \in {i \in Jobs : moving[i] > 0 \/ (Stalls(i) /\ job[i].stalled)}}
    /\ UNCHANGED <<dead, recorded>>

Next ==
    \/ \E w \in Hooks : DeliverWebhook(w)
    \/ \E j \in Jobs :
          \/ Take(j) \/ Post(j) \/ Record(j) \/ Complete(j) \/ AttemptFails(j)
          \/ MoveJobToDLQ(j)
          \/ RetryJob(j) \/ RemoveJob(j) \/ Expire(j)
    \/ \E r \in Requests :
          \/ \E x \in Rows : FindRow(r, x)
          \/ AddAgain(r) \/ DeleteRow(r)
    \/ Crash

Spec == Init /\ [][Next]_vars

-----------------------------------------------------------------------------
(* Properties.                                                              *)

InQueue(w) == \E j \in Jobs : job[j].hook = w /\ job[j].state \in {"waiting"} \cup Active
BeingMoved(w) == \E j \in Jobs : job[j].hook = w /\ moving[j] > 0 /\ job[j].state # "removed"
InTable(w) == \E x \in Rows : dead[x] = w

\* A webhook that was put into the queue is recorded as delivered, or somewhere to
\* be found and retried: in the queue, in the table, or in the hands of a listener;
\* through failing attempts, competing retries of one row, retries that die half
\* way, and crashes.  The exceptions are those of `excused`.
NothingIsLost ==
    \A j \in Jobs :
        job[j].state # "unused" =>
            LET w == job[j].hook IN
            w \in recorded \cup excused \/ InQueue(w) \/ BeingMoved(w) \/ InTable(w)

=============================================================================
