------------------------------ MODULE GraphSync ------------------------------
(***************************************************************************)
(* The graph projection of a task: tasks.service.ts enqueues jobs,         *)
(* graphSync.worker.ts and graphCypher.service.ts carry them out, and      *)
(* REBUILD_ORG_GRAPH writes everything again (packages/graph).             *)
(*                                                                         *)
(* One task of one project; jobs of other tasks write other parts of the   *)
(* graph.  The queue is BullMQ's: first in, first out, a failed job comes  *)
(* back after a delay until its attempts are used up, and a job whose      *)
(* worker died is handed out once more.                                    *)
(***************************************************************************)
EXTENDS Integers, Sequences, SequencesExt

CONSTANTS
    Users,      \* assignees
    NoUser,
    Workers,    \* one per API server process
    Attempts,   \* defaultJobOptions.attempts
    MaxWrites,  \* bound on the writes to the task
    MaxFaults,  \* bound on lost enqueues and dying workers
    MaxAsked    \* bound on the moves and rebuilds that are asked for

ASSUME NoUserAssumption == NoUser \notin Users
ASSUME AttemptsAssumption == Attempts \in Nat \ {0}
ASSUME BoundsAssumption == MaxWrites \in Nat /\ MaxFaults \in Nat /\ MaxAsked \in Nat

VARIABLES
    row,        \* the task in Postgres; rev counts its contents
    moving,     \* is a move's transaction open (it holds the row's lock)
    sending,    \* jobs that are about to be enqueued
    waiting,    \* the queue
    delayed,    \* failed jobs in their backoff
    worker,     \* what each worker is doing
    node,       \* the task's node and its ASSIGNED_TO relationships
    faults,     \* lost enqueues and dead workers so far
    asked,      \* moves and rebuilds asked for
    disturbed,  \* lost jobs, overlapping jobs, reads inside a move
    recovered   \* has a rebuild run since, with nothing else going on

vars == <<row, moving, sending, waiting, delayed, worker, node, asked, faults, disturbed, recovered>>

Kinds == {"sync", "delete", "assign", "rebuild"}
Job == {j \in [kind : Kinds, user : Users \cup {NoUser}, failures : 0 .. Attempts - 1,
               stalled : BOOLEAN] : j.kind = "assign" => j.user # NoUser}
NoRow == [state |-> "absent", rev |-> 0, assignee |-> NoUser]
Idle == [at |-> "idle"]
Place == {"read", "node", "edge", "delete", "assign", "tasks", "unlink", "link", "rebuilt"}
NoNode == [there |-> FALSE, rev |-> 0, deleted |-> FALSE, out |-> {}, in |-> {}]
Row == [state : {"absent", "live", "deleted"}, rev : 0 .. MaxWrites, assignee : Users \cup {NoUser}]

NewJob(kind, user) == [kind |-> kind, user |-> user, failures |-> 0, stalled |-> FALSE]

Init ==
    /\ row = NoRow
    /\ moving = FALSE
    /\ sending = {}
    /\ waiting = <<>> /\ delayed = <<>>
    /\ worker = [w \in Workers |-> Idle]
    /\ node = NoNode
    /\ asked = 0 /\ faults = 0
    /\ disturbed = FALSE
    /\ recovered = FALSE

Busy == \E w \in Workers : worker[w] # Idle
Quiet == sending = {} /\ waiting = <<>> /\ delayed = <<>> /\ ~Busy /\ ~moving

-----------------------------------------------------------------------------
(* The API: a write, then its jobs; a rejected enqueue is swallowed.        *)

Save(new, jobs) ==
    /\ ~moving
    /\ row.rev < MaxWrites
    /\ row' = new
    /\ sending' = sending \cup jobs
    /\ recovered' = FALSE
    /\ UNCHANGED <<moving, waiting, delayed, worker, node, asked, faults, disturbed>>

CreateTask(u) ==
    /\ row.state = "absent"
    /\ Save([state |-> "live", rev |-> 1, assignee |-> u], {[kind |-> "create", user |-> u]})

\* A PATCH of the assignee (u) or of something else (u = row.assignee).
UpdateTask(u) ==
    /\ row.state = "live"
    /\ Save([row EXCEPT !.rev = @ + 1, !.assignee = u],
            {[kind |-> "sync", user |-> NoUser]}
            \cup IF u \notin {row.assignee, NoUser} THEN {[kind |-> "assign", user |-> u]} ELSE {})

SoftDeleteTask ==
    /\ row.state = "live"
    /\ Save([row EXCEPT !.rev = @ + 1, !.state = "deleted"], {[kind |-> "delete", user |-> NoUser]})

\* After a creation the job for the assignee is enqueued when the first one is.
FollowUp(j) ==
    IF j.kind = "create" /\ j.user # NoUser THEN {[kind |-> "assign", user |-> j.user]} ELSE {}

Send(j) ==
    /\ j \in sending
    /\ sending' = (sending \ {j}) \cup FollowUp(j)
    /\ waiting' = Append(waiting, IF j.kind = "create" THEN NewJob("sync", NoUser)
                                  ELSE NewJob(j.kind, j.user))
    /\ UNCHANGED <<row, moving, delayed, worker, node, asked, faults, disturbed, recovered>>

SendFails(j) ==
    /\ j \in sending
    /\ sending' = (sending \ {j}) \cup FollowUp(j)
    /\ disturbed' = TRUE
    /\ faults < MaxFaults /\ faults' = faults + 1
    /\ UNCHANGED <<row, moving, waiting, delayed, worker, node, asked, recovered>>

\* moveTask enqueues its job inside the transaction, before the commit.
MoveTask ==
    /\ row.state = "live" /\ row.rev < MaxWrites /\ ~moving /\ asked < MaxAsked
    /\ asked' = asked + 1
    /\ moving' = TRUE
    /\ waiting' = Append(waiting, NewJob("sync", NoUser))
    /\ recovered' = FALSE
    /\ UNCHANGED <<row, sending, delayed, worker, node, faults, disturbed>>

EndMove(committed) ==
    /\ moving
    /\ moving' = FALSE
    /\ row' = IF committed THEN [row EXCEPT !.rev = @ + 1] ELSE row
    /\ UNCHANGED <<sending, waiting, delayed, worker, node, asked, faults, disturbed, recovered>>

RebuildOrgGraph ==
    /\ asked < MaxAsked
    /\ asked' = asked + 1
    /\ waiting' = Append(waiting, NewJob("rebuild", NoUser))
    /\ UNCHANGED <<row, moving, sending, delayed, worker, node, faults, disturbed, recovered>>

-----------------------------------------------------------------------------
(* The workers.                                                             *)

First(kind) == CASE kind \in {"sync", "rebuild"} -> "read"
                 [] OTHER -> kind

Take(w) ==
    /\ worker[w] = Idle
    /\ waiting # <<>>
    /\ worker' = [v \in Workers |->
                     IF v = w
                     THEN [at |-> First(Head(waiting).kind), job |-> Head(waiting),
                           read |-> NoRow, wrote |-> FALSE, alone |-> ~Busy]
                     ELSE IF worker[v] = Idle THEN Idle
                     ELSE [worker[v] EXCEPT !.alone = FALSE]]
    /\ waiting' = Tail(waiting)
    /\ disturbed' = (disturbed \/ Busy)
    /\ UNCHANGED <<row, moving, sending, delayed, node, asked, faults, recovered>>

Step(w, to) == worker' = [worker EXCEPT ![w].at = to, ![w].wrote = TRUE]
Finish(w) == worker' = [worker EXCEPT ![w] = Idle]

\* Mutant of Read: the job carries the row as it was when it was enqueued.
ReadBefore(w) ==
    /\ worker[w].at = "read"
    /\ \E old \in {row, [row EXCEPT !.rev = IF @ > 1 THEN @ - 1 ELSE @]} :
          worker' = [worker EXCEPT ![w].read = old,
                        ![w].at = IF worker[w].job.kind = "sync" THEN "node" ELSE "tasks"]
    /\ disturbed' = (disturbed \/ moving)
    /\ UNCHANGED <<row, moving, sending, waiting, delayed, node, asked, faults, recovered>>

\* The row, committed, as it is when the job runs.
Read(w) ==
    /\ worker[w].at = "read"
    /\ worker' = [worker EXCEPT ![w].read = row,
                      ![w].at = IF worker[w].job.kind = "sync" THEN "node" ELSE "tasks"]
    /\ disturbed' = (disturbed \/ moving)
    /\ UNCHANGED <<row, moving, sending, waiting, delayed, node, asked, faults, recovered>>

Graph(new) ==
    /\ node' = new
    /\ UNCHANGED <<row, moving, sending, waiting, delayed, asked, faults, disturbed, recovered>>

\* syncTask: the node and its properties, then the relationship to the assignee.
SyncNode(w) ==
    LET t == worker[w].read IN
    /\ worker[w].at = "node"
    /\ IF t.assignee = NoUser THEN Finish(w) ELSE Step(w, "edge")
    /\ Graph([node EXCEPT !.there = TRUE, !.rev = t.rev, !.deleted = t.state = "deleted"])

SyncEdge(w) ==
    /\ worker[w].at = "edge"
    /\ Finish(w)
    /\ Graph(IF node.there THEN [node EXCEPT !.out = @ \cup {worker[w].read.assignee}] ELSE node)

\* deleteTask: DETACH DELETE.
DeleteNode(w) ==
    /\ worker[w].at = "delete"
    /\ Finish(w)
    /\ Graph(NoNode)

\* syncTaskAssign creates a bare node when there is none.
SyncTaskAssign(w) ==
    /\ worker[w].at = "assign"
    /\ Finish(w)
    /\ Graph([node EXCEPT !.there = TRUE, !.out = @ \cup {worker[w].job.user}])

\* Mutant of SyncTasks: tasks that have a node already are left alone.
SyncNewTasks(w) ==
    LET t == worker[w].read IN
    /\ worker[w].at = "tasks"
    /\ IF t.state = "live"
       THEN Step(w, "unlink") /\ Graph(IF node.there THEN node ELSE [node EXCEPT !.there = TRUE, !.rev = t.rev])
       ELSE worker' = [worker EXCEPT ![w].at = "rebuilt"] /\ Graph(node)

\* The rebuild writes live tasks, and relationships that point the other way.
SyncTasks(w) ==
    LET t == worker[w].read IN
    /\ worker[w].at = "tasks"
    /\ IF t.state = "live"
       THEN Step(w, "unlink") /\ Graph([node EXCEPT !.there = TRUE, !.rev = t.rev])
       ELSE worker' = [worker EXCEPT ![w].at = "rebuilt"] /\ Graph(node)

Unlink(w) ==
    /\ worker[w].at = "unlink"
    /\ Step(w, "link")
    /\ Graph([node EXCEPT !.in = {}])

Link(w) ==
    /\ worker[w].at = "link"
    /\ Step(w, "rebuilt")
    /\ Graph(IF node.there /\ worker[w].read.assignee # NoUser
             THEN [node EXCEPT !.in = @ \cup {worker[w].read.assignee}] ELSE node)

EndRebuild(w) ==
    /\ worker[w].at = "rebuilt"
    /\ Finish(w)
    /\ recovered' = (/\ sending = {} /\ waiting = <<>> /\ delayed = <<>> /\ ~moving
                     /\ worker[w].alone /\ worker[w].read = row)
    /\ UNCHANGED <<row, moving, sending, waiting, delayed, node, asked, faults, disturbed>>

\* Mutant of Retry: one attempt too many.
RetryOnceMore(w) ==
    /\ worker[w].job.failures < Attempts
    /\ delayed' = Append(delayed, [worker[w].job EXCEPT !.failures = @ + 1])
    /\ UNCHANGED disturbed

Retry(w) ==
    /\ worker[w].job.failures + 1 < Attempts
    /\ delayed' = Append(delayed, [worker[w].job EXCEPT !.failures = @ + 1])
    /\ UNCHANGED disturbed

\* The last attempt: the job is lost unless it has written the node.
GiveUp(w) ==
    /\ worker[w].job.failures + 1 >= Attempts
    /\ disturbed' = (disturbed \/ ~worker[w].wrote)
    /\ UNCHANGED delayed

JobFails(w) ==
    /\ worker[w] # Idle
    /\ Retry(w) \/ GiveUp(w)
    /\ Finish(w)
    /\ UNCHANGED <<row, moving, sending, waiting, node, asked, faults, recovered>>

BackoffEnds(i) ==
    /\ i \in DOMAIN delayed
    /\ waiting' = Append(waiting, delayed[i])
    /\ delayed' = RemoveAt(delayed, i)
    /\ UNCHANGED <<row, moving, sending, worker, node, asked, faults, disturbed, recovered>>

\* The server dies; another one finds the job stalled.
WorkerDies(w) ==
    /\ worker[w] # Idle
    /\ Finish(w)
    /\ IF worker[w].job.stalled
       THEN disturbed' = TRUE /\ UNCHANGED waiting
       ELSE /\ waiting' = <<[worker[w].job EXCEPT !.stalled = TRUE]>> \o waiting
            /\ UNCHANGED disturbed
    /\ faults < MaxFaults /\ faults' = faults + 1
    /\ UNCHANGED <<row, moving, sending, delayed, node, asked, recovered>>

-----------------------------------------------------------------------------

Work(w) ==
    \/ Read(w) \/ SyncNode(w) \/ SyncEdge(w) \/ DeleteNode(w) \/ SyncTaskAssign(w)
    \/ SyncTasks(w) \/ Unlink(w) \/ Link(w) \/ EndRebuild(w)

Next ==
    \/ \E u \in Users \cup {NoUser} : CreateTask(u) \/ UpdateTask(u)
    \/ SoftDeleteTask \/ MoveTask \/ RebuildOrgGraph
    \/ \E c \in BOOLEAN : EndMove(c)
    \/ \E j \in sending : Send(j) \/ SendFails(j)
    \/ \E w \in Workers : Take(w) \/ Work(w) \/ JobFails(w) \/ WorkerDies(w)
    \/ \E i \in DOMAIN delayed : BackoffEnds(i)

Spec == Init /\ [][Next]_vars

-----------------------------------------------------------------------------
(* What holds.                                                              *)

TypeOK ==
    /\ row \in Row
    /\ moving \in BOOLEAN /\ disturbed \in BOOLEAN /\ recovered \in BOOLEAN
    /\ sending \subseteq [kind : {"create", "sync", "delete", "assign"}, user : Users \cup {NoUser}]
    /\ waiting \in Seq(Job) /\ delayed \in Seq(Job)
    /\ worker = [w \in Workers |-> worker[w]]
    /\ \A w \in Workers :
          \/ worker[w] = Idle
          \/ worker[w] \in [at : Place, job : Job, read : Row, wrote : BOOLEAN, alone : BOOLEAN]
    /\ node \in [there : BOOLEAN, rev : 0 .. MaxWrites, deleted : BOOLEAN,
                 out : SUBSET Users, in : SUBSET Users]
    /\ asked \in 0 .. MaxAsked /\ faults \in 0 .. MaxFaults

\* A node with the contents of a task and no deletion mark.
LooksAlive == node.there /\ node.rev > 0 /\ ~node.deleted

\* Once nothing is under way the graph shows the task as it is, however jobs were
\* retried and reordered, unless one was lost, two ran at once, or one ran inside
\* the transaction of a move: the jobs carry no data and read the row themselves.
FreshWhenQuiet ==
    Quiet /\ ~disturbed =>
        /\ row.state = "live" =>
              /\ LooksAlive /\ node.rev = row.rev
              /\ row.assignee # NoUser => row.assignee \in node.out
        /\ row.state = "deleted" => ~LooksAlive

\* Whatever has been lost before, a rebuild that runs on its own brings the node of
\* a task that lives up to date.
RebuildRefreshesLive ==
    recovered /\ row.state = "live" => node.there /\ node.rev = row.rev

-----------------------------------------------------------------------------
(* What the documentation says and the code does not do.                    *)

\* graphSync.helper.ts:30-32, "losing a graph sync is recoverable by re-running the
\* REBUILD_ORG_GRAPH reconciliation job".
RebuildRecovers == recovered /\ row.state = "deleted" => ~LooksAlive

=============================================================================
