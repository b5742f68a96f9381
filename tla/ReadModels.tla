----------------------------- MODULE ReadModels -----------------------------
(***************************************************************************)
(* The CQRS read models of one organisation (modules/events/projectors)    *)
(* and their replay (modules/events/events.replay.ts).                     *)
(*                                                                         *)
(* A project and its tasks change, and each change logs an event.  Calls   *)
(* of runProjectors work on the logged events: those of the outbox poller, *)
(* which repeats an event when a server dies or a mark is lost, and those  *)
(* of a replay, which walks the log page by page.  Within a call every     *)
(* projector runs on its own (Promise.allSettled), and a rejected one is   *)
(* dropped.  One action is one awaited statement of one projector.         *)
(***************************************************************************)
EXTENDS Integers, Sequences, FiniteSets

CONSTANTS
    Tasks,           \* tasks of the project
    NoTask,          \* the task of an event that is about the project
    Deliveries,      \* calls of runProjectors the poller can have in flight
    Replayers,       \* calls of runProjectors a replay can have in flight
    PageSize,        \* env.EVENT_REPLAY_BATCH_SIZE
    Orders,          \* ranks the random ids of the events may have, by age
    MaxEvents,       \* bound: events in the log
    MaxReplays,      \* bound: replays
    MaxDisruptions   \* bound: crashes, repeated deliveries, failing statements

ASSUME NoTaskAssumption == NoTask \notin Tasks
ASSUME CallsAssumption == Deliveries \cap Replayers = {}
ASSUME OrdersAssumption ==
    /\ Orders \subseteq [1 .. MaxEvents -> 1 .. MaxEvents]
    /\ \A o \in Orders : \A i, j \in 1 .. MaxEvents : i # j => o[i] # o[j]
ASSUME PageAssumption == PageSize \in Nat \ {0}
ASSUME FiniteAssumption == IsFiniteSet(Tasks)
ASSUME BoundsAssumption == MaxEvents \in Nat /\ MaxReplays \in Nat /\ MaxDisruptions \in Nat

VARIABLES
    project,      \* the project's row: absent, live or deleted
    task,         \* the rows of tasks
    log,          \* the events, in the order of occurredAt
    delivered,    \* events whose outbox row says delivered
    row,          \* ProjectReadModel
    metrics,      \* OrgMetricsReadModel.activeTasks
    call,         \* the calls of runProjectors
    replay,       \* the replay and its Redis lock
    replays,      \* replays begun so far
    applied,      \* history: the events projectProjector has acted on, until
    missed,       \* history: an event was lost, projected again, or projected
                  \* before project.created
    stale,        \* history: no recomputation of the metrics has run alone
                  \* since a change they missed or two of them overlapped
    disruptions   \* crashes, repeated deliveries, failing statements so far

source == <<project, task, log>>
models == <<row, metrics>>
history == <<applied, missed, stale>>
vars == <<source, delivered, models, call, replay, replays, history, disruptions>>

-----------------------------------------------------------------------------

Calls == Deliveries \cup Replayers
Projector == {"project", "metrics"}

\* The types of events the projectors filter on.
ProjectEvent == {"project.created", "project.deleted"}
TaskEvent == {"task.created", "task.deleted", "task.status_changed"}
Event == [type : ProjectEvent \cup TaskEvent, task : Tasks \cup {NoTask}]

Sizes == 0 .. Cardinality(Tasks)
NoRow == [there |-> FALSE, total |-> 0]
Free == [event |-> 0, at |-> [p \in Projector |-> "end"], active |-> 0]
Idle == [at |-> "idle", ids |-> <<>>, cursor |-> 0, todo |-> {}, full |-> FALSE]

TypeOK ==
    /\ project \in {"absent", "live", "deleted"}
    /\ task \in [Tasks -> [status : {"absent", "open", "done"}, deleted : BOOLEAN]]
    /\ log \in Seq(Event) /\ Len(log) <= MaxEvents
    /\ delivered \subseteq DOMAIN log
    /\ row \in [there : BOOLEAN, total : Int]
    /\ metrics \in Sizes
    /\ call \in [Calls -> [event : {0} \cup DOMAIN log,
                          at : [Projector -> {"start", "write", "end"}],
                          active : Sizes]]
    /\ replay \in [at : {"idle", "paging", "running"}, ids : Orders \cup {<<>>},
                   cursor : 0 .. MaxEvents, todo : SUBSET DOMAIN log, full : BOOLEAN]
    /\ replay.at # "idle" => replay.ids \in Orders
    /\ replays \in 0 .. MaxReplays
    /\ applied \subseteq DOMAIN log
    /\ missed \in BOOLEAN /\ stale \in BOOLEAN
    /\ disruptions \in 0 .. MaxDisruptions

Init ==
    /\ project = "absent"
    /\ task = [t \in Tasks |-> [status |-> "absent", deleted |-> FALSE]]
    /\ log = <<>>
    /\ delivered = {}
    /\ row = NoRow
    /\ metrics = 0
    /\ call = [c \in Calls |-> Free]
    /\ replay = Idle
    /\ replays = 0
    /\ applied = {}
    /\ missed = FALSE
    /\ stale = FALSE
    /\ disruptions = 0

Disrupt ==
    /\ disruptions < MaxDisruptions
    /\ disruptions' = disruptions + 1

-----------------------------------------------------------------------------
(* The changes, and their events.                                           *)

\* From here on the history of the counters is of no interest.
Miss == missed' = TRUE /\ applied' = {}

\* logEvent appends the event; or it rejects after the row has been written, and Promise.allSettled drops that.
Log(type, t) ==
    \/ /\ Len(log) < MaxEvents
       /\ log' = Append(log, [type |-> type, task |-> t])
       /\ UNCHANGED <<history, disruptions>>
    \/ /\ Disrupt
       /\ Miss
       /\ stale' = TRUE
       /\ UNCHANGED log

CreateProject ==
    /\ project = "absent"
    /\ project' = "live"
    /\ Log("project.created", NoTask)
    /\ UNCHANGED <<task, delivered, models, call, replay, replays>>

DeleteProject ==
    /\ project = "live"
    /\ project' = "deleted"
    /\ Log("project.deleted", NoTask)
    /\ UNCHANGED <<task, delivered, models, call, replay, replays>>

CreateTask(t) ==
    /\ project = "live"
    /\ task[t].status = "absent"
    /\ task' = [task EXCEPT ![t].status = "open"]
    /\ Log("task.created", t)
    /\ UNCHANGED <<project, delivered, models, call, replay, replays>>

\* PATCH to DONE: task.status_changed.
FinishTask(t) ==
    /\ task[t].status = "open" /\ ~task[t].deleted
    /\ task' = [task EXCEPT ![t].status = "done"]
    /\ Log("task.status_changed", t)
    /\ UNCHANGED <<project, delivered, models, call, replay, replays>>

\* A move to DONE logs task.moved, which is in no projector's list.
MoveTask(t) ==
    /\ task[t].status = "open" /\ ~task[t].deleted
    /\ task' = [task EXCEPT ![t].status = "done"]
    /\ stale' = TRUE
    /\ UNCHANGED <<project, log, delivered, models, call, replay, replays, applied,
                   missed, disruptions>>

DeleteTask(t) ==
    /\ task[t].status # "absent" /\ ~task[t].deleted
    /\ task' = [task EXCEPT ![t].deleted = TRUE]
    /\ Log("task.deleted", t)
    /\ UNCHANGED <<project, delivered, models, call, replay, replays>>

-----------------------------------------------------------------------------
(* The projectors.                                                          *)

Here(c, p, s) == call[c].event # 0 /\ call[c].at[p] = s
TypeOf(c) == log[call[c].event].type
Goto(c, p, s) == call' = [call EXCEPT ![c].at[p] = s]

\* Each projector starts, unless the event is none of its business.
Started(i) ==
    [Free EXCEPT
        !.event = i,
        !.at = [p \in Projector |->
                   IF \/ p = "project"
                      \/ p = "metrics" /\ log[i].type \in TaskEvent
                   THEN "start" ELSE "end"]]

\* prisma.task.count does not look at deletedAt.
Unfinished == {t \in Tasks : task[t].status = "open"}

\* Mutant of Projected: the task is looked up among those not deleted.
KeepsDeleted(type) ==
    CASE type = "project.created" -> [row EXCEPT !.there = TRUE]
      [] type = "project.deleted" -> NoRow
      [] type = "task.created" /\ row.there -> [row EXCEPT !.total = @ + 1]
      [] OTHER -> row

\* What projectProjector does to the row of the project.  Updates of a row that is
\* not there are caught.  A status change moves no counter: the statuses of its
\* payload are in capitals, those it is compared with are not.
Projected(type) ==
    CASE type = "project.created" -> [row EXCEPT !.there = TRUE]
      [] type = "project.deleted" -> NoRow
      [] type = "task.created" /\ row.there -> [row EXCEPT !.total = @ + 1]
      [] type = "task.deleted" /\ row.there -> [row EXCEPT !.total = @ - 1]
      [] OTHER -> row

\* project.created has been projected.
Founded == \E i \in applied : log[i].type = "project.created"

ProjectProjector(c) ==
    /\ Here(c, "project", "start")
    /\ row' = Projected(TypeOf(c))
    /\ Goto(c, "project", "end")
    /\ IF missed \/ call[c].event \in applied \/ (TypeOf(c) # "project.created" /\ ~Founded)
       THEN Miss
       ELSE applied' = applied \cup {call[c].event} /\ UNCHANGED missed
    /\ UNCHANGED <<source, delivered, metrics, replay, replays, stale, disruptions>>

\* recomputeOrgMetrics: count, then write what was counted.
Recomputing == {c \in Calls : Here(c, "metrics", "write")}

ReadMetrics(c) ==
    /\ Here(c, "metrics", "start")
    /\ call' = [call EXCEPT ![c].at["metrics"] = "write",
                            ![c].active = Cardinality(Unfinished)]
    /\ stale' = (Recomputing # {})
    /\ UNCHANGED <<source, delivered, models, replay, replays, applied, missed, disruptions>>

\* Mutant of WriteMetrics: the row is created, and never updated after that.
WritesOnce(c) ==
    /\ Here(c, "metrics", "write")
    /\ metrics' = IF metrics = 0 THEN call[c].active ELSE metrics
    /\ call' = [call EXCEPT ![c].at["metrics"] = "end", ![c].active = 0]
    /\ UNCHANGED <<source, delivered, row, replay, replays, history, disruptions>>

WriteMetrics(c) ==
    /\ Here(c, "metrics", "write")
    /\ metrics' = call[c].active
    /\ call' = [call EXCEPT ![c].at["metrics"] = "end", ![c].active = 0]
    /\ UNCHANGED <<source, delivered, row, replay, replays, history, disruptions>>

\* A statement rejects; runProjectors settles all the same.
ProjectorFails(c) ==
    /\ Disrupt
    /\ \E p \in Projector :
          /\ call[c].at[p] # "end"
          /\ Goto(c, p, "end")
          /\ IF p = "project" THEN Miss ELSE UNCHANGED <<applied, missed>>
          /\ stale' = (stale \/ p = "metrics")
    /\ UNCHANGED <<source, delivered, models, replay, replays>>

-----------------------------------------------------------------------------
(* The callers.                                                             *)

\* The poller delivers a pending event, in any order: entries of a batch run
\* concurrently, and a retry lets later ones pass.  A delivery whose mark was lost,
\* or that outlived the lock, is repeated.
Deliver(c, i) ==
    /\ call[c] = Free
    /\ \A d \in Deliveries : call[d].event # i
    /\ i \in delivered => disruptions < MaxDisruptions
    /\ disruptions' = IF i \in delivered THEN disruptions + 1 ELSE disruptions
    /\ delivered' = delivered \ {i}
    /\ call' = [call EXCEPT ![c] = Started(i)]
    /\ UNCHANGED <<source, models, replay, replays, history>>

Settled(c) == call[c].event # 0 /\ \A p \in Projector : call[c].at[p] = "end"

\* Mutant of MarkDelivered: the call is cleared before its event is marked.
MarksFreed(c) ==
    /\ Settled(c)
    /\ call' = [call EXCEPT ![c] = Free]
    /\ delivered' = delivered \cup {call'[c].event}
    /\ UNCHANGED <<source, models, replay, replays, history, disruptions>>

MarkDelivered(c) ==
    /\ Settled(c)
    /\ delivered' = delivered \cup {call[c].event}
    /\ call' = [call EXCEPT ![c] = Free]
    /\ UNCHANGED <<source, models, replay, replays, history, disruptions>>

\* replayEvents takes the lock of the organisation.  The ids of the events are random
\* UUIDs; their order is drawn here, where it first matters.
BeginReplay ==
    /\ replay.at = "idle" /\ replays < MaxReplays
    /\ \E ids \in Orders : replay' = [Idle EXCEPT !.at = "paging", !.ids = ids]
    /\ replays' = replays + 1
    /\ UNCHANGED <<source, delivered, models, call, history, disruptions>>

\* The next page: the oldest of the events whose id is greater than the cursor, the
\* id of the last event of the page before.
Beyond == {i \in DOMAIN log : replay.ids[i] > replay.cursor}
Oldest(events) == {i \in events : Cardinality({j \in events : j < i}) < PageSize}
Last(page) == CHOOSE i \in page : \A j \in page : j <= i
First(page) == CHOOSE i \in page : \A j \in page : i <= j

\* Mutant of FetchPage: the cursor is not advanced.
FetchSamePage ==
    /\ replay.at = "paging"
    /\ LET page == Oldest(Beyond) IN
       replay' = IF page = {} THEN Idle
                 ELSE [replay EXCEPT !.at = "running", !.todo = page,
                                     !.full = Cardinality(page) = PageSize]
    /\ UNCHANGED <<source, delivered, models, call, replays, history, disruptions>>

FetchPage ==
    /\ replay.at = "paging"
    /\ LET page == Oldest(Beyond) IN
       replay' = IF page = {} THEN Idle
                 ELSE [replay EXCEPT !.at = "running", !.todo = page,
                                     !.cursor = replay.ids[Last(page)],
                                     !.full = Cardinality(page) = PageSize]
    /\ UNCHANGED <<source, delivered, models, call, replays, history, disruptions>>

\* p-limit starts the events of a page in order, as calls become free.
ReplayEvent(c) ==
    /\ call[c] = Free
    /\ replay.todo # {}
    /\ call' = [call EXCEPT ![c] = Started(First(replay.todo))]
    /\ replay' = [replay EXCEPT !.todo = @ \ {First(@)}]
    /\ UNCHANGED <<source, delivered, models, replays, history, disruptions>>

ReplayedEvent(c) ==
    /\ Settled(c)
    /\ call' = [call EXCEPT ![c] = Free]
    /\ UNCHANGED <<source, delivered, models, replay, replays, history, disruptions>>

\* A page that is not full is the last one; the finally block deletes the lock.
EndPage ==
    /\ replay.at = "running" /\ replay.todo = {}
    /\ \A c \in Replayers : call[c] = Free
    /\ replay' = IF replay.full THEN [replay EXCEPT !.at = "paging"] ELSE Idle
    /\ UNCHANGED <<source, delivered, models, call, replays, history, disruptions>>

\* The process dies with its calls and its replay (whose lock expires).
Crash ==
    /\ Disrupt
    /\ call' = [c \in Calls |-> Free]
    /\ replay' = Idle
    /\ stale' = TRUE
    /\ UNCHANGED <<source, delivered, models, replays, applied, missed>>

Project(c) ==
    \/ ProjectProjector(c)
    \/ ReadMetrics(c)
    \/ WriteMetrics(c)

Next ==
    \/ CreateProject
    \/ DeleteProject
    \/ \E t \in Tasks : CreateTask(t) \/ FinishTask(t) \/ MoveTask(t) \/ DeleteTask(t)
    \/ \E c \in Calls : Project(c) \/ ProjectorFails(c)
    \/ \E c \in Deliveries : MarkDelivered(c) \/ \E i \in DOMAIN log : Deliver(c, i)
    \/ \E c \in Replayers : ReplayEvent(c) \/ ReplayedEvent(c)
    \/ BeginReplay
    \/ FetchPage
    \/ EndPage
    \/ Crash

\* Statements settle, and a replay goes on.
Fairness ==
    /\ \A c \in Replayers : WF_vars(Project(c) \/ ReplayEvent(c) \/ ReplayedEvent(c))
    /\ WF_vars(FetchPage)
    /\ WF_vars(EndPage)

Spec == Init /\ [][Next]_vars /\ Fairness

-----------------------------------------------------------------------------
(* Properties.                                                              *)

Quiet ==
    /\ \A c \in Calls : call[c] = Free
    /\ delivered = DOMAIN log
    /\ replay.at = "idle"

TasksOfProject == {t \in Tasks : task[t].status # "absent" /\ ~task[t].deleted}

\* When every event has been projected once, the project's row is there exactly if
\* the project is, and counts its tasks: in whatever order and overlap the events
\* were projected, as long as project.created came first.
CountersMatch ==
    Quiet /\ ~missed =>
        /\ row.there <=> project = "live"
        /\ row.there => row.total = Cardinality(TasksOfProject)

\* orgMetrics.projector.ts:6-9, "robust against projector drift": whatever was lost,
\* repeated or raced before, one recomputation that runs alone brings the metrics in
\* line with the tables, and they stay so through every change whose event arrives.
RecomputingHeals == Quiet /\ ~stale => metrics = Cardinality(Unfinished)

\* A replay ends, although its pages are ordered by time and cut by id.
ReplayEnds == replay.at # "idle" ~> replay.at = "idle"

-----------------------------------------------------------------------------
(* What the documentation says and the code does not do.                    *)

\* events.replay.ts:23-24, "re-running it on a healthy read model produces the same
\* result".
ReplayIsIdempotent ==
    Quiet /\ disruptions = 0 /\ (~missed \/ replays > 0) =>
        (row.there => row.total = Cardinality(TasksOfProject))

=============================================================================
