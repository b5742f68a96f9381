----------------------------- MODULE TaskBoard -----------------------------
(***************************************************************************)
(* The kanban position engine of one project                               *)
(* (packages/api/src/modules/tasks/tasks.service.ts).                      *)
(*                                                                         *)
(* A card has a column (its status) and a position.  Requests create,      *)
(* delete, move and swap cards, and a PATCH (or an agent's approved        *)
(* update_task_status) changes the column alone.  A move is an interactive *)
(* transaction at READ COMMITTED: each of its statements takes a snapshot  *)
(* of the rows it will touch, then locks and updates them one by one,      *)
(* waiting for rows that another transaction has written and testing each  *)
(* row again once it has the lock; locks are held until the commit.        *)
(***************************************************************************)
EXTENDS Integers, FiniteSets

CONSTANTS
    Tasks,      \* cards of one project
    Statuses,   \* columns
    Requests,   \* requests; each is made once
    MaxPos,     \* bound on the positions that moves ask for
    FirstBoards \* boards to start from

ASSUME MaxPosAssumption == MaxPos \in Nat

VARIABLES
    row,        \* the committed row of each task
    draft,      \* what the open transaction of a request has written
    request,    \* where each request is
    disturbed   \* has a request overlapped another, or changed a column alone

vars == <<row, draft, request, disturbed>>

Slot == [status : Statuses, position : Int]
Target == [status : Statuses, position : 0 .. MaxPos]
Row == [state : {"absent", "live", "deleted"}, status : Statuses, position : Int]

\* The statements of a move, in the order they are sent.
Shift == {"down", "up", "close", "open"}
MoveStep == Shift \cup {"place", "log", "commit"}

Move == [at : MoveStep, task : Tasks, from : Slot, to : Target]
        \cup [at : {"rows"}, stmt : Shift, todo : SUBSET Tasks,
              task : Tasks, from : Slot, to : Target]
Request == [at : {"new", "done", "moved", "failed"}] \cup Move
           \cup [at : {"insert"}, task : Tasks, slot : Slot]
           \cup [at : {"patch"}, task : Tasks, status : Statuses]
           \cup [at : {"delete"}, task : Tasks]
           \cup [at : {"first", "second"}, one : Tasks, other : Tasks,
                 oneTo : Slot, otherTo : Slot]

TypeOK ==
    /\ row \in [Tasks -> Row]
    /\ draft = [r \in Requests |-> draft[r]]
    /\ \A r \in Requests : DOMAIN draft[r] \subseteq Tasks /\ draft[r] \in [DOMAIN draft[r] -> Row]
    /\ request \in [Requests -> Request]
    /\ disturbed \in BOOLEAN

Live(t) == row[t].state = "live"
At(r, step) == request[r].at = step
Active(r) == request[r].at \notin {"new", "done", "moved", "failed"}
Column(s) == {t \in Tasks : Live(t) /\ row[t].status = s}

\* No two cards of a column share a position, and none is negative.
InOrder(board) ==
    \A t \in Tasks :
        board[t].state = "live" =>
            /\ board[t].position >= 0
            /\ \A u \in Tasks \ {t} :
                  board[u].state = "live" /\ board[u].status = board[t].status
                  => board[u].position # board[t].position

\* Any set of boards that requests one after the other may have left, gaps
\* included (a move or a deletion may leave one).
ASSUME BoardAssumption ==
    \A b \in FirstBoards : b \in [Tasks -> Row] /\ InOrder(b)

Init ==
    /\ row \in FirstBoards
    /\ draft = [r \in Requests |-> [t \in {} |-> row[t]]]
    /\ request = [r \in Requests |-> [at |-> "new"]]
    /\ disturbed = FALSE

-----------------------------------------------------------------------------
(* Transactions.                                                            *)

Written(r) == DOMAIN draft[r]
View(r, t) == IF t \in Written(r) THEN draft[r][t] ELSE row[t]
LockedFor(r, t) == \E q \in Requests \ {r} : t \in Written(q)

\* An update inside a transaction, and one that is its own transaction.
Write(r, t, new) ==
    /\ ~LockedFor(r, t)
    /\ draft' = [draft EXCEPT ![r] =
                    [u \in Written(r) \cup {t} |-> IF u = t THEN new ELSE View(r, u)]]
WriteAlone(r, t, new) ==
    /\ ~LockedFor(r, t)
    /\ row' = [row EXCEPT ![t] = new]

Goto(r, step) == request' = [request EXCEPT ![r].at = step]
End(r, how) == request' = [request EXCEPT ![r] = [at |-> how]]

\* A request reads its task and remembers what it read.
Begin(r, what) ==
    /\ At(r, "new")
    /\ request' = [request EXCEPT ![r] = what]
    /\ disturbed' = (disturbed \/ \E q \in Requests : Active(q))
    /\ UNCHANGED <<row, draft>>

-----------------------------------------------------------------------------
(* moveTask.                                                                *)

FirstShift(from, to) ==
    CASE from.status # to.status -> "close"
      [] from.status = to.status /\ to.position > from.position -> "down"
      [] OTHER -> "up"

After(stmt) == IF stmt = "close" THEN "open" ELSE "place"

\* findFirst; a move to where the card is ends at once.
BeginMove(r, t, to) ==
    LET from == [status |-> row[t].status, position |-> row[t].position] IN
    /\ Live(t)
    /\ from # to
    /\ Begin(r, [at |-> FirstShift(from, to), task |-> t, from |-> from, to |-> to])

\* Mutant of Hit: the slot of the moved card is not part of the range.
HitBeyond(m, stmt, card) ==
    CASE stmt = "down" -> /\ card.status = m.from.status
                          /\ m.from.position < card.position
                          /\ card.position < m.to.position
      [] stmt = "up" -> /\ card.status = m.from.status
                        /\ m.to.position < card.position
                        /\ card.position < m.from.position
      [] stmt = "close" -> card.status = m.from.status /\ card.position > m.from.position
      [] stmt = "open" -> card.status = m.to.status /\ card.position > m.to.position

\* The where clauses: deleted rows are shifted like any other.
Hit(m, stmt, card) ==
    CASE stmt = "down" -> /\ card.status = m.from.status
                          /\ m.from.position < card.position
                          /\ card.position <= m.to.position
      [] stmt = "up" -> /\ card.status = m.from.status
                        /\ m.to.position <= card.position
                        /\ card.position < m.from.position
      [] stmt = "close" -> card.status = m.from.status /\ card.position >= m.from.position
      [] stmt = "open" -> card.status = m.to.status /\ card.position >= m.to.position

\* Mutant of Shifted: the shifts go the other way.
ShiftedBackwards(stmt, card) ==
    [card EXCEPT !.position = IF stmt \in {"down", "close"} THEN @ + 1 ELSE @ - 1]

Shifted(stmt, card) ==
    [card EXCEPT !.position = IF stmt \in {"down", "close"} THEN @ - 1 ELSE @ + 1]

\* updateMany begins: the rows it matches now, its own writes included.
BeginShift(r) ==
    LET m == request[r]
        hits == {u \in Tasks \ {m.task} : /\ View(r, u).state # "absent"
                                          /\ Hit(m, m.at, View(r, u))} IN
    /\ m.at \in Shift
    /\ request' = [request EXCEPT ![r] =
                      IF hits = {} THEN [m EXCEPT !.at = After(m.at)]
                      ELSE [at |-> "rows", stmt |-> m.at, todo |-> hits,
                            task |-> m.task, from |-> m.from, to |-> m.to]]
    /\ UNCHANGED <<row, draft, disturbed>>

\* One row of it: when the lock is free, if the row still matches.
ShiftRow(r, u) ==
    LET m == request[r]
        rest == m.todo \ {u} IN
    /\ At(r, "rows")
    /\ u \in m.todo
    /\ ~LockedFor(r, u)
    /\ IF Hit(m, m.stmt, View(r, u))
       THEN Write(r, u, Shifted(m.stmt, View(r, u)))
       ELSE UNCHANGED draft
    /\ request' = [request EXCEPT ![r] =
                      IF rest # {} THEN [m EXCEPT !.todo = rest]
                      ELSE [at |-> After(m.stmt), task |-> m.task,
                            from |-> m.from, to |-> m.to]]
    /\ UNCHANGED <<row, disturbed>>

\* The moved card itself, by id.
Place(r) ==
    LET m == request[r] IN
    /\ At(r, "place")
    /\ Write(r, m.task, [View(r, m.task) EXCEPT !.status = m.to.status,
                                                !.position = m.to.position])
    /\ Goto(r, "log")
    /\ UNCHANGED <<row, disturbed>>

\* logEvent, awaited inside the transaction but committed by its own: a rollback
\* after it leaves an event of a move that never was.
LogMoved(r) ==
    /\ At(r, "log")
    /\ Goto(r, "commit")
    /\ UNCHANGED <<row, draft, disturbed>>

Publish(r) == row' = [t \in Tasks |-> View(r, t)]
NoDraft(r) == draft' = [draft EXCEPT ![r] = [t \in {} |-> row[t]]]

Commit(r) ==
    /\ At(r, "commit")
    /\ Publish(r)
    /\ NoDraft(r)
    /\ End(r, "moved")
    /\ UNCHANGED disturbed

InTransaction(r) == request[r].at \in MoveStep \cup {"rows", "second"}

\* The transaction fails and is rolled back: a rejected statement, logEvent or
\* enqueue, Prisma's time limit for transactions, the death of the server.
Rollback(r) ==
    /\ InTransaction(r)
    /\ NoDraft(r)
    /\ End(r, "failed")
    /\ UNCHANGED <<row, disturbed>>

-----------------------------------------------------------------------------
(* createTask, updateTask, softDeleteTask: a read and a write by id.        *)

\* (max(position) ?? -1) + 1 of the live cards of the column.
Bottom(s, p) ==
    /\ \A t \in Column(s) : row[t].position < p
    /\ IF Column(s) = {} THEN p = 0 ELSE \E t \in Column(s) : row[t].position = p - 1

BeginCreate(r, t, s, p) ==
    /\ row[t].state = "absent"
    /\ \A q \in Requests : At(q, "insert") => request[q].task # t
    /\ Bottom(s, p)
    /\ Begin(r, [at |-> "insert", task |-> t, slot |-> [status |-> s, position |-> p]])

\* Mutant of Insert: the first card of a column gets no position.
InsertUnplaced(r) ==
    LET new == request[r]
        card == [state |-> "live", status |-> new.slot.status,
                 position |-> new.slot.position] IN
    /\ At(r, "insert")
    /\ row' = [row EXCEPT ![new.task] =
                  IF new.slot.position = 0 THEN [state |-> "live"] ELSE card]
    /\ End(r, "done")
    /\ UNCHANGED <<draft, disturbed>>

Insert(r) ==
    LET new == request[r] IN
    /\ At(r, "insert")
    /\ row' = [row EXCEPT ![new.task] = [state |-> "live", status |-> new.slot.status,
                                         position |-> new.slot.position]]
    /\ End(r, "done")
    /\ UNCHANGED <<draft, disturbed>>

\* A PATCH that changes the status, or executeUpdateTaskStatus.
BeginPatch(r, t, s) ==
    /\ Live(t)
    /\ row[t].status # s
    /\ Begin(r, [at |-> "patch", task |-> t, status |-> s])

Patch(r) ==
    LET t == request[r].task IN
    /\ At(r, "patch")
    /\ WriteAlone(r, t, [row[t] EXCEPT !.status = request[r].status])
    /\ End(r, "done")
    /\ disturbed' = TRUE
    /\ UNCHANGED draft

BeginDelete(r, t) ==
    /\ Live(t)
    /\ Begin(r, [at |-> "delete", task |-> t])

Delete(r) ==
    LET t == request[r].task IN
    /\ At(r, "delete")
    /\ WriteAlone(r, t, [row[t] EXCEPT !.state = "deleted"])
    /\ End(r, "done")
    /\ UNCHANGED <<draft, disturbed>>

-----------------------------------------------------------------------------
(* bulkMoveTasks, for the final state of two cards that change places.      *)

SlotOf(t) == [status |-> row[t].status, position |-> row[t].position]

BeginSwap(r, t, u) ==
    /\ t # u /\ Live(t) /\ Live(u)
    /\ Begin(r, [at |-> "first", one |-> t, other |-> u,
                 oneTo |-> SlotOf(u), otherTo |-> SlotOf(t)])

PutAt(card, slot) == [card EXCEPT !.status = slot.status, !.position = slot.position]

SwapFirst(r) ==
    LET m == request[r] IN
    /\ At(r, "first")
    /\ Write(r, m.one, PutAt(View(r, m.one), m.oneTo))
    /\ Goto(r, "second")
    /\ UNCHANGED <<row, disturbed>>

\* The last update and the commit of the transaction.
SwapSecond(r) ==
    LET m == request[r] IN
    /\ At(r, "second")
    /\ ~LockedFor(r, m.other)
    /\ row' = [t \in Tasks |-> IF t = m.other THEN PutAt(View(r, t), m.otherTo)
                               ELSE View(r, t)]
    /\ NoDraft(r)
    /\ End(r, "done")
    /\ UNCHANGED disturbed

-----------------------------------------------------------------------------
(* Deadlocks: Postgres ends one of the transactions that wait in a circle.  *)

\* The rows a transaction may lock next.
Wanted(r) ==
    CASE At(r, "rows") -> request[r].todo
      [] At(r, "place") -> {request[r].task}
      [] At(r, "first") -> {request[r].one}
      [] At(r, "second") -> {request[r].other}
      [] At(r, "patch") \/ At(r, "delete") -> {request[r].task}
      [] OTHER -> {}

Blocked(r) == Wanted(r) # {} /\ \A t \in Wanted(r) : LockedFor(r, t)
Blockers(r) == {q \in Requests \ {r} : Written(q) \cap Wanted(r) # {}}

\* Mutant of Victim: the locks of the victim are kept.
VictimKeepsLocks(r) ==
    /\ \E S \in SUBSET Requests :
          r \in S /\ \A q \in S : Blocked(q) /\ Blockers(q) \subseteq S
    /\ End(r, "failed")
    /\ UNCHANGED <<row, draft, disturbed>>

Victim(r) ==
    /\ \E S \in SUBSET Requests :
          r \in S /\ \A q \in S : Blocked(q) /\ Blockers(q) \subseteq S
    /\ NoDraft(r)
    /\ End(r, "failed")
    /\ UNCHANGED <<row, disturbed>>

-----------------------------------------------------------------------------

BeginAny(r) ==
    \/ \E t \in Tasks :
          \/ \E to \in Target : BeginMove(r, t, to)
          \/ \E s \in Statuses : BeginPatch(r, t, s)
          \/ \E s \in Statuses, p \in {0} \cup {row[u].position + 1 : u \in Tasks} :
                BeginCreate(r, t, s, p)
          \/ BeginDelete(r, t)
          \/ \E u \in Tasks : BeginSwap(r, t, u)

Continue(r) ==
    \/ BeginShift(r) \/ (\E u \in Tasks : ShiftRow(r, u)) \/ Place(r)
    \/ LogMoved(r) \/ Commit(r)
    \/ Insert(r) \/ Patch(r) \/ Delete(r) \/ SwapFirst(r) \/ SwapSecond(r)

Next == \E r \in Requests : BeginAny(r) \/ Continue(r) \/ Rollback(r) \/ Victim(r)

\* Awaited calls return, and Postgres detects deadlocks.
Fairness == \A r \in Requests : WF_vars(Continue(r)) /\ WF_vars(Victim(r))

Spec == Init /\ [][Next]_vars
FairSpec == Spec /\ Fairness

-----------------------------------------------------------------------------
(* What holds.                                                              *)

\* "position is a non-negative integer unique within (projectId, status)": kept
\* by creations, deletions, moves and swaps as long as requests do not overlap
\* and no card changes its column without its position.
PositionsAreUnique == disturbed \/ InOrder(row)

\* A move that does not overlap puts its card where it was asked to, and the
\* other cards of every column stay in the order they were in.
MovesKeepOrder ==
    [][\A r \in Requests :
          ~disturbed /\ At(r, "commit") /\ request'[r].at = "moved" =>
              LET m == request[r] IN
              /\ row'[m.task].status = m.to.status
              /\ row'[m.task].position = m.to.position
              /\ \A t, u \in Tasks \ {m.task} :
                    Live(t) /\ Live(u) /\ row[t].status = row[u].status =>
                        (row[t].position < row[u].position
                         <=> row'[t].position < row'[u].position)]_vars

\* Requests that wait for each other's rows all come to an end.
RequestsEnd == \A r \in Requests : Active(r) ~> ~Active(r)

-----------------------------------------------------------------------------
(* What the documentation says and the code does not do.                    *)

\* tasks.service.ts:27, "`position` is a non-negative integer".
PositionsAreNonNegative == \A t \in Tasks : Live(t) => row[t].position >= 0

=============================================================================
