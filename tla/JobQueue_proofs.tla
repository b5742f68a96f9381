--------------------------- MODULE JobQueue_proofs ---------------------------
(***************************************************************************)
(* Proofs about JobQueue.  What makes NothingIsLost inductive is Kept: a   *)
(* webhook is never left with nothing but rows that are about to be        *)
(* deleted, because a request adds its job before it deletes its row.      *)
(***************************************************************************)
EXTENDS JobQueue, TLAPS

Doomed(x) == \E r \in Requests : request[r].at = "delete" /\ request[r].row = x
KeptInTable(w) == \E x \in Rows : dead[x] = w /\ ~Doomed(x)
Kept(w) == w \in recorded \cup excused \/ InQueue(w) \/ BeingMoved(w) \/ KeptInTable(w)

FinishedIsRecorded == \A j \in Jobs : job[j].state = "finishing" => job[j].hook \in recorded
RowsMatch ==
    \A r \in Requests :
        request[r].at # "idle" => dead[request[r].row] \in {request[r].hook, None}
AllKept == \A j \in Jobs : job[j].state # "unused" => Kept(job[j].hook)

IInv == TypeOK /\ FinishedIsRecorded /\ RowsMatch /\ AllKept

-----------------------------------------------------------------------------
(* Types.                                                                   *)

\* A job whose attempts and state move on is still a job.
LEMMA JobMoves ==
    ASSUME TypeOK, NEW j \in Jobs, NEW s \in {"waiting", "failed", "completed", "removed"} \cup Active,
           job[j].state # "unused",
           job' = [job EXCEPT ![j].state = s]
    PROVE  /\ job' \in [Jobs -> Job]
           /\ \A i \in Jobs : job'[i].state # "unused" => job[i].state # "unused"
           /\ \A i \in Jobs : job'[i].hook = job[i].hook
           /\ \A i \in Jobs \ {j} : job'[i] = job[i]
           /\ job'[j].state = s
<1>1. job \in [Jobs -> Job] /\ job[j] \in Job
  BY DEF TypeOK
<1>2. /\ job'[j] = [job[j] EXCEPT !.state = s]
      /\ \A i \in Jobs \ {j} : job'[i] = job[i]
      /\ job' = [i \in Jobs |-> job'[i]]
  BY <1>1
<1>3. job'[j] \in Job /\ job'[j].state = s /\ job'[j].hook = job[j].hook
  BY <1>1, <1>2 DEF Job
<1>4. \A i \in Jobs : job'[i] \in Job
  BY <1>1, <1>2, <1>3
<1>5. job' \in [Jobs -> Job]
  BY <1>2, <1>4
<1> QED
  BY <1>1, <1>2, <1>3, <1>5

\* An attempt that fails is counted.
LEMMA JobFails ==
    ASSUME TypeOK, NEW j \in Jobs, AttemptFails(j)
    PROVE  /\ job' \in [Jobs -> Job]
           /\ job'[j].hook = job[j].hook
           /\ job'[j].state = IF GivesUp(j) THEN "failed" ELSE "waiting"
           /\ \A i \in Jobs \ {j} : job'[i] = job[i]
<1> DEFINE s == IF GivesUp(j) THEN "failed" ELSE "waiting"
<1> DEFINE m == Made(j)
<1>1. job \in [Jobs -> Job] /\ job[j] \in Job
  BY DEF TypeOK
<1>2. /\ job'[j] = [job[j] EXCEPT !.made = m, !.state = s]
      /\ \A i \in Jobs \ {j} : job'[i] = job[i]
      /\ job' = [i \in Jobs |-> job'[i]]
  BY <1>1 DEF AttemptFails
<1>3. job[j].made \in Tries /\ job[j].limit \in Tries
  BY <1>1 DEF Job
<1>4. m \in Tries
  BY <1>3, TriesAssumption DEF Made, Tries
<1>5. s \in {"failed", "waiting"}
  OBVIOUS
<1> HIDE DEF s, m
<1>6. /\ [job[j] EXCEPT !.made = m, !.state = s] \in Job
      /\ [job[j] EXCEPT !.made = m, !.state = s].hook = job[j].hook
      /\ [job[j] EXCEPT !.made = m, !.state = s].state = s
  BY <1>1, <1>4, <1>5 DEF Job
<1>7. \A i \in Jobs : job'[i] \in Job
  BY <1>1, <1>2, <1>6
<1>8. job' \in [Jobs -> Job]
  BY <1>2, <1>7
<1> QED
  BY <1>2, <1>6, <1>8 DEF s

\* A job that is added takes an unused id.
LEMMA JobAdded ==
    ASSUME TypeOK, NEW j \in Jobs, NEW w \in Hooks, NEW n \in Tries,
           job[j] = Unused, job' = [job EXCEPT ![j] = NewJob(w, n)]
    PROVE  /\ job' \in [Jobs -> Job]
           /\ \A i \in Jobs \ {j} : job'[i] = job[i]
           /\ job'[j].state = "waiting" /\ job'[j].hook = w
<1>1. job \in [Jobs -> Job]
  BY DEF TypeOK
<1>2. NewJob(w, n) \in Job
  BY TriesAssumption DEF NewJob, Job, Tries
<1>3. /\ job'[j] = NewJob(w, n)
      /\ \A i \in Jobs \ {j} : job'[i] = job[i]
      /\ job' \in [Jobs -> Job]
  BY <1>1, <1>2
<1>4. NewJob(w, n).state = "waiting" /\ NewJob(w, n).hook = w
  BY DEF NewJob
<1> QED
  BY <1>3, <1>4

\* What a crash leaves of a job.
LEMMA JobCrashes ==
    ASSUME TypeOK, NEW j \in Jobs
    PROVE  /\ AfterCrash(j) \in Job
           /\ AfterCrash(j).hook = job[j].hook
           /\ Stalls(j) /\ ~job[j].stalled => AfterCrash(j).state = "waiting"
           /\ ~Stalls(j) => AfterCrash(j).state = job[j].state
           /\ AfterCrash(j).state # "finishing"
           /\ AfterCrash(j).state # "unused" => job[j].state # "unused"
<1> DEFINE s == IF ~Stalls(j) THEN job[j].state
                ELSE IF job[j].stalled THEN "failed" ELSE "waiting"
<1> DEFINE b == (job[j].stalled \/ Stalls(j))
<1>1. job[j] \in Job
  BY DEF TypeOK
<1>2. AfterCrash(j) = [job[j] EXCEPT !.state = s, !.stalled = b]
  BY DEF AfterCrash
<1>3. job[j].stalled \in BOOLEAN /\ job[j].state \in {"unused", "waiting", "failed", "completed", "removed"} \cup Active
  BY <1>1 DEF Job
<1>4. b \in BOOLEAN
  BY <1>3
<1>5. s \in {"unused", "waiting", "failed", "completed", "removed"} \cup Active
  BY <1>3
<1> HIDE DEF s, b
<1>6. /\ [job[j] EXCEPT !.state = s, !.stalled = b] \in Job
      /\ [job[j] EXCEPT !.state = s, !.stalled = b].hook = job[j].hook
      /\ [job[j] EXCEPT !.state = s, !.stalled = b].state = s
  BY <1>1, <1>4, <1>5 DEF Job
<1>7. /\ Stalls(j) /\ ~job[j].stalled => s = "waiting"
      /\ ~Stalls(j) => s = job[j].state
      /\ s # "finishing"
      /\ s # "unused" => job[j].state # "unused"
  BY DEF s, Stalls, Active
<1> QED
  BY <1>2, <1>6, <1>7

LEMMA TypeInit == Init => TypeOK
BY TriesAssumption DEF Init, TypeOK, Job, Unused, NoRequest, Tries

LEMMA TypeStep == TypeOK /\ [Next]_vars => TypeOK'
<1> SUFFICES ASSUME TypeOK, [Next]_vars PROVE TypeOK'
  OBVIOUS
<1>1. ASSUME NEW w \in Hooks, DeliverWebhook(w) PROVE TypeOK'
  <2>1. PICK j \in Jobs : job[j] = Unused /\ job' = [job EXCEPT ![j] = NewJob(w, Attempts)]
    BY <1>1 DEF DeliverWebhook
  <2>2. Attempts \in Tries
    BY TriesAssumption DEF Tries
  <2>3. /\ job' \in [Jobs -> Job]
        /\ \A i \in Jobs \ {j} : job'[i] = job[i]
        /\ job'[j].hook \in Hooks
    BY <2>1, <2>2, JobAdded
  <2> QED
    BY <2>3, <1>1 DEF DeliverWebhook, TypeOK
<1>2. ASSUME NEW j \in Jobs, Take(j) PROVE TypeOK'
  <2>1. /\ job[j].state # "unused" /\ "posting" \in Active
        /\ job' = [job EXCEPT ![j].state = "posting"]
    BY <1>2 DEF Take, Active
  <2>2. /\ job' \in [Jobs -> Job] /\ \A i \in Jobs : job'[i].hook = job[i].hook
        /\ \A i \in Jobs : job'[i].state # "unused" => job[i].state # "unused"
    BY <2>1, JobMoves
  <2> QED
    BY <1>2, <2>2 DEF Take, TypeOK
<1>3. ASSUME NEW j \in Jobs, Post(j) PROVE TypeOK'
  <2>1. job[j].state # "unused" /\ \E s \in Active : job' = [job EXCEPT ![j].state = s]
    BY <1>3 DEF Post, Active
  <2>2. /\ job' \in [Jobs -> Job] /\ \A i \in Jobs : job'[i].hook = job[i].hook
        /\ \A i \in Jobs : job'[i].state # "unused" => job[i].state # "unused"
    BY <2>1, JobMoves
  <2> QED
    BY <1>3, <2>2 DEF Post, TypeOK
<1>4. ASSUME NEW j \in Jobs, Record(j) PROVE TypeOK'
  <2>1. job[j].hook \in Hooks
    BY <1>4 DEF Record, TypeOK
  <2>2. recorded' \subseteq Hooks
    BY <1>4, <2>1 DEF Record, TypeOK
  <2>3. PICK s \in {"finishing", "throwing"} : job' = [job EXCEPT ![j].state = s]
    BY <1>4 DEF Record
  <2> QED
    <3>1. /\ job' \in [Jobs -> Job] /\ \A i \in Jobs : job'[i].hook = job[i].hook
          /\ \A i \in Jobs : job'[i].state # "unused" => job[i].state # "unused"
      <4>1. job[j].state # "unused" /\ s \in Active
        BY <1>4 DEF Record, Active
      <4> QED
        BY <2>3, <4>1, JobMoves
    <3> QED
      BY <1>4, <2>2, <3>1 DEF Record, TypeOK
<1>5. ASSUME NEW j \in Jobs, Complete(j) PROVE TypeOK'
  <2>1. job[j].state # "unused" /\ job' = [job EXCEPT ![j].state = "completed"]
    BY <1>5 DEF Complete, Active
  <2>2. /\ job' \in [Jobs -> Job] /\ \A i \in Jobs : job'[i].hook = job[i].hook
        /\ \A i \in Jobs : job'[i].state # "unused" => job[i].state # "unused"
    BY <2>1, JobMoves
  <2> QED
    BY <1>5, <2>2 DEF Complete, TypeOK
<1>6. ASSUME NEW j \in Jobs, AttemptFails(j) PROVE TypeOK'
  <2>1. moving' \in [Jobs -> Nat]
    BY <1>6 DEF AttemptFails, TypeOK
  <2>2. job[j].hook \in Hooks
    BY <1>6 DEF AttemptFails, TypeOK
  <2> QED
    <3>1. /\ job' \in [Jobs -> Job] /\ job'[j].hook = job[j].hook
          /\ \A i \in Jobs \ {j} : job'[i] = job[i]
      BY <1>6, JobFails
    <3>2. \A i \in Jobs \ {j} : moving'[i] = moving[i]
      BY <1>6 DEF AttemptFails, TypeOK
    <3> QED
      BY <1>6, <2>1, <2>2, <3>1, <3>2 DEF AttemptFails, TypeOK
<1>7. ASSUME NEW j \in Jobs, MoveJobToDLQ(j) PROVE TypeOK'
  <2>1. moving' \in [Jobs -> Nat]
    BY <1>7 DEF MoveJobToDLQ, TypeOK
  <2>2. job[j].hook \in Hooks \cup {None}
    BY DEF TypeOK, Job
  <2>3. dead' \in [Rows -> Hooks \cup {None}]
    BY <1>7, <2>2 DEF MoveJobToDLQ, TypeOK
  <2>4. excused' \subseteq Hooks
    BY <1>7 DEF MoveJobToDLQ, TypeOK
  <2>5. disruptions' \in Nat
    BY <1>7 DEF MoveJobToDLQ, Disrupt, TypeOK
  <2> QED
    BY <1>7, <2>1, <2>3, <2>4, <2>5 DEF MoveJobToDLQ, TypeOK
<1>8. ASSUME NEW j \in Jobs, RetryJob(j) PROVE TypeOK'
  <2>1. disruptions' \in Nat
    BY <1>8 DEF RetryJob, Disrupt, TypeOK
  <2> QED
    <3>1. /\ job' \in [Jobs -> Job] /\ \A i \in Jobs : job'[i].hook = job[i].hook
          /\ \A i \in Jobs : job'[i].state # "unused" => job[i].state # "unused"
      <4>1. job[j].state # "unused" /\ job' = [job EXCEPT ![j].state = "waiting"]
        BY <1>8 DEF RetryJob
      <4> QED
        BY <4>1, JobMoves
    <3> QED
      BY <1>8, <2>1, <3>1 DEF RetryJob, TypeOK
<1>9. ASSUME NEW j \in Jobs, RemoveJob(j) PROVE TypeOK'
  <2>1. disruptions' \in Nat
    BY <1>9 DEF RemoveJob, Disrupt, TypeOK
  <2>2. excused' \subseteq Hooks
    BY <1>9 DEF RemoveJob, TypeOK
  <2> QED
    <3>1. /\ job' \in [Jobs -> Job] /\ \A i \in Jobs : job'[i].hook = job[i].hook
          /\ \A i \in Jobs : job'[i].state # "unused" => job[i].state # "unused"
      <4>1. job[j].state # "unused" /\ job' = [job EXCEPT ![j].state = "removed"]
        BY <1>9 DEF RemoveJob
      <4> QED
        BY <4>1, JobMoves
    <3> QED
      BY <1>9, <2>1, <2>2, <3>1 DEF RemoveJob, TypeOK
<1>10. ASSUME NEW j \in Jobs, Expire(j) PROVE TypeOK'
  <2>1. job[j].state # "unused" /\ job' = [job EXCEPT ![j].state = "removed"]
    BY <1>10 DEF Expire
  <2>2. /\ job' \in [Jobs -> Job] /\ \A i \in Jobs : job'[i].hook = job[i].hook
        /\ \A i \in Jobs : job'[i].state # "unused" => job[i].state # "unused"
    BY <2>1, JobMoves
  <2> QED
    BY <1>10, <2>2 DEF Expire, TypeOK
<1>11. ASSUME NEW r \in Requests, NEW x \in Rows, FindRow(r, x) PROVE TypeOK'
  <2>1. dead[x] \in Hooks
    BY <1>11 DEF FindRow, TypeOK
  <2>2. [at |-> "add", row |-> x, hook |-> dead[x]] \in [at : {"add", "delete"}, row : Rows, hook : Hooks]
    BY <2>1
  <2> QED
    BY <1>11, <2>2 DEF FindRow, TypeOK
<1>12. ASSUME NEW r \in Requests, AddAgain(r) PROVE TypeOK'
  <2>1. request[r] \in [at : {"add", "delete"}, row : Rows, hook : Hooks]
    BY <1>12 DEF AddAgain, TypeOK, NoRequest
  <2>2. request' \in [Requests -> {NoRequest} \cup [at : {"add", "delete"}, row : Rows, hook : Hooks]]
    BY <1>12, <2>1 DEF AddAgain, TypeOK
  <2>3. PICK j \in Jobs : job[j] = Unused /\ job' = [job EXCEPT ![j] = NewJob(request[r].hook, Retries)]
    BY <1>12 DEF AddAgain
  <2>4. Retries \in Tries /\ request[r].hook \in Hooks
    BY <2>1, TriesAssumption DEF Tries
  <2>5. /\ job' \in [Jobs -> Job]
        /\ \A i \in Jobs \ {j} : job'[i] = job[i]
        /\ job'[j].hook \in Hooks
    BY <2>3, <2>4, JobAdded
  <2> QED
    BY <1>12, <2>2, <2>5 DEF AddAgain, TypeOK
<1>13. ASSUME NEW r \in Requests, DeleteRow(r) PROVE TypeOK'
  BY <1>13 DEF DeleteRow, TypeOK
<1>14. ASSUME Crash PROVE TypeOK'
  <2>1. job' \in [Jobs -> Job]
    BY <1>14, JobCrashes DEF Crash
  <2>2. moving' = [j \in Jobs |-> 0] /\ request' = [r \in Requests |-> NoRequest]
    BY <1>14 DEF Crash
  <2>3. \A j \in Jobs : job'[j].state # "unused" => job'[j].hook \in Hooks
    BY <1>14, JobCrashes DEF Crash, TypeOK
  <2>4. excused' \subseteq Hooks
    BY <1>14 DEF Crash, TypeOK, Stalls, Active
  <2>5. disruptions' \in Nat
    BY <1>14 DEF Crash, Disrupt, TypeOK
  <2> QED
    BY <1>14, <2>1, <2>2, <2>3, <2>4, <2>5 DEF Crash, TypeOK
<1>15. CASE UNCHANGED vars
  BY <1>15 DEF vars, TypeOK
<1> QED
  BY <1>1, <1>2, <1>3, <1>4, <1>5, <1>6, <1>7, <1>8, <1>9, <1>10, <1>11, <1>12, <1>13,
     <1>14, <1>15 DEF Next

\* The types of the queue, the table and the requests.
THEOREM JobsTypeCorrect == Spec => []TypeOK
BY TypeInit, TypeStep, PTL DEF Spec

-----------------------------------------------------------------------------
(* Nothing is lost.                                                         *)

\* A webhook that is kept stays so, whatever happens next.
LEMMA KeptStays ==
    ASSUME TypeOK, FinishedIsRecorded, RowsMatch, [Next]_vars, NEW w \in Hooks, Kept(w)
    PROVE  Kept(w)'
<1>1. ASSUME NEW v \in Hooks, DeliverWebhook(v) PROVE Kept(w)'
  <2>1. PICK j \in Jobs : job[j] = Unused /\ job' = [job EXCEPT ![j] = NewJob(v, Attempts)]
    BY <1>1 DEF DeliverWebhook
  <2>2. Attempts \in Tries
    BY TriesAssumption DEF Tries
  <2>3. \A i \in Jobs \ {j} : job'[i] = job[i]
    BY <2>1, <2>2, JobAdded
  <2>4. job[j].hook # w
    BY <2>1, NoneAssumption DEF Unused
  <2> QED
    BY <1>1, <2>3, <2>4 DEF DeliverWebhook, Kept, InQueue, BeingMoved, KeptInTable, Doomed
<1>2. ASSUME NEW j \in Jobs, Take(j) PROVE Kept(w)'
  <2>1. /\ \A i \in Jobs : job'[i].hook = job[i].hook
        /\ \A i \in Jobs \ {j} : job'[i] = job[i]
        /\ job'[j].state = "posting"
    BY <1>2, JobMoves DEF Take, TypeOK, Active
  <2>2. KeptInTable(w) => KeptInTable(w)'
    BY <1>2 DEF Take, KeptInTable, Doomed
  <2>3. InQueue(w) => Kept(w)'
    BY <1>2, <2>1 DEF Take, Kept, InQueue, Active, FinishedIsRecorded
  <2>4. BeingMoved(w) => Kept(w)'
    BY <1>2, <2>1 DEF Take, Kept, BeingMoved, Active
  <2>5. w \in recorded \cup excused => Kept(w)'
    BY <1>2 DEF Take, Kept
  <2> QED
    BY <2>2, <2>3, <2>4, <2>5 DEF Kept
<1>3. ASSUME NEW j \in Jobs, Post(j) PROVE Kept(w)'
  <2>1. /\ \A i \in Jobs : job'[i].hook = job[i].hook
        /\ \A i \in Jobs \ {j} : job'[i] = job[i]
        /\ job'[j].state \in {"recording", "throwing"}
    BY <1>3, JobMoves DEF Post, TypeOK, Active
  <2>2. KeptInTable(w) => KeptInTable(w)'
    BY <1>3 DEF Post, KeptInTable, Doomed
  <2>3. InQueue(w) => Kept(w)'
    BY <1>3, <2>1 DEF Post, Kept, InQueue, Active, FinishedIsRecorded
  <2>4. BeingMoved(w) => Kept(w)'
    BY <1>3, <2>1 DEF Post, Kept, BeingMoved, Active
  <2>5. w \in recorded \cup excused => Kept(w)'
    BY <1>3 DEF Post, Kept
  <2> QED
    BY <2>2, <2>3, <2>4, <2>5 DEF Kept
<1>4. ASSUME NEW j \in Jobs, Record(j) PROVE Kept(w)'
  <2>1. /\ \A i \in Jobs : job'[i].hook = job[i].hook
        /\ \A i \in Jobs \ {j} : job'[i] = job[i]
        /\ job'[j].state \in {"finishing", "throwing"}
    BY <1>4, JobMoves DEF Record, TypeOK, Active
  <2>2. KeptInTable(w) => KeptInTable(w)'
    BY <1>4 DEF Record, KeptInTable, Doomed
  <2>3. InQueue(w) => Kept(w)'
    BY <1>4, <2>1 DEF Record, Kept, InQueue, Active, FinishedIsRecorded
  <2>4. BeingMoved(w) => Kept(w)'
    BY <1>4, <2>1 DEF Record, Kept, BeingMoved, Active
  <2>5. w \in recorded \cup excused => Kept(w)'
    BY <1>4 DEF Record, Kept
  <2> QED
    BY <2>2, <2>3, <2>4, <2>5 DEF Kept
<1>5. ASSUME NEW j \in Jobs, Complete(j) PROVE Kept(w)'
  <2>1. /\ \A i \in Jobs : job'[i].hook = job[i].hook
        /\ \A i \in Jobs \ {j} : job'[i] = job[i]
        /\ job'[j].state = "completed"
    BY <1>5, JobMoves DEF Complete, TypeOK, Active
  <2>2. KeptInTable(w) => KeptInTable(w)'
    BY <1>5 DEF Complete, KeptInTable, Doomed
  <2>3. InQueue(w) => Kept(w)'
    BY <1>5, <2>1 DEF Complete, Kept, InQueue, Active, FinishedIsRecorded
  <2>4. BeingMoved(w) => Kept(w)'
    BY <1>5, <2>1 DEF Complete, Kept, BeingMoved, Active
  <2>5. w \in recorded \cup excused => Kept(w)'
    BY <1>5 DEF Complete, Kept
  <2> QED
    BY <2>2, <2>3, <2>4, <2>5 DEF Kept
<1>6. ASSUME NEW j \in Jobs, AttemptFails(j) PROVE Kept(w)'
  <2>1. /\ \A i \in Jobs : job'[i].hook = job[i].hook
        /\ \A i \in Jobs \ {j} : job'[i] = job[i]
        /\ job'[j].state = IF GivesUp(j) THEN "failed" ELSE "waiting"
    BY <1>6, JobFails
  <2>2. KeptInTable(w) => KeptInTable(w)'
    BY <1>6 DEF AttemptFails, KeptInTable, Doomed
  <2>6. /\ \A i \in Jobs : moving'[i] >= moving[i]
        /\ GivesUp(j) => moving'[j] > 0
    BY <1>6 DEF AttemptFails, TypeOK
  <2>3. InQueue(w) => Kept(w)'
    BY <1>6, <2>1, <2>6 DEF Kept, InQueue, BeingMoved, Active
  <2>4. ASSUME BeingMoved(w) PROVE Kept(w)'
    <3>1. PICK i \in Jobs : job[i].hook = w /\ moving[i] > 0 /\ job[i].state # "removed"
      BY <2>4 DEF BeingMoved
    <3>2. moving[i] \in Nat /\ moving'[i] \in Nat
      BY <1>6 DEF AttemptFails, TypeOK
    <3>3. moving'[i] > 0
      BY <2>6, <3>1, <3>2
    <3>4. job'[i].hook = w /\ job'[i].state # "removed"
      BY <2>1, <3>1
    <3> QED
      BY <3>3, <3>4 DEF Kept, BeingMoved
  <2>5. w \in recorded \cup excused => Kept(w)'
    BY <1>6 DEF AttemptFails, Kept
  <2> QED
    BY <2>2, <2>3, <2>4, <2>5 DEF Kept
<1>7. ASSUME NEW j \in Jobs, MoveJobToDLQ(j) PROVE Kept(w)'
  <2>1. job' = job /\ recorded' = recorded /\ excused \subseteq excused' /\ request' = request
    BY <1>7 DEF MoveJobToDLQ
  <2>2. \A i \in Jobs \ {j} : moving'[i] = moving[i]
    BY <1>7 DEF MoveJobToDLQ, TypeOK
  <2>3. w \in recorded \cup excused \/ InQueue(w) => Kept(w)'
    BY <2>1 DEF Kept, InQueue
  <2>4. ASSUME KeptInTable(w) PROVE Kept(w)'
    <3>1. PICK x \in Rows : dead[x] = w /\ ~Doomed(x)
      BY <2>4 DEF KeptInTable
    <3>2. dead'[x] = w
      BY <1>7, <3>1, NoneAssumption DEF MoveJobToDLQ, TypeOK
    <3> QED
      BY <2>1, <3>1, <3>2 DEF Kept, KeptInTable, Doomed
  <2>5. ASSUME BeingMoved(w) PROVE Kept(w)'
    <3>1. PICK i \in Jobs : job[i].hook = w /\ moving[i] > 0 /\ job[i].state # "removed"
      BY <2>5 DEF BeingMoved
    <3>2. CASE i # j
      BY <2>1, <2>2, <3>1, <3>2 DEF Kept, BeingMoved
    <3>3. CASE i = j /\ w \in excused'
      BY <3>3 DEF Kept
    <3>4. CASE i = j /\ w \notin excused'
      <4>1. PICK x \in Rows :
               /\ \A r \in Requests : request[r].row # x
               /\ dead' = [dead EXCEPT ![x] = job[j].hook]
        BY <1>7, <3>1, <3>4 DEF MoveJobToDLQ
      <4>2. dead'[x] = w /\ ~Doomed(x)'
        BY <2>1, <3>1, <3>4, <4>1 DEF Doomed, TypeOK
      <4> QED
        BY <4>2 DEF Kept, KeptInTable
    <3> QED
      BY <3>2, <3>3, <3>4
  <2> QED
    BY <2>3, <2>4, <2>5 DEF Kept
<1>8. ASSUME NEW j \in Jobs, RetryJob(j) PROVE Kept(w)'
  <2>1. /\ \A i \in Jobs : job'[i].hook = job[i].hook
        /\ \A i \in Jobs \ {j} : job'[i] = job[i]
        /\ job'[j].state = "waiting"
    BY <1>8, JobMoves DEF RetryJob, TypeOK, Active
  <2>2. KeptInTable(w) => KeptInTable(w)'
    BY <1>8 DEF RetryJob, KeptInTable, Doomed
  <2>3. InQueue(w) => Kept(w)'
    BY <1>8, <2>1 DEF RetryJob, Kept, InQueue, Active, FinishedIsRecorded
  <2>4. BeingMoved(w) => Kept(w)'
    BY <1>8, <2>1 DEF RetryJob, Kept, BeingMoved, Active
  <2>5. w \in recorded \cup excused => Kept(w)'
    BY <1>8 DEF RetryJob, Kept
  <2> QED
    BY <2>2, <2>3, <2>4, <2>5 DEF Kept
<1>9. ASSUME NEW j \in Jobs, RemoveJob(j) PROVE Kept(w)'
  <2>1. /\ \A i \in Jobs : job'[i].hook = job[i].hook
        /\ \A i \in Jobs \ {j} : job'[i] = job[i]
        /\ job'[j].state = "removed"
    BY <1>9, JobMoves DEF RemoveJob
  <2>2. KeptInTable(w) => KeptInTable(w)'
    BY <1>9 DEF RemoveJob, KeptInTable, Doomed
  <2>3. InQueue(w) => Kept(w)'
    BY <1>9, <2>1 DEF RemoveJob, Kept, InQueue, Active, FinishedIsRecorded
  <2>4. BeingMoved(w) => Kept(w)'
    BY <1>9, <2>1 DEF RemoveJob, Kept, BeingMoved, Active
  <2>5. w \in recorded \cup excused => Kept(w)'
    BY <1>9 DEF RemoveJob, Kept
  <2> QED
    BY <2>2, <2>3, <2>4, <2>5 DEF Kept
<1>10. ASSUME NEW j \in Jobs, Expire(j) PROVE Kept(w)'
  <2>1. /\ \A i \in Jobs : job'[i].hook = job[i].hook
        /\ \A i \in Jobs \ {j} : job'[i] = job[i]
        /\ job'[j].state = "removed"
    BY <1>10, JobMoves DEF Expire
  <2>2. KeptInTable(w) => KeptInTable(w)'
    BY <1>10 DEF Expire, KeptInTable, Doomed
  <2>3. InQueue(w) => Kept(w)'
    BY <1>10, <2>1 DEF Expire, Kept, InQueue, Active, FinishedIsRecorded
  <2>4. BeingMoved(w) => Kept(w)'
    BY <1>10, <2>1 DEF Expire, Kept, BeingMoved, Active
  <2>5. w \in recorded \cup excused => Kept(w)'
    BY <1>10 DEF Expire, Kept
  <2> QED
    BY <2>2, <2>3, <2>4, <2>5 DEF Kept
<1>11. ASSUME NEW r \in Requests, NEW x \in Rows, FindRow(r, x) PROVE Kept(w)'
  <2>1. \A y \in Rows : Doomed(y)' => Doomed(y)
    BY <1>11 DEF FindRow, Doomed, TypeOK
  <2> QED
    BY <1>11, <2>1 DEF FindRow, Kept, InQueue, BeingMoved, KeptInTable
<1>12. ASSUME NEW r \in Requests, AddAgain(r) PROVE Kept(w)'
  <2>1. request[r] \in [at : {"add", "delete"}, row : Rows, hook : Hooks]
    BY <1>12 DEF AddAgain, TypeOK, NoRequest
  <2>2. PICK j \in Jobs : job[j] = Unused /\ job' = [job EXCEPT ![j] = NewJob(request[r].hook, Retries)]
    BY <1>12 DEF AddAgain
  <2>3. Retries \in Tries /\ request[r].hook \in Hooks
    BY <2>1, TriesAssumption DEF Tries
  <2>4. /\ \A i \in Jobs \ {j} : job'[i] = job[i]
        /\ job'[j].state = "waiting" /\ job'[j].hook = request[r].hook
    BY <2>2, <2>3, JobAdded
  <2>5. job[j].hook # w
    BY <2>2, NoneAssumption DEF Unused
  <2>6. w \in recorded \cup excused \/ InQueue(w) \/ BeingMoved(w) => Kept(w)'
    BY <1>12, <2>4, <2>5 DEF AddAgain, Kept, InQueue, BeingMoved
  <2>7. ASSUME KeptInTable(w) PROVE Kept(w)'
    <3>1. PICK x \in Rows : dead[x] = w /\ ~Doomed(x)
      BY <2>7 DEF KeptInTable
    <3>2. CASE request[r].row # x
      <4>1. ~Doomed(x)'
        BY <1>12, <3>1, <3>2 DEF AddAgain, Doomed, TypeOK
      <4> QED
        BY <1>12, <3>1, <4>1 DEF AddAgain, Kept, KeptInTable
    <3>3. CASE request[r].row = x
      <4>1. request[r].hook = w
        BY <1>12, <3>1, <3>3, NoneAssumption DEF AddAgain, RowsMatch
      <4> QED
        BY <2>4, <4>1 DEF Kept, InQueue
    <3> QED
      BY <3>2, <3>3
  <2> QED
    BY <2>6, <2>7 DEF Kept
<1>13. ASSUME NEW r \in Requests, DeleteRow(r) PROVE Kept(w)'
  <2>1. \A y \in Rows : Doomed(y)' => Doomed(y)
    BY <1>13 DEF DeleteRow, Doomed, TypeOK, NoRequest
  <2>2. ASSUME NEW x \in Rows, dead[x] = w, ~Doomed(x) PROVE dead'[x] = w
    BY <1>13, <2>2 DEF DeleteRow, Doomed, TypeOK
  <2> QED
    BY <1>13, <2>1, <2>2 DEF DeleteRow, Kept, InQueue, BeingMoved, KeptInTable
<1>14. ASSUME Crash PROVE Kept(w)'
  <2>1. \A j \in Jobs : job'[j] = AfterCrash(j)
    BY <1>14 DEF Crash
  <2>2. KeptInTable(w) => Kept(w)'
    BY <1>14 DEF Crash, Kept, KeptInTable, Doomed, NoRequest
  <2>3. w \in recorded \cup excused => Kept(w)'
    BY <1>14 DEF Crash, Kept
  <2>4. BeingMoved(w) => Kept(w)'
    BY <1>14 DEF Crash, Kept, BeingMoved
  <2>5. ASSUME InQueue(w) PROVE Kept(w)'
    <3>1. PICK j \in Jobs : job[j].hook = w /\ job[j].state \in {"waiting"} \cup Active
      BY <2>5 DEF InQueue
    <3>2. CASE Stalls(j) /\ job[j].stalled
      BY <1>14, <3>1, <3>2 DEF Crash, Kept
    <3>3. CASE Stalls(j) /\ ~job[j].stalled
      BY <2>1, <3>1, <3>3, JobCrashes DEF Kept, InQueue
    <3>4. CASE ~Stalls(j)
      BY <2>1, <3>1, <3>4, JobCrashes DEF Kept, InQueue, Stalls
    <3> QED
      BY <3>2, <3>3, <3>4
  <2> QED
    BY <2>2, <2>3, <2>4, <2>5 DEF Kept
<1>15. CASE UNCHANGED vars
  BY <1>15 DEF vars, Kept, InQueue, BeingMoved, KeptInTable, Doomed
<1> QED
  BY <1>1, <1>2, <1>3, <1>4, <1>5, <1>6, <1>7, <1>8, <1>9, <1>10, <1>11, <1>12, <1>13,
     <1>14, <1>15 DEF Next

\* What the other parts of the invariant say, after a step.
LEMMA RowsMatchStep == TypeOK /\ RowsMatch /\ [Next]_vars => RowsMatch'
<1> SUFFICES ASSUME TypeOK, RowsMatch, [Next]_vars PROVE RowsMatch'
  OBVIOUS
<1>1. CASE UNCHANGED <<dead, request>>
  BY <1>1 DEF RowsMatch
<1>2. ASSUME NEW j \in Jobs, MoveJobToDLQ(j) PROVE RowsMatch'
  <2> SUFFICES ASSUME NEW r \in Requests, request[r].at # "idle"
               PROVE  dead'[request[r].row] \in {request[r].hook, None}
    BY <1>2 DEF MoveJobToDLQ, RowsMatch
  <2>1. request[r].row \in Rows
    BY DEF TypeOK, NoRequest
  <2>2. dead'[request[r].row] = dead[request[r].row]
    BY <1>2, <2>1 DEF MoveJobToDLQ, TypeOK
  <2> QED
    BY <2>2 DEF RowsMatch
<1>3. ASSUME NEW r \in Requests, NEW x \in Rows, FindRow(r, x) PROVE RowsMatch'
  BY <1>3 DEF FindRow, RowsMatch, TypeOK
<1>4. ASSUME NEW r \in Requests, AddAgain(r) PROVE RowsMatch'
  <2>1. request[r] \in [at : {"add", "delete"}, row : Rows, hook : Hooks]
    BY <1>4 DEF AddAgain, TypeOK, NoRequest
  <2>2. request'[r].row = request[r].row /\ request'[r].hook = request[r].hook
    BY <1>4, <2>1 DEF AddAgain, TypeOK
  <2>3. \A q \in Requests \ {r} : request'[q] = request[q]
    BY <1>4 DEF AddAgain, TypeOK
  <2>4. dead' = dead /\ request[r].at = "add"
    BY <1>4 DEF AddAgain
  <2> QED
    BY <2>2, <2>3, <2>4 DEF RowsMatch
<1>5. ASSUME NEW r \in Requests, DeleteRow(r) PROVE RowsMatch'
  BY <1>5 DEF DeleteRow, RowsMatch, TypeOK, NoRequest
<1>6. ASSUME Crash PROVE RowsMatch'
  BY <1>6 DEF Crash, RowsMatch, NoRequest
<1> QED
  BY <1>1, <1>2, <1>3, <1>4, <1>5, <1>6 DEF Next, vars, DeliverWebhook, Take, Post, Record,
     Complete, AttemptFails, RetryJob, RemoveJob, Expire

LEMMA FinishedStep == TypeOK /\ FinishedIsRecorded /\ [Next]_vars => FinishedIsRecorded'
<1> SUFFICES ASSUME TypeOK, FinishedIsRecorded, [Next]_vars, NEW i \in Jobs,
                    job'[i].state = "finishing"
             PROVE  job'[i].hook \in recorded'
  BY DEF FinishedIsRecorded
<1>1. recorded \subseteq recorded'
  BY DEF Next, vars, DeliverWebhook, Take, Post, Record, Complete, AttemptFails, MoveJobToDLQ,
     RetryJob, RemoveJob, Expire, FindRow, AddAgain, DeleteRow, Crash
<1>2. CASE job'[i] = job[i]
  BY <1>1, <1>2 DEF FinishedIsRecorded
<1>3. CASE Record(i)
  <2>1. job' # [job EXCEPT ![i].state = "throwing"]
    BY DEF TypeOK, Job
  <2>2. recorded' = recorded \cup {job[i].hook} /\ job' = [job EXCEPT ![i].state = "finishing"]
    BY <1>3, <2>1 DEF Record
  <2>3. job'[i].hook = job[i].hook
    BY <1>3, <2>2, JobMoves DEF Record, Active
  <2> QED
    BY <2>2, <2>3
<1>4. ASSUME job'[i] # job[i], ~Record(i) PROVE FALSE
  <2>1. ASSUME NEW w \in Hooks, DeliverWebhook(w) PROVE FALSE
    BY <1>4, <2>1 DEF DeliverWebhook, NewJob, TypeOK
  <2>2. ASSUME NEW r \in Requests, AddAgain(r) PROVE FALSE
    BY <1>4, <2>2 DEF AddAgain, NewJob, TypeOK
  <2>3. ASSUME NEW j \in Jobs, Take(j) PROVE FALSE
    BY <1>4, <2>3 DEF Take, TypeOK, Job
  <2>4. ASSUME NEW j \in Jobs, Post(j) PROVE FALSE
    BY <1>4, <2>4 DEF Post, TypeOK, Job
  <2>5. ASSUME NEW j \in Jobs, Complete(j) PROVE FALSE
    BY <1>4, <2>5 DEF Complete, TypeOK, Job
  <2>6. ASSUME NEW j \in Jobs, AttemptFails(j) PROVE FALSE
    BY <1>4, <2>6, JobFails
  <2>7. ASSUME NEW j \in Jobs, RetryJob(j) \/ RemoveJob(j) \/ Expire(j) PROVE FALSE
    BY <1>4, <2>7 DEF RetryJob, RemoveJob, Expire, TypeOK, Job
  <2>8. ASSUME NEW j \in Jobs, Record(j) PROVE FALSE
    BY <1>4, <2>8 DEF Record, TypeOK
  <2>9. ASSUME Crash PROVE FALSE
    BY <1>4, <2>9, JobCrashes DEF Crash
  <2>10. job' # job
    BY <1>4
  <2> QED
    BY <2>1, <2>2, <2>3, <2>4, <2>5, <2>6, <2>7, <2>8, <2>9, <2>10
       DEF Next, vars, MoveJobToDLQ, FindRow, DeleteRow
<1> QED
  BY <1>2, <1>3, <1>4

\* A job in use keeps its webhook, and a job that is added waits.
LEMMA JobStep ==
    ASSUME TypeOK, [Next]_vars, NEW i \in Jobs, job'[i].state # "unused",
           job'[i].state # "waiting"
    PROVE  job[i].state # "unused" /\ job'[i].hook = job[i].hook
<1>1. ASSUME NEW w \in Hooks, DeliverWebhook(w)
      PROVE  job[i].state # "unused" /\ job'[i].hook = job[i].hook
  BY <1>1 DEF DeliverWebhook, NewJob, TypeOK
<1>2. ASSUME NEW r \in Requests, AddAgain(r)
      PROVE  job[i].state # "unused" /\ job'[i].hook = job[i].hook
  BY <1>2 DEF AddAgain, NewJob, TypeOK
<1>3. ASSUME NEW j \in Jobs, Take(j)
      PROVE  job[i].state # "unused" /\ job'[i].hook = job[i].hook
  BY <1>3, JobMoves DEF Take, Active
<1>4. ASSUME NEW j \in Jobs, Post(j)
      PROVE  job[i].state # "unused" /\ job'[i].hook = job[i].hook
  BY <1>4, JobMoves DEF Post, Active
<1>5. ASSUME NEW j \in Jobs, Record(j)
      PROVE  job[i].state # "unused" /\ job'[i].hook = job[i].hook
  BY <1>5, JobMoves DEF Record, Active
<1>6. ASSUME NEW j \in Jobs, Complete(j)
      PROVE  job[i].state # "unused" /\ job'[i].hook = job[i].hook
  BY <1>6, JobMoves DEF Complete
<1>7. ASSUME NEW j \in Jobs, AttemptFails(j)
      PROVE  job[i].state # "unused" /\ job'[i].hook = job[i].hook
  BY <1>7, JobFails DEF AttemptFails
<1>8. ASSUME NEW j \in Jobs, RetryJob(j)
      PROVE  job[i].state # "unused" /\ job'[i].hook = job[i].hook
  BY <1>8, JobMoves DEF RetryJob
<1>9. ASSUME NEW j \in Jobs, RemoveJob(j)
      PROVE  job[i].state # "unused" /\ job'[i].hook = job[i].hook
  BY <1>9, JobMoves DEF RemoveJob
<1>10. ASSUME NEW j \in Jobs, Expire(j)
       PROVE  job[i].state # "unused" /\ job'[i].hook = job[i].hook
  BY <1>10, JobMoves DEF Expire
<1>11. ASSUME Crash
       PROVE  job[i].state # "unused" /\ job'[i].hook = job[i].hook
  BY <1>11, JobCrashes DEF Crash
<1>12. CASE job' = job
  BY <1>12
<1> QED
  BY <1>1, <1>2, <1>3, <1>4, <1>5, <1>6, <1>7, <1>8, <1>9, <1>10, <1>11, <1>12
     DEF Next, vars, MoveJobToDLQ, FindRow, DeleteRow

LEMMA AllKeptStep ==
    TypeOK /\ FinishedIsRecorded /\ RowsMatch /\ AllKept /\ [Next]_vars => AllKept'
<1> SUFFICES ASSUME TypeOK, FinishedIsRecorded, RowsMatch, AllKept, [Next]_vars,
                    NEW i \in Jobs, job'[i].state # "unused"
             PROVE  Kept(job[i].hook)'
  BY DEF AllKept
<1>1. CASE job'[i].state = "waiting"
  BY <1>1 DEF Kept, InQueue
<1>2. CASE job'[i].state # "waiting"
  <2>1. job[i].state # "unused" /\ job'[i].hook = job[i].hook
    BY <1>2, JobStep
  <2>2. job[i].hook \in Hooks /\ Kept(job[i].hook)
    BY <2>1 DEF AllKept, TypeOK
  <2>3. PICK w \in Hooks : w = job[i].hook
    BY <2>2
  <2>4. Kept(w)'
    BY <2>2, <2>3, KeptStays
  <2>5. job'[i].hook = w
    BY <2>1, <2>3
  <2> QED
    BY <2>4, <2>5 DEF Kept, InQueue, BeingMoved, KeptInTable
<1> QED
  BY <1>1, <1>2

\* No webhook is ever lost between the queue and the dead-letter table, by
\* competing retries, retries cut short or crashes, except those `excused` names
\* (webhook.worker.ts, dead-letter.service.ts).
THEOREM NoWebhookIsLost == Spec => []NothingIsLost
<1>1. Init => IInv
  BY TypeInit DEF Init, IInv, FinishedIsRecorded, RowsMatch, AllKept, Unused, NoRequest
<1>2. IInv /\ [Next]_vars => IInv'
  BY TypeStep, FinishedStep, RowsMatchStep, AllKeptStep DEF IInv
<1>3. IInv => NothingIsLost
  BY DEF IInv, AllKept, NothingIsLost, Kept, KeptInTable, InTable
<1> QED
  BY <1>1, <1>2, <1>3, PTL DEF Spec

=============================================================================
