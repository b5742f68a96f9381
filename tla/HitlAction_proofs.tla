------------------------- MODULE HitlAction_proofs -------------------------
(***************************************************************************)
(* Theorems about HitlAction for every set of actions and requests.        *)
(***************************************************************************)
EXTENDS HitlAction, FiniteSetTheorems, TLAPS

\* The steps a request takes before and after agent.action.approved is logged.
BeforeEffect == {"approve", "expire", "reject", "logApproved", "logRejected", "dispatch"}
AfterApproval == {"dispatch", "record", "logExecuted", "count", "fail", "logFailed"}

\* What a request knows of its own past.
ApprovedRow ==
    \A r \in Requests :
        Active(r) /\ request[r].at \in AfterApproval \cup {"logApproved"}
        => approvedBy[request[r].action]
ApprovalLogged ==
    \A r \in Requests : request[r].at \in AfterApproval => "approved" \in logged[r]
NothingBeforeEffect ==
    \A r \in Requests :
        request[r].at \in BeforeEffect \cup {"new"} => performed[r] = "nothing"
RecordsItsEffect ==
    \A r \in Requests : At(r, "record") => performed[r] = request[r].action

Inv ==
    /\ TypeOK
    /\ ApprovedRow /\ ApprovalLogged /\ NothingBeforeEffect /\ RecordsItsEffect
    /\ PerformedWasApproved /\ ExecutedIsHonest

-----------------------------------------------------------------------------
(* How the helpers move a request.                                          *)

Moved(r, step) ==
    /\ request' \in [Requests -> Request]
    /\ request'[r] = [at |-> step, action |-> request[r].action]
    /\ \A q \in Requests \ {r} : request'[q] = request[q]

LEMMA GotoMoves ==
    ASSUME TypeOK, NEW r \in Requests, Active(r), NEW step \in Step, Goto(r, step)
    PROVE  Moved(r, step)
<1>1. request[r] \in [at : Step, action : Actions]
  BY DEF TypeOK, Request, Active, Step
<1> QED
  BY <1>1 DEF TypeOK, Request, Goto, Moved

Ended(r) ==
    /\ request' \in [Requests -> Request]
    /\ request'[r] = [at |-> "done"]
    /\ \A q \in Requests \ {r} : request'[q] = request[q]

LEMMA FinishMoves ==
    ASSUME TypeOK, NEW r \in Requests, Finish(r)
    PROVE  Ended(r)
BY DEF TypeOK, Request, Finish, Done, Ended

LEMMA ActiveHasAction ==
    ASSUME TypeOK, NEW r \in Requests, Active(r)
    PROVE  request[r] \in [at : Step, action : Actions]
BY DEF TypeOK, Request, Active, Step

-----------------------------------------------------------------------------

LEMMA InvInit == Init => Inv
BY DisruptionsAssumption
   DEF Init, Inv, TypeOK, ApprovedRow, ApprovalLogged, NothingBeforeEffect,
       RecordsItsEffect, PerformedWasApproved, ExecutedIsHonest, Status, Kind,
       Request, New, Active, At, Step, AfterApproval, BeforeEffect

LEMMA InvStep == Inv /\ [Next]_vars => Inv'
<1> SUFFICES ASSUME Inv, [Next]_vars PROVE Inv'
  OBVIOUS
<1> USE DisruptionsAssumption, ActionAssumption DEF Inv
<1> USE DEF TypeOK, ApprovedRow, ApprovalLogged, NothingBeforeEffect,
            RecordsItsEffect, PerformedWasApproved, ExecutedIsHonest, Status, Kind,
            Active, At, AfterApproval, BeforeEffect, Step, row, history
<1>1. ASSUME NEW a \in Actions, NEW low \in BOOLEAN, Propose(a, low) PROVE Inv'
  BY <1>1 DEF Propose, AutoApprove
<1>2. ASSUME NEW a \in Actions, LogCreated(a) PROVE Inv'
  BY <1>2 DEF LogCreated
<1>3. ASSUME NEW a \in Actions, Expire(a) PROVE Inv'
  BY <1>3 DEF Expire
<1>4. ASSUME NEW a \in Actions, NEW r \in Requests,
             BeginApprove(r, a) \/ BeginReject(r, a)
      PROVE Inv'
  <2>1. PICK step \in {"approve", "expire", "reject"} : Begin(r, a, step)
    BY <1>4 DEF BeginApprove, BeginReject
  <2>2. request'[r] = [at |-> step, action |-> a]
    BY <2>1 DEF Begin
  <2>3. request' \in [Requests -> Request]
    BY <2>1 DEF Begin, Request
  <2>4. \A q \in Requests \ {r} : request'[q] = request[q]
    BY <2>1 DEF Begin
  <2>5. performed[r] = "nothing"
    BY <2>1 DEF Begin, New
  <2> QED
    BY <2>1, <2>2, <2>3, <2>4, <2>5 DEF Begin
<1>5. ASSUME NEW r \in Requests, WriteExpired(r) PROVE Inv'
  BY <1>5, FinishMoves, ActiveHasAction DEF Ended, WriteExpired, Set
<1>6. ASSUME NEW r \in Requests, WriteApproved(r) PROVE Inv'
  <2>1. Moved(r, "logApproved") /\ Active(r)
    BY <1>6, GotoMoves DEF WriteApproved, At, Active, Step
  <2>91. TypeOK'
    BY <1>6, <2>1, ActiveHasAction DEF Moved, WriteApproved, Set
  <2>92. ApprovedRow' /\ ApprovalLogged'
    BY <1>6, <2>1, ActiveHasAction DEF Moved, WriteApproved, Set
  <2>93. NothingBeforeEffect' /\ RecordsItsEffect'
    BY <1>6, <2>1, ActiveHasAction DEF Moved, WriteApproved, Set
  <2>94. PerformedWasApproved' /\ ExecutedIsHonest'
    BY <1>6, <2>1, ActiveHasAction DEF Moved, WriteApproved, Set
  <2> QED
    BY <2>91, <2>92, <2>93, <2>94
<1>7. ASSUME NEW r \in Requests, WriteRejected(r) PROVE Inv'
  <2>1. Moved(r, "logRejected") /\ Active(r)
    BY <1>7, GotoMoves DEF WriteRejected, At, Active, Step
  <2>91. TypeOK'
    BY <1>7, <2>1, ActiveHasAction DEF Moved, WriteRejected, Set
  <2>92. ApprovedRow' /\ ApprovalLogged'
    BY <1>7, <2>1, ActiveHasAction DEF Moved, WriteRejected, Set
  <2>93. NothingBeforeEffect' /\ RecordsItsEffect'
    BY <1>7, <2>1, ActiveHasAction DEF Moved, WriteRejected, Set
  <2>94. PerformedWasApproved' /\ ExecutedIsHonest'
    BY <1>7, <2>1, ActiveHasAction DEF Moved, WriteRejected, Set
  <2> QED
    BY <2>91, <2>92, <2>93, <2>94
<1>8. ASSUME NEW r \in Requests, LogApproved(r) PROVE Inv'
  <2>1. Moved(r, "dispatch") /\ Active(r)
    BY <1>8, GotoMoves DEF LogApproved, At, Active, Step
  <2>2. /\ logged' \in [Requests -> SUBSET Kind]
        /\ logged'[r] = logged[r] \cup {"approved"}
        /\ \A q \in Requests \ {r} : logged'[q] = logged[q]
    BY <1>8 DEF LogApproved, Log
  <2>3. request[r] = [at |-> request[r].at, action |-> request[r].action]
    BY <2>1, ActiveHasAction
  <2>91. TypeOK'
    BY <1>8, <2>1, <2>2, <2>3, ActiveHasAction DEF Moved, LogApproved
  <2>92. ApprovedRow' /\ ApprovalLogged'
    BY <1>8, <2>1, <2>2, <2>3, ActiveHasAction DEF Moved, LogApproved
  <2>93. NothingBeforeEffect' /\ RecordsItsEffect'
    BY <1>8, <2>1, <2>2, <2>3, ActiveHasAction DEF Moved, LogApproved
  <2>94. PerformedWasApproved' /\ ExecutedIsHonest'
    BY <1>8, <2>1, <2>2, <2>3, ActiveHasAction DEF Moved, LogApproved
  <2> QED
    BY <2>91, <2>92, <2>93, <2>94
<1>9. ASSUME NEW r \in Requests, LogRejected(r) PROVE Inv'
  BY <1>9, FinishMoves, ActiveHasAction DEF Ended, LogRejected, Log
<1>10. ASSUME NEW r \in Requests, Dispatch(r) PROVE Inv'
  <2>1. PICK step \in {"record", "fail"} :
          /\ Goto(r, step)
          /\ \/ performed' = [performed EXCEPT ![r] = request[r].action]
             \/ performed' = performed /\ step = "fail"
    BY <1>10 DEF Dispatch, CarryOut
  <2>2. Moved(r, step)
    BY <2>1, <1>10, GotoMoves DEF Dispatch, CarryOut
  <2>3. request[r].action \in Actions /\ performed[r] = "nothing"
    BY <1>10, ActiveHasAction DEF Dispatch, CarryOut
  <2>91. TypeOK'
    BY <1>10, <2>1, <2>2, <2>3 DEF Dispatch, CarryOut, Moved
  <2>92. ApprovedRow' /\ ApprovalLogged'
    BY <1>10, <2>1, <2>2, <2>3 DEF Dispatch, CarryOut, Moved
  <2>93. NothingBeforeEffect' /\ RecordsItsEffect'
    BY <1>10, <2>1, <2>2, <2>3 DEF Dispatch, CarryOut, Moved
  <2>94. PerformedWasApproved' /\ ExecutedIsHonest'
    BY <1>10, <2>1, <2>2, <2>3 DEF Dispatch, CarryOut, Moved
  <2> QED
    BY <2>91, <2>92, <2>93, <2>94
<1>11. ASSUME NEW r \in Requests, Record(r) PROVE Inv'
  <2>1. Moved(r, "logExecuted") /\ Active(r)
    BY <1>11, GotoMoves DEF Record, At, Active, Step
  <2>91. TypeOK'
    BY <1>11, <2>1, ActiveHasAction DEF Moved, Record, Set
  <2>92. ApprovedRow' /\ ApprovalLogged'
    BY <1>11, <2>1, ActiveHasAction DEF Moved, Record, Set
  <2>93. NothingBeforeEffect' /\ RecordsItsEffect'
    BY <1>11, <2>1, ActiveHasAction DEF Moved, Record, Set
  <2>94. PerformedWasApproved' /\ ExecutedIsHonest'
    BY <1>11, <2>1, ActiveHasAction DEF Moved, Record, Set
  <2> QED
    BY <2>91, <2>92, <2>93, <2>94
<1>12. ASSUME NEW r \in Requests, LogExecuted(r) PROVE Inv'
  <2>1. Moved(r, "count") /\ Active(r)
    BY <1>12, GotoMoves DEF LogExecuted, At, Active, Step
  <2>2. /\ logged' \in [Requests -> SUBSET Kind]
        /\ logged'[r] = logged[r] \cup {"executed"}
        /\ \A q \in Requests \ {r} : logged'[q] = logged[q]
    BY <1>12 DEF LogExecuted, Log
  <2>3. request[r] = [at |-> request[r].at, action |-> request[r].action]
    BY <2>1, ActiveHasAction
  <2>91. TypeOK'
    BY <1>12, <2>1, <2>2, <2>3, ActiveHasAction DEF Moved, LogExecuted
  <2>92. ApprovedRow'
    BY <1>12, <2>1, <2>2, <2>3, ActiveHasAction DEF Moved, LogExecuted
  <2>96. ApprovalLogged'
    BY <1>12, <2>1, <2>2, <2>3, ActiveHasAction DEF Moved, LogExecuted
  <2>93. NothingBeforeEffect' /\ RecordsItsEffect'
    BY <1>12, <2>1, <2>2, <2>3, ActiveHasAction DEF Moved, LogExecuted
  <2>94. PerformedWasApproved' /\ ExecutedIsHonest'
    BY <1>12, <2>1, <2>2, <2>3, ActiveHasAction DEF Moved, LogExecuted
  <2> QED
    BY <2>91, <2>92, <2>96, <2>93, <2>94
<1>13. ASSUME NEW r \in Requests, CountAction(r) PROVE Inv'
  BY <1>13, FinishMoves DEF Ended, CountAction
<1>14. ASSUME NEW r \in Requests, WriteFailed(r) PROVE Inv'
  <2>1. Moved(r, "logFailed") /\ Active(r)
    BY <1>14, GotoMoves DEF WriteFailed, At, Active, Step
  <2>91. TypeOK'
    BY <1>14, <2>1, ActiveHasAction DEF Moved, WriteFailed, Set
  <2>92. ApprovedRow' /\ ApprovalLogged'
    BY <1>14, <2>1, ActiveHasAction DEF Moved, WriteFailed, Set
  <2>93. NothingBeforeEffect' /\ RecordsItsEffect'
    BY <1>14, <2>1, ActiveHasAction DEF Moved, WriteFailed, Set
  <2>94. PerformedWasApproved' /\ ExecutedIsHonest'
    BY <1>14, <2>1, ActiveHasAction DEF Moved, WriteFailed, Set
  <2> QED
    BY <2>91, <2>92, <2>93, <2>94
<1>15. ASSUME NEW r \in Requests, LogFailed(r) PROVE Inv'
  BY <1>15, FinishMoves DEF Ended, LogFailed, Log
<1>16. ASSUME NEW r \in Requests, RecordingFails(r) PROVE Inv'
  <2>1. Moved(r, "fail") /\ Active(r)
    BY <1>16, GotoMoves DEF RecordingFails, At, Active, Step
  <2>91. TypeOK'
    BY <1>16, <2>1, ActiveHasAction DEF Moved, RecordingFails, Disrupt
  <2>92. ApprovedRow' /\ ApprovalLogged'
    BY <1>16, <2>1, ActiveHasAction DEF Moved, RecordingFails, Disrupt
  <2>93. NothingBeforeEffect' /\ RecordsItsEffect'
    BY <1>16, <2>1, ActiveHasAction DEF Moved, RecordingFails, Disrupt
  <2>94. PerformedWasApproved' /\ ExecutedIsHonest'
    BY <1>16, <2>1, ActiveHasAction DEF Moved, RecordingFails, Disrupt
  <2> QED
    BY <2>91, <2>92, <2>93, <2>94
<1>17. ASSUME NEW r \in Requests, Abandon(r) PROVE Inv'
  BY <1>17, FinishMoves DEF Ended, Abandon, Disrupt
<1>18. CASE UNCHANGED vars
  BY <1>18 DEF vars
<1> HIDE DEF Inv
<1> QED
  BY <1>1, <1>2, <1>3, <1>4, <1>5, <1>6, <1>7, <1>8, <1>9, <1>10, <1>11, <1>12,
     <1>13, <1>14, <1>15, <1>16, <1>17, <1>18
  DEF Next, Continue

LEMMA InvAlways == Spec => []Inv
BY InvInit, InvStep, PTL DEF Spec

\* Every action, request and event log keeps its type.
THEOREM HitlTypesHold == Spec => []TypeOK
<1>1. Inv => TypeOK
  BY DEF Inv
<1> QED
  BY <1>1, InvAlways, PTL

\* No agent action is executed without a human approving it, however approvals,
\* rejections, failures and crashes interleave (approveAction and executeAction
\* check nothing twice).
THEOREM NothingIsPerformedUnapproved == Spec => []PerformedWasApproved
<1>1. Inv => PerformedWasApproved
  BY DEF Inv
<1> QED
  BY <1>1, InvAlways, PTL

\* A row that says EXECUTED tells the truth, under the same interleavings.
THEOREM ExecutedRowsAreHonest == Spec => []ExecutedIsHonest
<1>1. Inv => ExecutedIsHonest
  BY DEF Inv
<1> QED
  BY <1>1, InvAlways, PTL

-----------------------------------------------------------------------------
(* Requests that do not overlap.                                            *)

\* The status an action has while a request is at a step.
Fits(step, s) ==
    \/ step \in {"approve", "expire", "reject"} /\ s = "PENDING"
    \/ step \in {"logApproved", "dispatch", "record", "fail"} /\ s = "APPROVED"
    \/ step = "logRejected" /\ s = "REJECTED"
    \/ step \in {"logExecuted", "count", "fail"} /\ s = "EXECUTED"
    \/ step = "logFailed" /\ s = "FAILED"

Alone ==
    \A r, q \in Requests :
        Active(r) /\ Active(q) /\ request[r].action = request[q].action => r = q
StatusFits ==
    \A r \in Requests : Active(r) => Fits(request[r].at, status[request[r].action])
PerformedWasDecided ==
    \A r \in Requests :
        performed[r] # "nothing" =>
            status[performed[r]] \notin {"absent", "PENDING", "REJECTED"}
FirstToPerform ==
    \A r, q \in Requests :
        request[r].at \in BeforeEffect => performed[q] # request[r].action
OneDoer ==
    \A r, q \in Requests :
        performed[r] # "nothing" /\ performed[r] = performed[q] => r = q
ProposedOnce == \A a \in Actions : proposal[a] = "none" => status[a] = "absent"

SerialInv ==
    /\ Alone /\ StatusFits /\ PerformedWasDecided
    /\ FirstToPerform /\ OneDoer /\ ProposedOnce

LEMMA SerialInit == Init => SerialInv
BY DEF Init, SerialInv, Alone, StatusFits, PerformedWasDecided, FirstToPerform,
       OneDoer, ProposedOnce, Active, New, Step, BeforeEffect

\* One request at a time, so the status a request has read is still the status
\* when it writes.
LEMMA SerialStep ==
    ASSUME Serialised, Inv, SerialInv, [Next]_vars
    PROVE  /\ SerialInv'
           /\ \A a \in Actions :
                 /\ status[a] \in {"REJECTED", "FAILED"} => status'[a] = status[a]
                 /\ status[a] = "EXECUTED" => status'[a] \in {"EXECUTED", "FAILED"}
<1> DEFINE Final == \A a \in Actions :
                      /\ status[a] \in {"REJECTED", "FAILED"} => status'[a] = status[a]
                      /\ status[a] = "EXECUTED" => status'[a] \in {"EXECUTED", "FAILED"}
<1> DEFINE Goal == SerialInv' /\ Final
<1>0. TypeOK
  BY DEF Inv
<1> USE <1>0, ActionAssumption
<1> USE DEF SerialInv, Alone, StatusFits, Fits, PerformedWasDecided, FirstToPerform,
            OneDoer, ProposedOnce, Active, At, BeforeEffect, Step, row, history
<1>1. ASSUME NEW a \in Actions, NEW low \in BOOLEAN, Propose(a, low)
      PROVE  Goal
  <2>1. \A r \in Requests : performed[r] # a /\ (Active(r) => request[r].action # a)
    BY <1>1 DEF Propose
  <2>91. Alone' /\ OneDoer' /\ ProposedOnce'
    BY <1>1, <2>1, ActiveHasAction DEF Propose, TypeOK
  <2>92. StatusFits'
    BY <1>1, <2>1, ActiveHasAction DEF Propose, TypeOK
  <2>93. PerformedWasDecided'
    BY <1>1, <2>1, ActiveHasAction DEF Propose, TypeOK
  <2>94. FirstToPerform'
    BY <1>1, <2>1, ActiveHasAction DEF Propose, TypeOK
  <2>95. Final
    BY <1>1, <2>1, ActiveHasAction DEF Propose, TypeOK
  <2> QED
    BY <2>91, <2>92, <2>93, <2>94, <2>95
<1>2. ASSUME NEW a \in Actions, LogCreated(a)
      PROVE  Goal
  BY <1>2 DEF LogCreated, TypeOK
<1>3. ASSUME NEW a \in Actions, Expire(a)
      PROVE  Goal
  BY <1>3 DEF Expire
<1>4. ASSUME NEW a \in Actions, NEW r \in Requests,
             BeginApprove(r, a) \/ BeginReject(r, a)
      PROVE  Goal
  <2>1. PICK step \in {"approve", "expire", "reject"} : Begin(r, a, step)
    BY <1>4 DEF BeginApprove, BeginReject
  <2>2. request'[r] = [at |-> step, action |-> a]
    BY <2>1 DEF Begin, TypeOK
  <2>3. \A q \in Requests \ {r} : request'[q] = request[q]
    BY <2>1 DEF Begin, TypeOK
  <2>4. \A q \in Requests : Active(q) => request[q].action # a
    BY <2>1 DEF Begin, On
  <2>5. status[a] = "PENDING" /\ \A q \in Requests : performed[q] # a
    BY <2>1 DEF Begin, Decidable, TypeOK
  <2> QED
    BY <2>1, <2>2, <2>3, <2>4, <2>5 DEF Begin
<1>5. ASSUME NEW r \in Requests, WriteExpired(r)
      PROVE  Goal
  <2>1. Ended(r) /\ Active(r)
    BY <1>5, FinishMoves DEF WriteExpired
  <2>91. Alone' /\ OneDoer' /\ ProposedOnce'
    BY <1>5, <2>1, ActiveHasAction DEF Ended, WriteExpired, Set, TypeOK
  <2>92. StatusFits'
    BY <1>5, <2>1, ActiveHasAction DEF Ended, WriteExpired, Set, TypeOK
  <2>93. PerformedWasDecided'
    BY <1>5, <2>1, ActiveHasAction DEF Ended, WriteExpired, Set, TypeOK
  <2>94. FirstToPerform'
    BY <1>5, <2>1, ActiveHasAction DEF Ended, WriteExpired, Set, TypeOK
  <2>95. Final
    BY <1>5, <2>1, ActiveHasAction DEF Ended, WriteExpired, Set, TypeOK
  <2> QED
    BY <2>91, <2>92, <2>93, <2>94, <2>95
<1>6. ASSUME NEW r \in Requests, WriteApproved(r)
      PROVE  Goal
  <2>1. Moved(r, "logApproved") /\ Active(r)
    BY <1>6, GotoMoves DEF WriteApproved
  <2>91. Alone' /\ OneDoer' /\ ProposedOnce'
    BY <1>6, <2>1, ActiveHasAction DEF Moved, WriteApproved, Set, TypeOK
  <2>92. StatusFits'
    BY <1>6, <2>1, ActiveHasAction DEF Moved, WriteApproved, Set, TypeOK
  <2>93. PerformedWasDecided'
    BY <1>6, <2>1, ActiveHasAction DEF Moved, WriteApproved, Set, TypeOK
  <2>94. FirstToPerform'
    BY <1>6, <2>1, ActiveHasAction DEF Moved, WriteApproved, Set, TypeOK
  <2>95. Final
    BY <1>6, <2>1, ActiveHasAction DEF Moved, WriteApproved, Set, TypeOK
  <2> QED
    BY <2>91, <2>92, <2>93, <2>94, <2>95
<1>7. ASSUME NEW r \in Requests, WriteRejected(r)
      PROVE  Goal
  <2>1. Moved(r, "logRejected") /\ Active(r)
    BY <1>7, GotoMoves DEF WriteRejected
  <2>91. Alone' /\ OneDoer' /\ ProposedOnce'
    BY <1>7, <2>1, ActiveHasAction DEF Moved, WriteRejected, Set, TypeOK
  <2>92. StatusFits'
    BY <1>7, <2>1, ActiveHasAction DEF Moved, WriteRejected, Set, TypeOK
  <2>93. PerformedWasDecided'
    BY <1>7, <2>1, ActiveHasAction DEF Moved, WriteRejected, Set, TypeOK
  <2>94. FirstToPerform'
    BY <1>7, <2>1, ActiveHasAction DEF Moved, WriteRejected, Set, TypeOK
  <2>95. Final
    BY <1>7, <2>1, ActiveHasAction DEF Moved, WriteRejected, Set, TypeOK
  <2> QED
    BY <2>91, <2>92, <2>93, <2>94, <2>95
<1>8. ASSUME NEW r \in Requests, LogApproved(r)
      PROVE  Goal
  <2>1. Moved(r, "dispatch") /\ Active(r)
    BY <1>8, GotoMoves DEF LogApproved
  <2>91. Alone' /\ OneDoer' /\ ProposedOnce'
    BY <1>8, <2>1, ActiveHasAction DEF Moved, LogApproved, TypeOK
  <2>92. StatusFits'
    BY <1>8, <2>1, ActiveHasAction DEF Moved, LogApproved, TypeOK
  <2>93. PerformedWasDecided'
    BY <1>8, <2>1, ActiveHasAction DEF Moved, LogApproved, TypeOK
  <2>94. FirstToPerform'
    BY <1>8, <2>1, ActiveHasAction DEF Moved, LogApproved, TypeOK
  <2>95. Final
    BY <1>8, <2>1, ActiveHasAction DEF Moved, LogApproved, TypeOK
  <2> QED
    BY <2>91, <2>92, <2>93, <2>94, <2>95
<1>9. ASSUME NEW r \in Requests, LogRejected(r)
      PROVE  Goal
  <2>1. Ended(r) /\ Active(r)
    BY <1>9, FinishMoves DEF LogRejected
  <2>91. Alone' /\ OneDoer' /\ ProposedOnce'
    BY <1>9, <2>1, ActiveHasAction DEF Ended, LogRejected, TypeOK
  <2>92. StatusFits'
    BY <1>9, <2>1, ActiveHasAction DEF Ended, LogRejected, TypeOK
  <2>93. PerformedWasDecided'
    BY <1>9, <2>1, ActiveHasAction DEF Ended, LogRejected, TypeOK
  <2>94. FirstToPerform'
    BY <1>9, <2>1, ActiveHasAction DEF Ended, LogRejected, TypeOK
  <2>95. Final
    BY <1>9, <2>1, ActiveHasAction DEF Ended, LogRejected, TypeOK
  <2> QED
    BY <2>91, <2>92, <2>93, <2>94, <2>95
<1>10. ASSUME NEW r \in Requests, Dispatch(r)
      PROVE  Goal
  <2>1. PICK step \in {"record", "fail"} :
          /\ Goto(r, step)
          /\ \/ performed' = [performed EXCEPT ![r] = request[r].action]
             \/ performed' = performed /\ step = "fail"
    BY <1>10 DEF Dispatch, CarryOut
  <2>2. Moved(r, step) /\ Active(r)
    BY <2>1, <1>10, GotoMoves DEF Dispatch, CarryOut
  <2>3. \A q \in Requests : performed[q] # request[r].action
    BY <1>10 DEF Dispatch, CarryOut
  <2>4. status[request[r].action] = "APPROVED"
    BY <1>10 DEF Dispatch, CarryOut
  <2>5. \A q \in Requests \ {r} : Active(q) => request[q].action # request[r].action
    BY <2>2
  <2>91. Alone' /\ ProposedOnce'
    BY <1>10, <2>1, <2>2, <2>3, <2>4, <2>5, ActiveHasAction DEF Dispatch, CarryOut, Moved, TypeOK
  <2>96. OneDoer'
    BY <1>10, <2>1, <2>2, <2>3, <2>4, <2>5, ActiveHasAction DEF Dispatch, CarryOut, Moved, TypeOK
  <2>92. StatusFits'
    BY <1>10, <2>1, <2>2, <2>3, <2>4, <2>5, ActiveHasAction DEF Dispatch, CarryOut, Moved, TypeOK
  <2>93. PerformedWasDecided'
    BY <1>10, <2>1, <2>2, <2>3, <2>4, <2>5, ActiveHasAction DEF Dispatch, CarryOut, Moved, TypeOK
  <2>94. FirstToPerform'
    BY <1>10, <2>1, <2>2, <2>3, <2>4, <2>5, ActiveHasAction DEF Dispatch, CarryOut, Moved, TypeOK
  <2>95. Final
    BY <1>10, <2>1, <2>2, <2>3, <2>4, <2>5, ActiveHasAction DEF Dispatch, CarryOut, Moved, TypeOK
  <2> QED
    BY <2>91, <2>92, <2>96, <2>93, <2>94, <2>95
<1>11. ASSUME NEW r \in Requests, Record(r)
      PROVE  Goal
  <2>1. Moved(r, "logExecuted") /\ Active(r)
    BY <1>11, GotoMoves DEF Record
  <2>91. Alone' /\ OneDoer' /\ ProposedOnce'
    BY <1>11, <2>1, ActiveHasAction DEF Moved, Record, Set, TypeOK
  <2>92. StatusFits'
    BY <1>11, <2>1, ActiveHasAction DEF Moved, Record, Set, TypeOK
  <2>93. PerformedWasDecided'
    BY <1>11, <2>1, ActiveHasAction DEF Moved, Record, Set, TypeOK
  <2>94. FirstToPerform'
    BY <1>11, <2>1, ActiveHasAction DEF Moved, Record, Set, TypeOK
  <2>95. Final
    BY <1>11, <2>1, ActiveHasAction DEF Moved, Record, Set, TypeOK
  <2> QED
    BY <2>91, <2>92, <2>93, <2>94, <2>95
<1>12. ASSUME NEW r \in Requests, LogExecuted(r)
      PROVE  Goal
  <2>1. Moved(r, "count") /\ Active(r)
    BY <1>12, GotoMoves DEF LogExecuted
  <2>91. Alone' /\ OneDoer' /\ ProposedOnce'
    BY <1>12, <2>1, ActiveHasAction DEF Moved, LogExecuted, TypeOK
  <2>92. StatusFits'
    BY <1>12, <2>1, ActiveHasAction DEF Moved, LogExecuted, TypeOK
  <2>93. PerformedWasDecided'
    BY <1>12, <2>1, ActiveHasAction DEF Moved, LogExecuted, TypeOK
  <2>94. FirstToPerform'
    BY <1>12, <2>1, ActiveHasAction DEF Moved, LogExecuted, TypeOK
  <2>95. Final
    BY <1>12, <2>1, ActiveHasAction DEF Moved, LogExecuted, TypeOK
  <2> QED
    BY <2>91, <2>92, <2>93, <2>94, <2>95
<1>13. ASSUME NEW r \in Requests, CountAction(r)
      PROVE  Goal
  <2>1. Ended(r) /\ Active(r)
    BY <1>13, FinishMoves DEF CountAction
  <2>91. Alone' /\ OneDoer' /\ ProposedOnce'
    BY <1>13, <2>1, ActiveHasAction DEF Ended, CountAction, TypeOK
  <2>92. StatusFits'
    BY <1>13, <2>1, ActiveHasAction DEF Ended, CountAction, TypeOK
  <2>93. PerformedWasDecided'
    BY <1>13, <2>1, ActiveHasAction DEF Ended, CountAction, TypeOK
  <2>94. FirstToPerform'
    BY <1>13, <2>1, ActiveHasAction DEF Ended, CountAction, TypeOK
  <2>95. Final
    BY <1>13, <2>1, ActiveHasAction DEF Ended, CountAction, TypeOK
  <2> QED
    BY <2>91, <2>92, <2>93, <2>94, <2>95
<1>14. ASSUME NEW r \in Requests, WriteFailed(r)
      PROVE  Goal
  <2>1. Moved(r, "logFailed") /\ Active(r)
    BY <1>14, GotoMoves DEF WriteFailed
  <2>91. Alone' /\ OneDoer' /\ ProposedOnce'
    BY <1>14, <2>1, ActiveHasAction DEF Moved, WriteFailed, Set, TypeOK
  <2>92. StatusFits'
    BY <1>14, <2>1, ActiveHasAction DEF Moved, WriteFailed, Set, TypeOK
  <2>93. PerformedWasDecided'
    BY <1>14, <2>1, ActiveHasAction DEF Moved, WriteFailed, Set, TypeOK
  <2>94. FirstToPerform'
    BY <1>14, <2>1, ActiveHasAction DEF Moved, WriteFailed, Set, TypeOK
  <2>95. Final
    BY <1>14, <2>1, ActiveHasAction DEF Moved, WriteFailed, Set, TypeOK
  <2> QED
    BY <2>91, <2>92, <2>93, <2>94, <2>95
<1>15. ASSUME NEW r \in Requests, LogFailed(r)
      PROVE  Goal
  <2>1. Ended(r) /\ Active(r)
    BY <1>15, FinishMoves DEF LogFailed
  <2>91. Alone' /\ OneDoer' /\ ProposedOnce'
    BY <1>15, <2>1, ActiveHasAction DEF Ended, LogFailed, TypeOK
  <2>92. StatusFits'
    BY <1>15, <2>1, ActiveHasAction DEF Ended, LogFailed, TypeOK
  <2>93. PerformedWasDecided'
    BY <1>15, <2>1, ActiveHasAction DEF Ended, LogFailed, TypeOK
  <2>94. FirstToPerform'
    BY <1>15, <2>1, ActiveHasAction DEF Ended, LogFailed, TypeOK
  <2>95. Final
    BY <1>15, <2>1, ActiveHasAction DEF Ended, LogFailed, TypeOK
  <2> QED
    BY <2>91, <2>92, <2>93, <2>94, <2>95
<1>16. ASSUME NEW r \in Requests, RecordingFails(r)
      PROVE  Goal
  <2>1. Moved(r, "fail") /\ Active(r)
    BY <1>16, GotoMoves DEF RecordingFails
  <2>91. Alone' /\ OneDoer' /\ ProposedOnce'
    BY <1>16, <2>1, ActiveHasAction DEF Moved, RecordingFails, TypeOK
  <2>92. StatusFits'
    BY <1>16, <2>1, ActiveHasAction DEF Moved, RecordingFails, TypeOK
  <2>93. PerformedWasDecided'
    BY <1>16, <2>1, ActiveHasAction DEF Moved, RecordingFails, TypeOK
  <2>94. FirstToPerform'
    BY <1>16, <2>1, ActiveHasAction DEF Moved, RecordingFails, TypeOK
  <2>95. Final
    BY <1>16, <2>1, ActiveHasAction DEF Moved, RecordingFails, TypeOK
  <2> QED
    BY <2>91, <2>92, <2>93, <2>94, <2>95
<1>17. ASSUME NEW r \in Requests, Abandon(r)
      PROVE  Goal
  <2>1. Ended(r) /\ Active(r)
    BY <1>17, FinishMoves DEF Abandon
  <2>91. Alone' /\ OneDoer' /\ ProposedOnce'
    BY <1>17, <2>1, ActiveHasAction DEF Ended, Abandon, TypeOK
  <2>92. StatusFits'
    BY <1>17, <2>1, ActiveHasAction DEF Ended, Abandon, TypeOK
  <2>93. PerformedWasDecided'
    BY <1>17, <2>1, ActiveHasAction DEF Ended, Abandon, TypeOK
  <2>94. FirstToPerform'
    BY <1>17, <2>1, ActiveHasAction DEF Ended, Abandon, TypeOK
  <2>95. Final
    BY <1>17, <2>1, ActiveHasAction DEF Ended, Abandon, TypeOK
  <2> QED
    BY <2>91, <2>92, <2>93, <2>94, <2>95
<1>18. CASE UNCHANGED vars
  BY <1>18 DEF vars
<1>19. Goal
  BY <1>1, <1>2, <1>3, <1>4, <1>5, <1>6, <1>7, <1>8, <1>9, <1>10, <1>11, <1>12,
     <1>13, <1>14, <1>15, <1>16, <1>17, <1>18
  DEF Next, Continue
<1> QED
  BY <1>19

\* A set of requests any two of which are equal has at most one element.
LEMMA AtMostOne ==
    ASSUME NEW S, \A x, y \in S : x = y
    PROVE  Cardinality(S) <= 1
<1>1. CASE S = {}
  BY <1>1, FS_EmptySet
<1>2. CASE S # {}
  <2>1. PICK x : x \in S
    BY <1>2
  <2>2. S = {x}
    BY <2>1
  <2> QED
    BY <2>2, FS_Singleton
<1> QED
  BY <1>1, <1>2

LEMMA SerialPerformsOnce == ActionAssumption /\ TypeOK /\ SerialInv => PerformedOnce
<1> SUFFICES ASSUME TypeOK, SerialInv, NEW a \in Actions PROVE
      LET doers == {r \in Requests : performed[r] = a} IN
      /\ Cardinality(doers) <= 1
      /\ status[a] \in {"absent", "PENDING", "REJECTED"} => doers = {}
  BY DEF PerformedOnce
<1> DEFINE doers == {r \in Requests : performed[r] = a}
<1>1. \A x, y \in doers : x = y
  BY ActionAssumption DEF SerialInv, OneDoer
<1>2. Cardinality(doers) <= 1
  BY <1>1, AtMostOne
<1>3. status[a] \in {"absent", "PENDING", "REJECTED"} => doers = {}
  BY ActionAssumption DEF SerialInv, PerformedWasDecided
<1> QED
  BY <1>2, <1>3

LEMMA SerialRequests ==
    ASSUME Serialised
    PROVE  Spec => []PerformedOnce /\ OutcomeIsFinal
<1>1. Inv /\ SerialInv /\ [Next]_vars => SerialInv'
  BY SerialStep
<1>2. Inv /\ SerialInv /\ [Next]_vars =>
        [\A a \in Actions :
            /\ status[a] \in {"REJECTED", "FAILED"} => status'[a] = status[a]
            /\ status[a] = "EXECUTED" => status'[a] \in {"EXECUTED", "FAILED"}]_vars
  BY SerialStep
<1>3. Inv /\ SerialInv => PerformedOnce
  BY SerialPerformsOnce, ActionAssumption DEF Inv
<1> QED
  BY <1>1, <1>2, <1>3, InvAlways, SerialInit, PTL DEF Spec, OutcomeIsFinal

\* When requests on an action do not overlap, the action is carried out at most
\* once and never after a rejection, whatever call fails and wherever a process
\* dies.
THEOREM SerialRequestsPerformOnce == ASSUME Serialised PROVE Spec => []PerformedOnce
BY SerialRequests

\* When requests on an action do not overlap, its outcome is final.
THEOREM SerialOutcomesAreFinal == ASSUME Serialised PROVE Spec => OutcomeIsFinal
BY SerialRequests

=============================================================================
