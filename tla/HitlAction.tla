----------------------------- MODULE HitlAction -----------------------------
(***************************************************************************)
(* Human-in-the-loop approval of the actions that agents propose           *)
(* (packages/api/src/modules/agents/hitl.service.ts).                      *)
(*                                                                         *)
(* A worker inserts an action as PENDING; humans approve or reject it by   *)
(* HTTP requests, which may overlap; an approval goes on to execute the    *)
(* action within the same request.  Every handler reads the row once and   *)
(* then updates it by id alone, one awaited call after the other, so each  *)
(* of its steps is an action here and any other request may run between.   *)
(* A step that fails, or a process that dies, ends the request where it is.*)
(***************************************************************************)
EXTENDS Naturals, FiniteSets

CONSTANTS
    Actions,         \* rows of agent_actions
    Requests,        \* approve and reject requests; each is made once
    HitlEnabled,     \* env.HITL_ENABLED
    Serialised,      \* TRUE: no two requests on one action overlap
    MaxDisruptions   \* bound: rejected DB calls and dead processes

ASSUME EnabledAssumption == HitlEnabled \in BOOLEAN
ASSUME SerialisedAssumption == Serialised \in BOOLEAN
ASSUME DisruptionsAssumption == MaxDisruptions \in Nat
ASSUME ActionAssumption == "nothing" \notin Actions

VARIABLES
    status,       \* status of each row
    approvedBy,   \* is approved_by of the row set
    expired,      \* has expires_at passed
    proposal,     \* where createPendingAction is
    request,      \* where each request is
    performed,    \* the requests that carried out the side effect
    logged,       \* the events each request has logged
    counted,      \* the requests that incremented agent.actionsCount
    disruptions

row == <<status, approvedBy, expired, proposal>>
history == <<performed, logged, counted>>
vars == <<row, request, history, disruptions>>

Status == {"absent", "PENDING", "APPROVED", "REJECTED", "EXECUTED", "FAILED"}
Kind == {"approved", "rejected", "executed", "failed"}

\* What a request does next.
Step == {"approve", "expire", "reject", "logApproved", "logRejected", "dispatch",
         "record", "logExecuted", "count", "fail", "logFailed"}
Request == [at : {"new", "done"}] \cup [at : Step, action : Actions]

New == [at |-> "new"]
Done == [at |-> "done"]

TypeOK ==
    /\ status \in [Actions -> Status]
    /\ approvedBy \in [Actions -> BOOLEAN]
    /\ expired \in [Actions -> BOOLEAN]
    /\ proposal \in [Actions -> {"none", "refused", "logging", "returned"}]
    /\ request \in [Requests -> Request]
    /\ performed \in [Requests -> {"nothing"} \cup Actions]
    /\ logged \in [Requests -> SUBSET Kind]
    /\ counted \in SUBSET Requests
    /\ disruptions \in 0 .. MaxDisruptions

Init ==
    /\ status = [a \in Actions |-> "absent"]
    /\ approvedBy = [a \in Actions |-> FALSE]
    /\ expired = [a \in Actions |-> FALSE]
    /\ proposal = [a \in Actions |-> "none"]
    /\ request = [r \in Requests |-> New]
    /\ performed = [r \in Requests |-> "nothing"]
    /\ logged = [r \in Requests |-> {}]
    /\ counted = {}
    /\ disruptions = 0

Disrupt ==
    /\ disruptions < MaxDisruptions
    /\ disruptions' = disruptions + 1

-----------------------------------------------------------------------------
(* createPendingAction.                                                     *)

\* low: the agent is AUTO_LOW_RISK, the action of low risk, the agent confident.
AutoApprove(low) == HitlEnabled /\ low

\* The insert.  An auto-approved row has approved_by = the agent's id, which
\* the foreign key to users refuses: the call rejects and nothing is stored.
Propose(a, low) ==
    /\ proposal[a] = "none"
    /\ IF AutoApprove(low)
       THEN /\ proposal' = [proposal EXCEPT ![a] = "refused"]
            /\ UNCHANGED status
       ELSE /\ proposal' = [proposal EXCEPT ![a] = "logging"]
            /\ status' = [status EXCEPT ![a] = "PENDING"]
    /\ UNCHANGED <<approvedBy, expired, request, history, disruptions>>

\* agent.action.created is logged, or logEvent rejects: the row stays.
LogCreated(a) ==
    /\ proposal[a] = "logging"
    /\ proposal' = [proposal EXCEPT ![a] = "returned"]
    /\ UNCHANGED <<status, approvedBy, expired, request, history, disruptions>>

\* expires_at passes; nothing in the code acts on it by itself.
Expire(a) ==
    /\ status[a] # "absent"
    /\ ~expired[a]
    /\ expired' = [expired EXCEPT ![a] = TRUE]
    /\ UNCHANGED <<status, approvedBy, proposal, request, history, disruptions>>

-----------------------------------------------------------------------------
(* The requests.                                                            *)

Active(r) == request[r].at \in Step
On(r, a) == Active(r) /\ request[r].action = a
At(r, step) == request[r].at = step

Goto(r, step) == request' = [request EXCEPT ![r].at = step]
Finish(r) == request' = [request EXCEPT ![r] = Done]
Set(a, s) == status' = [status EXCEPT ![a] = s]

\* Mutant of Decidable: the row is looked up by id alone.
DecidableById(a) == status[a] # "absent"

\* Mutant of Decidable: an approval that got stuck can be decided again.
DecidableAgain(a) == status[a] \in {"PENDING", "APPROVED"}

\* findFirst with status PENDING; without a row the request ends with 404.
Decidable(a) == status[a] = "PENDING"

Begin(r, a, step) ==
    /\ request[r] = New
    /\ Decidable(a)
    /\ Serialised => \A other \in Requests : ~On(other, a)
    /\ request' = [request EXCEPT ![r] = [at |-> step, action |-> a]]
    /\ UNCHANGED <<row, history, disruptions>>

BeginApprove(r, a) == Begin(r, a, IF expired[a] THEN "expire" ELSE "approve")
BeginReject(r, a) == Begin(r, a, "reject")

\* Mutant of WriteExpired: a status the schema does not have.
WriteExpiredStatus(r) ==
    /\ At(r, "expire")
    /\ Set(request[r].action, "EXPIRED")
    /\ Finish(r)
    /\ UNCHANGED <<approvedBy, expired, proposal, history, disruptions>>

\* An expired action is failed, and the request ends with 410.
WriteExpired(r) ==
    /\ At(r, "expire")
    /\ Set(request[r].action, "FAILED")
    /\ Finish(r)
    /\ UNCHANGED <<approvedBy, expired, proposal, history, disruptions>>

\* Mutant of WriteApproved: the action is executed before it is logged.
WriteApprovedUnlogged(r) ==
    /\ At(r, "approve")
    /\ Set(request[r].action, "APPROVED")
    /\ approvedBy' = [approvedBy EXCEPT ![request[r].action] = TRUE]
    /\ Goto(r, "dispatch")
    /\ UNCHANGED <<expired, proposal, history, disruptions>>

\* The update by id: whatever the row holds by now.
WriteApproved(r) ==
    /\ At(r, "approve")
    /\ Set(request[r].action, "APPROVED")
    /\ approvedBy' = [approvedBy EXCEPT ![request[r].action] = TRUE]
    /\ Goto(r, "logApproved")
    /\ UNCHANGED <<expired, proposal, history, disruptions>>

\* Likewise; approved_by is left as it is.
WriteRejected(r) ==
    /\ At(r, "reject")
    /\ Set(request[r].action, "REJECTED")
    /\ Goto(r, "logRejected")
    /\ UNCHANGED <<approvedBy, expired, proposal, history, disruptions>>

Log(r, kind) == logged' = [logged EXCEPT ![r] = @ \cup {kind}]

LogRejected(r) ==
    /\ At(r, "logRejected")
    /\ Log(r, "rejected")
    /\ Finish(r)
    /\ UNCHANGED <<row, performed, counted, disruptions>>

\* Mutant of LogApproved: the execution is left to somebody else.
LogApprovedOnly(r) ==
    /\ At(r, "logApproved")
    /\ Log(r, "approved")
    /\ Finish(r)
    /\ UNCHANGED <<row, performed, counted, disruptions>>

LogApproved(r) ==
    /\ At(r, "logApproved")
    /\ Log(r, "approved")
    /\ Goto(r, "dispatch")
    /\ UNCHANGED <<row, performed, counted, disruptions>>

-----------------------------------------------------------------------------
(* executeAction, in the request that approved.                             *)

\* Mutant of Dispatch: an executor that throws counts as one that returned.
DispatchSwallowingErrors(r) ==
    /\ At(r, "dispatch")
    /\ performed' \in {performed, [performed EXCEPT ![r] = request[r].action]}
    /\ Goto(r, "record")
    /\ UNCHANGED <<row, logged, counted, disruptions>>

\* The executor of the action's type checks what it was given, changes one
\* row and may still throw: reassign_task logs an event, send_notification
\* emits to a socket.  An unknown type throws.
CarryOut(r, step) ==
    \/ /\ performed' = [performed EXCEPT ![r] = request[r].action]
       /\ step \in {"record", "fail"}
    \/ /\ step = "fail"
       /\ UNCHANGED performed

\* The row is read again, but its status is not looked at.
Dispatch(r) ==
    /\ At(r, "dispatch")
    /\ \E step \in {"record", "fail"} : CarryOut(r, step) /\ Goto(r, step)
    /\ UNCHANGED <<row, logged, counted, disruptions>>

Record(r) ==
    /\ At(r, "record")
    /\ Set(request[r].action, "EXECUTED")
    /\ Goto(r, "logExecuted")
    /\ UNCHANGED <<approvedBy, expired, proposal, history, disruptions>>

LogExecuted(r) ==
    /\ At(r, "logExecuted")
    /\ Log(r, "executed")
    /\ Goto(r, "count")
    /\ UNCHANGED <<row, performed, counted, disruptions>>

CountAction(r) ==
    /\ At(r, "count")
    /\ counted' = counted \cup {r}
    /\ Finish(r)
    /\ UNCHANGED <<row, performed, logged, disruptions>>

\* One of the three calls after the executor rejects: the catch block runs
\* although the action has been carried out.
RecordingFails(r) ==
    /\ request[r].at \in {"record", "logExecuted", "count"}
    /\ Disrupt
    /\ Goto(r, "fail")
    /\ UNCHANGED <<row, history>>

\* Mutant of WriteFailed: a failed action can be approved again.
WriteFailedAsPending(r) ==
    /\ At(r, "fail")
    /\ Set(request[r].action, "PENDING")
    /\ Goto(r, "logFailed")
    /\ UNCHANGED <<approvedBy, expired, proposal, history, disruptions>>

WriteFailed(r) ==
    /\ At(r, "fail")
    /\ Set(request[r].action, "FAILED")
    /\ Goto(r, "logFailed")
    /\ UNCHANGED <<approvedBy, expired, proposal, history, disruptions>>

LogFailed(r) ==
    /\ At(r, "logFailed")
    /\ Log(r, "failed")
    /\ Finish(r)
    /\ UNCHANGED <<row, performed, counted, disruptions>>

\* A call outside the try block rejects, or the process dies: no later step
\* of the request happens, and no other request continues it.
Abandon(r) ==
    /\ Active(r)
    /\ Disrupt
    /\ Finish(r)
    /\ UNCHANGED <<row, history>>

Continue(r) ==
    \/ WriteExpired(r) \/ WriteApproved(r) \/ WriteRejected(r)
    \/ LogApproved(r) \/ LogRejected(r)
    \/ Dispatch(r) \/ Record(r) \/ LogExecuted(r) \/ CountAction(r)
    \/ WriteFailed(r) \/ LogFailed(r)

Next ==
    \/ \E a \in Actions :
          \/ \E low \in BOOLEAN : Propose(a, low)
          \/ LogCreated(a) \/ Expire(a)
          \/ \E r \in Requests : BeginApprove(r, a) \/ BeginReject(r, a)
    \/ \E r \in Requests : Continue(r) \/ RecordingFails(r) \/ Abandon(r)

\* Awaited calls return.  No human is assumed to answer.
Fairness == \A r \in Requests : WF_vars(Continue(r))

Spec == Init /\ [][Next]_vars
FairSpec == Spec /\ Fairness

-----------------------------------------------------------------------------
(* What holds however the requests overlap.                                 *)

\* "No agent action is executed without a human approving it": a request that
\* carried an action out has written an approval into its row and logged
\* agent.action.approved first, and no later write takes approved_by away.
PerformedWasApproved ==
    \A r \in Requests :
        performed[r] # "nothing" =>
            approvedBy[performed[r]] /\ "approved" \in logged[r]

\* EXECUTED is honest: some request has carried the action out, whichever of
\* the overlapping requests wrote the status last.
ExecutedIsHonest ==
    \A a \in Actions :
        status[a] = "EXECUTED" => \E r \in Requests : performed[r] = a

-----------------------------------------------------------------------------
(* What needs Serialised: the status check and the update are not atomic.   *)

\* An action is carried out at most once, and not at all if it is REJECTED or
\* PENDING, whatever fails in between.
PerformedOnce ==
    \A a \in Actions :
        LET doers == {r \in Requests : performed[r] = a} IN
        /\ Cardinality(doers) <= 1
        /\ status[a] \in {"absent", "PENDING", "REJECTED"} => doers = {}

\* A rejection and a failure are final; an execution only turns into a failure.
OutcomeIsFinal ==
    [][\A a \in Actions :
          /\ status[a] \in {"REJECTED", "FAILED"} => status'[a] = status[a]
          /\ status[a] = "EXECUTED" => status'[a] \in {"EXECUTED", "FAILED"}]_vars

\* An approval is carried through: an action can stay APPROVED only if some call
\* failed or some process died, since nothing but its own request moves it on.
ApprovedIsSettled ==
    \A a \in Actions :
        status[a] = "APPROVED" ~> status[a] # "APPROVED" \/ disruptions > 0

-----------------------------------------------------------------------------
(* What the documentation says and the code does not do.                    *)

\* hitl.service.ts:113 and :152, "Approve a pending action." and "Reject a
\* pending action.": an action that is not pending any more is neither approved
\* nor rejected.
OnlyPendingIsDecided ==
    [][\A a \in Actions :
          status'[a] # status[a] /\ status'[a] \in {"APPROVED", "REJECTED"}
          => status[a] = "PENDING"]_vars

\* hitl.service.ts:113, "Triggers execution.": an approved action does not stay
\* APPROVED (the claim of ApprovedIsSettled, without its condition).
ApprovalTriggersExecution ==
    \A a \in Actions : status[a] = "APPROVED" ~> status[a] \in {"EXECUTED", "FAILED"}

\* hitl.service.ts:5-8, an action of low risk with a confident agent in mode
\* auto_low_risk is executed without a human: its proposal is not refused.
AutoApprovalIsAccepted == \A a \in Actions : proposal[a] # "refused"

=============================================================================
