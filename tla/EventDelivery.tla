--------------------------- MODULE EventDelivery ---------------------------
(***************************************************************************)
(* What the outbox promises to the rest of the system: an event, once      *)
(* logged, is handed to the projectors at least once and then delivered,   *)
(* or given up after its last permitted failure.  No locks, servers or     *)
(* batches: OutboxPoller implements this.                                  *)
(***************************************************************************)
EXTENDS Naturals

CONSTANTS Events, MaxRetries

VARIABLES
    state,      \* where the delivery of each event is
    performed,  \* have the projectors run on the event
    failures    \* attempts that were counted, the last one included

dvars == <<state, performed, failures>>

Init ==
    /\ state = [e \in Events |-> "absent"]
    /\ performed = [e \in Events |-> FALSE]
    /\ failures = [e \in Events |-> 0]

Log(e) ==
    /\ state[e] = "absent"
    /\ state' = [state EXCEPT ![e] = "pending"]
    /\ UNCHANGED <<performed, failures>>

\* The projectors run; a later step may still fail, so they may run again.
Perform(e) ==
    /\ state[e] = "pending"
    /\ performed' = [performed EXCEPT ![e] = TRUE]
    /\ UNCHANGED <<state, failures>>

Fail(e) ==
    /\ state[e] = "pending"
    /\ failures[e] + 1 < MaxRetries
    /\ failures' = [failures EXCEPT ![e] = @ + 1]
    /\ UNCHANGED <<state, performed>>

GiveUp(e) ==
    /\ state[e] = "pending"
    /\ failures[e] + 1 = MaxRetries
    /\ failures' = [failures EXCEPT ![e] = @ + 1]
    /\ state' = [state EXCEPT ![e] = "dead_lettered"]
    /\ UNCHANGED performed

Complete(e) ==
    /\ state[e] = "pending"
    /\ performed[e]
    /\ failures' = [failures EXCEPT ![e] = @ + 1]
    /\ state' = [state EXCEPT ![e] = "delivered"]
    /\ UNCHANGED performed

Next ==
    \E e \in Events :
        Log(e) \/ Perform(e) \/ Fail(e) \/ GiveUp(e) \/ Complete(e)

Spec == Init /\ [][Next]_dvars

=============================================================================
