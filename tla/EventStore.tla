----------------------------- MODULE EventStore -----------------------------
(***************************************************************************)
(* EventsService.logEvent as concurrent requests run it                    *)
(* (packages/api/src/modules/events/events.service.ts): look the           *)
(* idempotency key up, read the highest version of the aggregate, insert.  *)
(* The two reads are separate queries OUTSIDE the transaction of the       *)
(* insert, and neither (aggregate, version) nor the key is unique in the   *)
(* schema.  A request may log several events of one aggregate at once      *)
(* (TasksService.updateTask), so "concurrent" includes a single user.      *)
(*                                                                         *)
(* The retention job deletes old events; it is part of the model because   *)
(* the version is computed from the events that are left.                  *)
(***************************************************************************)
EXTENDS Naturals, Sequences, FiniteSets

CONSTANTS
    Callers,     \* logEvent calls that may be in flight at once
    Aggregates,
    Keys,        \* (org, idempotency key) pairs
    NoKey,       \* the call has no idempotency key
    MaxEvents    \* bound on the events ever stored

ASSUME KeyAssumption == NoKey \notin Keys
ASSUME BoundAssumption == MaxEvents \in Nat

VARIABLES
    store,     \* every event ever committed, in commit order
    deleted,   \* the first `deleted` of them are gone (retention)
    stale,     \* the first `stale` of them are more than 24h old
    call       \* what each call of logEvent holds

storeVars == <<store, deleted, stale, call>>

Version == 1 .. MaxEvents

\* `checked` and `based` record for the properties what a call could see: the
\* number of events committed when it looked the key up and read the version.
Event == [aggregate : Aggregates, key : Keys \cup {NoKey}, version : Version,
          checked : 0 .. MaxEvents, based : 0 .. MaxEvents]

\* A call: idle, past the key lookup, or past the version read.
Call == [at : {"idle"}]
        \cup [at : {"checked"}, aggregate : Aggregates, key : Keys \cup {NoKey},
              checked : 0 .. MaxEvents]
        \cup [at : {"versioned"}, event : Event]
Idle == [at |-> "idle"]

StoreTypeOK ==
    /\ store \in Seq(Event)
    /\ Len(store) <= MaxEvents
    /\ stale \in 0 .. Len(store)
    /\ deleted \in 0 .. stale
    /\ call \in [Callers -> Call]

InitStore ==
    /\ store = <<>>
    /\ deleted = 0
    /\ stale = 0
    /\ call = [c \in Callers |-> Idle]

-----------------------------------------------------------------------------
(* What the queries of a call see.                                          *)

Stored == (deleted + 1) .. Len(store)
Recent == {i \in Stored : i > stale}

\* Mutant of KeyTaken: the window of the lookup is upside down.
KeyTakenLongAgo(k) == \E i \in Stored \ Recent : store[i].key = k

\* The idempotency lookup finds an event of the last 24 hours.
KeyTaken(k) == \E i \in Recent : store[i].key = k

\* Mutant of IsNextVersion: the events are counted.
IsNextByCount(a, v) == v = Cardinality({i \in Stored : store[i].aggregate = a}) + 1

\* Mutant of IsNextVersion: the aggregate is not part of the query.
IsNextOverall(a, v) ==
    /\ \A i \in Stored : store[i].version < v
    /\ v = 1 \/ \E i \in Stored : store[i].version = v - 1

\* (_max.version ?? 0) + 1 over the stored events of the aggregate.
IsNextVersion(a, v) ==
    /\ \A i \in Stored : store[i].aggregate = a => store[i].version < v
    /\ v = 1 \/ \E i \in Stored : store[i].aggregate = a /\ store[i].version = v - 1

-----------------------------------------------------------------------------

\* Step 1.  With a key that is taken the call returns the existing event and
\* changes nothing, so only the other calls are steps.
CheckKey(c, a, k) ==
    /\ call[c] = Idle
    /\ k \in Keys => ~KeyTaken(k)
    /\ call' = [call EXCEPT ![c] =
                   [at |-> "checked", aggregate |-> a, key |-> k, checked |-> Len(store)]]
    /\ UNCHANGED <<store, deleted, stale>>

\* Step 3, its own query.
ReadVersion(c) ==
    /\ call[c].at = "checked"
    /\ \E v \in Version :
          /\ IsNextVersion(call[c].aggregate, v)
          /\ call' = [call EXCEPT ![c] =
                         [at |-> "versioned",
                          event |-> [aggregate |-> call[c].aggregate,
                                     key |-> call[c].key,
                                     version |-> v,
                                     checked |-> call[c].checked,
                                     based |-> Len(store)]]]
    /\ UNCHANGED <<store, deleted, stale>>

\* Step 4: the transaction that inserts the event (and its outbox row).
Commit(c) ==
    /\ call[c].at = "versioned"
    /\ Len(store) < MaxEvents
    /\ store' = Append(store, call[c].event)
    /\ call' = [call EXCEPT ![c] = Idle]
    /\ UNCHANGED <<deleted, stale>>

\* A query rejects, the payload is invalid or the server dies.
Abandon(c) ==
    /\ call[c] # Idle
    /\ call' = [call EXCEPT ![c] = Idle]
    /\ UNCHANGED <<store, deleted, stale>>

\* The oldest recent event turns 24 hours old.
Age ==
    /\ stale < Len(store)
    /\ stale' = stale + 1
    /\ UNCHANGED <<store, deleted, call>>

\* Mutant of Cleanup: the cutoff is in the future.
CleanupEverything ==
    /\ \E n \in (deleted + 1) .. Len(store) : deleted' = n
    /\ UNCHANGED <<store, stale, call>>

\* handleEventCleanup: every event before some cutoff is deleted.
Cleanup ==
    /\ \E n \in (deleted + 1) .. stale : deleted' = n
    /\ UNCHANGED <<store, stale, call>>

NextStore ==
    \/ \E c \in Callers :
          \/ \E a \in Aggregates, k \in Keys \cup {NoKey} : CheckKey(c, a, k)
          \/ ReadVersion(c) \/ Commit(c) \/ Abandon(c)
    \/ Age \/ Cleanup

StoreSpec == InitStore /\ [][NextStore]_storeVars

-----------------------------------------------------------------------------
(* What holds.                                                              *)

\* Two stored events of an aggregate carry the versions in the order of their
\* commits whenever the later call read its version after the earlier one had
\* committed.  So reconstructAggregate, which folds by version, and the version
\* readers are wrong only about calls that overlapped, retention or not.
VersionsFollowCommits ==
    \A i, j \in Stored :
        /\ i < j
        /\ store[i].aggregate = store[j].aggregate
        /\ i <= store[j].based
        => store[i].version < store[j].version

\* As long as retention has deleted nothing, the versions of an aggregate have
\* no gap, overlapping calls or not: every version below a stored one is stored.
VersionsHaveNoGap ==
    deleted = 0 =>
        \A i \in Stored : \A v \in 1 .. store[i].version :
            \E j \in Stored : j <= i /\ store[j].aggregate = store[i].aggregate
                                     /\ store[j].version = v

\* Two events of the last 24 hours share an idempotency key only if the later
\* call looked the key up before the earlier one had committed.
KeyReuseNeedsOverlap ==
    \A i, j \in Recent :
        i < j /\ store[i].key = store[j].key /\ store[i].key # NoKey
        => store[j].checked < i

-----------------------------------------------------------------------------
(* What the documentation says and the code does not do.                    *)

\* events.service.ts:107-109, the per-aggregate version "is computed via
\* aggregate() (one round-trip) inside the same transaction that creates the
\* event", as optimistic versioning: no two events of an aggregate share one.
VersionIsUnique ==
    \A i, j \in Stored :
        i # j /\ store[i].aggregate = store[j].aggregate
        => store[i].version # store[j].version

=============================================================================
