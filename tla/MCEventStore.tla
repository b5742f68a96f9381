---------------------------- MODULE MCEventStore ----------------------------
(* TLC instances of EventStore. *)
EXTENDS EventStore, TLC

Interchangeable ==
    Permutations(Callers) \cup Permutations(Aggregates) \cup Permutations(Keys)

=============================================================================
