----------------------------- MODULE MCJobQueue -----------------------------
(* TLC instance of JobQueue; the ids are interchangeable. *)
EXTENDS JobQueue, TLC

Symmetry ==
    Permutations(Hooks) \cup Permutations(Jobs) \cup Permutations(Rows)
    \cup Permutations(Requests)
=============================================================================
