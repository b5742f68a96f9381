---------------------------- MODULE MCGraphSync ----------------------------
(* TLC instances of GraphSync. *)
EXTENDS GraphSync, TLC

Interchangeable == Permutations(Workers) \cup Permutations(Users)

=============================================================================
