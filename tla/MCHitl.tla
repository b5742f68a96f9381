------------------------------- MODULE MCHitl -------------------------------
(* TLC instances of HitlAction. *)
EXTENDS HitlAction, TLC

Interchangeable == Permutations(Actions) \cup Permutations(Requests)

=============================================================================
