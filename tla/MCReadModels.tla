---------------------------- MODULE MCReadModels ----------------------------
(* TLC instance of ReadModels. *)
EXTENDS ReadModels, TLC

\* With pages of two, the replay of four events comes to the first one twice and
\* to the last one never.
Shuffled == {<<2, 1, 4, 3>>}
=============================================================================
