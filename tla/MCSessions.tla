----------------------------- MODULE MCSessions -----------------------------
EXTENDS Sessions, TLC

CONSTANTS r1, r2

\* Requests are interchangeable.
Interchangeable == Permutations(Requests)
=============================================================================
