--------------------------- MODULE MCCustomAgent ---------------------------
(* TLC instances of CustomAgent. *)
EXTENDS CustomAgent, TLC

Flow(kinds, edges) ==
    [nodes |-> [i \in DOMAIN kinds |-> [id |-> i, kind |-> kinds[i]]], edges |-> edges]

\* 0 is no node.
Pairs(first, last) == [source : first .. last, target : first .. last]
Distinct(s) == \A i, j \in DOMAIN s : s[i] = s[j] => i = j
Ascending(s) ==
    \A i \in 1 .. Len(s) - 1 : 10 * s[i].source + s[i].target < 10 * s[i + 1].source + s[i + 1].target

\* Three nodes with up to three edges in any order; two nodes, with edges from and
\* to nowhere; four nodes with four edges.
Small ==
    {Flow(k, e) : k \in [1 .. 3 -> {"trigger", "action", "condition"}],
                  e \in {s \in UNION {[1 .. n -> Pairs(1, 3)] : n \in 2 .. 3} : Distinct(s)}}
Ghostly ==
    {Flow(k, e) : k \in [1 .. 2 -> {"trigger", "action", "prompt"}],
                  e \in {s \in UNION {[1 .. n -> Pairs(0, 2)] : n \in 0 .. 3} : Ascending(s)}}
Large ==
    {Flow(<<"condition", "trigger", "action", "action">>, e) :
        e \in {s \in [1 .. 4 -> Pairs(1, 4)] : Ascending(s)}}

Step(a, b) == [source |-> a, target |-> b]
Good == Flow(<<"trigger", "action">>, <<Step(1, 2)>>)
Cyclic == Flow(<<"trigger", "action", "action">>, <<Step(1, 2), Step(2, 3), Step(3, 2)>>)

Oversized == Flow(<<"trigger", "action", "action", "action">>,
                  <<Step(1, 2), Step(2, 3), Step(3, 4)>>)

MCSaved == {Good, Cyclic, Oversized}
MCDrawings == MCSaved \cup Small \cup Ghostly \cup Large

Interchangeable == Permutations(Agents) \cup Permutations(Users) \cup Permutations(Requests)

=============================================================================
