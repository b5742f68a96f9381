---------------------------- MODULE FlowCompiler ----------------------------
(***************************************************************************)
(* The flow compiler of the agent builder                                  *)
(* (packages/api/src/modules/agents/builder/compiler.ts): what it accepts  *)
(* and the order of the code it generates.  The searches are depth first   *)
(* over mutable sets, as in the source: a search is a recursive function   *)
(* of a call: the sets when it is made, and the edges its loop has passed. *)
(***************************************************************************)
EXTENDS Integers, FiniteSets, Sequences, SequencesExt

\* A flow: nodes (a sequence of [id, kind]) and edges (a sequence of [source,
\* target]); an edge may name a node that does not exist.
Kind == {"trigger", "action", "condition", "prompt"}
IsFlow(flow) ==
    /\ flow.nodes \in Seq([id : Nat, kind : Kind])
    /\ flow.edges \in Seq([source : Nat, target : Nat])

Ids(flow) == {flow.nodes[i].id : i \in DOMAIN flow.nodes}
Names(flow) == Ids(flow) \cup {flow.edges[i].target : i \in DOMAIN flow.edges}
OfKind(flow, kind) == {flow.nodes[i].id : i \in {j \in DOMAIN flow.nodes : flow.nodes[j].kind = kind}}

\* How deep calls can nest: each of them marks another node visited.
Depth(flow) == Cardinality(Names(flow))

\* The calls of a search: its loop over the edges of id, entered in state s, has
\* passed k edges.
Calls(flow, ids, states) ==
    [depth : 0 .. Depth(flow), k : 0 .. Len(flow.edges), id : ids, s : states]
Before(c) == [c EXCEPT !.k = @ - 1]
Below(flow, c, id, s) == [depth |-> c.depth - 1, k |-> Len(flow.edges), id |-> id, s |-> s]
FirstCall(flow, id, s) == [depth |-> Depth(flow), k |-> Len(flow.edges), id |-> id, s |-> s]

-----------------------------------------------------------------------------
(* detectCycle.                                                             *)

Search(flow) == [visited : SUBSET Names(flow), recStack : SUBSET Names(flow), found : BOOLEAN]
Fresh == [visited |-> {}, recStack |-> {}, found |-> FALSE]

Enter(s, id) == [visited |-> s.visited \cup {id}, recStack |-> s.recStack \cup {id}, found |-> FALSE]

\* Mutant of Leave: recStack.delete(nodeId) is missing.
LeaveOnStack(s, id) == s

\* hasCycleDFS returns true at once, and false after taking the node off the stack.
Leave(s, id) == IF s.found THEN s ELSE [s EXCEPT !.recStack = @ \ {id}]

\* What a call has found so far.
HasCycleDFS(flow) ==
    LET dfs[c \in Calls(flow, Names(flow), Search(flow))] ==
            IF c.k = 0 \/ c.depth = 0 THEN Enter(c.s, c.id)
            ELSE LET t == dfs[Before(c)]
                     e == flow.edges[c.k] IN
                 IF t.found \/ e.source # c.id THEN t
                 ELSE IF e.target \in t.visited
                 THEN [t EXCEPT !.found = e.target \in t.recStack]
                 ELSE Leave(dfs[Below(flow, c, e.target, t)], e.target) IN
    dfs

\* The loop over the nodes, which has passed i of them.
DetectCycle(flow) ==
    LET dfs == HasCycleDFS(flow)
        start[i \in 0 .. Len(flow.nodes)] ==
            IF i = 0 THEN Fresh
            ELSE LET s == start[i - 1]
                     id == flow.nodes[i].id IN
                 IF s.found \/ id \in s.visited THEN s
                 ELSE Leave(dfs[FirstCall(flow, id, s)], id) IN
    start[Len(flow.nodes)].found

-----------------------------------------------------------------------------
(* topologicalSort.                                                         *)

Sorting(flow) == [visited : SUBSET Ids(flow), sorted : Seq(Ids(flow))]

\* Mutant of Emit: a node is pushed when it is entered.
EmitFirst(before, after, id) ==
    [after EXCEPT !.sorted = Append(before.sorted, id)
                             \o SubSeq(@, Len(before.sorted) + 1, Len(@))]

\* A node is pushed when everything below it has been.
Emit(before, after, id) == [after EXCEPT !.sorted = Append(@, id)]

\* What a call of visit has sorted so far; it skips edges to unknown nodes.
Visit(flow) ==
    LET visit[c \in Calls(flow, Ids(flow), Sorting(flow))] ==
            IF c.k = 0 \/ c.depth = 0 THEN [c.s EXCEPT !.visited = @ \cup {c.id}]
            ELSE LET t == visit[Before(c)]
                     e == flow.edges[c.k] IN
                 IF e.source # c.id \/ e.target \notin Ids(flow) \ t.visited THEN t
                 ELSE Emit(t, visit[Below(flow, c, e.target, t)], e.target) IN
    visit

TopologicalSort(flow) ==
    LET visit == Visit(flow)
        start[i \in 0 .. Len(flow.nodes)] ==
            IF i = 0 THEN [visited |-> {}, sorted |-> <<>>]
            ELSE LET s == start[i - 1]
                     id == flow.nodes[i].id IN
                 IF id \in s.visited THEN s
                 ELSE Emit(s, visit[FirstCall(flow, id, s)], id) IN
    Reverse(start[Len(flow.nodes)].sorted)

-----------------------------------------------------------------------------
(* compileFlow.                                                             *)

\* Mutant of Unconnected: only actions need an incoming edge.
UnconnectedActions(flow) ==
    {i \in DOMAIN flow.nodes :
        /\ flow.nodes[i].kind = "action"
        /\ \A j \in DOMAIN flow.edges : flow.edges[j].target # flow.nodes[i].id}

Unconnected(flow) ==
    {i \in DOMAIN flow.nodes :
        /\ flow.nodes[i].kind # "trigger"
        /\ \A j \in DOMAIN flow.edges : flow.edges[j].target # flow.nodes[i].id}

Accepts(flow) ==
    /\ OfKind(flow, "trigger") # {}
    /\ OfKind(flow, "action") # {}
    /\ ~DetectCycle(flow)
    /\ Unconnected(flow) = {}

\* The nodes in the order of their generated code.
Code(flow) == IF Accepts(flow) THEN TopologicalSort(flow) ELSE <<>>

-----------------------------------------------------------------------------
(* Reference definitions.                                                   *)

Edge(flow, a, b) ==
    \E i \in DOMAIN flow.edges : flow.edges[i].source = a /\ flow.edges[i].target = b

\* The nodes that paths of at least one edge lead to from a: the least set that the
\* edges from a lead into and no edge leads out of.
Absorbs(flow, S, a) ==
    \A i \in DOMAIN flow.edges : flow.edges[i].source \in S \cup {a} => flow.edges[i].target \in S
Reached(flow, a) == {b \in Names(flow) : \A S \in SUBSET Names(flow) : Absorbs(flow, S, a) => b \in S}

\* The canvas keeps it so: every edge joins two nodes of the flow.
EdgesJoinNodes(flow) ==
    \A i \in DOMAIN flow.edges : {flow.edges[i].source, flow.edges[i].target} \subseteq Ids(flow)

=============================================================================
