-------------------------- MODULE CustomAgent_proofs --------------------------
(***************************************************************************)
(* Proofs about modules FlowCompiler and CustomAgent, for every flow that  *)
(* can be drawn: that the two depth-first searches of the compiler, which  *)
(* mark nodes in sets that outlive a search, compute what the reference    *)
(* definitions say, and that the versions of an agent stay faithful.       *)
(*                                                                         *)
(* The searches are recursive functions of a call.  Its depth and the      *)
(* edges its loop has passed decrease along the recursion, so that a fixed *)
(* point exists (RecursionExists) and what holds of every call follows by  *)
(* induction on its rank (CallInduction).                                  *)
(***************************************************************************)
EXTENDS CustomAgent, FiniteSetTheorems, WellFoundedInduction, TLAPS

-----------------------------------------------------------------------------
(* Induction over the natural numbers, and recursive functions.             *)

LEMMA Least ==
    ASSUME NEW S, S \subseteq Nat, S # {}
    PROVE  \E x \in S : \A y \in S : x <= y
<1>1. PICK x \in S : \A y \in S : ~(<<y, x>> \in OpToRel(<, Nat))
  BY NatLessThanWellFounded, WFMin
<1>2. \A y \in S : ~(y < x)
  BY <1>1 DEF OpToRel
<1> QED
  BY <1>2

\* Of a set that contains a number whenever it contains the smaller ones.
LEMMA Induction ==
    ASSUME NEW S,
           \A n \in Nat : (\A m \in Nat : m < n => m \in S) => n \in S
    PROVE  \A n \in Nat : n \in S
<1> SUFFICES ASSUME Nat \ S # {} PROVE FALSE
  OBVIOUS
<1>1. PICK n \in Nat \ S : \A m \in Nat \ S : n <= m
  BY Least
<1>2. \A m \in Nat : m < n => m \in S
  BY <1>1
<1> QED
  BY <1>1, <1>2

\* B maps functions to functions, and the value of B[g] at a point depends on g at the
\* points below it only.
Recursion(D, S, M, m, B) ==
    /\ S # {} /\ M \in Nat /\ m \in [D -> 0 .. M]
    /\ B \in [[D -> S] -> [D -> S]]
    /\ \A g, h \in [D -> S] : \A x \in D :
          (\A y \in D : m[y] < m[x] => g[y] = h[y]) => B[g][x] = B[h][x]

FixedPoint(D, S, B) == \E f \in [D -> S] : f = B[f]

LEMMA RecursionExists ==
    ASSUME NEW D, NEW S, NEW M, NEW m, NEW B, Recursion(D, S, M, m, B)
    PROVE  FixedPoint(D, S, B)
<1> USE DEF Recursion
<1> DEFINE Right(g, n) == \A x \in D : m[x] < n => g[x] = B[g][x]
           Ns == {n \in Nat : \E g \in [D -> S] : Right(g, n)}
<1>0. M \in Nat /\ \A x \in D : m[x] \in Nat /\ m[x] <= M
  OBVIOUS
<1>1. ASSUME NEW n \in Nat, \A k \in Nat : k < n => k \in Ns PROVE n \in Ns
  <2>1. CASE n = 0
    <3>1. PICK g : g \in [D -> S]
      <4>1. PICK s : s \in S
        OBVIOUS
      <4> QED
        BY <4>1, [x \in D |-> s] \in [D -> S]
    <3>2. \A x \in D : ~(m[x] < 0)
      BY <1>0
    <3> QED
      BY <2>1, <3>1, <3>2
  <2>2. CASE n # 0
    <3>1. n - 1 \in Nat /\ n - 1 < n
      BY <2>2
    <3>2. PICK g \in [D -> S] : Right(g, n - 1)
      BY <1>1, <3>1
    <3>3. B[g] \in [D -> S]
      OBVIOUS
    <3>4. ASSUME NEW x \in D, m[x] < n PROVE B[g][x] = B[B[g]][x]
      <4>1. \A y \in D : m[y] < m[x] => g[y] = B[g][y]
        BY <1>0, <3>1, <3>2, <3>4
      <4> QED
        BY <3>3, <4>1
    <3> QED
      BY <3>3, <3>4
  <2> QED
    BY <2>1, <2>2
<1>2. \A n \in Nat : n \in Ns
  <2> HIDE DEF Ns
  <2> QED
    BY <1>1, Induction
<1>3. PICK f \in [D -> S] : Right(f, M + 1)
  BY <1>0, <1>2, M + 1 \in Nat
<1>4. \A x \in D : f[x] = B[f][x]
  BY <1>0, <1>3
<1> QED
  BY <1>4 DEF FixedPoint

-----------------------------------------------------------------------------

\* A loop over 1 .. n that starts with A.
IsLoop(f, n, A, G) == f = [i \in 0 .. n |-> IF i = 0 THEN A ELSE G[i][f[i - 1]]]

LEMMA LoopExists ==
    ASSUME NEW n \in Nat, NEW S, NEW A \in S, NEW G \in [1 .. n -> [S -> S]]
    PROVE  \E f \in [0 .. n -> S] : IsLoop(f, n, A, G)
<1> DEFINE D == 0 .. n
           m == [i \in D |-> i]
           Step(f) == [i \in D |-> IF i = 0 THEN A ELSE G[i][f[i - 1]]]
           B == [f \in [D -> S] |-> Step(f)]
<1>1. \A i \in D : i # 0 => i \in 1 .. n /\ i - 1 \in D /\ i - 1 < i
  OBVIOUS
<1>2. ASSUME NEW f \in [D -> S] PROVE Step(f) \in [D -> S]
  <2>1. ASSUME NEW i \in D, i # 0 PROVE G[i][f[i - 1]] \in S
    <3>1. i \in 1 .. n /\ f[i - 1] \in S
      BY <1>1, <2>1
    <3>2. G[i] \in [S -> S]
      BY <3>1
    <3> QED
      BY <3>1, <3>2
  <2> QED
    BY <2>1
<1>3. B \in [[D -> S] -> [D -> S]] /\ \A f \in [D -> S] : B[f] = Step(f)
  BY <1>2
<1>4. ASSUME NEW g \in [D -> S], NEW h \in [D -> S], NEW i \in D,
             \A j \in D : m[j] < m[i] => g[j] = h[j]
      PROVE  Step(g)[i] = Step(h)[i]
  <2>1. i # 0 => g[i - 1] = h[i - 1]
    BY <1>1, <1>4
  <2> QED
    BY <2>1
<1>5. m \in [D -> 0 .. n] /\ S # {}
  OBVIOUS
<1> HIDE DEF B, Step, m, D
<1>6. Recursion(D, S, n, m, B)
  <2>1. \A g, h \in [D -> S] : \A i \in D :
           (\A j \in D : m[j] < m[i] => g[j] = h[j]) => B[g][i] = B[h][i]
    BY <1>3, <1>4
  <2> QED
    BY <1>3, <1>5, <2>1 DEF Recursion
<1>7. FixedPoint(D, S, B)
  BY <1>6, RecursionExists
<1>8. PICK f \in [D -> S] : f = B[f]
  BY <1>7 DEF FixedPoint
<1>9. f = Step(f)
  BY <1>3, <1>8
<1> QED
  BY <1>9 DEF IsLoop, Step, D

-----------------------------------------------------------------------------
(* Flows, and the calls of a search over one.                               *)

LEMMA SeqType ==
    ASSUME NEW T, NEW q \in Seq(T)
    PROVE  Len(q) \in Nat /\ DOMAIN q = 1 .. Len(q) /\ \A i \in 1 .. Len(q) : q[i] \in T
OBVIOUS

LEMMA FlowType ==
    ASSUME NEW flow, IsFlow(flow)
    PROVE  /\ Len(flow.edges) \in Nat /\ Len(flow.nodes) \in Nat
           /\ DOMAIN flow.edges = 1 .. Len(flow.edges)
           /\ DOMAIN flow.nodes = 1 .. Len(flow.nodes)
           /\ \A i \in 1 .. Len(flow.nodes) :
                 flow.nodes[i].id \in Ids(flow) /\ flow.nodes[i].kind \in Kind
           /\ \A i \in 1 .. Len(flow.edges) : flow.edges[i].target \in Names(flow)
           /\ Ids(flow) \subseteq Nat /\ Ids(flow) \subseteq Names(flow)
<1> DEFINE L == Len(flow.edges)
           N == Len(flow.nodes)
<1>1. /\ flow.nodes \in Seq([id : Nat, kind : Kind])
      /\ flow.edges \in Seq([source : Nat, target : Nat])
  BY DEF IsFlow
<1>2. /\ L \in Nat /\ N \in Nat /\ DOMAIN flow.edges = 1 .. L /\ DOMAIN flow.nodes = 1 .. N
      /\ \A i \in 1 .. N : flow.nodes[i] \in [id : Nat, kind : Kind]
      /\ \A i \in 1 .. L : flow.edges[i] \in [source : Nat, target : Nat]
  BY <1>1, SeqType
<1>3. \A i \in 1 .. N : flow.nodes[i].id \in Nat /\ flow.nodes[i].kind \in Kind
  BY <1>2
<1>4. Ids(flow) \subseteq Nat
  BY <1>2, <1>3 DEF Ids
<1>5. \A i \in 1 .. N : flow.nodes[i].id \in Ids(flow)
  BY <1>2 DEF Ids
<1>6. \A i \in 1 .. L : flow.edges[i].target \in Names(flow)
  BY <1>2 DEF Names
<1> QED
  BY <1>2, <1>3, <1>4, <1>5, <1>6 DEF Names

LEMMA IntervalIsFinite == \A n \in Nat : IsFiniteSet(1 .. n)
<1> TAKE n \in Nat
<1>1. 1 \in Int /\ n \in Int
  OBVIOUS
<1> QED
  BY <1>1, FS_Interval

LEMMA ImageIsFinite ==
    ASSUME NEW n \in Nat, NEW f, NEW T, f \in [1 .. n -> T], T = {f[i] : i \in 1 .. n}
    PROVE  IsFiniteSet(T)
<1>1. IsFiniteSet(1 .. n)
  BY IntervalIsFinite
<1>2. f \in Surjection(1 .. n, T)
  BY DEF Surjection
<1> QED
  BY <1>1, <1>2, FS_Surjection

LEMMA FlowIsFinite ==
    ASSUME NEW flow, IsFlow(flow)
    PROVE  /\ IsFiniteSet(Ids(flow)) /\ IsFiniteSet(Names(flow))
           /\ Depth(flow) \in Nat
           /\ Cardinality(Ids(flow)) <= Depth(flow)
<1> DEFINE nodes == [i \in 1 .. Len(flow.nodes) |-> flow.nodes[i].id]
           targets == [i \in 1 .. Len(flow.edges) |-> flow.edges[i].target]
           ts == {flow.edges[i].target : i \in DOMAIN flow.edges}
<1>0. Len(flow.edges) \in Nat /\ Len(flow.nodes) \in Nat
  BY FlowType
<1>1. IsFiniteSet(Ids(flow))
  <2>1. nodes \in [1 .. Len(flow.nodes) -> Ids(flow)]
    BY FlowType
  <2>2. Ids(flow) = {nodes[i] : i \in 1 .. Len(flow.nodes)}
    BY FlowType DEF Ids
  <2> HIDE DEF nodes
  <2> QED
    BY <1>0, <2>1, <2>2, ImageIsFinite
<1>2. IsFiniteSet(ts)
  <2>1. targets \in [1 .. Len(flow.edges) -> ts]
    BY FlowType
  <2>2. ts = {targets[i] : i \in 1 .. Len(flow.edges)}
    BY FlowType
  <2> HIDE DEF targets, ts
  <2> QED
    BY <1>0, <2>1, <2>2, ImageIsFinite
<1>3. Names(flow) = Ids(flow) \cup ts
  BY DEF Names
<1> HIDE DEF ts
<1>4. IsFiniteSet(Names(flow)) /\ Ids(flow) \in SUBSET Names(flow)
  BY <1>1, <1>2, <1>3, FS_Union
<1> QED
  BY <1>1, <1>4, FS_Subset, FS_CardinalityType DEF Depth

LEMMA CallType ==
    ASSUME NEW flow, IsFlow(flow), NEW ids, NEW S, NEW c \in Calls(flow, ids, S)
    PROVE  /\ c.k \in 0 .. Len(flow.edges) /\ c.depth \in 0 .. Depth(flow)
           /\ c.id \in ids /\ c.s \in S
           /\ c.k # 0 /\ c.depth # 0 =>
                 /\ Before(c) \in Calls(flow, ids, S)
                 /\ Before(c).k = c.k - 1 /\ Before(c).depth = c.depth
                 /\ Before(c).id = c.id /\ Before(c).s = c.s
                 /\ \A id \in ids, s \in S : Below(flow, c, id, s) \in Calls(flow, ids, S)
           /\ \A id, s : /\ Below(flow, c, id, s).k = Len(flow.edges)
                         /\ Below(flow, c, id, s).depth = c.depth - 1
                         /\ Below(flow, c, id, s).id = id /\ Below(flow, c, id, s).s = s
<1>1. Len(flow.edges) \in Nat /\ Depth(flow) \in Nat
  BY FlowType, FlowIsFinite
<1>2. /\ c.k \in 0 .. Len(flow.edges) /\ c.depth \in 0 .. Depth(flow)
      /\ c.id \in ids /\ c.s \in S
  BY DEF Calls
<1>3. ASSUME c.k # 0 /\ c.depth # 0
      PROVE  /\ c.k - 1 \in 0 .. Len(flow.edges) /\ c.depth - 1 \in 0 .. Depth(flow)
             /\ Len(flow.edges) \in 0 .. Len(flow.edges)
  BY <1>1, <1>2, <1>3
<1> QED
  BY <1>2, <1>3 DEF Calls, Before, Below

\* The order in which the calls of a search depend on each other.
Rank(flow, c) == c.depth * (Len(flow.edges) + 1) + c.k

LEMMA RankArithmetic ==
    ASSUME NEW l \in Nat, NEW d \in Nat, NEW e \in 0 .. d, NEW k \in 0 .. l
    PROVE  /\ e * (l + 1) + k \in Nat
           /\ e * (l + 1) + k <= d * (l + 1) + l
           /\ d * (l + 1) + l \in Nat
           /\ e * (l + 1) + (k - 1) < e * (l + 1) + k
           /\ k # 0 => (e - 1) * (l + 1) + l < e * (l + 1) + k
<1>1. d - e \in Nat /\ l + 1 \in Nat /\ e \in Nat
  OBVIOUS
<1>2. (d - e) * (l + 1) \in Nat /\ e * (l + 1) \in Nat /\ d * (l + 1) \in Nat
  BY <1>1
<1>3. /\ (d - e) * (l + 1) = d * (l + 1) - e * (l + 1)
      /\ (e - 1) * (l + 1) = e * (l + 1) - (l + 1)
  BY <1>1
<1> QED
  BY <1>1, <1>2, <1>3

LEMMA RankDescends ==
    ASSUME NEW flow, IsFlow(flow), NEW ids, NEW S, NEW c \in Calls(flow, ids, S)
    PROVE  /\ Rank(flow, c) \in Nat
           /\ Rank(flow, c) <= Depth(flow) * (Len(flow.edges) + 1) + Len(flow.edges)
           /\ c.k # 0 /\ c.depth # 0 =>
                 /\ Rank(flow, Before(c)) < Rank(flow, c)
                 /\ \A id, s : Rank(flow, Below(flow, c, id, s)) < Rank(flow, c)
<1>1. /\ Len(flow.edges) \in Nat /\ Depth(flow) \in Nat
      /\ c.k \in 0 .. Len(flow.edges) /\ c.depth \in 0 .. Depth(flow)
  BY FlowType, FlowIsFinite, CallType
<1>2. /\ Rank(flow, c) \in Nat
      /\ Rank(flow, c) <= Depth(flow) * (Len(flow.edges) + 1) + Len(flow.edges)
  BY <1>1, RankArithmetic DEF Rank
<1>3. ASSUME c.k # 0 /\ c.depth # 0 PROVE Rank(flow, Before(c)) < Rank(flow, c)
  <2>1. Before(c).k = c.k - 1 /\ Before(c).depth = c.depth
    BY <1>3, CallType
  <2> QED
    BY <1>1, <2>1, RankArithmetic DEF Rank
<1>4. ASSUME c.k # 0 /\ c.depth # 0, NEW id, NEW s
      PROVE  Rank(flow, Below(flow, c, id, s)) < Rank(flow, c)
  <2>1. Below(flow, c, id, s).k = Len(flow.edges) /\ Below(flow, c, id, s).depth = c.depth - 1
    BY DEF Below
  <2> QED
    BY <1>1, <1>4, <2>1, RankArithmetic DEF Rank
<1> QED
  BY <1>2, <1>3, <1>4

\* A set that contains a call whenever it contains those that the call is computed
\* from contains them all.
LEMMA CallInduction ==
    ASSUME NEW flow, IsFlow(flow), NEW ids, NEW S, NEW T,
           \A c \in Calls(flow, ids, S) :
               (c.k # 0 /\ c.depth # 0 =>
                   /\ Before(c) \in T
                   /\ \A id \in ids, s \in S : Below(flow, c, id, s) \in T)
               => c \in T
    PROVE  \A c \in Calls(flow, ids, S) : c \in T
<1> DEFINE C == Calls(flow, ids, S)
           Ns == {n \in Nat : \A c \in C : Rank(flow, c) = n => c \in T}
<1>1. ASSUME NEW n \in Nat, \A m \in Nat : m < n => m \in Ns PROVE n \in Ns
  <2> SUFFICES ASSUME NEW c \in C, Rank(flow, c) = n PROVE c \in T
    OBVIOUS
  <2>1. ASSUME c.k # 0 /\ c.depth # 0
        PROVE  Before(c) \in T /\ \A id \in ids, s \in S : Below(flow, c, id, s) \in T
    <3>1. \A b \in C : Rank(flow, b) < n => b \in T
      BY <1>1, RankDescends
    <3>2. Before(c) \in C /\ \A id \in ids, s \in S : Below(flow, c, id, s) \in C
      BY <2>1, CallType
    <3>3. Rank(flow, Before(c)) < n /\ \A id, s : Rank(flow, Below(flow, c, id, s)) < n
      BY <2>1, RankDescends
    <3> QED
      BY <3>1, <3>2, <3>3
  <2> QED
    BY <2>1
<1>2. \A n \in Nat : n \in Ns
  <2> HIDE DEF Ns
  <2> QED
    BY <1>1, Induction
<1> QED
  BY <1>2, RankDescends

\* The step of a search: the value at a call depends on those it is computed from.
Searching(flow, ids, S, B) ==
    /\ S # {} /\ B \in [[Calls(flow, ids, S) -> S] -> [Calls(flow, ids, S) -> S]]
    /\ \A g, h \in [Calls(flow, ids, S) -> S], c \in Calls(flow, ids, S) :
          (c.k # 0 /\ c.depth # 0 =>
              /\ g[Before(c)] = h[Before(c)]
              /\ \A id \in ids, s \in S :
                    g[Below(flow, c, id, s)] = h[Below(flow, c, id, s)])
          => B[g][c] = B[h][c]

LEMMA CallRecursion ==
    ASSUME NEW flow, IsFlow(flow), NEW ids, NEW S, NEW B, Searching(flow, ids, S, B)
    PROVE  FixedPoint(Calls(flow, ids, S), S, B)
<1> DEFINE C == Calls(flow, ids, S)
           M == Depth(flow) * (Len(flow.edges) + 1) + Len(flow.edges)
           m == [c \in C |-> Rank(flow, c)]
<1>1. M \in Nat
  <2>1. 0 \in 0 .. Depth(flow) /\ 0 \in 0 .. Len(flow.edges)
    BY FlowType, FlowIsFinite
  <2> QED
    BY <2>1, FlowType, FlowIsFinite, RankArithmetic
<1>2. m \in [C -> 0 .. M]
  BY <1>1, RankDescends
<1>3. ASSUME NEW g \in [C -> S], NEW h \in [C -> S], NEW c \in C,
             \A b \in C : m[b] < m[c] => g[b] = h[b]
      PROVE  B[g][c] = B[h][c]
  <2>1. \A b \in C : Rank(flow, b) < Rank(flow, c) => g[b] = h[b]
    BY <1>3
  <2>2. ASSUME c.k # 0 /\ c.depth # 0
        PROVE  /\ g[Before(c)] = h[Before(c)]
               /\ \A id \in ids, s \in S : g[Below(flow, c, id, s)] = h[Below(flow, c, id, s)]
    BY <2>1, <2>2, CallType, RankDescends
  <2> QED
    BY <2>2 DEF Searching
<1>4. S # {} /\ B \in [[C -> S] -> [C -> S]]
  BY DEF Searching
<1> HIDE DEF m, M, C
<1>5. Recursion(C, S, M, m, B)
  BY <1>1, <1>2, <1>3, <1>4 DEF Recursion
<1>6. FixedPoint(C, S, B)
  BY <1>5, RecursionExists
<1> QED
  BY <1>6 DEF C

-----------------------------------------------------------------------------
(* What hasCycleDFS computes.                                               *)

\* The step of the loop of hasCycleDFS(id) over an edge e, in the state t; u is what
\* the search below the edge returns.
Pass(t, e, id, u) ==
    IF t.found \/ e.source # id THEN t
    ELSE IF e.target \in t.visited THEN [t EXCEPT !.found = e.target \in t.recStack]
    ELSE Leave(u, e.target)

DfsValue(flow, f, c) ==
    IF c.k = 0 \/ c.depth = 0 THEN Enter(c.s, c.id)
    ELSE Pass(f[Before(c)], flow.edges[c.k], c.id,
              f[Below(flow, c, flow.edges[c.k].target, f[Before(c)])])

DfsStep(flow, f) ==
    [c \in Calls(flow, Names(flow), Search(flow)) |-> DfsValue(flow, f, c)]

LEMMA DfsIsFixedPoint ==
    ASSUME NEW flow
    PROVE  HasCycleDFS(flow) = CHOOSE f : f = DfsStep(flow, f)
BY DEF HasCycleDFS, DfsStep, DfsValue, Pass

LEMMA SearchSteps ==
    ASSUME NEW flow, IsFlow(flow)
    PROVE  /\ Fresh \in Search(flow)
           /\ \A s \in Search(flow), id \in Names(flow) :
                 Enter(s, id) \in Search(flow) /\ Leave(s, id) \in Search(flow)
           /\ \A t, u \in Search(flow), i \in 1 .. Len(flow.edges) : \A id :
                 Pass(t, flow.edges[i], id, u) \in Search(flow)
<1>1. Fresh \in Search(flow)
  BY DEF Search, Fresh
<1>2. ASSUME NEW s \in Search(flow), NEW id \in Names(flow)
      PROVE  Enter(s, id) \in Search(flow) /\ Leave(s, id) \in Search(flow)
  BY DEF Search, Enter, Leave
<1>3. ASSUME NEW t \in Search(flow), NEW u \in Search(flow), NEW i \in 1 .. Len(flow.edges),
             NEW id
      PROVE  Pass(t, flow.edges[i], id, u) \in Search(flow)
  <2> DEFINE e == flow.edges[i]
  <2>1. e.target \in Names(flow)
    BY FlowType
  <2> HIDE DEF e
  <2>2. [t EXCEPT !.found = e.target \in t.recStack] \in Search(flow)
    <3>1. t \in [visited : SUBSET Names(flow), recStack : SUBSET Names(flow), found : BOOLEAN]
      BY DEF Search
    <3>2. CASE e.target \in t.recStack
      <4>1. [t EXCEPT !.found = TRUE] \in Search(flow) /\ (e.target \in t.recStack) = TRUE
        BY <3>1, <3>2 DEF Search
      <4> QED
        BY <4>1
    <3>3. CASE e.target \notin t.recStack
      <4>1. [t EXCEPT !.found = FALSE] \in Search(flow)
        BY <3>1 DEF Search
      <4>2. (e.target \in t.recStack) = FALSE
        BY <3>3, SMT
      <4> QED
        BY <4>1, <4>2
    <3> QED
      BY <3>2, <3>3
  <2>3. Pass(t, e, id, u) \in Search(flow)
    BY <1>2, <2>1, <2>2 DEF Pass
  <2> QED
    BY <2>3 DEF e
<1> QED
  BY <1>1, <1>2, <1>3

LEMMA DfsRecursion ==
    ASSUME NEW flow, IsFlow(flow)
    PROVE  \E f : f = DfsStep(flow, f)
<1> DEFINE S == Search(flow)
           C == Calls(flow, Names(flow), S)
           B == [f \in [C -> S] |-> DfsStep(flow, f)]
<1>1. ASSUME NEW f \in [C -> S], NEW c \in C PROVE DfsValue(flow, f, c) \in S
  <2>1. CASE c.k = 0 \/ c.depth = 0
    BY <2>1, CallType, SearchSteps DEF DfsValue
  <2>2. CASE ~(c.k = 0 \/ c.depth = 0)
    <3> DEFINE t == f[Before(c)]
               e == flow.edges[c.k]
    <3>1. t \in S /\ c.k \in 1 .. Len(flow.edges)
      BY <2>2, CallType, FlowType
    <3>2. e.target \in Names(flow)
      BY <3>1, FlowType
    <3>3. f[Below(flow, c, e.target, t)] \in S
      BY <2>2, <3>1, <3>2, CallType
    <3>4. Pass(t, e, c.id, f[Below(flow, c, e.target, t)]) \in S
      BY <3>1, <3>3, SearchSteps
    <3> QED
      BY <2>2, <3>4 DEF DfsValue
  <2> QED
    BY <2>1, <2>2
<1>2. ASSUME NEW f \in [C -> S] PROVE DfsStep(flow, f) \in [C -> S]
  BY <1>1 DEF DfsStep
<1>3. ASSUME NEW g \in [C -> S], NEW h \in [C -> S], NEW c \in C,
             c.k # 0 /\ c.depth # 0 =>
                 /\ g[Before(c)] = h[Before(c)]
                 /\ \A id \in Names(flow), s \in S :
                       g[Below(flow, c, id, s)] = h[Below(flow, c, id, s)]
      PROVE  DfsValue(flow, g, c) = DfsValue(flow, h, c)
  <2>1. CASE c.k = 0 \/ c.depth = 0
    BY <2>1 DEF DfsValue
  <2>2. CASE ~(c.k = 0 \/ c.depth = 0)
    <3>0. Before(c) \in C
      BY <2>2, CallType
    <3>1. c.k \in 1 .. Len(flow.edges) /\ g[Before(c)] \in S
      <4>1. g[Before(c)] \in S
        BY <3>0
      <4>2. c.k \in 0 .. Len(flow.edges) /\ Len(flow.edges) \in Nat
        BY CallType, FlowType
      <4> QED
        BY <2>2, <4>1, <4>2
    <3>2. flow.edges[c.k].target \in Names(flow)
      BY <3>1, FlowType
    <3> QED
      BY <1>3, <2>2, <3>1, <3>2 DEF DfsValue
  <2> QED
    BY <2>1, <2>2
<1>4. /\ B \in [[C -> S] -> [C -> S]]
      /\ \A f \in [C -> S] : B[f] = DfsStep(flow, f)
      /\ \A f \in [C -> S], c \in C : B[f][c] = DfsValue(flow, f, c)
  BY <1>2 DEF DfsStep
<1>5. S # {}
  BY SearchSteps
<1> HIDE DEF B
<1>6. Searching(flow, Names(flow), S, B)
  BY <1>3, <1>4, <1>5 DEF Searching
<1>7. FixedPoint(C, S, B)
  BY <1>6, CallRecursion
<1> QED
  BY <1>4, <1>7 DEF FixedPoint

\* The search is what its recursive definition says, and total.
LEMMA DfsEquation ==
    ASSUME NEW flow, IsFlow(flow)
    PROVE  \A c \in Calls(flow, Names(flow), Search(flow)) :
              /\ HasCycleDFS(flow)[c] = DfsValue(flow, HasCycleDFS(flow), c)
              /\ HasCycleDFS(flow)[c] \in Search(flow)
<1> DEFINE S == Search(flow)
           C == Calls(flow, Names(flow), S)
           dfs == HasCycleDFS(flow)
           T == {c \in C : dfs[c] \in S}
<1>1. dfs = DfsStep(flow, dfs)
  <2> DEFINE Step(f) == DfsStep(flow, f)
  <2>1. \E f : f = Step(f)
    BY DfsRecursion
  <2>2. dfs = CHOOSE f : f = Step(f)
    BY DfsIsFixedPoint
  <2> HIDE DEF Step
  <2>3. dfs = Step(dfs)
    BY <2>1, <2>2
  <2> QED
    BY <2>3 DEF Step
<1>2. \A c \in C : dfs[c] = DfsValue(flow, dfs, c)
  BY <1>1 DEF DfsStep
<1>3. ASSUME NEW c \in C,
             c.k # 0 /\ c.depth # 0 =>
                 Before(c) \in T /\ \A id \in Names(flow), s \in S : Below(flow, c, id, s) \in T
      PROVE  c \in T
  <2>1. CASE c.k = 0 \/ c.depth = 0
    <3>1. Enter(c.s, c.id) \in S
      BY CallType, SearchSteps
    <3> QED
      BY <1>2, <2>1, <3>1 DEF DfsValue
  <2>2. CASE ~(c.k = 0 \/ c.depth = 0)
    <3> DEFINE t == dfs[Before(c)]
               e == flow.edges[c.k]
    <3>1. t \in S /\ c.k \in 1 .. Len(flow.edges)
      BY <1>3, <2>2, CallType, FlowType
    <3>2. e.target \in Names(flow)
      BY <3>1, FlowType
    <3>3. dfs[Below(flow, c, e.target, t)] \in S
      BY <1>3, <2>2, <3>1, <3>2
    <3>4. Pass(t, e, c.id, dfs[Below(flow, c, e.target, t)]) \in S
      BY <3>1, <3>3, SearchSteps
    <3> QED
      BY <1>2, <2>2, <3>4 DEF DfsValue
  <2> QED
    BY <2>1, <2>2
<1> HIDE DEF T
<1>4. \A c \in C : c \in T
  BY <1>3, CallInduction
<1> QED
  BY <1>2, <1>4 DEF T

-----------------------------------------------------------------------------
(* Reachability.                                                            *)

LEMMA ReachedAbsorbs ==
    ASSUME NEW flow, IsFlow(flow), NEW a
    PROVE  Absorbs(flow, Reached(flow, a), a)
<1> SUFFICES ASSUME NEW i \in DOMAIN flow.edges, flow.edges[i].source \in Reached(flow, a) \cup {a}
             PROVE  flow.edges[i].target \in Reached(flow, a)
  BY DEF Absorbs
<1>1. flow.edges[i].target \in Names(flow)
  BY FlowType
<1>2. ASSUME NEW S \in SUBSET Names(flow), Absorbs(flow, S, a) PROVE flow.edges[i].target \in S
  <2>1. flow.edges[i].source \in S \cup {a}
    BY <1>2 DEF Reached
  <2> QED
    BY <1>2, <2>1 DEF Absorbs
<1> QED
  BY <1>1, <1>2 DEF Reached

LEMMA ReachedIsLeast ==
    ASSUME NEW flow, NEW a, NEW S, S \subseteq Names(flow), Absorbs(flow, S, a)
    PROVE  Reached(flow, a) \subseteq S
BY DEF Reached

\* What an edge from a, or from a node that a leads to, leads to.
LEMMA ReachedStep ==
    ASSUME NEW flow, IsFlow(flow), NEW a, NEW i \in 1 .. Len(flow.edges),
           flow.edges[i].source \in Reached(flow, a) \cup {a}
    PROVE  flow.edges[i].target \in Reached(flow, a)
<1>1. i \in DOMAIN flow.edges
  BY FlowType
<1> QED
  BY <1>1, ReachedAbsorbs DEF Absorbs

LEMMA ReachedIsTransitive ==
    ASSUME NEW flow, IsFlow(flow), NEW a, NEW b \in Reached(flow, a)
    PROVE  Reached(flow, b) \subseteq Reached(flow, a)
<1>1. Absorbs(flow, Reached(flow, a), b)
  BY ReachedAbsorbs DEF Absorbs
<1>2. Reached(flow, a) \subseteq Names(flow)
  BY DEF Reached
<1> QED
  BY <1>1, <1>2, ReachedIsLeast

\* The first edge of a path.
LEMMA ReachedThroughEdge ==
    ASSUME NEW flow, IsFlow(flow), NEW a, NEW b \in Reached(flow, a)
    PROVE  \E i \in 1 .. Len(flow.edges) :
              /\ flow.edges[i].source = a
              /\ b \in Reached(flow, flow.edges[i].target) \cup {flow.edges[i].target}
<1> DEFINE Starts == {i \in 1 .. Len(flow.edges) : flow.edges[i].source = a}
           From(i) == Reached(flow, flow.edges[i].target) \cup {flow.edges[i].target}
           S == {c \in Names(flow) : \E i \in Starts : c \in From(i)}
<1>1. ASSUME NEW j \in DOMAIN flow.edges, flow.edges[j].source \in S \cup {a}
      PROVE  flow.edges[j].target \in S
  <2>1. j \in 1 .. Len(flow.edges) /\ flow.edges[j].target \in Names(flow)
    BY FlowType
  <2>2. CASE flow.edges[j].source = a
    BY <2>1, <2>2
  <2>3. CASE flow.edges[j].source \in S
    <3>1. PICK i \in Starts : flow.edges[j].source \in From(i)
      BY <2>3
    <3>2. flow.edges[j].target \in Reached(flow, flow.edges[i].target)
      BY <2>1, <3>1, ReachedStep
    <3> QED
      BY <2>1, <3>2
  <2> QED
    BY <1>1, <2>2, <2>3
<1>2. Absorbs(flow, S, a)
  <2> HIDE DEF S
  <2> QED
    BY <1>1 DEF Absorbs
<1>3. b \in S
  BY <1>2, ReachedIsLeast
<1> QED
  BY <1>3

-----------------------------------------------------------------------------
(* A search finds a cycle exactly when there is one below its node.         *)

Cyclic(flow) ==
    \E a \in Ids(flow) : \E b \in Reached(flow, a) \cup {a} : b \in Reached(flow, b)

\* The nodes that a search has left: they lead only to such nodes and to no cycle.
Left(s) == s.visited \ s.recStack
Good(flow, s) ==
    \A b \in Left(s) : Reached(flow, b) \subseteq Left(s) /\ b \notin Reached(flow, b)

\* What holds when hasCycleDFS(id) is called in state s.
FromIds(flow, id) == \E a \in Ids(flow) : id \in Reached(flow, a) \cup {a}
Callable(flow, depth, id, s) ==
    /\ ~s.found /\ id \notin s.visited /\ s.recStack \subseteq s.visited
    /\ Cardinality(Names(flow) \ s.visited) <= depth
    /\ Good(flow, s)
    /\ \A x \in s.recStack : id \in Reached(flow, x)
    /\ FromIds(flow, id)

\* What holds of the state r when its loop has passed k edges.
Searched(flow, k, id, s, r) ==
    /\ s.visited \cup {id} \subseteq r.visited
    /\ r.found => Cyclic(flow)
    /\ ~r.found =>
          /\ r.recStack = s.recStack \cup {id}
          /\ r.recStack \subseteq r.visited
          /\ Good(flow, r)
          /\ \A i \in 1 .. k : flow.edges[i].source = id => flow.edges[i].target \in Left(r)

\* A node whose edges all lead to nodes that were left can be left.
LEMMA LeaveIsGood ==
    ASSUME NEW flow, IsFlow(flow), NEW id \in Names(flow), NEW s \in Search(flow),
           NEW u \in Search(flow), id \notin s.recStack, ~u.found,
           Searched(flow, Len(flow.edges), id, s, u)
    PROVE  /\ Leave(u, id).visited = u.visited
           /\ Leave(u, id).recStack = s.recStack
           /\ ~Leave(u, id).found
           /\ id \in Left(Leave(u, id))
           /\ Good(flow, Leave(u, id))
<1> DEFINE r == Leave(u, id)
<1>1. /\ u.recStack = s.recStack \cup {id}
      /\ u.recStack \subseteq u.visited
      /\ Good(flow, u)
      /\ \A i \in 1 .. Len(flow.edges) : flow.edges[i].source = id => flow.edges[i].target \in Left(u)
  BY DEF Searched
<1>2. r.visited = u.visited /\ r.recStack = u.recStack \ {id} /\ r.found = u.found
  BY DEF Leave, Search
<1> HIDE DEF r
<1>3. r.recStack = s.recStack
  BY <1>1, <1>2
<1>4. Left(r) = Left(u) \cup {id} /\ id \notin Left(u)
  BY <1>1, <1>2 DEF Left
<1>5. Reached(flow, id) \subseteq Left(u)
  <2> SUFFICES ASSUME NEW b \in Reached(flow, id) PROVE b \in Left(u)
    OBVIOUS
  <2>1. PICK i \in 1 .. Len(flow.edges) :
           /\ flow.edges[i].source = id
           /\ b \in Reached(flow, flow.edges[i].target) \cup {flow.edges[i].target}
    BY ReachedThroughEdge
  <2> QED
    BY <1>1, <2>1 DEF Good
<1>6. Good(flow, r)
  BY <1>1, <1>4, <1>5 DEF Good
<1> QED
  BY <1>2, <1>3, <1>4, <1>6 DEF r

LEMMA PassCases ==
    ASSUME NEW flow, NEW t \in Search(flow), NEW u, NEW e, NEW id
    PROVE  /\ t.found \/ e.source # id => Pass(t, e, id, u) = t
           /\ ~t.found /\ e.source = id /\ e.target \in t.visited =>
                 /\ Pass(t, e, id, u).visited = t.visited
                 /\ Pass(t, e, id, u).recStack = t.recStack
                 /\ Pass(t, e, id, u).found <=> e.target \in t.recStack
           /\ ~t.found /\ e.source = id /\ e.target \notin t.visited =>
                 Pass(t, e, id, u) = Leave(u, e.target)
BY DEF Pass, Search

\* What is left to visit fits below a call.
LEMMA LessIsLeft ==
    ASSUME NEW N, IsFiniteSet(N), NEW V, NEW W, NEW x \in N, V \cup {x} \subseteq W, x \notin V,
           NEW d \in Nat, Cardinality(N \ V) <= d
    PROVE  d # 0 /\ Cardinality(N \ W) <= d - 1
<1>1. IsFiniteSet(N \ V) /\ N \ V \in SUBSET N
  BY FS_Subset
<1>2. Cardinality(N \ V) \in Nat
  BY <1>1, FS_CardinalityType
<1>3. /\ IsFiniteSet((N \ V) \ {x})
      /\ Cardinality((N \ V) \ {x}) = Cardinality(N \ V) - 1
  BY <1>1, x \in N \ V, FS_RemoveElement
<1>4. N \ W \in SUBSET ((N \ V) \ {x})
  OBVIOUS
<1>5. Cardinality(N \ W) <= Cardinality((N \ V) \ {x}) /\ IsFiniteSet(N \ W)
  BY <1>3, <1>4, FS_Subset
<1>6. Cardinality(N \ W) \in Nat /\ Cardinality((N \ V) \ {x}) \in Nat
  BY <1>3, <1>5, FS_CardinalityType
<1> QED
  BY <1>2, <1>3, <1>5, <1>6

\* The state in which a call of hasCycleDFS enters its node.
LEMMA EnterIsSearched ==
    ASSUME NEW flow, NEW depth, NEW id \in Names(flow), NEW s \in Search(flow),
           Callable(flow, depth, id, s)
    PROVE  Searched(flow, 0, id, s, Enter(s, id))
<1> DEFINE r == Enter(s, id)
<1>1. r.visited = s.visited \cup {id} /\ r.recStack = s.recStack \cup {id} /\ ~r.found
  BY DEF Enter
<1> HIDE DEF r
<1>2. Left(r) = Left(s)
  BY <1>1 DEF Left, Callable
<1> QED
  BY <1>1, <1>2 DEF Searched, Callable, Good, r

\* An edge of the node being searched, to a node on the stack: a cycle.
LEMMA BackEdgeCloses ==
    ASSUME NEW flow, IsFlow(flow), NEW id, FromIds(flow, id),
           NEW i \in 1 .. Len(flow.edges), flow.edges[i].source = id,
           flow.edges[i].target = id \/ id \in Reached(flow, flow.edges[i].target)
    PROVE  Cyclic(flow)
<1> DEFINE x == flow.edges[i].target
<1>1. x \in Reached(flow, id)
  BY ReachedStep
<1>2. id \in Reached(flow, id)
  BY <1>1, ReachedIsTransitive
<1> QED
  BY <1>2 DEF FromIds, Cyclic

\* Each call does what its loop is for, if the calls it makes do.
LEMMA DfsSearches ==
    ASSUME NEW flow, IsFlow(flow)
    PROVE  \A c \in Calls(flow, Names(flow), Search(flow)) :
              Callable(flow, c.depth, c.id, c.s) =>
                  Searched(flow, c.k, c.id, c.s, HasCycleDFS(flow)[c])
<1> DEFINE S == Search(flow)
           C == Calls(flow, Names(flow), S)
           dfs == HasCycleDFS(flow)
           T == {c \in C : Callable(flow, c.depth, c.id, c.s) =>
                               Searched(flow, c.k, c.id, c.s, dfs[c])}
<1>1. ASSUME NEW c \in C,
             c.k # 0 /\ c.depth # 0 =>
                 Before(c) \in T /\ \A id \in Names(flow), s \in S : Below(flow, c, id, s) \in T,
             Callable(flow, c.depth, c.id, c.s)
      PROVE  Searched(flow, c.k, c.id, c.s, dfs[c])
  <2> DEFINE s == c.s
             id == c.id
             r == dfs[c]
  <2> SUFFICES Searched(flow, c.k, id, s, r)
    OBVIOUS
  <2>0. /\ s \in S /\ id \in Names(flow) /\ c.k \in 0 .. Len(flow.edges)
        /\ c.depth \in 0 .. Depth(flow) /\ IsFiniteSet(Names(flow))
        /\ Depth(flow) \in Nat /\ Len(flow.edges) \in Nat /\ c.depth \in Nat
    <3>1. /\ s \in S /\ id \in Names(flow) /\ c.k \in 0 .. Len(flow.edges)
          /\ c.depth \in 0 .. Depth(flow)
      BY CallType
    <3>2. IsFiniteSet(Names(flow)) /\ Depth(flow) \in Nat /\ Len(flow.edges) \in Nat
      BY FlowType, FlowIsFinite
    <3> QED
      BY <3>1, <3>2
  <2>1. c.depth # 0
    BY <1>1, <2>0, LessIsLeft DEF Callable
  <2>2. CASE c.k = 0
    BY <1>1, <2>0, <2>2, EnterIsSearched, DfsEquation DEF DfsValue
  <2>3. CASE c.k # 0
    <3> DEFINE t == dfs[Before(c)]
               e == flow.edges[c.k]
               u == dfs[Below(flow, c, e.target, t)]
    <3>0. c.k \in 1 .. Len(flow.edges) /\ e.target \in Names(flow)
      BY <2>0, <2>3, FlowType
    <3>1. t \in S /\ Searched(flow, c.k - 1, id, s, t)
      <4>1. Before(c) \in T
        BY <1>1, <2>1, <2>3
      <4>2. /\ Before(c).k = c.k - 1 /\ Before(c).depth = c.depth
            /\ Before(c).id = c.id /\ Before(c).s = c.s
        BY <2>1, <2>3, CallType
      <4> QED
        BY <1>1, <4>1, <4>2, DfsEquation
    <3>2. r = Pass(t, e, id, u)
      BY <2>1, <2>3, DfsEquation DEF DfsValue
    <3> HIDE DEF s, id, r, t
    <3>3. CASE t.found
      <4>1. r = t
        BY <3>1, <3>2, <3>3, PassCases
      <4> QED
        BY <3>1, <3>3, <4>1 DEF Searched
    <3>4. CASE ~t.found /\ e.source # id
      <4>1. r = t
        BY <3>1, <3>2, <3>4, PassCases
      <4>2. \A i \in 1 .. c.k : flow.edges[i].source = id => i \in 1 .. c.k - 1
        BY <3>0, <3>4
      <4> QED
        BY <3>1, <3>4, <4>1, <4>2 DEF Searched
    <3>5. CASE ~t.found /\ e.source = id /\ e.target \in t.visited
      <4>1. /\ r.visited = t.visited /\ r.recStack = t.recStack
            /\ r.found <=> e.target \in t.recStack
        BY <3>1, <3>2, <3>5, PassCases
      <4>2. /\ s.visited \cup {id} \subseteq t.visited
            /\ t.recStack = s.recStack \cup {id} /\ t.recStack \subseteq t.visited
            /\ Good(flow, t)
            /\ \A i \in 1 .. c.k - 1 :
                  flow.edges[i].source = id => flow.edges[i].target \in Left(t)
        BY <3>1, <3>5 DEF Searched
      <4>3. r.found => Cyclic(flow)
        <5>1. FromIds(flow, id) /\ \A x \in s.recStack : id \in Reached(flow, x)
          BY <1>1 DEF Callable, s, id
        <5> HIDE DEF e
        <5>2. r.found => e.target = id \/ id \in Reached(flow, e.target)
          BY <4>1, <4>2, <5>1
        <5> QED
          BY <3>0, <3>5, <5>1, <5>2, BackEdgeCloses DEF e
      <4>4. Left(r) = Left(t)
        BY <4>1 DEF Left
      <4>5. ~r.found => e.target \in Left(r)
        BY <3>5, <4>1 DEF Left
      <4>6. \A i \in 1 .. c.k : i \in 1 .. c.k - 1 \/ i = c.k
        BY <3>0
      <4> QED
        BY <4>1, <4>2, <4>3, <4>4, <4>5, <4>6 DEF Searched, Good
    <3>6. CASE ~t.found /\ e.source = id /\ e.target \notin t.visited
      <4>1. /\ s.visited \cup {id} \subseteq t.visited
            /\ t.recStack = s.recStack \cup {id} /\ t.recStack \subseteq t.visited
            /\ Good(flow, t)
            /\ \A i \in 1 .. c.k - 1 :
                  flow.edges[i].source = id => flow.edges[i].target \in Left(t)
        BY <3>1, <3>6 DEF Searched
      <4>2. Callable(flow, c.depth - 1, e.target, t)
        <5>1. Callable(flow, c.depth, id, s)
          BY <1>1 DEF s, id
        <5>2. Cardinality(Names(flow) \ t.visited) <= c.depth - 1
          BY <2>0, <4>1, <5>1, LessIsLeft DEF Callable, s, id
        <5>3. e.target \in Reached(flow, id)
          BY <3>0, <3>6, ReachedStep
        <5>4. \A x \in t.recStack : e.target \in Reached(flow, x)
          BY <4>1, <5>1, <5>3, ReachedIsTransitive DEF Callable
        <5>5. FromIds(flow, e.target)
          BY <5>1, <5>3, ReachedIsTransitive DEF Callable, FromIds
        <5> QED
          BY <3>6, <4>1, <5>2, <5>4, <5>5 DEF Callable
      <4>3. u \in S /\ Searched(flow, Len(flow.edges), e.target, t, u)
        <5>1. Below(flow, c, e.target, t) \in T
          BY <1>1, <2>1, <2>3, <3>0, <3>1
        <5>2. LET b == Below(flow, c, e.target, t) IN
              b.k = Len(flow.edges) /\ b.depth = c.depth - 1 /\ b.id = e.target /\ b.s = t
          BY DEF Below
        <5>3. \A b \in T : Callable(flow, b.depth, b.id, b.s) =>
                           Searched(flow, b.k, b.id, b.s, dfs[b])
          OBVIOUS
        <5>4. Searched(flow, Len(flow.edges), e.target, t, u)
          <6> HIDE DEF T, t, e, dfs
          <6> QED
            BY <4>2, <5>1, <5>2, <5>3 DEF u
        <5>5. u \in S
          BY <5>1, DfsEquation
        <5> QED
          BY <5>4, <5>5
      <4>4. r = Leave(u, e.target)
        <5> HIDE DEF u, e
        <5> QED
          BY <3>1, <3>2, <3>6, PassCases
      <4> HIDE DEF u, e
      <4>5. CASE u.found
        BY <4>1, <4>3, <4>4, <4>5 DEF Leave, Searched
      <4>6. CASE ~u.found
        <5>1. /\ r.visited = u.visited /\ r.recStack = t.recStack /\ ~r.found
              /\ e.target \in Left(r) /\ Good(flow, r)
          BY <3>0, <3>1, <3>6, <4>1, <4>3, <4>4, <4>6, LeaveIsGood
        <5>2. t.visited \subseteq u.visited
          BY <4>3 DEF Searched
        <5>3. Left(t) \subseteq Left(r)
          BY <5>1, <5>2 DEF Left
        <5>4. \A i \in 1 .. c.k : i \in 1 .. c.k - 1 \/ flow.edges[i].target = e.target
          BY <3>0 DEF e
        <5>5. \A i \in 1 .. c.k : flow.edges[i].source = id => flow.edges[i].target \in Left(r)
          BY <4>1, <5>1, <5>3, <5>4
        <5> QED
          BY <4>1, <5>1, <5>2, <5>5 DEF Searched
      <4> QED
        BY <4>5, <4>6
    <3> QED
      BY <3>1, <3>3, <3>4, <3>5, <3>6
  <2> QED
    BY <2>2, <2>3
<1> HIDE DEF T
<1>2. \A c \in C : c \in T
  <2>1. ASSUME NEW c \in C, 
             c.k # 0 /\ c.depth # 0 =>
                 Before(c) \in T /\ \A id \in Names(flow), s \in S : Below(flow, c, id, s) \in T
        PROVE  c \in T
    BY <1>1, <2>1 DEF T
  <2> QED
    BY <2>1, CallInduction
<1> QED
  BY <1>2 DEF T

-----------------------------------------------------------------------------
(* detectCycle.                                                             *)

DetectStep(flow, i, s) ==
    IF s.found \/ flow.nodes[i].id \in s.visited THEN s
    ELSE Leave(HasCycleDFS(flow)[FirstCall(flow, flow.nodes[i].id, s)], flow.nodes[i].id)

DetectLoop(flow, f) ==
    [i \in 0 .. Len(flow.nodes) |-> IF i = 0 THEN Fresh ELSE DetectStep(flow, i, f[i - 1])]

LEMMA FirstCallType ==
    ASSUME NEW flow, IsFlow(flow), NEW ids, NEW S, NEW id \in ids, NEW s \in S
    PROVE  /\ FirstCall(flow, id, s) \in Calls(flow, ids, S)
           /\ FirstCall(flow, id, s).depth = Depth(flow)
           /\ FirstCall(flow, id, s).k = Len(flow.edges)
           /\ FirstCall(flow, id, s).id = id
           /\ FirstCall(flow, id, s).s = s
<1>1. Depth(flow) \in 0 .. Depth(flow) /\ Len(flow.edges) \in 0 .. Len(flow.edges)
  BY FlowType, FlowIsFinite
<1> QED
  BY <1>1 DEF FirstCall, Calls

LEMMA DetectStepType ==
    ASSUME NEW flow, IsFlow(flow), NEW i \in 1 .. Len(flow.nodes), NEW s \in Search(flow)
    PROVE  DetectStep(flow, i, s) \in Search(flow)
<1> DEFINE id == flow.nodes[i].id
<1>1. id \in Names(flow)
  BY FlowType
<1> HIDE DEF id
<1>2. HasCycleDFS(flow)[FirstCall(flow, id, s)] \in Search(flow)
  BY <1>1, FirstCallType, DfsEquation
<1>3. Leave(HasCycleDFS(flow)[FirstCall(flow, id, s)], id) \in Search(flow)
  BY <1>1, <1>2, SearchSteps
<1> QED
  BY <1>3 DEF DetectStep, id

LEMMA DetectLoopExists ==
    ASSUME NEW flow, IsFlow(flow)
    PROVE  \E f : f = DetectLoop(flow, f)
<1> DEFINE S == Search(flow)
           N == Len(flow.nodes)
           G == [i \in 1 .. N |-> [s \in S |-> DetectStep(flow, i, s)]]
<1>1. N \in Nat /\ Fresh \in S
  BY FlowType, SearchSteps
<1>2. G \in [1 .. N -> [S -> S]]
  BY DetectStepType
<1>3. \A i \in 1 .. N : \A s \in S : G[i][s] = DetectStep(flow, i, s)
  OBVIOUS
<1> HIDE DEF G
<1>4. PICK f \in [0 .. N -> S] : IsLoop(f, N, Fresh, G)
  BY <1>1, <1>2, LoopExists
<1>5. \A i \in 0 .. N : i # 0 => i \in 1 .. N /\ f[i - 1] \in S
  BY <1>1
<1>6. f = DetectLoop(flow, f)
  BY <1>3, <1>4, <1>5 DEF IsLoop, DetectLoop
<1> QED
  BY <1>6

\* What holds when the loop over the nodes has passed i of them.
Detected(flow, i, s) ==
    /\ s \in Search(flow)
    /\ s.found => Cyclic(flow)
    /\ ~s.found =>
          /\ s.recStack = {} /\ Good(flow, s)
          /\ \A j \in 1 .. i : flow.nodes[j].id \in s.visited

LEMMA DetectStepDetects ==
    ASSUME NEW flow, IsFlow(flow), NEW i \in 1 .. Len(flow.nodes), NEW s,
           Detected(flow, i - 1, s)
    PROVE  Detected(flow, i, DetectStep(flow, i, s))
<1> DEFINE id == flow.nodes[i].id
           r == DetectStep(flow, i, s)
           u == HasCycleDFS(flow)[FirstCall(flow, id, s)]
<1> SUFFICES Detected(flow, i, r)
  OBVIOUS
<1>1. id \in Ids(flow) /\ id \in Names(flow) /\ s \in Search(flow) /\ r \in Search(flow)
  BY FlowType, DetectStepType DEF Detected
<1>2. \A j \in 1 .. i : j \in 1 .. i - 1 \/ j = i
  OBVIOUS
<1>3. CASE s.found \/ id \in s.visited
  <2>1. r = s
    BY <1>3 DEF DetectStep
  <2> HIDE DEF r
  <2> QED
    BY <1>2, <1>3, <2>1 DEF Detected
<1>4. CASE ~(s.found \/ id \in s.visited)
  <2>1. r = Leave(u, id)
    BY <1>4 DEF DetectStep
  <2>2. Callable(flow, Depth(flow), id, s)
    <3>1. Names(flow) \ s.visited \in SUBSET Names(flow) /\ IsFiniteSet(Names(flow))
      BY FlowIsFinite
    <3>2. Cardinality(Names(flow) \ s.visited) <= Depth(flow)
      BY <3>1, FS_Subset DEF Depth
    <3> QED
      BY <1>1, <1>4, <3>2 DEF Detected, Callable, FromIds
  <2>3. u \in Search(flow) /\ Searched(flow, Len(flow.edges), id, s, u)
    BY <1>1, <2>2, FirstCallType, DfsSearches, DfsEquation
  <2> HIDE DEF u, id, r
  <2>4. CASE u.found
    BY <1>1, <2>1, <2>3, <2>4 DEF Detected, Searched, Leave
  <2>5. CASE ~u.found
    <3>1. /\ r.visited = u.visited /\ r.recStack = s.recStack /\ ~r.found
          /\ id \in Left(r) /\ Good(flow, r)
      BY <1>1, <1>4, <2>1, <2>3, <2>5, LeaveIsGood DEF Detected
    <3>2. s.visited \cup {id} \subseteq r.visited
      BY <2>3, <3>1 DEF Searched
    <3>3. \A j \in 1 .. i : flow.nodes[j].id \in r.visited
      BY <1>2, <1>4, <3>2 DEF Detected, id
    <3> QED
      BY <1>1, <1>4, <3>1, <3>3 DEF Detected
  <2> QED
    BY <2>4, <2>5
<1> QED
  BY <1>3, <1>4

LEMMA DetectLoopDetects ==
    ASSUME NEW flow, IsFlow(flow)
    PROVE  \E s : Detected(flow, Len(flow.nodes), s) /\ DetectCycle(flow) = s.found
<1> DEFINE N == Len(flow.nodes)
           Step(f) == DetectLoop(flow, f)
           start == CHOOSE f : f = Step(f)
           T == {i \in Nat : i <= N => Detected(flow, i, start[i])}
<1>0. N \in Nat
  BY FlowType
<1>1. \E f : f = Step(f)
  BY DetectLoopExists
<1>2. DetectCycle(flow) = start[N].found
  BY DEF DetectCycle, DetectLoop, DetectStep
<1>3. start = Step(start)
  <2> HIDE DEF Step
  <2> QED
    BY <1>1
<1> HIDE DEF start
<1>4. \A i \in 0 .. N : start[i] = IF i = 0 THEN Fresh ELSE DetectStep(flow, i, start[i - 1])
  BY <1>3 DEF DetectLoop
<1>5. ASSUME NEW i \in Nat, \A j \in Nat : j < i => j \in T, i <= N
      PROVE  Detected(flow, i, start[i])
  <2>1. CASE i = 0
    <3>1. start[i] = Fresh
      BY <1>0, <1>4, <2>1
    <3>2. Detected(flow, 0, Fresh)
      BY SearchSteps DEF Detected, Fresh, Good, Left
    <3> QED
      BY <2>1, <3>1, <3>2
  <2>2. CASE i # 0
    <3>1. i - 1 \in T /\ i \in 1 .. N /\ i - 1 <= N
      BY <1>0, <1>5, <2>2
    <3>2. Detected(flow, i - 1, start[i - 1])
      BY <3>1
    <3>3. start[i] = DetectStep(flow, i, start[i - 1])
      BY <1>4, <3>1, <2>2
    <3> QED
      BY <3>1, <3>2, <3>3, DetectStepDetects
  <2> QED
    BY <2>1, <2>2
<1>6. ASSUME NEW i \in Nat, \A j \in Nat : j < i => j \in T PROVE i \in T
  BY <1>5, <1>6
<1>7. \A i \in Nat : i \in T
  <2> HIDE DEF T
  <2> QED
    BY <1>6, Induction
<1>8. Detected(flow, N, start[N])
  BY <1>0, <1>7
<1> QED
  BY <1>2, <1>8

\* detectCycle is right about every flow.
LEMMA DetectCycleIsRight ==
    ASSUME NEW flow, IsFlow(flow)
    PROVE  DetectCycle(flow) <=> Cyclic(flow)
<1>1. PICK s : Detected(flow, Len(flow.nodes), s) /\ DetectCycle(flow) = s.found
  BY DetectLoopDetects
<1>2. ASSUME ~s.found PROVE ~Cyclic(flow)
  <2>1. Ids(flow) \subseteq Left(s) /\ Good(flow, s)
    BY <1>1, <1>2, FlowType DEF Detected, Left, Ids
  <2> QED
    BY <2>1 DEF Good, Cyclic
<1>3. s.found => Cyclic(flow)
  BY <1>1 DEF Detected
<1>4. s.found \in BOOLEAN
  BY <1>1 DEF Detected, Search
<1> QED
  BY <1>1, <1>2, <1>3, <1>4

-----------------------------------------------------------------------------
(* What visit computes.                                                     *)

VisitPass(flow, t, e, id, u) ==
    IF e.source # id \/ e.target \notin Ids(flow) \ t.visited THEN t ELSE Emit(t, u, e.target)

VisitValue(flow, f, c) ==
    IF c.k = 0 \/ c.depth = 0 THEN [c.s EXCEPT !.visited = @ \cup {c.id}]
    ELSE VisitPass(flow, f[Before(c)], flow.edges[c.k], c.id,
                   f[Below(flow, c, flow.edges[c.k].target, f[Before(c)])])

VisitStep(flow, f) ==
    [c \in Calls(flow, Ids(flow), Sorting(flow)) |-> VisitValue(flow, f, c)]

LEMMA VisitIsFixedPoint ==
    ASSUME NEW flow
    PROVE  Visit(flow) = CHOOSE f : f = VisitStep(flow, f)
BY DEF Visit, VisitStep, VisitValue, VisitPass

LEMMA AppendType ==
    ASSUME NEW T, NEW q \in Seq(T), NEW x \in T
    PROVE  /\ Append(q, x) \in Seq(T) /\ Len(q) \in Nat /\ Len(Append(q, x)) = Len(q) + 1
           /\ \A i \in 1 .. Len(q) : Append(q, x)[i] = q[i]
           /\ Append(q, x)[Len(q) + 1] = x
OBVIOUS

LEMMA EmitType ==
    ASSUME NEW flow, NEW t, NEW u \in Sorting(flow), NEW id \in Ids(flow)
    PROVE  /\ Emit(t, u, id) \in Sorting(flow)
           /\ Emit(t, u, id).visited = u.visited
           /\ Emit(t, u, id).sorted = Append(u.sorted, id)
BY AppendType DEF Sorting, Emit

\* The value at a call is a state, when those that it is computed from are.
LEMMA VisitValueType ==
    ASSUME NEW flow, IsFlow(flow), NEW f, NEW c \in Calls(flow, Ids(flow), Sorting(flow)),
           c.k # 0 /\ c.depth # 0 =>
               /\ f[Before(c)] \in Sorting(flow)
               /\ \A id \in Ids(flow), s \in Sorting(flow) :
                     f[Below(flow, c, id, s)] \in Sorting(flow)
    PROVE  VisitValue(flow, f, c) \in Sorting(flow)
<1>1. CASE c.k = 0 \/ c.depth = 0
  <2>1. c.s \in Sorting(flow) /\ c.id \in Ids(flow)
    BY CallType
  <2>2. [c.s EXCEPT !.visited = @ \cup {c.id}] \in Sorting(flow)
    BY <2>1 DEF Sorting
  <2> QED
    BY <1>1, <2>2 DEF VisitValue
<1>2. CASE ~(c.k = 0 \/ c.depth = 0)
  <2> DEFINE t == f[Before(c)]
             e == flow.edges[c.k]
             u == f[Below(flow, c, e.target, t)]
  <2>1. t \in Sorting(flow)
    BY <1>2
  <2>2. e.target \in Ids(flow) => u \in Sorting(flow)
    BY <1>2, <2>1
  <2>3. VisitValue(flow, f, c) = VisitPass(flow, t, e, c.id, u)
    BY <1>2 DEF VisitValue
  <2> HIDE DEF t, e, u
  <2>4. e.target \in Ids(flow) => Emit(t, u, e.target) \in Sorting(flow)
    BY <2>2, EmitType
  <2>5. VisitPass(flow, t, e, c.id, u) \in Sorting(flow)
    BY <2>1, <2>4 DEF VisitPass
  <2> QED
    BY <2>3, <2>5
<1> QED
  BY <1>1, <1>2

LEMMA VisitRecursion ==
    ASSUME NEW flow, IsFlow(flow)
    PROVE  \E f : f = VisitStep(flow, f)
<1> DEFINE S == Sorting(flow)
           C == Calls(flow, Ids(flow), S)
           B == [f \in [C -> S] |-> VisitStep(flow, f)]
<1>1. ASSUME NEW f \in [C -> S], NEW c \in C PROVE VisitValue(flow, f, c) \in S
  <2>1. c.k # 0 /\ c.depth # 0 =>
           /\ f[Before(c)] \in S
           /\ \A id \in Ids(flow), s \in S : f[Below(flow, c, id, s)] \in S
    BY CallType
  <2> QED
    BY <2>1, VisitValueType
<1>2. ASSUME NEW f \in [C -> S] PROVE VisitStep(flow, f) \in [C -> S]
  BY <1>1 DEF VisitStep
<1>3. ASSUME NEW g \in [C -> S], NEW h \in [C -> S], NEW c \in C,
             c.k # 0 /\ c.depth # 0 =>
                 /\ g[Before(c)] = h[Before(c)]
                 /\ \A id \in Ids(flow), s \in S :
                       g[Below(flow, c, id, s)] = h[Below(flow, c, id, s)]
      PROVE  VisitValue(flow, g, c) = VisitValue(flow, h, c)
  <2>1. CASE c.k = 0 \/ c.depth = 0
    BY <2>1 DEF VisitValue
  <2>2. CASE ~(c.k = 0 \/ c.depth = 0)
    <3>1. Before(c) \in C
      BY <2>2, CallType
    <3>2. g[Before(c)] \in S /\ g[Before(c)] = h[Before(c)]
      BY <1>3, <2>2, <3>1
    <3> QED
      BY <1>3, <2>2, <3>2 DEF VisitValue, VisitPass
  <2> QED
    BY <2>1, <2>2
<1>4. /\ B \in [[C -> S] -> [C -> S]]
      /\ \A f \in [C -> S] : B[f] = VisitStep(flow, f)
      /\ \A f \in [C -> S], c \in C : B[f][c] = VisitValue(flow, f, c)
  BY <1>2 DEF VisitStep
<1>5. S # {}
  <2>1. [visited |-> {}, sorted |-> <<>>] \in S
    BY DEF Sorting
  <2> QED
    BY <2>1
<1> HIDE DEF B
<1>6. Searching(flow, Ids(flow), S, B)
  BY <1>3, <1>4, <1>5 DEF Searching
<1>7. FixedPoint(C, S, B)
  BY <1>6, CallRecursion
<1> QED
  BY <1>4, <1>7 DEF FixedPoint

LEMMA VisitEquation ==
    ASSUME NEW flow, IsFlow(flow)
    PROVE  \A c \in Calls(flow, Ids(flow), Sorting(flow)) :
              /\ Visit(flow)[c] = VisitValue(flow, Visit(flow), c)
              /\ Visit(flow)[c] \in Sorting(flow)
<1> DEFINE S == Sorting(flow)
           C == Calls(flow, Ids(flow), S)
           visit == Visit(flow)
           T == {c \in C : visit[c] \in S}
<1>1. visit = VisitStep(flow, visit)
  <2> DEFINE Step(f) == VisitStep(flow, f)
  <2>1. \E f : f = Step(f)
    BY VisitRecursion
  <2>2. visit = CHOOSE f : f = Step(f)
    BY VisitIsFixedPoint
  <2> HIDE DEF Step
  <2>3. visit = Step(visit)
    BY <2>1, <2>2
  <2> QED
    BY <2>3 DEF Step
<1>2. \A c \in C : visit[c] = VisitValue(flow, visit, c)
  BY <1>1 DEF VisitStep
<1>3. ASSUME NEW c \in C,
             c.k # 0 /\ c.depth # 0 =>
                 Before(c) \in T /\ \A id \in Ids(flow), s \in S : Below(flow, c, id, s) \in T
      PROVE  c \in T
  BY <1>2, <1>3, VisitValueType
<1> HIDE DEF T
<1>4. \A c \in C : c \in T
  BY <1>3, CallInduction
<1> QED
  BY <1>2, <1>4 DEF T

-----------------------------------------------------------------------------
(* Without a cycle, a node is pushed when everything below it has been.      *)

Acyclic(flow) == \A a \in Ids(flow) : a \notin Reached(flow, a)

Placed(s) == {s.sorted[i] : i \in 1 .. Len(s.sorted)}
Open(s) == s.visited \ Placed(s)

\* Every node once, after the nodes that its edges lead to.
Sound(flow, s) ==
    /\ Placed(s) \subseteq s.visited
    /\ \A i, j \in 1 .. Len(s.sorted) : s.sorted[i] = s.sorted[j] => i = j
    /\ \A i \in 1 .. Len(s.sorted), k \in 1 .. Len(flow.edges) :
          flow.edges[k].source = s.sorted[i] /\ flow.edges[k].target \in Ids(flow) =>
              \E j \in 1 .. Len(s.sorted) : j < i /\ s.sorted[j] = flow.edges[k].target

\* What holds when visit(id) is called in state s.
Visitable(flow, depth, id, s) ==
    /\ id \notin s.visited
    /\ Cardinality(Ids(flow) \ s.visited) <= depth
    /\ Sound(flow, s)
    /\ \A x \in Open(s) : id \in Reached(flow, x)

\* What holds of the state r when its loop has passed k edges.
Visited(flow, k, id, s, r) ==
    /\ s.visited \cup {id} \subseteq r.visited
    /\ Sound(flow, r)
    /\ Open(r) = Open(s) \cup {id}
    /\ \A i \in 1 .. k :
          flow.edges[i].source = id /\ flow.edges[i].target \in Ids(flow) =>
              flow.edges[i].target \in Placed(r)

LEMMA EmitIsSound ==
    ASSUME NEW flow, IsFlow(flow), NEW id \in Ids(flow), NEW s, NEW u \in Sorting(flow),
           id \notin s.visited, Visited(flow, Len(flow.edges), id, s, u)
    PROVE  /\ Emit(s, u, id).visited = u.visited
           /\ Open(Emit(s, u, id)) = Open(s)
           /\ id \in Placed(Emit(s, u, id))
           /\ Sound(flow, Emit(s, u, id))
<1> DEFINE r == Emit(s, u, id)
           n == Len(u.sorted)
<1>1. u.sorted \in Seq(Ids(flow)) /\ r.visited = u.visited /\ r.sorted = Append(u.sorted, id)
  <2>1. u.sorted \in Seq(Ids(flow))
    BY DEF Sorting
  <2>2. r.visited = u.visited /\ r.sorted = Append(u.sorted, id)
    BY DEF Emit, Sorting
  <2> QED
    BY <2>1, <2>2
<1>2. /\ n \in Nat /\ Len(r.sorted) = n + 1 /\ r.sorted[n + 1] = id
      /\ \A i \in 1 .. n : r.sorted[i] = u.sorted[i]
  BY <1>1, AppendType
<1> SUFFICES /\ r.visited = u.visited
             /\ Open(r) = Open(s)
             /\ id \in Placed(r)
             /\ Sound(flow, r)
  OBVIOUS
<1> HIDE DEF r, n
<1>3. \A i \in 1 .. n + 1 : i \in 1 .. n \/ i = n + 1
  BY <1>2
<1>4. n + 1 \in 1 .. n + 1 /\ 1 .. n \subseteq 1 .. n + 1
  BY <1>2
<1>5. Placed(r) = Placed(u) \cup {id}
  BY <1>2, <1>3, <1>4 DEF Placed, n
<1>6. id \in Open(u) /\ id \in u.visited /\ id \notin Placed(u)
  BY DEF Visited, Open
<1>7. Open(r) = Open(s)
  BY <1>1, <1>5 DEF Visited, Open
<1>8. Placed(r) \subseteq r.visited
  BY <1>1, <1>5, <1>6 DEF Visited, Sound
<1>9. ASSUME NEW i \in 1 .. n + 1, NEW j \in 1 .. n + 1, r.sorted[i] = r.sorted[j] PROVE i = j
  <2>1. \A m \in 1 .. n : r.sorted[m] # id
    BY <1>2, <1>6 DEF Placed, n
  <2>2. \A l, m \in 1 .. n : r.sorted[l] = r.sorted[m] => l = m
    BY <1>2 DEF Visited, Sound, n
  <2> QED
    BY <1>2, <1>3, <1>9, <2>1, <2>2
<1>10. ASSUME NEW i \in 1 .. n + 1, NEW k \in 1 .. Len(flow.edges),
              flow.edges[k].source = r.sorted[i], flow.edges[k].target \in Ids(flow)
       PROVE  \E j \in 1 .. n + 1 : j < i /\ r.sorted[j] = flow.edges[k].target
  <2>1. CASE i \in 1 .. n
    <3>1. flow.edges[k].source = u.sorted[i]
      BY <1>2, <1>10, <2>1
    <3>2. PICK j \in 1 .. n : j < i /\ u.sorted[j] = flow.edges[k].target
      BY <1>10, <2>1, <3>1 DEF Visited, Sound, n
    <3> QED
      BY <1>2, <1>4, <3>2
  <2>2. CASE i = n + 1
    <3>1. flow.edges[k].target \in Placed(u)
      BY <1>2, <1>10, <2>2 DEF Visited
    <3>2. PICK j \in 1 .. n : u.sorted[j] = flow.edges[k].target
      BY <3>1 DEF Placed, n
    <3>3. j \in 1 .. n + 1 /\ j < n + 1
      BY <1>2, <1>4
    <3> QED
      BY <1>2, <2>2, <3>2, <3>3
  <2> QED
    BY <1>3, <2>1, <2>2
<1>11. Sound(flow, r)
  BY <1>2, <1>8, <1>9, <1>10 DEF Sound
<1> QED
  BY <1>1, <1>5, <1>7, <1>11

LEMMA VisitSorts ==
    ASSUME NEW flow, IsFlow(flow), Acyclic(flow)
    PROVE  \A c \in Calls(flow, Ids(flow), Sorting(flow)) :
              Visitable(flow, c.depth, c.id, c.s) =>
                  Visited(flow, c.k, c.id, c.s, Visit(flow)[c])
<1> DEFINE S == Sorting(flow)
           C == Calls(flow, Ids(flow), S)
           visit == Visit(flow)
           T == {c \in C : Visitable(flow, c.depth, c.id, c.s) =>
                               Visited(flow, c.k, c.id, c.s, visit[c])}
<1>1. ASSUME NEW c \in C,
             c.k # 0 /\ c.depth # 0 =>
                 Before(c) \in T /\ \A id \in Ids(flow), s \in S : Below(flow, c, id, s) \in T,
             Visitable(flow, c.depth, c.id, c.s)
      PROVE  Visited(flow, c.k, c.id, c.s, visit[c])
  <2> DEFINE s == c.s
             id == c.id
             r == visit[c]
  <2> SUFFICES Visited(flow, c.k, id, s, r)
    OBVIOUS
  <2>0. /\ s \in S /\ id \in Ids(flow) /\ c.k \in 0 .. Len(flow.edges)
        /\ c.depth \in 0 .. Depth(flow) /\ IsFiniteSet(Ids(flow))
        /\ Depth(flow) \in Nat /\ Len(flow.edges) \in Nat /\ c.depth \in Nat
    <3>1. /\ s \in S /\ id \in Ids(flow) /\ c.k \in 0 .. Len(flow.edges)
          /\ c.depth \in 0 .. Depth(flow)
      BY CallType
    <3>2. IsFiniteSet(Ids(flow)) /\ Depth(flow) \in Nat /\ Len(flow.edges) \in Nat
      BY FlowType, FlowIsFinite
    <3> QED
      BY <3>1, <3>2
  <2>1. c.depth # 0
    BY <1>1, <2>0, LessIsLeft DEF Visitable
  <2>2. CASE c.k = 0
    <3>1. r = [s EXCEPT !.visited = @ \cup {id}]
      BY <2>2, VisitEquation DEF VisitValue
    <3>2. r.visited = s.visited \cup {id} /\ r.sorted = s.sorted
      BY <2>0, <3>1 DEF Sorting
    <3> HIDE DEF r, s, id
    <3>3. Placed(r) = Placed(s)
      BY <3>2 DEF Placed
    <3>4. id \notin s.visited /\ Sound(flow, s)
      BY <1>1 DEF Visitable, s, id
    <3>5. Open(r) = Open(s) \cup {id}
      BY <3>2, <3>3, <3>4 DEF Open, Sound
    <3>6. Sound(flow, r)
      BY <3>2, <3>3, <3>4 DEF Sound
    <3> QED
      BY <2>2, <3>2, <3>5, <3>6 DEF Visited
  <2>3. CASE c.k # 0
    <3> DEFINE t == visit[Before(c)]
               e == flow.edges[c.k]
               u == visit[Below(flow, c, e.target, t)]
    <3>0. c.k \in 1 .. Len(flow.edges)
      BY <2>0, <2>3
    <3>1. t \in S /\ Visited(flow, c.k - 1, id, s, t)
      <4>1. Before(c) \in T
        BY <1>1, <2>1, <2>3
      <4>2. /\ Before(c).k = c.k - 1 /\ Before(c).depth = c.depth
            /\ Before(c).id = c.id /\ Before(c).s = c.s
        BY <2>1, <2>3, CallType
      <4> QED
        BY <1>1, <4>1, <4>2, VisitEquation
    <3>2. r = VisitPass(flow, t, e, id, u)
      BY <2>1, <2>3, VisitEquation DEF VisitValue
    <3> HIDE DEF s, id, r, t
    <3>3. /\ s.visited \cup {id} \subseteq t.visited
          /\ Sound(flow, t)
          /\ Open(t) = Open(s) \cup {id}
          /\ \A i \in 1 .. c.k - 1 :
                flow.edges[i].source = id /\ flow.edges[i].target \in Ids(flow) =>
                    flow.edges[i].target \in Placed(t)
      BY <3>1 DEF Visited
    <3>4. Visitable(flow, c.depth, id, s)
      BY <1>1 DEF s, id
    <3>5. CASE e.source # id \/ e.target \notin Ids(flow) \ t.visited
      <4>1. r = t
        BY <3>2, <3>5 DEF VisitPass
      <4>2. ASSUME e.source = id, e.target \in Ids(flow) PROVE e.target \in Placed(t)
        <5>1. e.target \in t.visited /\ e.target \in Reached(flow, id)
          BY <3>0, <3>5, <4>2, ReachedStep
        <5>2. e.target # id
          BY <4>2, <5>1 DEF Acyclic
        <5> HIDE DEF e
        <5>3. ASSUME e.target \in Open(s) PROVE FALSE
          <6>1. id \in Reached(flow, e.target)
            BY <3>4, <5>3 DEF Visitable
          <6>2. e.target \in Reached(flow, e.target)
            BY <5>1, <6>1, ReachedIsTransitive
          <6> QED
            BY <4>2, <6>2 DEF Acyclic
        <5> QED
          BY <3>3, <5>1, <5>2, <5>3 DEF Open
      <4>3. \A i \in 1 .. c.k : i \in 1 .. c.k - 1 \/ i = c.k
        BY <3>0
      <4> QED
        BY <3>3, <4>1, <4>2, <4>3 DEF Visited
    <3>6. CASE ~(e.source # id \/ e.target \notin Ids(flow) \ t.visited)
      <4>1. r = Emit(t, u, e.target)
        BY <3>2, <3>6 DEF VisitPass
      <4>2. Visitable(flow, c.depth - 1, e.target, t)
        <5>1. Cardinality(Ids(flow) \ t.visited) <= c.depth - 1
          BY <2>0, <3>3, <3>4, LessIsLeft DEF Visitable, s, id
        <5>2. e.target \in Reached(flow, id)
          BY <3>0, <3>6, ReachedStep
        <5>3. \A x \in Open(t) : e.target \in Reached(flow, x)
          BY <3>3, <3>4, <5>2, ReachedIsTransitive DEF Visitable
        <5> QED
          BY <3>3, <3>6, <5>1, <5>3 DEF Visitable
      <4>3. u \in S /\ Visited(flow, Len(flow.edges), e.target, t, u)
        <5>1. Below(flow, c, e.target, t) \in T
          BY <1>1, <2>1, <2>3, <3>1, <3>6
        <5>2. LET b == Below(flow, c, e.target, t) IN
              b.k = Len(flow.edges) /\ b.depth = c.depth - 1 /\ b.id = e.target /\ b.s = t
          BY DEF Below
        <5> QED
          BY <4>2, <5>1, <5>2, VisitEquation
      <4> HIDE DEF u, e
      <4>4. /\ r.visited = u.visited /\ Open(r) = Open(t)
            /\ e.target \in Placed(r) /\ Sound(flow, r)
        BY <3>6, <4>1, <4>3, EmitIsSound
      <4>5. t.visited \subseteq u.visited
        BY <4>3 DEF Visited
      <4>6. Placed(t) \subseteq Placed(r)
        BY <3>3, <4>4, <4>5 DEF Sound, Open
      <4>7. \A i \in 1 .. c.k : i \in 1 .. c.k - 1 \/ flow.edges[i].target = e.target
        BY <3>0 DEF e
      <4>8. \A i \in 1 .. c.k : flow.edges[i].source = id /\ flow.edges[i].target \in Ids(flow) =>
               flow.edges[i].target \in Placed(r)
        BY <3>3, <4>4, <4>6, <4>7
      <4> QED
        BY <3>3, <4>4, <4>5, <4>8 DEF Visited
    <3> QED
      BY <3>5, <3>6
  <2> QED
    BY <2>2, <2>3
<1> HIDE DEF T
<1>2. \A c \in C : c \in T
  <2>1. ASSUME NEW c \in C,
               c.k # 0 /\ c.depth # 0 =>
                   Before(c) \in T /\ \A id \in Ids(flow), s \in S : Below(flow, c, id, s) \in T
        PROVE  c \in T
    BY <1>1, <2>1 DEF T
  <2> QED
    BY <2>1, CallInduction
<1> QED
  BY <1>2 DEF T

-----------------------------------------------------------------------------
(* topologicalSort.                                                         *)

SortStep(flow, i, s) ==
    IF flow.nodes[i].id \in s.visited THEN s
    ELSE Emit(s, Visit(flow)[FirstCall(flow, flow.nodes[i].id, s)], flow.nodes[i].id)

Unsorted == [visited |-> {}, sorted |-> <<>>]
SortLoop(flow, f) ==
    [i \in 0 .. Len(flow.nodes) |-> IF i = 0 THEN Unsorted ELSE SortStep(flow, i, f[i - 1])]

LEMMA SortStepType ==
    ASSUME NEW flow, IsFlow(flow), NEW i \in 1 .. Len(flow.nodes), NEW s \in Sorting(flow)
    PROVE  SortStep(flow, i, s) \in Sorting(flow)
<1> DEFINE id == flow.nodes[i].id
<1>1. id \in Ids(flow)
  BY FlowType
<1> HIDE DEF id
<1>2. Visit(flow)[FirstCall(flow, id, s)] \in Sorting(flow)
  BY <1>1, FirstCallType, VisitEquation
<1>3. Emit(s, Visit(flow)[FirstCall(flow, id, s)], id) \in Sorting(flow)
  BY <1>1, <1>2, EmitType
<1> QED
  BY <1>3 DEF SortStep, id

LEMMA UnsortedType ==
    ASSUME NEW flow
    PROVE  Unsorted \in Sorting(flow)
BY DEF Unsorted, Sorting

LEMMA SortLoopExists ==
    ASSUME NEW flow, IsFlow(flow)
    PROVE  \E f : f = SortLoop(flow, f)
<1> DEFINE S == Sorting(flow)
           N == Len(flow.nodes)
           G == [i \in 1 .. N |-> [s \in S |-> SortStep(flow, i, s)]]
<1>1. N \in Nat /\ Unsorted \in S
  BY FlowType, UnsortedType
<1>2. G \in [1 .. N -> [S -> S]]
  BY SortStepType
<1>3. \A i \in 1 .. N : \A s \in S : G[i][s] = SortStep(flow, i, s)
  OBVIOUS
<1> HIDE DEF G
<1>4. PICK f \in [0 .. N -> S] : IsLoop(f, N, Unsorted, G)
  BY <1>1, <1>2, LoopExists
<1>5. \A i \in 0 .. N : i # 0 => i \in 1 .. N /\ f[i - 1] \in S
  BY <1>1
<1>6. f = SortLoop(flow, f)
  BY <1>3, <1>4, <1>5 DEF IsLoop, SortLoop
<1> QED
  BY <1>6

\* What holds when the loop over the nodes has passed i of them.
Ordered(flow, i, s) ==
    /\ s \in Sorting(flow)
    /\ Acyclic(flow) =>
          /\ Sound(flow, s) /\ Open(s) = {}
          /\ \A j \in 1 .. i : flow.nodes[j].id \in s.visited

LEMMA SortStepOrders ==
    ASSUME NEW flow, IsFlow(flow), NEW i \in 1 .. Len(flow.nodes), NEW s,
           Ordered(flow, i - 1, s)
    PROVE  Ordered(flow, i, SortStep(flow, i, s))
<1> DEFINE id == flow.nodes[i].id
           r == SortStep(flow, i, s)
           u == Visit(flow)[FirstCall(flow, id, s)]
<1> SUFFICES Ordered(flow, i, r)
  OBVIOUS
<1>1. id \in Ids(flow) /\ s \in Sorting(flow) /\ r \in Sorting(flow)
  BY FlowType, SortStepType DEF Ordered
<1>2. \A j \in 1 .. i : j \in 1 .. i - 1 \/ j = i
  OBVIOUS
<1>3. CASE id \in s.visited
  <2>1. r = s
    BY <1>3 DEF SortStep
  <2> HIDE DEF r
  <2> QED
    BY <1>2, <1>3, <2>1 DEF Ordered
<1>4. CASE id \notin s.visited
  <2>1. r = Emit(s, u, id)
    BY <1>4 DEF SortStep
  <2> SUFFICES ASSUME Acyclic(flow)
               PROVE  /\ Sound(flow, r) /\ Open(r) = {}
                      /\ \A j \in 1 .. i : flow.nodes[j].id \in r.visited
    BY <1>1 DEF Ordered
  <2>2. Visitable(flow, Depth(flow), id, s)
    <3>1. /\ Ids(flow) \ s.visited \in SUBSET Ids(flow) /\ IsFiniteSet(Ids(flow))
          /\ Cardinality(Ids(flow)) <= Depth(flow) /\ Depth(flow) \in Nat
      BY FlowIsFinite
    <3>2. Cardinality(Ids(flow) \ s.visited) <= Cardinality(Ids(flow)) /\ IsFiniteSet(Ids(flow) \ s.visited)
      BY <3>1, FS_Subset
    <3>3. Cardinality(Ids(flow) \ s.visited) <= Depth(flow)
      BY <3>1, <3>2, FS_CardinalityType
    <3> QED
      BY <1>4, <3>3 DEF Ordered, Visitable
  <2>3. u \in Sorting(flow) /\ Visited(flow, Len(flow.edges), id, s, u)
    BY <1>1, <2>2, FirstCallType, VisitSorts, VisitEquation
  <2> HIDE DEF u, id, r
  <2>4. r.visited = u.visited /\ Open(r) = Open(s) /\ Sound(flow, r)
    BY <1>1, <1>4, <2>1, <2>3, EmitIsSound
  <2>5. s.visited \cup {id} \subseteq r.visited
    BY <2>3, <2>4 DEF Visited
  <2>6. \A j \in 1 .. i : flow.nodes[j].id \in r.visited
    BY <1>2, <2>5 DEF Ordered, id
  <2> QED
    BY <2>4, <2>6 DEF Ordered
<1> QED
  BY <1>3, <1>4

LEMMA SortLoopOrders ==
    ASSUME NEW flow, IsFlow(flow)
    PROVE  \E s : Ordered(flow, Len(flow.nodes), s) /\ TopologicalSort(flow) = Reverse(s.sorted)
<1> DEFINE N == Len(flow.nodes)
           Step(f) == SortLoop(flow, f)
           start == CHOOSE f : f = Step(f)
           T == {i \in Nat : i <= N => Ordered(flow, i, start[i])}
<1>0. N \in Nat
  BY FlowType
<1>1. \E f : f = Step(f)
  BY SortLoopExists
<1>2. TopologicalSort(flow) = Reverse(start[N].sorted)
  BY DEF TopologicalSort, SortLoop, SortStep, Unsorted
<1>3. start = Step(start)
  <2> HIDE DEF Step
  <2> QED
    BY <1>1
<1> HIDE DEF start
<1>4. \A i \in 0 .. N : start[i] = IF i = 0 THEN Unsorted ELSE SortStep(flow, i, start[i - 1])
  BY <1>3 DEF SortLoop
<1>5. ASSUME NEW i \in Nat, \A j \in Nat : j < i => j \in T, i <= N
      PROVE  Ordered(flow, i, start[i])
  <2>1. CASE i = 0
    <3>1. start[i] = Unsorted
      BY <1>0, <1>4, <2>1
    <3>2. Ordered(flow, 0, Unsorted)
      BY UnsortedType DEF Ordered, Unsorted, Sound, Open, Placed
    <3> QED
      BY <2>1, <3>1, <3>2
  <2>2. CASE i # 0
    <3>1. i - 1 \in T /\ i \in 1 .. N /\ i - 1 <= N
      BY <1>0, <1>5, <2>2
    <3>2. Ordered(flow, i - 1, start[i - 1])
      BY <3>1
    <3>3. start[i] = SortStep(flow, i, start[i - 1])
      BY <1>4, <3>1, <2>2
    <3> QED
      BY <3>1, <3>2, <3>3, SortStepOrders
  <2> QED
    BY <2>1, <2>2
<1>6. ASSUME NEW i \in Nat, \A j \in Nat : j < i => j \in T PROVE i \in T
  BY <1>5, <1>6
<1>7. \A i \in Nat : i \in T
  <2> HIDE DEF T
  <2> QED
    BY <1>6, Induction
<1>8. Ordered(flow, N, start[N])
  BY <1>0, <1>7
<1> QED
  BY <1>2, <1>8

LEMMA ReverseType ==
    ASSUME NEW T, NEW q \in Seq(T)
    PROVE  /\ Len(q) \in Nat /\ Reverse(q) \in Seq(T)
           /\ DOMAIN Reverse(q) = 1 .. Len(q)
           /\ \A i \in 1 .. Len(q) :
                 /\ Len(q) - i + 1 \in 1 .. Len(q)
                 /\ Reverse(q)[i] = q[Len(q) - i + 1]
                 /\ Reverse(q)[Len(q) - i + 1] = q[i]
<1>1. Len(q) \in Nat /\ \A i \in 1 .. Len(q) : q[i] \in T
  OBVIOUS
<1>2. \A i \in 1 .. Len(q) : Len(q) - i + 1 \in 1 .. Len(q) /\ Len(q) - (Len(q) - i + 1) + 1 = i
  BY <1>1
<1>3. Reverse(q) = [i \in 1 .. Len(q) |-> q[Len(q) - i + 1]]
  BY DEF Reverse
<1>4. Reverse(q) \in Seq(T)
  BY <1>1, <1>2, <1>3
<1> QED
  BY <1>1, <1>2, <1>3, <1>4

LEMMA TopologicalSortType ==
    ASSUME NEW flow, IsFlow(flow)
    PROVE  TopologicalSort(flow) \in Seq(Nat)
<1>1. PICK s : Ordered(flow, Len(flow.nodes), s) /\ TopologicalSort(flow) = Reverse(s.sorted)
  BY SortLoopOrders
<1>2. s.sorted \in Seq(Ids(flow))
  BY <1>1 DEF Ordered, Sorting
<1>3. Ids(flow) \subseteq Nat
  BY FlowType
<1>4. s.sorted \in Seq(Nat)
  BY <1>2, <1>3
<1> QED
  BY <1>1, <1>4, ReverseType

\* topologicalSort is right about every flow without a cycle.
LEMMA TopologicalSortIsRight ==
    ASSUME NEW flow, IsFlow(flow), Acyclic(flow)
    PROVE  LET order == TopologicalSort(flow) IN
           /\ \E n \in Nat : DOMAIN order = 1 .. n
           /\ {order[i] : i \in DOMAIN order} = Ids(flow)
           /\ \A i, j \in DOMAIN order : order[i] = order[j] => i = j
           /\ \A a, b \in Ids(flow) :
                 Edge(flow, a, b) =>
                     \E i, j \in DOMAIN order : i < j /\ order[i] = a /\ order[j] = b
<1> DEFINE order == TopologicalSort(flow)
<1>1. PICK s : Ordered(flow, Len(flow.nodes), s) /\ TopologicalSort(flow) = Reverse(s.sorted)
  BY SortLoopOrders
<1> DEFINE q == s.sorted
           n == Len(q)
<1>2. q \in Seq(Ids(flow))
  BY <1>1 DEF Ordered, Sorting
<1>3. /\ n \in Nat /\ DOMAIN order = 1 .. n
      /\ \A i \in 1 .. n : /\ n - i + 1 \in 1 .. n
                           /\ order[i] = q[n - i + 1]
                           /\ order[n - i + 1] = q[i]
  BY <1>1, <1>2, ReverseType
<1>4. Sound(flow, s) /\ Open(s) = {} /\ Ids(flow) \subseteq s.visited /\ s.visited \subseteq Ids(flow)
  BY <1>1, FlowType DEF Ordered, Sorting, Ids
<1>5. Placed(s) = Ids(flow)
  BY <1>4 DEF Sound, Open
<1> HIDE DEF order
<1>6. {order[i] : i \in DOMAIN order} = Ids(flow)
  <2>1. Placed(s) = {q[i] : i \in 1 .. n}
    BY DEF Placed
  <2> HIDE DEF q, n
  <2>2. ASSUME NEW i \in 1 .. n PROVE order[i] \in Ids(flow)
    BY <1>3, <1>5, <2>1
  <2>3. ASSUME NEW x \in Ids(flow) PROVE \E i \in 1 .. n : order[i] = x
    <3>1. PICK i \in 1 .. n : q[i] = x
      BY <1>5, <2>1
    <3> QED
      BY <1>3, <3>1
  <2> QED
    BY <1>3, <2>2, <2>3
<1>7. \A i, j \in 1 .. n : order[i] = order[j] => i = j
  <2> SUFFICES ASSUME NEW i \in 1 .. n, NEW j \in 1 .. n, order[i] = order[j] PROVE i = j
    OBVIOUS
  <2>1. \A l, m \in 1 .. n : q[l] = q[m] => l = m
    BY <1>4 DEF Sound
  <2> HIDE DEF q, n
  <2>2. n - i + 1 = n - j + 1
    BY <1>3, <2>1
  <2> QED
    BY <1>3, <2>2
<1>8. ASSUME NEW a \in Ids(flow), NEW b \in Ids(flow), Edge(flow, a, b)
      PROVE  \E i, j \in 1 .. n : i < j /\ order[i] = a /\ order[j] = b
  <2>1. PICK k \in 1 .. Len(flow.edges) : flow.edges[k].source = a /\ flow.edges[k].target = b
    BY <1>8, FlowType DEF Edge
  <2>2. PICK i \in 1 .. n : q[i] = a
    BY <1>5 DEF Placed
  <2>3. PICK j \in 1 .. n : j < i /\ q[j] = b
    BY <1>4, <2>1, <2>2 DEF Sound
  <2>4. n - i + 1 < n - j + 1
    BY <1>3, <2>3
  <2> QED
    BY <1>3, <2>2, <2>3, <2>4
<1> QED
  BY <1>3, <1>6, <1>7, <1>8 DEF order

-----------------------------------------------------------------------------
(* The compiler, of whatever is drawn.                                      *)

LEMMA AcceptedIsAcyclic ==
    ASSUME NEW flow, IsFlow(flow), Accepts(flow)
    PROVE  Acyclic(flow)
BY DetectCycleIsRight DEF Accepts, Cyclic, Acyclic

LEMMA CodeType ==
    ASSUME NEW flow, IsFlow(flow)
    PROVE  Code(flow) \in Seq(Nat)
BY TopologicalSortType DEF Code

\* A node that no trigger leads to would have a predecessor that no trigger leads to,
\* which stands before it in the order of the code.
LEMMA TriggersLeadEverywhere ==
    ASSUME NEW flow, IsFlow(flow), Accepts(flow), EdgesJoinNodes(flow)
    PROVE  Ids(flow) \subseteq UNION {Reached(flow, t) \cup {t} : t \in OfKind(flow, "trigger")}
<1> DEFINE Triggered == UNION {Reached(flow, t) \cup {t} : t \in OfKind(flow, "trigger")}
           order == TopologicalSort(flow)
           Bad == {i \in DOMAIN order : order[i] \notin Triggered}
<1>1. PICK n \in Nat : DOMAIN order = 1 .. n
  BY AcceptedIsAcyclic, TopologicalSortIsRight
<1>2. {order[i] : i \in DOMAIN order} = Ids(flow)
  BY AcceptedIsAcyclic, TopologicalSortIsRight
<1>3. \A i, j \in DOMAIN order : order[i] = order[j] => i = j
  BY AcceptedIsAcyclic, TopologicalSortIsRight
<1>4. \A a, b \in Ids(flow) :
         Edge(flow, a, b) => \E i, j \in DOMAIN order : i < j /\ order[i] = a /\ order[j] = b
  BY AcceptedIsAcyclic, TopologicalSortIsRight
<1> HIDE DEF order
<1>5. ASSUME NEW b \in Ids(flow), b \notin Triggered
      PROVE  \E a \in Ids(flow) : Edge(flow, a, b) /\ a \notin Triggered
  <2>1. PICK i \in DOMAIN flow.nodes : flow.nodes[i].id = b
    BY DEF Ids
  <2>2. flow.nodes[i].kind # "trigger"
    BY <1>5, <2>1 DEF OfKind
  <2>3. PICK j \in DOMAIN flow.edges : flow.edges[j].target = b
    BY <2>1, <2>2 DEF Accepts, Unconnected
  <2> DEFINE a == flow.edges[j].source
  <2>4. a \in Ids(flow) /\ Edge(flow, a, b)
    BY <2>3 DEF EdgesJoinNodes, Edge
  <2>5. ASSUME NEW t \in OfKind(flow, "trigger"), a \in Reached(flow, t) \cup {t}
        PROVE  b \in Reached(flow, t)
    BY <2>3, <2>5, FlowType, ReachedStep
  <2>6. a \notin Triggered
    BY <1>5, <2>5
  <2> QED
    BY <2>4, <2>6
<1> HIDE DEF Triggered
<1>6. Bad = {}
  <2> SUFFICES ASSUME Bad # {} PROVE FALSE
    OBVIOUS
  <2>1. Bad \subseteq Nat
    BY <1>1
  <2>2. PICK i \in Bad : \A j \in Bad : i <= j
    BY <2>1, Least
  <2>3. PICK a \in Ids(flow) : Edge(flow, a, order[i]) /\ a \notin Triggered
    BY <1>2, <1>5
  <2>4. PICK j, k \in DOMAIN order : j < k /\ order[j] = a /\ order[k] = order[i]
    BY <1>2, <1>4, <2>3
  <2>5. k = i /\ j \in Bad
    BY <1>3, <2>3, <2>4
  <2> QED
    BY <1>1, <2>2, <2>4, <2>5
<1> QED
  BY <1>2, <1>6 DEF Triggered

\* The canvas holds a flow: what is drawn on it, or nothing.
LEMMA CanvasHoldsFlow == Spec => []IsFlow(canvas)
<1>1. Init => IsFlow(canvas)
  BY DEF Init, NoFlow, IsFlow
<1>2. IsFlow(canvas) /\ [Next]_vars => IsFlow(canvas)'
  <2> SUFFICES ASSUME IsFlow(canvas), [Next]_vars PROVE IsFlow(canvas')
    BY DEF IsFlow
  <2>1. Draw => canvas' \in Drawings
    BY DEF Draw
  <2>2. \A a \in Agents : Delete(a) => UNCHANGED canvas
    BY DEF Delete
  <2>3. \A a \in Agents, u \in Users : Create(a, u) => UNCHANGED canvas
    BY DEF Create
  <2>4. \A r \in Requests : \A what : Begin(r, what) => UNCHANGED canvas
    BY DEF Begin
  <2>5. \A r \in Requests, a \in Agents, u \in Users :
           /\ \A flow \in Saved : BeginUpdate(r, a, u, flow) => UNCHANGED canvas
           /\ \A v \in versions : BeginRollback(r, a, u, v) => UNCHANGED canvas
           /\ BeginRename(r, a, u) => UNCHANGED canvas
           /\ CommitClone(r, a, u) => UNCHANGED canvas
    BY <2>4 DEF BeginUpdate, BeginRollback, BeginRename, BeginWrite, CommitClone
  <2>6. \A r \in Requests, a \in Agents :
           /\ \A v \in versions : BeginPublish(r, a, v) => UNCHANGED canvas
           /\ BeginClone(r, a) => UNCHANGED canvas
    BY <2>4 DEF BeginPublish, BeginClone
  <2>7. \A r \in Requests : CommitWrite(r) \/ CommitPublish(r) => UNCHANGED canvas
    BY DEF CommitWrite, CommitPublish
  <2>8. UNCHANGED vars => UNCHANGED canvas
    BY DEF vars
  <2>9. canvas' = canvas \/ canvas' \in Drawings
    BY <2>1, <2>2, <2>3, <2>5, <2>6, <2>7, <2>8 DEF Next
  <2> QED
    BY <2>9, DrawingsAssumption
<1> QED
  BY <1>1, <1>2, PTL DEF Spec

\* detectCycle finds a cycle exactly when a node of the flow leads to one, for every
\* drawing: although it marks nodes visited across its searches, the order of the
\* nodes and edges is irrelevant, and edges may name nodes that do not exist.
THEOREM CyclesAreAlwaysFound == Spec => []CyclesAreFound
<1>1. IsFlow(canvas) => CyclesAreFound
  BY DetectCycleIsRight DEF CyclesAreFound, Cyclic
<1> QED
  BY <1>1, CanvasHoldsFlow, PTL

\* The code of an accepted drawing has every node once, after everything that leads
\* to it.
THEOREM CodeAlwaysFollowsEdges == Spec => []CodeFollowsEdges
<1>1. IsFlow(canvas) => CodeFollowsEdges
  BY AcceptedIsAcyclic, TopologicalSortIsRight DEF CodeFollowsEdges
<1> QED
  BY <1>1, CanvasHoldsFlow, PTL

\* Every node of an accepted drawing is led to by a trigger.
THEOREM EverythingIsAlwaysTriggered == Spec => []EverythingIsTriggered
<1>1. IsFlow(canvas) => EverythingIsTriggered
  BY TriggersLeadEverywhere DEF EverythingIsTriggered
<1> QED
  BY <1>1, CanvasHoldsFlow, PTL

-----------------------------------------------------------------------------
(* The rows and the requests.                                               *)

Fitting == {f \in Saved : Len(f.nodes) <= MaxNodes}
Row == [version : Nat \ {0}, flow : Fitting, code : Seq(Nat), creator : Users,
        published : BOOLEAN]
Version == [agent : Agents, version : Nat, flow : Fitting, code : Seq(Nat)]
Write == [at : {"update"}, agent : Agents, version : Nat \ {0}, flow : Fitting,
          code : Seq(Nat), renew : BOOLEAN]
Copy == [at : {"clone"}, agent : Agents, flow : Fitting, code : Seq(Nat), disturbed : BOOLEAN]
Publication == [at : {"publish"}, agent : Agents, version : Nat, flow : Fitting]
Request == [at : {"new", "done"}] \cup Write \cup Copy \cup Publication

Types ==
    /\ agent \in [Agents -> {NoAgent} \cup Row]
    /\ versions \subseteq Version
    /\ request \in [Requests -> Request]
    /\ disturbed \subseteq Agents

LEMMA FittingCode == \A flow \in Fitting : Code(flow) \in Seq(Nat)
BY SavedAssumption, DrawingsAssumption, CodeType DEF Fitting

LEMMA RowType ==
    ASSUME Types, NEW a \in Agents
    PROVE  /\ Exists(a) => agent[a] \in Row
           /\ ~Exists(a) => agent[a] = NoAgent
           /\ agent[a].version \in Nat
           /\ Exists(a) <=> agent[a].version # 0
BY DEF Types, Exists, Row, NoAgent

LEMMA RequestType ==
    ASSUME Types, NEW r \in Requests
    PROVE  /\ request[r].at = "update" => request[r] \in Write
           /\ request[r].at = "clone" => request[r] \in Copy
           /\ request[r].at = "publish" => request[r] \in Publication
           /\ request[r].at \in {"new", "done", "update", "clone", "publish"}
BY DEF Types, Request, Write, Copy, Publication

LEMMA TypesInit == Init => Types
BY DEF Init, Types, Request

LEMMA InsertType ==
    ASSUME Types, NEW a \in Agents, NEW u \in Users, NEW flow \in Fitting, NEW code \in Seq(Nat),
           Insert(a, u, flow, code)
    PROVE  /\ agent' \in [Agents -> {NoAgent} \cup Row]
           /\ versions' \subseteq Version
<1>1. [version |-> 1, flow |-> flow, code |-> code, creator |-> u, published |-> FALSE] \in Row
  BY DEF Row
<1>2. [agent |-> a, version |-> 1, flow |-> flow, code |-> code] \in Version
  BY DEF Version
<1> QED
  BY <1>1, <1>2 DEF Insert, Types

LEMMA BeginType ==
    ASSUME Types, NEW r \in Requests, NEW what \in Request, what.agent \in Agents,
           Begin(r, what)
    PROVE  Types'
<1>1. request' \in [Requests -> Request]
  BY DEF Begin, Types
<1>2. disturbed' \subseteq Agents
  BY DEF Begin, Types
<1> QED
  BY <1>1, <1>2 DEF Begin, Types

LEMMA BeginWriteType ==
    ASSUME Types, NEW r \in Requests, NEW a \in Agents, NEW u, NEW flow \in Fitting,
           NEW code \in Seq(Nat), NEW renew \in BOOLEAN, BeginWrite(r, a, u, flow, code, renew)
    PROVE  Types'
<1> DEFINE what == [at |-> "update", agent |-> a, version |-> agent[a].version + 1,
                    flow |-> flow, code |-> code, renew |-> renew]
<1>1. what \in Request
  BY RowType DEF Request, Write
<1>2. Begin(r, what) /\ what.agent = a
  BY DEF BeginWrite
<1> HIDE DEF what
<1> QED
  BY <1>1, <1>2, BeginType

LEMMA TypesStep == Types /\ [Next]_vars => Types'
<1> SUFFICES ASSUME Types, [Next]_vars PROVE Types'
  OBVIOUS
<1>1. ASSUME Draw PROVE Types'
  BY <1>1 DEF Draw, Types
<1>2. ASSUME NEW a \in Agents, Delete(a) PROVE Types'
  BY <1>2 DEF Delete, Removed, Types
<1>3. ASSUME NEW a \in Agents, NEW u \in Users, Create(a, u) PROVE Types'
  <2>1. canvas \in Fitting /\ Insert(a, u, canvas, Code(canvas))
        /\ UNCHANGED <<request, disturbed>>
    BY <1>3 DEF Create, Fits, Fitting
  <2>2. Code(canvas) \in Seq(Nat)
    BY <2>1, FittingCode
  <2> QED
    BY <2>1, <2>2, InsertType DEF Types
<1>4. ASSUME NEW r \in Requests, NEW a \in Agents, NEW u \in Users, NEW flow \in Saved,
             BeginUpdate(r, a, u, flow)
      PROVE  Types'
  <2>1. flow \in Fitting /\ BeginWrite(r, a, u, flow, Code(flow), TRUE)
    BY <1>4 DEF BeginUpdate, Fits, Fitting
  <2> QED
    BY <2>1, FittingCode, BeginWriteType
<1>5. ASSUME NEW r \in Requests, NEW a \in Agents, NEW u \in Users, NEW v \in versions,
             BeginRollback(r, a, u, v)
      PROVE  Types'
  <2>1. v.flow \in Fitting /\ v.code \in Seq(Nat)
    BY DEF Types, Version
  <2> QED
    BY <1>5, <2>1, BeginWriteType DEF BeginRollback
<1>6. ASSUME NEW r \in Requests, NEW a \in Agents, NEW u \in Users, BeginRename(r, a, u)
      PROVE  Types'
  <2>1. agent[a].flow \in Fitting /\ agent[a].code \in Seq(Nat)
    BY <1>6, RowType DEF BeginRename, Row
  <2> QED
    BY <1>6, <2>1, BeginWriteType DEF BeginRename
<1>7. ASSUME NEW r \in Requests, NEW a \in Agents, NEW u \in Users, CommitClone(r, a, u)
      PROVE  Types'
  <2>1. request[r].flow \in Fitting /\ request[r].code \in Seq(Nat)
    BY <1>7, RequestType DEF CommitClone, Copy
  <2>2. Insert(a, u, request[r].flow, request[r].code)
    BY <1>7 DEF CommitClone
  <2>3. agent' \in [Agents -> {NoAgent} \cup Row] /\ versions' \subseteq Version
    BY <2>1, <2>2, InsertType
  <2>4. request' \in [Requests -> Request] /\ disturbed' \subseteq Agents
    BY <1>7 DEF CommitClone, Types, Request
  <2> QED
    BY <2>3, <2>4 DEF Types
<1>8. ASSUME NEW r \in Requests, NEW a \in Agents, NEW v \in versions, BeginPublish(r, a, v)
      PROVE  Types'
  <2> DEFINE what == [at |-> "publish", agent |-> a, version |-> v.version, flow |-> v.flow]
  <2>1. v \in Version
    BY DEF Types
  <2>2. what \in Request /\ what.agent = a /\ Begin(r, what)
    BY <1>8, <2>1 DEF BeginPublish, Request, Publication, Version
  <2> HIDE DEF what
  <2> QED
    BY <2>2, BeginType
<1>9. ASSUME NEW r \in Requests, NEW a \in Agents, BeginClone(r, a) PROVE Types'
  <2> DEFINE what == [at |-> "clone", agent |-> a, flow |-> agent[a].flow, code |-> agent[a].code,
                      disturbed |-> a \in disturbed]
  <2>1. agent[a].flow \in Fitting /\ agent[a].code \in Seq(Nat)
    BY <1>9, RowType DEF BeginClone, Row
  <2>2. \E b \in BOOLEAN : (a \in disturbed) = b
    <3>1. CASE a \in disturbed
      <4>1. (a \in disturbed) = TRUE
        BY <3>1
      <4> QED
        BY <4>1
    <3>2. CASE a \notin disturbed
      <4>1. (a \in disturbed) = FALSE
        BY <3>2, SMT
      <4> QED
        BY <4>1
    <3> QED
      BY <3>1, <3>2
  <2>3. what \in Copy
    <3>1. PICK b \in BOOLEAN : (a \in disturbed) = b
      BY <2>2
    <3>2. what = [at |-> "clone", agent |-> a, flow |-> agent[a].flow, code |-> agent[a].code,
                  disturbed |-> b]
      BY <3>1
    <3> HIDE DEF what
    <3> QED
      BY <2>1, <3>2 DEF Copy
  <2>4. what \in Request /\ what.agent = a /\ Begin(r, what)
    BY <1>9, <2>3 DEF BeginClone, Request
  <2> HIDE DEF what
  <2> QED
    BY <2>4, BeginType
<1>10. ASSUME NEW r \in Requests, CommitWrite(r) PROVE Types'
  <2> DEFINE m == request[r]
  <2>1. m \in Write /\ m.agent \in Agents
    BY <1>10, RequestType DEF CommitWrite, Write
  <2>2. request' \in [Requests -> Request] /\ UNCHANGED disturbed
    BY <1>10 DEF CommitWrite, Types, Request
  <2>3. CASE Exists(m.agent)
    <3>1. agent[m.agent] \in Row
      BY <2>1, <2>3, RowType
    <3>2. agent' = [agent EXCEPT ![m.agent] = Renewed(agent[m.agent], m)]
          /\ versions' = versions \cup {[agent |-> m.agent, version |-> m.version,
                                         flow |-> m.flow, code |-> m.code]}
      BY <1>10, <2>3 DEF CommitWrite
    <3>3. Renewed(agent[m.agent], m) \in Row
      <4> HIDE DEF m
      <4>1. m.version \in Nat \ {0} /\ m.flow \in Fitting /\ m.code \in Seq(Nat)
        BY <2>1 DEF Write
      <4> QED
        BY <3>1, <4>1 DEF Renewed, Row
    <3>4. [agent |-> m.agent, version |-> m.version, flow |-> m.flow, code |-> m.code] \in Version
      BY <2>1 DEF Write, Version
    <3> HIDE DEF m
    <3> QED
      BY <2>1, <2>2, <3>2, <3>3, <3>4 DEF Types
  <2>4. CASE ~Exists(m.agent)
    BY <1>10, <2>2, <2>4 DEF CommitWrite, Types
  <2> QED
    BY <2>3, <2>4
<1>11. ASSUME NEW r \in Requests, CommitPublish(r) PROVE Types'
  <2> DEFINE m == request[r]
  <2>1. m \in Publication /\ m.agent \in Agents /\ m.flow \in Fitting
    BY <1>11, RequestType DEF CommitPublish, Publication
  <2>2. request' \in [Requests -> Request]
    BY <1>11 DEF CommitPublish, Types, Request
  <2>3. disturbed' \subseteq Agents /\ UNCHANGED versions
    BY <1>11, <2>1 DEF CommitPublish, Types
  <2>4. agent' \in [Agents -> {NoAgent} \cup Row]
    <3>1. CASE Exists(m.agent)
      <4>1. agent' = [agent EXCEPT ![m.agent].published = TRUE, ![m.agent].code = Code(m.flow)]
        BY <1>11, <3>1 DEF CommitPublish
      <4> HIDE DEF m
      <4>2. agent[m.agent] \in Row /\ Code(m.flow) \in Seq(Nat)
        BY <2>1, <3>1, RowType, FittingCode
      <4>3. [agent[m.agent] EXCEPT !.published = TRUE, !.code = Code(m.flow)] \in Row
        BY <4>2 DEF Row
      <4>4. agent' = [agent EXCEPT ![m.agent] =
                         [agent[m.agent] EXCEPT !.published = TRUE, !.code = Code(m.flow)]]
        BY <2>1, <4>1 DEF Types
      <4> QED
        BY <2>1, <4>3, <4>4 DEF Types
    <3>2. CASE ~Exists(m.agent)
      BY <1>11, <3>2 DEF CommitPublish, Types
    <3> QED
      BY <3>1, <3>2
  <2> QED
    BY <2>2, <2>3, <2>4 DEF Types
<1>12. ASSUME UNCHANGED vars PROVE Types'
  BY <1>12 DEF vars, Types
<1> QED
  BY <1>1, <1>2, <1>3, <1>4, <1>5, <1>6, <1>7, <1>8, <1>9, <1>10, <1>11, <1>12 DEF Next

\* Types, and no agent or version holds a flow that is too large, whatever was drawn,
\* cloned or rolled back to.
THEOREM AgentTypesHold == Spec => []TypeOK
<1>1. Types => TypeOK
  <2> SUFFICES ASSUME Types PROVE TypeOK
    OBVIOUS
  <2>1. ASSUME NEW a \in Agents, Exists(a)
        PROVE  /\ agent[a].version \in Nat /\ agent[a].flow \in Fitting
               /\ agent[a].code \in Seq(Nat) /\ agent[a].creator \in Users
               /\ agent[a].published \in BOOLEAN
    BY <2>1, RowType DEF Row
  <2>2. ASSUME NEW v \in versions
        PROVE  /\ v.version \in Nat /\ v.flow \in Fitting /\ v.code \in Seq(Nat)
               /\ v.agent \in Agents
    BY DEF Types, Version
  <2>3. disturbed \subseteq Agents
    BY DEF Types
  <2> QED
    BY <2>1, <2>2, <2>3 DEF TypeOK, Fitting
<1> QED
  BY <1>1, TypesInit, TypesStep, PTL DEF Spec

-----------------------------------------------------------------------------
(* The versions of an agent: what HistoryIsFaithful says, and of a request  *)
(* that is under way, that it will keep it so.                              *)

Faithful(a) ==
    /\ {v.version : v \in VersionsOf(a)} = 1 .. agent[a].version
    /\ \A v \in VersionsOf(a) :
          /\ v.code = Code(v.flow)
          /\ \A w \in VersionsOf(a) : v.version = w.version => v = w
          /\ v.version = agent[a].version => v.flow = agent[a].flow /\ v.code = agent[a].code

\* An update writes the next version, with the code of its flow; a rename writes
\* the content the agent has.
WritesNext(a, m) ==
    /\ m.version = agent[a].version + 1
    /\ m.code = Code(m.flow)
    /\ ~m.renew => m.flow = agent[a].flow /\ m.code = agent[a].code

Concerns(r, a) == request[r].at \in {"update", "publish"} /\ request[r].agent = a

Pending(a) ==
    /\ \A r \in Updating(a) : WritesNext(a, request[r])
    /\ \A r, q \in Updating(a) : r = q
    /\ \A r \in Requests :
          request[r].at = "publish" /\ request[r].agent = a =>
              \E v \in VersionsOf(a) : v.version = request[r].version /\ v.flow = request[r].flow

Settled(a) == Faithful(a) /\ (Exists(a) => Pending(a))

Copies ==
    \A r \in Requests :
        request[r].at = "clone" /\ ~request[r].disturbed => request[r].code = Code(request[r].flow)

History == (\A a \in Agents \ disturbed : Settled(a)) /\ Copies

LEMMA Untouched ==
    ASSUME NEW a \in Agents, Settled(a),
           agent'[a].version = agent[a].version, agent'[a].flow = agent[a].flow,
           agent'[a].code = agent[a].code, Exists(a)' => Exists(a),
           VersionsOf(a)' = VersionsOf(a),
           \A r \in Requests : Concerns(r, a)' => request'[r] = request[r]
    PROVE  Settled(a)'
<1>1. Faithful(a)'
  BY DEF Settled, Faithful
<1>2. ASSUME Exists(a)' PROVE Pending(a)'
  <2>1. Pending(a)
    BY <1>2 DEF Settled
  <2>2. ASSUME NEW r \in Updating(a)' PROVE r \in Updating(a) /\ request'[r] = request[r]
    BY DEF Updating, Concerns
  <2>3. ASSUME NEW r \in Requests, request'[r].at = "publish", request'[r].agent = a
        PROVE  request'[r] = request[r]
    BY <2>3 DEF Concerns
  <2>4. \A r \in Updating(a)' : WritesNext(a, request[r])'
    BY <2>1, <2>2 DEF Pending, WritesNext
  <2>5. \A r, q \in Updating(a)' : r = q
    BY <2>1, <2>2 DEF Pending
  <2>6. ASSUME NEW r \in Requests, request'[r].at = "publish", request'[r].agent = a
        PROVE  \E v \in VersionsOf(a)' : v.version = request'[r].version
                                         /\ v.flow = request'[r].flow
    <3>1. request'[r] = request[r]
      BY <2>3, <2>6
    <3>2. \E v \in VersionsOf(a) : v.version = request[r].version /\ v.flow = request[r].flow
      BY <2>1, <2>6, <3>1 DEF Pending
    <3> QED
      BY <3>1, <3>2
  <2> QED
    BY <2>4, <2>5, <2>6 DEF Pending
<1> QED
  BY <1>1, <1>2 DEF Settled

\* A step that leaves the rows alone leaves an agent settled, when it starts no
\* request that concerns it.
LEMMA UntouchedByRequests ==
    ASSUME NEW a \in Agents, Settled(a), UNCHANGED <<agent, versions>>,
           \A r \in Requests : Concerns(r, a)' => request'[r] = request[r]
    PROVE  Settled(a)'
<1>1. VersionsOf(a)' = VersionsOf(a) /\ (Exists(a)' <=> Exists(a))
  BY DEF VersionsOf, Exists
<1> QED
  BY <1>1, Untouched

LEMMA InsertIsFaithful ==
    ASSUME Types, NEW a \in Agents, NEW u, NEW flow, NEW code, Insert(a, u, flow, code),
           \A r \in Requests : Concerns(r, a)' => request'[r] = request[r],
           Settled(a), code = Code(flow)
    PROVE  Settled(a)'
<1> DEFINE first == [agent |-> a, version |-> 1, flow |-> flow, code |-> code]
<1>1. agent[a].version = 0
  BY RowType DEF Insert
<1>2. VersionsOf(a) = {}
  <2>1. \A v \in VersionsOf(a) : v.version \in 1 .. 0
    BY <1>1 DEF Settled, Faithful
  <2> QED
    BY <2>1
<1>3. VersionsOf(a)' = {first}
  BY <1>2 DEF Insert, VersionsOf
<1>4. agent'[a].version = 1 /\ agent'[a].flow = flow /\ agent'[a].code = code
  BY DEF Insert, Types
<1>5. first.version = 1 /\ first.flow = flow /\ first.code = code
  OBVIOUS
<1> HIDE DEF first
<1>6. {v.version : v \in VersionsOf(a)'} = 1 .. agent'[a].version
  <2>1. {v.version : v \in VersionsOf(a)'} = {1}
    BY <1>3, <1>5
  <2>2. 1 .. agent'[a].version = {1}
    BY <1>4
  <2> QED
    BY <2>1, <2>2
<1>7. Faithful(a)'
  BY <1>3, <1>4, <1>5, <1>6 DEF Faithful
<1>8. \A r \in Requests : ~Concerns(r, a)'
  <2>1. ASSUME NEW r \in Requests, Concerns(r, a)' PROVE FALSE
    <3>1. request'[r] = request[r]
      BY <2>1
    <3>2. Active(r) /\ request[r].agent = a
      BY <2>1, <3>1 DEF Concerns, Active
    <3> QED
      BY <3>2 DEF Insert
  <2> QED
    BY <2>1
<1>9. Pending(a)'
  <2>1. Updating(a)' = {}
    BY <1>8 DEF Updating, Concerns
  <2>2. \A r \in Requests : ~(request'[r].at = "publish" /\ request'[r].agent = a)
    BY <1>8 DEF Concerns
  <2> QED
    BY <2>1, <2>2 DEF Pending
<1> QED
  BY <1>7, <1>9 DEF Settled

\* An insertion touches no other agent.
LEMMA InsertElsewhere ==
    ASSUME Types, NEW b \in Agents, NEW u, NEW flow, NEW code, Insert(b, u, flow, code),
           NEW a \in Agents, a # b, Settled(a),
           \A r \in Requests : Concerns(r, a)' => request'[r] = request[r]
    PROVE  Settled(a)'
<1>1. agent'[a] = agent[a] /\ (Exists(a)' => Exists(a))
  BY DEF Insert, Types, Exists
<1>2. VersionsOf(a)' = VersionsOf(a)
  BY DEF Insert, VersionsOf
<1> QED
  BY <1>1, <1>2, Untouched

\* The code of an agent that exists is that of its flow.
LEMMA SettledAgent ==
    ASSUME Types, NEW a \in Agents, Exists(a), Faithful(a)
    PROVE  agent[a].code = Code(agent[a].flow)
<1>1. agent[a].version \in Nat /\ agent[a].version # 0
  BY RowType
<1>2. agent[a].version \in {v.version : v \in VersionsOf(a)}
  BY <1>1 DEF Faithful
<1>3. PICK v \in VersionsOf(a) : v.version = agent[a].version
  BY <1>2
<1> QED
  BY <1>3 DEF Faithful

\* A version the agent has is not pending; so a second write is a disturbance, and
\* a first one writes the next version.
LEMMA BeginIsSettled ==
    ASSUME Types, NEW a \in Agents, a \notin disturbed', Settled(a), Exists(a),
           NEW r \in Requests, NEW what, Begin(r, what), what.agent = a,
           what.at = "update" => WritesNext(a, what),
           what.at = "publish" =>
              \E v \in VersionsOf(a) : v.version = what.version /\ v.flow = what.flow
    PROVE  Settled(a)'
<1>1. UNCHANGED <<agent, versions>> /\ request' = [request EXCEPT ![r] = what]
  BY DEF Begin
<1>2. request'[r] = what /\ \A q \in Requests \ {r} : request'[q] = request[q]
  BY <1>1 DEF Types
<1>3. VersionsOf(a)' = VersionsOf(a)
  BY <1>1 DEF VersionsOf
<1>4. Faithful(a)'
  BY <1>1, <1>3 DEF Settled, Faithful
<1>5. Pending(a)
  BY DEF Settled
<1>6. \A q \in Updating(a)' : WritesNext(a, request[q])'
  <2> SUFFICES ASSUME NEW q \in Updating(a)' PROVE WritesNext(a, request[q])'
    OBVIOUS
  <2>1. CASE q = r
    BY <1>1, <1>2, <2>1 DEF Updating, WritesNext
  <2>2. CASE q # r
    <3>1. q \in Updating(a) /\ request'[q] = request[q]
      BY <1>2, <2>2 DEF Updating
    <3> QED
      BY <1>1, <1>5, <3>1 DEF Pending, WritesNext
  <2> QED
    BY <2>1, <2>2
<1>7. \A p, q \in Updating(a)' : p = q
  <2>1. CASE what.at = "update"
    <3>1. Updating(a) = {}
      BY <2>1 DEF Begin
    <3> QED
      BY <1>2, <3>1 DEF Updating
  <2>2. CASE what.at # "update"
    <3>1. \A q \in Updating(a)' : q \in Updating(a)
      BY <1>2, <2>2 DEF Updating
    <3> QED
      BY <1>5, <3>1 DEF Pending
  <2> QED
    BY <2>1, <2>2
<1>8. ASSUME NEW q \in Requests, request'[q].at = "publish", request'[q].agent = a
      PROVE  \E v \in VersionsOf(a)' : v.version = request'[q].version
                                       /\ v.flow = request'[q].flow
  <2>1. CASE q = r
    BY <1>2, <1>3, <1>8, <2>1
  <2>2. CASE q # r
    <3>1. request'[q] = request[q]
      BY <1>2, <2>2
    <3> QED
      BY <1>3, <1>5, <1>8, <3>1 DEF Pending
  <2> QED
    BY <2>1, <2>2
<1>9. Pending(a)'
  BY <1>6, <1>7, <1>8 DEF Pending
<1> QED
  BY <1>4, <1>9 DEF Settled

LEMMA BeginKeepsHistory ==
    ASSUME Types, Types', History, NEW r \in Requests, NEW a \in Agents, Exists(a),
           NEW what \in Request, Begin(r, what), what.agent = a,
           a \notin disturbed =>
              /\ what.at = "update" => WritesNext(a, what)
              /\ what.at = "publish" =>
                    \E v \in VersionsOf(a) : v.version = what.version /\ v.flow = what.flow,
           what.at = "clone" => (~what.disturbed => what.code = Code(what.flow))
    PROVE  History'
<1>1. request'[r] = what /\ \A q \in Requests \ {r} : request'[q] = request[q]
  BY DEF Begin, Types
<1>2. disturbed \subseteq disturbed' /\ UNCHANGED <<agent, versions>>
  BY DEF Begin
<1>3. ASSUME NEW b \in Agents \ disturbed' PROVE Settled(b)'
  <2>1. Settled(b) /\ b \notin disturbed
    BY <1>2 DEF History
  <2>2. CASE b = a
    BY <2>1, <2>2, BeginIsSettled
  <2>3. CASE b # a
    <3>1. \A q \in Requests : Concerns(q, b)' => request'[q] = request[q]
      BY <1>1, <2>3 DEF Concerns
    <3> QED
      BY <1>2, <2>1, <3>1, UntouchedByRequests
  <2> QED
    BY <2>2, <2>3
<1>4. Copies'
  <2> SUFFICES ASSUME NEW q \in Requests, request'[q].at = "clone", ~request'[q].disturbed
               PROVE  request'[q].code = Code(request'[q].flow)
    BY DEF Copies
  <2>1. CASE q = r
    BY <1>1, <2>1
  <2>2. CASE q # r
    <3>1. request'[q] = request[q]
      BY <1>1, <2>2
    <3> QED
      BY <3>1 DEF History, Copies
  <2> QED
    BY <2>1, <2>2
<1> QED
  BY <1>3, <1>4 DEF History

LEMMA BeginWriteKeepsHistory ==
    ASSUME Types, Types', History, NEW r \in Requests, NEW a \in Agents, Exists(a), NEW u,
           NEW flow \in Fitting, NEW code \in Seq(Nat), NEW renew \in BOOLEAN,
           BeginWrite(r, a, u, flow, code, renew),
           a \notin disturbed => code = Code(flow),
           ~renew => flow = agent[a].flow /\ code = agent[a].code
    PROVE  History'
<1> DEFINE what == [at |-> "update", agent |-> a, version |-> agent[a].version + 1,
                    flow |-> flow, code |-> code, renew |-> renew]
<1>1. what \in Request
  BY RowType DEF Request, Write
<1>2. Begin(r, what) /\ what.agent = a /\ what.at = "update"
  BY DEF BeginWrite
<1>3. a \notin disturbed => WritesNext(a, what)
  BY DEF WritesNext
<1> HIDE DEF what
<1> QED
  BY <1>1, <1>2, <1>3, BeginKeepsHistory

LEMMA CommitWriteKeepsHistory ==
    ASSUME Types, Types', History, NEW r \in Requests, CommitWrite(r)
    PROVE  History'
<1>0. PICK m \in Write : m = request[r]
  BY RequestType DEF CommitWrite
<1> DEFINE new == [agent |-> m.agent, version |-> m.version, flow |-> m.flow, code |-> m.code]
<1>1. m.agent \in Agents /\ m.at = "update"
  BY <1>0 DEF Write
<1>2. request'[r].at = "done" /\ \A q \in Requests \ {r} : request'[q] = request[q]
  BY DEF CommitWrite, Types
<1>3. UNCHANGED disturbed
  BY DEF CommitWrite
<1>4. Copies'
  BY <1>2 DEF History, Copies
<1>5. \A b \in Agents, q \in Requests : Concerns(q, b)' => request'[q] = request[q]
  BY <1>2 DEF Concerns
<1>6. CASE ~Exists(m.agent)
  <2>1. UNCHANGED <<agent, versions>>
    BY <1>0, <1>6 DEF CommitWrite
  <2>2. \A b \in Agents \ disturbed' : Settled(b)'
    BY <1>3, <1>5, <2>1, UntouchedByRequests DEF History
  <2> QED
    BY <1>4, <2>2 DEF History
<1>7. CASE Exists(m.agent)
  <2>1. agent' = [agent EXCEPT ![m.agent] = Renewed(agent[m.agent], m)]
        /\ versions' = versions \cup {new}
    BY <1>0, <1>7 DEF CommitWrite
  <2>2. new.agent = m.agent /\ new.version = m.version /\ new.flow = m.flow /\ new.code = m.code
    OBVIOUS
  <2>3. agent[m.agent] \in Row
    BY <1>1, <1>7, RowType
  <2>4. r \in Updating(m.agent)
    BY <1>0, <1>1 DEF Updating
  <2>5. ASSUME NEW b \in Agents \ disturbed', b # m.agent PROVE Settled(b)'
    <3> HIDE DEF new
    <3>1. Settled(b)
      BY <1>3 DEF History
    <3>2. agent'[b] = agent[b]
      BY <2>1, <2>5 DEF Types
    <3>3. VersionsOf(b)' = VersionsOf(b)
      BY <2>1, <2>2, <2>5 DEF VersionsOf
    <3>4. Exists(b)' => Exists(b)
      BY <3>2 DEF Exists
    <3> QED
      BY <1>5, <3>1, <3>2, <3>3, <3>4, Untouched
  <2>6. ASSUME m.agent \notin disturbed' PROVE Settled(m.agent)'
    <3> DEFINE a == m.agent
               n == agent[a].version
    <3>1. Faithful(a) /\ Pending(a)
      BY <1>1, <1>3, <1>7, <2>6 DEF History, Settled
    <3>2. WritesNext(a, m)
      BY <1>0, <2>4, <3>1 DEF Pending
    <3>3. n \in Nat /\ m.version = n + 1
      BY <1>1, <3>2, RowType DEF WritesNext
    <3>4. VersionsOf(a)' = VersionsOf(a) \cup {new}
      BY <2>1, <2>2 DEF VersionsOf
    <3>5. agent'[a].version = n + 1 /\ agent'[a].flow = m.flow /\ agent'[a].code = m.code
      <4>1. agent'[a] = Renewed(agent[a], m)
        BY <1>1, <2>1 DEF Types
      <4>2. Renewed(agent[a], m).version = m.version /\ Renewed(agent[a], m).flow = m.flow
            /\ Renewed(agent[a], m).code = m.code
        BY <2>3, <3>2 DEF Renewed, WritesNext, Row
      <4> QED
        BY <3>3, <4>1, <4>2
    <3>6. new.version = n + 1 /\ new.flow = m.flow /\ new.code = m.code /\ m.code = Code(m.flow)
      BY <3>2, <3>3 DEF WritesNext
    <3>7. Updating(a)' = {}
      <4>1. ASSUME NEW q \in Updating(a)' PROVE FALSE
        <5>1. q # r /\ request'[q] = request[q] /\ q \in Requests
          BY <1>2 DEF Updating
        <5>2. q \in Updating(a)
          BY <5>1 DEF Updating
        <5> QED
          BY <2>4, <3>1, <5>1, <5>2 DEF Pending
      <4> QED
        BY <4>1
    <3>8. \A v \in VersionsOf(a) : v.version \in 1 .. n
      BY <3>1 DEF Faithful
    <3>9. ASSUME NEW q \in Requests, request'[q].at = "publish", request'[q].agent = a
          PROVE  \E v \in VersionsOf(a)' : v.version = request'[q].version
                                           /\ v.flow = request'[q].flow
      <4>1. request'[q] = request[q]
        BY <1>2, <3>9
      <4>2. \E v \in VersionsOf(a) : v.version = request[q].version /\ v.flow = request[q].flow
        BY <3>1, <3>9, <4>1 DEF Pending
      <4> QED
        BY <3>4, <4>1, <4>2
    <3>10. Pending(a)'
      BY <3>7, <3>9 DEF Pending
    <3> HIDE DEF new, n
    <3>11. {v.version : v \in VersionsOf(a)'} = 1 .. (n + 1)
      <4>1. {v.version : v \in VersionsOf(a)'} = {v.version : v \in VersionsOf(a)} \cup {n + 1}
        BY <3>4, <3>6
      <4>2. {v.version : v \in VersionsOf(a)} = 1 .. n
        BY <3>1 DEF Faithful, n
      <4>3. 1 .. (n + 1) = (1 .. n) \cup {n + 1}
        BY <3>3
      <4> QED
        BY <4>1, <4>2, <4>3
    <3>12. ASSUME NEW v \in VersionsOf(a)'
           PROVE  /\ v.code = Code(v.flow)
                  /\ \A w \in VersionsOf(a)' : v.version = w.version => v = w
                  /\ v.version = n + 1 => v.flow = m.flow /\ v.code = m.code
      <4>1. CASE v = new
        <5>1. \A w \in VersionsOf(a)' : w.version = n + 1 => w = new
          BY <3>3, <3>4, <3>8
        <5> QED
          BY <3>6, <4>1, <5>1
      <4>2. CASE v \in VersionsOf(a)
        <5>1. v.version \in 1 .. n /\ v.version # n + 1
          BY <3>3, <3>8, <4>2
        <5>2. \A w \in VersionsOf(a) : v.version = w.version => v = w
          BY <3>1, <4>2 DEF Faithful
        <5>3. v.code = Code(v.flow)
          BY <3>1, <4>2 DEF Faithful
        <5> QED
          BY <3>4, <3>6, <5>1, <5>2, <5>3
      <4> QED
        BY <3>4, <4>1, <4>2
    <3>13. Faithful(a)'
      BY <3>5, <3>11, <3>12 DEF Faithful
    <3> QED
      BY <3>10, <3>13 DEF Settled
  <2> QED
    BY <1>4, <2>5, <2>6 DEF History
<1> QED
  BY <1>6, <1>7

\* Publishing the newest version compiles what the agent was saved with once more.
LEMMA CommitPublishKeepsHistory ==
    ASSUME Types, Types', History, NEW r \in Requests, CommitPublish(r)
    PROVE  History'
<1>0. PICK m \in Publication : m = request[r]
  BY RequestType DEF CommitPublish
<1>1. m.agent \in Agents /\ m.at = "publish"
  BY <1>0 DEF Publication
<1>2. request'[r].at = "done" /\ \A q \in Requests \ {r} : request'[q] = request[q]
  BY DEF CommitPublish, Types
<1>3. UNCHANGED versions /\ disturbed \subseteq disturbed'
      /\ (Exists(m.agent) /\ agent[m.agent].version # m.version => m.agent \in disturbed')
  BY <1>0 DEF CommitPublish
<1>4. Copies'
  BY <1>2 DEF History, Copies
<1>5. \A b \in Agents, q \in Requests : Concerns(q, b)' => request'[q] = request[q]
  BY <1>2 DEF Concerns
<1>6. CASE ~Exists(m.agent)
  <2>1. UNCHANGED <<agent, versions>>
    BY <1>0, <1>3, <1>6 DEF CommitPublish
  <2>2. ASSUME NEW b \in Agents \ disturbed' PROVE Settled(b)'
    <3>1. Settled(b)
      BY <1>3 DEF History
    <3> QED
      BY <1>5, <2>1, <3>1, UntouchedByRequests
  <2> QED
    BY <1>4, <2>2 DEF History
<1>7. CASE Exists(m.agent)
  <2>1. agent' = [agent EXCEPT ![m.agent].published = TRUE, ![m.agent].code = Code(m.flow)]
    BY <1>0, <1>7 DEF CommitPublish
  <2>2. agent[m.agent] \in Row
    BY <1>1, <1>7, RowType
  <2>3. agent' = [agent EXCEPT ![m.agent] =
                     [agent[m.agent] EXCEPT !.published = TRUE, !.code = Code(m.flow)]]
    BY <1>1, <2>1 DEF Types
  <2>4. ASSUME NEW b \in Agents \ disturbed', b # m.agent PROVE Settled(b)'
    <3>1. Settled(b)
      BY <1>3 DEF History
    <3>2. agent'[b] = agent[b] /\ (Exists(b)' => Exists(b))
      BY <2>3, <2>4 DEF Types, Exists
    <3>3. VersionsOf(b)' = VersionsOf(b)
      BY <1>3 DEF VersionsOf
    <3> QED
      BY <1>5, <3>1, <3>2, <3>3, Untouched
  <2>5. ASSUME m.agent \notin disturbed' PROVE Settled(m.agent)'
    <3>1. Settled(m.agent) /\ Faithful(m.agent) /\ Pending(m.agent)
      BY <1>1, <1>3, <1>7, <2>5 DEF History, Settled
    <3>2. agent[m.agent].version = m.version
      BY <1>3, <1>7, <2>5
    <3>3. PICK v \in VersionsOf(m.agent) : v.version = m.version /\ v.flow = m.flow
      BY <1>0, <1>1, <3>1 DEF Pending
    <3>4. agent[m.agent].code = Code(m.flow)
      BY <3>1, <3>2, <3>3 DEF Faithful
    <3>5. /\ agent'[m.agent].version = agent[m.agent].version
          /\ agent'[m.agent].flow = agent[m.agent].flow
          /\ agent'[m.agent].code = agent[m.agent].code
      BY <1>1, <2>2, <2>3, <3>4 DEF Types, Row
    <3>6. VersionsOf(m.agent)' = VersionsOf(m.agent)
      BY <1>3 DEF VersionsOf
    <3> QED
      BY <1>1, <1>5, <1>7, <3>1, <3>5, <3>6, Untouched
  <2> QED
    BY <1>4, <2>4, <2>5 DEF History
<1> QED
  BY <1>6, <1>7

LEMMA DeleteKeepsHistory ==
    ASSUME Types, Types', History, NEW a \in Agents, Delete(a)
    PROVE  History'
<1>1. Copies'
  BY DEF Delete, History, Copies
<1>2. Settled(a)'
  <2>1. agent'[a] = NoAgent /\ agent'[a].version = 0
    BY DEF Delete, Types, NoAgent
  <2>2. VersionsOf(a)' = {}
    BY DEF Delete, Removed, VersionsOf
  <2>3. {v.version : v \in VersionsOf(a)'} = 1 .. 0
    BY <2>2
  <2> QED
    BY <2>1, <2>2, <2>3 DEF Settled, Faithful, Exists
<1>3. ASSUME NEW b \in Agents \ disturbed', b # a PROVE Settled(b)'
  <2>1. Settled(b)
    BY <1>3 DEF Delete, History
  <2>2. agent'[b] = agent[b] /\ (Exists(b)' => Exists(b))
    BY <1>3 DEF Delete, Types, Exists
  <2>3. VersionsOf(b)' = VersionsOf(b)
    BY <1>3 DEF Delete, Removed, VersionsOf
  <2>4. \A r \in Requests : request'[r] = request[r]
    BY DEF Delete
  <2> QED
    BY <2>1, <2>2, <2>3, <2>4, Untouched
<1> QED
  BY <1>1, <1>2, <1>3 DEF History

\* A new agent has the code of its flow, or is born disturbed.
LEMMA InsertKeepsSettled ==
    ASSUME Types, History, NEW b \in Agents, NEW u, NEW flow, NEW code,
           Insert(b, u, flow, code), disturbed \subseteq disturbed',
           b \notin disturbed' => code = Code(flow),
           \A a \in Agents, r \in Requests : Concerns(r, a)' => request'[r] = request[r]
    PROVE  \A a \in Agents \ disturbed' : Settled(a)'
<1> SUFFICES ASSUME NEW a \in Agents \ disturbed' PROVE Settled(a)'
  OBVIOUS
<1>1. Settled(a)
  BY DEF History
<1>2. CASE a = b
  BY <1>1, <1>2, InsertIsFaithful
<1>3. CASE a # b
  BY <1>1, <1>3, InsertElsewhere
<1> QED
  BY <1>2, <1>3

LEMMA CreateKeepsHistory ==
    ASSUME Types, History, NEW a \in Agents, NEW u, Create(a, u)
    PROVE  History'
<1>1. Insert(a, u, canvas, Code(canvas)) /\ UNCHANGED <<request, disturbed>>
  BY DEF Create
<1>2. Copies'
  BY <1>1 DEF History, Copies
<1>3. \A b \in Agents, r \in Requests : Concerns(r, b)' => request'[r] = request[r]
  BY <1>1
<1>4. \A b \in Agents \ disturbed' : Settled(b)'
  BY <1>1, <1>3, InsertKeepsSettled
<1> QED
  BY <1>2, <1>4 DEF History

LEMMA CommitCloneKeepsHistory ==
    ASSUME Types, History, NEW r \in Requests, NEW b \in Agents, NEW u, CommitClone(r, b, u)
    PROVE  History'
<1>0. PICK m \in Copy : m = request[r] /\ m.at = "clone"
  BY RequestType DEF CommitClone
<1>1. Insert(b, u, m.flow, m.code)
  BY <1>0 DEF CommitClone
<1>2. request'[r].at = "done" /\ \A q \in Requests \ {r} : request'[q] = request[q]
  BY DEF CommitClone, Types
<1>3. disturbed \subseteq disturbed' /\ (m.disturbed => b \in disturbed')
  BY <1>0 DEF CommitClone
<1>4. Copies'
  BY <1>2 DEF History, Copies
<1>5. b \notin disturbed' => m.code = Code(m.flow)
  BY <1>0, <1>3 DEF History, Copies
<1>6. \A a \in Agents, q \in Requests : Concerns(q, a)' => request'[q] = request[q]
  BY <1>2 DEF Concerns
<1>7. \A a \in Agents \ disturbed' : Settled(a)'
  BY <1>1, <1>3, <1>5, <1>6, InsertKeepsSettled
<1> QED
  BY <1>4, <1>7 DEF History

LEMMA HistoryInit == Init => History
<1> SUFFICES ASSUME Init PROVE History
  OBVIOUS
<1>1. ASSUME NEW a \in Agents PROVE Settled(a)
  <2>1. agent[a] = NoAgent /\ agent[a].version = 0 /\ VersionsOf(a) = {}
    BY DEF Init, NoAgent, VersionsOf
  <2>2. {v.version : v \in VersionsOf(a)} = 1 .. 0
    BY <2>1
  <2> QED
    BY <2>1, <2>2 DEF Settled, Faithful, Exists
<1>2. Copies
  BY DEF Init, Copies
<1> QED
  BY <1>1, <1>2 DEF History

LEMMA HistoryStep == Types /\ History /\ [Next]_vars => History'
<1> SUFFICES ASSUME Types, History, [Next]_vars PROVE History'
  OBVIOUS
<1>0. Types'
  BY TypesStep
<1>1. ASSUME UNCHANGED <<agent, versions, request, disturbed>> PROVE History'
  <2>1. \A a \in Agents : Settled(a) => Settled(a)'
    BY <1>1, UntouchedByRequests
  <2>2. Copies'
    BY <1>1 DEF History, Copies
  <2> QED
    BY <1>1, <2>1, <2>2 DEF History
<1>2. ASSUME NEW a \in Agents, Delete(a) PROVE History'
  BY <1>0, <1>2, DeleteKeepsHistory
<1>3. ASSUME NEW a \in Agents, NEW u \in Users, Create(a, u) PROVE History'
  BY <1>3, CreateKeepsHistory
<1>4. ASSUME NEW r \in Requests, NEW a \in Agents, NEW u \in Users, NEW flow \in Saved,
             BeginUpdate(r, a, u, flow)
      PROVE  History'
  <2>1. flow \in Fitting /\ Exists(a) /\ BeginWrite(r, a, u, flow, Code(flow), TRUE)
    BY <1>4 DEF BeginUpdate, Fits, Fitting
  <2> QED
    BY <1>0, <2>1, FittingCode, BeginWriteKeepsHistory
<1>5. ASSUME NEW r \in Requests, NEW a \in Agents, NEW u \in Users, NEW v \in versions,
             BeginRollback(r, a, u, v)
      PROVE  History'
  <2>1. v.flow \in Fitting /\ v.code \in Seq(Nat)
    BY DEF Types, Version
  <2>2. Exists(a) /\ v \in VersionsOf(a) /\ BeginWrite(r, a, u, v.flow, v.code, TRUE)
    BY <1>5 DEF BeginRollback
  <2>3. a \notin disturbed => v.code = Code(v.flow)
    BY <2>2 DEF History, Settled, Faithful
  <2> QED
    BY <1>0, <2>1, <2>2, <2>3, BeginWriteKeepsHistory
<1>6. ASSUME NEW r \in Requests, NEW a \in Agents, NEW u \in Users, BeginRename(r, a, u)
      PROVE  History'
  <2>1. Exists(a) /\ BeginWrite(r, a, u, agent[a].flow, agent[a].code, FALSE)
    BY <1>6 DEF BeginRename
  <2>2. agent[a].flow \in Fitting /\ agent[a].code \in Seq(Nat)
    BY <2>1, RowType DEF Row
  <2>3. a \notin disturbed => agent[a].code = Code(agent[a].flow)
    BY <2>1, SettledAgent DEF History, Settled
  <2> QED
    BY <1>0, <2>1, <2>2, <2>3, BeginWriteKeepsHistory
<1>7. ASSUME NEW r \in Requests, NEW a \in Agents, NEW u \in Users, CommitClone(r, a, u)
      PROVE  History'
  BY <1>7, CommitCloneKeepsHistory
<1>8. ASSUME NEW r \in Requests, NEW a \in Agents, NEW v \in versions, BeginPublish(r, a, v)
      PROVE  History'
  <2> DEFINE what == [at |-> "publish", agent |-> a, version |-> v.version, flow |-> v.flow]
  <2>1. v \in Version /\ v \in VersionsOf(a) /\ Exists(a) /\ Begin(r, what)
    BY <1>8 DEF BeginPublish, Types
  <2>2. what \in Request /\ what.agent = a /\ what.at = "publish"
        /\ what.version = v.version /\ what.flow = v.flow
    BY <2>1 DEF Request, Publication, Version
  <2> HIDE DEF what
  <2> QED
    BY <1>0, <2>1, <2>2, BeginKeepsHistory
<1>9. ASSUME NEW r \in Requests, NEW a \in Agents, BeginClone(r, a) PROVE History'
  <2> DEFINE what == [at |-> "clone", agent |-> a, flow |-> agent[a].flow, code |-> agent[a].code,
                      disturbed |-> a \in disturbed]
  <2>1. Exists(a) /\ Begin(r, what)
    BY <1>9 DEF BeginClone
  <2>2. what.agent = a /\ what.at = "clone" /\ what.flow = agent[a].flow
        /\ what.code = agent[a].code
    OBVIOUS
  <2>3. what.disturbed <=> a \in disturbed
    BY Zenon
  <2>4. what \in Request
    <3>1. request'[r] \in Request
      BY <1>0 DEF Types
    <3>2. request'[r] = what
      BY <2>1 DEF Begin, Types
    <3> QED
      BY <3>1, <3>2
  <2> HIDE DEF what
  <2>5. ~what.disturbed => what.code = Code(what.flow)
    BY <2>1, <2>2, <2>3, SettledAgent DEF History, Settled
  <2> QED
    BY <1>0, <2>1, <2>2, <2>4, <2>5, BeginKeepsHistory
<1>10. ASSUME NEW r \in Requests, CommitWrite(r) PROVE History'
  BY <1>0, <1>10, CommitWriteKeepsHistory
<1>11. ASSUME NEW r \in Requests, CommitPublish(r) PROVE History'
  BY <1>0, <1>11, CommitPublishKeepsHistory
<1>12. ASSUME Draw \/ UNCHANGED vars PROVE History'
  BY <1>1, <1>12 DEF Draw, vars
<1> QED
  BY <1>2, <1>3, <1>4, <1>5, <1>6, <1>7, <1>8, <1>9, <1>10, <1>11, <1>12 DEF Next

\* Of an agent that is not disturbed, the versions are numbered without a gap or a
\* duplicate, each has the code of its flow, and the newest one is what the agent is:
\* whatever is created, updated, rolled back, cloned, published and deleted in between.
THEOREM HistoryStaysFaithful == Spec => []HistoryIsFaithful
<1>1. History => HistoryIsFaithful
  BY DEF History, Settled, Faithful, HistoryIsFaithful
<1> QED
  BY <1>1, TypesInit, TypesStep, HistoryInit, HistoryStep, PTL DEF Spec
=============================================================================
