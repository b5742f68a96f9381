--------------------------- MODULE GraphSync_proofs ---------------------------
(***************************************************************************)
(* Proofs about GraphSync.                                                 *)
(*                                                                         *)
(* FreshWhenQuiet becomes inductive as Undisturbed: jobs carry no data, so *)
(* a node that differs from the row is excused by a job that will still    *)
(* read the row, or by one that has read it as it is now and is about to   *)
(* write.  RebuildRefreshesLive rests on RebuildsAlone: between the write  *)
(* of a rebuild and its end nobody else has touched the node.              *)
(***************************************************************************)
EXTENDS GraphSync, TLAPS

Queued == Range(waiting) \cup Range(delayed)
Works(w) == worker[w] # Idle
Busyness == [at : Place, job : Job, read : Row, wrote : BOOLEAN, alone : BOOLEAN]
Node == [there : BOOLEAN, rev : 0 .. MaxWrites, deleted : BOOLEAN,
         out : SUBSET Users, in : SUBSET Users]
Single == \A v, w \in Workers : Works(v) /\ Works(w) => v = w

\* Jobs that are still to be enqueued, taken, or begun in earnest.
SyncToCome ==
    \/ \E j \in sending : j.kind \in {"create", "sync"}
    \/ \E j \in Queued : j.kind = "sync"
    \/ \E w \in Workers : worker[w].at = "read" /\ worker[w].job.kind = "sync"
DeleteToCome ==
    \/ \E j \in sending : j.kind = "delete"
    \/ \E j \in Queued : j.kind = "delete"
    \/ \E w \in Workers : worker[w].at = "delete"
AssignToCome(u) ==
    \/ \E j \in sending : j.kind \in {"create", "assign"} /\ j.user = u
    \/ \E j \in Queued : j.kind = "assign" /\ j.user = u
    \/ \E w \in Workers : worker[w].at = "assign" /\ worker[w].job.user = u

\* Where a job of each kind may be.
Fits(kind, at) ==
    \/ kind = "sync" /\ at \in {"read", "node", "edge"}
    \/ kind = "delete" /\ at = "delete"
    \/ kind = "assign" /\ at = "assign"
    \/ kind = "rebuild" /\ at \in {"read", "tasks", "unlink", "link", "rebuilt"}

WorkersAreSound ==
    \A w \in Workers : Works(w) =>
        /\ Fits(worker[w].job.kind, worker[w].at)
        /\ worker[w].at \in {"read", "node", "delete", "assign", "tasks"} => ~worker[w].wrote
        /\ worker[w].at = "edge" => worker[w].read.assignee # NoUser
        /\ worker[w].read.state = "deleted" => row.state = "deleted"
RowIsSound ==
    /\ row.state # "absent" => row.rev > 0
    /\ row.state = "absent" => row.rev = 0
    /\ moving => row.state = "live" /\ row.rev < MaxWrites
    /\ row.state # "deleted" => ~node.deleted
    /\ ~node.there => node.rev = 0
    /\ \A j \in sending : j.kind = "assign" => j.user # NoUser
    /\ row.state # "deleted" =>
        /\ \A j \in sending \cup Queued : j.kind # "delete"
        /\ \A w \in Workers : worker[w].at # "delete"

FreshLive ==
    row.state = "live" =>
        /\ \/ node.there /\ node.rev = row.rev
           \/ SyncToCome
           \/ \E w \in Workers : worker[w].at = "node" /\ worker[w].read = row
        /\ \A w \in Workers : worker[w].at \in {"node", "tasks"} => worker[w].read = row \/ SyncToCome
        /\ row.assignee # NoUser => row.assignee \in node.out \/ AssignToCome(row.assignee)
        /\ moving => SyncToCome
FreshDeleted ==
    row.state = "deleted" =>
        /\ ~LooksAlive \/ DeleteToCome
        /\ \A w \in Workers : worker[w].at \in {"node", "tasks"} =>
                worker[w].read.state = "deleted" \/ DeleteToCome
Undisturbed == Single /\ FreshLive /\ FreshDeleted

RebuildsAlone ==
    \A w \in Workers : Works(w) /\ worker[w].alone =>
        /\ \A v \in Workers \ {w} : ~Works(v)
        /\ worker[w].at \in {"unlink", "link", "rebuilt"} /\ worker[w].read.state = "live" =>
               node.there /\ node.rev = worker[w].read.rev
Recovered ==
    /\ sending = {} /\ ~moving
    /\ \A j \in Queued : j.kind = "rebuild"
    /\ \A w \in Workers : Works(w) => /\ worker[w].job.kind = "rebuild"
                                      /\ worker[w].at # "read" => worker[w].read = row
    /\ row.state = "live" => node.there /\ node.rev = row.rev
IInv ==
    /\ TypeOK
    /\ WorkersAreSound
    /\ RowIsSound
    /\ ~disturbed => Undisturbed
    /\ RebuildsAlone
    /\ recovered => Recovered

-----------------------------------------------------------------------------
(* Queues.                                                                  *)

\* What a queue holds after each operation on it.
LEMMA Appended ==
    ASSUME NEW S, NEW s \in Seq(S), NEW e \in S
    PROVE  /\ Append(s, e) \in Seq(S)
           /\ Range(Append(s, e)) = Range(s) \cup {e}
<1>1. /\ Append(s, e) \in Seq(S)
      /\ Len(Append(s, e)) = Len(s) + 1
      /\ \A i \in 1 .. Len(s) : Append(s, e)[i] = s[i]
      /\ Append(s, e)[Len(s) + 1] = e
      /\ Len(s) \in Nat
  OBVIOUS
<1>2. /\ DOMAIN s = 1 .. Len(s)
      /\ DOMAIN Append(s, e) = 1 .. Len(s) + 1
      /\ 1 .. Len(s) + 1 = 1 .. Len(s) \cup {Len(s) + 1}
  BY <1>1
<1> QED
  BY <1>1, <1>2 DEF Range

LEMMA HeadAndTail ==
    ASSUME NEW S, NEW s \in Seq(S), s # <<>>
    PROVE  /\ Head(s) \in S /\ Tail(s) \in Seq(S)
           /\ Range(s) = {Head(s)} \cup Range(Tail(s))
<1>1. /\ Head(s) \in S /\ Tail(s) \in Seq(S)
      /\ Len(s) \in Nat /\ Len(s) >= 1
      /\ Len(Tail(s)) = Len(s) - 1
      /\ Head(s) = s[1]
      /\ \A i \in 1 .. Len(s) - 1 : Tail(s)[i] = s[i + 1]
  OBVIOUS
<1>2. DOMAIN s = 1 .. Len(s) /\ DOMAIN Tail(s) = 1 .. Len(s) - 1
  BY <1>1
<1>3. \A i \in 2 .. Len(s) : i - 1 \in 1 .. Len(s) - 1 /\ Tail(s)[i - 1] = s[i]
  BY <1>1
<1>4. Range(s) \subseteq {Head(s)} \cup Range(Tail(s))
  <2>1. SUFFICES ASSUME NEW i \in 1 .. Len(s) PROVE s[i] \in {Head(s)} \cup Range(Tail(s))
    BY <1>2 DEF Range
  <2>2. CASE i = 1
    BY <1>1, <2>2
  <2>3. CASE i # 1
    <3>1. i \in 2 .. Len(s)
      BY <1>1, <2>3
    <3> QED
      BY <1>2, <1>3, <3>1 DEF Range
  <2> QED
    BY <2>2, <2>3
<1>5. {Head(s)} \cup Range(Tail(s)) \subseteq Range(s)
  <2>1. \A i \in 1 .. Len(s) - 1 : i + 1 \in 1 .. Len(s) /\ Tail(s)[i] = s[i + 1]
    BY <1>1
  <2>2. 1 \in 1 .. Len(s)
    BY <1>1
  <2> QED
    BY <1>1, <1>2, <2>1, <2>2 DEF Range
<1> QED
  BY <1>1, <1>4, <1>5

LEMMA Prepended ==
    ASSUME NEW S, NEW s \in Seq(S), NEW e \in S
    PROVE  /\ <<e>> \o s \in Seq(S)
           /\ Range(<<e>> \o s) = {e} \cup Range(s)
<1> DEFINE t == <<e>> \o s
<1>1. /\ t \in Seq(S) /\ t # <<>>
      /\ Head(t) = e /\ Tail(t) = s
  OBVIOUS
<1> HIDE DEF t
<1>2. Range(t) = {Head(t)} \cup Range(Tail(t))
  BY <1>1, HeadAndTail
<1> QED
  BY <1>1, <1>2 DEF t

LEMMA OneRemoved ==
    ASSUME NEW S, NEW s \in Seq(S), NEW i \in DOMAIN s
    PROVE  /\ RemoveAt(s, i) \in Seq(S) /\ s[i] \in S
           /\ Range(s) = {s[i]} \cup Range(RemoveAt(s, i))
<1> DEFINE t == RemoveAt(s, i)
<1> DEFINE n == Len(s)
<1>1. n \in Nat /\ i \in 1 .. n /\ DOMAIN s = 1 .. n /\ s[i] \in S
  OBVIOUS
<1>2. /\ t \in Seq(S)
      /\ Len(t) = n - 1
      /\ \A k \in 1 .. i - 1 : t[k] = s[k]
      /\ \A k \in i .. n - 1 : t[k] = s[k + 1]
  <2> DEFINE a == SubSeq(s, 1, i - 1)
  <2> DEFINE b == SubSeq(s, i + 1, n)
  <2>1. /\ a \in Seq(S) /\ Len(a) = i - 1
        /\ \A k \in 1 .. i - 1 : a[k] = s[k]
    <3>1. \A k \in 1 .. i - 1 : s[k] \in S
      BY <1>1
    <3>2. Len(a) = i - 1 /\ \A k \in 1 .. i - 1 : a[k] = s[k]
      BY <1>1
    <3>3. a \in Seq(S)
      BY <1>1, <3>1
    <3> QED
      BY <3>2, <3>3
  <2>2. /\ b \in Seq(S) /\ Len(b) = n - i
        /\ \A k \in 1 .. n - i : b[k] = s[i + k]
    <3>1. \A k \in 1 .. n - i : s[i + k] \in S
      BY <1>1
    <3>2. Len(b) = n - i /\ \A k \in 1 .. n - i : b[k] = s[i + k]
      BY <1>1
    <3>3. b \in Seq(S)
      BY <1>1, <3>1
    <3> QED
      BY <3>2, <3>3
  <2>3. t = a \o b
    BY DEF RemoveAt
  <2> HIDE DEF a, b, t, n
  <2>4. /\ t \in Seq(S) /\ Len(t) = Len(a) + Len(b)
        /\ \A k \in 1 .. Len(a) + Len(b) :
              t[k] = IF k <= Len(a) THEN a[k] ELSE b[k - Len(a)]
    BY <2>1, <2>2, <2>3
  <2>5. Len(t) = n - 1
    BY <1>1, <2>1, <2>2, <2>4
  <2>6. ASSUME NEW k \in 1 .. i - 1
        PROVE  t[k] = s[k]
    BY <1>1, <2>1, <2>2, <2>4
  <2>7. ASSUME NEW k \in i .. n - 1
        PROVE  t[k] = s[k + 1]
    <3>1. k \in 1 .. Len(a) + Len(b) /\ ~(k <= Len(a)) /\ k - (i - 1) \in 1 .. n - i
      BY <1>1, <2>1, <2>2
    <3>2. t[k] = b[k - (i - 1)]
      BY <2>1, <2>4, <3>1
    <3>3. b[k - (i - 1)] = s[i + (k - (i - 1))]
      BY <2>2, <3>1
    <3>4. i + (k - (i - 1)) = k + 1
      BY <1>1
    <3> QED
      BY <3>2, <3>3, <3>4
  <2> QED
    BY <2>4, <2>5, <2>6, <2>7
<1>3. DOMAIN t = 1 .. n - 1
  BY <1>1, <1>2
<1> HIDE DEF t, n
<1>4. ASSUME NEW k \in 1 .. n
      PROVE  s[k] \in {s[i]} \cup Range(t)
  <2>1. CASE k < i
    <3>1. k \in 1 .. i - 1 /\ k \in 1 .. n - 1
      BY <1>1, <2>1
    <3> QED
      BY <1>2, <1>3, <3>1 DEF Range
  <2>2. CASE k > i
    <3>1. k - 1 \in i .. n - 1 /\ k - 1 \in 1 .. n - 1 /\ (k - 1) + 1 = k
      BY <1>1, <2>2
    <3>2. t[k - 1] = s[(k - 1) + 1] /\ k - 1 \in DOMAIN t
      BY <1>2, <1>3, <3>1
    <3> QED
      BY <3>1, <3>2 DEF Range
  <2>3. k < i \/ k > i \/ k = i
    BY <1>1
  <2> QED
    BY <2>1, <2>2, <2>3
<1>5. ASSUME NEW k \in 1 .. n - 1
      PROVE  t[k] \in Range(s)
  <2>1. CASE k < i
    <3>1. k \in 1 .. i - 1 /\ k \in 1 .. n
      BY <1>1, <2>1
    <3> QED
      BY <1>1, <1>2, <3>1 DEF Range
  <2>2. CASE k >= i
    <3>1. k \in i .. n - 1 /\ k + 1 \in 1 .. n
      BY <1>1, <2>2
    <3> QED
      BY <1>1, <1>2, <3>1 DEF Range
  <2> QED
    BY <1>1, <2>1, <2>2
<1>6. Range(s) \subseteq {s[i]} \cup Range(t)
  BY <1>1, <1>4 DEF Range
<1>7. {s[i]} \cup Range(t) \subseteq Range(s)
  BY <1>1, <1>3, <1>5 DEF Range
<1> QED
  BY <1>1, <1>2, <1>6, <1>7 DEF t

-----------------------------------------------------------------------------
(* What the steps do to workers and node.                                   *)

WorkersType ==
    /\ worker = [w \in Workers |-> worker[w]]
    /\ \A w \in Workers : worker[w] = Idle \/ worker[w] \in Busyness

Others(w) == \A v \in Workers \ {w} : worker'[v] = worker[v]
Ends(w) == worker'[w] = Idle /\ Others(w)
Goes(w, to) ==
    /\ worker'[w] \in Busyness
    /\ worker'[w].at = to
    /\ worker'[w].job = worker[w].job
    /\ worker'[w].alone = worker[w].alone
    /\ Others(w)
KeepsRead(w) == worker'[w].read = worker[w].read
Contents == <<node.there, node.rev, node.deleted>>
Kept == UNCHANGED <<row, moving, sending, waiting, delayed, asked, faults, disturbed, recovered>>

LEMMA TypesAtWork ==
    ASSUME TypeOK
    PROVE  WorkersType /\ node \in Node
BY DEF TypeOK, WorkersType, Busyness, Node

LEMMA AtWork ==
    ASSUME TypeOK, NEW w \in Workers
    PROVE  /\ worker[w].at # "idle" <=> Works(w)
           /\ worker[w].at \in Place <=> Works(w)
           /\ Works(w) => worker[w] \in Busyness
           /\ Idle.at = "idle" /\ "idle" \notin Place
<1>1. "idle" \notin Place /\ Idle.at = "idle"
  BY DEF Place, Idle
<1>2. worker[w] = Idle \/ worker[w] \in Busyness
  BY DEF TypeOK, Busyness
<1>3. worker[w] \in Busyness => worker[w].at \in Place
  BY DEF Busyness
<1> QED
  BY <1>1, <1>2, <1>3 DEF Works

LEMMA FinishEffect ==
    ASSUME TypeOK, NEW w \in Workers, Finish(w)
    PROVE  Ends(w) /\ WorkersType'
<1>1. worker' = [v \in Workers |-> IF v = w THEN Idle ELSE worker[v]]
  BY TypesAtWork DEF Finish, WorkersType
<1>2. Ends(w)
  BY <1>1 DEF Ends, Others
<1>3. WorkersType'
  BY <1>1, TypesAtWork DEF WorkersType, Busyness
<1> QED
  BY <1>2, <1>3

LEMMA MovedEffect ==
    ASSUME TypeOK, NEW w \in Workers, NEW b \in Busyness,
           worker' = [v \in Workers |-> IF v = w THEN b ELSE worker[v]],
           b.job = worker[w].job, b.alone = worker[w].alone
    PROVE  /\ Goes(w, b.at)
           /\ worker'[w] = b
           /\ WorkersType'
<1>1. worker'[w] = b /\ Others(w)
  BY DEF Others
<1>2. WorkersType'
  BY TypesAtWork DEF WorkersType, Busyness
<1> QED
  BY <1>1, <1>2 DEF Goes

LEMMA StepEffect ==
    ASSUME TypeOK, NEW w \in Workers, NEW to \in Place, Works(w), Step(w, to)
    PROVE  /\ Goes(w, to) /\ KeepsRead(w)
           /\ worker'[w].wrote = TRUE
           /\ WorkersType'
<1> DEFINE b == [worker[w] EXCEPT !.at = to, !.wrote = TRUE]
<1>1. worker[w] \in Busyness
  BY AtWork
<1>2. /\ b \in Busyness
      /\ b.at = to /\ b.wrote = TRUE /\ b.job = worker[w].job /\ b.read = worker[w].read
      /\ b.alone = worker[w].alone
  BY <1>1 DEF Busyness
<1>3. worker' = [v \in Workers |-> IF v = w THEN b ELSE worker[v]]
  BY TypesAtWork DEF Step, WorkersType
<1> HIDE DEF b
<1> QED
  BY <1>2, <1>3, MovedEffect DEF KeepsRead

LEMMA ReadEffect ==
    ASSUME TypeOK, NEW w \in Workers, Read(w)
    PROVE  /\ Works(w) /\ worker[w].at = "read"
           /\ Goes(w, IF worker[w].job.kind = "sync" THEN "node" ELSE "tasks")
           /\ worker'[w].read = row /\ worker'[w].wrote = worker[w].wrote
           /\ WorkersType'
           /\ disturbed' = (disturbed \/ moving)
           /\ UNCHANGED <<row, moving, sending, waiting, delayed, node, asked, faults, recovered>>
<1> DEFINE to == IF worker[w].job.kind = "sync" THEN "node" ELSE "tasks"
<1> DEFINE b == [worker[w] EXCEPT !.read = row, !.at = to]
<1>1. worker[w].at = "read" /\ Works(w) /\ worker[w] \in Busyness
  BY AtWork DEF Read, Place
<1>2. to \in Place /\ row \in Row
  BY DEF Place, TypeOK
<1>3. worker' = [v \in Workers |-> IF v = w THEN b ELSE worker[v]]
  BY TypesAtWork DEF Read, WorkersType
<1> HIDE DEF to
<1>4. /\ b \in Busyness
      /\ b.at = to /\ b.read = row /\ b.wrote = worker[w].wrote
      /\ b.job = worker[w].job /\ b.alone = worker[w].alone
  BY <1>1, <1>2 DEF Busyness
<1> HIDE DEF b
<1>5. Goes(w, to) /\ worker'[w] = b /\ WorkersType'
  BY <1>3, <1>4, MovedEffect
<1>6. /\ disturbed' = (disturbed \/ moving)
      /\ UNCHANGED <<row, moving, sending, waiting, delayed, node, asked, faults, recovered>>
  BY DEF Read
<1> QED
  BY <1>1, <1>4, <1>5, <1>6 DEF to

LEMMA SyncNodeEffect ==
    ASSUME TypeOK, NEW w \in Workers, SyncNode(w)
    PROVE  /\ Works(w) /\ worker[w].at = "node"
           /\ \/ Ends(w)
              \/ /\ worker[w].read.assignee # NoUser
                 /\ Goes(w, "edge") /\ KeepsRead(w) /\ worker'[w].wrote = TRUE
           /\ WorkersType'
           /\ node' \in Node
           /\ node'.there = TRUE /\ node'.rev = worker[w].read.rev
           /\ node'.deleted = (worker[w].read.state = "deleted")
           /\ node'.out = node.out
           /\ Kept
<1> DEFINE t == worker[w].read
<1>1. worker[w].at = "node" /\ Works(w) /\ worker[w] \in Busyness
  BY AtWork DEF SyncNode, Place
<1>2. t.rev \in 0 .. MaxWrites
  BY <1>1 DEF Busyness, Row
<1>3. node' = [node EXCEPT !.there = TRUE, !.rev = t.rev, !.deleted = (t.state = "deleted")] /\ Kept
  BY DEF SyncNode, Graph, Kept
<1> HIDE DEF t
<1>4. /\ node' \in Node
      /\ node'.there = TRUE /\ node'.rev = t.rev /\ node'.deleted = (t.state = "deleted")
      /\ node'.out = node.out
  BY <1>2, <1>3, TypesAtWork DEF Node
<1>5. WorkersType' /\ (Ends(w) \/ (/\ worker[w].read.assignee # NoUser
                 /\ Goes(w, "edge") /\ KeepsRead(w) /\ worker'[w].wrote = TRUE))
  <2>1. CASE t.assignee = NoUser
    BY <1>1, <2>1, FinishEffect DEF SyncNode, t
  <2>2. CASE t.assignee # NoUser
    <3>1. Step(w, "edge") /\ "edge" \in Place
      BY <2>2 DEF SyncNode, Place, t
    <3> QED
      BY <1>1, <2>2, <3>1, StepEffect DEF t
  <2> QED
    BY <2>1, <2>2
<1> QED
  BY <1>1, <1>3, <1>4, <1>5 DEF t

LEMMA SyncEdgeEffect ==
    ASSUME TypeOK, WorkersAreSound, NEW w \in Workers, SyncEdge(w)
    PROVE  /\ Works(w) /\ worker[w].at = "edge" /\ Ends(w)
           /\ WorkersType'
           /\ node' \in Node /\ UNCHANGED Contents
           /\ node.out \subseteq node'.out
           /\ Kept
<1>1. worker[w].at = "edge" /\ Works(w) /\ worker[w] \in Busyness
  BY AtWork DEF SyncEdge, Place
<1>2. worker[w].read.assignee \in Users
  BY <1>1 DEF WorkersAreSound, Busyness, Row
<1>3. /\ node' = IF node.there THEN [node EXCEPT !.out = @ \cup {worker[w].read.assignee}] ELSE node
      /\ Kept
  BY DEF SyncEdge, Graph, Kept
<1>4. node' \in Node /\ UNCHANGED Contents /\ node.out \subseteq node'.out
  BY <1>2, <1>3, TypesAtWork DEF Node, Contents
<1> QED
  BY <1>1, <1>3, <1>4, FinishEffect DEF SyncEdge

LEMMA DeleteNodeEffect ==
    ASSUME TypeOK, NEW w \in Workers, DeleteNode(w)
    PROVE  /\ Works(w) /\ worker[w].at = "delete" /\ Ends(w)
           /\ WorkersType'
           /\ node' \in Node /\ node' = NoNode
           /\ Kept
<1>1. worker[w].at = "delete" /\ Works(w)
  BY AtWork DEF DeleteNode, Place
<1>2. node' = NoNode /\ Kept
  BY DEF DeleteNode, Graph, Kept
<1>3. node' \in Node
  BY <1>2, BoundsAssumption DEF Node, NoNode
<1> QED
  BY <1>1, <1>2, <1>3, FinishEffect DEF DeleteNode

LEMMA SyncTaskAssignEffect ==
    ASSUME TypeOK, WorkersAreSound, NEW w \in Workers, SyncTaskAssign(w)
    PROVE  /\ Works(w) /\ worker[w].at = "assign" /\ Ends(w)
           /\ WorkersType'
           /\ node' \in Node /\ node'.there = TRUE
           /\ node'.rev = node.rev /\ node'.deleted = node.deleted
           /\ node'.out = node.out \cup {worker[w].job.user}
           /\ Kept
<1>1. worker[w].at = "assign" /\ Works(w) /\ worker[w] \in Busyness
  BY AtWork DEF SyncTaskAssign, Place
<1>2. worker[w].job \in Job /\ worker[w].job.kind = "assign"
  BY <1>1 DEF WorkersAreSound, Fits, Busyness
<1>3. worker[w].job.user \in Users
  BY <1>2 DEF Job
<1>4. node' = [node EXCEPT !.there = TRUE, !.out = @ \cup {worker[w].job.user}] /\ Kept
  BY DEF SyncTaskAssign, Graph, Kept
<1>5. /\ node' \in Node /\ node'.there = TRUE
      /\ node'.rev = node.rev /\ node'.deleted = node.deleted
      /\ node'.out = node.out \cup {worker[w].job.user}
  BY <1>3, <1>4, TypesAtWork DEF Node
<1> QED
  BY <1>1, <1>4, <1>5, FinishEffect DEF SyncTaskAssign

LEMMA SyncTasksEffect ==
    ASSUME TypeOK, NEW w \in Workers, SyncTasks(w)
    PROVE  /\ Works(w) /\ worker[w].at = "tasks" /\ KeepsRead(w)
           /\ WorkersType' /\ node' \in Node
           /\ node'.deleted = node.deleted /\ node'.out = node.out
           /\ \/ /\ worker[w].read.state = "live" /\ Goes(w, "unlink")
                 /\ node'.there = TRUE /\ node'.rev = worker[w].read.rev
              \/ worker[w].read.state # "live" /\ Goes(w, "rebuilt") /\ node' = node
           /\ Kept
<1>1. worker[w].at = "tasks" /\ Works(w) /\ worker[w] \in Busyness
  BY AtWork DEF SyncTasks, Place
<1>2. worker[w].read.rev \in 0 .. MaxWrites
  BY <1>1 DEF Busyness, Row
<1>3. CASE worker[w].read.state = "live"
  <2>1. /\ Step(w, "unlink") /\ "unlink" \in Place
        /\ node' = [node EXCEPT !.there = TRUE, !.rev = worker[w].read.rev] /\ Kept
    BY <1>3 DEF SyncTasks, Graph, Kept, Place
  <2>2. /\ node' \in Node /\ node'.there = TRUE /\ node'.rev = worker[w].read.rev
        /\ node'.deleted = node.deleted /\ node'.out = node.out
    BY <1>2, <2>1, TypesAtWork DEF Node
  <2> QED
    BY <1>1, <1>3, <2>1, <2>2, StepEffect
<1>4. CASE worker[w].read.state # "live"
  <2> DEFINE b == [worker[w] EXCEPT !.at = "rebuilt"]
  <2>1. worker' = [v \in Workers |-> IF v = w THEN b ELSE worker[v]]
    BY <1>4, TypesAtWork DEF SyncTasks, WorkersType
  <2>2. node' = node /\ Kept
    BY <1>4 DEF SyncTasks, Graph, Kept
  <2>3. /\ b \in Busyness
        /\ b.at = "rebuilt" /\ b.read = worker[w].read
        /\ b.job = worker[w].job /\ b.alone = worker[w].alone
    BY <1>1 DEF Busyness, Place
  <2> HIDE DEF b
  <2>4. Goes(w, "rebuilt") /\ worker'[w] = b /\ WorkersType'
    BY <2>1, <2>3, MovedEffect
  <2> QED
    BY <1>1, <1>4, <2>2, <2>3, <2>4, TypesAtWork DEF KeepsRead
<1> QED
  BY <1>3, <1>4

LEMMA UnlinkEffect ==
    ASSUME TypeOK, NEW w \in Workers, Unlink(w)
    PROVE  /\ Works(w) /\ worker[w].at = "unlink" /\ KeepsRead(w) /\ Goes(w, "link")
           /\ WorkersType'
           /\ node' \in Node /\ UNCHANGED Contents /\ node'.out = node.out
           /\ Kept
<1>1. worker[w].at = "unlink" /\ Works(w) /\ "link" \in Place
  BY AtWork DEF Unlink, Place
<1>2. node' = [node EXCEPT !.in = {}] /\ Kept
  BY DEF Unlink, Graph, Kept
<1>3. node' \in Node /\ UNCHANGED Contents /\ node'.out = node.out
  BY <1>2, TypesAtWork DEF Node, Contents
<1> QED
  BY <1>1, <1>2, <1>3, StepEffect DEF Unlink

LEMMA LinkEffect ==
    ASSUME TypeOK, NEW w \in Workers, Link(w)
    PROVE  /\ Works(w) /\ worker[w].at = "link" /\ KeepsRead(w) /\ Goes(w, "rebuilt")
           /\ WorkersType'
           /\ node' \in Node /\ UNCHANGED Contents /\ node'.out = node.out
           /\ Kept
<1>1. worker[w].at = "link" /\ Works(w) /\ worker[w] \in Busyness /\ "rebuilt" \in Place
  BY AtWork DEF Link, Place
<1>2. /\ node' = IF node.there /\ worker[w].read.assignee # NoUser
                 THEN [node EXCEPT !.in = @ \cup {worker[w].read.assignee}] ELSE node
      /\ Kept
  BY DEF Link, Graph, Kept
<1>3. worker[w].read.assignee # NoUser => worker[w].read.assignee \in Users
  BY <1>1 DEF Busyness, Row
<1>4. node' \in Node /\ UNCHANGED Contents /\ node'.out = node.out
  BY <1>2, <1>3, TypesAtWork DEF Node, Contents
<1> QED
  BY <1>1, <1>2, <1>4, StepEffect DEF Link

LEMMA EndRebuildEffect ==
    ASSUME TypeOK, NEW w \in Workers, EndRebuild(w)
    PROVE  /\ Works(w) /\ worker[w].at = "rebuilt" /\ Ends(w)
           /\ WorkersType'
           /\ recovered' = (/\ sending = {} /\ waiting = <<>> /\ delayed = <<>> /\ ~moving
                            /\ worker[w].alone /\ worker[w].read = row)
           /\ UNCHANGED <<row, moving, sending, waiting, delayed, node, asked, faults, disturbed>>
<1>1. worker[w].at = "rebuilt" /\ Works(w)
  BY AtWork DEF EndRebuild, Place
<1> QED
  BY <1>1, FinishEffect DEF EndRebuild

-----------------------------------------------------------------------------
(* What the steps do to the queues.                                         *)

SendingType == sending \subseteq [kind : {"create", "sync", "delete", "assign"}, user : Users \cup {NoUser}]
Adds(k) ==
    /\ k \in Job
    /\ waiting' \in Seq(Job) /\ delayed' \in Seq(Job)
    /\ Queued' = Queued \cup {k}

LEMMA NewJobs ==
    ASSUME NEW kind \in Kinds, NEW user \in Users \cup {NoUser}, kind = "assign" => user # NoUser
    PROVE  /\ NewJob(kind, user) \in Job
           /\ NewJob(kind, user).kind = kind /\ NewJob(kind, user).user = user
BY AttemptsAssumption DEF NewJob, Job

LEMMA AppendEffect ==
    ASSUME TypeOK, NEW k \in Job, waiting' = Append(waiting, k), delayed' = delayed
    PROVE  Adds(k)
<1>1. waiting \in Seq(Job) /\ delayed \in Seq(Job)
  BY DEF TypeOK
<1>2. waiting' \in Seq(Job) /\ Range(waiting)' = Range(waiting) \cup {k}
  BY <1>1, Appended
<1>3. Range(delayed)' = Range(delayed)
  BY DEF Range
<1> QED
  BY <1>1, <1>2, <1>3 DEF Adds, Queued

LEMMA SendEffect ==
    ASSUME TypeOK, RowIsSound, NEW j \in sending, Send(j)
    PROVE  /\ \E k \in Job : /\ k.kind = IF j.kind = "create" THEN "sync" ELSE j.kind
                             /\ j.kind # "create" => k.user = j.user
                             /\ Adds(k)
           /\ sending' = (sending \ {j}) \cup FollowUp(j)
           /\ UNCHANGED <<row, moving, worker, node, asked, faults, disturbed, recovered>>
<1> DEFINE kind == IF j.kind = "create" THEN "sync" ELSE j.kind
<1> DEFINE user == IF j.kind = "create" THEN NoUser ELSE j.user
<1>1. kind \in Kinds /\ user \in Users \cup {NoUser} /\ (kind = "assign" => user # NoUser)
  BY DEF TypeOK, RowIsSound, Kinds
<1>2. waiting' = Append(waiting, NewJob(kind, user)) /\ delayed' = delayed
  BY DEF Send
<1>3. /\ sending' = (sending \ {j}) \cup FollowUp(j)
      /\ UNCHANGED <<row, moving, worker, node, asked, faults, disturbed, recovered>>
  BY DEF Send
<1> HIDE DEF kind, user
<1>4. /\ NewJob(kind, user) \in Job
      /\ NewJob(kind, user).kind = kind /\ NewJob(kind, user).user = user
  BY <1>1, NewJobs
<1>5. Adds(NewJob(kind, user))
  BY <1>2, <1>4, AppendEffect
<1>6. \E k \in Job : k.kind = kind /\ k.user = user /\ Adds(k)
  BY <1>4, <1>5
<1> QED
  BY <1>3, <1>6 DEF kind, user

LEMMA SentType ==
    ASSUME TypeOK, NEW j \in sending, sending' = (sending \ {j}) \cup FollowUp(j)
    PROVE  /\ SendingType'
           /\ \A i \in sending' : i.kind = "assign" /\ i \notin sending => i.user # NoUser
           /\ \A i \in sending' : i \in sending \/ (i.kind = "assign" /\ j.kind = "create")
           /\ \A i \in sending : i # j => i \in sending'
           /\ j.kind = "create" /\ j.user # NoUser
                 => \E i \in sending' : i.kind = "assign" /\ i.user = j.user
<1>1. j \in [kind : {"create", "sync", "delete", "assign"}, user : Users \cup {NoUser}]
  BY DEF TypeOK
<1>2. FollowUp(j) = IF j.kind = "create" /\ j.user # NoUser
                    THEN {[kind |-> "assign", user |-> j.user]} ELSE {}
  BY DEF FollowUp
<1>3. SendingType
  BY DEF TypeOK, SendingType
<1>4. CASE j.kind = "create" /\ j.user # NoUser
  <2> DEFINE i == [kind |-> "assign", user |-> j.user]
  <2>1. /\ i \in [kind : {"create", "sync", "delete", "assign"}, user : Users \cup {NoUser}]
        /\ i.kind = "assign" /\ i.user = j.user
    BY <1>1
  <2>2. sending' = (sending \ {j}) \cup {i}
    BY <1>2, <1>4
  <2> HIDE DEF i
  <2> QED
    BY <1>3, <1>4, <2>1, <2>2 DEF SendingType
<1>5. CASE ~(j.kind = "create" /\ j.user # NoUser)
  <2>1. sending' = sending \ {j}
    BY <1>2, <1>5
  <2> QED
    BY <1>3, <1>5, <2>1 DEF SendingType
<1> QED
  BY <1>4, <1>5

LEMMA FirstFits ==
    ASSUME NEW kind \in Kinds
    PROVE  /\ First(kind) \in {"read", "delete", "assign"}
           /\ Fits(kind, First(kind))
BY DEF Kinds, First, Fits

Ready(j) == [at |-> First(j.kind), job |-> j, read |-> NoRow, wrote |-> FALSE, alone |-> ~Busy]

LEMMA TakeEffect ==
    ASSUME TypeOK, NEW w \in Workers, Take(w)
    PROVE  /\ ~Works(w)
           /\ waiting' \in Seq(Job) /\ delayed' \in Seq(Job)
           /\ \E h \in Job : Queued = Queued' \cup {h} /\ worker'[w] = Ready(h)
           /\ worker'[w] \in Busyness
           /\ \A v \in Workers \ {w} :
                 /\ ~Works(v) => worker'[v] = Idle
                 /\ Works(v) => /\ worker'[v] \in Busyness
                                /\ worker'[v].at = worker[v].at /\ worker'[v].job = worker[v].job
                                /\ worker'[v].read = worker[v].read
                                /\ worker'[v].wrote = worker[v].wrote
                                /\ worker'[v].alone = FALSE
           /\ WorkersType'
           /\ disturbed' = (disturbed \/ Busy)
           /\ UNCHANGED <<row, moving, sending, node, asked, faults, recovered>>
<1> DEFINE h == Head(waiting)
<1>1. /\ waiting \in Seq(Job) /\ delayed \in Seq(Job) /\ waiting # <<>>
      /\ waiting' = Tail(waiting) /\ delayed' = delayed /\ ~Works(w)
      /\ disturbed' = (disturbed \/ Busy)
      /\ UNCHANGED <<row, moving, sending, node, asked, faults, recovered>>
  BY DEF Take, TypeOK, Works
<1>2. /\ h \in Job /\ waiting' \in Seq(Job)
      /\ Range(waiting) = {h} \cup Range(waiting')
  BY <1>1, HeadAndTail
<1>3. Queued = Queued' \cup {h}
  BY <1>1, <1>2 DEF Queued, Range
<1>4. worker' = [v \in Workers |-> IF v = w THEN Ready(h)
                                   ELSE IF worker[v] = Idle THEN Idle
                                   ELSE [worker[v] EXCEPT !.alone = FALSE]]
  BY DEF Take, Ready
<1> HIDE DEF h
<1>5. Ready(h) \in Busyness
  <2>1. h.kind \in Kinds
    BY <1>2 DEF Job
  <2>2. First(h.kind) \in Place
    BY <2>1, FirstFits DEF Place
  <2>3. NoRow \in Row
    BY BoundsAssumption DEF NoRow, Row
  <2>4. (~Busy) \in BOOLEAN
    BY Zenon
  <2> QED
    BY <1>2, <2>2, <2>3, <2>4 DEF Ready, Busyness
<1>6. ASSUME NEW v \in Workers, Works(v)
      PROVE  /\ [worker[v] EXCEPT !.alone = FALSE] \in Busyness
             /\ [worker[v] EXCEPT !.alone = FALSE].at = worker[v].at
             /\ [worker[v] EXCEPT !.alone = FALSE].job = worker[v].job
             /\ [worker[v] EXCEPT !.alone = FALSE].read = worker[v].read
             /\ [worker[v] EXCEPT !.alone = FALSE].wrote = worker[v].wrote
             /\ [worker[v] EXCEPT !.alone = FALSE].alone = FALSE
  <2>1. worker[v] \in Busyness
    BY <1>6, AtWork
  <2> QED
    BY <2>1 DEF Busyness
<1>7. worker'[w] = Ready(h)
  BY <1>4
<1>8. ASSUME NEW v \in Workers \ {w}
      PROVE  /\ ~Works(v) => worker'[v] = Idle
             /\ Works(v) => worker'[v] = [worker[v] EXCEPT !.alone = FALSE]
  BY <1>4 DEF Works
<1>9. WorkersType'
  <2>1. worker' = [v \in Workers |-> worker'[v]]
    BY <1>4
  <2>2. \A v \in Workers : worker'[v] = Idle \/ worker'[v] \in Busyness
    BY <1>5, <1>6, <1>7, <1>8
  <2> QED
    BY <2>1, <2>2 DEF WorkersType, Busyness
<1> QED
  BY <1>1, <1>2, <1>3, <1>5, <1>6, <1>7, <1>8, <1>9

LEMMA JobFailsEffect ==
    ASSUME TypeOK, NEW w \in Workers, JobFails(w)
    PROVE  /\ Works(w) /\ Ends(w) /\ WorkersType'
           /\ \/ /\ \E k \in Job : /\ k.kind = worker[w].job.kind /\ k.user = worker[w].job.user
                                   /\ Adds(k)
                 /\ disturbed' = disturbed
              \/ /\ waiting' = waiting /\ delayed' = delayed
                 /\ disturbed' = (disturbed \/ ~worker[w].wrote)
           /\ UNCHANGED <<row, moving, sending, node, asked, faults, recovered>>
<1>1. /\ Works(w) /\ Finish(w) /\ worker[w] \in Busyness
      /\ UNCHANGED <<row, moving, sending, waiting, node, asked, faults, recovered>>
  BY AtWork DEF JobFails, Works
<1>2. CASE Retry(w)
  <2> DEFINE k == [worker[w].job EXCEPT !.failures = @ + 1]
  <2>1. worker[w].job \in Job /\ worker[w].job.failures + 1 < Attempts
    BY <1>1, <1>2 DEF Busyness, Retry
  <2>2. k \in Job /\ k.kind = worker[w].job.kind /\ k.user = worker[w].job.user
    BY <2>1, AttemptsAssumption DEF Job
  <2>3. waiting' = waiting /\ delayed' = Append(delayed, k) /\ disturbed' = disturbed
    BY <1>1, <1>2 DEF Retry
  <2> HIDE DEF k
  <2>4. waiting \in Seq(Job) /\ delayed \in Seq(Job)
    BY DEF TypeOK
  <2>5. delayed' \in Seq(Job) /\ Range(delayed)' = Range(delayed) \cup {k}
    BY <2>2, <2>3, <2>4, Appended
  <2>6. Adds(k)
    BY <2>2, <2>3, <2>4, <2>5 DEF Adds, Queued, Range
  <2> QED
    BY <1>1, <2>2, <2>3, <2>6, FinishEffect
<1>3. CASE GiveUp(w)
  BY <1>1, <1>3, FinishEffect DEF GiveUp
<1> QED
  BY <1>2, <1>3 DEF JobFails

LEMMA WorkerDiesEffect ==
    ASSUME TypeOK, NEW w \in Workers, WorkerDies(w)
    PROVE  /\ Works(w) /\ Ends(w) /\ WorkersType'
           /\ \/ waiting' = waiting /\ delayed' = delayed /\ disturbed' = TRUE
              \/ /\ \E k \in Job : /\ k.kind = worker[w].job.kind /\ k.user = worker[w].job.user
                                   /\ Adds(k)
                 /\ disturbed' = disturbed
           /\ faults' \in 0 .. MaxFaults
           /\ UNCHANGED <<row, moving, sending, node, asked, recovered>>
<1>1. /\ Works(w) /\ Finish(w) /\ worker[w] \in Busyness
      /\ UNCHANGED <<row, moving, sending, delayed, node, asked, recovered>>
      /\ faults' \in 0 .. MaxFaults
  BY AtWork, BoundsAssumption DEF WorkerDies, Works, TypeOK
<1>2. CASE worker[w].job.stalled
  BY <1>1, <1>2, FinishEffect DEF WorkerDies
<1>3. CASE ~worker[w].job.stalled
  <2> DEFINE k == [worker[w].job EXCEPT !.stalled = TRUE]
  <2>1. worker[w].job \in Job
    BY <1>1 DEF Busyness
  <2>2. k \in Job /\ k.kind = worker[w].job.kind /\ k.user = worker[w].job.user
    BY <2>1 DEF Job
  <2>3. waiting' = <<k>> \o waiting /\ delayed' = delayed /\ disturbed' = disturbed
    BY <1>1, <1>3 DEF WorkerDies
  <2> HIDE DEF k
  <2>4. waiting \in Seq(Job) /\ delayed \in Seq(Job)
    BY DEF TypeOK
  <2>5. waiting' \in Seq(Job) /\ Range(waiting)' = {k} \cup Range(waiting)
    BY <2>2, <2>3, <2>4, Prepended
  <2>6. Adds(k)
    BY <2>2, <2>3, <2>4, <2>5 DEF Adds, Queued, Range
  <2> QED
    BY <1>1, <2>2, <2>3, <2>6, FinishEffect
<1> QED
  BY <1>2, <1>3

LEMMA BackoffEffect ==
    ASSUME TypeOK, NEW i \in DOMAIN delayed, BackoffEnds(i)
    PROVE  /\ waiting' \in Seq(Job) /\ delayed' \in Seq(Job)
           /\ Queued' = Queued
           /\ UNCHANGED <<row, moving, sending, worker, node, asked, faults, disturbed, recovered>>
<1>1. /\ waiting \in Seq(Job) /\ delayed \in Seq(Job)
      /\ waiting' = Append(waiting, delayed[i]) /\ delayed' = RemoveAt(delayed, i)
  BY DEF TypeOK, BackoffEnds
<1>2. /\ delayed' \in Seq(Job) /\ delayed[i] \in Job
      /\ Range(delayed) = {delayed[i]} \cup Range(delayed')
  BY <1>1, OneRemoved
<1>3. waiting' \in Seq(Job) /\ Range(waiting') = Range(waiting) \cup {delayed[i]}
  BY <1>1, <1>2, Appended
<1> QED
  BY <1>2, <1>3 DEF Queued, Range, BackoffEnds

-----------------------------------------------------------------------------
(* What the steps do to the row.                                            *)

LEMMA CreateEffect ==
    ASSUME TypeOK, RowIsSound, NEW u \in Users \cup {NoUser}, CreateTask(u)
    PROVE  /\ row.state = "absent" /\ row' \in Row /\ ~moving
           /\ row'.state = "live" /\ row'.rev = 1 /\ row'.assignee = u
           /\ sending' = sending \cup {[kind |-> "create", user |-> u]} /\ SendingType'
           /\ recovered' = FALSE
           /\ UNCHANGED <<moving, waiting, delayed, worker, node, asked, faults, disturbed>>
<1>1. /\ row' = [state |-> "live", rev |-> 1, assignee |-> u] /\ row.rev < MaxWrites
      /\ row.rev \in 0 .. MaxWrites
      /\ sending' = sending \cup {[kind |-> "create", user |-> u]}
  BY DEF CreateTask, Save, TypeOK, Row
<1>2. row' \in Row /\ SendingType'
  BY <1>1, BoundsAssumption DEF Row, SendingType, TypeOK
<1> QED
  BY <1>1, <1>2 DEF CreateTask, Save

LEMMA UpdateEffect ==
    ASSUME TypeOK, RowIsSound, NEW u \in Users \cup {NoUser}, UpdateTask(u)
    PROVE  /\ row.state = "live" /\ row' \in Row /\ ~moving
           /\ row'.state = "live" /\ row'.rev = row.rev + 1 /\ row'.assignee = u
           /\ sending \subseteq sending' /\ SendingType'
           /\ [kind |-> "sync", user |-> NoUser] \in sending'
           /\ u \notin {row.assignee, NoUser} => [kind |-> "assign", user |-> u] \in sending'
           /\ \A j \in sending' \ sending :
                 j.kind = "sync" \/ (j.kind = "assign" /\ j.user # NoUser)
           /\ recovered' = FALSE
           /\ UNCHANGED <<moving, waiting, delayed, worker, node, asked, faults, disturbed>>
<1> DEFINE new == {[kind |-> "sync", user |-> NoUser]}
            \cup IF u \notin {row.assignee, NoUser} THEN {[kind |-> "assign", user |-> u]} ELSE {}
<1>1. /\ row' = [row EXCEPT !.rev = @ + 1, !.assignee = u] /\ row.rev < MaxWrites
      /\ row \in Row /\ row.state = "live" /\ ~moving
      /\ sending' = sending \cup new
      /\ recovered' = FALSE
      /\ UNCHANGED <<moving, waiting, delayed, worker, node, asked, faults, disturbed>>
  BY DEF UpdateTask, Save, TypeOK
<1>2. /\ row' \in Row /\ row'.state = "live" /\ row'.rev = row.rev + 1 /\ row'.assignee = u
  <2>1. row.rev + 1 \in 0 .. MaxWrites
    BY <1>1, BoundsAssumption DEF Row
  <2>2. row' = [state |-> "live", rev |-> row.rev + 1, assignee |-> u]
    BY <1>1 DEF Row
  <2> QED
    BY <2>1, <2>2 DEF Row
<1>3. /\ new \subseteq [kind : {"create", "sync", "delete", "assign"}, user : Users \cup {NoUser}]
      /\ [kind |-> "sync", user |-> NoUser] \in new
      /\ u \notin {row.assignee, NoUser} => [kind |-> "assign", user |-> u] \in new
      /\ \A j \in new : j.kind = "sync" \/ (j.kind = "assign" /\ j.user # NoUser)
  OBVIOUS
<1> HIDE DEF new
<1> QED
  BY <1>1, <1>2, <1>3 DEF SendingType, TypeOK

LEMMA SoftDeleteEffect ==
    ASSUME TypeOK, RowIsSound, SoftDeleteTask
    PROVE  /\ row.state = "live" /\ row' \in Row /\ ~moving
           /\ row'.state = "deleted" /\ row'.rev = row.rev + 1
           /\ sending' = sending \cup {[kind |-> "delete", user |-> NoUser]} /\ SendingType'
           /\ recovered' = FALSE
           /\ UNCHANGED <<moving, waiting, delayed, worker, node, asked, faults, disturbed>>
<1>1. /\ row' = [row EXCEPT !.rev = @ + 1, !.state = "deleted"] /\ row.rev < MaxWrites
      /\ row \in Row
      /\ sending' = sending \cup {[kind |-> "delete", user |-> NoUser]}
  BY DEF SoftDeleteTask, Save, TypeOK
<1>2. /\ row' \in Row /\ row'.state = "deleted" /\ row'.rev = row.rev + 1 /\ SendingType'
  <2>1. row.rev + 1 \in 0 .. MaxWrites /\ row.assignee \in Users \cup {NoUser}
    BY <1>1, BoundsAssumption DEF Row
  <2>2. row' = [state |-> "deleted", rev |-> row.rev + 1, assignee |-> row.assignee]
    BY <1>1 DEF Row
  <2>3. SendingType'
    BY <1>1 DEF SendingType, TypeOK
  <2> QED
    BY <2>1, <2>2, <2>3 DEF Row
<1> QED
  BY <1>1, <1>2 DEF SoftDeleteTask, Save

LEMMA MoveEffect ==
    ASSUME TypeOK, MoveTask
    PROVE  /\ row.state = "live" /\ row.rev < MaxWrites /\ moving' = TRUE
           /\ \E k \in Job : k.kind = "sync" /\ Adds(k)
           /\ asked' \in 0 .. MaxAsked /\ recovered' = FALSE
           /\ UNCHANGED <<row, sending, worker, node, faults, disturbed>>
<1>1. /\ NewJob("sync", NoUser) \in Job /\ NewJob("sync", NoUser).kind = "sync"
  BY NewJobs DEF Kinds
<1>2. Adds(NewJob("sync", NoUser))
  BY <1>1, AppendEffect DEF MoveTask
<1> QED
  BY <1>1, <1>2, BoundsAssumption DEF MoveTask, TypeOK

LEMMA EndMoveEffect ==
    ASSUME TypeOK, RowIsSound, NEW c \in BOOLEAN, EndMove(c)
    PROVE  /\ moving /\ moving' = FALSE /\ row' \in Row
           /\ row'.state = row.state /\ row'.assignee = row.assignee
           /\ row'.rev = row.rev \/ row'.rev = row.rev + 1
           /\ UNCHANGED <<sending, waiting, delayed, worker, node, asked, faults, disturbed, recovered>>
<1>1. /\ moving /\ moving' = FALSE /\ row \in Row /\ row.rev < MaxWrites
      /\ row' = [row EXCEPT !.rev = @ + 1] \/ row' = row
      /\ UNCHANGED <<sending, waiting, delayed, worker, node, asked, faults, disturbed, recovered>>
  BY DEF EndMove, TypeOK, RowIsSound
<1>2. /\ row' \in Row /\ row'.state = row.state /\ row'.assignee = row.assignee
      /\ row'.rev = row.rev \/ row'.rev = row.rev + 1
  BY <1>1, BoundsAssumption DEF Row
<1> QED
  BY <1>1, <1>2

LEMMA RebuildEffect ==
    ASSUME TypeOK, RebuildOrgGraph
    PROVE  /\ \E k \in Job : k.kind = "rebuild" /\ Adds(k)
           /\ asked' \in 0 .. MaxAsked
           /\ UNCHANGED <<row, moving, sending, worker, node, faults, disturbed, recovered>>
<1>1. /\ NewJob("rebuild", NoUser) \in Job /\ NewJob("rebuild", NoUser).kind = "rebuild"
  BY NewJobs DEF Kinds
<1>2. Adds(NewJob("rebuild", NoUser))
  BY <1>1, AppendEffect DEF RebuildOrgGraph
<1> QED
  BY <1>1, <1>2, BoundsAssumption DEF RebuildOrgGraph, TypeOK

-----------------------------------------------------------------------------
(* Types.                                                                   *)

LEMMA TypesStep ==
    ASSUME TypeOK, RowIsSound, WorkersAreSound, [Next]_vars
    PROVE  TypeOK'
<1>0. TypeOK' <=> /\ row' \in Row
                  /\ moving' \in BOOLEAN /\ disturbed' \in BOOLEAN /\ recovered' \in BOOLEAN
                  /\ SendingType'
                  /\ waiting' \in Seq(Job) /\ delayed' \in Seq(Job)
                  /\ WorkersType' /\ node' \in Node
                  /\ asked' \in 0 .. MaxAsked /\ faults' \in 0 .. MaxFaults
  BY DEF TypeOK, SendingType, WorkersType, Busyness, Node
<1>00. /\ row \in Row
       /\ moving \in BOOLEAN /\ disturbed \in BOOLEAN /\ recovered \in BOOLEAN
       /\ SendingType
       /\ waiting \in Seq(Job) /\ delayed \in Seq(Job)
       /\ WorkersType /\ node \in Node
       /\ asked \in 0 .. MaxAsked /\ faults \in 0 .. MaxFaults
  BY DEF TypeOK, SendingType, WorkersType, Busyness, Node
<1>w. worker' = worker => WorkersType'
  BY <1>00 DEF WorkersType
<1>s. sending' = sending => SendingType'
  BY <1>00 DEF SendingType
<1>1. ASSUME NEW u \in Users \cup {NoUser}, CreateTask(u)
      PROVE  TypeOK'
  BY <1>0, <1>00, <1>w, <1>1, CreateEffect
<1>2. ASSUME NEW u \in Users \cup {NoUser}, UpdateTask(u)
      PROVE  TypeOK'
  BY <1>0, <1>00, <1>w, <1>2, UpdateEffect
<1>3. CASE SoftDeleteTask
  BY <1>0, <1>00, <1>w, <1>3, SoftDeleteEffect
<1>4. CASE MoveTask
  BY <1>0, <1>00, <1>w, <1>s, <1>4, MoveEffect DEF Adds
<1>5. CASE RebuildOrgGraph
  BY <1>0, <1>00, <1>w, <1>s, <1>5, RebuildEffect DEF Adds
<1>6. ASSUME NEW c \in BOOLEAN, EndMove(c)
      PROVE  TypeOK'
  BY <1>0, <1>00, <1>w, <1>s, <1>6, EndMoveEffect
<1>7. ASSUME NEW j \in sending, Send(j)
      PROVE  TypeOK'
  BY <1>0, <1>00, <1>w, <1>7, SendEffect, SentType DEF Adds
<1>8. ASSUME NEW j \in sending, SendFails(j)
      PROVE  TypeOK'
  <2>1. SendingType'
    BY <1>8, SentType DEF SendFails
  <2>2. faults' \in 0 .. MaxFaults
    BY <1>00, <1>8, BoundsAssumption DEF SendFails
  <2> QED
    BY <1>0, <1>00, <1>w, <1>8, <2>1, <2>2 DEF SendFails
<1>9. ASSUME NEW w \in Workers, Take(w)
      PROVE  TypeOK'
  <2>1. (disturbed \/ Busy) \in BOOLEAN
    BY Zenon
  <2> QED
    BY <1>0, <1>00, <1>s, <1>9, <2>1, TakeEffect
<1>10. ASSUME NEW w \in Workers, Work(w)
       PROVE  TypeOK'
  <2>1. CASE Read(w)
    BY <1>0, <1>00, <1>s, <2>1, ReadEffect
  <2>2. CASE SyncNode(w)
    BY <1>0, <1>00, <1>s, <2>2, SyncNodeEffect DEF Kept
  <2>3. CASE SyncEdge(w)
    BY <1>0, <1>00, <1>s, <2>3, SyncEdgeEffect DEF Kept
  <2>4. CASE DeleteNode(w)
    BY <1>0, <1>00, <1>s, <2>4, DeleteNodeEffect DEF Kept
  <2>5. CASE SyncTaskAssign(w)
    BY <1>0, <1>00, <1>s, <2>5, SyncTaskAssignEffect DEF Kept
  <2>6. CASE SyncTasks(w)
    BY <1>0, <1>00, <1>s, <2>6, SyncTasksEffect DEF Kept
  <2>7. CASE Unlink(w)
    BY <1>0, <1>00, <1>s, <2>7, UnlinkEffect DEF Kept
  <2>8. CASE Link(w)
    BY <1>0, <1>00, <1>s, <2>8, LinkEffect DEF Kept
  <2>9. CASE EndRebuild(w)
    <3>1. recovered' \in BOOLEAN
      BY <2>9, Zenon DEF EndRebuild
    <3> QED
      BY <1>0, <1>00, <1>s, <2>9, <3>1, EndRebuildEffect
  <2> QED
    BY <1>10, <2>1, <2>2, <2>3, <2>4, <2>5, <2>6, <2>7, <2>8, <2>9 DEF Work
<1>11. ASSUME NEW w \in Workers, JobFails(w)
       PROVE  TypeOK'
  BY <1>0, <1>00, <1>s, <1>11, JobFailsEffect DEF Adds
<1>12. ASSUME NEW w \in Workers, WorkerDies(w)
       PROVE  TypeOK'
  BY <1>0, <1>00, <1>s, <1>12, WorkerDiesEffect DEF Adds
<1>13. ASSUME NEW i \in DOMAIN delayed, BackoffEnds(i)
       PROVE  TypeOK'
  BY <1>0, <1>00, <1>s, <1>w, <1>13, BackoffEffect
<1>14. CASE UNCHANGED vars
  BY <1>0, <1>00, <1>s, <1>w, <1>14 DEF vars
<1> QED
  BY <1>1, <1>2, <1>3, <1>4, <1>5, <1>6, <1>7, <1>8, <1>9, <1>10, <1>11, <1>12, <1>13,
     <1>14 DEF Next

-----------------------------------------------------------------------------
(* Workers.                                                                 *)

Sound(w) ==
    Works(w) =>
        /\ Fits(worker[w].job.kind, worker[w].at)
        /\ worker[w].at \in {"read", "node", "delete", "assign", "tasks"} => ~worker[w].wrote
        /\ worker[w].at = "edge" => worker[w].read.assignee # NoUser
        /\ worker[w].read.state = "deleted" => row.state = "deleted"

LEMMA UnmovedIsSound ==
    ASSUME TypeOK, NEW v \in Workers, Sound(v),
           \/ worker'[v] = worker[v]
           \/ worker'[v] = Idle
           \/ /\ worker'[v].at = worker[v].at /\ worker'[v].job = worker[v].job
              /\ worker'[v].read = worker[v].read /\ worker'[v].wrote = worker[v].wrote
              /\ Works(v),
           row.state = "deleted" => row'.state = "deleted"
    PROVE  Sound(v)'
BY DEF Sound, Works

LEMMA WorkersStep ==
    ASSUME TypeOK, WorkersAreSound, RowIsSound, [Next]_vars
    PROVE  WorkersAreSound'
<1>0. /\ \A v \in Workers : Sound(v)
      /\ WorkersAreSound' <=> \A v \in Workers : Sound(v)'
  BY DEF WorkersAreSound, Sound, Works
<1>1. CASE worker' = worker /\ (row.state = "deleted" => row'.state = "deleted")
  BY <1>0, <1>1, UnmovedIsSound
<1>2. ASSUME NEW w \in Workers, Ends(w), row' = row
      PROVE  WorkersAreSound'
  BY <1>0, <1>2, UnmovedIsSound DEF Ends, Others
<1>3. ASSUME NEW w \in Workers, Others(w), Sound(w)', row' = row
      PROVE  WorkersAreSound'
  BY <1>0, <1>3, UnmovedIsSound DEF Others
<1>4. CASE \E u \in Users \cup {NoUser} : CreateTask(u) \/ UpdateTask(u)
  BY <1>1, <1>4, CreateEffect, UpdateEffect
<1>5. CASE SoftDeleteTask \/ MoveTask \/ RebuildOrgGraph \/ \E c \in BOOLEAN : EndMove(c)
  BY <1>1, <1>5, SoftDeleteEffect, MoveEffect, RebuildEffect, EndMoveEffect
<1>6. CASE \E j \in sending : Send(j) \/ SendFails(j)
  BY <1>1, <1>6 DEF Send, SendFails
<1>7. ASSUME NEW w \in Workers, Take(w)
      PROVE  WorkersAreSound'
  <2>1. PICK h \in Job : worker'[w] = Ready(h)
    BY <1>7, TakeEffect
  <2>2. h.kind \in Kinds
    BY DEF Job
  <2>3. /\ worker'[w].at = First(h.kind) /\ worker'[w].job = h /\ worker'[w].wrote = FALSE
        /\ worker'[w].read.state = "absent"
    BY <2>1 DEF Ready, NoRow
  <2>4. Sound(w)'
    BY <2>2, <2>3, FirstFits DEF Sound
  <2>5. row' = row
    BY <1>7, TakeEffect
  <2>6. ASSUME NEW v \in Workers \ {w}
        PROVE  Sound(v)'
    BY <1>0, <1>7, <2>5, TakeEffect, UnmovedIsSound DEF Works
  <2> QED
    BY <1>0, <2>4, <2>6
<1>8. ASSUME NEW w \in Workers, Work(w)
      PROVE  WorkersAreSound'
  <2>1. CASE Read(w)
    <3>1. /\ worker[w].at = "read" /\ Works(w) /\ Others(w) /\ row' = row
          /\ worker'[w].at = IF worker[w].job.kind = "sync" THEN "node" ELSE "tasks"
          /\ worker'[w].job = worker[w].job /\ worker'[w].read = row
          /\ worker'[w].wrote = worker[w].wrote
      BY <2>1, ReadEffect DEF Goes
    <3>2. Sound(w)'
      BY <1>0, <3>1 DEF Sound, Fits
    <3> QED
      BY <1>3, <3>1, <3>2
  <2>2. CASE SyncNode(w)
    <3>1. worker[w].at = "node" /\ Works(w) /\ row' = row
      BY <2>2, SyncNodeEffect DEF Kept
    <3>2. CASE Ends(w)
      BY <1>2, <3>1, <3>2
    <3>3. CASE /\ worker[w].read.assignee # NoUser
               /\ Goes(w, "edge") /\ KeepsRead(w) /\ worker'[w].wrote = TRUE
      <4>1. Sound(w)'
        BY <1>0, <3>1, <3>3 DEF Sound, Fits, Goes, KeepsRead
      <4> QED
        BY <1>3, <3>1, <3>3, <4>1 DEF Goes
    <3> QED
      BY <2>2, <3>2, <3>3, SyncNodeEffect
  <2>3. CASE SyncEdge(w) \/ DeleteNode(w) \/ SyncTaskAssign(w) \/ EndRebuild(w)
    BY <1>2, <2>3, SyncEdgeEffect, DeleteNodeEffect, SyncTaskAssignEffect, EndRebuildEffect
    DEF Kept
  <2>4. CASE SyncTasks(w) \/ Unlink(w) \/ Link(w)
    <3>1. PICK to \in {"unlink", "rebuilt", "link"} :
             /\ Goes(w, to) /\ KeepsRead(w) /\ Works(w) /\ row' = row
             /\ worker[w].at \in {"tasks", "unlink", "link"}
      BY <2>4, SyncTasksEffect, UnlinkEffect, LinkEffect DEF Kept
    <3>2. Sound(w)'
      BY <1>0, <3>1 DEF Sound, Fits, Goes, KeepsRead
    <3> QED
      BY <1>3, <3>1, <3>2 DEF Goes
  <2> QED
    BY <1>8, <2>1, <2>2, <2>3, <2>4 DEF Work
<1>9. ASSUME NEW w \in Workers, JobFails(w) \/ WorkerDies(w)
      PROVE  WorkersAreSound'
  BY <1>2, <1>9, JobFailsEffect, WorkerDiesEffect
<1>10. CASE \E i \in DOMAIN delayed : BackoffEnds(i)
  BY <1>1, <1>10, BackoffEffect
<1>11. CASE UNCHANGED vars
  BY <1>1, <1>11 DEF vars
<1> QED
  BY <1>4, <1>5, <1>6, <1>7, <1>8, <1>9, <1>10, <1>11 DEF Next

\* A rebuild that runs alone finds its own writes.
LEMMA RebuildsStep ==
    ASSUME TypeOK, WorkersAreSound, RowIsSound, RebuildsAlone, [Next]_vars
    PROVE  RebuildsAlone'
<1>1. CASE worker' = worker /\ node' = node
  BY <1>1 DEF RebuildsAlone, Works
<1>2. ASSUME NEW w \in Workers, Works(w), Ends(w)
      PROVE  RebuildsAlone'
  <2>1. ASSUME NEW v \in Workers, Works(v)', worker'[v].alone
        PROVE  FALSE
    <3>1. v # w /\ worker'[v] = worker[v] /\ Works(v)
      BY <1>2, <2>1 DEF Ends, Others, Works
    <3> QED
      BY <1>2, <2>1, <3>1 DEF RebuildsAlone
  <2> QED
    BY <2>1 DEF RebuildsAlone
<1>3. ASSUME NEW w \in Workers, NEW to \in Place, Works(w), Goes(w, to),
             to \in {"unlink", "link", "rebuilt"} /\ worker'[w].read.state = "live" /\ worker[w].alone
                => node'.there /\ node'.rev = worker'[w].read.rev
      PROVE  RebuildsAlone'
  <2>1. SUFFICES ASSUME NEW v \in Workers, Works(v)', worker'[v].alone
                 PROVE  /\ \A u \in Workers \ {v} : ~Works(u)'
                        /\ worker'[v].at \in {"unlink", "link", "rebuilt"} /\ worker'[v].read.state = "live"
                              => node'.there /\ node'.rev = worker'[v].read.rev
    BY DEF RebuildsAlone
  <2>2. CASE v = w
    <3>1. worker[w].alone
      BY <1>3, <2>1, <2>2 DEF Goes
    <3>2. \A u \in Workers \ {w} : ~Works(u)'
      BY <1>3, <3>1 DEF RebuildsAlone, Goes, Others, Works
    <3> QED
      BY <1>3, <2>2, <3>1, <3>2 DEF Goes
  <2>3. CASE v # w
    <3>1. worker'[v] = worker[v] /\ Works(v)
      BY <1>3, <2>1, <2>3 DEF Goes, Others, Works
    <3>2. FALSE
      BY <1>3, <2>1, <2>3, <3>1 DEF RebuildsAlone
    <3> QED
      BY <3>2
  <2> QED
    BY <2>2, <2>3
<1>4. CASE \E u \in Users \cup {NoUser} : CreateTask(u) \/ UpdateTask(u)
  BY <1>1, <1>4, CreateEffect, UpdateEffect
<1>5. CASE SoftDeleteTask \/ MoveTask \/ RebuildOrgGraph \/ \E c \in BOOLEAN : EndMove(c)
  BY <1>1, <1>5, SoftDeleteEffect, MoveEffect, RebuildEffect, EndMoveEffect
<1>6. CASE \E j \in sending : Send(j) \/ SendFails(j)
  BY <1>1, <1>6 DEF Send, SendFails
<1>7. ASSUME NEW w \in Workers, Take(w)
      PROVE  RebuildsAlone'
  <2>1. PICK h \in Job : worker'[w] = Ready(h)
    BY <1>7, TakeEffect
  <2>2. /\ worker'[w].at = First(h.kind) /\ worker'[w].alone = ~Busy
        /\ h.kind \in Kinds
    BY <2>1 DEF Ready, Job
  <2>3. worker'[w].at \in {"read", "delete", "assign"}
    BY <2>2, FirstFits
  <2>4. ASSUME NEW v \in Workers \ {w}, Works(v)'
        PROVE  Works(v) /\ worker'[v].alone = FALSE
    BY <1>7, <2>4, TakeEffect DEF Works
  <2>5. worker'[w].alone => \A v \in Workers \ {w} : ~Works(v)'
    BY <2>2, <2>4 DEF Busy, Works
  <2> QED
    BY <2>3, <2>4, <2>5 DEF RebuildsAlone
<1>8. ASSUME NEW w \in Workers, Work(w)
      PROVE  RebuildsAlone'
  <2>1. CASE Read(w)
    <3>1. Works(w) /\ Goes(w, IF worker[w].job.kind = "sync" THEN "node" ELSE "tasks")
      BY <2>1, ReadEffect
    <3> QED
      BY <1>3, <3>1 DEF Place
  <2>2. CASE SyncNode(w)
    <3>1. Works(w) /\ (Ends(w) \/ Goes(w, "edge"))
      BY <2>2, SyncNodeEffect
    <3> QED
      BY <1>2, <1>3, <3>1 DEF Place
  <2>3. CASE SyncEdge(w) \/ DeleteNode(w) \/ SyncTaskAssign(w) \/ EndRebuild(w)
    BY <1>2, <2>3, SyncEdgeEffect, DeleteNodeEffect, SyncTaskAssignEffect, EndRebuildEffect
  <2>4. CASE SyncTasks(w)
    <3>1. /\ Works(w) /\ KeepsRead(w)
          /\ \/ Goes(w, "unlink") /\ node'.there = TRUE /\ node'.rev = worker[w].read.rev
             \/ worker[w].read.state # "live" /\ Goes(w, "rebuilt")
      BY <2>4, SyncTasksEffect
    <3> QED
      BY <1>3, <3>1 DEF Place, KeepsRead
  <2>5. CASE Unlink(w) \/ Link(w)
    <3>1. PICK to \in {"link", "rebuilt"} : Goes(w, to)
      BY <2>5, UnlinkEffect, LinkEffect
    <3>2. /\ Works(w) /\ KeepsRead(w) /\ UNCHANGED Contents
          /\ worker[w].at \in {"unlink", "link"}
      BY <2>5, UnlinkEffect, LinkEffect
    <3>3. worker[w].alone /\ worker[w].read.state = "live"
             => node.there /\ node.rev = worker[w].read.rev
      BY <3>2 DEF RebuildsAlone
    <3> QED
      BY <1>3, <3>1, <3>2, <3>3 DEF Place, KeepsRead, Contents
  <2> QED
    BY <1>8, <2>1, <2>2, <2>3, <2>4, <2>5 DEF Work
<1>9. ASSUME NEW w \in Workers, JobFails(w) \/ WorkerDies(w)
      PROVE  RebuildsAlone'
  BY <1>2, <1>9, JobFailsEffect, WorkerDiesEffect
<1>10. CASE \E i \in DOMAIN delayed : BackoffEnds(i)
  BY <1>1, <1>10, BackoffEffect
<1>11. CASE UNCHANGED vars
  BY <1>1, <1>11 DEF vars
<1> QED
  BY <1>4, <1>5, <1>6, <1>7, <1>8, <1>9, <1>10, <1>11 DEF Next

-----------------------------------------------------------------------------
(* The row.                                                                 *)

LEMMA SameQueue ==
    ASSUME waiting' = waiting, delayed' = delayed
    PROVE  Queued' = Queued
BY DEF Queued, Range

LEMMA RowStep ==
    ASSUME TypeOK, WorkersAreSound, RowIsSound, [Next]_vars
    PROVE  RowIsSound'
<1>0. row.rev \in 0 .. MaxWrites /\ MaxWrites \in Nat
  BY BoundsAssumption DEF TypeOK, Row
<1>1. ASSUME NEW u \in Users \cup {NoUser}, CreateTask(u)
      PROVE  RowIsSound'
  <2>1. /\ row.state = "absent" /\ row'.state = "live" /\ row'.rev = 1 /\ ~moving
        /\ sending' = sending \cup {[kind |-> "create", user |-> u]}
        /\ UNCHANGED <<moving, waiting, delayed, worker, node>>
    BY <1>1, CreateEffect
  <2>2. Queued' = Queued
    BY <2>1, SameQueue
  <2> QED
    BY <2>1, <2>2 DEF RowIsSound
<1>2. ASSUME NEW u \in Users \cup {NoUser}, UpdateTask(u)
      PROVE  RowIsSound'
  <2>0. /\ row.state = "live" /\ row'.state = "live" /\ row'.rev = row.rev + 1 /\ ~moving
        /\ UNCHANGED <<moving, waiting, delayed, node, worker>>
    BY <1>2, UpdateEffect
  <2>1. row'.rev > 0 /\ ~moving' /\ Queued' = Queued
    BY <1>0, <2>0, SameQueue
  <2>2. \A j \in sending' \ sending : j.kind = "sync" \/ (j.kind = "assign" /\ j.user # NoUser)
    BY <1>2, UpdateEffect
  <2> QED
    BY <2>0, <2>1, <2>2 DEF RowIsSound
<1>3. CASE SoftDeleteTask
  <2>1. /\ row.state = "live" /\ row'.state = "deleted" /\ row'.rev > 0 /\ ~moving'
        /\ node' = node /\ sending' = sending \cup {[kind |-> "delete", user |-> NoUser]}
    BY <1>0, <1>3, SoftDeleteEffect
  <2> QED
    BY <2>1 DEF RowIsSound
<1>4. CASE MoveTask
  <2>1. PICK k \in Job : k.kind = "sync" /\ Adds(k)
    BY <1>4, MoveEffect
  <2>2. row.state = "live" /\ row.rev < MaxWrites /\ UNCHANGED <<row, sending, worker, node>>
    BY <1>4, MoveEffect
  <2> QED
    BY <2>1, <2>2 DEF RowIsSound, Adds
<1>14. CASE RebuildOrgGraph
  <2>1. PICK k \in Job : k.kind = "rebuild" /\ Adds(k)
    BY <1>14, RebuildEffect
  <2>2. UNCHANGED <<row, moving, sending, worker, node>>
    BY <1>14, RebuildEffect
  <2> QED
    BY <2>1, <2>2 DEF RowIsSound, Adds
<1>5. ASSUME NEW c \in BOOLEAN, EndMove(c)
      PROVE  RowIsSound'
  <2>1. /\ moving /\ ~moving' /\ row'.state = row.state /\ (row'.rev = row.rev \/ row'.rev = row.rev + 1)
        /\ UNCHANGED <<sending, worker, node>> /\ Queued' = Queued
    BY <1>5, EndMoveEffect, SameQueue
  <2> QED
    BY <1>0, <2>1 DEF RowIsSound
<1>6. ASSUME NEW j \in sending, Send(j)
      PROVE  RowIsSound'
  <2>1. PICK k \in Job : (k.kind = IF j.kind = "create" THEN "sync" ELSE j.kind) /\ Adds(k)
    BY <1>6, SendEffect
  <2>2. UNCHANGED <<row, moving, worker, node>>
    BY <1>6, SendEffect
  <2>3. /\ \A i \in sending' : i.kind = "assign" /\ i \notin sending => i.user # NoUser
        /\ \A i \in sending' : i \in sending \/ i.kind = "assign"
    BY <1>6, SendEffect, SentType
  <2> QED
    BY <2>1, <2>2, <2>3 DEF RowIsSound, Adds
<1>7. ASSUME NEW j \in sending, SendFails(j)
      PROVE  RowIsSound'
  <2>1. UNCHANGED <<row, moving, worker, node>> /\ Queued' = Queued
    BY <1>7, SameQueue DEF SendFails
  <2>2. /\ \A i \in sending' : i.kind = "assign" /\ i \notin sending => i.user # NoUser
        /\ \A i \in sending' : i \in sending \/ i.kind = "assign"
    BY <1>7, SentType DEF SendFails
  <2> QED
    BY <2>1, <2>2 DEF RowIsSound
<1>8. ASSUME NEW w \in Workers, Take(w)
      PROVE  RowIsSound'
  <2>1. PICK h \in Job : Queued = Queued' \cup {h} /\ worker'[w] = Ready(h)
    BY <1>8, TakeEffect
  <2>2. /\ UNCHANGED <<row, moving, sending, node>>
        /\ \A v \in Workers \ {w} : worker'[v].at \in {worker[v].at, "idle"}
    <3>1. UNCHANGED <<row, moving, sending, node>>
      BY <1>8, TakeEffect
    <3>2. ASSUME NEW v \in Workers \ {w}
          PROVE  worker'[v] = Idle \/ worker'[v].at = worker[v].at
      BY <1>8, TakeEffect
    <3> QED
      BY <3>1, <3>2 DEF Idle
  <2>3. worker'[w].at = "delete" => h.kind = "delete"
    <3>1. worker'[w].at = First(h.kind) /\ h.kind \in Kinds
      BY <2>1 DEF Ready, Job
    <3> QED
      BY <3>1 DEF First, Kinds
  <2> QED
    BY <2>1, <2>2, <2>3 DEF RowIsSound
<1>9. ASSUME NEW w \in Workers, Others(w), worker'[w].at # "delete",
             row' = row, moving' = moving, sending' = sending, Queued' = Queued,
             row.state # "deleted" => ~node'.deleted,
             ~node'.there => node'.rev = 0
      PROVE  RowIsSound'
  BY <1>9 DEF RowIsSound, Others
<1>10. ASSUME NEW w \in Workers, Work(w)
       PROVE  RowIsSound'
  <2>0. Kept => row' = row /\ moving' = moving /\ sending' = sending /\ Queued' = Queued
    BY SameQueue DEF Kept
  <2>1. CASE Read(w)
    BY <1>9, <2>1, ReadEffect, SameQueue DEF Goes, RowIsSound
  <2>2. CASE SyncNode(w)
    <3>1. /\ Others(w) /\ worker'[w].at # "delete" /\ Kept
          /\ node'.there = TRUE /\ Works(w)
          /\ node'.deleted = (worker[w].read.state = "deleted")
      <4>1. Ends(w) \/ Goes(w, "edge")
        BY <2>2, SyncNodeEffect
      <4>2. Others(w) /\ worker'[w].at # "delete"
        BY <4>1 DEF Goes, Ends, Idle
      <4> QED
        BY <2>2, <4>2, SyncNodeEffect
    <3> QED
      BY <1>9, <2>0, <3>1 DEF WorkersAreSound
  <2>3. CASE SyncEdge(w)
    BY <1>9, <2>0, <2>3, SyncEdgeEffect DEF Ends, Idle, RowIsSound, Contents
  <2>4. CASE DeleteNode(w)
    BY <1>9, <2>0, <2>4, DeleteNodeEffect DEF Ends, Idle, NoNode
  <2>5. CASE SyncTaskAssign(w)
    <3>1. Ends(w) /\ node'.there = TRUE /\ node'.deleted = node.deleted /\ Kept
      BY <2>5, SyncTaskAssignEffect
    <3> QED
      BY <1>9, <2>0, <3>1 DEF Ends, Idle, RowIsSound
  <2>6. CASE SyncTasks(w)
    BY <1>9, <2>0, <2>6, SyncTasksEffect DEF Goes, RowIsSound
  <2>7. CASE Unlink(w) \/ Link(w)
    BY <1>9, <2>0, <2>7, UnlinkEffect, LinkEffect DEF Goes, RowIsSound, Contents
  <2>8. CASE EndRebuild(w)
    <3>1. Ends(w) /\ UNCHANGED <<row, moving, sending, waiting, delayed, node>>
      BY <2>8, EndRebuildEffect
    <3> QED
      BY <1>9, <3>1, SameQueue DEF Ends, Idle, RowIsSound
  <2> QED
    BY <1>10, <2>1, <2>2, <2>3, <2>4, <2>5, <2>6, <2>7, <2>8 DEF Work
<1>11. ASSUME NEW w \in Workers, JobFails(w) \/ WorkerDies(w)
       PROVE  RowIsSound'
  <2>1. /\ Works(w) /\ Ends(w) /\ UNCHANGED <<row, moving, sending, node>>
        /\ \/ \E k \in Job : k.kind = worker[w].job.kind /\ Adds(k)
           \/ Queued' = Queued
    BY <1>11, JobFailsEffect, WorkerDiesEffect, SameQueue
  <2>2. worker[w].job.kind = "delete" => worker[w].at = "delete"
    BY <2>1 DEF WorkersAreSound, Fits
  <2>3. \A v \in Workers : worker'[v].at = "delete" => worker[v].at = "delete"
    BY <2>1 DEF Ends, Others, Idle
  <2> QED
    BY <2>1, <2>2, <2>3 DEF RowIsSound, Adds
<1>12. ASSUME NEW i \in DOMAIN delayed, BackoffEnds(i)
       PROVE  RowIsSound'
  BY <1>12, BackoffEffect DEF RowIsSound
<1>13. CASE UNCHANGED vars
  BY <1>13, SameQueue DEF vars, RowIsSound
<1> QED
  BY <1>1, <1>2, <1>3, <1>4, <1>5, <1>6, <1>7, <1>8, <1>10, <1>11, <1>12, <1>13, <1>14 DEF Next

-----------------------------------------------------------------------------
(* A rebuild on its own.                                                    *)

LEMMA RecoveredStep ==
    ASSUME TypeOK, WorkersAreSound, RowIsSound, RebuildsAlone, recovered => Recovered,
           [Next]_vars, recovered'
    PROVE  Recovered'
<1>1. CASE \E w \in Workers : EndRebuild(w)
  <2>1. PICK w \in Workers : EndRebuild(w)
    BY <1>1
  <2>2. /\ Works(w) /\ worker[w].at = "rebuilt" /\ Ends(w)
        /\ sending = {} /\ waiting = <<>> /\ delayed = <<>> /\ ~moving
        /\ worker[w].alone /\ worker[w].read = row
        /\ UNCHANGED <<row, moving, sending, waiting, delayed, node>>
    BY <2>1, EndRebuildEffect
  <2>3. Queued' = {}
    BY <2>2 DEF Queued, Range
  <2>4. \A v \in Workers : ~Works(v)'
    BY <2>2 DEF RebuildsAlone, Ends, Others, Works
  <2>5. row.state = "live" => node.there /\ node.rev = row.rev
    BY <2>2 DEF RebuildsAlone
  <2> QED
    BY <2>2, <2>3, <2>4, <2>5 DEF Recovered
<1>2. CASE ~(\E w \in Workers : EndRebuild(w)) /\ ~recovered
  BY <1>2, CreateEffect, UpdateEffect, SoftDeleteEffect, MoveEffect
  DEF Next, Work, RebuildOrgGraph, EndMove, Send, SendFails, Take, Read, JobFails, WorkerDies,
      BackoffEnds, SyncNode, SyncEdge, DeleteNode, SyncTaskAssign, SyncTasks, Unlink, Link, Graph, vars
<1>3. CASE recovered /\ ~(\E w \in Workers : EndRebuild(w))
  <2>0. Recovered
    BY <1>3
  <2>1. ASSUME NEW w \in Workers, Others(w), UNCHANGED <<row, moving, sending>>,
               \A j \in Queued' : j.kind = "rebuild",
               Works(w)' => /\ worker'[w].job.kind = "rebuild"
                            /\ worker'[w].at # "read" => worker'[w].read = row,
               row.state = "live" => node'.there /\ node'.rev = row.rev
        PROVE  Recovered'
    BY <2>0, <2>1 DEF Recovered, Others, Works
  <2>2. ~\E u \in Users \cup {NoUser} : CreateTask(u) \/ UpdateTask(u)
    BY CreateEffect, UpdateEffect
  <2>3. ~(SoftDeleteTask \/ MoveTask)
    BY SoftDeleteEffect, MoveEffect
  <2>4. ~\E c \in BOOLEAN : EndMove(c)
    BY <2>0 DEF Recovered, EndMove
  <2>5. sending = {}
    BY <2>0 DEF Recovered
  <2>6. CASE RebuildOrgGraph
    <3>1. /\ \E k \in Job : k.kind = "rebuild" /\ Adds(k)
          /\ UNCHANGED <<row, moving, sending, worker, node>>
      BY <2>6, RebuildEffect
    <3> QED
      BY <2>0, <3>1 DEF Recovered, Adds, Works
  <2>7. ASSUME NEW w \in Workers, Take(w)
        PROVE  Recovered'
    <3>1. PICK h \in Job : Queued = Queued' \cup {h} /\ worker'[w] = Ready(h)
      BY <2>7, TakeEffect
    <3>2. h.kind = "rebuild"
      BY <2>0, <3>1 DEF Recovered
    <3>3. worker'[w].at = "read" /\ worker'[w].job = h
      BY <3>1, <3>2 DEF Ready, First
    <3>4. ASSUME NEW v \in Workers \ {w}, Works(v)'
          PROVE  /\ Works(v) /\ worker'[v].at = worker[v].at /\ worker'[v].job = worker[v].job
                 /\ worker'[v].read = worker[v].read
      BY <2>7, <3>4, TakeEffect DEF Works
    <3>5. UNCHANGED <<row, moving, sending, node>>
      BY <2>7, TakeEffect
    <3>6. ASSUME NEW v \in Workers, Works(v)'
          PROVE  /\ worker'[v].job.kind = "rebuild"
                 /\ worker'[v].at # "read" => worker'[v].read = row'
      <4>1. CASE v = w
        BY <3>2, <3>3, <4>1
      <4>2. CASE v # w
        BY <2>0, <3>4, <3>5, <3>6, <4>2 DEF Recovered
      <4> QED
        BY <4>1, <4>2
    <3> QED
      BY <2>0, <3>1, <3>5, <3>6 DEF Recovered
  <2>8. ASSUME NEW w \in Workers, Work(w)
        PROVE  Recovered'
    <3>0. Kept => UNCHANGED <<row, moving, sending>> /\ Queued' = Queued
      BY SameQueue DEF Kept
    <3>1. Works(w) => worker[w].at \in {"read", "tasks", "unlink", "link", "rebuilt"}
      BY <2>0 DEF Recovered, WorkersAreSound, Fits
    <3>2. ~(SyncNode(w) \/ SyncEdge(w) \/ DeleteNode(w) \/ SyncTaskAssign(w))
      BY <3>1, SyncNodeEffect, SyncEdgeEffect, DeleteNodeEffect, SyncTaskAssignEffect
    <3>3. CASE Read(w)
      <4>1. Works(w) /\ worker[w].job.kind = "rebuild"
        BY <2>0, <3>3, ReadEffect DEF Recovered
      <4>2. /\ Others(w) /\ worker'[w].job = worker[w].job /\ worker'[w].read = row
            /\ UNCHANGED <<row, moving, sending, node>> /\ Queued' = Queued
        BY <3>3, ReadEffect, SameQueue DEF Goes
      <4> QED
        BY <2>0, <2>1, <4>1, <4>2 DEF Recovered
    <3>4. CASE SyncTasks(w)
      <4>1. worker[w].read = row /\ worker[w].job.kind = "rebuild"
        <5>1. Works(w) /\ worker[w].at = "tasks"
          BY <3>4, SyncTasksEffect
        <5> QED
          BY <2>0, <5>1 DEF Recovered
      <4>2. /\ Others(w) /\ worker'[w].job = worker[w].job /\ worker'[w].read = row
            /\ row.state = "live" => node'.there /\ node'.rev = row.rev
            /\ Kept
        BY <3>4, <4>1, SyncTasksEffect DEF Goes, KeepsRead
      <4> QED
        BY <2>0, <2>1, <3>0, <4>1, <4>2 DEF Recovered
    <3>5. CASE Unlink(w) \/ Link(w)
      <4>1. Works(w) /\ worker[w].at \in {"unlink", "link"}
        BY <3>5, UnlinkEffect, LinkEffect
      <4>2. worker[w].read = row /\ worker[w].job.kind = "rebuild"
        BY <2>0, <4>1 DEF Recovered
      <4>3. /\ Others(w) /\ worker'[w].job = worker[w].job /\ worker'[w].read = row
            /\ UNCHANGED Contents /\ Kept
        BY <3>5, <4>2, UnlinkEffect, LinkEffect DEF Goes, KeepsRead
      <4> QED
        BY <2>0, <2>1, <3>0, <4>2, <4>3 DEF Recovered, Contents
    <3> QED
      BY <1>3, <2>8, <3>2, <3>3, <3>4, <3>5 DEF Work
  <2>9. ASSUME NEW w \in Workers, JobFails(w) \/ WorkerDies(w)
        PROVE  Recovered'
    <3>1. /\ Works(w) /\ Ends(w) /\ UNCHANGED <<row, moving, sending, node>>
          /\ \/ \E k \in Job : k.kind = worker[w].job.kind /\ Adds(k)
             \/ Queued' = Queued
      BY <2>9, JobFailsEffect, WorkerDiesEffect, SameQueue
    <3>2. \A j \in Queued' : j.kind = "rebuild"
      BY <2>0, <3>1 DEF Recovered, Adds
    <3> QED
      BY <2>0, <2>1, <3>1, <3>2 DEF Recovered, Ends, Works
  <2>10. CASE \E i \in DOMAIN delayed : BackoffEnds(i)
    <3>1. Queued' = Queued /\ UNCHANGED <<row, moving, sending, worker, node>>
      BY <2>10, BackoffEffect
    <3> QED
      BY <2>0, <3>1 DEF Recovered, Works
  <2>11. CASE UNCHANGED vars
    <3>1. Queued' = Queued /\ UNCHANGED <<row, moving, sending, worker, node>>
      BY <2>11, SameQueue DEF vars
    <3> QED
      BY <2>0, <3>1 DEF Recovered, Works
  <2> QED
    BY <2>2, <2>3, <2>4, <2>5, <2>6, <2>7, <2>8, <2>9, <2>10, <2>11 DEF Next
<1> QED
  BY <1>1, <1>2, <1>3

-----------------------------------------------------------------------------
(* Jobs that are still to come.                                             *)

LEMMA GrowingKeeps ==
    ASSUME sending \subseteq sending', Queued \subseteq Queued', worker' = worker
    PROVE  /\ SyncToCome => SyncToCome'
           /\ DeleteToCome => DeleteToCome'
           /\ \A u : AssignToCome(u) => AssignToCome(u)'
BY DEF SyncToCome, DeleteToCome, AssignToCome

LEMMA SendKeeps ==
    ASSUME TypeOK, RowIsSound, NEW j \in sending, Send(j)
    PROVE  /\ SyncToCome => SyncToCome'
           /\ DeleteToCome => DeleteToCome'
           /\ \A u \in Users : AssignToCome(u) => AssignToCome(u)'
<1>1. PICK k \in Job : /\ k.kind = IF j.kind = "create" THEN "sync" ELSE j.kind
                       /\ j.kind # "create" => k.user = j.user
                       /\ Adds(k)
  BY SendEffect
<1>2. worker' = worker /\ sending' = (sending \ {j}) \cup FollowUp(j)
  BY SendEffect
<1>3. /\ \A i \in sending : i # j => i \in sending'
      /\ j.kind = "create" /\ j.user # NoUser
             => \E i \in sending' : i.kind = "assign" /\ i.user = j.user
  BY <1>2, SentType
<1>4. Queued' = Queued \cup {k}
  BY <1>1 DEF Adds
<1>5. SyncToCome => SyncToCome'
  BY <1>1, <1>2, <1>3, <1>4 DEF SyncToCome
<1>6. DeleteToCome => DeleteToCome'
  BY <1>1, <1>2, <1>3, <1>4 DEF DeleteToCome
<1>7. ASSUME NEW u \in Users, AssignToCome(u)
      PROVE  AssignToCome(u)'
  <2>1. u # NoUser
    BY NoUserAssumption
  <2> QED
    BY <1>1, <1>2, <1>3, <1>4, <1>7, <2>1 DEF AssignToCome
<1> QED
  BY <1>5, <1>6, <1>7

LEMMA TakeKeeps ==
    ASSUME TypeOK, NEW w \in Workers, Take(w)
    PROVE  /\ SyncToCome => SyncToCome'
           /\ DeleteToCome => DeleteToCome'
           /\ \A u \in Users : AssignToCome(u) => AssignToCome(u)'
<1>1. PICK h \in Job : Queued = Queued' \cup {h} /\ worker'[w] = Ready(h)
  BY TakeEffect
<1>2. sending' = sending /\ worker[w].at = "idle"
  <2>1. sending' = sending /\ ~Works(w)
    BY TakeEffect
  <2> QED
    BY <2>1 DEF Works, Idle
<1>3. ASSUME NEW v \in Workers, worker[v].at # "idle"
      PROVE  worker'[v].at = worker[v].at /\ worker'[v].job = worker[v].job
  BY <1>2, <1>3, AtWork, TakeEffect
<1>4. worker'[w].job = h /\ worker'[w].at = First(h.kind)
  BY <1>1 DEF Ready
<1>5. SyncToCome => SyncToCome'
  BY <1>1, <1>2, <1>3, <1>4 DEF SyncToCome, First
<1>6. DeleteToCome => DeleteToCome'
  BY <1>1, <1>2, <1>3, <1>4 DEF DeleteToCome, First
<1>7. ASSUME NEW u \in Users, AssignToCome(u)
      PROVE  AssignToCome(u)'
  BY <1>1, <1>2, <1>3, <1>4, <1>7 DEF AssignToCome, First
<1> QED
  BY <1>5, <1>6, <1>7

\* A job that fails or loses its worker comes back, or the loss is recorded.
LEMMA LossKeeps ==
    ASSUME TypeOK, WorkersAreSound, NEW w \in Workers, JobFails(w) \/ WorkerDies(w), ~disturbed'
    PROVE  /\ SyncToCome => SyncToCome'
           /\ DeleteToCome => DeleteToCome'
           /\ \A u \in Users : AssignToCome(u) => AssignToCome(u)'
           /\ worker[w].at = "node" => SyncToCome'
<1>1. /\ Works(w) /\ Ends(w) /\ sending' = sending
      /\ \/ \E k \in Job : k.kind = worker[w].job.kind /\ k.user = worker[w].job.user /\ Adds(k)
         \/ worker[w].wrote /\ Queued' = Queued
  <2>1. CASE JobFails(w)
    BY <2>1, JobFailsEffect, SameQueue
  <2>2. CASE WorkerDies(w)
    BY <2>2, WorkerDiesEffect
  <2> QED
    BY <2>1, <2>2
<1>2. \A v \in Workers \ {w} : worker'[v] = worker[v]
  BY <1>1 DEF Ends, Others
<1>3. CASE worker[w].wrote /\ Queued' = Queued
  <2>1. worker[w].at \notin {"read", "node", "delete", "assign"}
    BY <1>1, <1>3 DEF WorkersAreSound
  <2> QED
    BY <1>1, <1>2, <1>3, <2>1 DEF SyncToCome, DeleteToCome, AssignToCome
<1>4. ASSUME NEW k \in Job, k.kind = worker[w].job.kind, k.user = worker[w].job.user, Adds(k)
      PROVE  /\ SyncToCome => SyncToCome'
             /\ DeleteToCome => DeleteToCome'
             /\ \A u \in Users : AssignToCome(u) => AssignToCome(u)'
             /\ worker[w].at = "node" => SyncToCome'
  <2>1. Queued' = Queued \cup {k}
    BY <1>4 DEF Adds
  <2>2. /\ worker[w].at = "node" => k.kind = "sync"
        /\ worker[w].at = "delete" => k.kind = "delete"
        /\ worker[w].at = "assign" => k.kind = "assign"
    BY <1>1, <1>4 DEF WorkersAreSound, Fits
  <2>3. /\ SyncToCome => SyncToCome'
        /\ worker[w].at = "node" => SyncToCome'
    BY <1>1, <1>2, <1>4, <2>1, <2>2 DEF SyncToCome
  <2>4. DeleteToCome => DeleteToCome'
    BY <1>1, <1>2, <1>4, <2>1, <2>2 DEF DeleteToCome
  <2>5. \A u \in Users : AssignToCome(u) => AssignToCome(u)'
    BY <1>1, <1>2, <1>4, <2>1, <2>2 DEF AssignToCome
  <2> QED
    BY <2>3, <2>4, <2>5
<1> QED
  BY <1>1, <1>3, <1>4

LEMMA WorkKeeps ==
    ASSUME NEW w \in Workers, Others(w), sending' = sending, Queued' = Queued
    PROVE  /\ SyncToCome => SyncToCome' \/ (worker[w].at = "read" /\ worker[w].job.kind = "sync")
           /\ DeleteToCome => DeleteToCome' \/ worker[w].at = "delete"
           /\ \A u \in Users : AssignToCome(u) =>
                 AssignToCome(u)' \/ (worker[w].at = "assign" /\ worker[w].job.user = u)
BY DEF Others, SyncToCome, DeleteToCome, AssignToCome

-----------------------------------------------------------------------------
(* As long as nothing is lost and nothing overlaps.                         *)

LEMMA SingleStep ==
    ASSUME TypeOK, WorkersAreSound, RowIsSound, Single, [Next]_vars, ~disturbed'
    PROVE  Single'
<1>1. CASE \A w \in Workers : Works(w)' => Works(w)
  BY <1>1 DEF Single
<1>2. CASE worker' = worker
  BY <1>1, <1>2 DEF Works
<1>3. ASSUME NEW w \in Workers, Works(w), Others(w)
      PROVE  Single'
  BY <1>1, <1>3 DEF Others, Works
<1>4. ASSUME NEW w \in Workers, Take(w)
      PROVE  Single'
  <2>1. ~Busy
    BY <1>4, TakeEffect
  <2>2. \A v \in Workers \ {w} : worker'[v] = Idle
    BY <1>4, <2>1, TakeEffect DEF Busy, Works
  <2> QED
    BY <2>2 DEF Single, Works
<1>5. ASSUME NEW w \in Workers, Work(w)
      PROVE  Single'
  <2>1. CASE Read(w) \/ EndRebuild(w)
    BY <1>3, <2>1, ReadEffect, EndRebuildEffect DEF Goes, Ends
  <2>2. CASE SyncNode(w)
    <3>1. Works(w) /\ (Ends(w) \/ Goes(w, "edge"))
      BY <2>2, SyncNodeEffect
    <3> QED
      BY <1>3, <3>1 DEF Goes, Ends
  <2>3. CASE SyncEdge(w) \/ DeleteNode(w) \/ SyncTaskAssign(w)
    BY <1>3, <2>3, SyncEdgeEffect, DeleteNodeEffect, SyncTaskAssignEffect DEF Ends
  <2>4. CASE SyncTasks(w) \/ Unlink(w) \/ Link(w)
    BY <1>3, <2>4, SyncTasksEffect, UnlinkEffect, LinkEffect DEF Goes
  <2> QED
    BY <1>5, <2>1, <2>2, <2>3, <2>4 DEF Work
<1>6. ASSUME NEW w \in Workers, JobFails(w) \/ WorkerDies(w)
      PROVE  Single'
  BY <1>3, <1>6, JobFailsEffect, WorkerDiesEffect DEF Ends
<1>7. CASE \E u \in Users \cup {NoUser} : CreateTask(u) \/ UpdateTask(u)
  BY <1>2, <1>7, CreateEffect, UpdateEffect
<1>8. CASE SoftDeleteTask \/ MoveTask \/ RebuildOrgGraph \/ \E c \in BOOLEAN : EndMove(c)
  BY <1>2, <1>8, SoftDeleteEffect, MoveEffect, RebuildEffect, EndMoveEffect
<1>9. CASE \/ \E j \in sending : Send(j) \/ SendFails(j)
           \/ \E i \in DOMAIN delayed : BackoffEnds(i)
           \/ UNCHANGED vars
  BY <1>2, <1>9 DEF Send, SendFails, BackoffEnds, vars
<1> QED
  BY <1>4, <1>5, <1>6, <1>7, <1>8, <1>9 DEF Next

\* What each part of FreshLive says.
NodeIsFresh == node.there /\ node.rev = row.rev
Linked == row.assignee # NoUser => row.assignee \in node.out \/ AssignToCome(row.assignee)
Nodes == {w \in Workers : worker[w].at = "node" /\ worker[w].read = row}
ReadsAreFresh == \A w \in Workers : worker[w].at \in {"node", "tasks"} => worker[w].read = row
Written == ~moving /\ ReadsAreFresh /\ (NodeIsFresh \/ Nodes # {})

LEMMA FreshLiveParts ==
    FreshLive <=> (row.state = "live" => (SyncToCome \/ Written) /\ Linked)
BY DEF FreshLive, NodeIsFresh, Linked, Nodes, ReadsAreFresh, Written

LEMMA FreshLiveStep ==
    ASSUME TypeOK, WorkersAreSound, RowIsSound, Undisturbed, [Next]_vars, ~disturbed'
    PROVE  FreshLive'
<1>0. /\ FreshLive' <=> (row'.state = "live" => (SyncToCome' \/ Written') /\ Linked')
      /\ row.state = "live" => (SyncToCome \/ Written) /\ Linked
      /\ row.assignee \in Users \cup {NoUser} /\ row'.assignee \in Users \cup {NoUser}
  <2>1. TypeOK'
    BY TypesStep
  <2>2. row \in Row /\ row' \in Row
    BY <2>1 DEF TypeOK
  <2>3. FreshLive => (row.state = "live" => (SyncToCome \/ Written) /\ Linked)
    BY FreshLiveParts
  <2>4. FreshLive' <=> (row'.state = "live" => (SyncToCome' \/ Written') /\ Linked')
    BY DEF FreshLive, NodeIsFresh, Linked, Nodes, ReadsAreFresh, Written
  <2> QED
    BY <2>2, <2>3, <2>4 DEF Row, Undisturbed
<1>1. ASSUME NEW u \in Users \cup {NoUser}, CreateTask(u)
      PROVE  FreshLive'
  <2>1. row'.assignee = u /\ sending' = sending \cup {[kind |-> "create", user |-> u]}
    BY <1>1, CreateEffect
  <2> DEFINE new == [kind |-> "create", user |-> u]
  <2>2. new \in sending' /\ new.kind = "create" /\ new.user = u
    BY <2>1
  <2> HIDE DEF new
  <2>3. SyncToCome' /\ AssignToCome(u)'
    BY <2>2 DEF SyncToCome, AssignToCome
  <2> QED
    BY <1>0, <2>1, <2>3 DEF Linked
<1>2. ASSUME NEW u \in Users \cup {NoUser}, UpdateTask(u)
      PROVE  FreshLive'
  <2>1. /\ row.state = "live" /\ row'.assignee = u /\ sending \subseteq sending'
        /\ [kind |-> "sync", user |-> NoUser] \in sending'
        /\ u \notin {row.assignee, NoUser} => [kind |-> "assign", user |-> u] \in sending'
        /\ UNCHANGED <<waiting, delayed, worker, node>>
    BY <1>2, UpdateEffect
  <2>2. SyncToCome'
    BY <2>1 DEF SyncToCome
  <2>3. Linked'
    <3>1. CASE u = row.assignee
      BY <1>0, <2>1, <3>1, SameQueue, GrowingKeeps DEF Linked
    <3>2. CASE u # row.assignee
      BY <2>1, <3>2 DEF Linked, AssignToCome
    <3> QED
      BY <3>1, <3>2
  <2> QED
    BY <1>0, <2>2, <2>3
<1>3. CASE SoftDeleteTask
  <2>1. row'.state = "deleted"
    BY <1>3, SoftDeleteEffect
  <2> QED
    BY <1>0, <2>1
<1>4. CASE MoveTask
  <2>1. PICK k \in Job : k.kind = "sync" /\ Adds(k)
    BY <1>4, MoveEffect
  <2>2. UNCHANGED <<row, sending, worker, node>>
    BY <1>4, MoveEffect
  <2>3. SyncToCome'
    BY <2>1 DEF SyncToCome, Adds
  <2>4. Linked => Linked'
    BY <2>1, <2>2, GrowingKeeps DEF Linked, Adds
  <2> QED
    BY <1>0, <2>2, <2>3, <2>4
<1>5. ASSUME sending \subseteq sending', Queued \subseteq Queued', worker' = worker,
             row' = row, moving' = moving, node' = node
      PROVE  FreshLive'
  <2>1. /\ SyncToCome => SyncToCome'
        /\ \A u \in Users : AssignToCome(u) => AssignToCome(u)'
    BY <1>5, GrowingKeeps
  <2>2. Written => Written'
    BY <1>5 DEF Written, ReadsAreFresh, NodeIsFresh, Nodes
  <2>3. Linked => Linked'
    BY <1>0, <1>5, <2>1 DEF Linked
  <2> QED
    BY <1>0, <1>5, <2>1, <2>2, <2>3
<1>6. CASE RebuildOrgGraph
  <2>1. PICK k \in Job : k.kind = "rebuild" /\ Adds(k)
    BY <1>6, RebuildEffect
  <2>2. UNCHANGED <<row, moving, sending, worker, node>>
    BY <1>6, RebuildEffect
  <2> QED
    BY <1>5, <2>1, <2>2 DEF Adds
<1>7. ASSUME NEW c \in BOOLEAN, EndMove(c)
      PROVE  FreshLive'
  <2>1. /\ moving /\ row'.state = row.state /\ row'.assignee = row.assignee
        /\ UNCHANGED <<sending, waiting, delayed, worker, node>>
    BY <1>7, EndMoveEffect
  <2>2. Queued' = Queued
    BY <2>1, SameQueue
  <2>3. Linked => Linked'
    BY <1>0, <2>1, <2>2, GrowingKeeps DEF Linked
  <2>4. SyncToCome => SyncToCome'
    BY <2>1, <2>2, GrowingKeeps
  <2> QED
    BY <1>0, <2>1, <2>3, <2>4 DEF Written
<1>8. ASSUME NEW j \in sending, Send(j)
      PROVE  FreshLive'
  <2>1. UNCHANGED <<row, moving, worker, node>>
    BY <1>8, SendEffect
  <2>2. Written => Written'
    BY <2>1 DEF Written, ReadsAreFresh, NodeIsFresh, Nodes
  <2>3. Linked => Linked'
    BY <1>0, <1>8, <2>1, SendKeeps DEF Linked
  <2>4. SyncToCome => SyncToCome'
    BY <1>8, SendKeeps
  <2> QED
    BY <1>0, <2>1, <2>2, <2>3, <2>4
<1>9. ~\E j \in sending : SendFails(j)
  BY DEF SendFails
<1>10. ASSUME NEW w \in Workers, Take(w)
       PROVE  FreshLive'
  <2>1. UNCHANGED <<row, moving, sending, node>> /\ ~Works(w)
    BY <1>10, TakeEffect
  <2>2. PICK h \in Job : worker'[w] = Ready(h)
    BY <1>10, TakeEffect
  <2>3. worker'[w].at \in {"read", "delete", "assign"}
    BY <2>2, FirstFits DEF Ready, Job
  <2>4. ASSUME NEW v \in Workers \ {w}
        PROVE  /\ Works(v) => worker'[v].at = worker[v].at /\ worker'[v].read = worker[v].read
               /\ ~Works(v) => worker'[v].at = "idle"
    <3>1. /\ Works(v) => worker'[v].at = worker[v].at /\ worker'[v].read = worker[v].read
          /\ ~Works(v) => worker'[v] = Idle
      BY <1>10, TakeEffect
    <3> QED
      BY <3>1 DEF Idle
  <2>5. ReadsAreFresh => ReadsAreFresh'
    <3>1. SUFFICES ASSUME ReadsAreFresh, NEW v \in Workers, worker'[v].at \in {"node", "tasks"}
                   PROVE  worker'[v].read = row'
      BY DEF ReadsAreFresh
    <3>2. v # w /\ Works(v)
      BY <2>3, <2>4, <3>1
    <3> QED
      BY <2>1, <2>4, <3>1, <3>2 DEF ReadsAreFresh
  <2>6. Nodes \subseteq Nodes'
    <3>1. SUFFICES ASSUME NEW v \in Nodes PROVE v \in Nodes'
      OBVIOUS
    <3>2. v \in Workers /\ worker[v].at = "node" /\ worker[v].read = row
      BY DEF Nodes
    <3>3. Works(v) /\ v # w
      BY <2>1, <3>2, AtWork DEF Place
    <3> QED
      BY <2>1, <2>4, <3>2, <3>3 DEF Nodes
  <2>7. Written => Written'
    BY <2>1, <2>5, <2>6 DEF Written, NodeIsFresh
  <2>8. Linked => Linked'
    BY <1>0, <1>10, <2>1, TakeKeeps DEF Linked
  <2> QED
    BY <1>0, <1>10, <2>1, <2>7, <2>8, TakeKeeps
<1>11. ASSUME NEW w \in Workers, Work(w)
       PROVE  FreshLive'
  <2>0. Kept => UNCHANGED <<row, moving, sending>> /\ Queued' = Queued
    BY SameQueue DEF Kept
  <2>1. ASSUME Others(w), UNCHANGED <<row, moving, sending>>, Queued' = Queued,
               worker[w].at # "read" \/ worker[w].job.kind # "sync",
               worker[w].at # "assign" \/ worker[w].job.user \in node'.out,
               node.out \subseteq node'.out,
               row.state = "live" /\ Written => Written'
        PROVE  FreshLive'
    <3>1. /\ SyncToCome => SyncToCome'
          /\ \A u \in Users : AssignToCome(u) => AssignToCome(u)' \/ u \in node'.out
      BY <2>1, WorkKeeps
    <3>2. Linked => Linked'
      BY <1>0, <2>1, <3>1 DEF Linked
    <3> QED
      BY <1>0, <2>1, <3>1, <3>2
  <2>2. ASSUME Others(w), Works(w), row' = row, moving' = moving,
               worker[w].at \notin {"node", "read"},
               worker'[w].at \notin {"node", "tasks"},
               row.state = "live" /\ NodeIsFresh => NodeIsFresh'
        PROVE  row.state = "live" /\ Written => Written'
    <3>1. ReadsAreFresh => ReadsAreFresh'
      BY <2>2 DEF ReadsAreFresh, Others
    <3>2. Nodes \subseteq Nodes'
      BY <2>2 DEF Nodes, Others
    <3> QED
      BY <2>2, <3>1, <3>2 DEF Written
  <2>3. CASE Read(w)
    <3>1. /\ Works(w) /\ worker[w].at = "read" /\ Others(w)
          /\ worker'[w].at = (IF worker[w].job.kind = "sync" THEN "node" ELSE "tasks")
          /\ worker'[w].read = row
          /\ ~moving /\ UNCHANGED <<row, moving, sending, node>> /\ Queued' = Queued
      BY <2>3, ReadEffect, SameQueue DEF Goes
    <3>2. ASSUME NEW v \in Workers \ {w}
          PROVE  worker'[v].at = "idle"
      BY <3>1, <3>2 DEF Undisturbed, Single, Works, Others, Idle
    <3>3. ReadsAreFresh'
      BY <3>1, <3>2 DEF ReadsAreFresh
    <3>4. CASE worker[w].job.kind = "sync"
      <4>1. w \in Nodes'
        BY <3>1, <3>4 DEF Nodes
      <4>2. Written'
        BY <3>1, <3>3, <4>1 DEF Written
      <4>3. Linked => Linked'
        BY <1>0, <3>1, WorkKeeps DEF Linked
      <4> QED
        BY <1>0, <3>1, <4>2, <4>3
    <3>5. CASE worker[w].job.kind # "sync"
      <4>1. Nodes = {}
        <5>1. SUFFICES ASSUME NEW v \in Nodes PROVE FALSE
          OBVIOUS
        <5>2. v \in Workers /\ worker[v].at = "node"
          BY DEF Nodes
        <5>3. Works(v) /\ v # w
          BY <3>1, <5>2, AtWork DEF Place
        <5> QED
          BY <3>1, <5>2, <5>3 DEF Undisturbed, Single
      <4>2. Written => Written'
        BY <3>1, <3>3, <4>1 DEF Written, NodeIsFresh
      <4> QED
        BY <2>1, <3>1, <3>5, <4>2
    <3> QED
      BY <3>4, <3>5
  <2>4. CASE SyncNode(w)
    <3>1. /\ Works(w) /\ worker[w].at = "node" /\ node'.there = TRUE
          /\ node'.rev = worker[w].read.rev /\ node'.out = node.out /\ Kept
          /\ Ends(w) \/ Goes(w, "edge")
      BY <2>4, SyncNodeEffect
    <3>2. Others(w) /\ worker'[w].at \in {"idle", "edge"}
      BY <3>1 DEF Ends, Goes, Idle
    <3>3. Written => Written'
      <4>1. SUFFICES ASSUME Written PROVE Written'
        OBVIOUS
      <4>2. worker[w].read = row
        BY <3>1, <4>1 DEF Written, ReadsAreFresh
      <4>3. NodeIsFresh'
        BY <2>0, <3>1, <4>2 DEF NodeIsFresh
      <4>4. ReadsAreFresh'
        BY <2>0, <3>1, <3>2, <4>1 DEF Written, ReadsAreFresh, Others
      <4> QED
        BY <2>0, <3>1, <4>1, <4>3, <4>4 DEF Written
    <3> QED
      BY <2>0, <2>1, <3>1, <3>2, <3>3
  <2>5. CASE SyncEdge(w)
    <3>1. /\ Works(w) /\ worker[w].at = "edge" /\ Others(w) /\ worker'[w].at = "idle"
          /\ UNCHANGED Contents /\ node.out \subseteq node'.out /\ Kept
      BY <2>5, SyncEdgeEffect DEF Ends, Idle
    <3>2. NodeIsFresh => NodeIsFresh'
      BY <2>0, <3>1 DEF NodeIsFresh, Contents
    <3> QED
      BY <2>0, <2>1, <2>2, <3>1, <3>2
  <2>6. CASE DeleteNode(w)
    <3>1. worker[w].at = "delete" /\ Kept
      BY <2>6, DeleteNodeEffect
    <3>2. row'.state = "deleted"
      BY <2>0, <3>1 DEF RowIsSound
    <3> QED
      BY <1>0, <3>2
  <2>7. CASE SyncTaskAssign(w)
    <3>1. /\ Works(w) /\ worker[w].at = "assign" /\ Others(w) /\ worker'[w].at = "idle"
          /\ node'.there = TRUE /\ node'.rev = node.rev
          /\ node'.out = node.out \cup {worker[w].job.user} /\ Kept
      <4>1. /\ Works(w) /\ worker[w].at = "assign" /\ Ends(w)
            /\ node'.there = TRUE /\ node'.rev = node.rev
            /\ node'.out = node.out \cup {worker[w].job.user} /\ Kept
        BY <2>7, SyncTaskAssignEffect
      <4> QED
        BY <4>1 DEF Ends, Idle
    <3>2. NodeIsFresh => NodeIsFresh'
      BY <2>0, <3>1 DEF NodeIsFresh
    <3> QED
      BY <2>0, <2>1, <2>2, <3>1, <3>2
  <2>8. CASE SyncTasks(w)
    <3>1. /\ Works(w) /\ worker[w].at = "tasks" /\ Kept /\ node'.out = node.out
          /\ \/ /\ worker[w].read.state = "live" /\ Goes(w, "unlink")
                /\ node'.there = TRUE /\ node'.rev = worker[w].read.rev
             \/ worker[w].read.state # "live" /\ Goes(w, "rebuilt") /\ node' = node
      BY <2>8, SyncTasksEffect
    <3>2. Others(w) /\ worker'[w].at \in {"unlink", "rebuilt"}
      BY <3>1 DEF Goes
    <3>3. row.state = "live" /\ Written => Written'
      <4>1. SUFFICES ASSUME row.state = "live", Written PROVE Written'
        OBVIOUS
      <4>2. worker[w].read = row
        BY <3>1, <4>1 DEF Written, ReadsAreFresh
      <4>3. NodeIsFresh'
        BY <2>0, <3>1, <4>1, <4>2 DEF NodeIsFresh
      <4> QED
        BY <2>0, <2>2, <3>1, <3>2, <4>1, <4>3
    <3> QED
      BY <2>0, <2>1, <3>1, <3>2, <3>3
  <2>9. CASE Unlink(w) \/ Link(w)
    <3>1. /\ Works(w) /\ worker[w].at \in {"unlink", "link"} /\ Others(w)
          /\ worker'[w].at \in {"link", "rebuilt"}
          /\ UNCHANGED Contents /\ node'.out = node.out /\ Kept
      BY <2>9, UnlinkEffect, LinkEffect DEF Goes
    <3>2. NodeIsFresh => NodeIsFresh'
      BY <2>0, <3>1 DEF NodeIsFresh, Contents
    <3> QED
      BY <2>0, <2>1, <2>2, <3>1, <3>2
  <2>10. CASE EndRebuild(w)
    <3>1. /\ Works(w) /\ worker[w].at = "rebuilt" /\ Others(w) /\ worker'[w].at = "idle"
          /\ UNCHANGED <<row, moving, sending, waiting, delayed, node>>
      <4>1. /\ Works(w) /\ worker[w].at = "rebuilt" /\ Ends(w)
            /\ UNCHANGED <<row, moving, sending, waiting, delayed, node>>
        BY <2>10, EndRebuildEffect
      <4> QED
        BY <4>1 DEF Ends, Idle
    <3>2. NodeIsFresh => NodeIsFresh'
      BY <3>1 DEF NodeIsFresh
    <3> QED
      BY <2>1, <2>2, <3>1, <3>2, SameQueue
  <2> QED
    BY <1>11, <2>3, <2>4, <2>5, <2>6, <2>7, <2>8, <2>9, <2>10 DEF Work
<1>12. ASSUME NEW w \in Workers, JobFails(w) \/ WorkerDies(w)
       PROVE  FreshLive'
  <2>1. /\ Others(w) /\ worker'[w].at = "idle" /\ UNCHANGED <<row, moving, sending, node>>
    <3>1. Ends(w) /\ UNCHANGED <<row, moving, sending, node>>
      BY <1>12, JobFailsEffect, WorkerDiesEffect
    <3> QED
      BY <3>1 DEF Ends, Idle
  <2>2. /\ SyncToCome \/ worker[w].at = "node" => SyncToCome'
        /\ \A u \in Users : AssignToCome(u) => AssignToCome(u)'
    BY <1>12, LossKeeps
  <2>3. Linked => Linked'
    BY <1>0, <2>1, <2>2 DEF Linked
  <2>4. Written => Written' \/ SyncToCome'
    <3>1. ReadsAreFresh => ReadsAreFresh'
      BY <2>1 DEF ReadsAreFresh, Others
    <3>2. worker[w].at = "node" \/ Nodes \subseteq Nodes'
      BY <2>1 DEF Nodes, Others
    <3> QED
      BY <2>1, <2>2, <3>1, <3>2 DEF Written, NodeIsFresh
  <2> QED
    BY <1>0, <2>1, <2>2, <2>3, <2>4
<1>13. ASSUME NEW i \in DOMAIN delayed, BackoffEnds(i)
       PROVE  FreshLive'
  BY <1>5, <1>13, BackoffEffect
<1>14. CASE UNCHANGED vars
  BY <1>5, <1>14, SameQueue DEF vars
<1> QED
  BY <1>1, <1>2, <1>3, <1>4, <1>6, <1>7, <1>8, <1>9, <1>10, <1>11, <1>12, <1>13, <1>14 DEF Next

LEMMA FreshDeletedStep ==
    ASSUME TypeOK, WorkersAreSound, RowIsSound, Undisturbed, [Next]_vars, ~disturbed'
    PROVE  FreshDeleted'
<1>0. /\ FreshDeleted
      /\ Single
  BY DEF Undisturbed
<1>1. CASE row'.state # "deleted"
  BY <1>1 DEF FreshDeleted
<1>2. CASE SoftDeleteTask
  <2>1. sending' = sending \cup {[kind |-> "delete", user |-> NoUser]}
    BY <1>2, SoftDeleteEffect
  <2> DEFINE new == [kind |-> "delete", user |-> NoUser]
  <2>2. new \in sending' /\ new.kind = "delete"
    BY <2>1
  <2> HIDE DEF new
  <2>3. DeleteToCome'
    BY <2>2 DEF DeleteToCome
  <2> QED
    BY <2>3 DEF FreshDeleted
<1>3. ASSUME row' = row, DeleteToCome => DeleteToCome',
             LooksAlive' => LooksAlive \/ DeleteToCome',
             \A v \in Workers : worker'[v].at \in {"node", "tasks"} =>
                \/ worker[v].at = worker'[v].at /\ worker[v].read = worker'[v].read
                \/ worker'[v].read = row
      PROVE  FreshDeleted'
  BY <1>0, <1>3 DEF FreshDeleted
<1>4. ASSUME worker' = worker, row' = row, node' = node, DeleteToCome => DeleteToCome'
      PROVE  FreshDeleted'
  BY <1>3, <1>4 DEF LooksAlive
<1>5. CASE \E u \in Users \cup {NoUser} : CreateTask(u) \/ UpdateTask(u)
  BY <1>1, <1>5, CreateEffect, UpdateEffect
<1>6. CASE \E c \in BOOLEAN : EndMove(c)
  BY <1>1, <1>6, EndMoveEffect DEF RowIsSound
<1>7. CASE MoveTask
  <2>1. row'.state = "live"
    BY <1>7, MoveEffect
  <2> QED
    BY <1>1, <2>1
<1>8. CASE RebuildOrgGraph
  <2>1. PICK k \in Job : Adds(k)
    BY <1>8, RebuildEffect
  <2>2. UNCHANGED <<row, sending, worker, node>>
    BY <1>8, RebuildEffect
  <2> QED
    BY <1>4, <2>1, <2>2, GrowingKeeps DEF Adds
<1>9. ASSUME NEW j \in sending, Send(j) \/ SendFails(j)
      PROVE  FreshDeleted'
  <2>1. Send(j) /\ UNCHANGED <<row, worker, node>>
    BY <1>9 DEF Send, SendFails
  <2> QED
    BY <1>4, <2>1, SendKeeps
<1>10. ASSUME NEW w \in Workers, Take(w)
       PROVE  FreshDeleted'
  <2>1. UNCHANGED <<row, node>> /\ ~Works(w)
    BY <1>10, TakeEffect
  <2>2. PICK h \in Job : worker'[w] = Ready(h)
    BY <1>10, TakeEffect
  <2>3. worker'[w].at \in {"read", "delete", "assign"}
    BY <2>2, FirstFits DEF Ready, Job
  <2>4. ASSUME NEW v \in Workers \ {w}
        PROVE  /\ Works(v) => worker'[v].at = worker[v].at /\ worker'[v].read = worker[v].read
               /\ ~Works(v) => worker'[v].at = "idle"
    <3>1. /\ Works(v) => worker'[v].at = worker[v].at /\ worker'[v].read = worker[v].read
          /\ ~Works(v) => worker'[v] = Idle
      BY <1>10, TakeEffect
    <3> QED
      BY <3>1 DEF Idle
  <2>5. DeleteToCome => DeleteToCome'
    BY <1>10, TakeKeeps
  <2>6. LooksAlive' => LooksAlive
    BY <2>1 DEF LooksAlive
  <2> QED
    BY <1>3, <2>1, <2>3, <2>4, <2>5, <2>6
<1>11. ASSUME NEW w \in Workers, Work(w)
       PROVE  FreshDeleted'
  <2>0. Kept => row' = row /\ sending' = sending /\ Queued' = Queued
    BY SameQueue DEF Kept
  <2>1. ASSUME Others(w), row' = row, sending' = sending, Queued' = Queued,
               worker[w].at # "delete",
               LooksAlive' => LooksAlive \/ DeleteToCome',
               worker'[w].at \in {"node", "tasks"} => worker'[w].read = row
        PROVE  FreshDeleted'
    <3>1. DeleteToCome => DeleteToCome'
      BY <2>1, WorkKeeps
    <3> QED
      BY <1>3, <2>1, <3>1 DEF Others
  <2>2. CASE Read(w)
    <3>1. /\ worker[w].at = "read" /\ Others(w) /\ worker'[w].read = row
          /\ UNCHANGED <<row, sending, node>> /\ Queued' = Queued
      BY <2>2, ReadEffect, SameQueue DEF Goes
    <3> QED
      BY <2>1, <3>1 DEF LooksAlive
  <2>3. CASE SyncNode(w)
    <3>1. /\ Works(w) /\ worker[w].at = "node" /\ Kept
          /\ node'.deleted = (worker[w].read.state = "deleted")
          /\ Ends(w) \/ Goes(w, "edge")
      BY <2>3, SyncNodeEffect
    <3>2. Others(w) /\ worker'[w].at \in {"idle", "edge"}
      BY <3>1 DEF Ends, Goes, Idle
    <3>3. DeleteToCome => DeleteToCome'
      BY <2>0, <3>1, <3>2, WorkKeeps
    <3>4. row.state = "deleted" => ~LooksAlive' \/ DeleteToCome'
      BY <1>0, <3>1, <3>3 DEF FreshDeleted, LooksAlive
    <3>5. row.state = "deleted" =>
             \A v \in Workers : worker'[v].at \in {"node", "tasks"} =>
                worker'[v].read.state = "deleted" \/ DeleteToCome'
      BY <1>0, <3>2, <3>3 DEF FreshDeleted, Others
    <3> QED
      BY <2>0, <3>1, <3>4, <3>5 DEF FreshDeleted
  <2>4. CASE SyncEdge(w)
    <3>1. /\ worker[w].at = "edge" /\ Ends(w) /\ UNCHANGED Contents /\ Kept
      BY <2>4, SyncEdgeEffect
    <3> QED
      BY <2>0, <2>1, <3>1 DEF Ends, Idle, LooksAlive, Contents
  <2>5. CASE DeleteNode(w)
    <3>1. /\ Works(w) /\ Ends(w) /\ node' = NoNode
      BY <2>5, DeleteNodeEffect
    <3>2. \A v \in Workers : worker'[v].at = "idle"
      BY <1>0, <3>1 DEF Single, Ends, Others, Works, Idle
    <3>3. ~LooksAlive'
      BY <3>1 DEF LooksAlive, NoNode
    <3> QED
      BY <3>2, <3>3 DEF FreshDeleted
  <2>6. CASE SyncTaskAssign(w)
    <3>1. /\ worker[w].at = "assign" /\ Ends(w) /\ Kept
          /\ node'.rev = node.rev /\ node'.deleted = node.deleted
      BY <2>6, SyncTaskAssignEffect
    <3>2. LooksAlive' => LooksAlive
      BY <3>1 DEF LooksAlive, RowIsSound, TypeOK, Node
    <3> QED
      BY <2>0, <2>1, <3>1, <3>2 DEF Ends, Idle
  <2>7. CASE SyncTasks(w)
    <3>1. /\ Works(w) /\ worker[w].at = "tasks" /\ Kept
          /\ \/ worker[w].read.state = "live" /\ Goes(w, "unlink")
             \/ Goes(w, "rebuilt") /\ node' = node
      BY <2>7, SyncTasksEffect
    <3>2. Others(w) /\ worker'[w].at \in {"unlink", "rebuilt"}
      BY <3>1 DEF Goes
    <3>3. DeleteToCome => DeleteToCome'
      BY <2>0, <3>1, <3>2, WorkKeeps
    <3>4. row.state = "deleted" => ~LooksAlive' \/ DeleteToCome'
      BY <1>0, <3>1, <3>3 DEF FreshDeleted, LooksAlive
    <3>5. row.state = "deleted" =>
             \A v \in Workers : worker'[v].at \in {"node", "tasks"} =>
                worker'[v].read.state = "deleted" \/ DeleteToCome'
      BY <1>0, <3>2, <3>3 DEF FreshDeleted, Others
    <3> QED
      BY <2>0, <3>1, <3>4, <3>5 DEF FreshDeleted
  <2>8. CASE Unlink(w) \/ Link(w)
    <3>1. /\ worker[w].at \in {"unlink", "link"} /\ UNCHANGED Contents /\ Kept
          /\ Goes(w, "link") \/ Goes(w, "rebuilt")
      BY <2>8, UnlinkEffect, LinkEffect
    <3> QED
      BY <2>0, <2>1, <3>1 DEF Goes, LooksAlive, Contents
  <2>9. CASE EndRebuild(w)
    <3>1. /\ worker[w].at = "rebuilt" /\ Ends(w)
          /\ UNCHANGED <<row, moving, sending, waiting, delayed, node>>
      BY <2>9, EndRebuildEffect
    <3> QED
      BY <2>1, <3>1, SameQueue DEF Ends, Idle, LooksAlive
  <2> QED
    BY <1>11, <2>2, <2>3, <2>4, <2>5, <2>6, <2>7, <2>8, <2>9 DEF Work
<1>12. ASSUME NEW w \in Workers, JobFails(w) \/ WorkerDies(w)
       PROVE  FreshDeleted'
  <2>1. Ends(w) /\ UNCHANGED <<row, node>>
    BY <1>12, JobFailsEffect, WorkerDiesEffect
  <2>2. DeleteToCome => DeleteToCome'
    BY <1>12, LossKeeps
  <2>3. \A v \in Workers : worker'[v].at \in {"node", "tasks"} => worker'[v] = worker[v]
    BY <2>1 DEF Ends, Others, Idle
  <2>4. LooksAlive' => LooksAlive
    BY <2>1 DEF LooksAlive
  <2> QED
    BY <1>3, <2>1, <2>2, <2>3, <2>4
<1>13. ASSUME NEW i \in DOMAIN delayed, BackoffEnds(i)
       PROVE  FreshDeleted'
  BY <1>4, <1>13, BackoffEffect, GrowingKeeps
<1>14. CASE UNCHANGED vars
  BY <1>4, <1>14, SameQueue, GrowingKeeps DEF vars
<1> QED
  BY <1>2, <1>5, <1>6, <1>7, <1>8, <1>9, <1>10, <1>11, <1>12, <1>13, <1>14 DEF Next

-----------------------------------------------------------------------------
(* The invariant.                                                           *)

\* Nothing undoes a disturbance.
LEMMA DisturbedGrows ==
    ASSUME TypeOK, WorkersAreSound, RowIsSound, [Next]_vars, disturbed
    PROVE  disturbed'
<1>1. ASSUME NEW w \in Workers, Work(w)
      PROVE  disturbed'
  BY <1>1 DEF Work, Read, SyncNode, SyncEdge, DeleteNode, SyncTaskAssign, SyncTasks, Unlink, Link,
              EndRebuild, Graph
<1>2. ASSUME NEW w \in Workers, Take(w) \/ JobFails(w) \/ WorkerDies(w)
      PROVE  disturbed'
  BY <1>2 DEF Take, JobFails, Retry, GiveUp, WorkerDies
<1>3. CASE \/ \E u \in Users \cup {NoUser} : CreateTask(u) \/ UpdateTask(u)
           \/ SoftDeleteTask \/ MoveTask \/ RebuildOrgGraph
           \/ \E c \in BOOLEAN : EndMove(c)
           \/ \E j \in sending : Send(j) \/ SendFails(j)
           \/ \E i \in DOMAIN delayed : BackoffEnds(i)
           \/ UNCHANGED vars
  BY <1>3 DEF CreateTask, UpdateTask, SoftDeleteTask, Save, MoveTask, RebuildOrgGraph, EndMove,
              Send, SendFails, BackoffEnds, vars
<1> QED
  BY <1>1, <1>2, <1>3 DEF Next

LEMMA InitSound == Init => IInv
<1> SUFFICES ASSUME Init PROVE IInv
  OBVIOUS
<1>1. /\ row = NoRow /\ moving = FALSE /\ sending = {} /\ waiting = <<>> /\ delayed = <<>>
      /\ worker = [w \in Workers |-> Idle] /\ node = NoNode
      /\ asked = 0 /\ faults = 0 /\ disturbed = FALSE /\ recovered = FALSE
  BY DEF Init
<1>2. \A w \in Workers : worker[w] = Idle /\ ~Works(w) /\ worker[w].at = "idle"
  BY <1>1 DEF Works, Idle
<1>3. TypeOK
  <2>1. NoRow \in Row /\ NoNode \in Node /\ asked \in 0 .. MaxAsked /\ faults \in 0 .. MaxFaults
    BY <1>1, BoundsAssumption DEF NoRow, Row, NoNode, Node
  <2>2. waiting \in Seq(Job) /\ delayed \in Seq(Job)
    BY <1>1
  <2>3. worker = [w \in Workers |-> worker[w]]
    BY <1>1
  <2> QED
    BY <1>1, <1>2, <2>1, <2>2, <2>3 DEF TypeOK, Node
<1>4. Queued = {}
  BY <1>1 DEF Queued, Range
<1>5. WorkersAreSound /\ RebuildsAlone
  BY <1>2 DEF WorkersAreSound, RebuildsAlone
<1>6. RowIsSound
  BY <1>1, <1>2, <1>4 DEF RowIsSound, NoRow, NoNode
<1>7. Undisturbed
  BY <1>1, <1>2 DEF Undisturbed, Single, FreshLive, FreshDeleted, NoRow
<1> QED
  BY <1>1, <1>3, <1>5, <1>6, <1>7 DEF IInv

LEMMA IInvHolds == Spec => []IInv
<1>1. Init => IInv
  BY InitSound
<1>2. IInv /\ [Next]_vars => IInv'
  <2> SUFFICES ASSUME IInv, [Next]_vars PROVE IInv'
    OBVIOUS
  <2>1. /\ TypeOK /\ WorkersAreSound /\ RowIsSound /\ RebuildsAlone
        /\ ~disturbed => Undisturbed
        /\ recovered => Recovered
    BY DEF IInv
  <2>2. TypeOK' /\ WorkersAreSound' /\ RowIsSound' /\ RebuildsAlone'
    BY <2>1, TypesStep, WorkersStep, RowStep, RebuildsStep
  <2>3. recovered' => Recovered'
    BY <2>1, RecoveredStep
  <2>4. ASSUME ~disturbed' PROVE Undisturbed'
    <3>1. Undisturbed
      BY <2>1, <2>4, DisturbedGrows
    <3>2. Single' /\ FreshLive' /\ FreshDeleted'
      BY <2>1, <2>4, <3>1, SingleStep, FreshLiveStep, FreshDeletedStep DEF Undisturbed
    <3> QED
      BY <3>2 DEF Undisturbed
  <2> QED
    BY <2>2, <2>3, <2>4 DEF IInv
<1> QED
  BY <1>1, <1>2, PTL DEF Spec

-----------------------------------------------------------------------------
(* The results.                                                             *)

\* Rows, jobs, workers and the node keep their types: in particular a job in the queue
\* (packages/graph/src/graphSync.worker.ts) has never failed as often as it may, and an
\* assignment always names a user.
THEOREM GraphTypesHold == Spec => []TypeOK
<1>1. IInv => TypeOK
  BY DEF IInv
<1> QED
  BY <1>1, IInvHolds, PTL

\* A rebuild that runs on its own leaves the node of a live task as the row is, whatever
\* was lost before (the REBUILD_ORG_GRAPH branch of graphSync.worker.ts).
THEOREM RebuildsRefreshLiveTasks == Spec => []RebuildRefreshesLive
<1>1. IInv => RebuildRefreshesLive
  BY DEF IInv, Recovered, RebuildRefreshesLive
<1> QED
  BY <1>1, IInvHolds, PTL

\* Once nothing is under way, and nothing was lost or ran at once, the graph shows the
\* task as it is, for every number of writes, retries and moves: graphSync.worker.ts
\* reads the row when the job runs, not when tasks.service.ts enqueues it.
THEOREM QuietGraphsAreFresh == Spec => []FreshWhenQuiet
<1>1. IInv => FreshWhenQuiet
  <2> SUFFICES ASSUME IInv, Quiet, ~disturbed
               PROVE  /\ row.state = "live" =>
                           /\ LooksAlive /\ node.rev = row.rev
                           /\ row.assignee # NoUser => row.assignee \in node.out
                      /\ row.state = "deleted" => ~LooksAlive
    BY DEF FreshWhenQuiet
  <2>1. Undisturbed /\ RowIsSound
    BY DEF IInv
  <2>2. sending = {} /\ Queued = {} /\ ~moving
    BY DEF Quiet, Queued, Range
  <2>3. \A w \in Workers : worker[w].at = "idle"
    BY DEF Quiet, Busy, Idle
  <2>4. ~SyncToCome /\ ~DeleteToCome /\ ~AssignToCome(row.assignee)
    BY <2>2, <2>3 DEF SyncToCome, DeleteToCome, AssignToCome
  <2>5. row.state = "live" => LooksAlive /\ node.rev = row.rev
    BY <2>1, <2>3, <2>4 DEF Undisturbed, FreshLive, RowIsSound, LooksAlive
  <2>6. row.state = "live" /\ row.assignee # NoUser => row.assignee \in node.out
    BY <2>1, <2>4 DEF Undisturbed, FreshLive
  <2>7. row.state = "deleted" => ~LooksAlive
    BY <2>1, <2>4 DEF Undisturbed, FreshDeleted
  <2> QED
    BY <2>5, <2>6, <2>7
<1> QED
  BY <1>1, IInvHolds, PTL

=============================================================================
