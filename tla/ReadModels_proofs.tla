-------------------------- MODULE ReadModels_proofs --------------------------
(***************************************************************************)
(* Proofs about ReadModels.                                                *)
(*                                                                         *)
(* CountersMatch becomes inductive as RowMatches: until something is       *)
(* missed, the project's row is a function of the set of events applied so *)
(* far, not of their order.  RecomputingHeals becomes inductive as         *)
(* Counted: unless the metrics are stale, they, or the count a single      *)
(* recomputation is about to write, agree with the tables, or an event     *)
(* that will have them recomputed is still to come.                        *)
(***************************************************************************)
EXTENDS ReadModels, FiniteSetTheorems, WellFoundedInduction, TLAPS

Has(S, type) == \E i \in S : log[i].type = type
Created(S) == {t \in Tasks : \E i \in S : log[i].type = "task.created" /\ log[i].task = t}
Removed(S) == {t \in Tasks : \E i \in S : log[i].type = "task.deleted" /\ log[i].task = t}

\* The log tells what the tables hold.
LogIsComplete ==
    /\ Has(DOMAIN log, "project.created") <=> project # "absent"
    /\ Has(DOMAIN log, "project.deleted") <=> project = "deleted"
    /\ \A t \in Tasks : t \in Created(DOMAIN log) <=> task[t].status # "absent"
    /\ \A t \in Tasks : t \in Removed(DOMAIN log) <=> task[t].deleted
    /\ \A i, j \in DOMAIN log : log[i] = log[j] /\ log[i].type # "task.status_changed" => i = j
    /\ \A i \in DOMAIN log : log[i].type \in ProjectEvent <=> log[i].task = NoTask
    /\ \A t \in Tasks : task[t].deleted => task[t].status # "absent"

RowMatches ==
    /\ row.there <=> Has(applied, "project.created") /\ ~Has(applied, "project.deleted")
    /\ row.there => row.total = Cardinality(Created(applied)) - Cardinality(Removed(applied))
    /\ ~row.there => row.total = 0
    /\ applied # {} => Has(applied, "project.created")

CallsApply ==
    /\ delivered \subseteq applied
    /\ \A c \in Calls :
          call[c].event # 0 /\ call[c].at["project"] = "end" => call[c].event \in applied

Exact == LogIsComplete /\ RowMatches /\ CallsApply

CallsAreSound ==
    \A c \in Calls :
        /\ call[c].event # 0 /\ call[c].at["metrics"] # "end"
              => log[call[c].event].type \in TaskEvent
        /\ call[c].event = 0 => call[c] = Free
        /\ call[c].at["project"] # "write"

\* An event that will have the metrics recomputed has not got that far yet.
Coming ==
    \E i \in DOMAIN log \ delivered :
        /\ log[i].type \in TaskEvent
        /\ \A d \in Deliveries : call[d].event = i => call[d].at["metrics"] = "start"

Counted ==
    \/ Coming
    \/ Recomputing = {} /\ metrics = Cardinality(Unfinished)
    \/ \E c \in Calls : Recomputing = {c} /\ call[c].active = Cardinality(Unfinished)

IInv ==
    /\ TypeOK
    /\ CallsAreSound
    /\ ~missed => Exact
    /\ ~stale => Counted

-----------------------------------------------------------------------------
(* Facts about data.                                                        *)

\* A set of numbers has a least element, a bounded one a greatest.
LEMMA LeastExists ==
    ASSUME NEW S, S \subseteq Nat, S # {}
    PROVE  \E x \in S : \A y \in S : x <= y
<1>1. PICK x \in S : \A y \in S : ~(<<y, x>> \in OpToRel(<, Nat))
  BY NatLessThanWellFounded, WFMin
<1>2. \A y \in S : ~(y < x)
  BY <1>1 DEF OpToRel
<1> QED
  BY <1>2

LEMMA GreatestExists ==
    ASSUME NEW n \in Nat, NEW S, S \subseteq 1 .. n, S # {}
    PROVE  \E x \in S : \A y \in S : y <= x
<1> DEFINE T == {n - x : x \in S}
<1>0. \A x \in S : n - x \in Nat
  OBVIOUS
<1>1. T \subseteq Nat /\ T # {}
  BY <1>0
<1>2. PICK z \in T : \A y \in T : z <= y
  BY <1>1, LeastExists
<1>3. PICK x \in S : z = n - x
  OBVIOUS
<1>4. \A y \in S : n - x <= n - y
  BY <1>2, <1>3
<1> QED
  BY <1>4

\* First and Last choose a member.
LEMMA FirstIsMember ==
    ASSUME TypeOK, NEW S, S \subseteq DOMAIN log, S # {}
    PROVE  First(S) \in S
<1>1. S \subseteq Nat
  BY DEF TypeOK
<1>2. \E x \in S : \A y \in S : x <= y
  BY <1>1, LeastExists
<1> QED
  BY <1>2 DEF First

LEMMA LastIsMember ==
    ASSUME TypeOK, NEW S, S \subseteq DOMAIN log, S # {}
    PROVE  Last(S) \in S
<1>1. Len(log) \in Nat /\ S \subseteq 1 .. Len(log)
  BY DEF TypeOK
<1>2. \E x \in S : \A y \in S : y <= x
  BY <1>1, GreatestExists
<1> QED
  BY <1>2 DEF Last

\* What counting the unfinished tasks returns.
LEMMA CountsAreSizes ==
    Cardinality(Unfinished) \in Sizes
<1>1. Unfinished \in SUBSET Tasks
  BY DEF Unfinished
<1>2. /\ IsFiniteSet(Unfinished)
      /\ Cardinality(Unfinished) <= Cardinality(Tasks)
  BY <1>1, FiniteAssumption, FS_Subset
<1>3. Cardinality(Unfinished) \in Nat /\ Cardinality(Tasks) \in Nat
  BY <1>2, FiniteAssumption, FS_CardinalityType
<1> QED
  BY <1>2, <1>3 DEF Sizes

-----------------------------------------------------------------------------
(* Logging.                                                                 *)

GrownBy(e) ==
    /\ Len(log') = Len(log) + 1
    /\ DOMAIN log' = DOMAIN log \cup {Len(log) + 1}
    /\ \A i \in DOMAIN log : log'[i] = log[i]
    /\ log'[Len(log) + 1] = e
    /\ Len(log) + 1 \notin DOMAIN log

LEMMA Logging ==
    ASSUME TypeOK, NEW type \in ProjectEvent \cup TaskEvent, NEW t \in Tasks \cup {NoTask},
           Log(type, t)
    PROVE  /\ log' \in Seq(Event) /\ Len(log') <= MaxEvents
           /\ DOMAIN log \subseteq DOMAIN log'
           /\ applied' \subseteq DOMAIN log
           /\ missed' \in BOOLEAN /\ stale' \in BOOLEAN
           /\ disruptions' \in 0 .. MaxDisruptions
           /\ ~missed' => /\ ~missed /\ applied' = applied
                          /\ GrownBy([type |-> type, task |-> t])
           /\ ~stale' => ~stale /\ GrownBy([type |-> type, task |-> t])
           /\ \A i \in DOMAIN log : log'[i] = log[i]
<1> DEFINE e == [type |-> type, task |-> t]
<1>1. e \in Event /\ log \in Seq(Event) /\ Len(log) \in Nat /\ DOMAIN log = 1 .. Len(log)
  BY DEF TypeOK, Event
<1>2. CASE Len(log) < MaxEvents /\ log' = Append(log, e) /\ UNCHANGED <<history, disruptions>>
  <2> HIDE DEF e
  <2>1. /\ log' \in Seq(Event) /\ Len(log') = Len(log) + 1
        /\ \A i \in 1 .. Len(log) : log'[i] = log[i]
        /\ log'[Len(log) + 1] = e
    BY <1>1, <1>2
  <2>2. Len(log') <= MaxEvents
    BY <1>1, <1>2, <2>1, BoundsAssumption
  <2>3. DOMAIN log' = DOMAIN log \cup {Len(log) + 1} /\ Len(log) + 1 \notin DOMAIN log
    BY <1>1, <2>1
  <2>4. GrownBy(e)
    BY <1>1, <2>1, <2>3 DEF GrownBy
  <2>5. /\ applied' = applied /\ missed' = missed /\ stale' = stale
        /\ disruptions' = disruptions
    BY <1>2 DEF history
  <2> QED
    BY <2>1, <2>2, <2>3, <2>4, <2>5, <1>1 DEF TypeOK, e
<1>3. CASE Disrupt /\ Miss /\ stale' = TRUE /\ UNCHANGED log
  BY <1>1, <1>3, BoundsAssumption DEF Disrupt, Miss, TypeOK
<1> QED
  BY <1>2, <1>3 DEF Log

-----------------------------------------------------------------------------
(* Types.                                                                   *)

CallsType ==
    call \in [Calls -> [event : {0} \cup DOMAIN log,
                        at : [Projector -> {"start", "write", "end"}],
                        active : Sizes]]
ReplayType ==
    /\ replay \in [at : {"idle", "paging", "running"}, ids : Orders \cup {<<>>},
                   cursor : 0 .. MaxEvents, todo : SUBSET DOMAIN log, full : BOOLEAN]
    /\ replay.at # "idle" => replay.ids \in Orders

LEMMA IdleHasItsType == Idle \in [at : {"idle", "paging", "running"}, ids : Orders \cup {<<>>},
                   cursor : 0 .. MaxEvents, todo : SUBSET DOMAIN log, full : BOOLEAN]
                   /\ Idle.at = "idle"
  BY BoundsAssumption DEF Idle

LEMMA FreeHasItsType ==
    Free \in [event : {0} \cup DOMAIN log, at : [Projector -> {"start", "write", "end"}],
              active : Sizes]
<1>1. 0 \in Sizes
  BY FiniteAssumption, FS_CardinalityType DEF Sizes
<1> QED
  BY <1>1 DEF Free

LEMMA StartedHasItsType ==
    ASSUME NEW i \in DOMAIN log
    PROVE  /\ Started(i) \in [event : {0} \cup DOMAIN log,
                              at : [Projector -> {"start", "write", "end"}],
                              active : Sizes]
           /\ Started(i).event = i
           /\ Started(i).at["project"] = "start"
           /\ Started(i).at["metrics"] = (IF log[i].type \in TaskEvent THEN "start" ELSE "end")
<1>1. 0 \in Sizes
  BY FiniteAssumption, FS_CardinalityType DEF Sizes
<1> DEFINE at == [p \in Projector |->
                    IF \/ p = "project"
                       \/ p = "metrics" /\ log[i].type \in TaskEvent
                    THEN "start" ELSE "end"]
<1>2. at \in [Projector -> {"start", "write", "end"}]
  OBVIOUS
<1>3. /\ at["project"] = "start"
      /\ at["metrics"] = (IF log[i].type \in TaskEvent THEN "start" ELSE "end")
  BY DEF Projector
<1>4. Started(i) = [Free EXCEPT !.event = i, !.at = at]
  BY DEF Started
<1> HIDE DEF at
<1>5. Started(i) = [event |-> i, at |-> at, active |-> 0]
  BY <1>4 DEF Free
<1> QED
  BY <1>1, <1>2, <1>3, <1>5

\* The change of a table, with its event.
LEMMA ChangeKeepsTypes ==
    ASSUME TypeOK, NEW type \in ProjectEvent \cup TaskEvent, NEW t \in Tasks \cup {NoTask},
           Log(type, t), project' \in {"absent", "live", "deleted"},
           task' \in [Tasks -> [status : {"absent", "open", "done"}, deleted : BOOLEAN]],
           UNCHANGED <<delivered, models, call, replay, replays>>
    PROVE  TypeOK'
<1>1. /\ log' \in Seq(Event) /\ Len(log') <= MaxEvents
      /\ DOMAIN log \subseteq DOMAIN log'
      /\ applied' \subseteq DOMAIN log
      /\ missed' \in BOOLEAN /\ stale' \in BOOLEAN
      /\ disruptions' \in 0 .. MaxDisruptions
  BY Logging
<1>2. CallsType'
  BY <1>1 DEF TypeOK, CallsType
<1>3. ReplayType'
  BY <1>1 DEF TypeOK, ReplayType
<1> QED
  BY <1>1, <1>2, <1>3 DEF TypeOK, CallsType, ReplayType, models

\* One projector of one call has moved.
Went(c, p, s) ==
    /\ call'[c].event = call[c].event
    /\ call'[c].at[p] = s
    /\ \A q \in Projector \ {p} : call'[c].at[q] = call[c].at[q]
    /\ \A d \in Calls \ {c} : call'[d] = call[d]

\* The calls after that, and what the moving projector has counted.
Gone(c, p, s, n) ==
    [d \in Calls |-> IF d = c
                     THEN [event |-> call[c].event, at |-> [call[c].at EXCEPT ![p] = s],
                           active |-> n]
                     ELSE call[d]]

LEMMA GoneGoes ==
    ASSUME CallsType, NEW c \in Calls, NEW p \in Projector,
           NEW s \in {"start", "write", "end"}, NEW n \in Sizes,
           call' = Gone(c, p, s, n), log' = log
    PROVE  CallsType' /\ Went(c, p, s)
<1> DEFINE at == [call[c].at EXCEPT ![p] = s]
           new == [event |-> call[c].event, at |-> at, active |-> n]
<1>1. /\ call[c].event \in {0} \cup DOMAIN log
      /\ call[c].at \in [Projector -> {"start", "write", "end"}]
  BY DEF CallsType
<1>2. /\ at \in [Projector -> {"start", "write", "end"}]
      /\ at[p] = s
      /\ \A q \in Projector \ {p} : at[q] = call[c].at[q]
  BY <1>1
<1>3. call' = [d \in Calls |-> IF d = c THEN new ELSE call[d]]
  BY DEF Gone
<1> HIDE DEF at
<1>4. /\ new \in [event : {0} \cup DOMAIN log, at : [Projector -> {"start", "write", "end"}],
                 active : Sizes]
      /\ new.event = call[c].event /\ new.at = at
  BY <1>1, <1>2
<1> HIDE DEF new
<1>5. call'[c] = new /\ \A d \in Calls \ {c} : call'[d] = call[d]
  BY <1>3
<1>6. CallsType'
  BY <1>3, <1>4 DEF CallsType
<1>7. Went(c, p, s)
  BY <1>2, <1>4, <1>5 DEF Went
<1> QED
  BY <1>6, <1>7

\* A call as its fields.
LEMMA CallShape ==
    ASSUME CallsType, NEW c \in Calls
    PROVE  /\ call = [d \in Calls |-> call[d]] /\ call[c].active \in Sizes
           /\ call[c] = [event |-> call[c].event, at |-> call[c].at, active |-> call[c].active]
<1>1. call \in [Calls -> [event : {0} \cup DOMAIN log,
                         at : [Projector -> {"start", "write", "end"}], active : Sizes]]
  BY DEF CallsType
<1> QED
  BY <1>1

LEMMA GotoGoes ==
    ASSUME CallsType, NEW c \in Calls, NEW p \in Projector,
           NEW s \in {"start", "write", "end"},
           call' = [call EXCEPT ![c].at[p] = s], log' = log
    PROVE  CallsType' /\ Went(c, p, s)
<1> DEFINE at == [call[c].at EXCEPT ![p] = s]
           new == [call[c] EXCEPT !.at = at]
<1>1. /\ call = [d \in Calls |-> call[d]] /\ call[c].active \in Sizes
      /\ call[c] = [event |-> call[c].event, at |-> call[c].at, active |-> call[c].active]
  BY CallShape
<1>2. call' = [d \in Calls |-> IF d = c THEN new ELSE call[d]]
  BY <1>1
<1>3. new = [event |-> call[c].event, at |-> at, active |-> call[c].active]
  <2> HIDE DEF at
  <2> QED
    BY <1>1
<1>4. call' = Gone(c, p, s, call[c].active)
  BY <1>2, <1>3, Zenon DEF Gone
<1> QED
  BY <1>1, <1>4, GoneGoes

LEMMA CountGoes ==
    ASSUME CallsType, NEW c \in Calls, NEW p \in Projector,
           NEW s \in {"start", "write", "end"}, NEW n \in Sizes,
           call' = [call EXCEPT ![c].at[p] = s, ![c].active = n], log' = log
    PROVE  CallsType' /\ Went(c, p, s)
<1> DEFINE at == [call[c].at EXCEPT ![p] = s]
           new == [call[c] EXCEPT !.at = at, !.active = n]
<1>1. /\ call = [d \in Calls |-> call[d]]
      /\ call[c] = [event |-> call[c].event, at |-> call[c].at, active |-> call[c].active]
  BY CallShape
<1>2. call' = [d \in Calls |-> IF d = c THEN new ELSE call[d]]
  BY <1>1
<1>3. new = [event |-> call[c].event, at |-> at, active |-> n]
  <2> HIDE DEF at
  <2>1. new = [[call[c] EXCEPT !.at = at] EXCEPT !.active = n]
    OBVIOUS
  <2>2. [call[c] EXCEPT !.at = at]
          = [event |-> call[c].event, at |-> at, active |-> call[c].active]
    BY <1>1
  <2>3. [[event |-> call[c].event, at |-> at, active |-> call[c].active] EXCEPT !.active = n]
          = [event |-> call[c].event, at |-> at, active |-> n]
    OBVIOUS
  <2> QED
    BY <2>1, <2>2, <2>3, Zenon
<1>4. call' = Gone(c, p, s, n)
  BY <1>2, <1>3, Zenon DEF Gone
<1> QED
  BY <1>4, GoneGoes

\* A call takes up an event, or is done with it.
LEMMA ReplacedCallsType ==
    ASSUME CallsType, NEW c \in Calls, NEW new,
           new = Free \/ \E i \in DOMAIN log : new = Started(i),
           call' = [call EXCEPT ![c] = new], log' = log
    PROVE  CallsType' /\ call'[c] = new /\ \A d \in Calls \ {c} : call'[d] = call[d]
<1>1. new \in [event : {0} \cup DOMAIN log, at : [Projector -> {"start", "write", "end"}],
               active : Sizes]
  BY FreeHasItsType, StartedHasItsType
<1> QED
  BY <1>1 DEF CallsType

\* What an event does to the row of the project.
LEMMA ProjectedCases ==
    ASSUME NEW type
    PROVE  \/ type = "project.created" /\ Projected(type) = [row EXCEPT !.there = TRUE]
           \/ type = "project.deleted" /\ Projected(type) = NoRow
           \/ /\ type = "task.created" /\ row.there
              /\ Projected(type) = [row EXCEPT !.total = @ + 1]
           \/ /\ type = "task.deleted" /\ row.there
              /\ Projected(type) = [row EXCEPT !.total = @ - 1]
           \/ /\ type \notin {"project.created", "project.deleted"}
              /\ ~(type \in {"task.created", "task.deleted"} /\ row.there)
              /\ Projected(type) = row
<1>1. CASE type = "project.created"
  BY <1>1 DEF Projected
<1>2. CASE type = "project.deleted"
  BY <1>2 DEF Projected
<1>3. CASE type = "task.created" /\ row.there
  BY <1>3 DEF Projected
<1>4. CASE type = "task.deleted" /\ row.there
  BY <1>4 DEF Projected
<1>5. CASE /\ type # "project.created" /\ type # "project.deleted"
           /\ ~(type = "task.created" /\ row.there) /\ ~(type = "task.deleted" /\ row.there)
  BY <1>5 DEF Projected
<1> QED
  BY <1>1, <1>2, <1>3, <1>4, <1>5

LEMMA ProjectedType ==
    ASSUME row \in [there : BOOLEAN, total : Int], NEW type
    PROVE  Projected(type) \in [there : BOOLEAN, total : Int]
<1>1. row.total \in Int /\ row.there \in BOOLEAN
  OBVIOUS
<1>2. [row EXCEPT !.there = TRUE] \in [there : BOOLEAN, total : Int]
  OBVIOUS
<1>3. ASSUME NEW n \in Int
      PROVE  [row EXCEPT !.total = n] \in [there : BOOLEAN, total : Int]
  OBVIOUS
<1>4. row.total + 1 \in Int /\ row.total - 1 \in Int
  BY <1>1
<1>5. NoRow \in [there : BOOLEAN, total : Int]
  BY DEF NoRow
<1> QED
  BY <1>2, <1>3, <1>4, <1>5, ProjectedCases, Zenon

LEMMA TypesStep ==
    ASSUME TypeOK, [Next]_vars
    PROVE  TypeOK'
<1> USE DEF TypeOK
<1>0. CallsType /\ ReplayType
  BY DEF CallsType, ReplayType
<1>1. CASE CreateProject
  BY <1>1, ChangeKeepsTypes DEF CreateProject, ProjectEvent
<1>2. CASE DeleteProject
  BY <1>2, ChangeKeepsTypes DEF DeleteProject, ProjectEvent
<1>3. ASSUME NEW t \in Tasks, CreateTask(t)
      PROVE  TypeOK'
  <2>1. task' \in [Tasks -> [status : {"absent", "open", "done"}, deleted : BOOLEAN]]
    <3>1. task[t].status \in {"absent", "open", "done"} /\ task[t].deleted \in BOOLEAN
      OBVIOUS
    <3> QED
      BY <1>3, <3>1 DEF CreateTask
  <2> QED
    BY <1>3, <2>1, ChangeKeepsTypes DEF CreateTask, TaskEvent
<1>4. ASSUME NEW t \in Tasks, FinishTask(t)
      PROVE  TypeOK'
  <2>1. task' \in [Tasks -> [status : {"absent", "open", "done"}, deleted : BOOLEAN]]
    <3>1. task[t].status \in {"absent", "open", "done"} /\ task[t].deleted \in BOOLEAN
      OBVIOUS
    <3> QED
      BY <1>4, <3>1 DEF FinishTask
  <2> QED
    BY <1>4, <2>1, ChangeKeepsTypes DEF FinishTask, TaskEvent
<1>5. ASSUME NEW t \in Tasks, MoveTask(t)
      PROVE  TypeOK'
  <2>1. task' \in [Tasks -> [status : {"absent", "open", "done"}, deleted : BOOLEAN]]
    <3>1. task[t].status \in {"absent", "open", "done"} /\ task[t].deleted \in BOOLEAN
      OBVIOUS
    <3> QED
      BY <1>5, <3>1 DEF MoveTask
  <2> QED
    BY <1>5, <2>1 DEF MoveTask, models
<1>6. ASSUME NEW t \in Tasks, DeleteTask(t)
      PROVE  TypeOK'
  <2>1. task' \in [Tasks -> [status : {"absent", "open", "done"}, deleted : BOOLEAN]]
    <3>1. task[t].status \in {"absent", "open", "done"} /\ task[t].deleted \in BOOLEAN
      OBVIOUS
    <3>2. [task[t] EXCEPT !.deleted = TRUE]
            \in [status : {"absent", "open", "done"}, deleted : BOOLEAN]
      <4>1. task[t] \in [status : {"absent", "open", "done"}, deleted : BOOLEAN]
        OBVIOUS
      <4> QED
        BY <4>1
    <3>3. task' = [task EXCEPT ![t] = [task[t] EXCEPT !.deleted = TRUE]]
      BY <1>6 DEF DeleteTask
    <3> QED
      BY <3>2, <3>3
  <2> QED
    BY <1>6, <2>1, ChangeKeepsTypes DEF DeleteTask, TaskEvent
<1>7. ASSUME NEW c \in Calls, ProjectProjector(c)
      PROVE  TypeOK'
  <2>1. "project" \in Projector
    BY DEF Projector
  <2>2. CallsType'
    <3>1. call' = [call EXCEPT ![c].at["project"] = "end"] /\ log' = log
      BY <1>7 DEF ProjectProjector, Goto, source
    <3> QED
      BY <1>0, <2>1, <3>1, GotoGoes
  <2>3. row' \in [there : BOOLEAN, total : Int]
    BY <1>7, ProjectedType DEF ProjectProjector
  <2>4. call[c].event \in DOMAIN log
    BY <1>7 DEF ProjectProjector, Here
  <2>5. applied' \subseteq DOMAIN log /\ missed' \in BOOLEAN
    BY <1>7, <2>4 DEF ProjectProjector, Miss
  <2> QED
    BY <1>7, <2>2, <2>3, <2>5 DEF ProjectProjector, source, CallsType
<1>8. ASSUME NEW c \in Calls, ReadMetrics(c)
      PROVE  TypeOK'
  <2>1. "metrics" \in Projector
    BY DEF Projector
  <2>2. CallsType'
    <3>1. /\ call' = [call EXCEPT ![c].at["metrics"] = "write",
                                  ![c].active = Cardinality(Unfinished)]
          /\ log' = log
      BY <1>8 DEF ReadMetrics, source
    <3>2. Cardinality(Unfinished) \in Sizes
      BY CountsAreSizes
    <3> QED
      BY <1>0, <2>1, <3>1, <3>2, CountGoes
  <2> QED
    BY <1>8, <2>2 DEF ReadMetrics, source, models, CallsType
<1>9. ASSUME NEW c \in Calls, WriteMetrics(c)
      PROVE  TypeOK'
  <2>1. 0 \in Sizes /\ "metrics" \in Projector
    BY FiniteAssumption, FS_CardinalityType DEF Sizes, Projector
  <2>2. CallsType'
    <3>1. call' = [call EXCEPT ![c].at["metrics"] = "end", ![c].active = 0] /\ log' = log
      BY <1>9 DEF WriteMetrics, source
    <3> QED
      BY <1>0, <2>1, <3>1, CountGoes
  <2>3. metrics' \in Sizes
    BY <1>9 DEF WriteMetrics
  <2> QED
    BY <1>9, <2>2, <2>3 DEF WriteMetrics, source, history, CallsType
<1>10. ASSUME NEW c \in Calls, ProjectorFails(c)
       PROVE  TypeOK'
  <2>2. PICK p \in Projector :
          /\ Goto(c, p, "end")
          /\ IF p = "project" THEN Miss ELSE UNCHANGED <<applied, missed>>
          /\ stale' = (stale \/ p = "metrics")
    BY <1>10 DEF ProjectorFails
  <2>3. log' = log
    BY <1>10 DEF ProjectorFails, source
  <2>4. CallsType'
    BY <1>0, <2>2, <2>3, GotoGoes DEF Goto
  <2>5. applied' \subseteq DOMAIN log /\ missed' \in BOOLEAN /\ stale' \in BOOLEAN
    BY <2>2 DEF Miss
  <2>6. disruptions' \in 0 .. MaxDisruptions
    BY <1>10, BoundsAssumption DEF ProjectorFails, Disrupt
  <2> QED
    BY <1>10, <2>4, <2>5, <2>6 DEF ProjectorFails, source, models, CallsType
<1>11. ASSUME NEW c \in Deliveries, MarkDelivered(c)
       PROVE  TypeOK'
  <2>1. c \in Calls /\ call[c].event \in DOMAIN log
    BY <1>11 DEF MarkDelivered, Settled, Calls
  <2>2. CallsType'
    BY <1>0, <1>11, <2>1, ReplacedCallsType DEF MarkDelivered, source
  <2> QED
    BY <1>11, <2>1, <2>2 DEF MarkDelivered, source, models, history, CallsType
<1>12. ASSUME NEW c \in Deliveries, NEW i \in DOMAIN log, Deliver(c, i)
       PROVE  TypeOK'
  <2>1. c \in Calls
    BY DEF Calls
  <2>2. CallsType'
    BY <1>0, <1>12, <2>1, ReplacedCallsType DEF Deliver, source
  <2>3. disruptions' \in 0 .. MaxDisruptions
    BY <1>12, BoundsAssumption DEF Deliver
  <2> QED
    BY <1>12, <2>2, <2>3 DEF Deliver, source, models, history, CallsType
<1>13. ASSUME NEW c \in Replayers, ReplayEvent(c)
       PROVE  TypeOK'
  <2>1. c \in Calls
    BY DEF Calls
  <2>2. First(replay.todo) \in DOMAIN log
    BY <1>13, FirstIsMember DEF ReplayEvent
  <2>3. CallsType'
    BY <1>0, <1>13, <2>1, <2>2, ReplacedCallsType DEF ReplayEvent, source
  <2>4. ReplayType'
    BY <1>0, <1>13 DEF ReplayEvent, source, ReplayType
  <2> QED
    BY <1>13, <2>3, <2>4 DEF ReplayEvent, source, models, history, CallsType, ReplayType
<1>14. ASSUME NEW c \in Replayers, ReplayedEvent(c)
       PROVE  TypeOK'
  <2>1. c \in Calls
    BY DEF Calls
  <2>2. CallsType'
    BY <1>0, <1>14, <2>1, ReplacedCallsType DEF ReplayedEvent, source
  <2> QED
    BY <1>14, <2>2 DEF ReplayedEvent, source, models, history, CallsType
<1>15. CASE BeginReplay
  <2>1. PICK ids \in Orders : replay' = [Idle EXCEPT !.at = "paging", !.ids = ids]
    BY <1>15 DEF BeginReplay
  <2>2. ReplayType'
    <3>1. /\ replay'.at = "paging" /\ replay'.ids = ids
          /\ replay' = [at |-> "paging", ids |-> ids, cursor |-> 0, todo |-> {}, full |-> FALSE]
      BY <2>1 DEF Idle
    <3> QED
      BY <3>1, BoundsAssumption DEF ReplayType
  <2>3. replays' \in 0 .. MaxReplays
    BY <1>15, BoundsAssumption DEF BeginReplay
  <2> QED
    BY <1>15, <2>2, <2>3 DEF BeginReplay, source, models, history, ReplayType
<1>16. CASE FetchPage
  <2> DEFINE page == Oldest(Beyond)
  <2>1. page \subseteq DOMAIN log
    BY DEF Oldest, Beyond
  <2>2. CASE page = {}
    <3>1. replay' = Idle
      BY <1>16, <2>2 DEF FetchPage
    <3>2. ReplayType'
      BY <3>1, BoundsAssumption DEF Idle, ReplayType
    <3> QED
      BY <1>16, <3>2 DEF FetchPage, source, models, history, ReplayType
  <2>3. CASE page # {}
    <3>1. Last(page) \in DOMAIN log
      BY <2>1, <2>3, LastIsMember
    <3>2. replay.ids \in [1 .. MaxEvents -> 1 .. MaxEvents]
      BY <1>16, OrdersAssumption DEF FetchPage
    <3>3. Last(page) \in 1 .. MaxEvents
      BY <3>1, BoundsAssumption
    <3>4. replay.ids[Last(page)] \in 0 .. MaxEvents
      <4>1. replay.ids[Last(page)] \in 1 .. MaxEvents
        BY <3>2, <3>3, Zenon
      <4> QED
        BY <4>1, BoundsAssumption
    <3>5. replay' = [replay EXCEPT !.at = "running", !.todo = page,
                                     !.cursor = replay.ids[Last(page)],
                                     !.full = Cardinality(page) = PageSize]
      BY <1>16, <2>3 DEF FetchPage
    <3> HIDE DEF page
    <3>6. /\ replay'.at = "running" /\ replay'.todo = page /\ replay'.ids = replay.ids
          /\ replay'.cursor = replay.ids[Last(page)]
          /\ replay'.full = (Cardinality(page) = PageSize)
          /\ replay' = [at |-> replay'.at, ids |-> replay'.ids, cursor |-> replay'.cursor,
                        todo |-> replay'.todo, full |-> replay'.full]
      BY <3>5
    <3>7. replay.ids \in Orders
      BY <1>16 DEF FetchPage
    <3>8. ReplayType'
      <4>1. log' = log
        BY <1>16 DEF FetchPage, source
      <4> QED
        BY <2>1, <3>4, <3>6, <3>7, <4>1 DEF ReplayType
    <3> QED
      BY <1>16, <3>8 DEF FetchPage, source, models, history, ReplayType
  <2> QED
    BY <2>2, <2>3
<1>17. CASE EndPage
  <2>1. ReplayType'
    BY <1>17, BoundsAssumption DEF EndPage, Idle, ReplayType, source
  <2> QED
    BY <1>17, <2>1 DEF EndPage, source, models, history, ReplayType
<1>18. CASE Crash
  <2>1. ReplayType'
    BY <1>18, BoundsAssumption DEF Crash, Idle, ReplayType
  <2>2. CallsType'
    BY <1>18, FreeHasItsType DEF Crash, CallsType, source
  <2>3. disruptions' \in 0 .. MaxDisruptions
    BY <1>18, BoundsAssumption DEF Crash, Disrupt
  <2> QED
    BY <1>18, <2>1, <2>2, <2>3 DEF Crash, source, models, ReplayType, CallsType
<1>19. CASE UNCHANGED vars
  BY <1>19 DEF vars, source, models, history
<1> QED
  BY <1>1, <1>2, <1>3, <1>4, <1>5, <1>6, <1>7, <1>8, <1>9, <1>10, <1>11, <1>12, <1>13,
     <1>14, <1>15, <1>16, <1>17, <1>18, <1>19 DEF Next, Project

-----------------------------------------------------------------------------
(* Calls.                                                                   *)

Changes ==
    \/ CreateProject
    \/ DeleteProject
    \/ \E t \in Tasks : CreateTask(t) \/ FinishTask(t) \/ DeleteTask(t)

\* A change adds its event to the log, and touches neither models nor calls.
LEMMA ChangesLog ==
    ASSUME TypeOK, Changes
    PROVE  /\ DOMAIN log \subseteq DOMAIN log'
           /\ \A i \in DOMAIN log : log'[i] = log[i]
           /\ call' = call /\ delivered' = delivered /\ metrics' = metrics /\ row' = row
<1>1. CASE CreateProject
  BY <1>1, Logging DEF CreateProject, ProjectEvent, models
<1>2. CASE DeleteProject
  BY <1>2, Logging DEF DeleteProject, ProjectEvent, models
<1>3. ASSUME NEW t \in Tasks, CreateTask(t)
      PROVE  /\ DOMAIN log \subseteq DOMAIN log'
             /\ \A i \in DOMAIN log : log'[i] = log[i]
             /\ call' = call /\ delivered' = delivered /\ metrics' = metrics /\ row' = row
  BY <1>3, Logging DEF CreateTask, TaskEvent, models
<1>4. ASSUME NEW t \in Tasks, FinishTask(t)
      PROVE  /\ DOMAIN log \subseteq DOMAIN log'
             /\ \A i \in DOMAIN log : log'[i] = log[i]
             /\ call' = call /\ delivered' = delivered /\ metrics' = metrics /\ row' = row
  BY <1>4, Logging DEF FinishTask, TaskEvent, models
<1>5. ASSUME NEW t \in Tasks, DeleteTask(t)
      PROVE  /\ DOMAIN log \subseteq DOMAIN log'
             /\ \A i \in DOMAIN log : log'[i] = log[i]
             /\ call' = call /\ delivered' = delivered /\ metrics' = metrics /\ row' = row
  BY <1>5, Logging DEF DeleteTask, TaskEvent, models
<1> QED
  BY <1>1, <1>2, <1>3, <1>4, <1>5 DEF Changes

\* The effect of each step of a projector on its call.
LEMMA ProjectCall ==
    ASSUME TypeOK, NEW c \in Calls, ProjectProjector(c)
    PROVE  /\ call'[c].event = call[c].event /\ call[c].event \in DOMAIN log
           /\ call'[c].at["project"] = "end"
           /\ call[c].at["project"] = "start"
           /\ call'[c].at["metrics"] = call[c].at["metrics"]
           /\ \A d \in Calls \ {c} : call'[d] = call[d]
<1>1. "project" \in Projector /\ "metrics" \in Projector \ {"project"}
  BY DEF Projector
<1>2. CallsType
  BY DEF TypeOK, CallsType
<1>3. log' = log /\ call' = [call EXCEPT ![c].at["project"] = "end"]
  BY DEF ProjectProjector, source, Goto
<1>4. call[c].event \in DOMAIN log /\ call[c].at["project"] = "start"
  BY <1>2 DEF ProjectProjector, Here, CallsType
<1>5. Went(c, "project", "end")
  BY <1>1, <1>2, <1>3, GotoGoes
<1> QED
  BY <1>1, <1>4, <1>5 DEF Went

LEMMA ReadCall ==
    ASSUME TypeOK, NEW c \in Calls, ReadMetrics(c)
    PROVE  /\ call'[c].event = call[c].event /\ call[c].event # 0
           /\ call[c].at["metrics"] = "start"
           /\ call'[c].at["metrics"] = "write"
           /\ call'[c].active = Cardinality(Unfinished)
           /\ call'[c].at["project"] = call[c].at["project"]
           /\ \A d \in Calls \ {c} : call'[d] = call[d]
<1>1. "metrics" \in Projector /\ "project" \in Projector \ {"metrics"}
  BY DEF Projector
<1>2. CallsType
  BY DEF TypeOK, CallsType
<1>3. log' = log /\ call' = [call EXCEPT ![c].at["metrics"] = "write",
                                         ![c].active = Cardinality(Unfinished)]
  BY DEF ReadMetrics, source
<1>4. call[c].event # 0 /\ call[c].at["metrics"] = "start"
  BY DEF ReadMetrics, Here
<1>5. call'[c].active = Cardinality(Unfinished)
  BY <1>2, <1>3 DEF CallsType
<1>6. Went(c, "metrics", "write")
  <2>1. Cardinality(Unfinished) \in Sizes
    BY CountsAreSizes
  <2> QED
    BY <1>1, <1>2, <1>3, <2>1, CountGoes
<1> QED
  BY <1>1, <1>4, <1>5, <1>6 DEF Went

LEMMA WriteCall ==
    ASSUME TypeOK, NEW c \in Calls, WriteMetrics(c)
    PROVE  /\ call'[c].event = call[c].event /\ call[c].event # 0
           /\ call[c].at["metrics"] = "write"
           /\ call'[c].at["metrics"] = "end"
           /\ call'[c].at["project"] = call[c].at["project"]
           /\ \A d \in Calls \ {c} : call'[d] = call[d]
<1>1. 0 \in Sizes /\ "metrics" \in Projector /\ "project" \in Projector \ {"metrics"}
  BY FiniteAssumption, FS_CardinalityType DEF Sizes, Projector
<1>2. CallsType
  BY DEF TypeOK, CallsType
<1>3. log' = log /\ call' = [call EXCEPT ![c].at["metrics"] = "end", ![c].active = 0]
  BY DEF WriteMetrics, source
<1>4. call[c].event # 0 /\ call[c].at["metrics"] = "write"
  BY DEF WriteMetrics, Here
<1>5. Went(c, "metrics", "end")
  BY <1>1, <1>2, <1>3, CountGoes
<1> QED
  BY <1>1, <1>4, <1>5 DEF Went

LEMMA FailCall ==
    ASSUME TypeOK, NEW c \in Calls, ProjectorFails(c)
    PROVE  \E p \in Projector :
             /\ call[c].at[p] # "end"
             /\ call'[c].event = call[c].event
             /\ call'[c].at[p] = "end"
             /\ \A q \in Projector \ {p} : call'[c].at[q] = call[c].at[q]
             /\ \A d \in Calls \ {c} : call'[d] = call[d]
             /\ IF p = "project" THEN Miss ELSE UNCHANGED <<applied, missed>>
             /\ stale' = (stale \/ p = "metrics")
<1>2. CallsType
  BY DEF TypeOK, CallsType
<1>3. PICK p \in Projector :
         /\ call[c].at[p] # "end"
         /\ call' = [call EXCEPT ![c].at[p] = "end"]
         /\ IF p = "project" THEN Miss ELSE UNCHANGED <<applied, missed>>
         /\ stale' = (stale \/ p = "metrics")
  BY DEF ProjectorFails, Goto
<1>4. log' = log
  BY DEF ProjectorFails, source
<1>5. Went(c, p, "end")
  BY <1>2, <1>3, <1>4, GotoGoes
<1> QED
  BY <1>3, <1>5 DEF Went

\* The effect of each step of a caller on its call.
LEMMA CallerCall ==
    ASSUME TypeOK
    PROVE  /\ \A c \in Deliveries : MarkDelivered(c) =>
                  /\ c \in Calls /\ call'[c] = Free /\ Settled(c)
                  /\ \A d \in Calls \ {c} : call'[d] = call[d]
           /\ \A c \in Deliveries, i \in DOMAIN log : Deliver(c, i) =>
                  /\ c \in Calls /\ call'[c] = Started(i)
                  /\ \A d \in Calls \ {c} : call'[d] = call[d]
           /\ \A c \in Replayers : ReplayEvent(c) =>
                  /\ c \in Calls
                  /\ \E i \in DOMAIN log : call'[c] = Started(i)
                  /\ \A d \in Calls \ {c} : call'[d] = call[d]
           /\ \A c \in Replayers : ReplayedEvent(c) =>
                  /\ c \in Calls /\ call'[c] = Free /\ Settled(c)
                  /\ \A d \in Calls \ {c} : call'[d] = call[d]
<1>1. CallsType
  BY DEF TypeOK, CallsType
<1>2. Deliveries \subseteq Calls /\ Replayers \subseteq Calls
  BY DEF Calls
<1>3. ASSUME NEW c \in Deliveries, MarkDelivered(c)
      PROVE  /\ call'[c] = Free /\ Settled(c)
             /\ \A d \in Calls \ {c} : call'[d] = call[d]
  BY <1>1, <1>2, <1>3, ReplacedCallsType DEF MarkDelivered, source
<1>4. ASSUME NEW c \in Deliveries, NEW i \in DOMAIN log, Deliver(c, i)
      PROVE  /\ call'[c] = Started(i)
             /\ \A d \in Calls \ {c} : call'[d] = call[d]
  BY <1>1, <1>2, <1>4, ReplacedCallsType DEF Deliver, source
<1>5. ASSUME NEW c \in Replayers, ReplayEvent(c)
      PROVE  /\ \E i \in DOMAIN log : call'[c] = Started(i)
             /\ \A d \in Calls \ {c} : call'[d] = call[d]
  <2>1. First(replay.todo) \in DOMAIN log
    BY <1>5, FirstIsMember DEF ReplayEvent, TypeOK
  <2> QED
    BY <1>1, <1>2, <1>5, <2>1, ReplacedCallsType DEF ReplayEvent, source
<1>6. ASSUME NEW c \in Replayers, ReplayedEvent(c)
      PROVE  /\ call'[c] = Free /\ Settled(c)
             /\ \A d \in Calls \ {c} : call'[d] = call[d]
  BY <1>1, <1>2, <1>6, ReplacedCallsType DEF ReplayedEvent, source
<1> QED
  BY <1>2, <1>3, <1>4, <1>5, <1>6

\* Steps that leave the log, the models, the calls and the deliveries alone.
Bystanding ==
    /\ UNCHANGED <<project, task, log, delivered, row, metrics, call>>
    /\ UNCHANGED <<applied, missed, stale>>

LEMMA Bystanders ==
    ASSUME BeginReplay \/ FetchPage \/ EndPage \/ UNCHANGED vars
    PROVE  Bystanding
BY DEF BeginReplay, FetchPage, EndPage, vars, source, models, history, Bystanding

LEMMA FreeCall == /\ Free.event = 0 /\ Free.at["project"] = "end" /\ Free.at["metrics"] = "end"
  BY DEF Free, Projector

LEMMA CallsStep ==
    ASSUME TypeOK, CallsAreSound, [Next]_vars
    PROVE  CallsAreSound'
<1> USE FreeCall
<1>0. \A c \in Calls : /\ call[c].event \in {0} \cup DOMAIN log
                       /\ 0 \notin DOMAIN log
  BY DEF TypeOK
<1>1. CASE Changes
  BY <1>0, <1>1, ChangesLog DEF CallsAreSound
<1>2. ASSUME NEW t \in Tasks, MoveTask(t)
      PROVE  CallsAreSound'
  BY <1>2 DEF MoveTask, CallsAreSound
<1>3. ASSUME NEW c \in Calls, ProjectProjector(c)
      PROVE  CallsAreSound'
  <2>1. log' = log
    BY <1>3 DEF ProjectProjector, source
  <2> QED
    BY <1>0, <1>3, <2>1, ProjectCall DEF CallsAreSound
<1>4. ASSUME NEW c \in Calls, ReadMetrics(c)
      PROVE  CallsAreSound'
  <2>1. log' = log
    BY <1>4 DEF ReadMetrics, source
  <2> QED
    BY <1>0, <1>4, <2>1, ReadCall DEF CallsAreSound
<1>5. ASSUME NEW c \in Calls, WriteMetrics(c)
      PROVE  CallsAreSound'
  <2>1. log' = log
    BY <1>5 DEF WriteMetrics, source
  <2> QED
    BY <1>0, <1>5, <2>1, WriteCall DEF CallsAreSound
<1>6. ASSUME NEW c \in Calls, ProjectorFails(c)
      PROVE  CallsAreSound'
  <2>1. log' = log
    BY <1>6 DEF ProjectorFails, source
  <2>2. PICK p \in Projector :
             /\ call[c].at[p] # "end"
             /\ call'[c].event = call[c].event
             /\ call'[c].at[p] = "end"
             /\ \A q \in Projector \ {p} : call'[c].at[q] = call[c].at[q]
             /\ \A d \in Calls \ {c} : call'[d] = call[d]
    BY <1>6, FailCall
  <2>3. call[c].event # 0
    BY <2>2 DEF CallsAreSound, Free
  <2>4. "project" \in Projector /\ "metrics" \in Projector
    BY DEF Projector
  <2> QED
    BY <1>0, <2>1, <2>2, <2>3, <2>4 DEF CallsAreSound
<1>7. ASSUME NEW c \in Deliveries, MarkDelivered(c)
      PROVE  CallsAreSound'
  <2>1. log' = log
    BY <1>7 DEF MarkDelivered, source
  <2> QED
    BY <1>0, <1>7, <2>1, CallerCall DEF CallsAreSound
<1>8. ASSUME NEW c \in Deliveries, NEW i \in DOMAIN log, Deliver(c, i)
      PROVE  CallsAreSound'
  <2>1. log' = log
    BY <1>8 DEF Deliver, source
  <2> QED
    BY <1>0, <1>8, <2>1, CallerCall, StartedHasItsType DEF CallsAreSound
<1>9. ASSUME NEW c \in Replayers, ReplayEvent(c)
      PROVE  CallsAreSound'
  <2>1. log' = log
    BY <1>9 DEF ReplayEvent, source
  <2>2. PICK i \in DOMAIN log : call'[c] = Started(i)
    BY <1>9, CallerCall
  <2> QED
    BY <1>0, <1>9, <2>1, <2>2, CallerCall, StartedHasItsType DEF CallsAreSound
<1>10. ASSUME NEW c \in Replayers, ReplayedEvent(c)
       PROVE  CallsAreSound'
  <2>1. log' = log
    BY <1>10 DEF ReplayedEvent, source
  <2> QED
    BY <1>0, <1>10, <2>1, CallerCall DEF CallsAreSound
<1>11. CASE BeginReplay \/ FetchPage \/ EndPage \/ UNCHANGED vars
  BY <1>11, Bystanders DEF Bystanding, CallsAreSound
<1>12. CASE Crash
  BY <1>12 DEF Crash, CallsAreSound
<1> QED
  BY <1>1, <1>2, <1>3, <1>4, <1>5, <1>6, <1>7, <1>8, <1>9, <1>10, <1>11, <1>12
  DEF Next, Project, Changes

-----------------------------------------------------------------------------
(* The metrics.                                                             *)

\* A change that logs an event of a task brings a recomputation.
LEMMA TaskChangesAreComing ==
    ASSUME TypeOK, NEW t \in Tasks, CreateTask(t) \/ FinishTask(t) \/ DeleteTask(t), ~stale'
    PROVE  Coming'
<1>1. PICK type \in {"task.created", "task.status_changed", "task.deleted"} :
         Log(type, t) /\ call' = call /\ delivered' = delivered
  BY DEF CreateTask, FinishTask, DeleteTask
<1>2. GrownBy([type |-> type, task |-> t])
  BY <1>1, Logging DEF TaskEvent
<1>3. /\ Len(log) + 1 \in DOMAIN log' \ delivered'
      /\ log'[Len(log) + 1].type \in TaskEvent
  BY <1>1, <1>2 DEF GrownBy, TypeOK, TaskEvent
<1>4. \A d \in Deliveries : call'[d].event # Len(log) + 1
  BY <1>1 DEF TypeOK, Calls
<1> QED
  BY <1>3, <1>4 DEF Coming

LEMMA ProjectChangesCount ==
    ASSUME TypeOK, Counted, CreateProject \/ DeleteProject
    PROVE  Counted'
<1>1. /\ DOMAIN log \subseteq DOMAIN log' /\ \A i \in DOMAIN log : log'[i] = log[i]
      /\ call' = call /\ delivered' = delivered /\ metrics' = metrics
  BY ChangesLog DEF Changes
<1>2. task' = task
  BY DEF CreateProject, DeleteProject
<1>3. Coming => Coming'
  BY <1>1 DEF Coming
<1> QED
  BY <1>1, <1>2, <1>3 DEF Counted, Recomputing, Here, Unfinished

\* A call that is replaced, by one that has not begun to recompute, was not recomputing.
LEMMA ReplacedStays ==
    ASSUME TypeOK, Counted, NEW c \in Calls,
           call[c] = Free \/ Settled(c),
           call'[c].at["metrics"] # "write",
           \A d \in Calls \ {c} : call'[d] = call[d],
           Coming => Coming',
           UNCHANGED <<task, metrics>>
    PROVE  Counted'
<1>1. c \notin Recomputing
  BY FreeCall DEF Recomputing, Here, Settled, Projector
<1>2. Recomputing' = Recomputing
  BY <1>1 DEF Recomputing, Here
<1>3. Cardinality(Unfinished)' = Cardinality(Unfinished)
  BY DEF Unfinished
<1>4. \A d \in Calls : Recomputing = {d} => call'[d] = call[d]
  BY <1>1
<1> QED
  BY <1>2, <1>3, <1>4 DEF Counted

LEMMA CountedStep ==
    ASSUME TypeOK, CallsAreSound, ~stale => Counted, [Next]_vars, ~stale'
    PROVE  Counted'
<1> USE FreeCall
<1>1. CASE CreateProject \/ DeleteProject
  <2>1. ~stale
    BY <1>1, Logging DEF CreateProject, DeleteProject, ProjectEvent
  <2> QED
    BY <1>1, <2>1, ProjectChangesCount
<1>2. ASSUME NEW t \in Tasks, CreateTask(t) \/ FinishTask(t) \/ DeleteTask(t)
      PROVE  Counted'
  BY <1>2, TaskChangesAreComing DEF Counted
<1>3. ASSUME NEW t \in Tasks, MoveTask(t)
      PROVE  Counted'
  BY <1>3 DEF MoveTask
<1>4. ASSUME NEW c \in Calls, ProjectProjector(c)
      PROVE  Counted'
  <2>1. /\ log' = log /\ delivered' = delivered /\ metrics' = metrics /\ task' = task
        /\ stale' = stale
    BY <1>4 DEF ProjectProjector, source
  <2>2. /\ \A d \in Calls : call'[d].event = call[d].event
        /\ \A d \in Calls : call'[d].at["metrics"] = call[d].at["metrics"]
    BY <1>4, ProjectCall
  <2>3. call' = [call EXCEPT ![c].at["project"] = "end"]
    BY <1>4 DEF ProjectProjector, Goto
  <2>4. \A d \in Calls : call'[d].active = call[d].active
    BY <2>3 DEF TypeOK
  <2>5. Coming => Coming'
    BY <2>1, <2>2 DEF Coming, Calls
  <2>6. Recomputing' = Recomputing /\ Unfinished' = Unfinished
    BY <2>1, <2>2 DEF Recomputing, Here, Unfinished
  <2> QED
    BY <2>1, <2>4, <2>5, <2>6 DEF Counted
<1>5. ASSUME NEW c \in Calls, ReadMetrics(c)
      PROVE  Counted'
  <2>1. Recomputing = {}
    BY <1>5 DEF ReadMetrics
  <2>2. Recomputing' = {c}
    BY <1>5, <2>1, ReadCall DEF Recomputing, Here
  <2>3. call'[c].active = Cardinality(Unfinished)
    BY <1>5, ReadCall
  <2>4. Unfinished' = Unfinished
    BY <1>5 DEF ReadMetrics, source, Unfinished
  <2> QED
    BY <2>2, <2>3, <2>4 DEF Counted
<1>6. ASSUME NEW c \in Calls, WriteMetrics(c)
      PROVE  Counted'
  <2>1. /\ log' = log /\ delivered' = delivered /\ task' = task /\ stale' = stale
        /\ metrics' = call[c].active
    BY <1>6 DEF WriteMetrics, source, history
  <2>2. c \in Recomputing
    BY <1>6 DEF WriteMetrics, Recomputing
  <2>3. Recomputing' = Recomputing \ {c}
    BY <1>6, WriteCall DEF Recomputing, Here
  <2>4. CASE Coming
    <3>1. PICK i \in DOMAIN log \ delivered :
             /\ log[i].type \in TaskEvent
             /\ \A d \in Deliveries : call[d].event = i => call[d].at["metrics"] = "start"
      BY <2>4 DEF Coming
    <3>2. \A d \in Deliveries : call'[d].event = i => call'[d].at["metrics"] = "start"
      BY <1>6, <3>1, WriteCall DEF Calls
    <3> QED
      BY <2>1, <3>1, <3>2 DEF Coming, Counted
  <2>5. CASE Recomputing = {c} /\ call[c].active = Cardinality(Unfinished)
    <3>1. Unfinished' = Unfinished
      BY <2>1 DEF Unfinished
    <3> QED
      BY <2>1, <2>3, <2>5, <3>1 DEF Counted
  <2> QED
    BY <2>1, <2>2, <2>4, <2>5 DEF Counted
<1>7. ASSUME NEW c \in Calls, ProjectorFails(c)
      PROVE  Counted'
  <2>1. /\ log' = log /\ delivered' = delivered /\ metrics' = metrics /\ task' = task
    BY <1>7 DEF ProjectorFails, source, models
  <2>2. PICK p \in Projector :
             /\ call[c].at[p] # "end"
             /\ Goto(c, p, "end")
             /\ stale' = (stale \/ p = "metrics")
    BY <1>7 DEF ProjectorFails
  <2>3. p = "project" /\ ~stale
    BY <2>2 DEF Projector
  <2>4. /\ \A d \in Calls : call'[d].event = call[d].event
        /\ \A d \in Calls : call'[d].at["metrics"] = call[d].at["metrics"]
        /\ \A d \in Calls : call'[d].active = call[d].active
    BY <2>2, <2>3 DEF Goto, TypeOK, Projector
  <2>5. Coming => Coming'
    BY <2>1, <2>4 DEF Coming, Calls
  <2>6. Recomputing' = Recomputing /\ Unfinished' = Unfinished
    BY <2>1, <2>4 DEF Recomputing, Here, Unfinished
  <2> QED
    BY <2>1, <2>3, <2>4, <2>5, <2>6 DEF Counted
<1>8. ASSUME NEW c \in Deliveries, MarkDelivered(c)
      PROVE  Counted'
  <2>1. /\ log' = log /\ metrics' = metrics /\ task' = task /\ stale' = stale
        /\ delivered' = delivered \cup {call[c].event}
    BY <1>8 DEF MarkDelivered, source, models, history
  <2>2. c \in Calls /\ call'[c] = Free /\ Settled(c) /\ \A d \in Calls \ {c} : call'[d] = call[d]
    BY <1>8, CallerCall
  <2>3. Coming => Coming'
    <3>1. HAVE Coming
    <3>2. PICK i \in DOMAIN log \ delivered :
             /\ log[i].type \in TaskEvent
             /\ \A d \in Deliveries : call[d].event = i => call[d].at["metrics"] = "start"
      BY <3>1 DEF Coming
    <3>3. call[c].event # i
      BY <2>2, <3>2 DEF Settled, Projector
    <3>4. i # 0
      BY <3>2 DEF TypeOK
    <3>5. \A d \in Deliveries : call'[d].event = i => call'[d].at["metrics"] = "start"
      BY <2>2, <3>2, <3>4 DEF Calls
    <3> QED
      BY <2>1, <3>2, <3>3, <3>5 DEF Coming
  <2> QED
    BY <2>1, <2>2, <2>3, ReplacedStays
<1>9. ASSUME NEW c \in Deliveries, NEW i \in DOMAIN log, Deliver(c, i)
      PROVE  Counted'
  <2>1. /\ log' = log /\ metrics' = metrics /\ task' = task /\ stale' = stale
        /\ delivered' = delivered \ {i} /\ call[c] = Free
    BY <1>9 DEF Deliver, source, models, history
  <2>2. /\ c \in Calls /\ call'[c] = Started(i)
        /\ \A d \in Calls \ {c} : call'[d] = call[d]
    BY <1>9, CallerCall
  <2>3. Coming => Coming'
    <3>1. HAVE Coming
    <3>2. PICK k \in DOMAIN log \ delivered :
             /\ log[k].type \in TaskEvent
             /\ \A d \in Deliveries : call[d].event = k => call[d].at["metrics"] = "start"
      BY <3>1 DEF Coming
    <3>3. call'[c].event = k => call'[c].at["metrics"] = "start"
      BY <2>2, <3>2, StartedHasItsType
    <3>4. \A d \in Deliveries : call'[d].event = k => call'[d].at["metrics"] = "start"
      BY <2>2, <3>2, <3>3 DEF Calls
    <3> QED
      BY <2>1, <3>2, <3>4 DEF Coming
  <2>4. call'[c].at["metrics"] # "write"
    BY <2>2, StartedHasItsType
  <2> QED
    BY <2>1, <2>2, <2>3, <2>4, ReplacedStays
<1>10. ASSUME NEW c \in Replayers, ReplayEvent(c) \/ ReplayedEvent(c)
       PROVE  Counted'
  <2>1. /\ log' = log /\ metrics' = metrics /\ task' = task /\ stale' = stale
        /\ delivered' = delivered /\ (call[c] = Free \/ Settled(c))
    BY <1>10 DEF ReplayEvent, ReplayedEvent, source, models, history
  <2>2. c \in Calls /\ \A d \in Calls \ {c} : call'[d] = call[d]
    BY <1>10, CallerCall
  <2>3. call'[c].at["metrics"] # "write"
    BY <1>10, CallerCall, StartedHasItsType
  <2>4. \A d \in Deliveries : call'[d] = call[d]
    BY <2>2, CallsAssumption DEF Calls
  <2>5. Coming => Coming'
    <3>1. HAVE Coming
    <3>2. PICK i \in DOMAIN log \ delivered :
             /\ log[i].type \in TaskEvent
             /\ \A d \in Deliveries : call[d].event = i => call[d].at["metrics"] = "start"
      BY <3>1 DEF Coming
    <3>3. i \in DOMAIN log' \ delivered' /\ log'[i].type \in TaskEvent
      BY <2>1, <3>2
    <3>4. \A d \in Deliveries : call'[d].event = i => call'[d].at["metrics"] = "start"
      BY <2>4, <3>2
    <3> QED
      BY <3>3, <3>4 DEF Coming
  <2> QED
    BY <2>1, <2>2, <2>3, <2>5, ReplacedStays
<1>11. CASE BeginReplay \/ FetchPage \/ EndPage \/ UNCHANGED vars
  <2>1. UNCHANGED <<task, log, delivered, metrics, call, stale>>
    BY <1>11, Bystanders DEF Bystanding
  <2>2. Coming => Coming'
    BY <2>1 DEF Coming
  <2>3. Recomputing' = Recomputing /\ Unfinished' = Unfinished
    BY <2>1 DEF Recomputing, Here, Unfinished
  <2> QED
    BY <2>1, <2>2, <2>3 DEF Counted
<1>12. CASE Crash
  BY <1>12 DEF Crash
<1> QED
  BY <1>1, <1>2, <1>3, <1>4, <1>5, <1>6, <1>7, <1>8, <1>9, <1>10, <1>11, <1>12
  DEF Next, Project

-----------------------------------------------------------------------------
(* The counters of the project.                                             *)

\* What one more event adds to the log.
LEMMA GrownLog ==
    ASSUME TypeOK, NEW e, GrownBy(e)
    PROVE  /\ \A type : (\E i \in DOMAIN log' : log'[i].type = type)
                            <=> Has(DOMAIN log, type) \/ e.type = type
           /\ \A t \in Tasks : t \in Created(DOMAIN log)'
                            <=> t \in Created(DOMAIN log) \/ (e.type = "task.created" /\ e.task = t)
           /\ \A t \in Tasks : t \in Removed(DOMAIN log)'
                            <=> t \in Removed(DOMAIN log) \/ (e.type = "task.deleted" /\ e.task = t)
<1>1. \A type : (\E i \in DOMAIN log' : log'[i].type = type)
                            <=> Has(DOMAIN log, type) \/ e.type = type
  BY DEF GrownBy, Has
<1>2. ASSUME NEW t \in Tasks
      PROVE  t \in Created(DOMAIN log)'
                <=> t \in Created(DOMAIN log) \/ (e.type = "task.created" /\ e.task = t)
  BY DEF GrownBy, Created
<1>3. ASSUME NEW t \in Tasks
      PROVE  t \in Removed(DOMAIN log)'
                <=> t \in Removed(DOMAIN log) \/ (e.type = "task.deleted" /\ e.task = t)
  BY DEF GrownBy, Removed
<1> QED
  BY <1>1, <1>2, <1>3

\* The log stays free of repetitions, and its events name their task.
LEMMA GrownLogIsDistinct ==
    ASSUME TypeOK, LogIsComplete, NEW type \in ProjectEvent \cup TaskEvent,
           NEW t \in Tasks \cup {NoTask}, GrownBy([type |-> type, task |-> t]),
           type # "task.status_changed" => \A i \in DOMAIN log : log[i] # [type |-> type, task |-> t],
           type \in ProjectEvent <=> t = NoTask
    PROVE  /\ \A i, j \in DOMAIN log' :
                 log'[i] = log'[j] /\ log'[i].type # "task.status_changed" => i = j
           /\ \A i \in DOMAIN log' : log'[i].type \in ProjectEvent <=> log'[i].task = NoTask
<1> DEFINE e == [type |-> type, task |-> t]
<1>1. e.type = type /\ e.task = t
  OBVIOUS
<1>2. \A i \in DOMAIN log : log'[i] = log[i]
  BY DEF GrownBy
<1>3. /\ log'[Len(log) + 1] = e
      /\ DOMAIN log' = DOMAIN log \cup {Len(log) + 1}
  BY DEF GrownBy
<1> HIDE DEF e
<1>4. \A i \in DOMAIN log : type # "task.status_changed" => log[i] # e
  BY DEF e
<1> QED
  BY <1>1, <1>2, <1>3, <1>4 DEF LogIsComplete

LEMMA LogStaysComplete ==
    ASSUME TypeOK, LogIsComplete, Changes, ~missed'
    PROVE  LogIsComplete'
<1>1. CASE CreateProject
  <2> DEFINE e == [type |-> "project.created", task |-> NoTask]
  <2>1. GrownBy(e) /\ project = "absent" /\ project' = "live" /\ task' = task
    BY <1>1, Logging DEF CreateProject, ProjectEvent
  <2>2. \A i \in DOMAIN log : log[i] # e
    BY <2>1 DEF LogIsComplete, Has
  <2>3. /\ \A i, j \in DOMAIN log' :
              log'[i] = log'[j] /\ log'[i].type # "task.status_changed" => i = j
        /\ \A i \in DOMAIN log' : log'[i].type \in ProjectEvent <=> log'[i].task = NoTask
    BY <2>1, <2>2, GrownLogIsDistinct DEF ProjectEvent
  <2> HIDE DEF e
  <2>4. e.type = "project.created" /\ e.task = NoTask
    BY DEF e
  <2> QED
    BY <2>1, <2>3, <2>4, GrownLog DEF LogIsComplete, Has
<1>2. CASE DeleteProject
  <2> DEFINE e == [type |-> "project.deleted", task |-> NoTask]
  <2>1. GrownBy(e) /\ project = "live" /\ project' = "deleted" /\ task' = task
    BY <1>2, Logging DEF DeleteProject, ProjectEvent
  <2>2. \A i \in DOMAIN log : log[i] # e
    BY <2>1 DEF LogIsComplete, Has
  <2>3. /\ \A i, j \in DOMAIN log' :
              log'[i] = log'[j] /\ log'[i].type # "task.status_changed" => i = j
        /\ \A i \in DOMAIN log' : log'[i].type \in ProjectEvent <=> log'[i].task = NoTask
    BY <2>1, <2>2, GrownLogIsDistinct DEF ProjectEvent
  <2> HIDE DEF e
  <2>4. e.type = "project.deleted" /\ e.task = NoTask
    BY DEF e
  <2> QED
    BY <2>1, <2>3, <2>4, GrownLog DEF LogIsComplete, Has
<1>3. ASSUME NEW t \in Tasks, CreateTask(t)
      PROVE  LogIsComplete'
  <2> DEFINE e == [type |-> "task.created", task |-> t]
  <2>1. GrownBy(e) /\ project' = project /\ task[t].status = "absent"
    BY <1>3, Logging DEF CreateTask, TaskEvent
  <2>2. \A i \in DOMAIN log : log[i] # e
    BY <2>1 DEF LogIsComplete, Created
  <2>3. /\ \A i, j \in DOMAIN log' :
              log'[i] = log'[j] /\ log'[i].type # "task.status_changed" => i = j
        /\ \A i \in DOMAIN log' : log'[i].type \in ProjectEvent <=> log'[i].task = NoTask
    BY <2>1, <2>2, GrownLogIsDistinct, NoTaskAssumption DEF ProjectEvent, TaskEvent
  <2>4. /\ task'[t].status = "open" /\ task'[t].deleted = task[t].deleted
        /\ \A u \in Tasks \ {t} : task'[u] = task[u]
    BY <1>3 DEF CreateTask, TypeOK
  <2> HIDE DEF e
  <2>5. e.type = "task.created" /\ e.task = t
    BY DEF e
  <2>6. /\ Has(DOMAIN log, "project.created")' <=> Has(DOMAIN log, "project.created")
        /\ Has(DOMAIN log, "project.deleted")' <=> Has(DOMAIN log, "project.deleted")
    BY <2>1, <2>5, GrownLog DEF Has
  <2>7. \A u \in Tasks : u \in Created(DOMAIN log)' <=> task'[u].status # "absent"
    BY <2>1, <2>4, <2>5, GrownLog DEF LogIsComplete
  <2>8. \A u \in Tasks : u \in Removed(DOMAIN log)' <=> task'[u].deleted
    BY <2>1, <2>4, <2>5, GrownLog DEF LogIsComplete
  <2>9. \A u \in Tasks : task'[u].deleted => task'[u].status # "absent"
    BY <2>1, <2>4 DEF LogIsComplete
  <2> QED
    BY <2>1, <2>3, <2>6, <2>7, <2>8, <2>9 DEF LogIsComplete
<1>4. ASSUME NEW t \in Tasks, FinishTask(t)
      PROVE  LogIsComplete'
  <2> DEFINE e == [type |-> "task.status_changed", task |-> t]
  <2>1. GrownBy(e) /\ project' = project /\ task[t].status = "open"
    BY <1>4, Logging DEF FinishTask, TaskEvent
  <2>3. /\ \A i, j \in DOMAIN log' :
              log'[i] = log'[j] /\ log'[i].type # "task.status_changed" => i = j
        /\ \A i \in DOMAIN log' : log'[i].type \in ProjectEvent <=> log'[i].task = NoTask
    BY <2>1, GrownLogIsDistinct, NoTaskAssumption DEF ProjectEvent, TaskEvent
  <2>4. /\ task'[t].status = "done" /\ task'[t].deleted = task[t].deleted
        /\ \A u \in Tasks \ {t} : task'[u] = task[u]
    BY <1>4 DEF FinishTask, TypeOK
  <2> HIDE DEF e
  <2>5. e.type = "task.status_changed" /\ e.task = t
    BY DEF e
  <2>6. /\ Has(DOMAIN log, "project.created")' <=> Has(DOMAIN log, "project.created")
        /\ Has(DOMAIN log, "project.deleted")' <=> Has(DOMAIN log, "project.deleted")
    BY <2>1, <2>5, GrownLog DEF Has
  <2>7. \A u \in Tasks : u \in Created(DOMAIN log)' <=> task'[u].status # "absent"
    BY <2>1, <2>4, <2>5, GrownLog DEF LogIsComplete
  <2>8. \A u \in Tasks : u \in Removed(DOMAIN log)' <=> task'[u].deleted
    BY <2>1, <2>4, <2>5, GrownLog DEF LogIsComplete
  <2>9. \A u \in Tasks : task'[u].deleted => task'[u].status # "absent"
    BY <2>1, <2>4 DEF LogIsComplete
  <2> QED
    BY <2>1, <2>3, <2>6, <2>7, <2>8, <2>9 DEF LogIsComplete
<1>5. ASSUME NEW t \in Tasks, DeleteTask(t)
      PROVE  LogIsComplete'
  <2> DEFINE e == [type |-> "task.deleted", task |-> t]
  <2>1. GrownBy(e) /\ project' = project /\ task[t].status # "absent" /\ ~task[t].deleted
    BY <1>5, Logging DEF DeleteTask, TaskEvent
  <2>2. \A i \in DOMAIN log : log[i] # e
    BY <2>1 DEF LogIsComplete, Removed
  <2>3. /\ \A i, j \in DOMAIN log' :
              log'[i] = log'[j] /\ log'[i].type # "task.status_changed" => i = j
        /\ \A i \in DOMAIN log' : log'[i].type \in ProjectEvent <=> log'[i].task = NoTask
    BY <2>1, <2>2, GrownLogIsDistinct, NoTaskAssumption DEF ProjectEvent, TaskEvent
  <2>4. /\ task'[t].deleted /\ task'[t].status = task[t].status
        /\ \A u \in Tasks \ {t} : task'[u] = task[u]
    BY <1>5 DEF DeleteTask, TypeOK
  <2> HIDE DEF e
  <2>5. e.type = "task.deleted" /\ e.task = t
    BY DEF e
  <2>6. /\ Has(DOMAIN log, "project.created")' <=> Has(DOMAIN log, "project.created")
        /\ Has(DOMAIN log, "project.deleted")' <=> Has(DOMAIN log, "project.deleted")
    BY <2>1, <2>5, GrownLog DEF Has
  <2>7. \A u \in Tasks : u \in Created(DOMAIN log)' <=> task'[u].status # "absent"
    BY <2>1, <2>4, <2>5, GrownLog DEF LogIsComplete
  <2>8. \A u \in Tasks : u \in Removed(DOMAIN log)' <=> task'[u].deleted
    BY <2>1, <2>4, <2>5, GrownLog DEF LogIsComplete
  <2>9. \A u \in Tasks : task'[u].deleted => task'[u].status # "absent"
    BY <2>1, <2>4 DEF LogIsComplete
  <2> QED
    BY <2>1, <2>3, <2>6, <2>7, <2>8, <2>9 DEF LogIsComplete
<1> QED
  BY <1>1, <1>2, <1>3, <1>4, <1>5 DEF Changes

\* Sets of tasks can be counted.
LEMMA TasksAreFinite ==
    ASSUME NEW S, S \subseteq Tasks
    PROVE  IsFiniteSet(S) /\ Cardinality(S) \in Nat
BY FiniteAssumption, FS_Subset, FS_CardinalityType

\* Applying one more event to the row keeps it a function of the set of events applied.
LEMMA RowStaysExact ==
    ASSUME TypeOK, LogIsComplete, RowMatches, NEW i \in DOMAIN log, i \notin applied,
           log[i].type = "project.created" \/ Has(applied, "project.created"),
           log' = log, applied' = applied \cup {i}, row' = Projected(log[i].type)
    PROVE  RowMatches'
<1> DEFINE type == log[i].type
<1> DEFINE t == log[i].task
<1>1. /\ log[i] = [type |-> type, task |-> t]
      /\ type \in ProjectEvent \cup TaskEvent /\ t \in Tasks \cup {NoTask}
      /\ applied \subseteq DOMAIN log
  <2>1. log[i] \in Event /\ applied \subseteq DOMAIN log
    BY DEF TypeOK
  <2> QED
    BY <2>1 DEF Event
<1>2. ASSUME NEW j \in applied, log[j].type = type, log[j].task = t
      PROVE  type = "task.status_changed"
  <2>0. j \in DOMAIN log /\ log[j] \in Event
    BY <1>1 DEF TypeOK
  <2>1. j \in DOMAIN log /\ log[j] = [type |-> type, task |-> t]
    BY <2>0, <1>2 DEF Event
  <2> QED
    BY <1>1, <2>1 DEF LogIsComplete
<1>3. /\ row.there \in BOOLEAN /\ row.total \in Int
      /\ row = [there |-> row.there, total |-> row.total]
  BY DEF TypeOK
<1>4. \A x : (\E j \in applied' : log'[j].type = x) <=> Has(applied, x) \/ type = x
  BY DEF Has
<1>5. /\ Created(applied)' = IF type = "task.created" THEN Created(applied) \cup ({t} \cap Tasks)
                             ELSE Created(applied)
      /\ Removed(applied)' = IF type = "task.deleted" THEN Removed(applied) \cup ({t} \cap Tasks)
                             ELSE Removed(applied)
  BY DEF Created, Removed
<1>6. /\ IsFiniteSet(Created(applied)) /\ Cardinality(Created(applied)) \in Nat
      /\ IsFiniteSet(Removed(applied)) /\ Cardinality(Removed(applied)) \in Nat
  BY TasksAreFinite DEF Created, Removed
<1> HIDE DEF type, t
<1>7. CASE type = "project.created"
  <2>1. t = NoTask
    BY <1>7 DEF LogIsComplete, ProjectEvent, type, t
  <2>2. ~Has(applied, "project.created")
    <3>1. ASSUME NEW j \in applied, log[j].type = "project.created"
          PROVE  FALSE
      <4>1. log[j].task = NoTask
        BY <1>1, <3>1 DEF LogIsComplete, ProjectEvent
      <4> QED
        BY <1>2, <1>7, <2>1, <3>1, <4>1
    <3> QED
      BY <3>1 DEF Has
  <2>3. applied = {} /\ row.there = FALSE /\ row.total = 0
    BY <2>2, <1>3 DEF RowMatches
  <2>4. row' = [there |-> TRUE, total |-> 0]
    <3>1. row' = [row EXCEPT !.there = TRUE]
      BY <1>7, ProjectedCases DEF type
    <3> QED
      BY <1>3, <2>3, <3>1
  <2>5. /\ Created(applied) = {} /\ Removed(applied) = {}
        /\ ~Has(applied, "project.deleted")
    BY <2>3 DEF Created, Removed, Has
  <2>6. Cardinality(Created(applied))' = 0 /\ Cardinality(Removed(applied))' = 0
    BY <1>5, <1>7, <2>5, FS_EmptySet
  <2>7. Has(applied, "project.created")' /\ ~Has(applied, "project.deleted")'
    BY <1>4, <1>7, <2>5 DEF Has
  <2> QED
    BY <2>4, <2>6, <2>7 DEF RowMatches
<1>8. CASE type = "project.deleted"
  <2>1. row' = [there |-> FALSE, total |-> 0]
    BY <1>8, ProjectedCases DEF type, NoRow
  <2>2. Has(applied, "project.deleted")' /\ (Has(applied, "project.created") => Has(applied, "project.created")')
    BY <1>4, <1>8 DEF Has
  <2>3. Has(applied, "project.created")
    BY <1>8 DEF type
  <2> QED
    BY <2>1, <2>2, <2>3 DEF RowMatches
<1>9. CASE type \notin {"project.created", "project.deleted"}
  <2>1. /\ Has(applied, "project.created")' /\ Has(applied, "project.created")
        /\ Has(applied, "project.deleted")' <=> Has(applied, "project.deleted")
    BY <1>4, <1>9 DEF Has, type
  <2>2. t \in Tasks
    BY <1>1, <1>9 DEF LogIsComplete, ProjectEvent, type, t
  <2>3. CASE type = "task.created" /\ row.there
    <3>1. t \notin Created(applied)
      BY <1>2, <2>3 DEF Created
    <3>2. Cardinality(Created(applied))' = Cardinality(Created(applied)) + 1
      <4>1. Created(applied)' = Created(applied) \cup {t}
        BY <1>5, <2>2, <2>3
      <4> QED
        BY <4>1, <1>6, <3>1, FS_AddElement
    <3>3. Removed(applied)' = Removed(applied)
      BY <1>5, <2>3
    <3>4. row' = [row EXCEPT !.total = @ + 1]
      BY <2>3, ProjectedCases DEF type
    <3>5. row'.there = row.there /\ row'.total = row.total + 1
      BY <1>3, <3>4
    <3> QED
      BY <1>3, <1>6, <2>1, <2>3, <3>2, <3>3, <3>5 DEF RowMatches
  <2>4. CASE type = "task.deleted" /\ row.there
    <3>1. t \notin Removed(applied)
      BY <1>2, <2>4 DEF Removed
    <3>2. Cardinality(Removed(applied))' = Cardinality(Removed(applied)) + 1
      <4>1. Removed(applied)' = Removed(applied) \cup {t}
        BY <1>5, <2>2, <2>4
      <4> QED
        BY <4>1, <1>6, <3>1, FS_AddElement
    <3>3. Created(applied)' = Created(applied)
      BY <1>5, <2>4
    <3>4. row' = [row EXCEPT !.total = @ - 1]
      BY <2>4, ProjectedCases DEF type
    <3>5. row'.there = row.there /\ row'.total = row.total - 1
      BY <1>3, <3>4
    <3> QED
      BY <1>3, <1>6, <2>1, <2>4, <3>2, <3>3, <3>5 DEF RowMatches
  <2>5. CASE ~(type \in {"task.created", "task.deleted"} /\ row.there)
    <3>1. row' = row
      BY <1>9, <2>5, ProjectedCases DEF type
    <3>2. row.there => Created(applied)' = Created(applied) /\ Removed(applied)' = Removed(applied)
      BY <1>5, <2>5
    <3> QED
      BY <1>3, <2>1, <3>1, <3>2 DEF RowMatches
  <2> QED
    BY <2>3, <2>4, <2>5
<1> QED
  BY <1>7, <1>8, <1>9

\* The row goes on matching while neither it nor the applied events change.
LEMMA RowStaysMatched ==
    ASSUME TypeOK, RowMatches, row' = row, applied' = applied,
           \A i \in DOMAIN log : log'[i] = log[i]
    PROVE  RowMatches'
<1>1. \A i \in applied : log'[i] = log[i]
  BY DEF TypeOK
<1>2. /\ Has(applied, "project.created")' <=> Has(applied, "project.created")
      /\ Has(applied, "project.deleted")' <=> Has(applied, "project.deleted")
  BY <1>1 DEF Has
<1>3. Created(applied)' = Created(applied) /\ Removed(applied)' = Removed(applied)
  BY <1>1 DEF Created, Removed
<1> QED
  BY <1>2, <1>3 DEF RowMatches

\* The same for the whole of Exact, when the tables are left alone and the calls that
\* change do not get past the projector.
LEMMA ExactStays ==
    ASSUME TypeOK, Exact, UNCHANGED <<project, log, row, applied>>,
           task' \in [Tasks -> [status : {"absent", "open", "done"}, deleted : BOOLEAN]],
           \A t \in Tasks : /\ task'[t].status = "absent" <=> task[t].status = "absent"
                            /\ task'[t].deleted = task[t].deleted,
           delivered' \subseteq applied,
           \A c \in Calls :
              call'[c].event # 0 /\ call'[c].at["project"] = "end" => call'[c].event \in applied
    PROVE  Exact'
<1>1. RowMatches'
  BY RowStaysMatched DEF Exact
<1>2. CallsApply'
  BY DEF CallsApply
<1>3. LogIsComplete'
  <2>1. /\ \A x : Has(DOMAIN log, x)' <=> Has(DOMAIN log, x)
        /\ Created(DOMAIN log)' = Created(DOMAIN log)
        /\ Removed(DOMAIN log)' = Removed(DOMAIN log)
    BY DEF Has, Created, Removed
  <2> QED
    BY <2>1 DEF LogIsComplete, Exact
<1> QED
  BY <1>1, <1>2, <1>3 DEF Exact

LEMMA ExactStep ==
    ASSUME TypeOK, CallsAreSound, ~missed => Exact, [Next]_vars, ~missed'
    PROVE  Exact'
<1> USE FreeCall
<1>0. task \in [Tasks -> [status : {"absent", "open", "done"}, deleted : BOOLEAN]]
  BY DEF TypeOK
<1>1. CASE Changes
  <2>1. ~missed /\ applied' = applied
    <3>1. CASE CreateProject \/ DeleteProject
      BY <3>1, Logging DEF CreateProject, DeleteProject, ProjectEvent
    <3>2. ASSUME NEW t \in Tasks, CreateTask(t) \/ FinishTask(t) \/ DeleteTask(t)
          PROVE  ~missed /\ applied' = applied
      BY <3>2, Logging DEF CreateTask, FinishTask, DeleteTask, TaskEvent
    <3> QED
      BY <1>1, <3>1, <3>2 DEF Changes
  <2>2. LogIsComplete'
    BY <1>1, <2>1, LogStaysComplete DEF Exact
  <2>3. RowMatches'
    BY <1>1, <2>1, ChangesLog, RowStaysMatched DEF Exact
  <2>4. CallsApply'
    BY <1>1, <2>1, ChangesLog DEF Exact, CallsApply
  <2> QED
    BY <2>2, <2>3, <2>4 DEF Exact
<1>2. ASSUME NEW t \in Tasks, MoveTask(t)
      PROVE  Exact'
  <2>1. /\ UNCHANGED <<project, log, row, applied, missed, delivered, call>>
    BY <1>2 DEF MoveTask, models
  <2>2. /\ task'[t].status = "done" /\ task[t].status = "open"
        /\ task'[t].deleted = task[t].deleted
        /\ \A u \in Tasks \ {t} : task'[u] = task[u]
        /\ task' \in [Tasks -> [status : {"absent", "open", "done"}, deleted : BOOLEAN]]
    BY <1>0, <1>2 DEF MoveTask
  <2> QED
    BY <2>1, <2>2, ExactStays DEF Exact, CallsApply
<1>3. ASSUME NEW c \in Calls, ProjectProjector(c)
      PROVE  Exact'
  <2> DEFINE i == call[c].event
  <2>1. UNCHANGED <<project, task, log, delivered>>
    BY <1>3 DEF ProjectProjector, source
  <2>2. /\ i \in DOMAIN log
        /\ \A d \in Calls : call'[d].event = call[d].event
        /\ \A d \in Calls \ {c} : call'[d] = call[d]
    BY <1>3, ProjectCall
  <2>3. /\ ~missed /\ i \notin applied
        /\ log[i].type = "project.created" \/ Has(applied, "project.created")
        /\ applied' = applied \cup {i}
    BY <1>3 DEF ProjectProjector, Miss, Founded, Has, TypeOf
  <2>4. row' = Projected(log[i].type)
    BY <1>3 DEF ProjectProjector, TypeOf
  <2>5. LogIsComplete'
    <3>1. /\ \A x : Has(DOMAIN log, x)' <=> Has(DOMAIN log, x)
          /\ Created(DOMAIN log)' = Created(DOMAIN log)
          /\ Removed(DOMAIN log)' = Removed(DOMAIN log)
      BY <2>1 DEF Has, Created, Removed
    <3> QED
      BY <2>1, <2>3, <3>1 DEF LogIsComplete, Exact
  <2>6. RowMatches'
    BY <2>1, <2>2, <2>3, <2>4, RowStaysExact DEF Exact
  <2>7. CallsApply'
    BY <2>1, <2>2, <2>3 DEF CallsApply, Exact
  <2> QED
    BY <2>5, <2>6, <2>7 DEF Exact
<1>4. ASSUME NEW c \in Calls, ReadMetrics(c) \/ WriteMetrics(c)
      PROVE  Exact'
  <2>1. UNCHANGED <<project, task, log, row, applied, missed, delivered>>
    BY <1>4 DEF ReadMetrics, WriteMetrics, source, models, history
  <2>2. \A d \in Calls : /\ call'[d].event = call[d].event
                         /\ call'[d].at["project"] = call[d].at["project"]
    BY <1>4, ReadCall, WriteCall
  <2> QED
    BY <1>0, <2>1, <2>2, ExactStays DEF Exact, CallsApply
<1>5. ASSUME NEW c \in Calls, ProjectorFails(c)
      PROVE  Exact'
  <2>1. UNCHANGED <<project, task, log, row, delivered>>
    BY <1>5 DEF ProjectorFails, source, models
  <2>2. PICK p \in Projector :
             /\ call'[c].event = call[c].event
             /\ \A q \in Projector \ {p} : call'[c].at[q] = call[c].at[q]
             /\ \A d \in Calls \ {c} : call'[d] = call[d]
             /\ IF p = "project" THEN Miss ELSE UNCHANGED <<applied, missed>>
    BY <1>5, FailCall
  <2>3. p # "project" /\ UNCHANGED <<applied, missed>> /\ "project" \in Projector
    BY <2>2 DEF Miss, Projector
  <2>4. \A d \in Calls : /\ call'[d].event = call[d].event
                         /\ call'[d].at["project"] = call[d].at["project"]
    BY <2>2, <2>3
  <2> QED
    BY <1>0, <2>1, <2>3, <2>4, ExactStays DEF Exact, CallsApply
<1>6. ASSUME NEW c \in Deliveries, MarkDelivered(c)
      PROVE  Exact'
  <2>1. /\ UNCHANGED <<project, task, log, row, applied, missed>>
        /\ delivered' = delivered \cup {call[c].event}
    BY <1>6 DEF MarkDelivered, source, models, history
  <2>2. c \in Calls /\ call'[c] = Free /\ Settled(c) /\ \A d \in Calls \ {c} : call'[d] = call[d]
    BY <1>6, CallerCall
  <2>3. call[c].event \in applied
    BY <2>1, <2>2 DEF Settled, Exact, CallsApply, Projector
  <2> QED
    BY <1>0, <2>1, <2>2, <2>3, ExactStays DEF Exact, CallsApply
<1>7. ASSUME NEW c \in Deliveries, NEW i \in DOMAIN log, Deliver(c, i)
      PROVE  Exact'
  <2>1. /\ UNCHANGED <<project, task, log, row, applied, missed>>
        /\ delivered' = delivered \ {i}
    BY <1>7 DEF Deliver, source, models, history
  <2>2. /\ c \in Calls /\ call'[c] = Started(i)
        /\ \A d \in Calls \ {c} : call'[d] = call[d]
    BY <1>7, CallerCall
  <2> QED
    BY <1>0, <2>1, <2>2, StartedHasItsType, ExactStays DEF Exact, CallsApply
<1>8. ASSUME NEW c \in Replayers, ReplayEvent(c)
      PROVE  Exact'
  <2>1. UNCHANGED <<project, task, log, row, applied, missed, delivered>>
    BY <1>8 DEF ReplayEvent, source, models, history
  <2>2. PICK i \in DOMAIN log : call'[c] = Started(i)
    BY <1>8, CallerCall
  <2>3. c \in Calls /\ \A d \in Calls \ {c} : call'[d] = call[d]
    BY <1>8, CallerCall
  <2> QED
    BY <1>0, <2>1, <2>2, <2>3, StartedHasItsType, ExactStays DEF Exact, CallsApply
<1>9. ASSUME NEW c \in Replayers, ReplayedEvent(c)
      PROVE  Exact'
  <2>1. UNCHANGED <<project, task, log, row, applied, missed, delivered>>
    BY <1>9 DEF ReplayedEvent, source, models, history
  <2>2. c \in Calls /\ call'[c] = Free /\ \A d \in Calls \ {c} : call'[d] = call[d]
    BY <1>9, CallerCall
  <2> QED
    BY <1>0, <2>1, <2>2, ExactStays DEF Exact, CallsApply
<1>10. CASE BeginReplay \/ FetchPage \/ EndPage \/ UNCHANGED vars
  <2>1. Bystanding
    BY <1>10, Bystanders
  <2> QED
    BY <1>0, <2>1, ExactStays DEF Bystanding, Exact, CallsApply
<1>11. CASE Crash
  <2>1. UNCHANGED <<project, task, log, row, applied, missed, delivered>>
    BY <1>11 DEF Crash, source, models
  <2>2. \A c \in Calls : call'[c] = Free
    BY <1>11 DEF Crash
  <2> QED
    BY <1>0, <2>1, <2>2, ExactStays DEF Exact, CallsApply
<1> QED
  BY <1>1, <1>2, <1>3, <1>4, <1>5, <1>6, <1>7, <1>8, <1>9, <1>10, <1>11
  DEF Next, Project, Changes

-----------------------------------------------------------------------------
(* The invariant, and what follows from it.                                 *)

LEMMA InitSound == Init => IInv
<1> SUFFICES ASSUME Init PROVE IInv
  OBVIOUS
<1>1. 0 \in Sizes
  BY FiniteAssumption, FS_CardinalityType DEF Sizes
<1>2. TypeOK
  <2>1. CallsType
    BY FreeHasItsType DEF Init, CallsType
  <2>2. ReplayType
    BY IdleHasItsType DEF Init, ReplayType
  <2>3. log = <<>> /\ log \in Seq(Event) /\ Len(log) <= MaxEvents /\ DOMAIN log = {}
    BY BoundsAssumption DEF Init
  <2>4. /\ project \in {"absent", "live", "deleted"}
        /\ task \in [Tasks -> [status : {"absent", "open", "done"}, deleted : BOOLEAN]]
        /\ row \in [there : BOOLEAN, total : Int]
    BY DEF Init, NoRow
  <2>5. /\ delivered = {} /\ applied = {} /\ metrics \in Sizes
        /\ replays \in 0 .. MaxReplays /\ disruptions \in 0 .. MaxDisruptions
        /\ missed = FALSE /\ stale = FALSE
    BY <1>1, BoundsAssumption DEF Init
  <2> QED
    BY <2>1, <2>2, <2>3, <2>4, <2>5 DEF TypeOK, CallsType, ReplayType
<1>3. CallsAreSound
  BY FreeCall DEF Init, CallsAreSound
<1>4. Exact
  <2>1. DOMAIN log = {} /\ applied = {} /\ delivered = {}
    BY DEF Init
  <2>2. LogIsComplete
    BY <2>1 DEF Init, LogIsComplete, Has, Created, Removed
  <2>3. RowMatches
    BY <2>1 DEF Init, RowMatches, Has, NoRow
  <2>4. CallsApply
    BY <2>1, FreeCall DEF Init, CallsApply
  <2> QED
    BY <2>2, <2>3, <2>4 DEF Exact
<1>5. Counted
  <2>1. Unfinished = {} /\ Recomputing = {}
    BY FreeCall DEF Init, Unfinished, Recomputing, Here
  <2> QED
    BY <2>1, FS_EmptySet DEF Init, Counted
<1> QED
  BY <1>2, <1>3, <1>4, <1>5 DEF IInv

LEMMA IInvHolds == Spec => []IInv
<1>1. IInv /\ [Next]_vars => IInv'
  BY TypesStep, CallsStep, ExactStep, CountedStep DEF IInv
<1> QED
  BY InitSound, <1>1, PTL DEF Spec

\* The variables of ReadModels keep their types (modules/events/projectors and
\* events.replay.ts), for any tasks, calls, pages and orders of ids.
THEOREM ReadModelTypesHold == Spec => []TypeOK
<1>1. IInv => TypeOK
  BY DEF IInv
<1> QED
  BY IInvHolds, <1>1, PTL

\* project.projector.ts: once every event has been projected exactly once, with
\* project.created first, the row counts the tasks of the project, in whatever order
\* and overlap the calls of runProjectors worked.
THEOREM CountersMatchTheTables == Spec => []CountersMatch
<1>1. IInv => CountersMatch
  <2> SUFFICES ASSUME IInv, Quiet, ~missed
               PROVE  /\ row.there <=> project = "live"
                      /\ row.there => row.total = Cardinality(TasksOfProject)
    BY DEF CountersMatch
  <2>1. applied = DOMAIN log
    BY DEF IInv, TypeOK, Exact, CallsApply, Quiet
  <2>2. row.there <=> project = "live"
    BY <2>1 DEF IInv, TypeOK, Exact, LogIsComplete, RowMatches
  <2>3. Created(applied) \ Removed(applied) = TasksOfProject
    <3>1. Created(applied) \subseteq Tasks /\ TasksOfProject \subseteq Tasks
      BY DEF Created, TasksOfProject
    <3> QED
      BY <2>1, <3>1 DEF IInv, Exact, LogIsComplete, TasksOfProject
  <2>4. Created(applied) \cap Removed(applied) = Removed(applied)
    <3>1. Removed(applied) \subseteq Tasks
      BY DEF Removed
    <3> QED
      BY <2>1, <3>1 DEF IInv, Exact, LogIsComplete
  <2>5. IsFiniteSet(Created(applied))
    BY TasksAreFinite DEF Created
  <2>6. Cardinality(TasksOfProject)
          = Cardinality(Created(applied)) - Cardinality(Removed(applied))
    <3>1. Cardinality(Created(applied) \ Removed(applied))
            = Cardinality(Created(applied)) - Cardinality(Created(applied) \cap Removed(applied))
      BY <2>5, FS_Difference, Zenon
    <3> QED
      BY <2>3, <2>4, <3>1, Zenon
  <2> QED
    BY <2>2, <2>6 DEF IInv, Exact, RowMatches
<1> QED
  BY IInvHolds, <1>1, PTL

\* orgMetrics.projector.ts:6-9: after a recomputation that ran alone, the metrics agree
\* with the tables whenever no event is left to project.
THEOREM RecomputingHealsDrift == Spec => []RecomputingHeals
<1>1. IInv => RecomputingHeals
  <2> SUFFICES ASSUME IInv, Quiet, ~stale
               PROVE  metrics = Cardinality(Unfinished)
    BY DEF RecomputingHeals
  <2>1. ~Coming
    BY DEF Coming, Quiet
  <2>2. Recomputing = {}
    BY FreeCall DEF Quiet, Recomputing, Here
  <2> QED
    BY <2>1, <2>2 DEF IInv, Counted
<1> QED
  BY IInvHolds, <1>1, PTL

=============================================================================
