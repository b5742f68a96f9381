----------------------------- MODULE CustomAgent -----------------------------
(***************************************************************************)
(* Custom agents: the drawing that is compiled, the agent it is saved as,  *)
(* its versions and their publication                                      *)
(* (packages/api/src/modules/agents/builder/custom-agents.service.ts).     *)
(*                                                                         *)
(* A request reads the agent, is checked, and writes by id in a            *)
(* transaction of its own; requests interleave between the two.            *)
(***************************************************************************)
EXTENDS FlowCompiler

CONSTANTS
    Agents,      \* ids of agents
    Users,       \* their creators
    Requests,    \* requests on existing agents; each is made once
    Drawings,    \* flows drawn on a canvas
    Saved,       \* those of them that are also saved
    MaxNodes     \* env.AGENT_BUILDER_MAX_NODES

ASSUME DrawingsAssumption == \A flow \in Drawings : IsFlow(flow)
ASSUME SavedAssumption == Saved \subseteq Drawings
ASSUME MaxNodesAssumption == MaxNodes \in Nat

VARIABLES
    canvas,      \* the drawing
    agent,       \* the custom_agents rows
    versions,    \* the custom_agent_versions rows
    request,     \* where each request is
    disturbed    \* the agents that two updates have written at once, or that were
                 \* published in a version that was not their newest

vars == <<canvas, agent, versions, request, disturbed>>

NoFlow == [nodes |-> <<>>, edges |-> <<>>]
NoAgent == [version |-> 0]
Active(r) == request[r].at \notin {"new", "done"}

Exists(a) == agent[a] # NoAgent
VersionsOf(a) == {v \in versions : v.agent = a}
Updating(a) == {r \in Requests : request[r].at = "update" /\ request[r].agent = a}

Init ==
    /\ canvas = NoFlow
    /\ agent = [a \in Agents |-> NoAgent]
    /\ versions = {}
    /\ request = [r \in Requests |-> [at |-> "new"]]
    /\ disturbed = {}

\* The user draws a flow on the empty canvas.
Draw ==
    /\ canvas = NoFlow
    /\ canvas' \in Drawings
    /\ UNCHANGED <<agent, versions, request, disturbed>>

\* Mutant of Fits: one node too many.
FitsAlmost(flow) == Len(flow.nodes) <= MaxNodes + 1

Fits(flow) == Len(flow.nodes) <= MaxNodes

\* A new id, a new row and its first version, in one transaction.
Insert(a, u, flow, code) ==
    /\ ~Exists(a)
    /\ \A r \in Requests : Active(r) => request[r].agent # a
    /\ agent' = [agent EXCEPT ![a] = [version |-> 1, flow |-> flow, code |-> code,
                                      creator |-> u, published |-> FALSE]]
    /\ versions' = versions \cup {[agent |-> a, version |-> 1, flow |-> flow, code |-> code]}

\* createCustomAgent: a flow with errors is saved too, without code.
Create(a, u) ==
    /\ canvas \in Saved
    /\ Fits(canvas)
    /\ Insert(a, u, canvas, Code(canvas))
    /\ UNCHANGED <<canvas, request, disturbed>>

\* The versions go with their agent (onDelete: Cascade).
Removed(a) == versions \ VersionsOf(a)

\* deleteCustomAgent.
Delete(a) ==
    /\ Exists(a)
    /\ agent' = [agent EXCEPT ![a] = NoAgent]
    /\ versions' = Removed(a)
    /\ disturbed' = disturbed \ {a}
    /\ UNCHANGED <<canvas, request>>

\* A request has read the agent and passed the checks.
Begin(r, what) ==
    /\ request[r].at = "new"
    /\ request' = [request EXCEPT ![r] = what]
    /\ disturbed' = IF what.at = "update" /\ Updating(what.agent) # {}
                    THEN disturbed \cup {what.agent} ELSE disturbed
    /\ UNCHANGED <<canvas, agent, versions>>

BeginWrite(r, a, u, flow, code, renew) ==
    /\ agent[a].creator = u
    /\ Begin(r, [at |-> "update", agent |-> a, version |-> agent[a].version + 1,
                 flow |-> flow, code |-> code, renew |-> renew])

\* updateCustomAgent, with a flow or with a name alone.
BeginUpdate(r, a, u, flow) ==
    /\ Exists(a) /\ Fits(flow)
    /\ BeginWrite(r, a, u, flow, Code(flow), TRUE)

BeginRename(r, a, u) ==
    /\ Exists(a) /\ Fits(agent[a].flow)
    /\ BeginWrite(r, a, u, agent[a].flow, agent[a].code, FALSE)

\* rollbackToVersion.
BeginRollback(r, a, u, v) ==
    /\ Exists(a) /\ v \in VersionsOf(a)
    /\ BeginWrite(r, a, u, v.flow, v.code, TRUE)

\* Mutant of Renewed: the version of the row is left as it is.
RenewedContent(row, m) ==
    IF m.renew THEN [row EXCEPT !.flow = m.flow, !.code = m.code] ELSE row

Renewed(row, m) ==
    IF m.renew
    THEN [row EXCEPT !.version = m.version, !.flow = m.flow, !.code = m.code]
    ELSE [row EXCEPT !.version = m.version]

\* The transaction of the three; refused when the row is gone.
CommitWrite(r) ==
    LET m == request[r] IN
    /\ m.at = "update"
    /\ IF Exists(m.agent)
       THEN /\ agent' = [agent EXCEPT ![m.agent] = Renewed(@, m)]
            /\ versions' = versions \cup {[agent |-> m.agent, version |-> m.version,
                                           flow |-> m.flow, code |-> m.code]}
       ELSE UNCHANGED <<agent, versions>>
    /\ request' = [request EXCEPT ![r] = [at |-> "done"]]
    /\ UNCHANGED <<canvas, disturbed>>

\* cloneCustomAgent: of what was read, whatever has become of it.
BeginClone(r, a) ==
    /\ Exists(a)
    /\ Begin(r, [at |-> "clone", agent |-> a, flow |-> agent[a].flow, code |-> agent[a].code,
                 disturbed |-> a \in disturbed])

CommitClone(r, b, u) ==
    LET m == request[r] IN
    /\ m.at = "clone"
    /\ Insert(b, u, m.flow, m.code)
    /\ disturbed' = IF m.disturbed THEN disturbed \cup {b} ELSE disturbed
    /\ request' = [request EXCEPT ![r] = [at |-> "done"]]
    /\ UNCHANGED canvas

\* publishCustomAgent compiles the version it was asked for.
Publishable(v) == Accepts(v.flow)

BeginPublish(r, a, v) ==
    /\ Exists(a) /\ v \in VersionsOf(a)
    /\ Publishable(v)
    /\ Begin(r, [at |-> "publish", agent |-> a, version |-> v.version, flow |-> v.flow])

CommitPublish(r) ==
    LET m == request[r] IN
    /\ m.at = "publish"
    /\ IF Exists(m.agent)
       THEN /\ agent' = [agent EXCEPT ![m.agent].published = TRUE,
                                      ![m.agent].code = Code(m.flow)]
            /\ disturbed' = IF agent[m.agent].version = m.version THEN disturbed
                            ELSE disturbed \cup {m.agent}
       ELSE UNCHANGED <<agent, disturbed>>
    /\ request' = [request EXCEPT ![r] = [at |-> "done"]]
    /\ UNCHANGED <<canvas, versions>>

Next ==
    \/ Draw
    \/ \E a \in Agents : Delete(a) \/ \E u \in Users : Create(a, u)
    \/ \E r \in Requests, a \in Agents :
          \/ \E u \in Users :
                \/ \E flow \in Saved : BeginUpdate(r, a, u, flow)
                \/ \E v \in versions : BeginRollback(r, a, u, v)
                \/ BeginRename(r, a, u)
                \/ CommitClone(r, a, u)
          \/ \E v \in versions : BeginPublish(r, a, v)
          \/ BeginClone(r, a)
    \/ \E r \in Requests : CommitWrite(r) \/ CommitPublish(r)

Spec == Init /\ [][Next]_vars

-----------------------------------------------------------------------------
(* What holds of the compiler, for whatever is drawn.                       *)

\* detectCycle finds a cycle exactly when a node leads to one, whatever the order
\* of nodes and edges and although it marks nodes visited across its searches.
CyclesAreFound ==
    DetectCycle(canvas) <=>
        \E a \in Ids(canvas) : \E b \in Reached(canvas, a) \cup {a} : b \in Reached(canvas, b)

\* The code of an accepted flow has every node once, after everything that leads
\* to it, so that no action runs before the results it is given exist.
CodeFollowsEdges ==
    Accepts(canvas) =>
        LET order == TopologicalSort(canvas) IN
        /\ {order[i] : i \in DOMAIN order} = Ids(canvas)
        /\ \A i, j \in DOMAIN order : order[i] = order[j] => i = j
        /\ \A a, b \in Ids(canvas) :
              Edge(canvas, a, b) =>
                  \E i, j \in DOMAIN order : i < j /\ order[i] = a /\ order[j] = b

\* "All inputs connected" is enough: with edges that join nodes of the flow, every
\* node of an accepted flow is led to by a trigger.
EverythingIsTriggered ==
    Accepts(canvas) /\ EdgesJoinNodes(canvas) =>
        Ids(canvas) \subseteq UNION {Reached(canvas, t) \cup {t} : t \in OfKind(canvas, "trigger")}

-----------------------------------------------------------------------------
(* What holds of the versions.                                              *)

\* Types; and no agent or version holds a flow that is too large.
TypeOK ==
    LET Stored == [version : Nat, flow : {f \in Saved : Len(f.nodes) <= MaxNodes}, code : Seq(Nat)] IN
    /\ \A a \in Agents : Exists(a) =>
          /\ [version |-> agent[a].version, flow |-> agent[a].flow, code |-> agent[a].code]
             \in Stored
          /\ agent[a].creator \in Users
          /\ agent[a].published \in BOOLEAN
    /\ \A v \in versions :
          /\ [version |-> v.version, flow |-> v.flow, code |-> v.code] \in Stored
          /\ v.agent \in Agents
    /\ disturbed \subseteq Agents

\* Of an agent that is not disturbed, the versions are numbered without a gap or a
\* duplicate, each has the code of its flow, and the newest one is what the agent
\* is; an agent that is gone has left none.
HistoryIsFaithful ==
    \A a \in Agents \ disturbed :
        /\ {v.version : v \in VersionsOf(a)} = 1 .. agent[a].version
        /\ \A v \in VersionsOf(a) :
              /\ v.code = Code(v.flow)
              /\ \A w \in VersionsOf(a) : v.version = w.version => v = w
              /\ v.version = agent[a].version => v.flow = agent[a].flow /\ v.code = agent[a].code

-----------------------------------------------------------------------------
(* What the documentation says and the code does not do.                    *)

\* compiler.ts:8, "Find trigger node -- flows must have exactly one".
AcceptedHasOneTrigger == Accepts(canvas) => Cardinality(OfKind(canvas, "trigger")) = 1

=============================================================================
