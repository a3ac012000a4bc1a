----------------------------- MODULE StatusDisplay -----------------------------
(***************************************************************************)
(* What the command line client makes of insights (cmd/oc-update-status:   *)
(* controlplane.go, nodes.go, workerpools.go).  Layout, wording, durations *)
(* and estimates are left out.  Pure operators; no state.                  *)
(*                                                                         *)
(* Statuses of insights are those of ClusterVersionAssessment,             *)
(* ClusterOperatorAssessment, NodeAssessment and PoolAssessment.  A list   *)
(* that some are left out of is a function on the positions of the rest.   *)
(***************************************************************************)
EXTENDS Integers, FiniteSetsExt

CONSTANTS None,     \* no condition, no version
          MaxLines  \* nodes listed unless details are asked for

-----------------------------------------------------------------------------
(* Control plane.                                                          *)

\* A condition that is not there falls in no group.
Group(statuses, condition, is(_)) ==
  {o \in DOMAIN statuses : statuses[o][condition] # None /\ is(statuses[o][condition])}

AssessOperators(statuses) ==
  LET updating(is(_)) == Group(statuses, "updating", is)
      healthy(is(_))  == Group(statuses, "healthy", is)
  IN  [total       |-> Cardinality(DOMAIN statuses),
       Updating    |-> updating(LAMBDA c : c.status = "True"),
       Updated     |-> updating(LAMBDA c : c.status = "False" /\ c.why = "Updated"),
       Waiting     |-> updating(LAMBDA c : c.status = "False" /\ c.why = "Pending"),
       Healthy     |-> healthy(LAMBDA c : c.status = "True"),
       Unavailable |-> healthy(LAMBDA c : c.status = "False" /\ c.why = "Unavailable"),
       Degraded    |-> healthy(LAMBDA c : c.status = "False" /\ c.why = "Degraded")]

\* StatusSummary: the rest is unknown.
UnknownOperators(operators) ==
  operators.total - Cardinality(operators.Healthy) - Cardinality(operators.Unavailable)
    - Cardinality(operators.Degraded)

ShownVersions(versions) ==
  CASE versions.install  -> [target |-> versions.target, from |-> None, whole |-> TRUE]
    [] ~versions.install -> [target |-> versions.target, from |-> versions.previous,
                             whole |-> ~versions.partial]

AssessControlPlaneStatus(cv, statuses) ==
  [assessment |-> cv.assessment, completion |-> cv.completion,
   operators |-> AssessOperators(statuses), versions |-> ShownVersions(cv.versions)]

-----------------------------------------------------------------------------
(* Nodes of the control plane.                                             *)

FindStatusCondition(conditions, type) ==
  LET found == {i \in DOMAIN conditions : conditions[i].type = type}
  IN  IF found = {} THEN None ELSE conditions[Min(found)]

\* Without an Updating condition a node has the zero assessment and phase.  The
\* reason of the condition is the phase the evaluator found.
AssessNode(status) ==
  LET updating    == FindStatusCondition(status.conditions, "Updating")
      degraded    == FindStatusCondition(status.conditions, "Degraded")
      available   == FindStatusCondition(status.conditions, "Available")
      isUpdating  == updating # None /\ updating.status
      reason      == IF updating = None THEN {} ELSE updating.why
      isDegraded  == degraded # None /\ degraded.status
      isUnavailable == available # None /\ ~available.status
  IN  [name          |-> status.name,
       version       |-> status.version,
       isUpdating    |-> isUpdating,
       isUpdated     |-> ~isUpdating /\ reason = {"Completed"},
       isDegraded    |-> isDegraded,
       isUnavailable |-> isUnavailable,
       phase         |-> IF reason = {} THEN {"Draining"} ELSE reason,
       assessment    |-> CASE isUnavailable -> "Unavailable"
                           [] ~isUnavailable /\ isDegraded -> "Degraded"
                           [] ~isUnavailable /\ ~isDegraded ->
                                CASE isUpdating             -> "Progressing"
                                  [] reason = {"Completed"} -> "Completed"
                                  [] reason = {"Paused"}    -> "Excluded"
                                  [] reason = {"Pending"}   -> "Outdated"
                                  [] OTHER                  -> "Degraded"]

\* Fault: insights that do not name their pool yet are taken in as well.
OfPoolOrNone(statuses, pool) ==
  [i \in {i \in DOMAIN statuses : statuses[i].pool \in {pool, None}} |-> statuses[i]]

OfPool(statuses, pool) ==
  [i \in {i \in DOMAIN statuses : statuses[i].pool = pool} |-> statuses[i]]

AssessPool(statuses) == [i \in DOMAIN statuses |-> AssessNode(statuses[i])]

\* updated / total * 100 in floating point is 100 only when all are updated.
AllUpdated(nodes) == DOMAIN nodes # {} /\ \A i \in DOMAIN nodes : nodes[i].isUpdated

\* Fault: an unavailable node is left out also when it is not updating.
OmittedUnavailable(node) == ~node.isDegraded

Omitted(node) == ~node.isDegraded /\ (node.isUnavailable => node.isUpdating)

\* The number of the line a node would be on if all were shown.
Line(nodes, i) == Cardinality({j \in DOMAIN nodes : j <= i})

OmittedLines(nodes) == {i \in DOMAIN nodes : Line(nodes, i) > MaxLines /\ Omitted(nodes[i])}

\* WriteNodes for the pool of the control plane, without details.
WriteNodes(nodes) ==
  LET omitted == OmittedLines(nodes)
      count(is(_)) == Cardinality({i \in omitted : is(nodes[i])})
  IN  IF DOMAIN nodes = {} \/ AllUpdated(nodes)
      THEN [allUpdatedTo |-> IF DOMAIN nodes = {} THEN None ELSE nodes[Min(DOMAIN nodes)].version,
            lines |-> {}, omitted |-> [Total |-> 0]]
      ELSE [allUpdatedTo |-> None,
            lines   |-> {nodes[i] : i \in DOMAIN nodes \ omitted},
            omitted |-> [Total       |-> Cardinality(omitted),
                         Completed   |-> count(LAMBDA n : n.isUpdated),
                         Available   |-> count(LAMBDA n : ~n.isUnavailable),
                         Progressing |-> count(LAMBDA n : n.assessment = "Progressing"),
                         Outdated    |-> count(LAMBDA n : ~n.isUpdated),
                         Draining    |-> count(LAMBDA n : n.phase = {"Draining"}),
                         Excluded    |-> count(LAMBDA n : n.phase = {"Paused"})]]

-----------------------------------------------------------------------------
(* Worker pools.                                                           *)

\* Fault: divided before it is multiplied.
UpdatedNodesDividedFirst(status) == (status.completion \div 100) * status.summaries.Total

UpdatedNodes(status) == (status.completion * status.summaries.Total) \div 100

\* A count that is not shown is 0.
PoolStatus(status) ==
  LET shown == {"Available", "Progressing", "Draining", "Excluded", "Degraded"}
  IN  [type \in shown |-> status.summaries[type]]

WritePool(status) ==
  [assessment |-> status.assessment, completion |-> status.completion,
   updated |-> UpdatedNodes(status), total |-> status.summaries.Total,
   status |-> PoolStatus(status)]
=============================================================================
