----------------------------- MODULE UpdateStatus -----------------------------
(***************************************************************************)
(* The command line client, oc update-status (cmd/oc-update-status/        *)
(* main.go), against the insights the controllers write.  The client lists *)
(* one kind of insights after the other; between the lists the cluster     *)
(* moves on and the controllers catch up with it, each on its own.         *)
(*                                                                         *)
(* The controllers are abstracted to what the other modules show of them:  *)
(* an insight is blank for a moment after its creation, and ends up saying *)
(* what the assessment says of the cluster.  Each is written in a step of  *)
(* its own.                                                                *)
(***************************************************************************)
EXTENDS ClusterVersionAssessment

CONSTANTS Version,    \* versions of the payload
          First,      \* the one that was installed
          Operator,   \* cluster operators
          Report,     \* what an operator may report of itself
          Masters,    \* nodes of the control plane, in the order they are listed
          Workers,    \* nodes of the pool "worker"
          Machine,    \* what a node may be like to the evaluator
          Fleets,     \* the nodes at the start, each a function to Machine
          MachineVersions,  \* version of each MachineConfig
          MaxLines,   \* defaultNodesShown
          MaxChanges  \* bound on the steps of the cluster and on blank insights

Cos     == INSTANCE ClusterOperatorAssessment
Nodes   == INSTANCE NodeAssessment
Pools   == INSTANCE PoolAssessment
Display == INSTANCE StatusDisplay

Pool == {"master", "worker"}

Node == Range(Masters) \cup Workers

PoolOf(n) == IF n \in Workers THEN "worker" ELSE "master"

\* The ClusterVersion, and what it and a report consist of.
Entries         == [version : Version, state : {"Completed", "Partial"},
                    started : Nat, completed : Nat \cup {None}]
ClusterVersions == [progressing : Progressing, history : Seq(Entries),
                    desired : Version \cup {None}, forced : BOOLEAN]
Claims          == {"True", "False", "Unknown", None}
Reports         == [version : Version \cup {None}, progressing : Claims,
                    available : Claims, degraded : Claims]

\* What nodes report: the reasons they are not ready or degraded for.
Facts == (UNION {m.mcdReason : m \in Machine})
           \cup (UNION {{t.reason : t \in m.troubles} : m \in Machine})
Whys  == Facts \cup Nodes!OwnWords

\* What insights say, as far as the client looks at it.
Reasons ==
  {"as reported", "no Progressing condition", "empty history", "not partial",
   "partial but completed", "not completed", "completed but no time",
   "Progressing is Unknown", "Updated", "Progressing", "Pending", "CannotDetermine",
   "Unavailable", "Degraded", "AsExpected", "", "Paused", "NodesDegraded",
   "AllNodesUpdated", "NoNodes", "NoProblems"}
Verdicts == [status : {"True", "False", "Unknown"}, why : Reasons, since : Nat]
ClusterVersionStatuses ==
  [assessment : {"", "Progressing", "Completed", "Unknown"}, completion : Int,
   versions : [target : Version \cup {None}, install : BOOLEAN,
               previous : Version \cup {None}, partial : BOOLEAN],
   updating : Verdicts \cup {None}]
OperatorStatuses ==
  [updating : Verdicts \cup {None}, healthy : Verdicts \cup {None}]
NodeStates ==
  [name : Node, pool : Pool, version : Version \cup {None},
   desiredVersion : Version \cup {None},
   currentConfig : DOMAIN MachineVersions \cup {None},
   desiredConfig : DOMAIN MachineVersions \cup {None},
   conditions : Seq(Nodes!Conditions(Whys)), phase : Nodes!Phases, message : SUBSET Whys]
PoolInsights ==
  [name : Pool,
   status : [assessment : {"Pending", "Degraded", "Excluded", "Progressing", "Completed"},
             completion : Int,
             summaries : [Total : Nat, Available : Nat, Progressing : Nat, Outdated : Nat,
                          Draining : Nat, Excluded : Nat, Degraded : Nat],
             updating : Verdicts, healthy : Verdicts]]

ASSUME UpdateStatusAssumption ==
  /\ First \in Version /\ MaxLines \in Nat /\ MaxChanges \in Nat
  /\ IsFiniteSet(Operator) /\ Report \subseteq Reports
  /\ None \notin Version \cup Reasons \cup {"master", "worker", "True", "False", "Unknown"}
  /\ None \notin Report /\ None \notin Node /\ None \notin Verdicts
  /\ None \notin ClusterVersionStatuses /\ None \notin OperatorStatuses
  /\ None \notin NodeStates /\ None \notin PoolInsights
  /\ None \notin Nodes!Conditions(Whys)

\* There is a control plane, its nodes are listed once, and none is a worker.
ASSUME FleetAssumption ==
  /\ Masters \in Seq(Range(Masters)) /\ Masters # <<>>
  /\ \A i, j \in DOMAIN Masters : Masters[i] = Masters[j] => i = j
  /\ IsFiniteSet(Workers) /\ Workers \cap Range(Masters) = {}
  /\ Fleets \subseteq [Node -> Machine]
  /\ MachineVersions \in [DOMAIN MachineVersions -> Version \cup {None}]
  /\ \A m \in Machine :
       /\ {m.current, m.desired} \subseteq DOMAIN MachineVersions \cup {None}
       /\ \A t \in m.troubles : t.since \in Nat

VARIABLES
  cv, co, machine, paused,  \* the cluster: ClusterVersion, operators, nodes, pools
  cvInsight, coInsights,    \* statuses of insights, None: there is no insight
  nodeInsights, poolInsights,
  pc,                       \* the list the client makes next, or how it ended
  header, nodes, rows,      \* what it has of the control plane, of its nodes, of pools
  steady,                   \* history: the insights were right when it started, and
                            \* nothing changed since
  changes                   \* steps of the cluster and blank insights so far

cluster  == <<cv, co, machine, paused>>
insights == <<cvInsight, coInsights, nodeInsights, poolInsights>>
client   == <<pc, header, nodes, rows>>
vars == <<cluster, insights, client, steady, changes>>

-----------------------------------------------------------------------------
(* What the controllers would say of the cluster.                          *)

Present  == {o \in Operator : co[o] # None}
Versions == [o \in Present |-> co[o].version]

\* Of a cluster version's status the client looks at all but the times.
Glance(status) ==
  [assessment |-> status.assessment, completion |-> status.completion,
   versions |-> status.versions, updating |-> status.updating]

DueClusterVersion == Glance(AssessClusterVersion(cv, EmptyStatus, Versions, 0))

DueOperator(o) == Cos!AssessClusterOperator(co[o], cv.desired, Cos!EmptyStatus, 0)

Target == IF cv.history = <<>> THEN None ELSE cv.history[1].version

DueNode(n) ==
  Nodes!EvaluateNode(n, machine[n], PoolOf(n),
                     [paused |-> PoolOf(n) \in paused, osImage |-> None],
                     MachineVersions, Target, <<>>, 1)

StateOf(n) ==
  LET due == DueNode(n)
      is(type) == \E i \in DOMAIN due.conditions :
                    due.conditions[i].type = type /\ due.conditions[i].status
  IN  [phase |-> due.phase, version |-> due.version, desiredVersion |-> due.desiredVersion,
       available |-> is("Available"), degraded |-> is("Degraded")]

\* The name stands for the scope too.
DuePool(p) ==
  [name |-> p,
   status |-> Pools!AssessPool(p \in paused, {n \in Node : PoolOf(n) = p},
                               [n \in Node |-> StateOf(n)], Pools!EmptyStatus, 0)]

BlankNode == [name |-> None, pool |-> None, version |-> None, conditions |-> <<>>]
BlankPool == [name |-> None, status |-> Pools!EmptyStatus]

\* Every insight says what it should.
Right ==
  /\ cvInsight = DueClusterVersion
  /\ coInsights = [o \in Operator |-> IF co[o] = None THEN None ELSE DueOperator(o)]
  /\ nodeInsights = [n \in Node |-> DueNode(n)]
  /\ poolInsights = [p \in Pool |-> DuePool(p)]

Init ==
  /\ LET installed == Installed(First, 0)
     IN  cv \in {installed} \cup {StartUpdate(installed, v, 0) : v \in Version \ {First}}
  /\ co \in [Operator -> Report] /\ machine \in Fleets
  /\ paused = {}
  /\ Right
  /\ pc = "start" /\ header = None /\ nodes = None /\ rows = None
  /\ steady = FALSE /\ changes = 0

-----------------------------------------------------------------------------
(* The cluster and the controllers (external).                             *)

Change == changes < MaxChanges /\ changes' = changes + 1 /\ steady' = FALSE

ChangeClusterVersion ==
  /\ Change
  /\ cv' \in Successors(cv, Version, 0) \ {None}
  /\ UNCHANGED <<co, machine, paused, insights, client>>

ChangeOperator(o) ==
  /\ Change
  /\ \E r \in (Report \cup {None}) \ {co[o]} : co' = [co EXCEPT ![o] = r]
  /\ UNCHANGED <<cv, machine, paused, insights, client>>

ChangeNode(n) ==
  /\ Change
  /\ \E m \in Machine \ {machine[n]} : machine' = [machine EXCEPT ![n] = m]
  /\ UNCHANGED <<cv, co, paused, insights, client>>

PausePool(p) ==
  /\ Change
  /\ paused' = IF p \in paused THEN paused \ {p} ELSE paused \cup {p}
  /\ UNCHANGED <<cv, co, machine, insights, client>>

\* A controller writes an insight that does not say what it should, one in each step.
Write == steady' = FALSE /\ insights' # insights /\ UNCHANGED <<cluster, client, changes>>

WriteClusterVersionInsight ==
  /\ cvInsight' = DueClusterVersion
  /\ UNCHANGED <<coInsights, nodeInsights, poolInsights>> /\ Write

WriteOperatorInsight(o) ==
  /\ coInsights' = [coInsights EXCEPT ![o] = IF co[o] = None THEN None ELSE DueOperator(o)]
  /\ UNCHANGED <<cvInsight, nodeInsights, poolInsights>> /\ Write

WriteNodeInsight(n) ==
  /\ nodeInsights' = [nodeInsights EXCEPT ![n] = DueNode(n)]
  /\ UNCHANGED <<cvInsight, coInsights, poolInsights>> /\ Write

WritePoolInsight(p) ==
  /\ poolInsights' = [poolInsights EXCEPT ![p] = DuePool(p)]
  /\ UNCHANGED <<cvInsight, coInsights, nodeInsights>> /\ Write

Writing ==
  \/ WriteClusterVersionInsight
  \/ \E o \in Operator : WriteOperatorInsight(o)
  \/ \E n \in Node : WriteNodeInsight(n)
  \/ \E p \in Pool : WritePoolInsight(p)

\* An insight was removed, or removed and created again.
LoseInsight ==
  /\ Change
  /\ \/ /\ cvInsight' \in {None, Glance(EmptyStatus)}
        /\ UNCHANGED <<coInsights, nodeInsights, poolInsights>>
     \/ /\ \E o \in Operator, s \in {None, Cos!EmptyStatus} :
             coInsights' = [coInsights EXCEPT ![o] = s]
        /\ UNCHANGED <<cvInsight, nodeInsights, poolInsights>>
     \/ /\ \E n \in Node, s \in {None, BlankNode} :
             nodeInsights' = [nodeInsights EXCEPT ![n] = s]
        /\ UNCHANGED <<cvInsight, coInsights, poolInsights>>
     \/ /\ \E p \in Pool, s \in {None, BlankPool} :
             poolInsights' = [poolInsights EXCEPT ![p] = s]
        /\ UNCHANGED <<cvInsight, coInsights, nodeInsights>>
  /\ UNCHANGED <<cluster, client>>

-----------------------------------------------------------------------------
(* The client: Run.                                                        *)

Step == UNCHANGED <<cluster, insights, changes>>

Start ==
  /\ pc = "start" /\ pc' = "listClusterVersions"
  /\ steady' = Right
  /\ Step /\ UNCHANGED <<header, nodes, rows>>

\* Fault: goes on although the cluster is not updating.
AfterClusterVersionsRegardless ==
  IF cvInsight \in {None, Glance(EmptyStatus)} THEN "error" ELSE "listOperators"

AfterClusterVersions ==
  IF cvInsight = None \/ cvInsight.updating = None THEN "error"
  ELSE IF cvInsight.updating.status = "True" THEN "listOperators" ELSE "not updating"

\* header keeps the insight until the operators are there.
ListClusterVersions ==
  /\ pc = "listClusterVersions" /\ pc' = AfterClusterVersions
  /\ header' = IF pc' = "listOperators" THEN cvInsight ELSE None
  /\ Step /\ UNCHANGED <<nodes, rows, steady>>

ListOperators ==
  /\ pc = "listOperators" /\ pc' = "listNodes"
  /\ LET listed == {o \in Operator : coInsights[o] # None}
     IN  header' = Display!AssessControlPlaneStatus(header, [o \in listed |-> coInsights[o]])
  /\ Step /\ UNCHANGED <<nodes, rows, steady>>

ListNodes ==
  /\ pc = "listNodes" /\ pc' = "listPools"
  /\ LET listed == [i \in {i \in DOMAIN Masters : nodeInsights[Masters[i]] # None} |->
                     nodeInsights[Masters[i]]]
     IN  nodes' = Display!AssessPool(Display!OfPool(listed, "master"))
  /\ Step /\ UNCHANGED <<header, rows, steady>>

\* A blank insight has no scope and is shown, without a name.
ListPools ==
  /\ pc = "listPools" /\ pc' = "done"
  /\ LET listed == {p \in Pool : poolInsights[p] # None /\ poolInsights[p].name # "master"}
     IN  rows' = [p \in listed |-> Display!WritePool(poolInsights[p].status)]
  /\ Step /\ UNCHANGED <<header, nodes, steady>>

ListFails ==
  /\ pc \in {"listClusterVersions", "listOperators", "listNodes", "listPools"}
  /\ pc' = "error"
  /\ Step /\ UNCHANGED <<header, nodes, rows, steady>>

Run == Start \/ ListClusterVersions \/ ListOperators \/ ListNodes \/ ListPools \/ ListFails

Next ==
  \/ ChangeClusterVersion
  \/ \E o \in Operator : ChangeOperator(o)
  \/ \E n \in Node : ChangeNode(n)
  \/ \E p \in Pool : PausePool(p)
  \/ Writing \/ LoseInsight
  \/ Run

Spec == Init /\ [][Next]_vars

-----------------------------------------------------------------------------
(* Properties.                                                             *)

\* Every variable has its type; past the first list the client has an insight of an
\* update that is under way.
TypeOK ==
  /\ cv \in ClusterVersions
  /\ co \in [Operator -> Report \cup {None}] /\ machine \in [Node -> Machine]
  /\ paused \subseteq Pool /\ steady \in BOOLEAN /\ changes \in 0..MaxChanges
  /\ cvInsight \in ClusterVersionStatuses \cup {None}
  /\ coInsights \in [Operator -> OperatorStatuses \cup {None}]
  /\ nodeInsights \in [Node -> NodeStates \cup {BlankNode, None}]
  /\ poolInsights \in [Pool -> PoolInsights \cup {BlankPool, None}]
  /\ pc \in {"start", "listClusterVersions", "listOperators", "listNodes", "listPools",
             "done", "not updating", "error"}
  /\ pc \in {"listOperators", "listNodes", "listPools", "done"} =>
       header.assessment = "Progressing"
  /\ pc \in {"listPools", "done"} => DOMAIN nodes \subseteq DOMAIN Masters
  /\ pc = "done" => DOMAIN rows \subseteq Pool

Completed(p) == {n \in Node : PoolOf(n) = p /\ StateOf(n).phase = "Completed"}

\* What the client shows, from the end of its run.
Screen   == Display!WriteNodes(nodes)
Listed   == {line.name : line \in Screen.lines}
Shown(n) == Screen.allUpdatedTo # None \/ n \in Listed

\* When the insights are right before the client starts and nothing changes until it
\* ends, the operators it counts are those that are, in the cluster, updated, waiting,
\* updating, healthy and broken, it shows a completion that goes with them and the
\* versions of the history, and says that the control plane's nodes are updated just
\* when the evaluator has them all completed.  The completion is one of the two whole
\* percentages next to the share of updated operators, 100 only when that is all of them.
Rounds(percentage, part, all) ==
  /\ percentage * all <= 100 * part /\ 100 * part <= (percentage + 1) * all
  /\ percentage = 100 <=> part = all

SteadyMeansTrue ==
  steady /\ pc \in {"done", "not updating"} =>
    /\ pc = "done" <=> IsControlPlaneUpdating(cv).status = "True"
    /\ pc = "done" =>
         LET ops == header.operators
             old == Present \ Updated(cv, Versions)
         IN  /\ ops.Updated = Updated(cv, Versions)
             /\ ops.Updating = {o \in old : co[o].progressing = "True"}
             /\ ops.Waiting  = {o \in old : co[o].progressing = "False"}
             /\ ops.Healthy  = {o \in Present : co[o].available = "True"
                                                /\ co[o].degraded # "True"}
             /\ ops.Degraded = {o \in Present : co[o].available = "True"
                                                /\ co[o].degraded = "True"}
             /\ Display!UnknownOperators(ops)
                  = Cardinality({o \in Present : co[o].available = None})
             /\ ops.total > 0 => Rounds(header.completion, Cardinality(ops.Updated), ops.total)
             /\ header.versions.target = cv.history[1].version
             /\ header.versions.from = IF Len(cv.history) > 1 THEN cv.history[2].version
                                       ELSE None
             /\ Screen.allUpdatedTo # None <=> Completed("master") = Range(Masters)
             /\ DOMAIN rows = {"worker"}

\* However many nodes are left out, one that is degraded, or that is out of service
\* for another reason than its update, is listed, unless all nodes are updated.
TroubleIsShown ==
  steady /\ pc = "done" =>
    \A n \in Range(Masters) :
      \/ Nodes!IsNodeDegraded(machine[n])
      \/ ~StateOf(n).available /\ StateOf(n).phase \notin Nodes!ActivePhases
      => Shown(n)

\* Insights that do not name their pool yet leave no trace: whatever changes between
\* the lists, a node is listed as draining or degraded only when its insight says so,
\* and the nodes that are left out add up.
NothingMadeUp ==
  pc \in {"listPools", "done"} =>
    /\ \A line \in Screen.lines :
         /\ line.name # None
         /\ line.phase = {"Draining"} => line.isUpdating
         /\ line.assessment = "Degraded" => line.isDegraded
    /\ Screen.allUpdatedTo = None =>
         /\ Cardinality(Screen.lines) + Screen.omitted.Total = Cardinality(DOMAIN nodes)
         /\ Screen.omitted.Total > 0 =>
              Screen.omitted.Completed + Screen.omitted.Outdated = Screen.omitted.Total

\* The number of updated nodes is computed back from a rounded percentage: it is never
\* too high, too low by at most one for every hundred nodes that the pool has or begins,
\* and the size of the pool just when all are updated.
CountsClose ==
  steady /\ pc = "done" =>
    LET row    == rows["worker"]
        actual == Cardinality(Completed("worker"))
    IN  /\ actual - row.updated \in 0..((Cardinality(Workers) + 99) \div 100)
        /\ row.updated = row.total <=> actual = Cardinality(Workers)

\* workerpools.go:59: "Calculate updated count from completion percentage", which
\* workerpools_test.go:127 has as "one completed" of four in "25% (1/4)": the first of
\* the two numbers counts the nodes that completed.
CountsExact ==
  steady /\ pc = "done" => rows["worker"].updated = Cardinality(Completed("worker"))
=============================================================================
