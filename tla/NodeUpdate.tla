----------------------------- MODULE NodeUpdate -----------------------------
(***************************************************************************)
(* One node taken through updates by the Machine Config Operator while the *)
(* central controller evaluates it now and then: the conditions carried    *)
(* from one evaluation to the next, and the hash that decides whether an   *)
(* evaluation is published.  The controller's reads and queues are in      *)
(* CentralNodeState; here an evaluation sees the node, its pool, the       *)
(* versions and the target at one moment.                                  *)
(*                                                                         *)
(* The operator and the cluster are external.  Their actions write the     *)
(* annotations the evaluator reads, in the order the operator's own        *)
(* protocol has; how often the controller looks in between is open.        *)
(***************************************************************************)
EXTENDS NodeAssessment

CONSTANTS Config,        \* MachineConfig names
          Version,       \* release versions
          Image,         \* OS images of a layered pool
          InitialConfig, \* the config the node starts on
          InitialVersions, \* the cached version of each config at the start
          MaxClock,      \* bound on time
          MaxChanges     \* bound on the number of steps outside the controller

ASSUME NodeUpdateAssumption ==
  /\ InitialConfig \in Config
  /\ InitialVersions \in [Config -> Version \cup {None}]
  /\ MaxClock \in Nat \ {0} /\ MaxChanges \in Nat
  /\ None \notin Config \cup Version \cup Image
  /\ None \notin [verb : {"drain", "uncordon"}, id : Config]

VARIABLES node,      \* what the evaluator reads of the Node
          pool,      \* what it reads of the MachineConfigPool
          versions,  \* the MachineConfig version cache
          target,    \* version of the newest ClusterVersion history entry
          clock,     \* now, at least 1
          changes,   \* steps outside the controller so far
          state      \* the stored NodeState, None when the node is not tracked

external == <<node, pool, versions, target>>
vars == <<node, pool, versions, target, clock, changes, state>>

Evaluation(existing) ==
  EvaluateNode("node", node, "worker", pool, versions, target, existing, clock)

Existing == IF state = None THEN <<>> ELSE state.conditions

\* The node is done with its configuration, and was never drained or is back
\* from the drain of an earlier update.
Init ==
  /\ \E drain \in {None, [verb |-> "uncordon", id |-> InitialConfig]} :
       node = [current |-> InitialConfig, desired |-> InitialConfig,
               mcd |-> "Done", mcdReason |-> {}, desiredDrain |-> drain,
               appliedDrain |-> drain, cordoned |-> FALSE, troubles |-> {},
               currentImage |-> None, desiredImage |-> None]
  /\ pool = [paused |-> FALSE, osImage |-> None]
  /\ versions = InitialVersions
  /\ target \in Version
  /\ clock = 1
  /\ changes = 0
  /\ state = None

-----------------------------------------------------------------------------
(* The controller.                                                         *)

\* Reconcile with everything found: keep the stored state when the hash is
\* the same, else store the new one.
Evaluate ==
  /\ LET fresh == Evaluation(Existing)
     IN  /\ state # None => ComputeHash(state) # ComputeHash(fresh)
         /\ state' = fresh
  /\ UNCHANGED <<external, clock, changes>>

-----------------------------------------------------------------------------
(* The Machine Config Operator (external).                                 *)

External == changes < MaxChanges /\ changes' = changes + 1 /\ UNCHANGED <<clock, state>>

SetNode(n) == External /\ node' = n /\ UNCHANGED <<pool, versions, target>>

\* The operator gives the node a new configuration of its pool.
Retarget(c) ==
  /\ ~pool.paused /\ c # node.desired
  /\ SetNode([node EXCEPT !.desired = c, !.desiredImage = pool.osImage])

\* The daemon picks up its work, asks for a drain, reboots and finishes.
BeginWork ==
  /\ node.mcd = "Done"
  /\ ~(IsNodeConfigDone(node) /\ IsNodeImageDone(node))
  /\ SetNode([node EXCEPT !.mcd = "Working"])

RequestDrain ==
  /\ node.mcd = "Working"
  /\ SetNode([node EXCEPT !.desiredDrain = [verb |-> "drain", id |-> node.desired]])

ApplyDrain ==
  /\ node.desiredDrain # node.appliedDrain
  /\ SetNode([node EXCEPT !.appliedDrain = node.desiredDrain,
                          !.cordoned = (node.desiredDrain.verb = "drain")])

Reboot ==
  /\ node.mcd = "Working"
  /\ node.desiredDrain = node.appliedDrain
  /\ node.desiredDrain = [verb |-> "drain", id |-> node.desired]
  /\ SetNode([node EXCEPT !.mcd = "Rebooting"])

Finish ==
  /\ node.mcd = "Rebooting"
  /\ SetNode([node EXCEPT !.mcd = "Done", !.current = node.desired,
                          !.currentImage = node.desiredImage,
                          !.desiredDrain = [verb |-> "uncordon", id |-> node.desired]])

Fail(s) ==
  /\ node.mcd = "Working" /\ s \in {"Degraded", "Unreconcilable"}
  /\ SetNode([node EXCEPT !.mcd = s, !.mcdReason = {"cannot apply"}])

Recover ==
  /\ node.mcd \in {"Degraded", "Unreconcilable"}
  /\ SetNode([node EXCEPT !.mcd = "Working", !.mcdReason = {}])

\* The node stops or resumes reporting Ready.
LoseReady ==
  /\ node.troubles = {}
  /\ SetNode([node EXCEPT !.troubles = {[reason |-> "NotReady", since |-> clock]}])

RegainReady ==
  /\ node.troubles # {}
  /\ SetNode([node EXCEPT !.troubles = {}])

\* Administrators and the cluster-version operator.
Pause ==
  /\ External
  /\ pool' = [pool EXCEPT !.paused = ~@]
  /\ UNCHANGED <<node, versions, target>>

SetImage(i) ==
  /\ External
  /\ pool.osImage # i
  /\ pool' = [pool EXCEPT !.osImage = i]
  /\ UNCHANGED <<node, versions, target>>

Annotate(c, v) ==
  /\ External
  /\ versions[c] # v
  /\ versions' = [versions EXCEPT ![c] = v]
  /\ UNCHANGED <<node, pool, target>>

StartUpdate(v) ==
  /\ External
  /\ target # v
  /\ target' = v
  /\ UNCHANGED <<node, pool, versions>>

Tick == clock < MaxClock /\ clock' = clock + 1 /\ UNCHANGED <<external, changes, state>>

Next ==
  \/ Evaluate
  \/ Tick
  \/ \E c \in Config : Retarget(c)
  \/ BeginWork
  \/ RequestDrain
  \/ ApplyDrain
  \/ Reboot
  \/ Finish
  \/ \E s \in {"Degraded", "Unreconcilable"} : Fail(s)
  \/ Recover
  \/ LoseReady
  \/ RegainReady
  \/ Pause
  \/ \E i \in Image \cup {None} : SetImage(i)
  \/ \E c \in Config, v \in Version \cup {None} : Annotate(c, v)
  \/ \E v \in Version : StartUpdate(v)

Spec == Init /\ [][Next]_vars

-----------------------------------------------------------------------------
(* Properties.                                                             *)

\* Every variable has its type; a stored state carries conditions of the three
\* types only.
TypeOK ==
  /\ node.current \in Config /\ node.desired \in Config
  /\ node.mcd \in {"Done", "Working", "Rebooting", "Degraded", "Unreconcilable"}
  /\ pool.paused \in BOOLEAN /\ pool.osImage \in Image \cup {None}
  /\ versions \in [Config -> Version \cup {None}]
  /\ target \in Version \cup {None}
  /\ clock \in 1..MaxClock /\ changes \in 0..MaxChanges
  /\ state # None => /\ state.phase \in Phases
                     /\ \A i \in DOMAIN state.conditions :
                          state.conditions[i].type \in ConditionTypes

\* However often conditions are carried over, taken out and appended, a stored
\* state has exactly one condition of each type (DetermineConditions).
OneConditionOfEachType ==
  state # None =>
    /\ Len(state.conditions) = 3
    /\ \A t \in ConditionTypes : \E i \in DOMAIN state.conditions :
         state.conditions[i].type = t

ConditionOf(s, t) ==
  s.conditions[CHOOSE i \in DOMAIN s.conditions : s.conditions[i].type = t]

\* A condition whose status did not change keeps its transition time, and one
\* whose status did change is not dated before the previous one: what
\* SetStatusCondition and the hand-made Available condition are there for.  The
\* Available condition of a node that is not available is excepted: its time may be
\* the node's own.
TransitionTimesKept ==
  [][state # None =>
       \A t \in ConditionTypes :
         LET old == ConditionOf(state, t)
             new == ConditionOf(state', t)
         IN  IF new.status = old.status
             THEN new.since = old.since \/ (t = "Available" /\ ~new.status)
             ELSE new.since >= old.since \/ (t = "Available" /\ ~new.status)]_state

\* Evaluating an unchanged tracked node again settles, whatever time passes: one
\* more evaluation gives a hash that every later one repeats, so the controller
\* cannot publish one node for ever.
SecondEvaluationSettles ==
  state # None =>
    LET once  == Evaluation(state.conditions)
        later == EvaluateNode("node", node, "worker", pool, versions, target,
                              once.conditions, clock + 1)
    IN  ComputeHash(once) = ComputeHash(later)

\* Two evaluations with the same hash agree in everything an insight or a pool
\* summary shows, times aside: no change is lost although ComputeHash puts
\* nothing between the fields it writes.
HashDetectsChange ==
  state # None =>
    LET fresh == Evaluation(Existing)
    IN  ComputeHash(fresh) = ComputeHash(state) => Shown(fresh) = Shown(state)

\* Once a node has been drained at all, a Completed verdict means it runs the
\* target version and has nothing else to apply.
CompletedRunsTarget ==
  LET fresh == Evaluation(Existing)
  IN  fresh.phase = "Completed" /\ node.appliedDrain # None =>
        fresh.version = target /\ node.current = node.desired

\* conditions.go: "Node is supposed to be updating but MCD hasn't had the time
\* to update its state from original `Done` to `Working` [...] Default to drain
\* process so that we don't report completed."
UpdatingNodeNotReportedCompleted ==
  IsUpdating(node, versions, target) => Evaluation(Existing).phase # "Completed"
=============================================================================
