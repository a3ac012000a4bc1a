-------------------------- MODULE NodeUpdate_proofs --------------------------
(***************************************************************************)
(* Proofs about NodeUpdate, for any configs, versions and images and any   *)
(* number of changes: what carrying conditions over from one evaluation to *)
(* the next keeps, and what the hash that decides about publishing tells.  *)
(***************************************************************************)
EXTENDS NodeUpdate, NodeAssessment_proofs

\* Everything the operator and the node ever report.
Reports == {"cannot apply", "NotReady"}
AllWhys == Reports \cup OwnWords

Drains == [verb : {"drain", "uncordon"}, id : Config]

Nodes ==
  [current : Config, desired : Config,
   mcd : {"Done", "Working", "Rebooting", "Degraded", "Unreconcilable"},
   mcdReason : SUBSET Reports,
   desiredDrain : Drains \cup {None}, appliedDrain : Drains \cup {None},
   cordoned : BOOLEAN,
   troubles : SUBSET [reason : Reports, since : 1..clock],
   currentImage : Image \cup {None}, desiredImage : Image \cup {None}]

\* What the operator keeps to: no drain is applied that was not desired.
NodeOK == node \in Nodes /\ (node.appliedDrain # None => node.desiredDrain # None)

\* The node's configs and the pool's image.
ClusterOK ==
  /\ pool.paused \in BOOLEAN /\ pool.osImage \in Image \cup {None}
  /\ versions \in [Config -> Version \cup {None}]
  /\ target \in Version
  /\ clock \in 1..MaxClock /\ changes \in 0..MaxChanges

\* A stored state can be read back from its hash, and no condition is dated after
\* the evaluation.
StateOK ==
  state # None => /\ Legible(state, Reports)
                  /\ \A i \in 1..3 : state.conditions[i].since <= clock

\* The inductive invariant.
Inv == NodeOK /\ ClusterOK /\ StateOK

LEMMA ReportsVocabulary == Vocabulary(Reports) /\ OwnWords \subseteq AllWhys
BY DEF Vocabulary, Reports, Phases, ActivePhases, ConditionTypes, AllWhys

LEMMA NodeTelling ==
  ASSUME NodeOK, ClusterOK
  PROVE  Telling(node, Reports) /\ Telling(node, AllWhys) /\ clock \in Nat /\ clock + 1 \in Nat
<1>1. clock \in Nat /\ clock + 1 \in Nat
  BY NodeUpdateAssumption DEF ClusterOK
<1>2. \A t \in node.troubles : t.reason \in Reports /\ t.since \in 1..clock
  BY DEF NodeOK, Nodes
<1>3. \A t \in node.troubles : t.reason \in Reports /\ t.since \in Nat
  BY <1>1, <1>2
<1> QED
  BY <1>1, <1>3 DEF NodeOK, Nodes, Telling, AllWhys

LEMMA StateCarriable ==
  ASSUME StateOK
  PROVE  /\ Carriable(Existing, Reports \cup OwnWords)
         /\ state # None => Existing = state.conditions /\ Complete(state.conditions, AllWhys)
BY DEF StateOK, Legible, Carriable, Existing, AllWhys

LEMMA FreshLegible ==
  ASSUME Inv
  PROVE  Legible(Evaluation(Existing), Reports)
<1>1. /\ Vocabulary(Reports) /\ Telling(node, Reports)
      /\ Carriable(Existing, Reports \cup OwnWords) /\ clock \in Nat
  BY ReportsVocabulary, NodeTelling, StateCarriable DEF Inv
<1>2. target # None /\ node.current # None /\ node.desired # None
  BY NodeUpdateAssumption DEF Inv, NodeOK, Nodes, ClusterOK
<1> QED
  BY <1>1, <1>2, EvaluationLegible DEF Evaluation

-----------------------------------------------------------------------------
(* The times of fresh conditions.                                          *)

\* A fresh condition is dated now, unless it says since when the node is down.
LEMMA FreshTimes ==
  ASSUME NodeOK, ClusterOK
  PROVE  /\ FreshUpdating(node, pool, versions, target, clock).since = clock
         /\ FreshAvailable(node, pool, versions, target, clock).since <= clock
         /\ FreshAvailable(node, pool, versions, target, clock).status =>
              FreshAvailable(node, pool, versions, target, clock).since = clock
         /\ DegradedCondition(node, clock).since = clock
<1>1. FreshUpdating(node, pool, versions, target, clock).since = clock
  BY DEF FreshUpdating, UpdatingCondition, Condition
<1>2. DegradedCondition(node, clock).since = clock
  BY DEF DegradedCondition, Condition
<1>3. GetUnavailableSince(node) <= clock
  <2>1. GetUnavailableSince(node) \in Nat
        /\ (GetUnavailableSince(node) = 0
              \/ \E t \in node.troubles : GetUnavailableSince(node) = t.since)
    BY NodeTelling, SinceType
  <2>2. clock \in Nat
    BY NodeTelling
  <2>3. \A t \in node.troubles : t.since \in 1..clock
    BY DEF NodeOK, Nodes
  <2> QED
    BY <2>1, <2>2, <2>3
<1>4. clock \in Nat /\ clock <= clock
  BY NodeTelling
<1> DEFINE down == IsDown(pool, node, IsUpdating(node, versions, target))
<1>5. AvailableCondition(node, down, clock).since <= clock
  <2> HIDE DEF down
  <2> QED
    BY <1>3, <1>4 DEF AvailableCondition, Condition
<1>6. AvailableCondition(node, down, clock).status => AvailableCondition(node, down, clock).since = clock
  <2> HIDE DEF down
  <2> QED
    BY DEF AvailableCondition, Condition
<1> QED
  BY <1>1, <1>2, <1>5, <1>6 DEF FreshAvailable

\* No condition of an evaluation is dated after it.
LEMMA EvaluationTimes ==
  ASSUME Inv
  PROVE  \A i \in 1..3 : Evaluation(Existing).conditions[i].since <= clock
<1> DEFINE cs == Evaluation(Existing).conditions
           u == FreshUpdating(node, pool, versions, target, clock)
           a == FreshAvailable(node, pool, versions, target, clock)
           d == DegradedCondition(node, clock)
<1>1. /\ OwnWords \subseteq AllWhys /\ Telling(node, AllWhys) /\ Carriable(Existing, AllWhys)
      /\ clock \in Nat /\ clock <= clock
  BY ReportsVocabulary, NodeTelling, StateCarriable DEF Inv, AllWhys
<1>2. Complete(cs, AllWhys)
  BY <1>1, EvaluationConditions DEF Evaluation
<1>3. Existing # <<>> => \A i \in 1..3 : Carried(Existing, u, a, d, cs[i])
  BY <1>1, EvaluationConditions DEF Evaluation
<1>4. ASSUME Existing = <<>> PROVE cs = <<u, a, d>>
  <2>1. cs = CarryOver(<<>>, u, a, d)
    BY <1>4, EvaluationFields DEF Evaluation
  <2>2. /\ u \in Conditions(AllWhys) /\ u.type = "Updating"
        /\ a \in Conditions(AllWhys) /\ a.type = "Available"
        /\ d \in Conditions(AllWhys) /\ d.type = "Degraded"
    BY <1>1, FreshTypes
  <2> HIDE DEF u, a, d
  <2> QED
    BY <2>1, <2>2, CarryOverFirst
<1>5. u.since <= clock /\ a.since <= clock /\ d.since <= clock
  BY <1>1, FreshTimes DEF Inv
<1> HIDE DEF cs, u, a, d
<1>6. CASE Existing = <<>>
  <2>1. cs[1] = u /\ cs[2] = a /\ cs[3] = d
    BY <1>4, <1>6
  <2>2. \A i \in 1..3 : i = 1 \/ i = 2 \/ i = 3
    OBVIOUS
  <2> QED
    BY <1>5, <2>1, <2>2 DEF cs
<1>7. CASE Existing # <<>>
  <2>1. DOMAIN Existing = 1..3 /\ \A i \in 1..3 : Existing[i].since <= clock
    <3>1. state # None
      BY <1>7 DEF Existing
    <3> QED
      BY <3>1, StateCarriable, ThreeTypes DEF Inv, StateOK
  <2>2. \A i \in 1..3 : cs[i].type \in {"Updating", "Available", "Degraded"}
    BY <1>2, ThreeTypes DEF Conditions, ConditionTypes
  <2>3. \A i \in 1..3 : cs[i].since <= clock
    BY <1>3, <1>5, <1>7, <2>1, <2>2 DEF Carried, CarriedFrom
  <2> QED
    BY <2>3 DEF cs
<1> QED
  BY <1>6, <1>7

-----------------------------------------------------------------------------
(* The invariant.                                                          *)

LEMMA InitInv == Init => Inv
<1> SUFFICES ASSUME Init PROVE Inv
  OBVIOUS
<1>1. NodeOK
  BY NodeUpdateAssumption DEF Init, NodeOK, Nodes, Drains
<1>2. ClusterOK
  BY NodeUpdateAssumption DEF Init, ClusterOK
<1>3. StateOK
  BY DEF Init, StateOK
<1> QED
  BY <1>1, <1>2, <1>3 DEF Inv

LEMMA EvaluateInv ==
  ASSUME Inv, Evaluate
  PROVE  Inv'
<1>1. /\ state' = Evaluation(Existing)
      /\ UNCHANGED <<node, pool, versions, target, clock, changes>>
  BY DEF Evaluate, external
<1>2. NodeOK' /\ ClusterOK'
  BY <1>1 DEF Inv, NodeOK, ClusterOK, Nodes
<1>3. StateOK'
  BY <1>1, FreshLegible, EvaluationTimes DEF StateOK
<1> QED
  BY <1>2, <1>3 DEF Inv

\* A step outside the controller leaves the state and the time alone.
LEMMA ExternalInv ==
  ASSUME Inv, External, NodeOK',
         pool'.paused \in BOOLEAN, pool'.osImage \in Image \cup {None},
         versions' \in [Config -> Version \cup {None}], target' \in Version
  PROVE  Inv'
<1>1. clock' = clock /\ state' = state /\ changes' \in 0..MaxChanges
  BY NodeUpdateAssumption DEF External, Inv, ClusterOK
<1>2. ClusterOK'
  BY <1>1 DEF Inv, ClusterOK
<1>3. StateOK'
  BY <1>1 DEF Inv, StateOK
<1> QED
  BY <1>2, <1>3 DEF Inv

LEMMA SetNodeInv ==
  ASSUME Inv, NEW n \in Nodes, SetNode(n), n.appliedDrain # None => n.desiredDrain # None
  PROVE  Inv'
<1>1. External /\ node' = n /\ UNCHANGED <<pool, versions, target>>
  BY DEF SetNode
<1>2. clock' = clock
  BY <1>1 DEF External
<1>3. NodeOK'
  BY <1>1, <1>2 DEF NodeOK, Nodes
<1> QED
  BY <1>1, <1>3, ExternalInv DEF Inv, ClusterOK

\* The operator's steps.
LEMMA OperatorInv ==
  ASSUME Inv,
         \/ \E c \in Config : Retarget(c)
         \/ BeginWork \/ RequestDrain \/ ApplyDrain \/ Reboot \/ Finish
         \/ \E s \in {"Degraded", "Unreconcilable"} : Fail(s)
         \/ Recover \/ LoseReady \/ RegainReady
  PROVE  Inv'
<1> USE DEF Inv, NodeOK, Nodes
<1>0. /\ node \in Nodes /\ pool.osImage \in Image \cup {None}
      /\ \A c \in Config, v \in {"drain", "uncordon"} :
           [verb |-> v, id |-> c] \in Drains /\ [verb |-> v, id |-> c] # None
  BY NodeUpdateAssumption DEF ClusterOK, Drains
<1>1. ASSUME NEW c \in Config, Retarget(c) PROVE Inv'
  <2>1. [node EXCEPT !.desired = c, !.desiredImage = pool.osImage] \in Nodes
    BY <1>0
  <2> QED
    BY <1>1, <2>1, SetNodeInv DEF Retarget
<1>2. CASE BeginWork
  <2>1. [node EXCEPT !.mcd = "Working"] \in Nodes
    OBVIOUS
  <2> QED
    BY <1>2, <2>1, SetNodeInv DEF BeginWork
<1>3. CASE RequestDrain
  <2>1. [node EXCEPT !.desiredDrain = [verb |-> "drain", id |-> node.desired]] \in Nodes
    BY <1>0
  <2> QED
    BY <1>0, <1>3, <2>1, SetNodeInv DEF RequestDrain
<1>4. CASE ApplyDrain
  <2>1. [node EXCEPT !.appliedDrain = node.desiredDrain,
                     !.cordoned = (node.desiredDrain.verb = "drain")] \in Nodes
    OBVIOUS
  <2> QED
    BY <1>4, <2>1, SetNodeInv DEF ApplyDrain
<1>5. CASE Reboot
  <2>1. [node EXCEPT !.mcd = "Rebooting"] \in Nodes
    OBVIOUS
  <2> QED
    BY <1>5, <2>1, SetNodeInv DEF Reboot
<1>6. CASE Finish
  <2>1. [node EXCEPT !.mcd = "Done", !.current = node.desired, !.currentImage = node.desiredImage,
                     !.desiredDrain = [verb |-> "uncordon", id |-> node.desired]] \in Nodes
    BY <1>0
  <2> QED
    BY <1>0, <1>6, <2>1, SetNodeInv DEF Finish
<1>7. ASSUME NEW s \in {"Degraded", "Unreconcilable"}, Fail(s) PROVE Inv'
  <2>1. [node EXCEPT !.mcd = s, !.mcdReason = {"cannot apply"}] \in Nodes
    BY DEF Reports
  <2> QED
    BY <1>7, <2>1, SetNodeInv DEF Fail
<1>8. CASE Recover
  <2>1. [node EXCEPT !.mcd = "Working", !.mcdReason = {}] \in Nodes
    OBVIOUS
  <2> QED
    BY <1>8, <2>1, SetNodeInv DEF Recover
<1>9. CASE LoseReady
  <2>1. clock \in 1..clock
    BY NodeUpdateAssumption DEF ClusterOK
  <2>4. "NotReady" \in Reports
    BY DEF Reports
  <2>2. {[reason |-> "NotReady", since |-> clock]} \in SUBSET [reason : Reports, since : 1..clock]
    <3>1. [reason |-> "NotReady", since |-> clock] \in [reason : Reports, since : 1..clock]
      BY <2>1, <2>4
    <3> QED
      BY <3>1
  <2>3. [node EXCEPT !.troubles = {[reason |-> "NotReady", since |-> clock]}] \in Nodes
    BY <2>2
  <2> QED
    BY <1>9, <2>3, SetNodeInv DEF LoseReady
<1>10. CASE RegainReady
  <2>1. [node EXCEPT !.troubles = {}] \in Nodes
    OBVIOUS
  <2> QED
    BY <1>10, <2>1, SetNodeInv DEF RegainReady
<1> QED
  BY <1>1, <1>2, <1>3, <1>4, <1>5, <1>6, <1>7, <1>8, <1>9, <1>10

\* The administrators and the cluster-version operator.
LEMMA ClusterInv ==
  ASSUME Inv,
         \/ Pause
         \/ \E i \in Image \cup {None} : SetImage(i)
         \/ \E c \in Config, v \in Version \cup {None} : Annotate(c, v)
         \/ \E v \in Version : StartUpdate(v)
  PROVE  Inv'
<1> USE DEF Inv, ClusterOK
<1>1. External /\ node' = node /\ clock' = clock
  BY DEF Pause, SetImage, Annotate, StartUpdate, External
<1>2. NodeOK'
  BY <1>1 DEF NodeOK, Nodes
<1>3. CASE Pause
  <2>1. pool'.paused \in BOOLEAN /\ pool'.osImage = pool.osImage
    BY <1>3 DEF Pause
  <2> QED
    BY <1>1, <1>2, <1>3, <2>1, ExternalInv DEF Pause
<1>4. ASSUME NEW i \in Image \cup {None}, SetImage(i) PROVE Inv'
  <2>1. pool'.paused = pool.paused /\ pool'.osImage \in Image \cup {None}
    BY <1>4 DEF SetImage
  <2> QED
    BY <1>1, <1>2, <1>4, <2>1, ExternalInv DEF SetImage
<1>5. ASSUME NEW c \in Config, NEW v \in Version \cup {None}, Annotate(c, v) PROVE Inv'
  <2>1. versions' \in [Config -> Version \cup {None}]
    BY <1>5 DEF Annotate
  <2> QED
    BY <1>1, <1>2, <1>5, <2>1, ExternalInv DEF Annotate
<1>6. ASSUME NEW v \in Version, StartUpdate(v) PROVE Inv'
  BY <1>1, <1>2, <1>6, ExternalInv DEF StartUpdate
<1> QED
  BY <1>3, <1>4, <1>5, <1>6

LEMMA TickInv ==
  ASSUME Inv, Tick
  PROVE  Inv'
<1>1. /\ clock' = clock + 1 /\ clock' \in 1..MaxClock /\ clock \in 1..MaxClock
      /\ UNCHANGED <<node, pool, versions, target, changes, state>>
  BY NodeUpdateAssumption DEF Tick, external, Inv, ClusterOK
<1>2. [reason : Reports, since : 1..clock] \subseteq [reason : Reports, since : 1..clock']
  BY <1>1
<1>3. node \in Nodes => node' \in Nodes'
  <2> SUFFICES ASSUME node \in Nodes PROVE node \in Nodes'
    BY <1>1
  <2>1. node.troubles \in SUBSET [reason : Reports, since : 1..clock']
    BY <1>2 DEF Nodes
  <2> QED
    BY <2>1 DEF Nodes
<1>4. NodeOK'
  BY <1>1, <1>3 DEF Inv, NodeOK
<1>5. ClusterOK'
  BY <1>1 DEF Inv, ClusterOK
<1>6. StateOK'
  <2> SUFFICES ASSUME state # None
               PROVE  Legible(state, Reports) /\ \A i \in 1..3 : state.conditions[i].since <= clock'
    BY <1>1 DEF StateOK
  <2>1. \A i \in 1..3 : state.conditions[i].since \in Nat /\ state.conditions[i].since <= clock
    BY StateCarriable, ThreeTypes DEF Inv, StateOK, Conditions
  <2> QED
    BY <1>1, <2>1 DEF Inv, StateOK
<1> QED
  BY <1>4, <1>5, <1>6 DEF Inv

LEMMA NextInv ==
  ASSUME Inv, [Next]_vars
  PROVE  Inv'
<1>1. CASE Evaluate
  BY <1>1, EvaluateInv
<1>2. CASE Tick
  BY <1>2, TickInv
<1>3. CASE Next /\ ~Evaluate /\ ~Tick
  BY <1>3, OperatorInv, ClusterInv DEF Next
<1>4. CASE UNCHANGED vars
  <2>1. UNCHANGED <<node, pool, versions, target, clock, changes, state>>
    BY <1>4 DEF vars
  <2> QED
    BY <2>1 DEF Inv, NodeOK, Nodes, ClusterOK, StateOK
<1> QED
  BY <1>1, <1>2, <1>3, <1>4

LEMMA InvCorrect == Spec => []Inv
<1>1. Inv /\ [Next]_vars => Inv'
  BY NextInv
<1> QED
  BY InitInv, <1>1, PTL DEF Spec

-----------------------------------------------------------------------------
(* The properties.                                                         *)

LEMMA InvTypeOK == Inv => TypeOK
<1> SUFFICES ASSUME Inv PROVE TypeOK
  OBVIOUS
<1>1. state # None => /\ state.phase \in Phases
                      /\ \A i \in DOMAIN state.conditions : state.conditions[i].type \in ConditionTypes
  <2> SUFFICES ASSUME state # None
               PROVE  /\ state.phase \in Phases
                      /\ \A i \in DOMAIN state.conditions : state.conditions[i].type \in ConditionTypes
    OBVIOUS
  <2>1. Complete(state.conditions, AllWhys) /\ state.phase \in Phases
    BY StateCarriable DEF Inv, StateOK, Legible
  <2> QED
    BY <2>1, ThreeTypes DEF Conditions
<1> QED
  BY <1>1 DEF Inv, NodeOK, Nodes, ClusterOK, TypeOK

\* Every variable has its type in every reachable state.
THEOREM TypeCorrect == Spec => []TypeOK
BY InvCorrect, InvTypeOK, PTL

\* A stored state has exactly one condition of each type, however often conditions were
\* carried over, taken out and appended.
THEOREM OneConditionCorrect == Spec => []OneConditionOfEachType
<1>1. Inv => OneConditionOfEachType
  <2> SUFFICES ASSUME Inv, state # None
               PROVE  /\ Len(state.conditions) = 3
                      /\ \A t \in ConditionTypes : \E i \in DOMAIN state.conditions :
                           state.conditions[i].type = t
    BY DEF OneConditionOfEachType
  <2>1. Complete(state.conditions, AllWhys)
    BY StateCarriable DEF Inv
  <2> QED
    BY <2>1, ThreeTypes DEF Complete
<1> QED
  BY <1>1, InvCorrect, PTL

\* The second evaluation of an unchanged node has the hash every later one has.
THEOREM SettlesCorrect == Spec => []SecondEvaluationSettles
<1>1. Inv => SecondEvaluationSettles
  <2> SUFFICES ASSUME Inv, state # None
               PROVE  LET once  == Evaluation(state.conditions)
                          later == EvaluateNode("node", node, "worker", pool, versions, target,
                                                once.conditions, clock + 1)
                      IN  ComputeHash(once) = ComputeHash(later)
    BY DEF SecondEvaluationSettles
  <2>1. /\ OwnWords \subseteq AllWhys /\ Telling(node, AllWhys)
        /\ clock \in Nat /\ clock + 1 \in Nat /\ Complete(state.conditions, AllWhys)
    BY ReportsVocabulary, NodeTelling, StateCarriable DEF Inv
  <2> QED
    BY <2>1, EvaluationSettles DEF Evaluation
<1> QED
  BY <1>1, InvCorrect, PTL

\* Two evaluations of the node with the same hash show the same.
THEOREM HashCorrect == Spec => []HashDetectsChange
<1>1. Inv => HashDetectsChange
  <2> SUFFICES ASSUME Inv, state # None,
                      ComputeHash(Evaluation(Existing)) = ComputeHash(state)
               PROVE  Shown(Evaluation(Existing)) = Shown(state)
    BY DEF HashDetectsChange
  <2>1. Legible(Evaluation(Existing), Reports) /\ Legible(state, Reports) /\ Vocabulary(Reports)
    BY FreshLegible, ReportsVocabulary DEF Inv, StateOK
  <2> HIDE DEF Reports
  <2> QED
    BY <2>1, HashTells
<1> QED
  BY <1>1, InvCorrect, PTL

\* A node that was ever drained and is reported completed runs the target version and
\* has no other configuration to apply.
THEOREM CompletedCorrect == Spec => []CompletedRunsTarget
<1>1. Inv => CompletedRunsTarget
  <2> SUFFICES ASSUME Inv, Evaluation(Existing).phase = "Completed", node.appliedDrain # None
               PROVE  Evaluation(Existing).version = target /\ node.current = node.desired
    BY DEF CompletedRunsTarget
  <2>1. /\ node.desiredDrain # None /\ node.desired # None
        /\ Evaluation(Existing).version = VersionFor(versions, node.current)
        /\ PhaseOf(pool, node, IsUpdating(node, versions, target),
                    IsUpdated(node, versions, target)) = "Completed"
    BY NodeUpdateAssumption, EvaluationFields DEF Inv, NodeOK, Nodes, Evaluation
  <2>2. ~IsUpdating(node, versions, target)
    <3> SUFFICES ASSUME IsUpdating(node, versions, target) PROVE FALSE
      OBVIOUS
    <3>1. node.mcd = "Done" /\ ~IsNodeDraining(node, IsUpdating(node, versions, target))
      BY <2>1 DEF PhaseOf
    <3> QED
      BY <2>1, <3>1 DEF IsNodeDraining
  <2>3. IsUpdated(node, versions, target)
    BY <2>1, <2>2 DEF PhaseOf
  <2> QED
    BY <2>1, <2>3 DEF IsUpdated
<1> QED
  BY <1>1, InvCorrect, PTL

LEMMA OneOfType ==
  ASSUME NEW Whys, NEW cs, Complete(cs, Whys), NEW t \in ConditionTypes
  PROVE  \E i \in 1..3 : /\ (CHOOSE j \in DOMAIN cs : cs[j].type = t) = i
                         /\ cs[i].type = t
<1>1. \E i \in DOMAIN cs : cs[i].type = t
  BY ThreeTypes DEF Complete
<1> QED
  BY <1>1, ThreeTypes

\* What carrying a condition over does to its time.
LEMMA CarriedTime ==
  ASSUME NEW cs, NEW i \in DOMAIN cs, NEW fresh, NEW c, CarriedFrom(cs, fresh, c),
         cs[i].type = c.type, \A j \in DOMAIN cs : cs[j].type = cs[i].type => j = i
  PROVE  IF c.status = cs[i].status THEN c.since = cs[i].since ELSE c.since = fresh.since
BY DEF CarriedFrom

\* A condition keeps its time as long as it keeps its status, and is never dated before
\* the one it replaces, a node's own timestamp excepted.
THEOREM TransitionTimesCorrect == Spec => TransitionTimesKept
<1>1. Inv /\ [Next]_vars =>
        [state # None =>
           \A t \in ConditionTypes :
             LET old == ConditionOf(state, t)
                 new == ConditionOf(state', t)
             IN  IF new.status = old.status
                 THEN new.since = old.since \/ (t = "Available" /\ ~new.status)
                 ELSE new.since >= old.since \/ (t = "Available" /\ ~new.status)]_state
  <2> SUFFICES ASSUME Inv, [Next]_vars, state' # state, state # None, NEW t \in ConditionTypes
               PROVE  LET old == ConditionOf(state, t)
                          new == ConditionOf(state', t)
                      IN  IF new.status = old.status
                          THEN new.since = old.since \/ (t = "Available" /\ ~new.status)
                          ELSE new.since >= old.since \/ (t = "Available" /\ ~new.status)
    OBVIOUS
  <2>1. state' = Evaluation(state.conditions)
    <3>1. Evaluate
      BY DEF Next, vars, Tick, Retarget, BeginWork, RequestDrain, ApplyDrain, Reboot, Finish, Fail,
             Recover, LoseReady, RegainReady, Pause, SetImage, Annotate, StartUpdate, SetNode, External
    <3> QED
      BY <3>1 DEF Evaluate, Existing
  <2> DEFINE cs == state.conditions
             ds == state'.conditions
             u == FreshUpdating(node, pool, versions, target, clock)
             a == FreshAvailable(node, pool, versions, target, clock)
             d == DegradedCondition(node, clock)
  <2>2. /\ OwnWords \subseteq AllWhys /\ Telling(node, AllWhys) /\ clock \in Nat
        /\ Complete(cs, AllWhys)
    BY ReportsVocabulary, NodeTelling, StateCarriable DEF Inv
  <2>3. Carriable(cs, AllWhys)
    BY <2>2 DEF Carriable
  <2>4. cs # <<>>
    BY <2>2 DEF Complete
  <2>5. Complete(ds, AllWhys)
    BY <2>1, <2>2, <2>3, EvaluationConditions DEF Evaluation
  <2>6. \A i \in 1..3 : Carried(cs, u, a, d, ds[i])
    BY <2>1, <2>2, <2>3, <2>4, EvaluationConditions DEF Evaluation
  <2>7. PICK i \in 1..3 : ConditionOf(state, t) = cs[i] /\ cs[i].type = t
    <3>1. PICK i \in 1..3 : /\ (CHOOSE j \in DOMAIN cs : cs[j].type = t) = i
                            /\ cs[i].type = t
      BY <2>2, OneOfType
    <3> QED
      BY <3>1 DEF ConditionOf
  <2>8. PICK j \in 1..3 : ConditionOf(state', t) = ds[j] /\ ds[j].type = t
    <3>1. PICK j \in 1..3 : /\ (CHOOSE k \in DOMAIN ds : ds[k].type = t) = j
                            /\ ds[j].type = t
      BY <2>5, OneOfType
    <3> QED
      BY <3>1 DEF ConditionOf
  <2>9. /\ DOMAIN cs = 1..3 /\ \A k \in DOMAIN cs : cs[k].type = cs[i].type => k = i
        /\ cs[i].since \in Nat /\ cs[i].since <= clock
    BY <2>2, ThreeTypes DEF Conditions, Inv, StateOK
  <2>10. u.since = clock /\ (a.status => a.since = clock) /\ d.since = clock
    BY FreshTimes DEF Inv
  <2> HIDE DEF cs, ds, u, a, d
  <2>11. \/ CarriedFrom(cs, u, ds[j])
         \/ CarriedFrom(cs, d, ds[j])
         \/ a.status /\ CarriedFrom(cs, a, ds[j])
         \/ t = "Available" /\ ~a.status /\ ds[j] = a
    BY <2>6, <2>8 DEF Carried, ConditionTypes
  <2>12. CASE CarriedFrom(cs, u, ds[j])
    <3>1. IF ds[j].status = cs[i].status THEN ds[j].since = cs[i].since ELSE ds[j].since = clock
      BY <2>7, <2>8, <2>9, <2>10, <2>12, CarriedTime
    <3> QED
      BY <2>2, <2>7, <2>8, <2>9, <3>1
  <2>13. CASE CarriedFrom(cs, d, ds[j])
    <3>1. IF ds[j].status = cs[i].status THEN ds[j].since = cs[i].since ELSE ds[j].since = clock
      BY <2>7, <2>8, <2>9, <2>10, <2>13, CarriedTime
    <3> QED
      BY <2>2, <2>7, <2>8, <2>9, <3>1
  <2>14. CASE a.status /\ CarriedFrom(cs, a, ds[j])
    <3>1. IF ds[j].status = cs[i].status THEN ds[j].since = cs[i].since ELSE ds[j].since = clock
      BY <2>7, <2>8, <2>9, <2>10, <2>14, CarriedTime
    <3> QED
      BY <2>2, <2>7, <2>8, <2>9, <3>1
  <2>15. CASE t = "Available" /\ ~a.status /\ ds[j] = a
    BY <2>7, <2>8, <2>15
  <2> QED
    BY <2>11, <2>12, <2>13, <2>14, <2>15
<1> QED
  BY <1>1, InvCorrect, PTL DEF Spec, TransitionTimesKept
=============================================================================
