--------------------------- MODULE NodeAssessment ---------------------------
(***************************************************************************)
(* The evaluator of internal/controller/nodestate (assess.go,              *)
(* conditions.go, state.go) with the Machine Config Operator helpers it    *)
(* calls (internal/mco): what one evaluation makes of one node, the pool   *)
(* it belongs to, the known MachineConfig versions and the cluster's       *)
(* target version.  Pure operators; no state.                              *)
(*                                                                         *)
(* An annotation is absent (None) or has a value; annotations that are     *)
(* there but empty, which the operator never writes, are left out. Wording *)
(* is abstracted: a message is the set of facts it reports ({} is the      *)
(* empty message), the "why" of a condition stands for its reason and      *)
(* message, and time is a number, 0 being Go's zero time.                  *)
(***************************************************************************)
EXTENDS Integers, Sequences

CONSTANTS None     \* an absent annotation, version, image, pool or state

ActivePhases == {"Draining", "Updating", "Rebooting"}
Phases       == ActivePhases \cup {"Pending", "Paused", "Completed"}

-----------------------------------------------------------------------------
(* A node's availability, as the Machine Config Operator defines it.       *)

\* Node conditions that are not as they should be (not Ready, disk pressure,
\* network unavailable) are node.troubles, each with its transition time.
IsNodeReady(node) == node.troubles = {} /\ ~node.cordoned

IsNodeConfigDone(node) == node.current # None /\ node.current = node.desired

IsNodeImageDone(node) == node.desiredImage = node.currentImage

IsNodeDone(node) ==
  IsNodeConfigDone(node) /\ IsNodeImageDone(node) /\ node.mcd = "Done"

\* A ready node is unavailable while its daemon has work to do and is able to.
IsWorkInProgress(node) ==
  /\ IsNodeReady(node)
  /\ ~IsNodeDone(node)
  /\ node.mcd \notin {"Degraded", "Unreconcilable"}

\* pool.osImage is None unless the pool is layered and names an image.
IsDesiredImageEqualToPool(node, pool) == node.desiredImage = pool.osImage

IsUnavailable(node, pool) ==
  /\ ~IsNodeReady(node) \/ IsWorkInProgress(node)
  /\ IsDesiredImageEqualToPool(node, pool)

UnavailableReasons(node) ==
  {t.reason : t \in node.troubles}
    \cup (IF node.cordoned THEN {"Unschedulable"} ELSE {})
    \cup (IF IsWorkInProgress(node) THEN {"WorkInProgress"} ELSE {})

\* The earliest known time among the reasons, 0 when none has one.
GetUnavailableSince(node) ==
  LET times == {t.since : t \in node.troubles} \ {0}
  IN  IF times = {} THEN 0 ELSE CHOOSE t \in times : \A u \in times : t <= u

IsNodeDegraded(node) ==
  node.desired # None /\ node.mcd \in {"Degraded", "Unreconcilable"}

-----------------------------------------------------------------------------
(* Phase, conditions and message.                                          *)

IsNodeDraining(node, isUpdating) ==
  /\ node.appliedDrain # None
  /\ node.desiredDrain # None
  /\ \/ node.desiredDrain # node.appliedDrain /\ node.desiredDrain.verb = "drain"
     \/ isUpdating /\ node.mcd = "Done"

\* Fault: the branch of a paused pool forgets to name a phase.
PhaseOfUnnamed(pool, node, isUpdating, isUpdated) ==
  CASE isUpdating /\ IsNodeDraining(node, isUpdating) -> "Draining"
    [] isUpdating /\ ~IsNodeDraining(node, isUpdating) -> "Updating"
    [] ~isUpdating /\ isUpdated  -> "Completed"
    [] ~isUpdating /\ ~isUpdated -> IF pool.paused THEN "" ELSE "Pending"

PhaseOf(pool, node, isUpdating, isUpdated) ==
  IF isUpdating
  THEN IF IsNodeDraining(node, isUpdating) THEN "Draining"
       ELSE IF node.mcd = "Rebooting" THEN "Rebooting"
       ELSE IF node.mcd = "Done" THEN "Completed"
       ELSE "Updating"
  ELSE IF isUpdated THEN "Completed"
  ELSE IF pool.paused THEN "Paused" ELSE "Pending"

ConditionTypes == {"Updating", "Available", "Degraded"}

\* What conditions report of the controller's own accord, and the conditions that
\* report facts of Whys.
OwnWords == Phases \cup {"AsExpected", "Unschedulable", "WorkInProgress"}

Conditions(Whys) ==
  [type : ConditionTypes, status : BOOLEAN, why : SUBSET Whys, since : Nat]

Condition(type, status, why, since) ==
  [type |-> type, status |-> status, why |-> why, since |-> since]

\* Fault: a condition is replaced together with its transition time.
SetStatusConditionAfresh(conditions, c) ==
  IF \E i \in DOMAIN conditions : conditions[i].type = c.type
  THEN [i \in DOMAIN conditions |->
          IF conditions[i].type = c.type THEN c ELSE conditions[i]]
  ELSE Append(conditions, c)

\* meta.SetStatusCondition: replace the condition of that type in place, or
\* append it; the transition time moves only with the status.
SetStatusCondition(conditions, c) ==
  IF \E i \in DOMAIN conditions : conditions[i].type = c.type
  THEN [i \in DOMAIN conditions |->
          IF conditions[i].type # c.type THEN conditions[i]
          ELSE IF conditions[i].status # c.status THEN c
          ELSE [c EXCEPT !.since = conditions[i].since]]
  ELSE Append(conditions, c)

\* Fault: the old condition stays in when the new one is appended.
WithoutNothing(conditions, type) == conditions

\* Kept[i] is what is kept of the first i conditions.
Kept(conditions, type) ==
  LET kept[i \in 0..Len(conditions)] ==
        IF i = 0 THEN <<>>
        ELSE IF conditions[i].type # type THEN Append(kept[i - 1], conditions[i])
        ELSE kept[i - 1]
  IN  kept

Without(conditions, type) == Kept(conditions, type)[Len(conditions)]

IsDown(pool, node, isUpdating) == IsUnavailable(node, pool) /\ ~isUpdating

UpdatingCondition(phase, now) ==
  Condition("Updating", phase \in ActivePhases, {phase}, now)

AvailableCondition(node, down, now) ==
  IF down
  THEN Condition("Available", FALSE, UnavailableReasons(node),
                 IF GetUnavailableSince(node) = 0 THEN now ELSE GetUnavailableSince(node))
  ELSE Condition("Available", TRUE, {"AsExpected"}, now)

DegradedCondition(node, now) ==
  Condition("Degraded", IsNodeDegraded(node),
            IF IsNodeDegraded(node) THEN node.mcdReason ELSE {"AsExpected"}, now)

Replaced(conditions, c) == Append(Without(conditions, c.type), c)

\* An unavailable node's condition keeps its own timestamp: it is taken out and
\* appended instead of being set.
SetAvailable(conditions, available) ==
  IF available.status THEN SetStatusCondition(conditions, available)
                      ELSE Replaced(conditions, available)

CarryOver(existing, updating, available, degraded) ==
  LET withUpdating  == SetStatusCondition(existing, updating)
      withAvailable == SetAvailable(withUpdating, available)
  IN  SetStatusCondition(withAvailable, degraded)

DetermineConditions(pool, node, isUpdating, isUpdated, existing, now) ==
  LET phase == PhaseOf(pool, node, isUpdating, isUpdated)
      down  == IsDown(pool, node, isUpdating)
  IN  [conditions |-> CarryOver(existing, UpdatingCondition(phase, now),
                                AvailableCondition(node, down, now),
                                DegradedCondition(node, now)),
       phase      |-> phase,
       message    |-> IF IsNodeDegraded(node) THEN node.mcdReason
                      ELSE IF down THEN UnavailableReasons(node)
                      ELSE {}]

-----------------------------------------------------------------------------
(* The evaluation.  versions maps each MachineConfig to the version the    *)
(* cache has for it or None; target is the version of the ClusterVersion's *)
(* newest history entry, None when the history is empty.                   *)

VersionFor(versions, config) == IF config = None THEN None ELSE versions[config]

\* Fault: the version alone decides, as before the multi-arch migration case.
IsUpdatedByVersion(node, versions, target) ==
  LET current == VersionFor(versions, node.current)
  IN  current # None /\ current = target

IsUpdated(node, versions, target) ==
  LET current == VersionFor(versions, node.current)
  IN  /\ current # None
      /\ current = target
      /\ node.desired \in {None, node.current}

IsUpdating(node, versions, target) ==
  /\ ~IsUpdated(node, versions, target)
  /\ VersionFor(versions, node.current) # None
  /\ VersionFor(versions, node.desired) # None
  /\ VersionFor(versions, node.desired) = target

EvaluateNode(name, node, poolName, pool, versions, target, existing, now) ==
  LET verdict == DetermineConditions(pool, node,
                   IsUpdating(node, versions, target),
                   IsUpdated(node, versions, target), existing, now)
  IN  [name           |-> name,
       pool           |-> poolName,
       version        |-> VersionFor(versions, node.current),
       desiredVersion |-> target,
       currentConfig  |-> node.current,
       desiredConfig  |-> node.desired,
       conditions     |-> verdict.conditions,
       phase          |-> verdict.phase,
       message        |-> verdict.message]

\* ComputeHash writes the fields one after the other with nothing between
\* them, so an empty field leaves no trace: two states have the same hash when
\* the sequences of what they write are the same.  (FNV-64 collisions and
\* strings that join to the same text are left out.)  Transition times are not
\* written.
Written(v) == IF v = None THEN <<>> ELSE <<{v}>>

\* Fault: the desired config is not written.
ComputeHashWithoutDesired(s) ==
  <<{s.name}, {s.pool}>>
    \o Written(s.version) \o Written(s.desiredVersion) \o Written(s.currentConfig)
    \o <<{s.phase}>> \o (IF s.message = {} THEN <<>> ELSE <<s.message>>)
    \o [i \in DOMAIN s.conditions |->
          {s.conditions[i].type, IF s.conditions[i].status THEN "True" ELSE "False"}
            \cup s.conditions[i].why]

\* Fault: the pool is not written.
ComputeHashWithoutPool(s) ==
  <<{s.name}>>
    \o SubSeq(ComputeHashWithoutDesired(s), 3, Len(ComputeHashWithoutDesired(s)))
    \o Written(s.desiredConfig)

\* Fault: transition times are written too.
ComputeHashWithTimes(s) ==
  ComputeHashWithoutDesired(s) \o Written(s.desiredConfig)
    \o [i \in DOMAIN s.conditions |-> {s.conditions[i].since}]

ComputeHash(s) ==
  <<{s.name}, {s.pool}>>
    \o Written(s.version) \o Written(s.desiredVersion)
    \o Written(s.currentConfig) \o Written(s.desiredConfig)
    \o <<{s.phase}>> \o (IF s.message = {} THEN <<>> ELSE <<s.message>>)
    \o [i \in DOMAIN s.conditions |->
          {s.conditions[i].type, IF s.conditions[i].status THEN "True" ELSE "False"}
            \cup s.conditions[i].why]

\* What an insight or a pool summary shows of a state: everything but the
\* transition times and the order of the conditions.
Shown(s) ==
  [pool |-> s.pool, version |-> s.version, desiredVersion |-> s.desiredVersion,
   currentConfig |-> s.currentConfig, desiredConfig |-> s.desiredConfig,
   phase |-> s.phase, message |-> s.message,
   conditions |-> {<<s.conditions[i].type, s.conditions[i].status, s.conditions[i].why>> :
                     i \in DOMAIN s.conditions}]
=============================================================================
