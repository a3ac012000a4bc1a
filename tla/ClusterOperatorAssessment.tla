----------------------- MODULE ClusterOperatorAssessment -----------------------
(***************************************************************************)
(* What a cluster operator's insight says:                                 *)
(* internal/controller/clusteroperators/impl.go, assessClusterOperator.    *)
(* Pure operators; no state.                                               *)
(*                                                                         *)
(* A cluster operator is [version, progressing, available, degraded]: the  *)
(* version it reports as its own and the status of three conditions, each  *)
(* of them None when it reports none.  Messages are left out.               *)
(***************************************************************************)
EXTENDS Conditions

\* Fault: an operator that does not progress is done.
VersionUpdatedOrStill(operator, target) ==
  operator.version = target \/ operator.progressing = "False"

VersionUpdated(operator, target) ==
  operator.version # None /\ operator.version = target

Updating(operator, target, now) ==
  IF VersionUpdated(operator, target)        THEN Condition("False", "Updated", now)
  ELSE IF operator.progressing = "True"      THEN Condition("True", "Progressing", now)
  ELSE IF operator.progressing = "False"     THEN Condition("False", "Pending", now)
  ELSE Condition("Unknown", "CannotDetermine", now)

Healthy(operator, now) ==
  IF operator.available = None         THEN Condition("Unknown", "Unavailable", now)
  ELSE IF operator.available # "True"  THEN Condition("False", "Unavailable", now)
  ELSE IF operator.degraded = "True"   THEN Condition("False", "Degraded", now)
  ELSE Condition("True", "AsExpected", now)

\* The status of an insight that was just created.
EmptyStatus == [updating |-> None, healthy |-> None]

\* Fault: the conditions are set anew.
AssessClusterOperatorAfresh(operator, target, existing, now) ==
  [updating |-> Updating(operator, target, now), healthy |-> Healthy(operator, now)]

AssessClusterOperator(operator, target, existing, now) ==
  [updating |-> SetStatusCondition(existing.updating, Updating(operator, target, now)),
   healthy  |-> SetStatusCondition(existing.healthy, Healthy(operator, now))]

\* A status without its transition times.
Content(status) ==
  [c \in DOMAIN status |-> IF status[c] = None THEN None ELSE [status[c] EXCEPT !.since = 0]]
=============================================================================
