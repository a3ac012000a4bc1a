--------------------------- MODULE PoolAssessment ---------------------------
(***************************************************************************)
(* What a machine config pool's insight says, given the states of the      *)
(* pool's nodes: internal/controller/machineconfigpools/assessment.go.     *)
(* Pure operators; no state.                                               *)
(*                                                                         *)
(* state maps nodes to their states [phase, version, desiredVersion,       *)
(* available, degraded], the last two being the status of the conditions   *)
(* of that name; members are the nodes of the pool.  The pool's name and   *)
(* its scope, which the name decides, are left out of the status.          *)
(***************************************************************************)
EXTENDS Integers, FiniteSets

\* calculateNodeSummaries.
Summaries(members, state) ==
  LET count(S) == Cardinality(S \cap members)
      in(phases) == {n \in members : state[n].phase \in phases}
  IN  [Total       |-> Cardinality(members),
       Available   |-> count({n \in members : state[n].available}),
       Progressing |-> count(in({"Updating", "Rebooting"})),
       Outdated    |-> count({n \in members : state[n].version # state[n].desiredVersion}),
       Draining    |-> count(in({"Draining"})),
       Excluded    |-> count(in({"Paused"})),
       Degraded    |-> count({n \in members : state[n].degraded})]

Active(members, state) ==
  \E n \in members : state[n].phase \in {"Updating", "Rebooting", "Draining"}

Completed(members, state) == {n \in members : state[n].phase = "Completed"}

\* In order of precedence.
Assessment(isPaused, members, state) ==
  LET summaries == Summaries(members, state)
  IN  IF members = {} THEN "Pending"
      ELSE IF summaries.Degraded > 0 THEN "Degraded"
      ELSE IF isPaused /\ summaries.Outdated > 0 THEN "Excluded"
      ELSE IF Active(members, state) THEN "Progressing"
      ELSE IF Completed(members, state) = members THEN "Completed"
      ELSE "Pending"

Completion(members, state) ==
  IF members = {} THEN 0
  ELSE (Cardinality(Completed(members, state)) * 100) \div Cardinality(members)

Condition(status, why, since) == [status |-> status, why |-> why, since |-> since]

\* A condition that was never set.
Unset == Condition("Unknown", "", 0)

Updating(assessment, summaries, now) ==
  IF \/ assessment = "Progressing"
     \/ assessment = "Degraded" /\ summaries.Progressing > 0
  THEN Condition("True", "Progressing", now)
  ELSE IF assessment = "Completed" THEN Condition("False", "Updated", now)
  ELSE IF assessment = "Excluded"  THEN Condition("False", "Paused", now)
  ELSE Condition("False", "Pending", now)

Healthy(assessment, summaries, now) ==
  IF summaries.Degraded > 0 THEN Condition("False", "NodesDegraded", now)
  ELSE IF assessment = "Completed" THEN Condition("True", "AllNodesUpdated", now)
  ELSE IF assessment = "Excluded"  THEN Condition("True", "Paused", now)
  ELSE IF assessment = "Pending" /\ summaries.Total = 0 THEN Condition("True", "NoNodes", now)
  ELSE Condition("True", "NoProblems", now)

\* meta.SetStatusCondition: the transition time moves only with the status.
SetStatusCondition(old, new) ==
  IF old.status = new.status THEN [new EXCEPT !.since = old.since] ELSE new

AssessPool(isPaused, members, state, previous, now) ==
  LET assessment == Assessment(isPaused, members, state)
      summaries  == Summaries(members, state)
  IN  [assessment |-> assessment,
       completion |-> Completion(members, state),
       summaries  |-> summaries,
       updating   |-> SetStatusCondition(previous.updating, Updating(assessment, summaries, now)),
       healthy    |-> SetStatusCondition(previous.healthy, Healthy(assessment, summaries, now))]

\* The status of an insight that was just created.
EmptyStatus ==
  [assessment |-> "", completion |-> 0, summaries |-> Summaries({}, <<>>),
   updating |-> Unset, healthy |-> Unset]

\* A status without its transition times.
Content(status) ==
  LET untimed(condition) == [condition EXCEPT !.since = 0]
  IN  [field \in DOMAIN status |->
         IF field \in {"updating", "healthy"} THEN untimed(status[field]) ELSE status[field]]
=============================================================================
