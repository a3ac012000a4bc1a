--------------------- MODULE ClusterOperatorInsight_proofs ---------------------
(***************************************************************************)
(* Proofs about ClusterOperatorInsight, for any operators, reports,        *)
(* versions and number of changes: the types; that an insight which does   *)
(* not say what it should is always on somebody's list; that the two       *)
(* counts of updated operators then agree; and that transition times move  *)
(* only with their status.                                                 *)
(***************************************************************************)
EXTENDS ClusterOperatorInsight, TLAPS

-----------------------------------------------------------------------------
(* What an assessment gives.                                               *)

\* What a verdict is; it depends on the time of the assessment in its time only.
LEMMA VerdictsGiven ==
  ASSUME NEW r, NEW target, NEW now \in Nat
  PROVE  /\ Updating(r, target, now) \in Verdicts
         /\ Updating(r, target, now).why = "Updated" <=> VersionUpdated(r, target)
         /\ [Updating(r, target, now) EXCEPT !.since = 0] = Updating(r, target, 0)
         /\ Healthy(r, now) \in Verdicts
         /\ [Healthy(r, now) EXCEPT !.since = 0] = Healthy(r, 0)
<1>0. ASSUME NEW status \in {"True", "False", "Unknown"}, NEW why \in Reasons
      PROVE  /\ Condition(status, why, now) \in Verdicts
             /\ Condition(status, why, now).why = why
  BY DEF Condition, Verdicts
<1>1. /\ Updating(r, target, now) \in Verdicts
      /\ Updating(r, target, now).why = "Updated" <=> VersionUpdated(r, target)
  <2>1. CASE VersionUpdated(r, target)
    BY <1>0, <2>1 DEF Updating, Reasons
  <2>2. CASE ~VersionUpdated(r, target)
    <3>1. \/ Updating(r, target, now) = Condition("True", "Progressing", now)
          \/ Updating(r, target, now) = Condition("False", "Pending", now)
          \/ Updating(r, target, now) = Condition("Unknown", "CannotDetermine", now)
      BY <2>2 DEF Updating
    <3> QED
      BY <1>0, <2>2, <3>1 DEF Reasons
  <2> QED
    BY <2>1, <2>2
<1>2. [Updating(r, target, now) EXCEPT !.since = 0] = Updating(r, target, 0)
  BY DEF Updating, Condition
<1>3. Healthy(r, now) \in Verdicts
  <2>1. \/ Healthy(r, now) = Condition("Unknown", "Unavailable", now)
        \/ Healthy(r, now) = Condition("False", "Unavailable", now)
        \/ Healthy(r, now) = Condition("False", "Degraded", now)
        \/ Healthy(r, now) = Condition("True", "AsExpected", now)
    BY DEF Healthy
  <2> QED
    BY <1>0, <2>1 DEF Reasons
<1>4. [Healthy(r, now) EXCEPT !.since = 0] = Healthy(r, 0)
  BY DEF Healthy, Condition
<1> QED
  BY <1>1, <1>2, <1>3, <1>4

\* A condition that is set is as the new one but for its time, which is the old one's
\* when the status stays.
LEMMA SetType ==
  ASSUME NEW old \in Verdicts \cup {None}, NEW new \in Verdicts
  PROVE  /\ SetStatusCondition(old, new) \in Verdicts
         /\ SetStatusCondition(old, new).why = new.why
         /\ [SetStatusCondition(old, new) EXCEPT !.since = 0] = [new EXCEPT !.since = 0]
         /\ old # None /\ old.status = SetStatusCondition(old, new).status
              => old.since = SetStatusCondition(old, new).since
BY InsightAssumption DEF SetStatusCondition, Verdicts

\* An assessment is a status; but for times it depends on the report and the target
\* only; a time it has from before it keeps unless the status changes.
LEMMA AssessmentGives ==
  ASSUME NEW r, NEW target, NEW old \in Statuses, NEW now \in Nat
  PROVE  LET new == AssessClusterOperator(r, target, old, now)
         IN  /\ new \in Statuses
             /\ new.updating \in Verdicts
             /\ new.updating.why = "Updated" <=> VersionUpdated(r, target)
             /\ Content(new) = Content(AssessClusterOperator(r, target, EmptyStatus, 0))
             /\ \A c \in {"updating", "healthy"} :
                  old[c] # None /\ old[c].status = new[c].status
                    => old[c].since = new[c].since
<1> DEFINE new     == AssessClusterOperator(r, target, old, now)
           fresh   == AssessClusterOperator(r, target, EmptyStatus, 0)
           verdict == Updating(r, target, now)
           health  == Healthy(r, now)
<1>1. EmptyStatus \in Statuses /\ old.updating \in Verdicts \cup {None}
      /\ old.healthy \in Verdicts \cup {None}
      /\ EmptyStatus.updating = None /\ EmptyStatus.healthy = None
  BY DEF EmptyStatus, Statuses
<1>2. /\ new.updating = SetStatusCondition(old.updating, verdict)
      /\ new.healthy = SetStatusCondition(old.healthy, health)
      /\ new = [updating |-> new.updating, healthy |-> new.healthy]
  BY DEF AssessClusterOperator
<1>3. /\ fresh.updating = Updating(r, target, 0)
      /\ fresh.healthy = Healthy(r, 0)
      /\ fresh = [updating |-> fresh.updating, healthy |-> fresh.healthy]
  BY <1>1 DEF AssessClusterOperator, SetStatusCondition
<1> HIDE DEF new, fresh
<1>4. /\ verdict \in Verdicts
      /\ verdict.why = "Updated" <=> VersionUpdated(r, target)
      /\ [verdict EXCEPT !.since = 0] = Updating(r, target, 0)
      /\ health \in Verdicts
      /\ [health EXCEPT !.since = 0] = Healthy(r, 0)
  BY VerdictsGiven
<1>5. /\ Updating(r, target, 0) \in Verdicts
      /\ Healthy(r, 0) \in Verdicts
      /\ [Updating(r, target, 0) EXCEPT !.since = 0] = Updating(r, target, 0)
      /\ [Healthy(r, 0) EXCEPT !.since = 0] = Healthy(r, 0)
  BY VerdictsGiven
<1> HIDE DEF verdict, health
<1>6. /\ new.updating \in Verdicts
      /\ new.updating.why = verdict.why
      /\ [new.updating EXCEPT !.since = 0] = [verdict EXCEPT !.since = 0]
      /\ old.updating # None /\ old.updating.status = new.updating.status
           => old.updating.since = new.updating.since
  BY <1>1, <1>2, <1>4, SetType
<1>7. /\ new.healthy \in Verdicts
      /\ [new.healthy EXCEPT !.since = 0] = [health EXCEPT !.since = 0]
      /\ old.healthy # None /\ old.healthy.status = new.healthy.status
           => old.healthy.since = new.healthy.since
  BY <1>1, <1>2, <1>4, SetType
<1>8. new \in Statuses
  BY <1>2, <1>6, <1>7 DEF Statuses
<1>9. Content(new) = Content(fresh)
  <2>1. DOMAIN new = {"updating", "healthy"} /\ DOMAIN fresh = {"updating", "healthy"}
    BY <1>2, <1>3
  <2>2. None \notin Verdicts
    BY InsightAssumption
  <2>3. \A c \in {"updating", "healthy"} :
          (IF new[c] = None THEN None ELSE [new[c] EXCEPT !.since = 0])
            = (IF fresh[c] = None THEN None ELSE [fresh[c] EXCEPT !.since = 0])
    BY <1>3, <1>4, <1>5, <1>6, <1>7, <2>2
  <2> QED
    BY <2>1, <2>3 DEF Content
<1>10. \A c \in {"updating", "healthy"} :
         old[c] # None /\ old[c].status = new[c].status => old[c].since = new[c].since
  BY <1>6, <1>7
<1>11. new.updating.why = "Updated" <=> VersionUpdated(r, target)
  BY <1>4, <1>6
<1> QED
  BY <1>6, <1>8, <1>9, <1>10, <1>11 DEF new, fresh

-----------------------------------------------------------------------------
(* Types.                                                                  *)

LEMMA InitTypeOK == Init => TypeOK
<1> SUFFICES ASSUME Init PROVE TypeOK
  OBVIOUS
<1>1. PICK r \in Report \cup {None}, s \in {None, EmptyStatus} :
        co = [o \in Operator |-> r] /\ insights = [o \in Operator |-> s]
  BY DEF Init
<1>2. EmptyStatus \in Statuses
  BY DEF EmptyStatus, Statuses
<1>3. /\ insights \in [Operator -> Statuses \cup {None}]
      /\ co \in [Operator -> Report \cup {None}]
  BY <1>1, <1>2
<1>4. Present \subseteq Operator
  BY DEF Present
<1> QED
  BY <1>3, <1>4 DEF Init, TypeOK

LEMMA WriteType ==
  ASSUME TypeOK, NEW o \in Operator, NEW new \in Statuses \cup {None}, Write(o, new)
  PROVE  /\ insights' \in [Operator -> Statuses \cup {None}]
         /\ copies' \in [Operator -> Statuses \cup {None}]
         /\ unseen' \subseteq Operator
BY DEF TypeOK, Write

\* A bounded change of the outside world, or none.
LEMMA ChangeType ==
  ASSUME TypeOK, Change \/ UNCHANGED changes
  PROVE  changes' \in Nat
BY DEF TypeOK, Change

\* A worker that stops is idle, with the operator it had back in the queue or not.
LEMMA StopType ==
  ASSUME TypeOK, item \in Operator, Done \/ Retry
  PROVE  /\ dirty' \subseteq Operator
         /\ pc' = "idle" /\ item' = None /\ seen' = None /\ held' = None
         /\ current' = FALSE /\ plan' = None
BY DEF TypeOK, Done, Retry, Stop

\* A worker that is not idle has an operator.
LEMMA WorkerHas ==
  ASSUME TypeOK, pc # "idle"
  PROVE  item \in Operator
BY DEF TypeOK

\* What the outside world does.
LEMMA WorldTypeOK ==
  ASSUME TypeOK,
         ChangeClusterVersion \/ ListOperators \/ ListFails \/ Tick \/ Resync
           \/ \E o \in Operator : ChangeOperator(o) \/ Sync(o)
  PROVE  TypeOK'
<1>1. Present \subseteq Operator
  BY DEF Present
<1>2. CASE ChangeClusterVersion
  BY <1>2
  DEF TypeOK, ChangeClusterVersion, Change, objects, worker, StartedOrCompletedUpdating
<1>3. CASE ListOperators
  BY <1>1, <1>3 DEF TypeOK, ListOperators, world, objects, worker
<1>4. CASE ListFails
  <2>1. changes' \in Nat
    BY <1>4, ChangeType DEF ListFails
  <2> QED
    BY <1>1, <1>4, <2>1 DEF TypeOK, ListFails, world, objects, worker
<1>5. CASE Tick
  BY <1>5 DEF TypeOK, Tick, Change, objects, worker
<1>6. CASE Resync
  BY <1>1, <1>6 DEF TypeOK, Resync, world, objects, worker
<1>7. ASSUME NEW o \in Operator, ChangeOperator(o) PROVE TypeOK'
  BY <1>7 DEF TypeOK, ChangeOperator, Change, objects, worker
<1>8. ASSUME NEW o \in Operator, Sync(o) PROVE TypeOK'
  BY <1>8 DEF TypeOK, Sync, world, worker
<1> QED
  BY <1>2, <1>3, <1>4, <1>5, <1>6, <1>7, <1>8

\* The worker reads.
LEMMA ReadTypeOK ==
  ASSUME TypeOK, Assess \/ GetInsight \/ \E o \in Operator : Reconcile(o)
  PROVE  TypeOK'
<1>1. ASSUME NEW o \in Operator, Reconcile(o) PROVE TypeOK'
  BY <1>1, InsightAssumption DEF TypeOK, Reconcile, world, objects
<1>2. CASE GetInsight
  <2>1. item \in Operator
    BY <1>2, WorkerHas DEF GetInsight
  <2>2. CASE NothingThere
    BY <1>2, <2>1, <2>2, StopType DEF TypeOK, GetInsight, Done, world, objects
  <2>3. CASE ~NothingThere
    BY <1>2, <2>1, <2>3, InsightAssumption
    DEF TypeOK, GetInsight, NothingThere, world, objects
  <2> QED
    BY <2>2, <2>3
<1>3. CASE Assess
  <2>1. item \in Operator /\ seen # None
    BY <1>3, WorkerHas DEF Assess, TypeOK
  <2>2. CASE Done
    <3>1. unheard' \subseteq Operator
      BY <1>3 DEF Assess, TypeOK
    <3> QED
      BY <1>3, <2>1, <2>2, <3>1, StopType DEF TypeOK, Assess, Done, world, objects
  <2>3. CASE ~Done
    <3> DEFINE old == IF held = None THEN EmptyStatus ELSE held
               new == AssessClusterOperator(seen, cv.desired, old, clock)
    <3>1. old \in Statuses /\ clock \in Nat
      BY DEF TypeOK, EmptyStatus, Statuses
    <3> HIDE DEF old
    <3>2. new \in Statuses
      BY <3>1, AssessmentGives
    <3>3. /\ pc = "assess" /\ pc' = IF held = None THEN "create" ELSE "update"
          /\ plan' = new
          /\ unheard' = unheard \ {item}
          /\ UNCHANGED <<dirty, item, seen, held, current>>
          /\ UNCHANGED <<world, objects, listing, changes>>
      BY <1>3, <2>3 DEF Assess, old
    <3> HIDE DEF new
    <3>4. plan' \in Statuses /\ plan' # None
      BY <3>2, <3>3, InsightAssumption
    <3> QED
      BY <2>1, <3>3, <3>4 DEF TypeOK, world, objects
  <2> QED
    BY <2>2, <2>3
<1> QED
  BY <1>1, <1>2, <1>3

\* The worker writes.
LEMMA CallTypeOK ==
  ASSUME TypeOK, DeleteInsight \/ CreateInsight \/ UpdateStatus \/ CallFails
  PROVE  TypeOK'
<1>1. item \in Operator
  BY WorkerHas DEF DeleteInsight, CreateInsight, UpdateStatus, CallFails
<1>2. UNCHANGED <<world, listing, unheard>>
  BY DEF DeleteInsight, CreateInsight, UpdateStatus, CallFails
<1>3. ASSUME Done \/ Retry, UNCHANGED objects \/ \E s \in Statuses \cup {None} : Write(item, s),
             Change \/ UNCHANGED changes
      PROVE  TypeOK'
  <2>1. /\ insights' \in [Operator -> Statuses \cup {None}]
        /\ copies' \in [Operator -> Statuses \cup {None}]
        /\ unseen' \subseteq Operator
    BY <1>1, <1>3, WriteType DEF TypeOK, objects
  <2>2. changes' \in Nat
    BY <1>3, ChangeType
  <2> QED
    BY <1>1, <1>2, <1>3, <2>1, <2>2, StopType DEF TypeOK, world
<1>4. CASE DeleteInsight
  BY <1>3, <1>4 DEF DeleteInsight, Answered
<1>5. CASE UpdateStatus
  <2>1. plan \in Statuses \cup {None}
    BY DEF TypeOK
  <2> QED
    BY <1>3, <1>5, <2>1 DEF UpdateStatus, Answered
<1>6. CASE CallFails
  BY <1>3, <1>6 DEF CallFails
<1>7. CASE CreateInsight
  <2>1. EmptyStatus \in Statuses /\ EmptyStatus # None
    BY InsightAssumption DEF EmptyStatus, Statuses
  <2>2. CASE Retry
    BY <1>3, <1>7, <2>1, <2>2 DEF CreateInsight, Answered
  <2>3. CASE ~Retry
    <3>1. /\ Write(item, EmptyStatus) /\ pc = "create"
          /\ pc' = "update" /\ held' = EmptyStatus /\ current' = TRUE
          /\ UNCHANGED <<dirty, item, seen, plan, changes>>
      BY <1>7, <2>3 DEF CreateInsight, Answered
    <3>2. /\ insights' \in [Operator -> Statuses \cup {None}]
          /\ copies' \in [Operator -> Statuses \cup {None}]
          /\ unseen' \subseteq Operator
      BY <1>1, <2>1, <3>1, WriteType
    <3> QED
      BY <1>1, <1>2, <2>1, <3>1, <3>2 DEF TypeOK, world
  <2> QED
    BY <2>2, <2>3
<1> QED
  BY <1>4, <1>5, <1>6, <1>7

LEMMA NextTypeOK == TypeOK /\ [Next]_vars => TypeOK'
<1> SUFFICES ASSUME TypeOK, [Next]_vars PROVE TypeOK'
  OBVIOUS
<1>1. CASE ChangeClusterVersion \/ ListOperators \/ ListFails \/ Tick \/ Resync
           \/ \E o \in Operator : ChangeOperator(o) \/ Sync(o)
  BY <1>1, WorldTypeOK
<1>2. CASE Assess \/ GetInsight \/ \E o \in Operator : Reconcile(o)
  BY <1>2, ReadTypeOK
<1>3. CASE DeleteInsight \/ CreateInsight \/ UpdateStatus \/ CallFails
  BY <1>3, CallTypeOK
<1>4. ASSUME NEW o \in Operator, Meddle(o) PROVE TypeOK'
  <2>1. PICK new \in {None, EmptyStatus} : Write(o, new)
    BY <1>4 DEF Meddle
  <2>2. /\ insights' \in [Operator -> Statuses \cup {None}]
        /\ copies' \in [Operator -> Statuses \cup {None}]
        /\ unseen' \subseteq Operator
    BY <2>1, WriteType DEF EmptyStatus, Statuses
  <2> QED
    BY <1>4, <2>2 DEF TypeOK, Meddle, Change, world
<1>5. CASE Restart
  <2>1. changes' \in Nat
    BY <1>5, ChangeType DEF Restart
  <2>2. dirty' \subseteq Operator
    BY <1>5 DEF Restart, Present
  <2> QED
    BY <1>5, <2>1, <2>2 DEF TypeOK, Restart, Stop, world
<1>6. CASE UNCHANGED vars
  BY <1>6 DEF TypeOK, vars, world, objects, worker
<1> QED
  BY <1>1, <1>2, <1>3, <1>4, <1>5, <1>6 DEF Next, Work

\* Every variable keeps its type (TypeOK), and what the worker is about to do it has
\* the means for, whatever the sizes.
THEOREM TypeCorrect == Spec => []TypeOK
BY InitTypeOK, NextTypeOK, PTL DEF Spec

-----------------------------------------------------------------------------
(* What the worker and the informer know is what there is, or there is     *)
(* word of it on its way.                                                  *)

Following(o) ==
  /\ o \notin unseen => copies[o] = insights[o]
  /\ item = o => seen = co[o] \/ o \in dirty
  /\ item = o /\ pc # "getInsight" => held = insights[o] \/ o \in unseen \cup dirty

\* A write puts the operator among the unseen and leaves the others alone.
LEMMA WriteLeaves ==
  ASSUME TypeOK, NEW m \in Operator, NEW new, Write(m, new), NEW o \in Operator
  PROVE  /\ m \in unseen' /\ copies' = copies
         /\ o \in unseen => o \in unseen'
         /\ o # m => insights'[o] = insights[o] /\ (o \in unseen' <=> o \in unseen)
         /\ insights'[m] = new
BY DEF TypeOK, Write

\* A worker that stops gives its operator back, or has written its insight.
LEMMA CallEffect ==
  ASSUME TypeOK, DeleteInsight \/ CreateInsight \/ UpdateStatus \/ CallFails
  PROVE  /\ item \in Operator
         /\ UNCHANGED <<world, listing, unheard>>
         /\ UNCHANGED objects \/ \E s \in {None, EmptyStatus, plan} : Write(item, s)
         /\ \/ Retry
            \/ Done /\ \E s \in {None, EmptyStatus, plan} : Write(item, s)
            \/ /\ Write(item, EmptyStatus) /\ pc' = "update" /\ held' = EmptyStatus
               /\ UNCHANGED <<dirty, item, seen, plan>>
<1>1. item \in Operator
  BY WorkerHas DEF DeleteInsight, CreateInsight, UpdateStatus, CallFails
<1>2. UNCHANGED <<world, listing, unheard>>
  BY DEF DeleteInsight, CreateInsight, UpdateStatus, CallFails
<1>3. CASE DeleteInsight
  BY <1>1, <1>2, <1>3 DEF DeleteInsight, Answered
<1>4. CASE CreateInsight
  BY <1>1, <1>2, <1>4 DEF CreateInsight, Answered
<1>5. CASE UpdateStatus
  BY <1>1, <1>2, <1>5 DEF UpdateStatus, Answered
<1>6. CASE CallFails
  BY <1>1, <1>2, <1>6 DEF CallFails
<1> QED
  BY <1>3, <1>4, <1>5, <1>6

LEMMA InitFollowing ==
  ASSUME Init, NEW o \in Operator
  PROVE  Following(o)
BY InsightAssumption DEF Init, Following

LEMMA NextFollowing ==
  ASSUME TypeOK, [Next]_vars, NEW o \in Operator, Following(o)
  PROVE  Following(o)'
<1>0. o # None
  BY InsightAssumption
<1>1. CASE ChangeClusterVersion \/ ListOperators \/ ListFails \/ Tick \/ Resync
  BY <1>1
  DEF Following, ChangeClusterVersion, ListOperators, ListFails, Tick, Resync,
      world, objects, worker
<1>2. ASSUME NEW m \in Operator, ChangeOperator(m) PROVE Following(o)'
  BY <1>2 DEF Following, ChangeOperator, TypeOK, objects, worker
<1>3. ASSUME NEW m \in Operator, Sync(m) PROVE Following(o)'
  BY <1>3 DEF Following, Sync, TypeOK, world, worker
<1>4. ASSUME NEW m \in Operator, Meddle(m) PROVE Following(o)'
  <2>1. PICK new \in {None, EmptyStatus} : Write(m, new)
    BY <1>4 DEF Meddle
  <2>2. UNCHANGED <<world, dirty, pc, item, seen, held>>
    BY <1>4 DEF Meddle
  <2> QED
    BY <2>1, <2>2, WriteLeaves DEF Following, world
<1>5. CASE Restart
  BY <1>0, <1>5 DEF Following, Restart, Stop
<1>6. ASSUME NEW m \in Operator, Reconcile(m) PROVE Following(o)'
  BY <1>6 DEF Following, Reconcile, world, objects
<1>7. CASE GetInsight
  BY <1>0, <1>7 DEF Following, GetInsight, Done, Stop, world, objects
<1>8. CASE Assess
  BY <1>0, <1>8 DEF Following, Assess, Done, Stop, world, objects
<1>9. CASE DeleteInsight \/ CreateInsight \/ UpdateStatus \/ CallFails
  <2>1. /\ o \notin unseen' => o \notin unseen /\ insights'[o] = insights[o]
        /\ copies' = copies
    BY <1>9, CallEffect, WriteLeaves DEF objects
  <2>2. CASE Retry \/ Done
    BY <1>0, <2>1, <2>2 DEF Following, Retry, Done, Stop
  <2>3. CASE ~(Retry \/ Done)
    <3>1. /\ Write(item, EmptyStatus) /\ item \in Operator /\ held' = EmptyStatus
          /\ UNCHANGED <<world, dirty, item, seen>>
      BY <1>9, <2>3, CallEffect
    <3> QED
      BY <2>1, <3>1, WriteLeaves DEF Following, world
  <2> QED
    BY <2>2, <2>3
<1>10. CASE UNCHANGED vars
  BY <1>10 DEF Following, vars, world, objects, worker
<1> QED
  BY <1>1, <1>2, <1>3, <1>4, <1>5, <1>6, <1>7, <1>8, <1>9, <1>10 DEF Next, Work

-----------------------------------------------------------------------------
(* An insight that does not say what it should is pending.                 *)
(*                                                                         *)
(* An event puts its operator in the queue, one of the ClusterVersion is   *)
(* pending in listing until the list does; the worker moves the operator   *)
(* from the queue to item, and lets go of it only after it wrote the       *)
(* insight, which is then unseen, or found that there is nothing to write: *)
(* from what it knows, which by Following is what there is, or something   *)
(* is pending still.                                                       *)

Pending(o) ==
  \/ item = o \/ o \in dirty \cup unseen
  \/ co[o] # None /\ (listing \/ cv = None \/ o \in unheard)

Good(o) == Pending(o) \/ Assessed(o)

LEMMA InitGood ==
  ASSUME Init, NEW o \in Operator
  PROVE  Good(o)
BY DEF Init, Good, Pending, Assessed, Present

LEMMA WorldGood ==
  ASSUME TypeOK, NEW o \in Operator, Good(o),
         ChangeClusterVersion \/ ListOperators \/ ListFails \/ Tick \/ Resync
           \/ \E m \in Operator : ChangeOperator(m) \/ Sync(m)
  PROVE  Good(o)'
<1>1. CASE ChangeClusterVersion
  <2>1. UNCHANGED <<co, objects, dirty, worker, unheard>>
    BY <1>1 DEF ChangeClusterVersion
  <2>2. CASE StartedOrCompletedUpdating(cv, cv')
    <3>1. listing'
      BY <1>1, <2>2 DEF ChangeClusterVersion
    <3> QED
      BY <2>1, <3>1 DEF Good, Pending, Assessed, objects, worker
  <2>3. CASE ~StartedOrCompletedUpdating(cv, cv')
    <3>1. cv # None /\ cv' # None /\ cv'.desired = cv.desired
      BY <2>3 DEF StartedOrCompletedUpdating, CvDesiredVersionChanged
    <3>2. listing' = listing
      BY <1>1, <2>3 DEF ChangeClusterVersion, TypeOK
    <3> QED
      BY <2>1, <3>1, <3>2 DEF Good, Pending, Assessed, objects, worker
  <2> QED
    BY <2>2, <2>3
<1>2. CASE ListOperators
  BY <1>2 DEF ListOperators, Good, Pending, Assessed, Present, world, objects, worker
<1>3. CASE ListFails
  BY <1>3 DEF ListFails, Good, Pending, Assessed, Present, world, objects, worker
<1>4. CASE Tick
  BY <1>4 DEF Tick, Good, Pending, Assessed, objects, worker
<1>5. CASE Resync
  BY <1>5 DEF Resync, Good, Pending, Assessed, world, objects, worker
<1>6. ASSUME NEW m \in Operator, ChangeOperator(m) PROVE Good(o)'
  BY <1>6 DEF ChangeOperator, TypeOK, Good, Pending, Assessed, objects, worker
<1>7. ASSUME NEW m \in Operator, Sync(m) PROVE Good(o)'
  BY <1>7 DEF Sync, TypeOK, Good, Pending, Assessed, world, worker
<1> QED
  BY <1>1, <1>2, <1>3, <1>4, <1>5, <1>6, <1>7

\* The worker finds nothing to do where there is nothing.
LEMMA GetGood ==
  ASSUME TypeOK, NEW o \in Operator, Following(o), Good(o), GetInsight
  PROVE  Good(o)'
<1>1. UNCHANGED <<world, objects, listing, unheard, dirty>>
  BY DEF GetInsight, Done
<1>2. CASE item # o
  BY <1>1, <1>2 DEF Good, Pending, Assessed, world, objects
<1>3. CASE item = o /\ NothingThere
  BY <1>1, <1>3 DEF NothingThere, Following, Good, Pending, Assessed, world, objects
<1>4. CASE item = o /\ ~NothingThere
  BY <1>4 DEF GetInsight, Good, Pending
<1> QED
  BY <1>2, <1>3, <1>4

\* The worker finds nothing to do where the insight says what it should.
LEMMA AssessGood ==
  ASSUME TypeOK, NEW o \in Operator, Following(o), Good(o), Assess
  PROVE  Good(o)'
<1>1. /\ UNCHANGED <<world, objects, listing>>
      /\ dirty' = dirty
      /\ unheard' \in {unheard, unheard \ {item}}
  BY DEF Assess, Done
<1>2. CASE item # o
  BY <1>1, <1>2 DEF Good, Pending, Assessed, world, objects
<1>3. CASE item = o /\ item' = o
  BY <1>3 DEF Good, Pending
<1>4. CASE item = o /\ item' # o
  <2>1. seen # None /\ pc = "assess"
    BY DEF Assess, TypeOK
  <2>2. CASE cv = None
    BY <1>1, <1>4, <2>1, <2>2 DEF Following, Good, Pending, world
  <2>3. CASE cv # None
    <3>1. /\ held # None
          /\ held = AssessClusterOperator(seen, cv.desired, held, clock)
      BY <1>4, <2>3 DEF Assess, Differs
    <3>2. held \in Statuses /\ clock \in Nat
      BY <3>1 DEF TypeOK
    <3>3. Content(held) = Content(AssessClusterOperator(seen, cv.desired, EmptyStatus, 0))
      BY <3>1, <3>2, AssessmentGives
    <3>4. CASE o \in dirty \cup unseen
      BY <1>1, <3>4 DEF Good, Pending, objects
    <3>5. CASE o \notin dirty \cup unseen
      <4>1. held = insights[o] /\ seen = co[o]
        BY <1>4, <2>1, <3>5 DEF Following
      <4>2. Assessed(o)
        BY <2>1, <3>1, <3>3, <4>1 DEF Assessed
      <4> QED
        BY <1>1, <4>2 DEF Good, Assessed, world, objects
    <3> QED
      BY <3>4, <3>5
  <2> QED
    BY <2>2, <2>3
<1> QED
  BY <1>2, <1>3, <1>4

LEMMA CallGood ==
  ASSUME TypeOK, NEW o \in Operator, Good(o),
         DeleteInsight \/ CreateInsight \/ UpdateStatus \/ CallFails
  PROVE  Good(o)'
<1>1. UNCHANGED <<world, listing, unheard>> /\ item \in Operator
  BY CallEffect
<1>2. CASE item = o
  <2>1. CASE Retry
    BY <1>2, <2>1 DEF Retry, Good, Pending
  <2>2. CASE ~Retry
    <3>1. o \in unseen'
      BY <1>1, <1>2, <2>2, CallEffect, WriteLeaves
    <3> QED
      BY <3>1 DEF Good, Pending
  <2> QED
    BY <2>1, <2>2
<1>3. CASE item # o
  <2>1. insights'[o] = insights[o] /\ (o \in unseen => o \in unseen')
    BY <1>1, <1>3, CallEffect, WriteLeaves DEF objects
  <2>2. o \in dirty => o \in dirty'
    BY CallEffect DEF Retry, Done
  <2> QED
    BY <1>1, <1>3, <2>1, <2>2 DEF Good, Pending, Assessed, world
<1> QED
  BY <1>2, <1>3

LEMMA NextGood ==
  ASSUME TypeOK, [Next]_vars, NEW o \in Operator, Following(o), Good(o)
  PROVE  Good(o)'
<1>1. CASE ChangeClusterVersion \/ ListOperators \/ ListFails \/ Tick \/ Resync
           \/ \E m \in Operator : ChangeOperator(m) \/ Sync(m)
  BY <1>1, WorldGood
<1>2. ASSUME NEW m \in Operator, Reconcile(m) PROVE Good(o)'
  <2>1. item = None
    BY <1>2 DEF Reconcile, TypeOK
  <2> QED
    BY <1>2, <2>1, InsightAssumption
    DEF Reconcile, Good, Pending, Assessed, world, objects
<1>3. CASE GetInsight
  BY <1>3, GetGood
<1>4. CASE Assess
  BY <1>4, AssessGood
<1>5. CASE DeleteInsight \/ CreateInsight \/ UpdateStatus \/ CallFails
  BY <1>5, CallGood
<1>6. ASSUME NEW m \in Operator, Meddle(m) PROVE Good(o)'
  <2>1. PICK new \in {None, EmptyStatus} : Write(m, new)
    BY <1>6 DEF Meddle
  <2>2. UNCHANGED <<world, listing, dirty, item, unheard>>
    BY <1>6 DEF Meddle
  <2> QED
    BY <2>1, <2>2, WriteLeaves DEF Good, Pending, Assessed, world
<1>7. CASE Restart
  BY <1>7 DEF Restart, Good, Pending, Assessed, Present, world
<1>8. CASE UNCHANGED vars
  BY <1>8 DEF Good, Pending, Assessed, vars, world, objects, worker
<1> QED
  BY <1>1, <1>2, <1>3, <1>4, <1>5, <1>6, <1>7, <1>8 DEF Next, Work

NothingForgotten == \A o \in Operator : Following(o) /\ Good(o)

LEMMA NothingForgottenAlways == Spec => [](TypeOK /\ NothingForgotten)
<1>1. Init => NothingForgotten
  BY InitFollowing, InitGood DEF NothingForgotten
<1>2. TypeOK /\ NothingForgotten /\ [Next]_vars => NothingForgotten'
  BY NextFollowing, NextGood DEF NothingForgotten
<1> QED
  BY <1>1, <1>2, InitTypeOK, NextTypeOK, PTL DEF Spec

\* QuietMeansAssessed: whatever the interleaving of events, lagging reads, failures,
\* other writers and restarts, an insight about which nothing is on its way says what
\* it would now be given, but for an event that was lost with a failed list.
THEOREM AssessedCorrect == Spec => []QuietMeansAssessed
<1>1. NothingForgotten => QuietMeansAssessed
  BY DEF NothingForgotten, Good, Pending, QuietMeansAssessed, Quiet
<1> QED
  BY <1>1, NothingForgottenAlways, PTL

\* An insight that says what it should says Updated where the version is the target's.
LEMMA AssessedSays ==
  ASSUME TypeOK, NEW o \in Present, Assessed(o)
  PROVE  insights[o].updating.why = "Updated" <=> VersionUpdated(co[o], cv.desired)
<1> DEFINE due == AssessClusterOperator(co[o], cv.desired, EmptyStatus, 0)
<1>1. o \in Operator /\ co[o] # None
  BY DEF Present
<1>2. insights[o] \in Statuses /\ Content(insights[o]) = Content(due)
  BY <1>1 DEF Assessed, TypeOK
<1>3. EmptyStatus \in Statuses
  BY DEF EmptyStatus, Statuses
<1>4. /\ due \in Statuses /\ due.updating \in Verdicts
      /\ due.updating.why = "Updated" <=> VersionUpdated(co[o], cv.desired)
  BY <1>3, AssessmentGives
<1> HIDE DEF due
<1>5. /\ insights[o].updating \in Verdicts \cup {None}
      /\ DOMAIN insights[o] = {"updating", "healthy"} /\ DOMAIN due = {"updating", "healthy"}
  BY <1>2, <1>4 DEF Statuses
<1>6. (IF insights[o].updating = None THEN None ELSE [insights[o].updating EXCEPT !.since = 0])
        = (IF due.updating = None THEN None ELSE [due.updating EXCEPT !.since = 0])
  <2>1. Content(insights[o])["updating"] = Content(due)["updating"]
    BY <1>2
  <2> QED
    BY <1>5, <2>1 DEF Content
<1>7. due.updating # None
  BY <1>4, InsightAssumption
<1>8. [due.updating EXCEPT !.since = 0] \in Verdicts
  BY <1>4 DEF Verdicts
<1>9. insights[o].updating # None
  BY <1>6, <1>7, <1>8, InsightAssumption
<1>10. insights[o].updating.why = due.updating.why
  <2>1. [insights[o].updating EXCEPT !.since = 0].why = [due.updating EXCEPT !.since = 0].why
    BY <1>6, <1>7, <1>9
  <2> QED
    BY <1>4, <1>5, <1>9, <2>1 DEF Verdicts
<1> QED
  BY <1>4, <1>10

\* CountsAgree: the operators whose insight says Updated are those that the completion
\* of the cluster version's insight counts, when nothing is on its way.
THEOREM CountsCorrect == Spec => []CountsAgree
<1>1. TypeOK /\ QuietMeansAssessed => CountsAgree
  <2> SUFFICES ASSUME TypeOK, QuietMeansAssessed, cv # None, unheard = {},
                      \A o \in Operator : Quiet(o)
               PROVE  {o \in Operator : insights[o] # None /\ insights[o].updating.why = "Updated"}
                        = Updated(cv, Versions)
    BY DEF CountsAgree
  <2>1. \A o \in Operator : Assessed(o)
    BY DEF QuietMeansAssessed
  <2>2. \A o \in Operator : insights[o] # None <=> o \in Present
    BY <2>1 DEF Assessed, Present
  <2>3. \A o \in Present :
          insights[o].updating.why = "Updated" <=> VersionUpdated(co[o], cv.desired)
    BY <2>1, AssessedSays DEF Present
  <2>4. Updated(cv, Versions) = {o \in Present : VersionUpdated(co[o], cv.desired)}
    BY DEF Updated, Versions, VersionUpdated
  <2>5. Present \subseteq Operator
    BY DEF Present
  <2> QED
    BY <2>2, <2>3, <2>4, <2>5
<1> QED
  BY <1>1, TypeCorrect, AssessedCorrect, PTL

-----------------------------------------------------------------------------
(* Transition times.  An update is stored only where nothing was written   *)
(* since the worker read the insight, so the times it kept are those of    *)
(* the insight it replaces.                                                *)

HeldIsStored == current => item # None /\ held = insights[item]

PlanKeepsTimes ==
  pc = "update" =>
    \A c \in {"updating", "healthy"} :
      held[c] # None /\ held[c].status = plan[c].status => held[c].since = plan[c].since

LEMMA NextHeld ==
  ASSUME TypeOK, NothingForgotten, HeldIsStored, [Next]_vars
  PROVE  HeldIsStored'
<1>1. CASE ChangeClusterVersion \/ ListOperators \/ ListFails \/ Tick \/ Resync
           \/ \E o \in Operator : ChangeOperator(o) \/ Sync(o)
  BY <1>1
  DEF HeldIsStored, ChangeClusterVersion, ListOperators, ListFails, Tick, Resync,
      ChangeOperator, Sync, world, objects, worker
<1>2. ASSUME NEW o \in Operator, Reconcile(o) PROVE HeldIsStored'
  BY <1>2 DEF HeldIsStored, Reconcile, TypeOK
<1>3. CASE GetInsight
  <2>1. item \in Operator
    BY <1>3, WorkerHas DEF GetInsight
  <2>2. item \notin unseen => copies[item] = insights[item]
    BY <2>1 DEF NothingForgotten, Following
  <2> QED
    BY <1>3, <2>1, <2>2, InsightAssumption
    DEF HeldIsStored, GetInsight, Done, Stop, objects
<1>4. CASE Assess
  BY <1>4 DEF HeldIsStored, Assess, Done, Stop, objects
<1>5. CASE DeleteInsight \/ CreateInsight \/ UpdateStatus \/ CallFails
  <2>1. CASE Retry \/ Done
    BY <2>1 DEF Retry, Done, Stop, HeldIsStored
  <2>2. CASE ~(Retry \/ Done)
    <3>1. /\ Write(item, EmptyStatus) /\ item \in Operator
          /\ item' = item /\ held' = EmptyStatus
      BY <1>5, <2>2, CallEffect
    <3> QED
      BY <3>1, WriteLeaves, InsightAssumption DEF HeldIsStored
  <2> QED
    BY <2>1, <2>2
<1>6. ASSUME NEW o \in Operator, Meddle(o) PROVE HeldIsStored'
  <2>1. PICK new \in {None, EmptyStatus} : Write(o, new)
    BY <1>6 DEF Meddle
  <2>2. current' = (current /\ o # item) /\ UNCHANGED <<item, held>>
    BY <1>6 DEF Meddle
  <2> QED
    BY <2>1, <2>2, WriteLeaves DEF HeldIsStored, TypeOK
<1>7. CASE Restart
  BY <1>7 DEF HeldIsStored, Restart, Stop
<1>8. CASE UNCHANGED vars
  BY <1>8 DEF HeldIsStored, vars, objects, worker
<1> QED
  BY <1>1, <1>2, <1>3, <1>4, <1>5, <1>6, <1>7, <1>8 DEF Next, Work

LEMMA NextPlan ==
  ASSUME TypeOK, PlanKeepsTimes, [Next]_vars
  PROVE  PlanKeepsTimes'
<1>1. CASE ChangeClusterVersion \/ ListOperators \/ ListFails \/ Tick \/ Resync
           \/ \E o \in Operator : ChangeOperator(o) \/ Sync(o) \/ Meddle(o)
  BY <1>1
  DEF PlanKeepsTimes, ChangeClusterVersion, ListOperators, ListFails, Tick, Resync,
      ChangeOperator, Sync, Meddle, worker
<1>2. CASE Assess
  <2>1. CASE pc' # "update"
    BY <2>1 DEF PlanKeepsTimes
  <2>2. CASE pc' = "update"
    <3>1. held # None /\ held' = held
          /\ plan' = AssessClusterOperator(seen, cv.desired, held, clock)
      BY <1>2, <2>2 DEF Assess, Done, Stop
    <3>2. held \in Statuses /\ clock \in Nat
      BY <3>1 DEF TypeOK
    <3> QED
      BY <3>1, <3>2, AssessmentGives DEF PlanKeepsTimes
  <2> QED
    BY <2>1, <2>2
<1>3. CASE GetInsight \/ Restart \/ \E o \in Operator : Reconcile(o)
  BY <1>3 DEF PlanKeepsTimes, GetInsight, Restart, Reconcile, Done, Stop
<1>4. CASE DeleteInsight \/ CreateInsight \/ UpdateStatus \/ CallFails
  <2>1. CASE Retry \/ Done
    BY <2>1 DEF Retry, Done, Stop, PlanKeepsTimes
  <2>2. CASE ~(Retry \/ Done)
    <3>1. held' = EmptyStatus
      BY <1>4, <2>2, CallEffect
    <3> QED
      BY <3>1 DEF PlanKeepsTimes, EmptyStatus
  <2> QED
    BY <2>1, <2>2
<1>5. CASE UNCHANGED vars
  BY <1>5 DEF PlanKeepsTimes, vars, worker
<1> QED
  BY <1>1, <1>2, <1>3, <1>4, <1>5 DEF Next, Work

\* What one step does to the times of an insight.
TimesKept(o) ==
  insights[o] # None /\ insights'[o] # None =>
    \A c \in {"updating", "healthy"} :
      LET old == insights[o][c]  new == insights'[o][c]
      IN  old # None /\ new # None /\ old.status = new.status => old.since = new.since

LEMMA StepKeepsTimes ==
  ASSUME TypeOK, HeldIsStored, PlanKeepsTimes, [Next]_vars, NEW o \in Operator
  PROVE  TimesKept(o)
<1>1. CASE insights'[o] = insights[o]
  BY <1>1 DEF TimesKept
<1>2. ASSUME NEW m \in Operator, NEW new \in {None, EmptyStatus}, Write(m, new)
      PROVE  TimesKept(o)
  <2>1. insights'[o] = insights[o] \/ insights'[o] \in {None, EmptyStatus}
    BY <1>2, WriteLeaves
  <2> QED
    BY <1>1, <2>1 DEF TimesKept, EmptyStatus
<1>3. CASE UpdateStatus
  <2>1. item \in Operator /\ pc = "update"
    BY <1>3, WorkerHas DEF UpdateStatus
  <2>2. CASE UNCHANGED objects
    BY <1>1, <2>2 DEF objects
  <2>3. CASE ~UNCHANGED objects
    <3>1. current /\ Write(item, plan)
      BY <1>3, <2>3 DEF UpdateStatus
    <3>2. CASE item # o
      BY <1>1, <2>1, <3>1, <3>2, WriteLeaves
    <3>3. CASE item = o
      <4>1. insights'[o] = plan /\ insights[o] = held
        BY <2>1, <3>1, <3>3, WriteLeaves DEF HeldIsStored
      <4> QED
        BY <2>1, <4>1 DEF PlanKeepsTimes, TimesKept
    <3> QED
      BY <3>2, <3>3
  <2> QED
    BY <2>2, <2>3
<1>4. CASE DeleteInsight \/ CreateInsight
  <2>1. item \in Operator
    BY <1>4, WorkerHas DEF DeleteInsight, CreateInsight
  <2> QED
    BY <1>1, <1>2, <1>4, <2>1 DEF DeleteInsight, CreateInsight, objects
<1>5. ASSUME NEW m \in Operator, Meddle(m) PROVE TimesKept(o)
  BY <1>2, <1>5 DEF Meddle
<1>6. CASE ChangeClusterVersion \/ ListOperators \/ ListFails \/ Tick \/ Resync
           \/ CallFails \/ Restart \/ GetInsight \/ Assess
           \/ \E m \in Operator : ChangeOperator(m) \/ Sync(m) \/ Reconcile(m)
  BY <1>1, <1>6
  DEF ChangeClusterVersion, ListOperators, ListFails, Tick, Resync, CallFails, Restart,
      GetInsight, Assess, ChangeOperator, Sync, Reconcile, objects
<1>7. CASE UNCHANGED vars
  BY <1>1, <1>7 DEF vars, objects
<1> QED
  BY <1>3, <1>4, <1>5, <1>6, <1>7 DEF Next, Work

\* TransitionTimesKept: a transition time moves only with the status of its condition,
\* although the assessment takes it from a copy that may be stale.
THEOREM TimesCorrect == Spec => TransitionTimesKept
<1>1. Init => HeldIsStored /\ PlanKeepsTimes
  BY DEF Init, HeldIsStored, PlanKeepsTimes
<1>2. TypeOK /\ NothingForgotten /\ HeldIsStored /\ PlanKeepsTimes /\ [Next]_vars
        => HeldIsStored' /\ PlanKeepsTimes'
  BY NextHeld, NextPlan
<1>3. TypeOK /\ HeldIsStored /\ PlanKeepsTimes /\ [Next]_vars
        => [\A o \in Operator : TimesKept(o)]_vars
  BY StepKeepsTimes
<1>4. (\A o \in Operator : TimesKept(o)) <=>
        \A o \in Operator : insights[o] # None /\ insights'[o] # None =>
          \A c \in {"updating", "healthy"} :
            LET old == insights[o][c]  new == insights'[o][c]
            IN  old # None /\ new # None /\ old.status = new.status => old.since = new.since
  BY DEF TimesKept
<1> QED
  BY <1>1, <1>2, <1>3, <1>4, NothingForgottenAlways, PTL DEF Spec, TransitionTimesKept
=============================================================================
