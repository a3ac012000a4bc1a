-------------------------- MODULE PoolInsight_proofs --------------------------
(***************************************************************************)
(* Proofs about PoolInsight, for any nodes, pools, states, capacity of the *)
(* channels and number of changes: the types, among them that a completion *)
(* is a percentage, and that an insight which does not summarise the nodes *)
(* of its pool is always on somebody's list.                               *)
(***************************************************************************)
EXTENDS PoolInsight, FiniteSetTheorems, TLAPS

-----------------------------------------------------------------------------
(* What an assessment gives.                                               *)

\* A part of something as a rounded percentage.
LEMMA PercentageType ==
  ASSUME NEW part \in Nat, NEW all \in Nat \ {0}, part <= all
  PROVE  (part * 100) \div all \in 0..100
<1> DEFINE q == (part * 100) \div all
<1>1. q \in Int /\ q * all <= part * 100 /\ part * 100 < (q + 1) * all
  OBVIOUS
<1>2. q >= 0
  <2> SUFFICES ASSUME q <= -1 PROVE FALSE
    BY <1>1
  <2>1. (q + 1) * all <= 0
    BY <1>1
  <2> QED
    BY <1>1, <2>1
<1>3. q <= 100
  <2> SUFFICES ASSUME q >= 101 PROVE FALSE
    BY <1>1
  <2>1. q * all >= 101 * all
    BY <1>1
  <2> QED
    BY <1>1, <2>1
<1> QED
  BY <1>1, <1>2, <1>3

LEMMA CountType ==
  ASSUME NEW members, IsFiniteSet(members), NEW S
  PROVE  Cardinality(S \cap members) \in Nat
<1>1. IsFiniteSet(S \cap members)
  BY FS_Subset
<1> QED
  BY <1>1, FS_CardinalityType

LEMMA SummariesType ==
  ASSUME NEW members, IsFiniteSet(members), NEW state
  PROVE  Summaries(members, state) \in Counts
<1>1. Cardinality(members) \in Nat
  BY FS_CardinalityType
<1> QED
  BY <1>1, CountType DEF Summaries, Counts

LEMMA CompletionType ==
  ASSUME NEW members, IsFiniteSet(members), NEW state
  PROVE  Completion(members, state) \in 0..100
<1>1. CASE members = {}
  BY <1>1 DEF Completion
<1>2. CASE members # {}
  <2>1. Cardinality(members) \in Nat \ {0}
    BY <1>2, FS_CardinalityType, FS_EmptySet
  <2>2. Completed(members, state) \subseteq members
    BY DEF Completed
  <2>3. /\ Cardinality(Completed(members, state)) \in Nat
        /\ Cardinality(Completed(members, state)) <= Cardinality(members)
    BY <2>2, FS_Subset, FS_CardinalityType
  <2> QED
    BY <1>2, <2>1, <2>3, PercentageType DEF Completion
<1> QED
  BY <1>1, <1>2

\* The conditions depend on the time in their times only.
LEMMA ConditionsGiven ==
  ASSUME NEW assessment, NEW summaries, NEW now \in Nat
  PROVE  /\ Updating(assessment, summaries, now) \in Conditions
         /\ [Updating(assessment, summaries, now) EXCEPT !.since = 0]
              = Updating(assessment, summaries, 0)
         /\ Healthy(assessment, summaries, now) \in Conditions
         /\ [Healthy(assessment, summaries, now) EXCEPT !.since = 0]
              = Healthy(assessment, summaries, 0)
<1>1. ASSUME NEW status \in {"True", "False", "Unknown"}, NEW why \in Reasons
      PROVE  Condition(status, why, now) \in Conditions
  BY DEF Condition, Conditions
<1>2. Updating(assessment, summaries, now) \in Conditions
  <2>1. \/ Updating(assessment, summaries, now) = Condition("True", "Progressing", now)
        \/ Updating(assessment, summaries, now) = Condition("False", "Updated", now)
        \/ Updating(assessment, summaries, now) = Condition("False", "Paused", now)
        \/ Updating(assessment, summaries, now) = Condition("False", "Pending", now)
    BY DEF Updating
  <2> QED
    BY <1>1, <2>1 DEF Reasons
<1>3. Healthy(assessment, summaries, now) \in Conditions
  <2>1. \/ Healthy(assessment, summaries, now) = Condition("False", "NodesDegraded", now)
        \/ Healthy(assessment, summaries, now) = Condition("True", "AllNodesUpdated", now)
        \/ Healthy(assessment, summaries, now) = Condition("True", "Paused", now)
        \/ Healthy(assessment, summaries, now) = Condition("True", "NoNodes", now)
        \/ Healthy(assessment, summaries, now) = Condition("True", "NoProblems", now)
    BY DEF Healthy
  <2> QED
    BY <1>1, <2>1 DEF Reasons
<1>4. [Updating(assessment, summaries, now) EXCEPT !.since = 0]
        = Updating(assessment, summaries, 0)
  BY DEF Updating, Condition
<1>5. [Healthy(assessment, summaries, now) EXCEPT !.since = 0]
        = Healthy(assessment, summaries, 0)
  BY DEF Healthy, Condition
<1> QED
  BY <1>2, <1>3, <1>4, <1>5

LEMMA SetType ==
  ASSUME NEW old \in Conditions, NEW new \in Conditions
  PROVE  /\ SetStatusCondition(old, new) \in Conditions
         /\ [SetStatusCondition(old, new) EXCEPT !.since = 0] = [new EXCEPT !.since = 0]
BY DEF SetStatusCondition, Conditions

LEMMA AssessmentType ==
  ASSUME NEW isPaused, NEW members, NEW state
  PROVE  Assessment(isPaused, members, state) \in Assessments
BY DEF Assessment, Assessments

LEMMA EmptyType == EmptyStatus \in Statuses
<1>1. Summaries({}, <<>>) \in Counts
  BY FS_EmptySet, SummariesType
<1>2. Unset \in Conditions
  BY DEF Unset, Condition, Conditions, Reasons
<1> QED
  BY <1>1, <1>2 DEF EmptyStatus, Statuses, Assessments

LEMMA AssessPoolType ==
  ASSUME NEW isPaused, NEW members, IsFiniteSet(members), NEW state,
         NEW previous \in Statuses, NEW now \in Nat
  PROVE  AssessPool(isPaused, members, state, previous, now) \in Statuses
<1> DEFINE assessment == Assessment(isPaused, members, state)
           summaries  == Summaries(members, state)
<1>1. previous.updating \in Conditions /\ previous.healthy \in Conditions
  BY DEF Statuses
<1>2. /\ assessment \in Assessments
      /\ summaries \in Counts
      /\ Completion(members, state) \in 0..100
  BY AssessmentType, SummariesType, CompletionType
<1>3. /\ SetStatusCondition(previous.updating, Updating(assessment, summaries, now)) \in Conditions
      /\ SetStatusCondition(previous.healthy, Healthy(assessment, summaries, now)) \in Conditions
  BY <1>1, ConditionsGiven, SetType
<1> QED
  BY <1>2, <1>3 DEF AssessPool, Statuses

\* Only the states of the members count.
LEMMA MembersCount ==
  ASSUME NEW isPaused, NEW members, NEW s, NEW t, \A n \in members : s[n] = t[n]
  PROVE  /\ Assessment(isPaused, members, s) = Assessment(isPaused, members, t)
         /\ Summaries(members, s) = Summaries(members, t)
         /\ Completion(members, s) = Completion(members, t)
<1>1. Summaries(members, s) = Summaries(members, t)
  BY DEF Summaries
<1>2. Completed(members, s) = Completed(members, t)
  BY DEF Completed
<1>3. Active(members, s) <=> Active(members, t)
  BY DEF Active
<1> QED
  BY <1>1, <1>2, <1>3 DEF Assessment, Completion

LEMMA ContentIs ==
  ASSUME NEW x, NEW y,
         DOMAIN x = {"assessment", "completion", "summaries", "updating", "healthy"},
         DOMAIN y = DOMAIN x,
         x.assessment = y.assessment, x.completion = y.completion,
         x.summaries = y.summaries,
         [x.updating EXCEPT !.since = 0] = [y.updating EXCEPT !.since = 0],
         [x.healthy EXCEPT !.since = 0] = [y.healthy EXCEPT !.since = 0]
  PROVE  Content(x) = Content(y)
<1>1. \A f \in DOMAIN x :
        (IF f \in {"updating", "healthy"} THEN [x[f] EXCEPT !.since = 0] ELSE x[f])
          = (IF f \in {"updating", "healthy"} THEN [y[f] EXCEPT !.since = 0] ELSE y[f])
  OBVIOUS
<1> QED
  BY <1>1 DEF Content

\* But for times, an assessment depends on whether the pool is paused and on the
\* states of its members only.
LEMMA SameContent ==
  ASSUME NEW isPaused, NEW members, IsFiniteSet(members), NEW s, NEW t,
         \A n \in members : s[n] = t[n],
         NEW previous \in Statuses, NEW now \in Nat
  PROVE  Content(AssessPool(isPaused, members, s, previous, now))
           = Content(AssessPool(isPaused, members, t, EmptyStatus, 0))
<1> DEFINE assessment == Assessment(isPaused, members, s)
           summaries  == Summaries(members, s)
           completion == Completion(members, s)
           verdict    == Updating(assessment, summaries, 0)
           health     == Healthy(assessment, summaries, 0)
           due        == [assessment |-> assessment, completion |-> completion,
                          summaries |-> summaries, updating |-> verdict, healthy |-> health]
<1>1. ASSUME NEW old \in Statuses, NEW at \in Nat, NEW state,
             \A n \in members : s[n] = state[n]
      PROVE  Content(AssessPool(isPaused, members, state, old, at)) = Content(due)
  <2> DEFINE verdictNow == Updating(assessment, summaries, at)
             healthNow  == Healthy(assessment, summaries, at)
             u == SetStatusCondition(old.updating, verdictNow)
             h == SetStatusCondition(old.healthy, healthNow)
  <2>1. old.updating \in Conditions /\ old.healthy \in Conditions
    BY DEF Statuses
  <2>2. /\ verdictNow \in Conditions /\ healthNow \in Conditions
        /\ [verdictNow EXCEPT !.since = 0] = [verdict EXCEPT !.since = 0]
        /\ [healthNow EXCEPT !.since = 0] = [health EXCEPT !.since = 0]
    <3>1. [verdictNow EXCEPT !.since = 0] = verdict /\ [healthNow EXCEPT !.since = 0] = health
      BY ConditionsGiven
    <3>2. [verdict EXCEPT !.since = 0] = verdict /\ [health EXCEPT !.since = 0] = health
      BY ConditionsGiven
    <3>3. verdictNow \in Conditions /\ healthNow \in Conditions
      BY ConditionsGiven
    <3> QED
      BY <3>1, <3>2, <3>3
  <2>3. /\ Assessment(isPaused, members, state) = assessment
        /\ Summaries(members, state) = summaries
        /\ Completion(members, state) = completion
    BY <1>1, MembersCount
  <2>4. AssessPool(isPaused, members, state, old, at)
          = [assessment |-> assessment, completion |-> completion, summaries |-> summaries,
             updating |-> u, healthy |-> h]
    BY <2>3 DEF AssessPool
  <2> HIDE DEF verdictNow, healthNow, verdict, health
  <2>5. [u EXCEPT !.since = 0] = [verdictNow EXCEPT !.since = 0]
    BY <2>1, <2>2, SetType
  <2>6. [h EXCEPT !.since = 0] = [healthNow EXCEPT !.since = 0]
    BY <2>1, <2>2, SetType
  <2> HIDE DEF u, h, assessment, summaries, completion
  <2>7. /\ [u EXCEPT !.since = 0] = [verdict EXCEPT !.since = 0]
        /\ [h EXCEPT !.since = 0] = [health EXCEPT !.since = 0]
    BY <2>2, <2>5, <2>6
  <2> DEFINE x == AssessPool(isPaused, members, state, old, at)
  <2>8. /\ DOMAIN x = {"assessment", "completion", "summaries", "updating", "healthy"}
        /\ x.assessment = assessment /\ x.completion = completion
        /\ x.summaries = summaries /\ x.updating = u /\ x.healthy = h
    BY <2>4
  <2>9. /\ DOMAIN due = {"assessment", "completion", "summaries", "updating", "healthy"}
        /\ due.assessment = assessment /\ due.completion = completion
        /\ due.summaries = summaries /\ due.updating = verdict /\ due.healthy = health
    OBVIOUS
  <2> HIDE DEF x, due
  <2>10. Content(x) = Content(due)
    BY <2>7, <2>8, <2>9, ContentIs
  <2> QED
    BY <2>10 DEF x
<1> QED
  BY <1>1, EmptyType

-----------------------------------------------------------------------------
(* Types.                                                                  *)

Specs == [paused : BOOLEAN]

LEMMA MembersFinite ==
  ASSUME NEW p
  PROVE  IsFiniteSet(Members(p)) /\ Members(p) \subseteq Node
<1>1. Members(p) \subseteq Node
  BY DEF Members
<1> QED
  BY <1>1, FS_Subset, PoolInsightAssumption

LEMMA InitTypeOK == Init => TypeOK
<1> SUFFICES ASSUME Init PROVE TypeOK
  OBVIOUS
<1>1. /\ store \in [Node -> State \cup {None}]
      /\ nodeChan \in Seq(Node) /\ poolChan \in Seq(Pool)
      /\ announcing \in [node : Node \cup {None}, pool : Pool \cup {None}]
  BY DEF Init, ProviderInit, Nothing
<1>2. /\ pools \in [Pool -> Specs \cup {None}] /\ poolEvents \subseteq Pool
  <2>1. [paused |-> FALSE] \in Specs
    BY DEF Specs
  <2>2. pools \in [Pool -> Specs \cup {None}]
    BY <2>1 DEF Init
  <2> QED
    BY <2>2 DEF Init, Existing
<1>3. /\ insights \in [Pool -> Statuses \cup {None}] /\ cached \in [Pool -> Statuses \cup {None}]
      /\ dirty \subseteq Pool
  BY EmptyType DEF Init, Existing
<1>4. unseen = {} /\ unheard = {} /\ clock \in 1..MaxClock
  BY PoolInsightAssumption DEF Init
<1>5. /\ pc = "idle" /\ item = None /\ spec = None /\ copy = None /\ current = FALSE
      /\ changes = 0
  BY DEF Init
<1> QED
  BY <1>1, <1>2, <1>3, <1>4, <1>5 DEF TypeOK, Specs

LEMMA WriteType ==
  ASSUME TypeOK, NEW p \in Pool, NEW status \in Statuses \cup {None}, Write(p, status)
  PROVE  /\ insights' \in [Pool -> Statuses \cup {None}]
         /\ cached' \in [Pool -> Statuses \cup {None}]
         /\ unseen' \subseteq Pool
BY DEF TypeOK, Write

\* A bounded change of the outside world, or none.
LEMMA ChangeType ==
  ASSUME TypeOK, Change \/ UNCHANGED changes
  PROVE  changes' \in Nat
BY DEF TypeOK, Change

\* A worker that stops is idle, with the pool it had back in the queue or not.
LEMMA StopType ==
  ASSUME TypeOK, item \in Pool, Done \/ Retry
  PROVE  /\ dirty' \subseteq Pool
         /\ pc' = "idle" /\ item' = None /\ spec' = None /\ copy' = None
         /\ current' = FALSE /\ plan' = None
BY DEF TypeOK, Done, Retry, Stop

\* A worker that is not idle has a pool.
LEMMA WorkerHas ==
  ASSUME TypeOK, pc # "idle"
  PROVE  item \in Pool
BY DEF TypeOK

\* A channel takes what is offered, or drops it; taking gives what is in it.
LEMMA OfferType ==
  ASSUME NEW S, NEW channel \in Seq(S), NEW x \in S
  PROVE  Offer(channel, x) \in Seq(S)
BY DEF Offer

LEMMA StoreTypeOK ==
  ASSUME TypeOK, NEW n \in Node, PublishState(n) \/ RemoveState(n)
  PROVE  TypeOK'
<1>0. \A s \in State \cup {None} : s # None => s \in State /\ s.pool \in Pool
  BY PoolInsightAssumption
<1>1. store[n] # None => store[n].pool \in Pool
  BY <1>0 DEF TypeOK
<1>2. changes' \in Nat
  BY ChangeType DEF PublishState, RemoveState
<1>3. CASE PublishState(n)
  <2>1. PICK s \in State : store' = [store EXCEPT ![n] = s]
    BY <1>3 DEF PublishState
  <2>2. store'[n] = s /\ s.pool \in Pool /\ store' \in [Node -> State \cup {None}]
    BY <2>1, PoolInsightAssumption DEF TypeOK
  <2>3. announcing' \in [node : Node \cup {None}, pool : Pool \cup {None}]
    BY <1>3, <2>2 DEF PublishState, Publish
  <2>4. unheard' \subseteq Pool
    BY <1>1, <1>3 DEF PublishState, TypeOK
  <2> QED
    BY <1>2, <1>3, <2>2, <2>3, <2>4 DEF TypeOK, PublishState, Publish, objects, worker
<1>4. CASE RemoveState(n)
  <2>1. store' \in [Node -> State \cup {None}] /\ unheard' \subseteq Pool
    BY <1>1, <1>4 DEF RemoveState, Remove, TypeOK
  <2> QED
    BY <1>2, <1>4, <2>1 DEF TypeOK, RemoveState, Remove, objects, worker
<1> QED
  BY <1>3, <1>4

LEMMA ChannelTypeOK ==
  ASSUME TypeOK, AnnounceToNodes \/ AnnounceToPools \/ ReceiveForNodes \/ Receive
  PROVE  TypeOK'
<1>1. CASE AnnounceToNodes
  <2>1. announcing.node \in Node
    BY <1>1 DEF TypeOK, AnnounceToNodes, AnnounceNode
  <2>2. nodeChan' \in Seq(Node)
    BY <1>1, <2>1, OfferType DEF TypeOK, AnnounceToNodes, AnnounceNode
  <2> QED
    BY <1>1, <2>1, <2>2 DEF TypeOK, AnnounceToNodes, AnnounceNode, objects, worker
<1>2. CASE AnnounceToPools
  <2>1. announcing.pool \in Pool
    BY <1>2 DEF TypeOK, AnnounceToPools, AnnouncePool
  <2>2. poolChan' \in Seq(Pool)
    BY <1>2, <2>1, OfferType DEF TypeOK, AnnounceToPools, AnnouncePool
  <2>3. unheard' \subseteq Pool
    BY <1>2, <2>1 DEF TypeOK, AnnounceToPools
  <2> QED
    BY <1>2, <2>2, <2>3 DEF TypeOK, AnnounceToPools, AnnouncePool, Nothing, objects, worker
<1>3. CASE ReceiveForNodes
  BY <1>3 DEF TypeOK, ReceiveForNodes, TakeNode, objects, worker
<1>4. CASE Receive
  <2>1. Head(poolChan) \in Pool /\ Tail(poolChan) \in Seq(Pool)
    BY <1>4 DEF TypeOK, Receive, TakePool
  <2> QED
    BY <1>4, <2>1 DEF TypeOK, Receive, TakePool, objects, worker
<1> QED
  BY <1>1, <1>2, <1>3, <1>4

\* What else happens outside of the worker.
LEMMA EventTypeOK ==
  ASSUME TypeOK,
         \/ Tick \/ Resync
         \/ \E p \in Pool : HandlePool(p) \/ Sync(p)
         \/ \E p \in Pool, s \in Specs \cup {None} : ChangePool(p, s)
  PROVE  TypeOK'
<1>1. CASE Tick
  <2>1. clock' \in 1..MaxClock
    BY <1>1, PoolInsightAssumption DEF Tick, TypeOK
  <2> QED
    BY <1>1, <2>1 DEF TypeOK, Tick, providerVars, objects, worker
<1>2. CASE Resync
  <2>1. Existing(pools) \subseteq Pool /\ Existing(cached) \subseteq Pool
    BY DEF Existing, TypeOK
  <2> QED
    BY <1>2, <2>1 DEF TypeOK, Resync, providerVars, objects, worker
<1>3. ASSUME NEW p \in Pool, HandlePool(p) PROVE TypeOK'
  BY <1>3 DEF TypeOK, HandlePool, providerVars, objects, worker
<1>4. ASSUME NEW p \in Pool, Sync(p) PROVE TypeOK'
  BY <1>4 DEF TypeOK, Sync, providerVars, worker
<1>5. ASSUME NEW p \in Pool, NEW s \in Specs \cup {None}, ChangePool(p, s) PROVE TypeOK'
  <2>1. changes' \in Nat
    BY <1>5, ChangeType DEF ChangePool
  <2>2. pools' \in [Pool -> [paused : BOOLEAN] \cup {None}] /\ poolEvents' \subseteq Pool
    BY <1>5 DEF ChangePool, TypeOK, Specs
  <2> QED
    BY <1>5, <2>1, <2>2 DEF TypeOK, ChangePool, providerVars, objects, worker
<1> QED
  BY <1>1, <1>2, <1>3, <1>4, <1>5

LEMMA PreviousType ==
  ASSUME TypeOK
  PROVE  Previous \in Statuses
BY EmptyType DEF Previous, TypeOK

\* What the worker reads and computes.
LEMMA AssessedType ==
  ASSUME TypeOK
  PROVE  Assessed \in Statuses
<1>1. clock \in Nat
  BY PoolInsightAssumption DEF TypeOK
<1> QED
  BY <1>1, MembersFinite, PreviousType, AssessPoolType DEF Assessed

LEMMA ReadTypeOK ==
  ASSUME TypeOK, Assess \/ GetInsight \/ \E p \in Pool : Reconcile(p)
  PROVE  TypeOK'
<1>1. ASSUME NEW p \in Pool, Reconcile(p) PROVE TypeOK'
  BY <1>1 DEF TypeOK, Reconcile, providerVars, objects
<1>2. CASE GetInsight
  <2>1. item \in Pool
    BY <1>2, WorkerHas DEF GetInsight
  <2>2. CASE Done
    BY <1>2, <2>1, <2>2, StopType DEF TypeOK, GetInsight, Done, providerVars, objects
  <2>3. CASE ~Done
    BY <1>2, <2>1, <2>3 DEF TypeOK, GetInsight, providerVars, objects
  <2> QED
    BY <2>2, <2>3
<1>3. CASE Assess
  <2>1. item \in Pool /\ pc = "assess" /\ unheard' \subseteq Pool
    BY <1>3, WorkerHas DEF Assess, TypeOK
  <2>2. CASE Done
    BY <1>3, <2>1, <2>2, StopType DEF TypeOK, Assess, Done, providerVars, objects
  <2>3. CASE ~Done
    <3>1. plan' \in Statuses /\ pc' \in {"create", "update"}
      BY <1>3, <2>3, AssessedType DEF Assess
    <3> QED
      BY <1>3, <2>1, <2>3, <3>1 DEF TypeOK, Assess, providerVars, objects
  <2> QED
    BY <2>2, <2>3
<1> QED
  BY <1>1, <1>2, <1>3

\* A worker that calls gives its pool back, or has written its insight.
LEMMA CallEffect ==
  ASSUME TypeOK, DeleteInsight \/ CreateInsight \/ UpdateStatus \/ CallFails
  PROVE  /\ item \in Pool
         /\ UNCHANGED <<providerVars, pools, poolEvents, clock, unheard>>
         /\ Change \/ UNCHANGED changes
         /\ UNCHANGED objects \/ \E s \in Statuses \cup {None} : Write(item, s)
         /\ \/ Retry
            \/ Done /\ pc = "delete" /\ insights[item] # None /\ Write(item, None)
            \/ Done /\ pc = "update" /\ Write(item, plan)
            \/ /\ pc = "create" /\ insights[item] = None /\ Write(item, EmptyStatus)
               /\ pc' = "update" /\ current' = TRUE
               /\ UNCHANGED <<item, spec, copy, plan, dirty>>
<1>1. item \in Pool
  BY WorkerHas DEF DeleteInsight, CreateInsight, UpdateStatus, CallFails
<1>2. UNCHANGED <<providerVars, pools, poolEvents, clock, unheard>>
  BY DEF DeleteInsight, CreateInsight, UpdateStatus, CallFails
<1>3. CASE DeleteInsight
  BY <1>1, <1>2, <1>3 DEF DeleteInsight, Answered
<1>4. CASE CreateInsight
  BY <1>1, <1>2, <1>4, EmptyType DEF CreateInsight, Answered
<1>5. CASE UpdateStatus
  <2>1. plan \in Statuses
    BY <1>5 DEF UpdateStatus, TypeOK
  <2> QED
    BY <1>1, <1>2, <1>5, <2>1 DEF UpdateStatus, Answered
<1>6. CASE CallFails
  BY <1>1, <1>2, <1>6 DEF CallFails
<1> QED
  BY <1>3, <1>4, <1>5, <1>6

LEMMA CallTypeOK ==
  ASSUME TypeOK, DeleteInsight \/ CreateInsight \/ UpdateStatus \/ CallFails
  PROVE  TypeOK'
<1>1. /\ item \in Pool /\ changes' \in Nat
      /\ UNCHANGED <<providerVars, pools, poolEvents, clock, unheard>>
  BY CallEffect, ChangeType
<1>2. /\ insights' \in [Pool -> Statuses \cup {None}]
      /\ cached' \in [Pool -> Statuses \cup {None}]
      /\ unseen' \subseteq Pool
  BY CallEffect, WriteType DEF objects, TypeOK
<1>3. CASE Retry \/ Done
  BY <1>1, <1>2, <1>3, StopType DEF TypeOK, providerVars
<1>4. CASE ~(Retry \/ Done)
  <2>1. /\ pc = "create" /\ pc' = "update" /\ current' = TRUE
        /\ UNCHANGED <<item, spec, copy, plan, dirty>>
    BY <1>4, CallEffect
  <2> QED
    BY <1>1, <1>2, <2>1 DEF TypeOK, providerVars
<1> QED
  BY <1>3, <1>4

LEMMA NextTypeOK == TypeOK /\ [Next]_vars => TypeOK'
<1> SUFFICES ASSUME TypeOK, [Next]_vars PROVE TypeOK'
  OBVIOUS
<1>1. ASSUME NEW n \in Node, PublishState(n) \/ RemoveState(n) PROVE TypeOK'
  BY <1>1, StoreTypeOK
<1>2. CASE AnnounceToNodes \/ AnnounceToPools \/ ReceiveForNodes \/ Receive
  BY <1>2, ChannelTypeOK
<1>3. CASE \/ Tick \/ Resync
           \/ \E p \in Pool : HandlePool(p) \/ Sync(p)
           \/ \E p \in Pool, s \in Specs \cup {None} : ChangePool(p, s)
  BY <1>3, EventTypeOK
<1>4. CASE Assess \/ GetInsight \/ \E p \in Pool : Reconcile(p)
  BY <1>4, ReadTypeOK
<1>5. CASE DeleteInsight \/ CreateInsight \/ UpdateStatus \/ CallFails
  BY <1>5, CallTypeOK
<1>6. ASSUME NEW p \in Pool, Meddle(p) PROVE TypeOK'
  <2>1. PICK status \in {None, EmptyStatus} : Write(p, status)
    BY <1>6 DEF Meddle
  <2>2. /\ insights' \in [Pool -> Statuses \cup {None}]
        /\ cached' \in [Pool -> Statuses \cup {None}]
        /\ unseen' \subseteq Pool
    BY <2>1, WriteType, EmptyType
  <2>3. changes' \in Nat
    BY <1>6, ChangeType DEF Meddle
  <2> QED
    BY <1>6, <2>2, <2>3 DEF TypeOK, Meddle, providerVars
<1>7. CASE Restart
  <2>1. changes' \in Nat
    BY <1>7, ChangeType DEF Restart
  <2>2. /\ store' \in [Node -> State \cup {None}]
        /\ nodeChan' \in Seq(Node) /\ poolChan' \in Seq(Pool)
        /\ announcing' \in [node : Node \cup {None}, pool : Pool \cup {None}]
    BY <1>7 DEF Restart, RestartProvider, Nothing
  <2>3. poolEvents' \subseteq Pool /\ dirty' \subseteq Pool
    BY <1>7 DEF Restart, Existing, TypeOK
  <2> QED
    BY <1>7, <2>1, <2>2, <2>3 DEF TypeOK, Restart, Stop
<1>8. CASE UNCHANGED vars
  BY <1>8 DEF TypeOK, vars, providerVars, objects, worker
<1> QED
  BY <1>1, <1>2, <1>3, <1>4, <1>5, <1>6, <1>7, <1>8 DEF Next, Work, Specs

\* Every variable keeps its type (TypeOK), whatever the sizes: the completion of a
\* pool is a percentage, and the worker has read what its place presupposes.
THEOREM TypeCorrect == Spec => []TypeOK
BY InitTypeOK, NextTypeOK, PTL DEF Spec

-----------------------------------------------------------------------------
(* What is due to a pool, and who still has word of it.                    *)

Due(p) == Content(AssessPool(pools[p].paused, Members(p), store, EmptyStatus, 0))

LEMMA RightIs ==
  ASSUME NEW p, NEW status
  PROVE  Right(p, status) <=> IF pools[p] = None THEN status = None
                              ELSE status # None /\ Content(status) = Due(p)
BY DEF Right, Due

\* What is due to a pool changes only with the pool and the states of its members.
LEMMA DueSame ==
  ASSUME NEW p, pools'[p] = pools[p],
         \A n \in Node : store'[n] = store[n] \/ n \notin Members(p) \cup Members(p)'
  PROVE  Due(p)' = Due(p)
<1>1. Members(p)' = Members(p)
  BY DEF Members
<1>2. \A n \in Members(p) : store'[n] = store[n]
  BY <1>1, MembersFinite
<1>3. 0 \in Nat /\ EmptyStatus \in Statuses /\ IsFiniteSet(Members(p))
  BY EmptyType, MembersFinite
<1>4. Content(AssessPool(pools[p].paused, Members(p), store', EmptyStatus, 0))
        = Content(AssessPool(pools[p].paused, Members(p), store, EmptyStatus, 0))
  BY <1>2, <1>3, SameContent
<1> QED
  BY <1>1, <1>4 DEF Due

\* What the worker computes for the pool it read is what is due to it.
LEMMA AssessedIsDue ==
  ASSUME TypeOK, spec = pools[item]
  PROVE  Content(Assessed) = Due(item)
<1>1. clock \in Nat
  BY PoolInsightAssumption DEF TypeOK
<1>2. Content(AssessPool(spec.paused, Members(item), store, Previous, clock))
        = Content(AssessPool(spec.paused, Members(item), store, EmptyStatus, 0))
  BY <1>1, MembersFinite, PreviousType, SameContent
<1> QED
  BY <1>2 DEF Assessed, Due

Announced(p) ==
  \/ p \in unheard \cup poolEvents \cup unseen \cup dirty
  \/ announcing.pool = p
  \/ \E i \in DOMAIN poolChan : poolChan[i] = p

\* What the informer has of an insight is what there is, what the worker has read is,
\* and what it computed is due, or there is word of it on its way.
Following(p) ==
  /\ p \notin unseen => cached[p] = insights[p]
  /\ item = p => spec = pools[p] \/ p \in poolEvents \cup dirty
  /\ item = p /\ pc # "getInsight" => copy = insights[p] \/ p \in unseen \cup dirty
  /\ item = p /\ pc \in {"create", "update"} => Right(p, plan) \/ Announced(p)

Good(p) == Right(p, insights[p]) \/ Announced(p) \/ item = p

\* What is in a sequence stays in it when something is appended, and leaves it
\* only as its head.
LEMMA OfferKeeps ==
  ASSUME NEW S, NEW channel \in Seq(S), NEW x \in S, NEW i \in DOMAIN channel
  PROVE  i \in DOMAIN Offer(channel, x) /\ Offer(channel, x)[i] = channel[i]
BY DEF Offer

LEMMA OfferAdds ==
  ASSUME NEW S, NEW channel \in Seq(S), NEW x \in S, Offer(channel, x) # channel
  PROVE  \E i \in DOMAIN Offer(channel, x) : Offer(channel, x)[i] = x
<1>1. Offer(channel, x) = Append(channel, x)
  BY DEF Offer
<1>2. Len(channel) + 1 \in DOMAIN Append(channel, x)
  OBVIOUS
<1>3. Append(channel, x)[Len(channel) + 1] = x
  OBVIOUS
<1> QED
  BY <1>1, <1>2, <1>3

LEMMA TailKeeps ==
  ASSUME NEW S, NEW channel \in Seq(S), channel # <<>>, NEW i \in DOMAIN channel
  PROVE  \/ channel[i] = Head(channel)
         \/ \E j \in DOMAIN Tail(channel) : Tail(channel)[j] = channel[i]
<1>1. CASE i = 1
  BY <1>1
<1>2. CASE i # 1
  <2>1. i - 1 \in DOMAIN Tail(channel) /\ Tail(channel)[i - 1] = channel[i]
    BY <1>2
  <2> QED
    BY <2>1
<1> QED
  BY <1>1, <1>2

\* A write puts the pool among the unseen, unless it stores what is there.
LEMMA WriteLeaves ==
  ASSUME TypeOK, NEW q \in Pool, NEW status, Write(q, status), NEW p \in Pool
  PROVE  /\ cached' = cached
         /\ p \in unseen => p \in unseen'
         /\ insights'[p] # insights[p] => p \in unseen'
         /\ p # q => insights'[p] = insights[p] /\ (p \in unseen' <=> p \in unseen)
         /\ insights'[q] = status
BY DEF TypeOK, Write

\* A step outside of the worker that leaves what is due to a pool, or leaves word of it.
LEMMA Undisturbed ==
  ASSUME NEW p \in Pool, Following(p), Good(p),
         UNCHANGED <<insights, cached, unseen, worker>>,
         p \in dirty => p \in dirty',
         pools'[p] = pools[p] \/ p \in poolEvents' \cup dirty',
         p \in poolEvents => p \in poolEvents' \cup dirty',
         Announced(p) => Announced(p)',
         (pools'[p] = pools[p] /\ Due(p)' = Due(p)) \/ Announced(p)'
  PROVE  Following(p)' /\ Good(p)'
<1>1. \/ Announced(p)'
      \/ /\ Right(p, plan) <=> Right(p, plan)'
         /\ Right(p, insights[p]) <=> Right(p, insights[p])'
  BY DEF Right, Due, worker
<1>2. Following(p)'
  BY <1>1 DEF Following, worker
<1>3. Good(p)'
  BY <1>1 DEF Good, worker
<1> QED
  BY <1>2, <1>3

\* Publishing a state leaves word for its pool, and a node that changes pools is
\* unheard of in the one that it left.
LEMMA StoreKeeps ==
  ASSUME TypeOK, NEW n \in Node, PublishState(n) \/ RemoveState(n),
         NEW p \in Pool, Following(p), Good(p)
  PROVE  Following(p)' /\ Good(p)'
<1>1. UNCHANGED <<pools, poolEvents, insights, cached, unseen, dirty, worker, poolChan>>
  BY DEF PublishState, Publish, RemoveState, Remove, objects
<1>2. announcing = Nothing /\ announcing.pool # p
  BY PoolInsightAssumption DEF PublishState, Publish, RemoveState, Remove, Nothing
<1>3. unheard \subseteq unheard' /\ (Announced(p) => Announced(p)')
  <2>1. unheard \subseteq unheard'
    BY DEF PublishState, RemoveState
  <2> QED
    BY <1>1, <1>2, <2>1 DEF Announced
<1>4. \A m \in Node : m # n => store'[m] = store[m]
  BY DEF PublishState, Publish, RemoveState, Remove, TypeOK
<1>5. CASE n \in Members(p) \cup Members(p)'
  <2>1. Announced(p)'
    <3>1. CASE PublishState(n)
      <4>1. store'[n] # None /\ announcing'.pool = store'[n].pool
        BY <3>1 DEF PublishState, Publish
      <4>2. CASE store'[n].pool = p
        BY <4>1, <4>2 DEF Announced
      <4>3. CASE store'[n].pool # p
        <5>1. store[n] # None /\ store[n].pool = p
          BY <1>5, <4>3 DEF Members
        <5> QED
          BY <3>1, <4>3, <5>1 DEF PublishState, Announced
      <4> QED
        BY <4>2, <4>3
    <3>2. CASE RemoveState(n)
      <4>1. store'[n] = None
        BY <3>2 DEF RemoveState, Remove, TypeOK
      <4>2. store[n].pool = p
        BY <1>5, <4>1 DEF Members
      <4> QED
        BY <3>2, <4>2 DEF RemoveState, Announced
    <3> QED
      BY <3>1, <3>2
  <2> QED
    BY <1>1, <1>3, <2>1, Undisturbed
<1>6. CASE n \notin Members(p) \cup Members(p)'
  <2>1. Due(p)' = Due(p)
    BY <1>1, <1>4, <1>6, DueSame
  <2> QED
    BY <1>1, <1>3, <2>1, Undisturbed
<1> QED
  BY <1>5, <1>6

\* An announcement that is dropped leaves its pool unheard of.
LEMMA ChannelKeeps ==
  ASSUME TypeOK, AnnounceToNodes \/ AnnounceToPools \/ ReceiveForNodes \/ Receive,
         NEW p \in Pool, Following(p), Good(p)
  PROVE  Following(p)' /\ Good(p)'
<1>1. /\ UNCHANGED <<store, pools, poolEvents, insights, cached, unseen, worker>>
      /\ dirty \subseteq dirty' /\ unheard \subseteq unheard'
  BY DEF AnnounceToNodes, AnnounceNode, AnnounceToPools, AnnouncePool, ReceiveForNodes,
         TakeNode, Receive, TakePool, objects
<1>2. Due(p)' = Due(p)
  BY <1>1, DueSame
<1>3. Announced(p) => Announced(p)'
  <2>1. CASE AnnounceToNodes
    BY <1>1, <2>1 DEF AnnounceToNodes, AnnounceNode, Announced, TypeOK
  <2>2. CASE AnnounceToPools
    <3>1. /\ announcing.pool \in Pool /\ poolChan \in Seq(Pool)
          /\ poolChan' = Offer(poolChan, announcing.pool)
          /\ unheard' = IF poolChan' = poolChan THEN unheard \cup {announcing.pool} ELSE unheard
      BY <2>2 DEF AnnounceToPools, AnnouncePool, TypeOK
    <3>2. ASSUME NEW i \in DOMAIN poolChan, poolChan[i] = p
          PROVE  \E j \in DOMAIN poolChan' : poolChan'[j] = p
      BY <3>1, <3>2, OfferKeeps
    <3>3. CASE announcing.pool = p
      <4>1. CASE poolChan' = poolChan
        BY <3>1, <3>3, <4>1 DEF Announced
      <4>2. CASE poolChan' # poolChan
        BY <3>1, <3>3, <4>2, OfferAdds DEF Announced
      <4> QED
        BY <4>1, <4>2
    <3>4. CASE announcing.pool # p
      BY <1>1, <3>2, <3>4 DEF Announced
    <3> QED
      BY <3>3, <3>4
  <2>3. CASE ReceiveForNodes
    BY <1>1, <2>3 DEF ReceiveForNodes, TakeNode, Announced
  <2>4. CASE Receive
    <3>1. /\ poolChan \in Seq(Pool) /\ poolChan # <<>> /\ poolChan' = Tail(poolChan)
          /\ Head(poolChan) \in dirty' /\ announcing' = announcing
      BY <2>4 DEF Receive, TakePool, TypeOK
    <3>2. ASSUME NEW i \in DOMAIN poolChan, poolChan[i] = p
          PROVE  p \in dirty' \/ \E j \in DOMAIN poolChan' : poolChan'[j] = p
      BY <3>1, <3>2, TailKeeps
    <3> QED
      BY <1>1, <3>1, <3>2 DEF Announced
  <2> QED
    BY <2>1, <2>2, <2>3, <2>4
<1> QED
  BY <1>1, <1>2, <1>3, Undisturbed

LEMMA EventKeeps ==
  ASSUME TypeOK,
         \/ Tick \/ Resync
         \/ \E q \in Pool : HandlePool(q) \/ Sync(q)
         \/ \E q \in Pool, s \in Specs \cup {None} : ChangePool(q, s),
         NEW p \in Pool, Following(p), Good(p)
  PROVE  Following(p)' /\ Good(p)'
<1>1. CASE Tick \/ Resync \/ \E q \in Pool : HandlePool(q)
  <2>1. /\ UNCHANGED <<store, poolChan, announcing, pools, insights, cached, unseen, worker,
                       unheard>>
        /\ dirty \subseteq dirty'
        /\ p \in poolEvents => p \in poolEvents' \cup dirty'
    BY <1>1 DEF Tick, Resync, HandlePool, providerVars, objects
  <2>2. Due(p)' = Due(p)
    BY <2>1, DueSame
  <2>3. Announced(p) => Announced(p)'
    BY <2>1 DEF Announced
  <2> QED
    BY <2>1, <2>2, <2>3, Undisturbed
<1>2. ASSUME NEW q \in Pool, Sync(q) PROVE Following(p)' /\ Good(p)'
  <2>1. /\ UNCHANGED <<store, poolChan, announcing, pools, poolEvents, insights, worker, unheard>>
        /\ dirty' = dirty \cup {q} /\ unseen' = unseen \ {q}
        /\ cached' = [cached EXCEPT ![q] = insights[q]]
    BY <1>2 DEF Sync, providerVars
  <2>2. Due(p)' = Due(p)
    BY <2>1, DueSame
  <2>3. Announced(p) => Announced(p)'
    BY <2>1 DEF Announced
  <2>4. /\ Right(p, plan) <=> Right(p, plan)'
        /\ Right(p, insights[p]) <=> Right(p, insights[p])'
    BY <2>1, <2>2 DEF Right, Due, worker
  <2> QED
    BY <2>1, <2>3, <2>4 DEF Following, Good, TypeOK, worker
<1>3. ASSUME NEW q \in Pool, NEW s \in Specs \cup {None}, ChangePool(q, s)
      PROVE  Following(p)' /\ Good(p)'
  <2>1. /\ UNCHANGED <<store, poolChan, announcing, insights, cached, unseen, dirty, worker,
                       unheard>>
        /\ poolEvents' = poolEvents \cup {q}
        /\ p # q => pools'[p] = pools[p]
    BY <1>3 DEF ChangePool, providerVars, objects, TypeOK
  <2>2. Announced(p) => Announced(p)'
    BY <2>1 DEF Announced
  <2>3. CASE p = q
    <3>1. Announced(p)' /\ p \in poolEvents'
      BY <2>1, <2>3 DEF Announced
    <3> QED
      BY <2>1, <2>2, <3>1, Undisturbed
  <2>4. CASE p # q
    <3>1. pools'[p] = pools[p] /\ Due(p)' = Due(p)
      BY <2>1, <2>4, DueSame
    <3> QED
      BY <2>1, <2>2, <3>1, Undisturbed
  <2> QED
    BY <2>3, <2>4
<1> QED
  BY <1>1, <1>2, <1>3

\* The worker takes a pool from the queue, or looks for its insight.
LEMMA GetKeeps ==
  ASSUME TypeOK, GetInsight \/ \E q \in Pool : Reconcile(q),
         NEW p \in Pool, Following(p), Good(p)
  PROVE  Following(p)' /\ Good(p)'
<1>0. p # None
  BY PoolInsightAssumption
<1>1. UNCHANGED <<store, poolChan, announcing, pools, poolEvents, insights, cached, unseen,
                  unheard>>
  BY DEF GetInsight, Reconcile, providerVars, objects
<1>2. Due(p)' = Due(p)
  BY <1>1, DueSame
<1>3. Right(p, insights[p]) <=> Right(p, insights[p])'
  BY <1>1, <1>2 DEF Right, Due
<1>4. ASSUME NEW q \in Pool, Reconcile(q) PROVE Following(p)' /\ Good(p)'
  <2>1. /\ item = None /\ pc' = "getInsight" /\ item' = q /\ spec' = pools[q]
        /\ dirty' = dirty \ {q}
    BY <1>4 DEF Reconcile, TypeOK
  <2>2. Following(p)'
    BY <1>1, <2>1 DEF Following
  <2>3. CASE p = q
    BY <2>1, <2>2, <2>3 DEF Good
  <2>4. CASE p # q
    <3>1. Announced(p) => Announced(p)'
      BY <1>1, <2>1, <2>4 DEF Announced
    <3> QED
      BY <1>0, <1>3, <2>1, <2>2, <3>1 DEF Good
  <2> QED
    BY <2>3, <2>4
<1>5. CASE GetInsight
  <2>1. dirty' = dirty
    BY <1>5 DEF GetInsight, Done
  <2>2. Announced(p) => Announced(p)'
    BY <1>1, <2>1 DEF Announced
  <2>3. CASE Done
    <3>1. Following(p)'
      BY <1>0, <1>1, <2>3 DEF Done, Stop, Following
    <3>2. CASE item = p
      <4>1. spec = None /\ cached[p] = None
        BY <1>5, <2>3, <3>2, PoolInsightAssumption
        DEF GetInsight, Done, Stop, TypeOK
      <4>2. Right(p, insights[p]) \/ Announced(p)
        BY <3>2, <4>1 DEF Following, Right, Announced
      <4> QED
        BY <1>3, <2>2, <3>1, <4>2 DEF Good
    <3>3. CASE item # p
      BY <1>3, <2>2, <3>1, <3>3 DEF Good
    <3> QED
      BY <3>2, <3>3
  <2>4. CASE ~Done
    <3>1. /\ pc' \in {"delete", "assess"} /\ UNCHANGED <<item, spec>>
          /\ copy' = cached[item]
      BY <1>5, <2>4 DEF GetInsight
    <3> QED
      BY <1>1, <1>3, <2>1, <2>2, <3>1 DEF Following, Good
  <2> QED
    BY <2>3, <2>4
<1> QED
  BY <1>4, <1>5

\* What the worker computes is due to the pool, unless there is word of a change; it
\* does not write an insight that says the same.
LEMMA AssessKeeps ==
  ASSUME TypeOK, Assess, NEW p \in Pool, Following(p), Good(p)
  PROVE  Following(p)' /\ Good(p)'
<1>0. p # None
  BY PoolInsightAssumption
<1>1. /\ UNCHANGED <<store, poolChan, announcing, pools, poolEvents, insights, cached, unseen,
                     dirty>>
      /\ unheard' = unheard \ {item} /\ pc = "assess"
  BY DEF Assess, Done, providerVars, objects
<1>2. Due(p)' = Due(p)
  BY <1>1, DueSame
<1>3. Right(p, insights[p]) <=> Right(p, insights[p])'
  BY <1>1, <1>2 DEF Right, Due
<1>4. CASE item # p
  <2>1. item' # p
    BY <1>0, <1>4 DEF Assess, Done, Stop
  <2>2. Announced(p) => Announced(p)'
    BY <1>1, <1>4 DEF Announced
  <2> QED
    BY <1>1, <1>3, <1>4, <2>1, <2>2 DEF Following, Good
<1>5. CASE item = p
  <2>1. Assessed \in Statuses /\ Assessed # None /\ spec # None
    BY <1>1, AssessedType, PoolInsightAssumption DEF TypeOK
  <2>2. spec = pools[p] \/ p \in poolEvents' \cup dirty'
    BY <1>1, <1>5 DEF Following
  <2>3. spec = pools[p] => pools[p] # None /\ Content(Assessed) = Due(p)
    BY <1>5, <2>1, AssessedIsDue
  <2>4. copy = insights[p] \/ p \in unseen' \cup dirty'
    BY <1>1, <1>5 DEF Following
  <2>5. CASE Done
    <3>1. copy = Assessed
      BY <1>5, <2>5, <1>0 DEF Assess, Done, Stop
    <3>2. Right(p, insights[p]) \/ Announced(p)'
      BY <2>1, <2>2, <2>3, <2>4, <3>1, RightIs DEF Announced
    <3>3. Following(p)'
      BY <1>0, <1>1, <2>5 DEF Following, Done, Stop
    <3> QED
      BY <1>3, <3>2, <3>3 DEF Good
  <2>6. CASE ~Done
    <3>1. plan' = Assessed /\ UNCHANGED <<item, spec, copy>>
      BY <2>6 DEF Assess
    <3>2. Right(p, plan)' \/ Announced(p)'
      <4>1. CASE spec = pools[p]
        <5>1. pools'[p] # None /\ plan' # None /\ Content(plan') = Due(p)'
          BY <1>1, <1>2, <2>1, <2>3, <3>1, <4>1
        <5> QED
          BY <5>1 DEF Right, Due
      <4>2. CASE spec # pools[p]
        BY <2>2, <4>2 DEF Announced
      <4> QED
        BY <4>1, <4>2
    <3>3. Following(p)'
      BY <1>1, <1>5, <2>2, <2>4, <3>1, <3>2 DEF Following
    <3> QED
      BY <1>5, <3>1, <3>3 DEF Good
  <2> QED
    BY <2>5, <2>6
<1> QED
  BY <1>4, <1>5

LEMMA CallKeeps ==
  ASSUME TypeOK, DeleteInsight \/ CreateInsight \/ UpdateStatus \/ CallFails,
         NEW p \in Pool, Following(p), Good(p)
  PROVE  Following(p)' /\ Good(p)'
<1>0. p # None
  BY PoolInsightAssumption
<1>1. /\ UNCHANGED <<store, poolChan, announcing, pools, poolEvents, unheard>> /\ item \in Pool
      /\ UNCHANGED objects \/ \E s \in Statuses \cup {None} : Write(item, s)
  BY CallEffect DEF providerVars
<1>2. Due(p)' = Due(p)
  BY <1>1, DueSame
<1>3. /\ cached' = cached /\ (p \in unseen => p \in unseen')
      /\ insights'[p] # insights[p] => p \in unseen'
      /\ p # item => insights'[p] = insights[p]
  BY <1>1, WriteLeaves DEF objects
<1>4. dirty \subseteq dirty'
  BY CallEffect DEF Retry, Done
<1>5. Announced(p) => Announced(p)'
  BY <1>1, <1>3, <1>4 DEF Announced
<1>6. insights'[p] = insights[p] => (Right(p, insights[p]) <=> Right(p, insights[p])')
  BY <1>1, <1>2 DEF Right, Due
<1>7. CASE Retry \/ Done
  <2>1. Following(p)'
    BY <1>0, <1>3, <1>7 DEF Following, Retry, Done, Stop
  <2>2. CASE item # p
    BY <1>3, <1>5, <1>6, <2>1, <2>2 DEF Good
  <2>3. CASE item = p
    <3>1. CASE Retry
      BY <2>1, <2>3, <3>1 DEF Retry, Good, Announced
    <3>2. CASE Done /\ pc = "delete" /\ insights[item] # None /\ Write(item, None)
      <4>1. insights'[p] = None /\ insights[p] # None
        BY <1>1, <2>3, <3>2, WriteLeaves
      <4> QED
        BY <1>3, <2>1, <4>1 DEF Good, Announced
    <3>3. CASE Done /\ pc = "update" /\ Write(item, plan)
      <4>1. insights'[p] = plan
        BY <1>1, <2>3, <3>3, WriteLeaves
      <4>2. CASE Right(p, plan)
        <5>1. Right(p, insights[p])'
          BY <1>1, <1>2, <4>1, <4>2 DEF Right, Due
        <5> QED
          BY <2>1, <5>1 DEF Good
      <4>3. CASE ~Right(p, plan)
        BY <1>5, <2>1, <2>3, <3>3, <4>3 DEF Following, Good
      <4> QED
        BY <4>2, <4>3
    <3>4. \/ Retry
          \/ Done /\ pc = "delete" /\ insights[item] # None /\ Write(item, None)
          \/ Done /\ pc = "update" /\ Write(item, plan)
      <4>1. Done => item' = None
        BY DEF Done, Stop
      <4> QED
        BY <1>0, <1>7, <2>3, <4>1, CallEffect
    <3> QED
      BY <3>1, <3>2, <3>3, <3>4
  <2> QED
    BY <2>2, <2>3
<1>8. CASE ~(Retry \/ Done)
  <2>1. /\ pc = "create" /\ insights[item] = None /\ Write(item, EmptyStatus)
        /\ pc' = "update" /\ UNCHANGED <<item, spec, copy, plan, dirty>>
    BY <1>8, CallEffect
  <2>2. CASE item # p
    BY <1>1, <1>3, <1>5, <1>6, <2>1, <2>2 DEF Following, Good
  <2>3. CASE item = p
    <3>1. p \in unseen'
      <4>1. insights'[p] = EmptyStatus /\ EmptyStatus # None
        BY <1>1, <2>1, <2>3, WriteLeaves, EmptyType, PoolInsightAssumption
      <4> QED
        BY <1>3, <2>1, <2>3, <4>1
    <3>2. Announced(p)'
      BY <3>1 DEF Announced
    <3> QED
      BY <1>1, <2>1, <2>3, <3>1, <3>2 DEF Following, Good
  <2> QED
    BY <2>2, <2>3
<1> QED
  BY <1>7, <1>8

LEMMA MeddleKeeps ==
  ASSUME TypeOK, NEW q \in Pool, Meddle(q), NEW p \in Pool, Following(p), Good(p)
  PROVE  Following(p)' /\ Good(p)'
<1>1. PICK status \in {None, EmptyStatus} : Write(q, status)
  BY DEF Meddle
<1>2. UNCHANGED <<store, poolChan, announcing, pools, poolEvents, dirty, unheard, pc, item,
                  spec, copy, plan>>
  BY DEF Meddle, providerVars
<1>3. /\ cached' = cached /\ (p \in unseen => p \in unseen')
      /\ insights'[p] # insights[p] => p \in unseen'
  BY <1>1, WriteLeaves
<1>4. Due(p)' = Due(p)
  BY <1>2, DueSame
<1>5. Announced(p) => Announced(p)'
  BY <1>2, <1>3 DEF Announced
<1>6. Right(p, plan) <=> Right(p, plan)'
  BY <1>2, <1>4 DEF Right, Due
<1>7. insights'[p] = insights[p] => (Right(p, insights[p]) <=> Right(p, insights[p])')
  BY <1>2, <1>4 DEF Right, Due
<1>8. Following(p)'
  BY <1>2, <1>3, <1>5, <1>6 DEF Following
<1>9. Good(p)'
  <2>1. CASE insights'[p] = insights[p]
    BY <1>2, <1>5, <1>7, <2>1 DEF Good
  <2>2. CASE insights'[p] # insights[p]
    BY <1>3, <2>2 DEF Good, Announced
  <2> QED
    BY <2>1, <2>2
<1> QED
  BY <1>8, <1>9

\* A new process is told of every pool and every insight.
LEMMA RestartKeeps ==
  ASSUME TypeOK, Restart, NEW p \in Pool
  PROVE  Following(p)' /\ Good(p)'
<1>1. Following(p)'
  BY PoolInsightAssumption DEF Restart, Stop, Following
<1>2. CASE pools[p] # None
  <2>1. p \in poolEvents'
    BY <1>2 DEF Restart, Existing, TypeOK
  <2> QED
    BY <1>1, <2>1 DEF Good, Announced
<1>3. CASE insights[p] # None
  <2>1. p \in dirty'
    BY <1>3 DEF Restart, Existing, TypeOK
  <2> QED
    BY <1>1, <2>1 DEF Good, Announced
<1>4. CASE pools[p] = None /\ insights[p] = None
  BY <1>1, <1>4 DEF Restart, Good, Right
<1> QED
  BY <1>2, <1>3, <1>4

NothingForgotten == \A p \in Pool : Following(p) /\ Good(p)

LEMMA InitKeeps == Init => NothingForgotten
<1> SUFFICES ASSUME Init, NEW p \in Pool PROVE Following(p) /\ Good(p)
  BY DEF NothingForgotten
<1>1. Following(p)
  BY PoolInsightAssumption DEF Init, Following
<1>2. CASE pools[p] # None
  <2>1. DOMAIN pools = Pool
    BY DEF Init
  <2> QED
    BY <1>1, <1>2, <2>1 DEF Init, Existing, Good, Announced
<1>3. CASE insights[p] # None
  <2>1. DOMAIN insights = Pool
    BY DEF Init
  <2> QED
    BY <1>1, <1>3, <2>1 DEF Init, Existing, Good, Announced
<1>4. CASE pools[p] = None /\ insights[p] = None
  BY <1>1, <1>4 DEF Good, Right
<1> QED
  BY <1>2, <1>3, <1>4

LEMMA NextKeeps ==
  ASSUME TypeOK, NothingForgotten, [Next]_vars
  PROVE  NothingForgotten'
<1> SUFFICES ASSUME NEW p \in Pool PROVE Following(p)' /\ Good(p)'
  BY DEF NothingForgotten
<1>0. Following(p) /\ Good(p)
  BY DEF NothingForgotten
<1>1. ASSUME NEW n \in Node, PublishState(n) \/ RemoveState(n)
      PROVE  Following(p)' /\ Good(p)'
  BY <1>0, <1>1, StoreKeeps
<1>2. CASE AnnounceToNodes \/ AnnounceToPools \/ ReceiveForNodes \/ Receive
  BY <1>0, <1>2, ChannelKeeps
<1>3. CASE \/ Tick \/ Resync
           \/ \E q \in Pool : HandlePool(q) \/ Sync(q)
           \/ \E q \in Pool, s \in Specs \cup {None} : ChangePool(q, s)
  BY <1>0, <1>3, EventKeeps
<1>4. CASE GetInsight \/ \E q \in Pool : Reconcile(q)
  BY <1>0, <1>4, GetKeeps
<1>5. CASE Assess
  BY <1>0, <1>5, AssessKeeps
<1>6. CASE DeleteInsight \/ CreateInsight \/ UpdateStatus \/ CallFails
  BY <1>0, <1>6, CallKeeps
<1>7. ASSUME NEW q \in Pool, Meddle(q) PROVE Following(p)' /\ Good(p)'
  BY <1>0, <1>7, MeddleKeeps
<1>8. CASE Restart
  BY <1>8, RestartKeeps
<1>9. CASE UNCHANGED vars
  <2>1. Due(p)' = Due(p)
    BY <1>9, DueSame DEF vars, providerVars
  <2>2. Announced(p)' <=> Announced(p)
    BY <1>9 DEF Announced, vars, providerVars, objects
  <2> QED
    BY <1>0, <1>9, <2>1, <2>2, Undisturbed DEF vars, objects
<1> QED
  BY <1>1, <1>2, <1>3, <1>4, <1>5, <1>6, <1>7, <1>8, <1>9 DEF Next, Work, Specs

LEMMA NothingForgottenAlways == Spec => [](TypeOK /\ NothingForgotten)
BY InitTypeOK, NextTypeOK, InitKeeps, NextKeeps, PTL DEF Spec

\* SummarisedOrPending: whatever is dropped, delayed, failed or restarted, an insight
\* that does not summarise the states of its pool's nodes is on somebody's list, or the
\* worker looks at the pool as it is and is about to put it right.
THEOREM PendingCorrect == Spec => []SummarisedOrPending
<1>1. NothingForgotten => SummarisedOrPending
  BY DEF NothingForgotten, Following, Good, Announced, SummarisedOrPending, InformerAgrees,
         LookingAt
<1> QED
  BY <1>1, NothingForgottenAlways, PTL

\* QuietMeansSummarised: when nothing is on its way, every insight summarises the states
\* of its pool's nodes, but where the controller was not told of a change.
THEOREM QuietCorrect == Spec => []QuietMeansSummarised
<1>1. TypeOK /\ NothingForgotten => QuietMeansSummarised
  <2> SUFFICES ASSUME TypeOK, NothingForgotten, Quiet, NEW p \in Pool \ unheard
               PROVE  Right(p, insights[p])
    BY DEF QuietMeansSummarised
  <2>1. p \in Pool /\ p # None /\ Good(p)
    BY PoolInsightAssumption DEF NothingForgotten
  <2>2. item = None /\ ~Announced(p)
    BY <2>1 DEF Quiet, Announced, Nothing, TypeOK
  <2> QED
    BY <2>1, <2>2 DEF Good
<1> QED
  BY <1>1, NothingForgottenAlways, PTL

-----------------------------------------------------------------------------
(* Transition times.  Whatever status the worker holds, its times are past *)
(* and the plan keeps them; an update is stored only where nothing was     *)
(* written since, so over the status the worker holds or an empty one.     *)

Past(status) ==
  status # None => status.updating.since <= clock /\ status.healthy.since <= clock

PlanKeepsTimes ==
  copy # None => /\ KeepsTime(copy.updating, plan.updating)
                 /\ KeepsTime(copy.healthy, plan.healthy)

TimesKnown ==
  /\ \A p \in Pool : Past(insights[p]) /\ Past(cached[p])
  /\ Past(copy)
  /\ pc \in {"create", "update"} => Past(plan) /\ PlanKeepsTimes
  /\ current => item # None /\ (copy = insights[item] \/ insights[item] = EmptyStatus)

LEMMA EmptyPast ==
  ASSUME TypeOK
  PROVE  Past(EmptyStatus) /\ Past(None)
<1>1. EmptyStatus.updating.since = 0 /\ EmptyStatus.healthy.since = 0
  BY DEF EmptyStatus, Unset, Condition
<1> QED
  BY <1>1, PoolInsightAssumption DEF Past, TypeOK

\* A condition that is set keeps its time or is given one that is no earlier.
LEMMA SetKeeps ==
  ASSUME NEW old \in Conditions, NEW new \in Conditions, old.since <= new.since
  PROVE  /\ KeepsTime(old, SetStatusCondition(old, new))
         /\ SetStatusCondition(old, new).since <= new.since
BY DEF KeepsTime, SetStatusCondition, Conditions

LEMMA GivenNow ==
  ASSUME NEW assessment, NEW summaries, NEW now \in Nat
  PROVE  /\ Updating(assessment, summaries, now).since = now
         /\ Healthy(assessment, summaries, now).since = now
BY DEF Updating, Healthy, Condition

LEMMA AssessedKeeps ==
  ASSUME TypeOK, Past(Previous)
  PROVE  /\ Past(Assessed)
         /\ KeepsTime(Previous.updating, Assessed.updating)
         /\ KeepsTime(Previous.healthy, Assessed.healthy)
<1> DEFINE assessment == Assessment(spec.paused, Members(item), store)
           summaries  == Summaries(Members(item), store)
           verdict    == Updating(assessment, summaries, clock)
           health     == Healthy(assessment, summaries, clock)
<1>1. clock \in Nat
  BY PoolInsightAssumption DEF TypeOK
<1>2. /\ verdict \in Conditions /\ health \in Conditions
      /\ verdict.since = clock /\ health.since = clock
  BY <1>1, ConditionsGiven, GivenNow
<1>3. /\ Previous # None
      /\ Previous.updating \in Conditions /\ Previous.healthy \in Conditions
  BY PreviousType, PoolInsightAssumption DEF Statuses
<1>4. /\ Previous.updating.since <= clock /\ Previous.healthy.since <= clock
  BY <1>3 DEF Past
<1>5. /\ Assessed.updating = SetStatusCondition(Previous.updating, verdict)
      /\ Assessed.healthy = SetStatusCondition(Previous.healthy, health)
  BY DEF Assessed, AssessPool
<1> HIDE DEF verdict, health
<1>6. /\ KeepsTime(Previous.updating, Assessed.updating)
      /\ Assessed.updating.since <= clock
  BY <1>2, <1>3, <1>4, <1>5, SetKeeps
<1>7. /\ KeepsTime(Previous.healthy, Assessed.healthy)
      /\ Assessed.healthy.since <= clock
  BY <1>2, <1>3, <1>4, <1>5, SetKeeps
<1> QED
  BY <1>6, <1>7 DEF Past

LEMMA InitTimes == Init => TimesKnown
<1> SUFFICES ASSUME Init PROVE TimesKnown
  OBVIOUS
<1>1. Past(EmptyStatus) /\ Past(None)
  BY InitTypeOK, EmptyPast
<1>2. \A p \in Pool : insights[p] \in {None, EmptyStatus} /\ cached = insights
  BY DEF Init
<1> QED
  BY <1>1, <1>2 DEF Init, TimesKnown

\* Steps that touch neither insights nor what the worker holds.
LEMMA IdleTimes ==
  ASSUME TypeOK, TimesKnown, UNCHANGED <<insights, cached, worker>>,
         clock' \in {clock, clock + 1}
  PROVE  TimesKnown'
<1>1. ASSUME NEW status \in Statuses \cup {None}, Past(status)
      PROVE  status # None => status.updating.since <= clock' /\ status.healthy.since <= clock'
  <2>1. CASE status # None
    <3>1. status.updating.since \in Nat /\ status.healthy.since \in Nat /\ clock \in Nat
      BY <2>1, PoolInsightAssumption DEF Statuses, Conditions, TypeOK
    <3> QED
      BY <1>1, <2>1, <3>1 DEF Past
  <2> QED
    BY <2>1
<1>2. \A p \in Pool : insights[p] \in Statuses \cup {None} /\ cached[p] \in Statuses \cup {None}
  BY DEF TypeOK
<1>3. copy \in Statuses \cup {None} /\ (pc \in {"create", "update"} => plan \in Statuses)
  BY DEF TypeOK
<1>4. (\A p \in Pool : Past(insights[p]) /\ Past(cached[p]))'
  BY <1>1, <1>2 DEF TimesKnown, Past
<1>5. Past(copy)' /\ (pc \in {"create", "update"} => Past(plan)')
  BY <1>1, <1>3 DEF TimesKnown, Past, worker
<1> QED
  BY <1>4, <1>5 DEF TimesKnown, PlanKeepsTimes, worker

LEMMA NextTimes ==
  ASSUME TypeOK, NothingForgotten, TimesKnown, [Next]_vars
  PROVE  TimesKnown'
<1>0. Past(EmptyStatus) /\ Past(None)
  BY EmptyPast
<1>1. CASE \/ \E n \in Node : PublishState(n) \/ RemoveState(n)
           \/ AnnounceToNodes \/ AnnounceToPools \/ ReceiveForNodes \/ Receive
           \/ Tick \/ Resync \/ UNCHANGED vars
           \/ \E p \in Pool : HandlePool(p)
           \/ \E p \in Pool, s \in [paused : BOOLEAN] \cup {None} : ChangePool(p, s)
  <2>1. UNCHANGED <<insights, cached, worker>> /\ clock' \in {clock, clock + 1}
    BY <1>1
    DEF PublishState, RemoveState, AnnounceToNodes, AnnounceToPools, ReceiveForNodes, Receive,
        Tick, Resync, vars, HandlePool, ChangePool, objects
  <2> QED
    BY <2>1, IdleTimes
<1>2. ASSUME NEW q \in Pool, Sync(q) PROVE TimesKnown'
  BY <1>2 DEF Sync, TimesKnown, PlanKeepsTimes, Past, worker, TypeOK
<1>3. ASSUME NEW q \in Pool, Reconcile(q) PROVE TimesKnown'
  BY <1>3 DEF Reconcile, TimesKnown, Past, objects, TypeOK
<1>4. CASE GetInsight
  <2>1. item \in Pool /\ UNCHANGED <<insights, cached, clock>>
    BY <1>4, WorkerHas DEF GetInsight, objects
  <2>2. item \notin unseen => cached[item] = insights[item]
    BY <2>1 DEF NothingForgotten, Following
  <2>3. CASE Done
    BY <1>0, <2>1, <2>3 DEF Done, Stop, TimesKnown, Past
  <2>4. CASE ~Done
    <3>1. /\ copy' = cached[item] /\ current' = (item \notin unseen) /\ item' = item
          /\ pc' \in {"delete", "assess"}
      BY <1>4, <2>4 DEF GetInsight
    <3> QED
      BY <2>1, <2>2, <3>1, PoolInsightAssumption DEF TimesKnown, Past
  <2> QED
    BY <2>3, <2>4
<1>5. CASE Assess
  <2>1. UNCHANGED <<insights, cached, clock>>
    BY <1>5 DEF Assess, objects
  <2>2. CASE Done
    BY <1>0, <2>1, <2>2 DEF Done, Stop, TimesKnown, Past
  <2>3. CASE ~Done
    <3>1. plan' = Assessed /\ UNCHANGED <<item, copy, current>>
      BY <1>5, <2>3 DEF Assess
    <3>2. Past(Previous)
      BY <1>0 DEF TimesKnown, Previous
    <3>3. Past(plan)'
      BY <2>1, <3>1, <3>2, AssessedKeeps DEF Past
    <3>4. PlanKeepsTimes'
      BY <3>1, <3>2, AssessedKeeps DEF PlanKeepsTimes, Previous
    <3> QED
      BY <2>1, <3>1, <3>3, <3>4 DEF TimesKnown, Past
  <2> QED
    BY <2>2, <2>3
<1>6. CASE DeleteInsight \/ CreateInsight \/ UpdateStatus \/ CallFails
  <2>1. /\ item \in Pool /\ cached' = cached /\ clock' = clock
        /\ \A p \in Pool : insights'[p] = insights[p] \/ insights'[p] \in {None, EmptyStatus}
                             \/ (pc = "update" /\ insights'[p] = plan)
    <3>1. item \in Pool /\ clock' = clock
      BY <1>6, CallEffect
    <3>2. \/ UNCHANGED objects
          \/ Write(item, None) \/ Write(item, EmptyStatus)
          \/ pc = "update" /\ Write(item, plan)
      BY <1>6 DEF DeleteInsight, CreateInsight, UpdateStatus, CallFails
    <3> QED
      BY <3>1, <3>2, WriteLeaves DEF objects
  <2>2. (\A p \in Pool : Past(insights[p]) /\ Past(cached[p]))'
    BY <1>0, <2>1 DEF TimesKnown, Past
  <2>3. CASE Retry \/ Done
    BY <1>0, <2>1, <2>2, <2>3 DEF Retry, Done, Stop, TimesKnown, Past
  <2>4. CASE ~(Retry \/ Done)
    <3>1. /\ pc = "create" /\ Write(item, EmptyStatus)
          /\ UNCHANGED <<item, copy, plan>>
      BY <1>6, <2>4, CallEffect
    <3>2. insights'[item] = EmptyStatus
      BY <2>1, <3>1, WriteLeaves
    <3> QED
      BY <2>1, <2>2, <3>1, <3>2, PoolInsightAssumption DEF TimesKnown, Past, PlanKeepsTimes
  <2> QED
    BY <2>3, <2>4
<1>7. ASSUME NEW q \in Pool, Meddle(q) PROVE TimesKnown'
  <2>1. PICK status \in {None, EmptyStatus} : Write(q, status)
    BY <1>7 DEF Meddle
  <2>2. /\ UNCHANGED <<pc, item, copy, plan, clock>>
        /\ current' = (current /\ item # q)
    BY <1>7 DEF Meddle
  <2>3. /\ cached' = cached
        /\ \A p \in Pool : insights'[p] = insights[p] \/ insights'[p] \in {None, EmptyStatus}
        /\ \A p \in Pool : p # q => insights'[p] = insights[p]
    BY <2>1, WriteLeaves
  <2>4. (\A p \in Pool : Past(insights[p]) /\ Past(cached[p]))'
    BY <1>0, <2>2, <2>3 DEF TimesKnown, Past
  <2>5. item # None => item \in Pool
    BY DEF TypeOK
  <2> QED
    BY <2>2, <2>3, <2>4, <2>5 DEF TimesKnown, Past, PlanKeepsTimes
<1>8. CASE Restart
  BY <1>0, <1>8 DEF Restart, Stop, TimesKnown, Past
<1> QED
  BY <1>1, <1>2, <1>3, <1>4, <1>5, <1>6, <1>7, <1>8 DEF Next, Work

\* What one step does to the times of an insight.
TimesKept(p) ==
  /\ insights[p] \notin {None, EmptyStatus} /\ insights'[p] \notin {None, EmptyStatus}
  => /\ KeepsTime(insights[p].updating, insights'[p].updating)
     /\ KeepsTime(insights[p].healthy, insights'[p].healthy)

LEMMA StepKeepsTimes ==
  ASSUME TypeOK, TimesKnown, [Next]_vars, NEW p \in Pool
  PROVE  TimesKept(p)
<1>1. CASE insights'[p] = insights[p]
  <2>1. CASE insights[p] = None
    BY <2>1 DEF TimesKept
  <2>2. CASE insights[p] # None
    BY <1>1, <2>2 DEF TimesKept, KeepsTime
  <2> QED
    BY <2>1, <2>2
<1>2. CASE insights'[p] \in {None, EmptyStatus}
  BY <1>2 DEF TimesKept
<1>3. ASSUME NEW q \in Pool, NEW status \in {None, EmptyStatus}, Write(q, status)
      PROVE  TimesKept(p)
  BY <1>1, <1>2, <1>3, WriteLeaves
<1>4. CASE UpdateStatus
  <2>1. item \in Pool /\ pc = "update"
    BY <1>4, WorkerHas DEF UpdateStatus
  <2>2. CASE UNCHANGED objects
    BY <1>1, <2>2 DEF objects
  <2>3. CASE ~UNCHANGED objects
    <3>1. current /\ Write(item, plan)
      BY <1>4, <2>3 DEF UpdateStatus
    <3>2. CASE item # p
      BY <1>1, <2>1, <3>1, <3>2, WriteLeaves
    <3>3. CASE item = p
      <4>1. insights'[p] = plan /\ (copy = insights[p] \/ insights[p] = EmptyStatus)
        BY <2>1, <3>1, <3>3, WriteLeaves DEF TimesKnown
      <4> QED
        BY <2>1, <4>1 DEF TimesKnown, PlanKeepsTimes, TimesKept
    <3> QED
      BY <3>2, <3>3
  <2> QED
    BY <2>2, <2>3
<1>5. CASE DeleteInsight \/ CreateInsight
  <2>1. item \in Pool
    BY <1>5, WorkerHas DEF DeleteInsight, CreateInsight
  <2> QED
    BY <1>1, <1>3, <1>5, <2>1 DEF DeleteInsight, CreateInsight, objects
<1>6. ASSUME NEW q \in Pool, Meddle(q) PROVE TimesKept(p)
  BY <1>3, <1>6 DEF Meddle
<1>7. CASE \/ \E n \in Node : PublishState(n) \/ RemoveState(n)
           \/ AnnounceToNodes \/ AnnounceToPools \/ ReceiveForNodes \/ Receive
           \/ Tick \/ Resync \/ CallFails \/ Restart \/ GetInsight \/ Assess
           \/ \E q \in Pool : HandlePool(q) \/ Sync(q) \/ Reconcile(q)
           \/ \E q \in Pool, s \in [paused : BOOLEAN] \cup {None} : ChangePool(q, s)
           \/ UNCHANGED vars
  BY <1>1, <1>7
  DEF PublishState, RemoveState, AnnounceToNodes, AnnounceToPools, ReceiveForNodes, Receive,
      Tick, Resync, CallFails, Restart, GetInsight, Assess, HandlePool, Sync, Reconcile,
      ChangePool, vars, objects
<1> QED
  BY <1>4, <1>5, <1>6, <1>7 DEF Next, Work

\* TransitionTimesKept: from one status of an insight to the next a condition's time
\* moves only with its status and never back, although the previous status was read
\* from an informer that lags behind.
THEOREM TimesCorrect == Spec => TransitionTimesKept
<1>1. TypeOK /\ NothingForgotten /\ TimesKnown /\ [Next]_vars => TimesKnown'
  BY NextTimes
<1>2. TypeOK /\ TimesKnown /\ [Next]_vars => [\A p \in Pool : TimesKept(p)]_insights
  BY StepKeepsTimes
<1>3. (\A p \in Pool : TimesKept(p)) <=>
        \A p \in Pool :
          /\ insights[p] \notin {None, EmptyStatus} /\ insights'[p] \notin {None, EmptyStatus}
          => /\ KeepsTime(insights[p].updating, insights'[p].updating)
             /\ KeepsTime(insights[p].healthy, insights'[p].healthy)
  BY DEF TimesKept
<1> QED
  BY <1>1, <1>2, <1>3, InitTimes, NothingForgottenAlways, PTL DEF Spec, TransitionTimesKept
=============================================================================
