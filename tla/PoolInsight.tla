----------------------------- MODULE PoolInsight -----------------------------
(***************************************************************************)
(* The machine config pool progress insight controller                     *)
(* (internal/controller/machineconfigpools,                                *)
(* machineconfigpoolprogressinsight_controller.go) downstream of the       *)
(* central controller, of which only StateProvider is used.                *)
(*                                                                         *)
(* pools is the informers' view of the MachineConfigPools.  insights is    *)
(* what the API server holds and cached the informer's copies of it, which *)
(* lag behind for the pools in unseen.  The worker reads the pool, the     *)
(* insight and the node states one after the other, then makes its calls.  *)
(***************************************************************************)
EXTENDS StateProvider, PoolAssessment

CONSTANTS State,      \* node states: [pool, phase, version, desiredVersion,
                      \* available, degraded]
          MaxClock,   \* bound on time
          MaxChanges  \* bound on the steps of the outside world

\* What a status may be.
Assessments == {"", "Pending", "Degraded", "Excluded", "Progressing", "Completed"}
Reasons     == {"", "Progressing", "Updated", "Paused", "Pending", "NodesDegraded",
                "AllNodesUpdated", "NoNodes", "NoProblems"}
Conditions  == [status : {"True", "False", "Unknown"}, why : Reasons, since : Nat]
Counts      == [Total : Nat, Available : Nat, Progressing : Nat, Outdated : Nat,
                Draining : Nat, Excluded : Nat, Degraded : Nat]
Statuses    == [assessment : Assessments, completion : 0..100, summaries : Counts,
                updating : Conditions, healthy : Conditions]

ASSUME PoolInsightAssumption ==
  /\ IsFiniteSet(Node)
  /\ None \notin Node \cup Pool \cup State \cup [paused : BOOLEAN] \cup Statuses
  /\ \A s \in State : s.pool \in Pool
  /\ MaxClock \in Nat \ {0} /\ MaxChanges \in Nat

VARIABLES
  pools,       \* MachineConfigPools: [paused], or None
  poolEvents,  \* pools with an event the controller has not seen
  insights,    \* status of each pool's insight; None: there is none
  cached,      \* the informer's copies of them
  unseen,      \* pools whose insight changed behind the informer's back
  dirty,       \* work queue
  pc, item,    \* where the worker is and the pool it reconciles, None when idle
  spec, copy,  \* the pool and the insight it read
  current,     \* nothing was written since the insight it read
  plan,        \* the status it computed
  clock,       \* now, at least 1
  unheard,     \* history: pools that lost a node without an announcement, or were
               \* announced to a full channel, and were not assessed since
  changes      \* steps of the outside world so far

objects == <<insights, cached, unseen>>
worker  == <<pc, item, spec, copy, current, plan>>
vars == <<providerVars, pools, poolEvents, objects, dirty, worker, clock, unheard, changes>>

Existing(os) == {p \in DOMAIN os : os[p] # None}
Members(p)   == {n \in Node : store[n] # None /\ store[n].pool = p}

Init ==
  /\ ProviderInit
  /\ pools \in [Pool -> {None, [paused |-> FALSE]}]
  /\ poolEvents = Existing(pools)
  /\ insights \in [Pool -> {None, EmptyStatus}]
  /\ cached = insights /\ unseen = {}
  /\ dirty = Existing(insights)
  /\ pc = "idle" /\ item = None /\ spec = None /\ copy = None
  /\ current = FALSE /\ plan = None
  /\ clock = 1 /\ unheard = {} /\ changes = 0

Change == changes < MaxChanges /\ changes' = changes + 1

-----------------------------------------------------------------------------
(* The provider, pools and time.                                           *)

PublishState(n) ==
  /\ Change
  /\ \E s \in State : store' = [store EXCEPT ![n] = s]
  /\ Publish(n)
  /\ unheard' = IF store[n] # None /\ store[n].pool # store'[n].pool
                THEN unheard \cup {store[n].pool} ELSE unheard
  /\ UNCHANGED <<pools, poolEvents, objects, dirty, worker, clock>>

RemoveState(n) ==
  /\ Change
  /\ Remove(n)
  /\ unheard' = unheard \cup {store[n].pool}
  /\ UNCHANGED <<pools, poolEvents, objects, dirty, worker, clock>>

AnnounceToNodes ==
  AnnounceNode
  /\ UNCHANGED <<pools, poolEvents, objects, dirty, worker, clock, unheard, changes>>

AnnounceToPools ==
  /\ AnnouncePool
  /\ unheard' = IF poolChan' = poolChan THEN unheard \cup {announcing.pool} ELSE unheard
  /\ UNCHANGED <<pools, poolEvents, objects, dirty, worker, clock, changes>>

ReceiveForNodes ==
  TakeNode
  /\ UNCHANGED <<pools, poolEvents, objects, dirty, worker, clock, unheard, changes>>

\* Created, changed or deleted; the handler looks at the name only.
ChangePool(p, s) ==
  /\ Change /\ pools[p] # s
  /\ pools' = [pools EXCEPT ![p] = s]
  /\ poolEvents' = poolEvents \cup {p}
  /\ UNCHANGED <<providerVars, objects, dirty, worker, clock, unheard>>

Tick ==
  /\ clock < MaxClock /\ clock' = clock + 1
  /\ UNCHANGED <<providerVars, pools, poolEvents, objects, dirty, worker, unheard, changes>>

-----------------------------------------------------------------------------
(* What puts pools on the work queue.                                      *)

HandlePool(p) ==
  /\ p \in poolEvents
  /\ poolEvents' = poolEvents \ {p}
  /\ dirty' = dirty \cup {p}
  /\ UNCHANGED <<providerVars, pools, objects, worker, clock, unheard, changes>>

\* source.Channel.
Receive ==
  /\ TakePool
  /\ dirty' = dirty \cup {Head(poolChan)}
  /\ UNCHANGED <<pools, poolEvents, objects, worker, clock, unheard, changes>>

Sync(p) ==
  /\ p \in unseen
  /\ unseen' = unseen \ {p}
  /\ cached' = [cached EXCEPT ![p] = insights[p]]
  /\ dirty' = dirty \cup {p}
  /\ UNCHANGED <<providerVars, pools, poolEvents, insights, worker, clock, unheard, changes>>

\* The informers' periodic resync tells of every pool and every insight.
Resync ==
  /\ ~(Existing(pools) \cup Existing(cached) \subseteq dirty)
  /\ dirty' = dirty \cup Existing(pools) \cup Existing(cached)
  /\ UNCHANGED <<providerVars, pools, poolEvents, objects, worker, clock, unheard, changes>>

-----------------------------------------------------------------------------
(* The worker: Reconcile.                                                  *)

Stop ==
  /\ pc' = "idle" /\ item' = None /\ spec' = None /\ copy' = None
  /\ current' = FALSE /\ plan' = None

Done  == Stop /\ UNCHANGED dirty
\* A returned error, or RequeueAfter.
Retry == Stop /\ dirty' = dirty \cup {item}

\* The work queue hands out p, and the pool is read.
Reconcile(p) ==
  /\ pc = "idle" /\ p \in dirty
  /\ dirty' = dirty \ {p}
  /\ pc' = "getInsight" /\ item' = p /\ spec' = pools[p]
  /\ UNCHANGED <<providerVars, pools, poolEvents, objects, copy, current, plan, clock,
                 unheard, changes>>

\* Fault: a pool that is gone is deleted from where there may be no insight.
GetInsightOfAny ==
  /\ pc = "getInsight"
  /\ copy' = cached[item] /\ current' = (item \notin unseen)
  /\ pc' = IF spec = None THEN "delete" ELSE "assess"
  /\ UNCHANGED <<providerVars, pools, poolEvents, objects, dirty, item, spec, plan, clock,
                 unheard, changes>>

\* The insight is read from the informer.
GetInsight ==
  /\ pc = "getInsight"
  /\ IF spec = None /\ cached[item] = None THEN Done
     ELSE /\ copy' = cached[item] /\ current' = (item \notin unseen)
          /\ pc' = IF spec = None THEN "delete" ELSE "assess"
          /\ UNCHANGED <<item, spec, plan, dirty>>
  /\ UNCHANGED <<providerVars, pools, poolEvents, objects, clock, unheard, changes>>

Previous == IF copy = None THEN EmptyStatus ELSE copy

Assessed == AssessPool(spec.paused, Members(item), store, Previous, clock)

\* Fault: an insight with the right assessment is not written again.
AssessCoarsely ==
  /\ pc = "assess"
  /\ IF copy # None /\ copy.assessment = Assessed.assessment THEN Done
     ELSE /\ plan' = Assessed
          /\ pc' = IF copy = None THEN "create" ELSE "update"
          /\ UNCHANGED <<item, spec, copy, current, dirty>>
  /\ unheard' = unheard \ {item}
  /\ UNCHANGED <<providerVars, pools, poolEvents, objects, clock, changes>>

\* GetNodeStatesByPool and AssessPoolFromNodeStates; an insight that says the
\* same already is not written.
Assess ==
  /\ pc = "assess"
  /\ IF copy = Assessed THEN Done
     ELSE /\ plan' = Assessed
          /\ pc' = IF copy = None THEN "create" ELSE "update"
          /\ UNCHANGED <<item, spec, copy, current, dirty>>
  /\ unheard' = unheard \ {item}
  /\ UNCHANGED <<providerVars, pools, poolEvents, objects, clock, changes>>

\* The API server stores status, or None for a deletion; storing what is there
\* already is no write.
Write(p, status) ==
  /\ insights' = [insights EXCEPT ![p] = status]
  /\ unseen' = IF insights[p] = status THEN unseen ELSE unseen \cup {p}
  /\ UNCHANGED cached

\* The answer arrives, or an error (a timeout) does although the call succeeded.
Answered(next) ==
  \/ next /\ UNCHANGED changes
  \/ Retry /\ Change

DeleteInsight ==
  /\ pc = "delete"
  /\ IF insights[item] = None
     THEN Retry /\ UNCHANGED <<objects, changes>>
     ELSE Write(item, None) /\ Answered(Done)
  /\ UNCHANGED <<providerVars, pools, poolEvents, clock, unheard>>

\* An insight that exists already is tried again a second later.
CreateInsight ==
  /\ pc = "create"
  /\ IF insights[item] # None
     THEN Retry /\ UNCHANGED <<objects, changes>>
     ELSE /\ Write(item, EmptyStatus)
          /\ Answered(pc' = "update" /\ current' = TRUE
                        /\ UNCHANGED <<item, spec, copy, plan, dirty>>)
  /\ UNCHANGED <<providerVars, pools, poolEvents, clock, unheard>>

\* Fault: the write does not say which version of the insight it is based on.
UpdateStatusBlindly ==
  /\ pc = "update"
  /\ IF insights[item] = None
     THEN Retry /\ UNCHANGED <<objects, changes>>
     ELSE Write(item, plan) /\ Answered(Done)
  /\ UNCHANGED <<providerVars, pools, poolEvents, clock, unheard>>

\* An insight that is gone is an error; a conflict is tried again a second later.
UpdateStatus ==
  /\ pc = "update"
  /\ IF insights[item] = None \/ ~current
     THEN Retry /\ UNCHANGED <<objects, changes>>
     ELSE Write(item, plan) /\ Answered(Done)
  /\ UNCHANGED <<providerVars, pools, poolEvents, clock, unheard>>

\* Fault: the error is logged and not returned.
CallFailsForGood ==
  /\ Change /\ pc \in {"delete", "create", "update"}
  /\ Done
  /\ UNCHANGED <<providerVars, pools, poolEvents, objects, clock, unheard>>

\* The API server fails a call and does nothing.
CallFails ==
  /\ Change /\ pc \in {"delete", "create", "update"}
  /\ Retry
  /\ UNCHANGED <<providerVars, pools, poolEvents, objects, clock, unheard>>

-----------------------------------------------------------------------------
(* Others write insights too; the process restarts.                        *)

Meddle(p) ==
  /\ Change
  /\ insights[p] # None
  /\ \E status \in {None, EmptyStatus} \ {insights[p]} : Write(p, status)
  /\ current' = (current /\ item # p)
  /\ UNCHANGED <<providerVars, pools, poolEvents, dirty, pc, item, spec, copy, plan, clock,
                 unheard>>

Restart ==
  /\ Change
  /\ RestartProvider
  /\ poolEvents' = Existing(pools)
  /\ cached' = insights /\ unseen' = {}
  /\ dirty' = Existing(insights)
  /\ Stop
  /\ unheard' = {}
  /\ UNCHANGED <<pools, insights, clock>>

Work == \/ \E p \in Pool : Reconcile(p)
        \/ GetInsight \/ Assess \/ DeleteInsight \/ CreateInsight \/ UpdateStatus

Next ==
  \/ \E n \in Node : PublishState(n) \/ RemoveState(n)
  \/ AnnounceToNodes \/ AnnounceToPools \/ ReceiveForNodes
  \/ \E p \in Pool, s \in [paused : BOOLEAN] \cup {None} : ChangePool(p, s)
  \/ Tick
  \/ \E p \in Pool : HandlePool(p) \/ Sync(p)
  \/ Receive \/ Resync
  \/ Work
  \/ CallFails
  \/ \E p \in Pool : Meddle(p)
  \/ Restart

Spec == Init /\ [][Next]_vars

\* The provider goes on to announce, channels and events are received, informers
\* keep up and resync, and the work queue is first in, first out.
Fairness ==
  /\ WF_vars(AnnounceToNodes) /\ WF_vars(AnnounceToPools) /\ WF_vars(ReceiveForNodes)
  /\ WF_vars(Receive) /\ WF_vars(Resync)
  /\ \A p \in Pool : WF_vars(HandlePool(p)) /\ WF_vars(Sync(p)) /\ SF_vars(Reconcile(p))
  /\ WF_vars(Work)

FairSpec == Spec /\ Fairness

-----------------------------------------------------------------------------
(* Properties.                                                             *)

\* Every variable has its type, the completion is a percentage, and at each place
\* the worker has read what the place presupposes.
TypeOK ==
  /\ store \in [Node -> State \cup {None}]
  /\ nodeChan \in Seq(Node) /\ poolChan \in Seq(Pool)
  /\ announcing \in [node : Node \cup {None}, pool : Pool \cup {None}]
  /\ pools \in [Pool -> [paused : BOOLEAN] \cup {None}] /\ poolEvents \subseteq Pool
  /\ insights \in [Pool -> Statuses \cup {None}] /\ cached \in [Pool -> Statuses \cup {None}]
  /\ unseen \subseteq Pool /\ dirty \subseteq Pool /\ unheard \subseteq Pool
  /\ pc \in {"idle", "getInsight", "assess", "delete", "create", "update"}
  /\ IF pc = "idle" THEN item = None ELSE item \in Pool
  /\ spec \in [paused : BOOLEAN] \cup {None} /\ copy \in Statuses \cup {None}
  /\ pc \in {"assess", "create", "update"} => spec # None
  /\ pc = "delete" => spec = None /\ copy # None
  /\ pc \in {"create", "update"} => plan \in Statuses
  /\ current \in BOOLEAN
  /\ clock \in 1..MaxClock /\ changes \in Nat

\* Nothing is on its way to an insight, but for the next resync.
Quiet ==
  /\ announcing = Nothing /\ poolChan = <<>>
  /\ poolEvents = {} /\ unseen = {} /\ dirty = {} /\ pc = "idle"

\* What status says of p is what the pool and the states stored for its nodes
\* amount to now.
Right(p, status) ==
  IF pools[p] = None THEN status = None
  ELSE /\ status # None
       /\ Content(status) =
          Content(AssessPool(pools[p].paused, Members(p), store, EmptyStatus, 0))

\* However publications, pool events, lagging reads, conflicts, failed calls,
\* other writers and restarts interleave, when all is quiet every pool's insight
\* summarises the states stored for its nodes, and there is none without a pool,
\* except where a node left without an announcement or one was dropped.
QuietMeansSummarised ==
  Quiet => \A p \in Pool \ unheard : Right(p, insights[p])

\* The informer is right about every insight it is not behind on.
InformerAgrees == \A p \in Pool \ unseen : cached[p] = insights[p]

\* What the worker has read of p is as it is now, and so is what it computed.
LookingAt(p) ==
  /\ item = p /\ spec = pools[p]
  /\ pc \in {"create", "update"} => Right(p, plan)

\* The invariant behind it: an insight that is not right is on somebody's list,
\* or the worker is about to put it right.
SummarisedOrPending ==
  /\ InformerAgrees
  /\ \A p \in Pool :
       \/ Right(p, insights[p])
       \/ p \in unheard \cup poolEvents \cup unseen \cup dirty
       \/ announcing.pool = p
       \/ \E i \in DOMAIN poolChan : poolChan[i] = p
       \/ LookingAt(p)

KeepsTime(old, new) ==
  /\ new.status = old.status => new.since = old.since
  /\ new.status # old.status => new.since >= old.since

\* The insight's CRD: "lastTransitionTime is the last time the condition transitioned
\* from one status to another".  From one status of an insight to the next a
\* condition's time moves only with its status and never back, although the previous
\* status is read from an informer that lags behind.  assessment.go, lines 31 and
\* 54-57, would have it move with the reason too, and the code does not.
TransitionTimesKept ==
  [][\A p \in Pool :
       /\ insights[p] \notin {None, EmptyStatus} /\ insights'[p] \notin {None, EmptyStatus}
       => /\ KeepsTime(insights[p].updating, insights'[p].updating)
          /\ KeepsTime(insights[p].healthy, insights'[p].healthy)]_insights

\* impl.go: "Channel buffer full - notification dropped. This is acceptable as
\* downstream controllers will reconcile eventually": pools are resynced as well
\* as insights, so here it is true, of nodes that left silently too.
EventuallySummarised == \A p \in Pool : <>[]Right(p, insights[p])
=============================================================================
