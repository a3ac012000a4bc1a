----------------------------- MODULE NodeInsight -----------------------------
(***************************************************************************)
(* The node progress insight controller                                    *)
(* (internal/controller/nodeprogressinsight_controller.go) downstream of   *)
(* the central controller, of which only StateProvider is used.            *)
(*                                                                         *)
(* insights is what the API server holds.  The controller's informer lags  *)
(* behind: unseen holds the nodes whose insight was written since the      *)
(* informer last took it in, and a write of a copy that is not current is  *)
(* a conflict.  Reconcile overwrites whatever status it reads, so of the   *)
(* informer's copies only their existence is kept.  The worker makes one   *)
(* call after the other; the API server may fail a call, with or without   *)
(* having done what was asked.                                             *)
(***************************************************************************)
EXTENDS StateProvider, FiniteSets

CONSTANTS State,      \* node states: [pool, shown, hidden], hidden being what
                      \* the status of an insight leaves out
          MaxChanges  \* bound on the steps of the outside world

ASSUME NodeInsightAssumption ==
  /\ None \notin Node \cup Pool \cup State
  /\ \A s \in State : s.pool \in Pool /\ {"pool", "shown", "hidden"} = DOMAIN s
  /\ MaxChanges \in Nat

VARIABLES
  insights,  \* status of each node's insight; None: there is none
  cached,    \* nodes whose insight the informer has
  unseen,    \* nodes whose insight changed behind the informer's back
  dirty,     \* work queue
  pc, item,  \* where the worker is and the node it reconciles, None when idle
  seen,      \* the state it got from the provider
  current,   \* nothing was written since the insight it holds
  unannounced,  \* history: nodes whose state was removed, or announced to a full
                \* channel, and that were not reconciled since
  gone,         \* history: nodes that are not in the cluster or in no pool
  changes       \* steps of the outside world so far

objects == <<insights, cached, unseen>>
worker  == <<pc, item, seen, current>>
vars == <<providerVars, objects, dirty, worker, unannounced, gone, changes>>

\* nodeStateToInsightStatus.
StatusOf(s) == [pool |-> s.pool, shown |-> s.shown]

\* The status of an insight just created.
Empty == [pool |-> None, shown |-> None]

Statuses == {StatusOf(s) : s \in State} \cup {Empty}
Due(n)   == IF store[n] = None THEN None ELSE StatusOf(store[n])

\* An earlier process may have left insights behind; the informer is synced
\* before the worker starts, and tells of each of them.
Init ==
  /\ ProviderInit
  /\ insights \in [Node -> Statuses \cup {None}]
  /\ cached = {n \in Node : insights[n] # None} /\ unseen = {}
  /\ dirty = cached
  /\ pc = "idle" /\ item = None /\ seen = None /\ current = FALSE
  /\ unannounced = {} /\ gone \in SUBSET Node /\ changes = 0

Change == changes < MaxChanges /\ changes' = changes + 1

-----------------------------------------------------------------------------
(* The provider.                                                           *)

PublishState(n) ==
  /\ Change
  /\ \E s \in State : store' = [store EXCEPT ![n] = s]
  /\ Publish(n)
  /\ gone' = gone \ {n}
  /\ UNCHANGED <<objects, dirty, worker, unannounced>>

AnnounceToNodes ==
  /\ AnnounceNode
  /\ unannounced' = IF nodeChan' = nodeChan THEN unannounced \cup {announcing.node}
                    ELSE unannounced
  /\ UNCHANGED <<objects, dirty, worker, gone, changes>>

AnnounceToPools ==
  AnnouncePool /\ UNCHANGED <<objects, dirty, worker, unannounced, gone, changes>>

RemoveState(n) ==
  /\ Change
  /\ Remove(n)
  /\ unannounced' = unannounced \cup {n}
  /\ gone' = gone \cup {n}
  /\ UNCHANGED <<objects, dirty, worker>>

ReceiveForPools == TakePool /\ UNCHANGED <<objects, dirty, worker, unannounced, gone, changes>>

-----------------------------------------------------------------------------
(* What puts nodes on the work queue.                                      *)

\* source.Channel.
Receive ==
  /\ TakeNode
  /\ dirty' = dirty \cup {Head(nodeChan)}
  /\ UNCHANGED <<objects, worker, unannounced, gone, changes>>

Sync(n) ==
  /\ n \in unseen
  /\ unseen' = unseen \ {n}
  /\ cached' = IF insights[n] = None THEN cached \ {n} ELSE cached \cup {n}
  /\ dirty' = dirty \cup {n}
  /\ UNCHANGED <<providerVars, insights, worker, unannounced, gone, changes>>

\* The informer's periodic resync tells of every insight it has.
Resync ==
  /\ ~(cached \subseteq dirty)
  /\ dirty' = dirty \cup cached
  /\ UNCHANGED <<providerVars, objects, worker, unannounced, gone, changes>>

-----------------------------------------------------------------------------
(* The worker: reconcileWithProvider.                                      *)

Stop == pc' = "idle" /\ item' = None /\ seen' = None /\ current' = FALSE

Done  == Stop /\ UNCHANGED dirty
Retry == Stop /\ dirty' = dirty \cup {item}

\* The work queue hands out n; GetNodeState.
Reconcile(n) ==
  /\ pc = "idle" /\ n \in dirty
  /\ dirty' = dirty \ {n}
  /\ pc' = "get" /\ item' = n /\ seen' = store[n] /\ UNCHANGED current
  /\ unannounced' = unannounced \ {n}
  /\ UNCHANGED <<providerVars, objects, gone, changes>>

\* Fault: an insight that is not there is not created.
GetInsightOfKnown ==
  /\ pc = "get"
  /\ IF item \in cached
     THEN /\ pc' = IF seen = None THEN "delete" ELSE "update"
          /\ current' = (item \notin unseen)
          /\ UNCHANGED <<item, seen, dirty>>
     ELSE Done
  /\ UNCHANGED <<providerVars, objects, unannounced, gone, changes>>

\* Fault: that nobody tracks the node matters only when there is an insight.
GetInsightOfAny ==
  /\ pc = "get"
  /\ IF item \in cached
     THEN /\ pc' = IF seen = None THEN "delete" ELSE "update"
          /\ current' = (item \notin unseen)
     ELSE pc' = "create" /\ UNCHANGED current
  /\ UNCHANGED <<providerVars, objects, item, seen, dirty, unannounced, gone, changes>>

\* The insight is read from the informer.
GetInsight ==
  /\ pc = "get"
  /\ CASE item \in cached ->
            /\ pc' = IF seen = None THEN "delete" ELSE "update"
            /\ current' = (item \notin unseen)
            /\ UNCHANGED <<item, seen, dirty>>
       [] item \notin cached /\ seen = None -> Done
       [] item \notin cached /\ seen # None ->
            pc' = "create" /\ UNCHANGED <<item, seen, current, dirty>>
  /\ UNCHANGED <<providerVars, objects, unannounced, gone, changes>>

\* The API server stores status, or None for a deletion; storing what is there
\* already is no write.
Write(n, status) ==
  /\ insights' = [insights EXCEPT ![n] = status]
  /\ unseen' = IF insights[n] = status THEN unseen ELSE unseen \cup {n}
  /\ UNCHANGED cached

Untouched == UNCHANGED objects

\* The answer arrives, or an error (a timeout) does although the call succeeded.
Answered(next) ==
  \/ next /\ UNCHANGED changes
  \/ Retry /\ Change

DeleteInsight ==
  /\ pc = "delete"
  /\ IF insights[item] = None
     THEN Retry /\ Untouched /\ UNCHANGED changes
     ELSE Write(item, None) /\ Answered(Done)
  /\ UNCHANGED <<providerVars, unannounced, gone>>

CreateInsight ==
  /\ pc = "create"
  /\ IF insights[item] # None
     THEN Retry /\ Untouched /\ UNCHANGED changes
     ELSE /\ Write(item, Empty)
          /\ Answered(pc' = "update" /\ current' = TRUE /\ UNCHANGED <<item, seen, dirty>>)
  /\ UNCHANGED <<providerVars, unannounced, gone>>

UpdateStatus ==
  /\ pc = "update"
  /\ IF insights[item] = None \/ ~current
     THEN Retry /\ Untouched /\ UNCHANGED changes
     ELSE Write(item, StatusOf(seen)) /\ Answered(Done)
  /\ UNCHANGED <<providerVars, unannounced, gone>>

\* Fault: the error is logged and not returned.
CallFailsForGood ==
  /\ Change /\ pc \in {"delete", "create", "update"}
  /\ Done
  /\ UNCHANGED <<providerVars, objects, unannounced, gone>>

\* The API server fails a call and does nothing.
CallFails ==
  /\ Change /\ pc \in {"delete", "create", "update"}
  /\ Retry
  /\ UNCHANGED <<providerVars, objects, unannounced, gone>>

-----------------------------------------------------------------------------
(* Others write insights too; the process restarts.                        *)

Meddle(n) ==
  /\ Change
  /\ insights[n] # None
  /\ \E status \in {None, Empty} \ {insights[n]} : Write(n, status)
  /\ current' = (current /\ item # n)
  /\ UNCHANGED <<providerVars, dirty, pc, item, seen, unannounced, gone>>

Restart ==
  /\ Change
  /\ RestartProvider
  /\ cached' = {n \in Node : insights[n] # None} /\ unseen' = {}
  /\ dirty' = cached'
  /\ Stop
  /\ unannounced' = {}
  /\ UNCHANGED <<insights, gone>>

Work == \/ \E n \in Node : Reconcile(n)
        \/ GetInsight \/ DeleteInsight \/ CreateInsight \/ UpdateStatus

Next ==
  \/ \E n \in Node : PublishState(n) \/ RemoveState(n)
  \/ AnnounceToNodes \/ AnnounceToPools \/ ReceiveForPools
  \/ Receive \/ Resync
  \/ \E n \in Node : Sync(n)
  \/ Work
  \/ CallFails
  \/ \E n \in Node : Meddle(n)
  \/ Restart

Spec == Init /\ [][Next]_vars

\* The provider goes on to announce, channels are received from, informers keep
\* up and resync, and the work queue is first in, first out.
Fairness ==
  /\ WF_vars(AnnounceToNodes) /\ WF_vars(AnnounceToPools) /\ WF_vars(ReceiveForPools)
  /\ WF_vars(Receive) /\ WF_vars(Resync)
  /\ \A n \in Node : WF_vars(Sync(n)) /\ SF_vars(Reconcile(n))
  /\ WF_vars(Work)

FairSpec == Spec /\ Fairness

-----------------------------------------------------------------------------
(* Properties.                                                             *)

\* Every variable has its type; the worker has a node unless it is idle, and
\* deletes or writes according to what it saw.
TypeOK ==
  /\ store \in [Node -> State \cup {None}]
  /\ nodeChan \in Seq(Node) /\ poolChan \in Seq(Pool)
  /\ announcing \in [node : Node \cup {None}, pool : Pool \cup {None}]
  /\ insights \in [Node -> Statuses \cup {None}]
  /\ cached \subseteq Node /\ unseen \subseteq Node /\ dirty \subseteq Node
  /\ pc \in {"idle", "get", "delete", "create", "update"}
  /\ item \in Node \cup {None} /\ (pc = "idle" <=> item = None)
  /\ seen \in State \cup {None}
  /\ pc = "delete" => seen = None
  /\ pc \in {"create", "update"} => seen # None
  /\ current \in BOOLEAN
  /\ unannounced \subseteq Node /\ gone \subseteq Node
  /\ changes \in Nat

\* Nothing is on its way to an insight, but for the next resync.
Quiet ==
  /\ announcing = Nothing /\ nodeChan = <<>>
  /\ unseen = {} /\ dirty = {} /\ pc = "idle"

\* Something still has to happen that makes the worker look at n, or it is
\* looking at the state that is stored now.
Pending(n) ==
  \/ announcing.node = n
  \/ \E i \in 1..Len(nodeChan) : nodeChan[i] = n
  \/ n \in dirty \cup unseen
  \/ item = n /\ seen = store[n]

\* However publications, lagging reads, conflicts, failed calls, other writers
\* and restarts interleave, when all is quiet every insight shows the state
\* stored for its node and no untracked node has one, except for what was never
\* announced.
QuietMeansMirrored ==
  Quiet => \A n \in Node \ unannounced : insights[n] = Due(n)

\* The informer is right about every insight it is not behind on.
InformerAgrees == \A n \in Node \ unseen : n \in cached <=> insights[n] # None

NothingForgotten ==
  \A n \in Node : insights[n] = Due(n) \/ n \in unannounced \/ Pending(n)

\* The invariant behind it: an insight that does not show what it should is on
\* somebody's list, whatever the informer has missed so far.
MirroredOrPending == InformerAgrees /\ NothingForgotten

\* When the outside world stops, insights become and stay what they should be.
\* What was never announced can only make one miss: an insight that is there is
\* resynced, so that those of untracked nodes go away and old ones are renewed.
EventuallyMirrored ==
  \A n \in Node : <>[](insights[n] = Due(n) \/ (n \in unannounced /\ insights[n] = None))

\* nodeprogressinsight_controller.go: "Node state not tracked - might be deleted
\* or not belong to any MCP": the worker sets out to delete an insight only when
\* its node is gone.
InsightDeletedOnlyWhenGone ==
  [][\A n \in Node :
       pc = "idle" /\ item' = n /\ seen' = None /\ n \in cached => n \in gone]_vars
=============================================================================
