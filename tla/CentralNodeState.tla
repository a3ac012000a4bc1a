-------------------------- MODULE CentralNodeState --------------------------
(***************************************************************************)
(* The central node state controller: internal/controller/nodestate and    *)
(* the watches of internal/controller/centralnodestate_controller.go.      *)
(*                                                                         *)
(* The cluster (nodes, pools, configs, clusterVersion) is the informers'   *)
(* view of it: client.Get and List read it, and an informer tells its      *)
(* listeners of a change right after it takes the change in.  Every        *)
(* Watches() has a listener of its own with a queue of its own, so the     *)
(* deletions of pools and their creations and updates are handled in       *)
(* separate goroutines; the same goes for MachineConfigs.  One worker      *)
(* takes nodes off the work queue and reconciles them, reading one thing   *)
(* after the other.                                                        *)
(***************************************************************************)
EXTENDS NodeAssessment, FiniteSets

CONSTANTS Node, Pool, Config,
          Version,
          Master, Worker,  \* the two pools with rules of their own in WhichMCP
          NodeShape,   \* what a Node may look like: NodeAssessment's fields, labels
          PoolShape,   \* what a pool may look like: selector (None: cannot be
                       \* converted to a label selector), paused, osImage
          ClusterVersions,  \* what the ClusterVersion may say: [version]
          Clusters,    \* the clusters a run may start in
          Capacity,    \* defaultChannelBufferSize
          MaxChanges   \* bound on cluster changes, failed reads and lists, and restarts

ASSUME CentralAssumption ==
  /\ None \notin Node \cup Pool \cup Config \cup Version \cup NodeShape \cup PoolShape
  /\ None \notin [version : Version \cup {None}]
  /\ ClusterVersions \subseteq [version : Version \cup {None}]
  /\ IsFiniteSet(Pool) /\ IsFiniteSet(Config)
  /\ Capacity \in Nat /\ MaxChanges \in Nat
  /\ \A c \in Clusters :
       /\ c.nodes \in [Node -> NodeShape \cup {None}]
       /\ c.pools \in [Pool -> PoolShape \cup {None}]
       /\ c.configs \in [Config -> [version : Version \cup {None}] \cup {None}]
       /\ c.clusterVersion \in ClusterVersions \cup {None}

\* What nodes report: the reasons they are not ready or degraded for.
Facts ==
  (UNION {s.mcdReason : s \in NodeShape})
    \cup (UNION {{t.reason : t \in s.troubles} : s \in NodeShape})

NodeStates ==
  [name : Node, pool : Pool, version : Version \cup {None}, desiredVersion : Version \cup {None},
   currentConfig : Config \cup {None}, desiredConfig : Config \cup {None},
   conditions : Seq(Conditions(Facts \cup OwnWords)),
   phase : Phases, message : SUBSET (Facts \cup OwnWords)]

ASSUME ShapesAssumption ==
  /\ \A s \in NodeShape : /\ {s.current, s.desired} \subseteq Config \cup {None}
                          /\ \A t \in s.troubles : t.since \in Nat
  /\ None \notin NodeStates

\* A state can be read back from its hash.  The reasons nodes give are none of the
\* words the controller writes; the operator annotates a node with both configs at
\* once; and the cluster-version operator never empties the history.
ASSUME HashAssumption ==
  /\ Facts \cap (Phases \cup ConditionTypes \cup {"True", "False"}) = {}
  /\ \A s \in NodeShape : s.current = None <=> s.desired = None
  /\ \A cv \in ClusterVersions : cv.version # None

VARIABLES
  nodes, pools, configs, clusterVersion,  \* the objects; None: there is none
  changes,          \* changes so far
  nodeEvents,       \* nodes with an event the controller has not seen
  poolEvents,       \* created and updated pools, in order, each with its selector
  poolDeletions,    \* deleted pools, in order
  configEvents,     \* created and updated configs, in order, with their versions
  configDeletions,  \* deleted configs, in order
  listing,          \* listeners about to request all nodes
  selectors,        \* MachineConfigPoolSelectorCache
  versions,         \* MachineConfigVersionCache
  dirty,            \* work queue: nodes to reconcile
  pc,               \* where the worker is
  item,             \* the node it reconciles
  got,              \* what it has read so far
  store,            \* the Store
  nodeChan, poolChan,  \* nodeInsightEvents, mcpInsightEvents
  overtaken,        \* history: objects with a deletion and another event handled
                    \* while the other was waiting
  unheeded,         \* history: pools changed without a change of selector
  missed            \* history: nodes that a list that failed did not request, and no
                    \* event or list since

cluster == <<nodes, pools, configs, clusterVersion>>
events  == <<nodeEvents, poolEvents, poolDeletions, configEvents, configDeletions>>
caches  == <<selectors, versions>>
worker  == <<pc, item, got>>
downstream == <<nodeChan, poolChan>>
history == <<overtaken, unheeded, missed>>
vars == <<cluster, changes, events, listing, caches, dirty, worker, store,
          downstream, history>>

Nowhere == [node |-> None, pool |-> None, spec |-> None, target |-> None]

SelectorOf(p) == IF pools[p] = None THEN None ELSE pools[p].selector
VersionOf(c)  == IF configs[c] = None THEN None ELSE configs[c].version
Existing(objects) == {x \in DOMAIN objects : objects[x] # None}

Listeners == {"pool", "deletedPool", "config", "deletedConfig", "clusterVersion"}

\* What a handler looks at: the object's name and what the cache keeps of it.
PoolEvent(p, spec)      == [object |-> p, holds |-> spec.selector]
ConfigEvent(c, content) == [object |-> c, holds |-> content.version]
Told(queue, x)          == \E i \in DOMAIN queue : queue[i].object = x
Waiting(deletions, x)   == \E i \in DOMAIN deletions : deletions[i] = x

\* A fresh informer tells of every object there is, in any order.
Orders(S) == {o \in [1..Cardinality(S) -> S] : {o[i] : i \in DOMAIN o} = S}
PoolListings(ps) ==
  {[i \in DOMAIN o |-> PoolEvent(o[i], ps[o[i]])] : o \in Orders(Existing(ps))}
ConfigListings(cs) ==
  {[i \in DOMAIN o |-> ConfigEvent(o[i], cs[o[i]])] : o \in Orders(Existing(cs))}

\* The process starts with nothing cached, stored or queued: SetupWithManager
\* leaves the caches to the informers' first events.
Init ==
  /\ \E c \in Clusters :
       /\ nodes = c.nodes /\ pools = c.pools
       /\ configs = c.configs /\ clusterVersion = c.clusterVersion
  /\ changes = 0
  /\ nodeEvents = Existing(nodes)
  /\ poolEvents \in PoolListings(pools) /\ poolDeletions = <<>>
  /\ configEvents \in ConfigListings(configs) /\ configDeletions = <<>>
  /\ listing = IF clusterVersion = None THEN {} ELSE {"clusterVersion"}
  /\ selectors = [p \in Pool |-> None] /\ versions = [c \in Config |-> None]
  /\ dirty = {} /\ pc = "idle" /\ item = None /\ got = Nowhere
  /\ store = [n \in Node |-> None]
  /\ nodeChan = <<>> /\ poolChan = <<>>
  /\ overtaken = {} /\ unheeded = {} /\ missed = {}

-----------------------------------------------------------------------------
(* The cluster.  Each action is an informer taking in one change and       *)
(* telling the listeners whose predicate lets it through.                  *)

Change == changes < MaxChanges /\ changes' = changes + 1

\* Created, changed or deleted; EnqueueRequestForObject looks at the name only.
ChangeNode(n, s) ==
  /\ Change /\ nodes[n] # s
  /\ nodes' = [nodes EXCEPT ![n] = s]
  /\ nodeEvents' = nodeEvents \cup {n}
  /\ UNCHANGED <<pools, configs, clusterVersion, poolEvents, poolDeletions, configEvents,
                 configDeletions, listing, caches, dirty, worker, store, downstream, history>>

\* EnqueueRequestsFromMapFunc maps the old object of an update, then the new.
SetPool(p, s) ==
  /\ Change /\ pools[p] # s
  /\ pools' = [pools EXCEPT ![p] = s]
  /\ LET told == IF pools[p] = None THEN poolEvents
                 ELSE Append(poolEvents, PoolEvent(p, pools[p]))
     IN  poolEvents' = Append(told, PoolEvent(p, s))
  /\ unheeded' = IF SelectorOf(p) = s.selector THEN unheeded \cup {p} ELSE unheeded
  /\ UNCHANGED <<nodes, configs, clusterVersion, nodeEvents, poolDeletions, configEvents,
                 configDeletions, listing, caches, dirty, worker, store, downstream, overtaken,
                 missed>>

DeletePool(p) ==
  /\ Change /\ pools[p] # None
  /\ pools' = [pools EXCEPT ![p] = None]
  /\ poolDeletions' = Append(poolDeletions, p)
  /\ UNCHANGED <<nodes, configs, clusterVersion, nodeEvents, poolEvents, configEvents,
                 configDeletions, listing, caches, dirty, worker, store, downstream, history>>

SetConfig(c, v) ==
  /\ Change /\ configs[c] # [version |-> v]
  /\ configs' = [configs EXCEPT ![c] = [version |-> v]]
  /\ LET told == IF configs[c] = None THEN configEvents
                 ELSE Append(configEvents, ConfigEvent(c, configs[c]))
     IN  configEvents' = Append(told, ConfigEvent(c, configs'[c]))
  /\ UNCHANGED <<nodes, pools, clusterVersion, nodeEvents, poolEvents, poolDeletions,
                 configDeletions, listing, caches, dirty, worker, store, downstream, history>>

DeleteConfig(c) ==
  /\ Change /\ configs[c] # None
  /\ configs' = [configs EXCEPT ![c] = None]
  /\ configDeletions' = Append(configDeletions, c)
  /\ UNCHANGED <<nodes, pools, clusterVersion, nodeEvents, poolEvents, poolDeletions,
                 configEvents, listing, caches, dirty, worker, store, downstream, history>>

\* Created, deleted or with a new history: StartedOrCompletedUpdating holds.
\* The handler looks at nothing but the list of nodes, so a waiting event and a
\* handler about to list are the same to the model.
ChangeClusterVersion(cv) ==
  /\ Change /\ clusterVersion # cv
  /\ clusterVersion' = cv
  /\ listing' = listing \cup {"clusterVersion"}
  /\ UNCHANGED <<nodes, pools, configs, events, caches, dirty, worker, store, downstream, history>>

-----------------------------------------------------------------------------
(* The listeners.  A handler changes its cache first and lists the nodes   *)
(* afterwards; it takes its next event when it is done.                    *)

DeliverNode(n) ==
  /\ n \in nodeEvents
  /\ nodeEvents' = nodeEvents \ {n}
  /\ dirty' = dirty \cup {n} /\ missed' = missed \ {n}
  /\ UNCHANGED <<cluster, changes, poolEvents, poolDeletions, configEvents, configDeletions,
                 listing, caches, worker, store, downstream, overtaken, unheeded>>

HandlePool ==
  /\ poolEvents # <<>> /\ "pool" \notin listing
  /\ LET e == Head(poolEvents)
     IN  /\ selectors' = [selectors EXCEPT ![e.object] = e.holds]
         /\ listing' = IF selectors[e.object] # e.holds THEN listing \cup {"pool"} ELSE listing
         /\ overtaken' = IF Waiting(poolDeletions, e.object)
                         THEN overtaken \cup {e.object} ELSE overtaken
  /\ poolEvents' = Tail(poolEvents)
  /\ UNCHANGED <<cluster, changes, nodeEvents, poolDeletions, configEvents, configDeletions,
                 versions, dirty, worker, store, downstream, unheeded, missed>>

\* Fault: the nodes are requested but the pool is not forgotten.
HandleDeletedPoolKeepingIt ==
  /\ poolDeletions # <<>> /\ "deletedPool" \notin listing
  /\ listing' = listing \cup {"deletedPool"}
  /\ poolDeletions' = Tail(poolDeletions)
  /\ UNCHANGED <<cluster, changes, nodeEvents, poolEvents, configEvents, configDeletions,
                 caches, dirty, worker, store, downstream, history>>

HandleDeletedPool ==
  /\ poolDeletions # <<>> /\ "deletedPool" \notin listing
  /\ LET p == Head(poolDeletions)
     IN  /\ selectors' = [selectors EXCEPT ![p] = None]
         /\ listing' = IF selectors[p] # None THEN listing \cup {"deletedPool"} ELSE listing
         /\ overtaken' = IF Told(poolEvents, p) THEN overtaken \cup {p} ELSE overtaken
  /\ poolDeletions' = Tail(poolDeletions)
  /\ UNCHANGED <<cluster, changes, nodeEvents, poolEvents, configEvents, configDeletions,
                 versions, dirty, worker, store, downstream, unheeded, missed>>

HandleConfig ==
  /\ configEvents # <<>> /\ "config" \notin listing
  /\ LET e == Head(configEvents)
     IN  /\ versions' = [versions EXCEPT ![e.object] = e.holds]
         /\ listing' = IF versions[e.object] # e.holds THEN listing \cup {"config"} ELSE listing
         /\ overtaken' = IF Waiting(configDeletions, e.object)
                         THEN overtaken \cup {e.object} ELSE overtaken
  /\ configEvents' = Tail(configEvents)
  /\ UNCHANGED <<cluster, changes, nodeEvents, poolEvents, poolDeletions, configDeletions,
                 selectors, dirty, worker, store, downstream, unheeded, missed>>

HandleDeletedConfig ==
  /\ configDeletions # <<>> /\ "deletedConfig" \notin listing
  /\ LET c == Head(configDeletions)
     IN  /\ versions' = [versions EXCEPT ![c] = None]
         /\ listing' = IF versions[c] # None THEN listing \cup {"deletedConfig"} ELSE listing
         /\ overtaken' = IF Told(configEvents, c) THEN overtaken \cup {c} ELSE overtaken
  /\ configDeletions' = Tail(configDeletions)
  /\ UNCHANGED <<cluster, changes, nodeEvents, poolEvents, poolDeletions, configEvents,
                 selectors, dirty, worker, store, downstream, unheeded, missed>>

\* Fault: only the nodes that are tracked are requested.
RequestTrackedNodes(l) ==
  /\ l \in listing
  /\ listing' = listing \ {l}
  /\ dirty' = dirty \cup Existing(store) /\ missed' = missed \ Existing(store)
  /\ UNCHANGED <<cluster, changes, events, caches, worker, store, downstream, overtaken,
                 unheeded>>

\* requestsForAllNodes.
RequestAllNodes(l) ==
  /\ l \in listing
  /\ listing' = listing \ {l}
  /\ dirty' = dirty \cup Existing(nodes) /\ missed' = missed \ Existing(nodes)
  /\ UNCHANGED <<cluster, changes, events, caches, worker, store, downstream, overtaken,
                 unheeded>>

\* The list fails: that is logged, and the event is used up.
ListFails(l) ==
  /\ Change
  /\ l \in listing
  /\ listing' = listing \ {l}
  /\ missed' = missed \cup Existing(nodes)
  /\ UNCHANGED <<cluster, events, caches, dirty, worker, store, downstream, overtaken,
                 unheeded>>

-----------------------------------------------------------------------------
(* The worker: Reconcile, one read at a time.                              *)

\* The pools WhichMCP may return for a node with these labels.  sync.Map.Range
\* promises no order; the first match ends the search unless it is the worker
\* pool, which any later match replaces.
WhichMCPs(cache, labels) ==
  LET matching == {p \in Pool : cache[p] # None /\ labels \in cache[p]}
  IN  IF matching = {} THEN {None}
      ELSE IF matching = {Worker} THEN {Worker}
      ELSE matching \ {Worker}

Finish == pc' = "idle" /\ item' = None /\ got' = Nowhere

Goto(label, field, value) ==
  pc' = label /\ got' = [got EXCEPT ![field] = value] /\ UNCHANGED item

Untrack(n) == store' = [store EXCEPT ![n] = None]

\* The work queue hands out a node and Reconcile gets it from the informer.
Begin(n) ==
  /\ pc = "idle" /\ n \in dirty
  /\ dirty' = dirty \ {n}
  /\ IF nodes[n] = None
     THEN Untrack(n) /\ UNCHANGED worker
     ELSE /\ pc' = "whichPool" /\ item' = n /\ got' = [Nowhere EXCEPT !.node = nodes[n]]
          /\ UNCHANGED store
  /\ UNCHANGED <<cluster, changes, events, listing, caches, downstream, history>>

WhichPool ==
  /\ pc = "whichPool"
  /\ \E p \in WhichMCPs(selectors, got.node.labels) :
       IF p = None
       THEN Untrack(item) /\ Finish
       ELSE Goto("getPool", "pool", p) /\ UNCHANGED store
  /\ UNCHANGED <<cluster, changes, events, listing, caches, dirty, downstream, history>>

\* Fault: a pool that is not found is not told from one that is.
GetPoolUnchecked ==
  /\ pc = "getPool"
  /\ Goto("getVersion", "spec", pools[got.pool])
  /\ UNCHANGED <<cluster, changes, events, listing, caches, dirty, store, downstream, history>>

\* No such pool: its deletion "triggers reconciliation".
GetPool ==
  /\ pc = "getPool"
  /\ IF pools[got.pool] = None THEN Finish
     ELSE Goto("getVersion", "spec", pools[got.pool])
  /\ UNCHANGED <<cluster, changes, events, listing, caches, dirty, store, downstream, history>>

\* Without a ClusterVersion Reconcile returns the error, and is retried.
GetVersion ==
  /\ pc = "getVersion"
  /\ IF clusterVersion = None
     THEN Finish /\ dirty' = dirty \cup {item}
     ELSE Goto("evaluate", "target", clusterVersion.version) /\ UNCHANGED dirty
  /\ UNCHANGED <<cluster, changes, events, listing, caches, store, downstream, history>>

\* Fault: the error is logged and not returned.
ReadFailsForGood ==
  /\ Change
  /\ pc \in {"getPool", "getVersion"}
  /\ Finish /\ UNCHANGED dirty
  /\ UNCHANGED <<cluster, events, listing, caches, store, downstream, history>>

\* The read of the pool or of the ClusterVersion fails with another error; a
\* failed read of the node leaves everything as it is.
ReadFails ==
  /\ Change
  /\ pc \in {"getPool", "getVersion"}
  /\ Finish /\ dirty' = dirty \cup {item}
  /\ UNCHANGED <<cluster, events, listing, caches, store, downstream, history>>

Evaluation(n) ==
  EvaluateNode(n, got.node, got.pool, got.spec, versions, got.target,
               IF store[n] = None THEN <<>> ELSE store[n].conditions, 1)

Unchanged(n, fresh) == store[n] # None /\ ComputeHash(store[n]) = ComputeHash(fresh)

\* Fault: the first state of a node is stored and announced to nobody.
EvaluateSilently ==
  /\ pc = "evaluate"
  /\ \E fresh \in {Evaluation(item)} :
       IF Unchanged(item, fresh) THEN Finish /\ UNCHANGED store
       ELSE /\ store' = [store EXCEPT ![item] = fresh]
            /\ IF store[item] = None THEN Finish
               ELSE pc' = "notifyNode" /\ UNCHANGED <<item, got>>
  /\ UNCHANGED <<cluster, changes, events, listing, caches, dirty, downstream, history>>

Evaluate ==
  /\ pc = "evaluate"
  /\ \E fresh \in {Evaluation(item)} :
       IF Unchanged(item, fresh) THEN Finish /\ UNCHANGED store
       ELSE /\ store' = [store EXCEPT ![item] = fresh]
            /\ pc' = "notifyNode" /\ UNCHANGED <<item, got>>
  /\ UNCHANGED <<cluster, changes, events, listing, caches, dirty, downstream, history>>

\* A non-blocking send: a full channel drops the notification.
Offer(channel, x) == IF Len(channel) < Capacity THEN Append(channel, x) ELSE channel

NotifyNode ==
  /\ pc = "notifyNode"
  /\ nodeChan' = Offer(nodeChan, item)
  /\ pc' = "notifyPool"
  /\ UNCHANGED <<cluster, changes, events, listing, caches, dirty, item, got, store, poolChan, history>>

NotifyPool ==
  /\ pc = "notifyPool"
  /\ poolChan' = Offer(poolChan, got.pool)
  /\ Finish
  /\ UNCHANGED <<cluster, changes, events, listing, caches, dirty, store, nodeChan, history>>

-----------------------------------------------------------------------------
(* The sources of the downstream controllers receive; the process restarts *)
(* or another one takes over as leader.                                    *)

TakeNode ==
  /\ nodeChan # <<>> /\ nodeChan' = Tail(nodeChan)
  /\ UNCHANGED <<cluster, changes, events, listing, caches, dirty, worker, store, poolChan, history>>

TakePool ==
  /\ poolChan # <<>> /\ poolChan' = Tail(poolChan)
  /\ UNCHANGED <<cluster, changes, events, listing, caches, dirty, worker, store, nodeChan, history>>

Restart ==
  /\ Change
  /\ nodeEvents' = Existing(nodes)
  /\ poolEvents' \in PoolListings(pools) /\ poolDeletions' = <<>>
  /\ configEvents' \in ConfigListings(configs) /\ configDeletions' = <<>>
  /\ listing' = IF clusterVersion = None THEN {} ELSE {"clusterVersion"}
  /\ selectors' = [p \in Pool |-> None] /\ versions' = [c \in Config |-> None]
  /\ dirty' = {} /\ Finish
  /\ store' = [n \in Node |-> None]
  /\ nodeChan' = <<>> /\ poolChan' = <<>>
  /\ overtaken' = {} /\ unheeded' = {} /\ missed' = {}
  /\ UNCHANGED cluster

ClusterChanges ==
  \/ \E n \in Node, s \in NodeShape \cup {None} : ChangeNode(n, s)
  \/ \E p \in Pool, s \in PoolShape : SetPool(p, s)
  \/ \E p \in Pool : DeletePool(p)
  \/ \E c \in Config, v \in Version \cup {None} : SetConfig(c, v)
  \/ \E c \in Config : DeleteConfig(c)
  \/ \E cv \in ClusterVersions \cup {None} : ChangeClusterVersion(cv)

Handle ==
  \/ \E n \in Node : DeliverNode(n)
  \/ HandlePool \/ HandleDeletedPool \/ HandleConfig \/ HandleDeletedConfig
  \/ \E l \in Listeners : RequestAllNodes(l)

Reconcile ==
  \/ \E n \in Node : Begin(n)
  \/ WhichPool \/ GetPool \/ GetVersion \/ Evaluate \/ NotifyNode \/ NotifyPool

Next ==
  \/ ClusterChanges
  \/ Handle
  \/ Reconcile
  \/ ReadFails \/ \E l \in Listeners : ListFails(l)
  \/ TakeNode \/ TakePool
  \/ Restart

Spec == Init /\ [][Next]_vars

\* Listeners, the worker and the receivers run whenever they can.  The work
\* queue is first in, first out: a node in it is taken out sooner or later,
\* although others keep the worker busy in between.
Fairness ==
  /\ WF_vars(Handle) /\ WF_vars(Reconcile)
  /\ \A n \in Node : SF_vars(Begin(n))
  /\ WF_vars(TakeNode) /\ WF_vars(TakePool)

FairSpec == Spec /\ Fairness

-----------------------------------------------------------------------------
(* Properties.                                                             *)

\* None: a selector that cannot be converted, or no selector at all.
Selectors == {s.selector : s \in PoolShape} \cup {None}

Steps == {"idle", "whichPool", "getPool", "getVersion", "evaluate", "notifyNode", "notifyPool"}

ClusterTypeOK ==
  /\ nodes \in [Node -> NodeShape \cup {None}]
  /\ pools \in [Pool -> PoolShape \cup {None}]
  /\ configs \in [Config -> [version : Version \cup {None}] \cup {None}]
  /\ clusterVersion \in ClusterVersions \cup {None}
  /\ changes \in Nat

ListenersTypeOK ==
  /\ nodeEvents \subseteq Node /\ dirty \subseteq Node
  /\ poolEvents \in Seq([object : Pool, holds : Selectors])
  /\ configEvents \in Seq([object : Config, holds : Version \cup {None}])
  /\ poolDeletions \in Seq(Pool) /\ configDeletions \in Seq(Config)
  /\ listing \subseteq Listeners
  /\ selectors \in [Pool -> Selectors]
  /\ versions \in [Config -> Version \cup {None}]
  /\ overtaken \subseteq Pool \cup Config /\ unheeded \subseteq Pool
  /\ missed \subseteq Node

WorkerTypeOK ==
  /\ pc \in Steps
  /\ IF pc = "idle" THEN item = None ELSE item \in Node /\ got.node \in NodeShape
  /\ pc \in Steps \ {"idle", "whichPool"} => got.pool \in Pool
  /\ pc \in {"getVersion", "evaluate", "notifyNode", "notifyPool"} => got.spec \in PoolShape
  /\ pc \in {"evaluate", "notifyNode", "notifyPool"} => got.target \in Version \cup {None}
  /\ DOMAIN got = {"node", "pool", "spec", "target"}

StoreTypeOK ==
  DOMAIN store = Node /\ nodeChan \in Seq(Node) /\ poolChan \in Seq(Pool)

\* Every variable has its type, and the worker has read what its place says.
TypeOK == ClusterTypeOK /\ ListenersTypeOK /\ WorkerTypeOK /\ StoreTypeOK

\* Nothing is on its way to the store.
Quiet ==
  /\ nodeEvents = {} /\ poolEvents = <<>> /\ poolDeletions = <<>>
  /\ configEvents = <<>> /\ configDeletions = <<>>
  /\ listing = {} /\ dirty = {} /\ pc = "idle"

\* The store has for n what the cluster as it is evaluates to.
UpToDate(n) ==
  IF nodes[n] = None THEN store[n] = None
  ELSE \E p \in WhichMCPs([q \in Pool |-> SelectorOf(q)], nodes[n].labels) :
         IF p = None THEN store[n] = None
         ELSE /\ store[n] # None
              /\ Shown(store[n]) =
                 Shown(EvaluateNode(n, nodes[n], p, pools[p], [c \in Config |-> VersionOf(c)],
                         clusterVersion.version, store[n].conditions, 1))

\* Whatever order events, handlers and reads come in, and whenever the process
\* restarts, once everything has been handled the store is up to date with
\* every node, pool, config and the target version: no change of a node is
\* lost because its pool or its version was learned late, or changed while it
\* was being reconciled.  Deletions that were handled out of order and pool
\* changes other than of the selector are excepted, and the nodes that a list that
\* failed should have requested, until they are requested again.
QuietMeansUpToDate ==
  Quiet /\ overtaken = {} /\ unheeded = {} => \A n \in Node \ missed : UpToDate(n)

\* The caches that decide about pools and versions hold exactly what exists,
\* for every object whose events were not handled out of order.
QuietMeansCachesAgree ==
  Quiet => /\ \A p \in Pool \ overtaken : selectors[p] = SelectorOf(p)
           /\ \A c \in Config \ overtaken : versions[c] = VersionOf(c)

\* The latest event about x in a queue tells of holding v.
LatestHolds(queue, x, v) ==
  \A i \in DOMAIN queue :
    queue[i].object = x /\ (\A j \in DOMAIN queue : j > i => queue[j].object # x) =>
      queue[i].holds = v

\* What is cached for x is what it has now, or will be when x's events are handled.
CatchesUp(x, cached, queue, deletions, exists, now) ==
  /\ Told(queue, x) /\ ~Waiting(deletions, x)  => LatestHolds(queue, x, now)
  /\ ~Told(queue, x) /\ Waiting(deletions, x)  => ~exists
  /\ ~Told(queue, x) /\ ~Waiting(deletions, x) => cached = now

\* The invariant behind it: unless a deletion and another event of an object are
\* waiting side by side, the events waiting bring the cache up to date.
CachesCatchUp ==
  /\ \A p \in Pool \ overtaken :
       CatchesUp(p, selectors[p], poolEvents, poolDeletions, pools[p] # None, SelectorOf(p))
  /\ \A c \in Config \ overtaken :
       CatchesUp(c, versions[c], configEvents, configDeletions, configs[c] # None, VersionOf(c))

\* The controller keeps its promises to the controllers downstream: states are
\* stored before they are announced and each one is announced before the next
\* is stored (FR-007).
Provider == INSTANCE StateProvider WITH
  announcing <- [node |-> IF pc = "notifyNode" THEN item ELSE None,
                 pool |-> IF pc \in {"notifyNode", "notifyPool"} THEN got.pool ELSE None]
ImplementsProvider == Provider!ProviderSpec

\* state.go: ComputeHash "computes a hash of the node state for efficient change
\* detection": a fresh state that is dropped as unchanged shows nothing new.
UnchangedMeansSame ==
  pc = "evaluate" /\ store[item] # None =>
    LET fresh == Evaluation(item)
    IN  ComputeHash(fresh) = ComputeHash(store[item]) => Shown(fresh) = Shown(store[item])

\* When the cluster stops changing the store becomes and stays up to date.
EventuallyUpToDate ==
  <>[](overtaken = {} /\ unheeded = {} /\ clusterVersion # None =>
         \A n \in Node \ missed : UpToDate(n))
=============================================================================
