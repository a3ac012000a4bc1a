------------------------ MODULE CentralNodeState_proofs ------------------------
(***************************************************************************)
(* Proofs about CentralNodeState, for any nodes, pools, configs, shapes    *)
(* and number of changes: the types, and that the two caches agree with    *)
(* the cluster whenever all is quiet, for every object whose events were   *)
(* not handled out of order.                                               *)
(***************************************************************************)
EXTENDS CentralNodeState, NodeAssessment_proofs, FiniteSetTheorems

PoolNews   == [object : Pool, holds : Selectors]
ConfigNews == [object : Config, holds : Version \cup {None}]

LEMMA AppendType ==
  ASSUME NEW S, NEW q \in Seq(S), NEW x \in S
  PROVE  Append(q, x) \in Seq(S)
OBVIOUS

LEMMA HeadTailType ==
  ASSUME NEW S, NEW q \in Seq(S), q # <<>>
  PROVE  Head(q) \in S /\ Tail(q) \in Seq(S)
OBVIOUS

LEMMA OfferType ==
  ASSUME NEW S, NEW channel \in Seq(S), NEW x \in S
  PROVE  Offer(channel, x) \in Seq(S)
BY DEF Offer

\* What an event tells of is typed when the object is.
LEMMA PoolEventType ==
  ASSUME NEW p \in Pool, NEW s \in PoolShape
  PROVE  PoolEvent(p, s) \in PoolNews
BY DEF PoolEvent, PoolNews, Selectors

LEMMA ConfigEventType ==
  ASSUME NEW c \in Config, NEW content \in [version : Version \cup {None}]
  PROVE  ConfigEvent(c, content) \in ConfigNews
BY DEF ConfigEvent, ConfigNews

-----------------------------------------------------------------------------
(* A fresh informer's listings: what Init and Restart have in common.      *)

LEMMA OrdersType ==
  ASSUME NEW S, IsFiniteSet(S), NEW o \in Orders(S)
  PROVE  /\ o \in Seq(S)
         /\ \A x \in S : \E i \in DOMAIN o : o[i] = x
<1>1. Cardinality(S) \in Nat
  BY FS_CardinalityType
<1>2. o \in [1..Cardinality(S) -> S] /\ {o[i] : i \in DOMAIN o} = S
  BY DEF Orders
<1> QED
  BY <1>1, <1>2

LEMMA PoolListingsType ==
  ASSUME NEW ps \in [Pool -> PoolShape \cup {None}], NEW q \in PoolListings(ps)
  PROVE  /\ q \in Seq(PoolNews)
         /\ \A p \in Pool : ps[p] # None => Told(q, p)
         /\ \A i \in DOMAIN q : ps[q[i].object] # None /\ q[i].holds = ps[q[i].object].selector
<1>1. PICK o \in Orders(Existing(ps)) :
        q = [i \in DOMAIN o |-> PoolEvent(o[i], ps[o[i]])]
  BY DEF PoolListings
<1>2. Existing(ps) \subseteq Pool /\ IsFiniteSet(Existing(ps))
  BY FS_Subset, CentralAssumption DEF Existing
<1>3. /\ o \in Seq(Existing(ps))
      /\ \A x \in Existing(ps) : \E i \in DOMAIN o : o[i] = x
  BY <1>1, <1>2, OrdersType
<1>4. /\ DOMAIN q = DOMAIN o /\ DOMAIN o = 1..Len(o) /\ Len(o) \in Nat
      /\ \A i \in DOMAIN q : q[i] = PoolEvent(o[i], ps[o[i]])
  BY <1>1, <1>3
<1>5. \A i \in DOMAIN q : /\ o[i] \in Pool /\ ps[o[i]] \in PoolShape /\ ps[o[i]] # None
                          /\ q[i].object = o[i] /\ q[i].holds = ps[o[i]].selector
                          /\ q[i] \in PoolNews
  BY <1>2, <1>3, <1>4, PoolEventType DEF Existing, PoolEvent
<1>6. q \in Seq(PoolNews)
  BY <1>1, <1>4, <1>5
<1>7. \A p \in Pool : ps[p] # None => Told(q, p)
  BY <1>3, <1>4, <1>5 DEF Existing, Told
<1> QED
  BY <1>5, <1>6, <1>7

LEMMA ConfigListingsType ==
  ASSUME NEW cs \in [Config -> [version : Version \cup {None}] \cup {None}],
         NEW q \in ConfigListings(cs)
  PROVE  /\ q \in Seq(ConfigNews)
         /\ \A c \in Config : cs[c] # None => Told(q, c)
         /\ \A i \in DOMAIN q : cs[q[i].object] # None /\ q[i].holds = cs[q[i].object].version
<1>1. PICK o \in Orders(Existing(cs)) :
        q = [i \in DOMAIN o |-> ConfigEvent(o[i], cs[o[i]])]
  BY DEF ConfigListings
<1>2. Existing(cs) \subseteq Config /\ IsFiniteSet(Existing(cs))
  BY FS_Subset, CentralAssumption DEF Existing
<1>3. /\ o \in Seq(Existing(cs))
      /\ \A x \in Existing(cs) : \E i \in DOMAIN o : o[i] = x
  BY <1>1, <1>2, OrdersType
<1>4. /\ DOMAIN q = DOMAIN o /\ DOMAIN o = 1..Len(o) /\ Len(o) \in Nat
      /\ \A i \in DOMAIN q : q[i] = ConfigEvent(o[i], cs[o[i]])
  BY <1>1, <1>3
<1>5. \A i \in DOMAIN q : /\ o[i] \in Config /\ cs[o[i]] \in [version : Version \cup {None}]
                          /\ cs[o[i]] # None
                          /\ q[i].object = o[i] /\ q[i].holds = cs[o[i]].version
                          /\ q[i] \in ConfigNews
  BY <1>2, <1>3, <1>4, ConfigEventType DEF Existing, ConfigEvent
<1>6. q \in Seq(ConfigNews)
  BY <1>1, <1>4, <1>5
<1>7. \A c \in Config : cs[c] # None => Told(q, c)
  BY <1>3, <1>4, <1>5 DEF Existing, Told
<1> QED
  BY <1>5, <1>6, <1>7

-----------------------------------------------------------------------------
(* Types.                                                                  *)

\* The initial states are typed.
LEMMA InitTypeOK == Init => TypeOK
<1> SUFFICES ASSUME Init PROVE TypeOK
  OBVIOUS
<1>1. ClusterTypeOK
  BY CentralAssumption DEF Init, ClusterTypeOK
<1>2. poolEvents \in Seq(PoolNews) /\ configEvents \in Seq(ConfigNews)
  BY <1>1, PoolListingsType, ConfigListingsType DEF Init, ClusterTypeOK
<1>3. ListenersTypeOK
  <2>1. selectors \in [Pool -> Selectors] /\ versions \in [Config -> Version \cup {None}]
    BY DEF Init, Selectors
  <2>2. poolDeletions \in Seq(Pool) /\ configDeletions \in Seq(Config)
    BY DEF Init
  <2>3. /\ nodeEvents \subseteq Node /\ dirty \subseteq Node /\ listing \subseteq Listeners
        /\ overtaken = {} /\ unheeded = {} /\ missed = {}
    BY <1>1 DEF Init, Existing, Listeners, ClusterTypeOK
  <2> QED
    BY <1>2, <2>1, <2>2, <2>3 DEF ListenersTypeOK, PoolNews, ConfigNews
<1>4. WorkerTypeOK
  BY DEF Init, WorkerTypeOK, Steps, Nowhere
<1>5. StoreTypeOK
  BY DEF Init, StoreTypeOK
<1> QED
  BY <1>1, <1>3, <1>4, <1>5 DEF TypeOK

\* The cluster changes.
LEMMA ClusterStepTypeOK ==
  ASSUME TypeOK, ClusterChanges
  PROVE  TypeOK'
<1> USE DEF TypeOK
<1>1. changes' \in Nat
  <2>1. Change
    BY DEF ClusterChanges, ChangeNode, SetPool, DeletePool, SetConfig, DeleteConfig,
           ChangeClusterVersion
  <2> QED
    BY <2>1 DEF Change, ClusterTypeOK
<1>2. WorkerTypeOK' /\ StoreTypeOK'
  BY DEF ClusterChanges, WorkerTypeOK, StoreTypeOK, worker, downstream, ChangeNode, SetPool, DeletePool,
         SetConfig, DeleteConfig, ChangeClusterVersion
<1>3. ASSUME NEW n \in Node, NEW s \in NodeShape \cup {None}, ChangeNode(n, s)
      PROVE  ClusterTypeOK' /\ ListenersTypeOK'
  BY <1>1, <1>3 DEF ChangeNode, ClusterTypeOK, ListenersTypeOK, caches, history
<1>4. ASSUME NEW p \in Pool, NEW s \in PoolShape, SetPool(p, s)
      PROVE  ClusterTypeOK' /\ ListenersTypeOK'
  <2>1. ClusterTypeOK'
    BY <1>1, <1>4 DEF SetPool, ClusterTypeOK
  <2>2. poolEvents' \in Seq(PoolNews)
    <3>1. /\ pools[p] # None => PoolEvent(p, pools[p]) \in PoolNews
          /\ PoolEvent(p, s) \in PoolNews
      BY PoolEventType DEF ClusterTypeOK
    <3> QED
      BY <1>4, <3>1, AppendType DEF SetPool, ListenersTypeOK, PoolNews
  <2>3. unheeded' \subseteq Pool
    BY <1>4 DEF SetPool, ListenersTypeOK
  <2> QED
    BY <1>4, <2>1, <2>2, <2>3 DEF SetPool, ListenersTypeOK, PoolNews, caches
<1>5. ASSUME NEW p \in Pool, DeletePool(p)
      PROVE  ClusterTypeOK' /\ ListenersTypeOK'
  <2>1. ClusterTypeOK'
    BY <1>1, <1>5 DEF DeletePool, ClusterTypeOK
  <2>2. poolDeletions' \in Seq(Pool)
    BY <1>5, AppendType DEF DeletePool, ListenersTypeOK
  <2>3. UNCHANGED <<nodeEvents, dirty, poolEvents, configEvents,
                     configDeletions, listing, caches, history>>
    BY <1>5 DEF DeletePool
  <2> QED
    BY <1>2, <2>1, <2>2, <2>3 DEF ListenersTypeOK, caches, history
<1>6. ASSUME NEW c \in Config, NEW v \in Version \cup {None}, SetConfig(c, v)
      PROVE  ClusterTypeOK' /\ ListenersTypeOK'
  <2>1. ClusterTypeOK' /\ configs'[c] = [version |-> v]
    BY <1>1, <1>6 DEF SetConfig, ClusterTypeOK
  <2>2. configEvents' \in Seq(ConfigNews)
    <3>1. /\ configs[c] # None => ConfigEvent(c, configs[c]) \in ConfigNews
          /\ ConfigEvent(c, configs'[c]) \in ConfigNews
      BY <2>1, ConfigEventType DEF ClusterTypeOK
    <3> QED
      BY <1>6, <3>1, AppendType DEF SetConfig, ListenersTypeOK, ConfigNews
  <2> QED
    BY <1>6, <2>1, <2>2 DEF SetConfig, ListenersTypeOK, ConfigNews, caches, history
<1>7. ASSUME NEW c \in Config, DeleteConfig(c)
      PROVE  ClusterTypeOK' /\ ListenersTypeOK'
  <2>1. ClusterTypeOK'
    BY <1>1, <1>7 DEF DeleteConfig, ClusterTypeOK
  <2>2. configDeletions' \in Seq(Config)
    BY <1>7, AppendType DEF DeleteConfig, ListenersTypeOK
  <2>3. UNCHANGED <<nodeEvents, dirty, poolEvents, poolDeletions,
                     configEvents, listing, caches, history>>
    BY <1>7 DEF DeleteConfig
  <2> QED
    BY <1>2, <2>1, <2>2, <2>3 DEF ListenersTypeOK, caches, history
<1>8. ASSUME NEW cv \in ClusterVersions \cup {None}, ChangeClusterVersion(cv)
      PROVE  ClusterTypeOK' /\ ListenersTypeOK'
  BY <1>1, <1>8
  DEF ChangeClusterVersion, ClusterTypeOK, ListenersTypeOK, Listeners, events, caches, history
<1> QED
  BY <1>2, <1>3, <1>4, <1>5, <1>6, <1>7, <1>8 DEF ClusterChanges

\* The listeners handle.
LEMMA HandleTypeOK ==
  ASSUME TypeOK, Handle
  PROVE  TypeOK'
<1> USE DEF TypeOK
<1>1. ClusterTypeOK' /\ WorkerTypeOK' /\ StoreTypeOK'
  BY DEF Handle, DeliverNode, HandlePool, HandleDeletedPool, HandleConfig,
         HandleDeletedConfig, RequestAllNodes, cluster, worker, downstream,
         ClusterTypeOK, WorkerTypeOK, StoreTypeOK
<1>2. ASSUME NEW n \in Node, DeliverNode(n) PROVE ListenersTypeOK'
  BY <1>2 DEF DeliverNode, ListenersTypeOK, caches, history
<1>3. CASE HandlePool
  <2>1. poolEvents \in Seq(PoolNews) /\ poolEvents # <<>>
    BY <1>3 DEF HandlePool, ListenersTypeOK, PoolNews
  <2>2. Head(poolEvents) \in PoolNews /\ Tail(poolEvents) \in Seq(PoolNews)
    BY <2>1, HeadTailType
  <2>3. selectors' \in [Pool -> Selectors] /\ overtaken' \subseteq Pool \cup Config
    BY <1>3, <2>2 DEF HandlePool, ListenersTypeOK, PoolNews
  <2>4. listing' \subseteq Listeners
    BY <1>3 DEF HandlePool, ListenersTypeOK, Listeners
  <2>5. poolEvents' \in Seq(PoolNews)
    BY <1>3, <2>2 DEF HandlePool
  <2>6. UNCHANGED <<nodeEvents, poolDeletions, configEvents, configDeletions,
                     versions, dirty, unheeded, missed>>
    BY <1>3 DEF HandlePool
  <2> QED
    BY <1>1, <2>3, <2>4, <2>5, <2>6 DEF ListenersTypeOK, PoolNews
<1>4. CASE HandleDeletedPool
  <2>0. None \in Selectors
    BY DEF Selectors
  <2>1. poolDeletions \in Seq(Pool) /\ poolDeletions # <<>>
    BY <1>4 DEF HandleDeletedPool, ListenersTypeOK
  <2>2. Head(poolDeletions) \in Pool /\ Tail(poolDeletions) \in Seq(Pool)
    BY <2>1, HeadTailType
  <2>3. selectors' \in [Pool -> Selectors] /\ overtaken' \subseteq Pool \cup Config
    BY <1>4, <2>2, <2>0 DEF HandleDeletedPool, ListenersTypeOK
  <2>4. listing' \subseteq Listeners
    BY <1>4 DEF HandleDeletedPool, ListenersTypeOK, Listeners
  <2>5. poolDeletions' \in Seq(Pool)
    BY <1>4, <2>2 DEF HandleDeletedPool
  <2>6. UNCHANGED <<nodeEvents, poolEvents, configEvents, configDeletions,
                     versions, dirty, unheeded, missed>>
    BY <1>4 DEF HandleDeletedPool
  <2> QED
    BY <1>1, <2>3, <2>4, <2>5, <2>6 DEF ListenersTypeOK
<1>5. CASE HandleConfig
  <2>1. configEvents \in Seq(ConfigNews) /\ configEvents # <<>>
    BY <1>5 DEF HandleConfig, ListenersTypeOK, ConfigNews
  <2>2. Head(configEvents) \in ConfigNews /\ Tail(configEvents) \in Seq(ConfigNews)
    BY <2>1, HeadTailType
  <2>3. versions' \in [Config -> Version \cup {None}] /\ overtaken' \subseteq Pool \cup Config
    BY <1>5, <2>2 DEF HandleConfig, ListenersTypeOK, ConfigNews
  <2>4. listing' \subseteq Listeners
    BY <1>5 DEF HandleConfig, ListenersTypeOK, Listeners
  <2>5. configEvents' \in Seq(ConfigNews)
    BY <1>5, <2>2 DEF HandleConfig
  <2>6. UNCHANGED <<nodeEvents, poolEvents, poolDeletions, configDeletions,
                     selectors, dirty, unheeded, missed>>
    BY <1>5 DEF HandleConfig
  <2> QED
    BY <1>1, <2>3, <2>4, <2>5, <2>6 DEF ListenersTypeOK, ConfigNews
<1>6. CASE HandleDeletedConfig
  <2>1. configDeletions \in Seq(Config) /\ configDeletions # <<>>
    BY <1>6 DEF HandleDeletedConfig, ListenersTypeOK
  <2>2. Head(configDeletions) \in Config /\ Tail(configDeletions) \in Seq(Config)
    BY <2>1, HeadTailType
  <2>3. versions' \in [Config -> Version \cup {None}] /\ overtaken' \subseteq Pool \cup Config
    BY <1>6, <2>2 DEF HandleDeletedConfig, ListenersTypeOK
  <2>4. listing' \subseteq Listeners
    BY <1>6 DEF HandleDeletedConfig, ListenersTypeOK, Listeners
  <2>5. configDeletions' \in Seq(Config)
    BY <1>6, <2>2 DEF HandleDeletedConfig
  <2>6. UNCHANGED <<nodeEvents, poolEvents, poolDeletions, configEvents,
                     selectors, dirty, unheeded, missed>>
    BY <1>6 DEF HandleDeletedConfig
  <2> QED
    BY <1>1, <2>3, <2>4, <2>5, <2>6 DEF ListenersTypeOK
<1>7. ASSUME NEW l \in Listeners, RequestAllNodes(l) PROVE ListenersTypeOK'
  <2>1. Existing(nodes) \subseteq Node
    BY DEF Existing, ClusterTypeOK
  <2> QED
    BY <1>7, <2>1 DEF RequestAllNodes, ListenersTypeOK, events, caches, history
<1> QED
  BY <1>1, <1>2, <1>3, <1>4, <1>5, <1>6, <1>7 DEF Handle

\* A list fails.
LEMMA ListFailsTypeOK ==
  ASSUME TypeOK, NEW l \in Listeners, ListFails(l)
  PROVE  TypeOK'
<1>1. Existing(nodes) \subseteq Node
  BY DEF Existing, TypeOK, ClusterTypeOK
<1>2. ClusterTypeOK' /\ WorkerTypeOK' /\ StoreTypeOK'
  BY DEF ListFails, Change, cluster, worker, downstream, TypeOK, ClusterTypeOK,
         WorkerTypeOK, StoreTypeOK
<1>3. ListenersTypeOK'
  BY <1>1 DEF ListFails, events, caches, TypeOK, ListenersTypeOK
<1> QED
  BY <1>2, <1>3 DEF TypeOK

\* The worker finds a pool or none.
LEMMA WhichMCPsType ==
  ASSUME NEW cache, NEW labels
  PROVE  WhichMCPs(cache, labels) \subseteq Pool \cup {None}
BY DEF WhichMCPs

\* The worker reads and writes.
LEMMA WorkerTypeStep ==
  ASSUME TypeOK, Reconcile \/ ReadFails
  PROVE  TypeOK'
<1> USE DEF TypeOK
<1>1. ClusterTypeOK'
  BY DEF Reconcile, Begin, WhichPool, GetPool, GetVersion, Evaluate, NotifyNode, NotifyPool,
         ReadFails, Change, cluster, ClusterTypeOK
<1>2. pc # "idle" => item \in Node
  BY DEF WorkerTypeOK
<1>3. ListenersTypeOK'
  <2>1. /\ UNCHANGED <<events, listing, caches, history>>
        /\ dirty' = dirty \/ (pc # "idle" /\ dirty' = dirty \cup {item})
             \/ \E n \in Node : dirty' = dirty \ {n}
    BY DEF Reconcile, Begin, WhichPool, GetPool, GetVersion, Evaluate, NotifyNode, NotifyPool,
           ReadFails
  <2> QED
    BY <1>2, <2>1 DEF ListenersTypeOK, events, caches, history
<1>4. ASSUME Finish PROVE WorkerTypeOK'
  BY <1>4 DEF Finish, WorkerTypeOK, Steps, Nowhere
<1>5. ASSUME NEW n \in Node, Begin(n) PROVE WorkerTypeOK' /\ StoreTypeOK'
  <2>1. StoreTypeOK'
    BY <1>5 DEF Begin, Untrack, StoreTypeOK, downstream
  <2>2. CASE nodes[n] = None
    BY <1>5, <2>1, <2>2 DEF Begin, worker, WorkerTypeOK
  <2>3. CASE nodes[n] # None
    <3>1. nodes[n] \in NodeShape /\ pc' = "whichPool" /\ item' = n /\ got'.node = nodes[n]
          /\ DOMAIN got' = {"node", "pool", "spec", "target"}
      BY <1>5, <2>3 DEF Begin, ClusterTypeOK, Nowhere
    <3> QED
      BY <2>1, <3>1 DEF WorkerTypeOK, Steps
  <2> QED
    BY <2>2, <2>3
<1>6. ASSUME WhichPool PROVE WorkerTypeOK' /\ StoreTypeOK'
  <2>1. StoreTypeOK'
    BY <1>6 DEF WhichPool, Untrack, StoreTypeOK, downstream
  <2>2. CASE ~Finish
    <3>1. PICK p \in Pool : Goto("getPool", "pool", p)
      BY <1>6, <2>2, WhichMCPsType, CentralAssumption DEF WhichPool
    <3> QED
      BY <1>6, <2>1, <3>1 DEF WhichPool, Goto, WorkerTypeOK, Steps
  <2> QED
    BY <1>4, <2>1, <2>2
<1>7. ASSUME GetPool PROVE WorkerTypeOK' /\ StoreTypeOK'
  <2>1. StoreTypeOK'
    BY <1>7 DEF GetPool, StoreTypeOK, downstream
  <2>2. CASE ~Finish
    <3>1. /\ Goto("getVersion", "spec", pools[got.pool]) /\ pc = "getPool"
          /\ got.pool \in Pool /\ pools[got.pool] \in PoolShape
      BY <1>7, <2>2 DEF GetPool, WorkerTypeOK, Steps, ClusterTypeOK
    <3> QED
      BY <2>1, <3>1 DEF Goto, WorkerTypeOK, Steps
  <2> QED
    BY <1>4, <2>1, <2>2
<1>8. ASSUME GetVersion PROVE WorkerTypeOK' /\ StoreTypeOK'
  <2>1. StoreTypeOK'
    BY <1>8 DEF GetVersion, StoreTypeOK, downstream
  <2>2. CASE ~Finish
    <3>1. /\ Goto("evaluate", "target", clusterVersion.version) /\ pc = "getVersion"
          /\ clusterVersion.version \in Version \cup {None}
      BY <1>8, <2>2, CentralAssumption DEF GetVersion, ClusterTypeOK
    <3> QED
      BY <2>1, <3>1 DEF Goto, WorkerTypeOK, Steps
  <2> QED
    BY <1>4, <2>1, <2>2
<1>9. ASSUME Evaluate PROVE WorkerTypeOK' /\ StoreTypeOK'
  <2>1. StoreTypeOK'
    BY <1>9 DEF Evaluate, StoreTypeOK, downstream
  <2>2. CASE ~Finish
    BY <1>9, <2>1, <2>2 DEF Evaluate, WorkerTypeOK, Steps
  <2> QED
    BY <1>4, <2>1, <2>2
<1>10. ASSUME NotifyNode PROVE WorkerTypeOK' /\ StoreTypeOK'
  <2>1. nodeChan' \in Seq(Node)
    BY <1>2, <1>10, OfferType DEF NotifyNode, StoreTypeOK
  <2>2. StoreTypeOK'
    BY <1>10, <2>1 DEF NotifyNode, StoreTypeOK
  <2> QED
    BY <1>10, <2>2 DEF NotifyNode, WorkerTypeOK, Steps
<1>11. ASSUME NotifyPool PROVE WorkerTypeOK' /\ StoreTypeOK'
  <2>1. poolChan' \in Seq(Pool)
    <3>1. got.pool \in Pool
      BY <1>11 DEF NotifyPool, WorkerTypeOK, Steps
    <3> QED
      BY <1>11, <3>1, OfferType DEF NotifyPool, StoreTypeOK
  <2>2. StoreTypeOK'
    BY <1>11, <2>1 DEF NotifyPool, StoreTypeOK
  <2> QED
    BY <1>4, <1>11, <2>2 DEF NotifyPool
<1>12. ASSUME ReadFails PROVE WorkerTypeOK' /\ StoreTypeOK'
  BY <1>4, <1>12 DEF ReadFails, StoreTypeOK, downstream
<1> QED
  BY <1>1, <1>3, <1>5, <1>6, <1>7, <1>8, <1>9, <1>10, <1>11, <1>12 DEF Reconcile

\* The downstream controllers receive.
LEMMA ReceiveTypeOK ==
  ASSUME TypeOK, TakeNode \/ TakePool
  PROVE  TypeOK'
<1>1. ClusterTypeOK' /\ ListenersTypeOK' /\ WorkerTypeOK'
  BY DEF TypeOK, TakeNode, TakePool, cluster, events, caches, worker, history,
         ClusterTypeOK, ListenersTypeOK, WorkerTypeOK
<1>2. StoreTypeOK'
  BY HeadTailType DEF TypeOK, TakeNode, TakePool, StoreTypeOK
<1> QED
  BY <1>1, <1>2 DEF TypeOK

\* The process restarts.
LEMMA RestartTypeOK ==
  ASSUME TypeOK, Restart
  PROVE  TypeOK'
<1> USE DEF TypeOK
<1>1. ClusterTypeOK'
  BY DEF Restart, Change, cluster, ClusterTypeOK
<1>2. poolEvents' \in Seq(PoolNews) /\ configEvents' \in Seq(ConfigNews)
  BY PoolListingsType, ConfigListingsType DEF Restart, ClusterTypeOK
<1>3. ListenersTypeOK'
  <2>1. selectors' \in [Pool -> Selectors] /\ versions' \in [Config -> Version \cup {None}]
    BY DEF Restart, Selectors
  <2>2. poolDeletions' \in Seq(Pool) /\ configDeletions' \in Seq(Config)
    BY DEF Restart
  <2>3. /\ nodeEvents' \subseteq Node /\ dirty' \subseteq Node /\ listing' \subseteq Listeners
        /\ overtaken' = {} /\ unheeded' = {} /\ missed' = {}
    BY DEF Restart, Existing, Listeners, ClusterTypeOK
  <2> QED
    BY <1>2, <2>1, <2>2, <2>3 DEF ListenersTypeOK, PoolNews, ConfigNews
<1>4. WorkerTypeOK'
  BY DEF Restart, Finish, WorkerTypeOK, Steps, Nowhere
<1>5. StoreTypeOK'
  BY DEF Restart, StoreTypeOK
<1> QED
  BY <1>1, <1>3, <1>4, <1>5

LEMMA StutterTypeOK ==
  ASSUME TypeOK, UNCHANGED vars
  PROVE  TypeOK'
BY DEF vars, cluster, events, caches, worker, downstream, history, TypeOK,
       ClusterTypeOK, ListenersTypeOK, WorkerTypeOK, StoreTypeOK

\* Every variable always has its type, and the worker has always read what its
\* place in Reconcile says: no pool, version or node is used before it was got.
THEOREM TypeCorrect == Spec => []TypeOK
<1>1. ASSUME TypeOK, [Next]_vars PROVE TypeOK'
  BY <1>1, ClusterStepTypeOK, HandleTypeOK, WorkerTypeStep, ReceiveTypeOK, RestartTypeOK,
     ListFailsTypeOK, StutterTypeOK DEF Next
<1> QED
  BY <1>1, InitTypeOK, PTL DEF Spec

-----------------------------------------------------------------------------
(* The caches agree with the cluster.                                      *)

\* An event at the end of a queue is the latest about its object.
LEMMA AppendNews ==
  ASSUME NEW S, NEW q \in Seq(S), NEW e \in S, NEW x
  PROVE  /\ Told(Append(q, e), x) <=> Told(q, x) \/ e.object = x
         /\ e.object = x => LatestHolds(Append(q, e), x, e.holds)
         /\ e.object # x =>
              \A v : LatestHolds(q, x, v) => LatestHolds(Append(q, e), x, v)
<1> DEFINE a == Append(q, e)
<1>1. /\ DOMAIN q = 1..Len(q) /\ Len(q) \in Nat
      /\ DOMAIN a = 1..(Len(q) + 1) /\ a[Len(q) + 1] = e
      /\ \A i \in 1..Len(q) : a[i] = q[i]
  OBVIOUS
<1> HIDE DEF a
<1>2. Told(a, x) <=> Told(q, x) \/ e.object = x
  BY <1>1 DEF Told
<1>3. e.object = x => LatestHolds(a, x, e.holds)
  BY <1>1 DEF LatestHolds
<1>4. ASSUME e.object # x, NEW v, LatestHolds(q, x, v)
      PROVE  LatestHolds(a, x, v)
  BY <1>1, <1>4 DEF LatestHolds
<1> QED
  BY <1>2, <1>3, <1>4 DEF a

\* The latest event about an object stays the latest until it is taken.
LEMMA TailNews ==
  ASSUME NEW S, NEW q \in Seq(S), q # <<>>, NEW x
  PROVE  /\ Told(q, x) <=> Head(q).object = x \/ Told(Tail(q), x)
         /\ \A v : LatestHolds(q, x, v) => LatestHolds(Tail(q), x, v)
         /\ \A v : Head(q).object = x /\ ~Told(Tail(q), x) /\ LatestHolds(q, x, v)
                  => Head(q).holds = v
<1> DEFINE t == Tail(q)
<1>1. /\ DOMAIN q = 1..Len(q) /\ Len(q) \in Nat /\ Len(q) > 0 /\ Head(q) = q[1]
      /\ DOMAIN t = 1..(Len(q) - 1)
      /\ \A i \in 1..(Len(q) - 1) : t[i] = q[i + 1]
  OBVIOUS
<1> HIDE DEF t
<1>2. Told(q, x) <=> Head(q).object = x \/ Told(t, x)
  <2>1. ASSUME NEW i \in DOMAIN q, q[i].object = x, Head(q).object # x
        PROVE  Told(t, x)
    <3>1. i - 1 \in DOMAIN t /\ t[i - 1] = q[i]
      BY <1>1, <2>1
    <3> QED
      BY <2>1, <3>1 DEF Told
  <2>2. ASSUME NEW i \in DOMAIN t, t[i].object = x
        PROVE  Told(q, x)
    BY <1>1, <2>2 DEF Told
  <2>3. 1 \in DOMAIN q
    BY <1>1
  <2> QED
    BY <1>1, <2>1, <2>2, <2>3 DEF Told
<1>3. ASSUME NEW v, LatestHolds(q, x, v)
      PROVE  LatestHolds(t, x, v)
  <2>1. SUFFICES ASSUME NEW i \in DOMAIN t, t[i].object = x,
                        \A j \in DOMAIN t : j > i => t[j].object # x
                 PROVE  t[i].holds = v
    BY DEF LatestHolds
  <2>2. i + 1 \in DOMAIN q /\ q[i + 1] = t[i]
    BY <1>1
  <2>3. ASSUME NEW j \in DOMAIN q, j > i + 1 PROVE q[j].object # x
    <3>1. j - 1 \in DOMAIN t /\ t[j - 1] = q[j] /\ j - 1 > i
      BY <1>1, <2>3
    <3> QED
      BY <2>1, <3>1
  <2> QED
    BY <1>3, <2>1, <2>2, <2>3 DEF LatestHolds
<1>4. ASSUME NEW v, Head(q).object = x, ~Told(t, x), LatestHolds(q, x, v)
      PROVE  Head(q).holds = v
  <2>1. ASSUME NEW j \in DOMAIN q, j > 1 PROVE q[j].object # x
    <3>1. j - 1 \in DOMAIN t /\ t[j - 1] = q[j]
      BY <1>1, <2>1
    <3> QED
      BY <1>4, <3>1 DEF Told
  <2> QED
    BY <1>1, <1>4, <2>1 DEF LatestHolds
<1> QED
  BY <1>2, <1>3, <1>4 DEF t

\* The same for the deletions, which tell of the name only.
LEMMA AppendDeletion ==
  ASSUME NEW S, NEW d \in Seq(S), NEW y \in S, NEW x
  PROVE  Waiting(Append(d, y), x) <=> Waiting(d, x) \/ y = x
<1> DEFINE a == Append(d, y)
<1>1. /\ DOMAIN d = 1..Len(d) /\ Len(d) \in Nat
      /\ DOMAIN a = 1..(Len(d) + 1) /\ a[Len(d) + 1] = y
      /\ \A i \in 1..Len(d) : a[i] = d[i]
  OBVIOUS
<1> HIDE DEF a
<1>2. Waiting(a, x) <=> Waiting(d, x) \/ y = x
  BY <1>1 DEF Waiting
<1> QED
  BY <1>2 DEF a

LEMMA TailDeletion ==
  ASSUME NEW S, NEW d \in Seq(S), d # <<>>, NEW x
  PROVE  Waiting(d, x) <=> Head(d) = x \/ Waiting(Tail(d), x)
<1> DEFINE t == Tail(d)
<1>1. /\ DOMAIN d = 1..Len(d) /\ Len(d) \in Nat /\ Len(d) > 0 /\ Head(d) = d[1]
      /\ DOMAIN t = 1..(Len(d) - 1)
      /\ \A i \in 1..(Len(d) - 1) : t[i] = d[i + 1]
  OBVIOUS
<1> HIDE DEF t
<1>2. ASSUME NEW i \in DOMAIN d, d[i] = x, Head(d) # x
      PROVE  Waiting(t, x)
  <2>1. i - 1 \in DOMAIN t /\ t[i - 1] = d[i]
    BY <1>1, <1>2
  <2> QED
    BY <1>2, <2>1 DEF Waiting
<1>3. ASSUME NEW i \in DOMAIN t, t[i] = x
      PROVE  Waiting(d, x)
  BY <1>1, <1>3 DEF Waiting
<1>4. 1 \in DOMAIN d
  BY <1>1
<1>5. Waiting(d, x) <=> Head(d) = x \/ Waiting(t, x)
  BY <1>1, <1>2, <1>3, <1>4 DEF Waiting
<1> QED
  BY <1>5 DEF t

\* Handling an event keeps every object caught up, unless its own deletion waits.
LEMMA HandledNews ==
  ASSUME NEW S, NEW q \in Seq(S), q # <<>>, NEW d, NEW x, NEW cached, NEW exists, NEW now,
         CatchesUp(x, cached, q, d, exists, now),
         Head(q).object = x => ~Waiting(d, x)
  PROVE  CatchesUp(x, IF Head(q).object = x THEN Head(q).holds ELSE cached,
                   Tail(q), d, exists, now)
BY TailNews DEF CatchesUp

\* Handling a deletion does, unless another event of the object waits.
LEMMA HandledDeletion ==
  ASSUME NEW S, NEW d \in Seq(S), d # <<>>, NEW q, NEW x, NEW cached, NEW exists, NEW now,
         CatchesUp(x, cached, q, d, exists, now),
         ~exists => now = None,
         Head(d) = x => ~Told(q, x)
  PROVE  CatchesUp(x, IF Head(d) = x THEN None ELSE cached, q, Tail(d), exists, now)
BY TailDeletion DEF CatchesUp

\* A new event catches its object up and disturbs no other.
LEMMA NewNews ==
  ASSUME NEW S, NEW q \in Seq(S), NEW e \in S, NEW d, NEW x, NEW cached,
         NEW exists, NEW now
  PROVE  /\ e.object = x /\ e.holds = now
              => CatchesUp(x, cached, Append(q, e), d, exists, now)
         /\ e.object # x /\ CatchesUp(x, cached, q, d, exists, now)
              => CatchesUp(x, cached, Append(q, e), d, exists, now)
BY AppendNews DEF CatchesUp

LEMMA NewDeletion ==
  ASSUME NEW S, NEW d \in Seq(S), NEW y \in S, NEW q, NEW x, NEW cached,
         NEW exists, NEW now
  PROVE  /\ y = x /\ ~exists => CatchesUp(x, cached, q, Append(d, y), exists, now)
         /\ y # x /\ CatchesUp(x, cached, q, d, exists, now)
              => CatchesUp(x, cached, q, Append(d, y), exists, now)
BY AppendDeletion DEF CatchesUp

\* A fresh informer's listing catches everything up with an empty cache.
LEMMA FreshPools ==
  ASSUME NEW ps \in [Pool -> PoolShape \cup {None}], NEW q \in PoolListings(ps), NEW p \in Pool
  PROVE  CatchesUp(p, None, q, <<>>, ps[p] # None, IF ps[p] = None THEN None ELSE ps[p].selector)
<1>1. ~Waiting(<<>>, p)
  BY DEF Waiting
<1>2. Told(q, p) <=> ps[p] # None
  BY PoolListingsType DEF Told
<1>3. Told(q, p) => LatestHolds(q, p, ps[p].selector)
  BY PoolListingsType DEF LatestHolds
<1> QED
  BY <1>1, <1>2, <1>3 DEF CatchesUp

LEMMA FreshConfigs ==
  ASSUME NEW cs \in [Config -> [version : Version \cup {None}] \cup {None}],
         NEW q \in ConfigListings(cs), NEW c \in Config
  PROVE  CatchesUp(c, None, q, <<>>, cs[c] # None, IF cs[c] = None THEN None ELSE cs[c].version)
<1>1. ~Waiting(<<>>, c)
  BY DEF Waiting
<1>2. Told(q, c) <=> cs[c] # None
  BY ConfigListingsType DEF Told
<1>3. Told(q, c) => LatestHolds(q, c, cs[c].version)
  BY ConfigListingsType DEF LatestHolds
<1> QED
  BY <1>1, <1>2, <1>3 DEF CatchesUp

-----------------------------------------------------------------------------

PoolCaughtUp(p) ==
  CatchesUp(p, selectors[p], poolEvents, poolDeletions, pools[p] # None, SelectorOf(p))
ConfigCaughtUp(c) ==
  CatchesUp(c, versions[c], configEvents, configDeletions, configs[c] # None, VersionOf(c))

LEMMA InitCatchUp == Init => CachesCatchUp
<1> SUFFICES ASSUME Init PROVE CachesCatchUp
  OBVIOUS
<1>1. ClusterTypeOK
  BY InitTypeOK DEF TypeOK
<1>2. ASSUME NEW p \in Pool PROVE PoolCaughtUp(p)
  BY <1>1, FreshPools DEF Init, ClusterTypeOK, PoolCaughtUp, SelectorOf
<1>3. ASSUME NEW c \in Config PROVE ConfigCaughtUp(c)
  BY <1>1, FreshConfigs DEF Init, ClusterTypeOK, ConfigCaughtUp, VersionOf
<1> QED
  BY <1>2, <1>3 DEF CachesCatchUp, PoolCaughtUp, ConfigCaughtUp

LEMMA RestartCatchUp ==
  ASSUME TypeOK, Restart
  PROVE  CachesCatchUp'
<1>1. ASSUME NEW p \in Pool PROVE PoolCaughtUp(p)'
  <2>1. /\ pools' = pools /\ poolEvents' \in PoolListings(pools)
        /\ poolDeletions' = <<>> /\ selectors'[p] = None
    BY DEF Restart, cluster
  <2> QED
    BY <2>1, FreshPools DEF TypeOK, ClusterTypeOK, PoolCaughtUp, SelectorOf
<1>2. ASSUME NEW c \in Config PROVE ConfigCaughtUp(c)'
  <2>1. /\ configs' = configs /\ configEvents' \in ConfigListings(configs)
        /\ configDeletions' = <<>> /\ versions'[c] = None
    BY DEF Restart, cluster
  <2> QED
    BY <2>1, FreshConfigs DEF TypeOK, ClusterTypeOK, ConfigCaughtUp, VersionOf
<1> QED
  BY <1>1, <1>2 DEF CachesCatchUp, PoolCaughtUp, ConfigCaughtUp

\* The steps that touch neither a queue of pools nor what it is about.
LEMMA PoolsStayCaughtUp ==
  ASSUME UNCHANGED <<pools, selectors, poolEvents, poolDeletions>>, NEW p \in Pool,
         PoolCaughtUp(p)
  PROVE  PoolCaughtUp(p)'
BY DEF PoolCaughtUp, SelectorOf

LEMMA ConfigsStayCaughtUp ==
  ASSUME UNCHANGED <<configs, versions, configEvents, configDeletions>>, NEW c \in Config,
         ConfigCaughtUp(c)
  PROVE  ConfigCaughtUp(c)'
BY DEF ConfigCaughtUp, VersionOf

\* The four steps about pools.
LEMMA PoolStepsCatchUp ==
  ASSUME TypeOK, NEW x \in Pool \ overtaken', x \notin overtaken => PoolCaughtUp(x),
         \/ HandlePool \/ HandleDeletedPool
         \/ \E p \in Pool : DeletePool(p) \/ \E s \in PoolShape : SetPool(p, s)
  PROVE  PoolCaughtUp(x)'
<1>1. x \notin overtaken
  BY DEF HandlePool, HandleDeletedPool, DeletePool, SetPool, history
<1>2. PoolCaughtUp(x)
  BY <1>1
<1>3. /\ poolEvents \in Seq(PoolNews) /\ poolDeletions \in Seq(Pool)
      /\ pools \in [Pool -> PoolShape \cup {None}]
      /\ selectors \in [Pool -> Selectors]
  BY DEF TypeOK, ListenersTypeOK, ClusterTypeOK, PoolNews
<1>4. CASE HandlePool
  <2>1. poolEvents # <<>> /\ poolEvents' = Tail(poolEvents)
        /\ UNCHANGED <<pools, poolDeletions>>
    BY <1>4 DEF HandlePool, cluster
  <2>2. selectors'[x] = IF Head(poolEvents).object = x THEN Head(poolEvents).holds
                        ELSE selectors[x]
    BY <1>3, <1>4 DEF HandlePool
  <2>3. Head(poolEvents).object = x => ~Waiting(poolDeletions, x)
    BY <1>4 DEF HandlePool
  <2> QED
    BY <1>2, <1>3, <2>1, <2>2, <2>3, HandledNews DEF PoolCaughtUp, SelectorOf
<1>5. CASE HandleDeletedPool
  <2>1. poolDeletions # <<>> /\ poolDeletions' = Tail(poolDeletions)
        /\ UNCHANGED <<pools, poolEvents>>
    BY <1>5 DEF HandleDeletedPool, cluster
  <2>2. selectors'[x] = IF Head(poolDeletions) = x THEN None ELSE selectors[x]
    BY <1>3, <1>5 DEF HandleDeletedPool
  <2>3. Head(poolDeletions) = x => ~Told(poolEvents, x)
    BY <1>5 DEF HandleDeletedPool
  <2>4. ~(pools[x] # None) => SelectorOf(x) = None
    BY DEF SelectorOf
  <2>5. CatchesUp(x, IF Head(poolDeletions) = x THEN None ELSE selectors[x], poolEvents,
                  Tail(poolDeletions), pools[x] # None, SelectorOf(x))
    BY <1>2, <1>3, <2>1, <2>3, <2>4, HandledDeletion DEF PoolCaughtUp
  <2> QED
    BY <2>1, <2>2, <2>5 DEF PoolCaughtUp, SelectorOf
<1>6. ASSUME NEW p \in Pool, DeletePool(p) PROVE PoolCaughtUp(x)'
  <2>1. /\ poolDeletions' = Append(poolDeletions, p)
        /\ UNCHANGED <<poolEvents, selectors>>
        /\ pools'[x] = IF x = p THEN None ELSE pools[x]
    BY <1>3, <1>6 DEF DeletePool, caches
  <2> QED
    BY <1>2, <1>3, <2>1, NewDeletion DEF PoolCaughtUp, SelectorOf
<1>7. ASSUME NEW p \in Pool, NEW s \in PoolShape, SetPool(p, s) PROVE PoolCaughtUp(x)'
  <2>1. /\ UNCHANGED <<poolDeletions, selectors>>
        /\ pools'[x] = IF x = p THEN s ELSE pools[x]
        /\ s # None
    BY <1>3, <1>7, CentralAssumption DEF SetPool, caches
  <2> DEFINE told == IF pools[p] = None THEN poolEvents
                     ELSE Append(poolEvents, PoolEvent(p, pools[p]))
  <2>2. poolEvents' = Append(told, PoolEvent(p, s))
    BY <1>7 DEF SetPool
  <2>3. PoolEvent(p, s) \in PoolNews /\ (pools[p] # None => PoolEvent(p, pools[p]) \in PoolNews)
    BY <1>3, PoolEventType
  <2>4. told \in Seq(PoolNews)
    BY <1>3, <2>3, AppendType
  <2>5. PoolEvent(p, s).object = p /\ PoolEvent(p, s).holds = s.selector
        /\ PoolEvent(p, pools[p]).object = p
    BY DEF PoolEvent
  <2>6. CASE x = p
    <3> HIDE DEF told
    <3>1. CatchesUp(x, selectors[x], Append(told, PoolEvent(p, s)), poolDeletions,
                    TRUE, s.selector)
      BY <2>3, <2>4, <2>5, <2>6, NewNews
    <3> QED
      BY <2>1, <2>2, <2>6, <3>1 DEF PoolCaughtUp, SelectorOf
  <2>7. CASE x # p
    <3>1. CatchesUp(x, selectors[x], told, poolDeletions, pools[x] # None, SelectorOf(x))
      BY <1>2, <1>3, <2>3, <2>5, <2>7, NewNews DEF PoolCaughtUp
    <3> HIDE DEF told
    <3>2. CatchesUp(x, selectors[x], Append(told, PoolEvent(p, s)), poolDeletions,
                    pools[x] # None, SelectorOf(x))
      BY <2>3, <2>4, <2>5, <2>7, <3>1, NewNews
    <3> QED
      BY <2>1, <2>2, <2>7, <3>2 DEF PoolCaughtUp, SelectorOf
  <2> QED
    BY <2>6, <2>7
<1> QED
  BY <1>4, <1>5, <1>6, <1>7

\* The four steps about configs.
LEMMA ConfigStepsCatchUp ==
  ASSUME TypeOK, NEW x \in Config \ overtaken', x \notin overtaken => ConfigCaughtUp(x),
         \/ HandleConfig \/ HandleDeletedConfig
         \/ \E c \in Config : DeleteConfig(c) \/ \E v \in Version \cup {None} : SetConfig(c, v)
  PROVE  ConfigCaughtUp(x)'
<1>1. x \notin overtaken
  BY DEF HandleConfig, HandleDeletedConfig, DeleteConfig, SetConfig, history
<1>2. ConfigCaughtUp(x)
  BY <1>1
<1>3. /\ configEvents \in Seq(ConfigNews) /\ configDeletions \in Seq(Config)
      /\ configs \in [Config -> [version : Version \cup {None}] \cup {None}]
      /\ versions \in [Config -> Version \cup {None}]
  BY DEF TypeOK, ListenersTypeOK, ClusterTypeOK, ConfigNews
<1>4. CASE HandleConfig
  <2>1. configEvents # <<>> /\ configEvents' = Tail(configEvents)
        /\ UNCHANGED <<configs, configDeletions>>
    BY <1>4 DEF HandleConfig, cluster
  <2>2. versions'[x] = IF Head(configEvents).object = x THEN Head(configEvents).holds
                       ELSE versions[x]
    BY <1>3, <1>4 DEF HandleConfig
  <2>3. Head(configEvents).object = x => ~Waiting(configDeletions, x)
    BY <1>4 DEF HandleConfig
  <2> QED
    BY <1>2, <1>3, <2>1, <2>2, <2>3, HandledNews DEF ConfigCaughtUp, VersionOf
<1>5. CASE HandleDeletedConfig
  <2>1. configDeletions # <<>> /\ configDeletions' = Tail(configDeletions)
        /\ UNCHANGED <<configs, configEvents>>
    BY <1>5 DEF HandleDeletedConfig, cluster
  <2>2. versions'[x] = IF Head(configDeletions) = x THEN None ELSE versions[x]
    BY <1>3, <1>5 DEF HandleDeletedConfig
  <2>3. Head(configDeletions) = x => ~Told(configEvents, x)
    BY <1>5 DEF HandleDeletedConfig
  <2>4. ~(configs[x] # None) => VersionOf(x) = None
    BY DEF VersionOf
  <2>5. CatchesUp(x, IF Head(configDeletions) = x THEN None ELSE versions[x], configEvents,
                  Tail(configDeletions), configs[x] # None, VersionOf(x))
    BY <1>2, <1>3, <2>1, <2>3, <2>4, HandledDeletion DEF ConfigCaughtUp
  <2> QED
    BY <2>1, <2>2, <2>5 DEF ConfigCaughtUp, VersionOf
<1>6. ASSUME NEW c \in Config, DeleteConfig(c) PROVE ConfigCaughtUp(x)'
  <2>1. /\ configDeletions' = Append(configDeletions, c)
        /\ UNCHANGED <<configEvents, versions>>
        /\ configs'[x] = IF x = c THEN None ELSE configs[x]
    BY <1>3, <1>6 DEF DeleteConfig, caches
  <2> QED
    BY <1>2, <1>3, <2>1, NewDeletion DEF ConfigCaughtUp, VersionOf
<1>7. ASSUME NEW c \in Config, NEW v \in Version \cup {None}, SetConfig(c, v)
      PROVE  ConfigCaughtUp(x)'
  <2> DEFINE content == [version |-> v]
             told == IF configs[c] = None THEN configEvents
                     ELSE Append(configEvents, ConfigEvent(c, configs[c]))
  <2>0. configs'[c] = content /\ content.version = v
    BY <1>3, <1>7 DEF SetConfig
  <2>1. /\ UNCHANGED <<configDeletions, versions>>
        /\ configs'[x] = IF x = c THEN content ELSE configs[x]
    BY <1>3, <1>7 DEF SetConfig, caches
  <2>2. configEvents' = Append(told, ConfigEvent(c, content))
    BY <1>7, <2>0 DEF SetConfig
  <2>3. /\ ConfigEvent(c, content) \in ConfigNews
        /\ configs[c] # None => ConfigEvent(c, configs[c]) \in ConfigNews
    BY <1>3, ConfigEventType
  <2>4. told \in Seq(ConfigNews)
    BY <1>3, <2>3, AppendType
  <2>5. ConfigEvent(c, content).object = c /\ ConfigEvent(c, content).holds = v
        /\ ConfigEvent(c, configs[c]).object = c
    BY DEF ConfigEvent
  <2>6. CASE x = c
    <3> HIDE DEF told
    <3>1. \A now \in {v}, exists \in BOOLEAN :
            CatchesUp(x, versions[x], Append(told, ConfigEvent(c, content)),
                      configDeletions, exists, now)
      BY <2>3, <2>4, <2>5, <2>6, NewNews
    <3>2. configs'[x] # None => VersionOf(x)' = v
      BY <2>0, <2>6 DEF VersionOf
    <3>3. content # None
      BY CentralAssumption
    <3> QED
      BY <2>1, <2>2, <2>6, <3>1, <3>2, <3>3 DEF ConfigCaughtUp
  <2>7. CASE x # c
    <3>1. CatchesUp(x, versions[x], told, configDeletions, configs[x] # None, VersionOf(x))
      BY <1>2, <1>3, <2>3, <2>5, <2>7, NewNews DEF ConfigCaughtUp
    <3> HIDE DEF told
    <3>2. CatchesUp(x, versions[x], Append(told, ConfigEvent(c, content)), configDeletions,
                    configs[x] # None, VersionOf(x))
      BY <2>3, <2>4, <2>5, <2>7, <3>1, NewNews
    <3> QED
      BY <2>1, <2>2, <2>7, <3>2 DEF ConfigCaughtUp, VersionOf
  <2> QED
    BY <2>6, <2>7
<1> QED
  BY <1>4, <1>5, <1>6, <1>7

LEMMA NextCatchUp ==
  ASSUME TypeOK, CachesCatchUp, [Next]_vars
  PROVE  CachesCatchUp'
<1>1. /\ \A p \in Pool \ overtaken : PoolCaughtUp(p)
      /\ \A c \in Config \ overtaken : ConfigCaughtUp(c)
  BY DEF CachesCatchUp, PoolCaughtUp, ConfigCaughtUp
<1>2. CASE Restart
  BY <1>2, RestartCatchUp
<1>3. ASSUME ~Restart PROVE overtaken \subseteq overtaken'
  BY <1>3 DEF Next, vars, ClusterChanges, ChangeNode, SetPool, DeletePool, SetConfig,
         DeleteConfig, ChangeClusterVersion, Handle, DeliverNode, HandlePool,
         HandleDeletedPool, HandleConfig, HandleDeletedConfig, RequestAllNodes, Reconcile,
         Begin, WhichPool, GetPool, GetVersion, Evaluate, NotifyNode, NotifyPool, ReadFails, ListFails,
         TakeNode, TakePool, history
<1>4. ASSUME ~Restart, NEW p \in Pool \ overtaken' PROVE PoolCaughtUp(p)'
  <2>1. PoolCaughtUp(p)
    BY <1>1, <1>3, <1>4
  <2>2. CASE \/ HandlePool \/ HandleDeletedPool
             \/ \E q \in Pool : DeletePool(q) \/ \E s \in PoolShape : SetPool(q, s)
    BY <2>1, <2>2, <1>4, PoolStepsCatchUp
  <2>3. CASE UNCHANGED <<pools, selectors, poolEvents, poolDeletions>>
    BY <2>1, <2>3, PoolsStayCaughtUp
  <2> QED
    BY <1>4, <2>2, <2>3
    DEF Next, vars, ClusterChanges, ChangeNode, SetConfig, DeleteConfig, ChangeClusterVersion,
        Handle, DeliverNode, HandleConfig, HandleDeletedConfig, RequestAllNodes, Reconcile,
        Begin, WhichPool, GetPool, GetVersion, Evaluate, NotifyNode, NotifyPool, ReadFails, ListFails,
        TakeNode, TakePool, cluster, events, caches
<1>5. ASSUME ~Restart, NEW c \in Config \ overtaken' PROVE ConfigCaughtUp(c)'
  <2>1. ConfigCaughtUp(c)
    BY <1>1, <1>3, <1>5
  <2>2. CASE \/ HandleConfig \/ HandleDeletedConfig
             \/ \E d \in Config : \/ DeleteConfig(d)
                                  \/ \E v \in Version \cup {None} : SetConfig(d, v)
    BY <2>1, <2>2, <1>5, ConfigStepsCatchUp
  <2>3. CASE UNCHANGED <<configs, versions, configEvents, configDeletions>>
    BY <2>1, <2>3, ConfigsStayCaughtUp
  <2> QED
    BY <1>5, <2>2, <2>3
    DEF Next, vars, ClusterChanges, ChangeNode, SetPool, DeletePool, ChangeClusterVersion,
        Handle, DeliverNode, HandlePool, HandleDeletedPool, RequestAllNodes, Reconcile,
        Begin, WhichPool, GetPool, GetVersion, Evaluate, NotifyNode, NotifyPool, ReadFails, ListFails,
        TakeNode, TakePool, cluster, events, caches
<1> QED
  BY <1>2, <1>4, <1>5 DEF CachesCatchUp, PoolCaughtUp, ConfigCaughtUp

\* Whatever order the four listeners of pools and configs run in, and whenever the
\* process restarts, what their queues still hold brings the caches up to date,
\* unless a deletion and another event of the same object waited side by side.
THEOREM CatchUpCorrect == Spec => []CachesCatchUp
<1>1. Init => CachesCatchUp
  BY InitCatchUp
<1>2. TypeOK /\ CachesCatchUp /\ [Next]_vars => CachesCatchUp'
  BY NextCatchUp
<1> QED
  BY <1>1, <1>2, TypeCorrect, PTL DEF Spec

\* Once every event is handled the caches hold exactly what exists in the cluster:
\* no pool's selector and no config's version is stale, missing or left behind.
THEOREM CachesCorrect == Spec => []QuietMeansCachesAgree
<1>1. ASSUME CachesCatchUp, Quiet PROVE QuietMeansCachesAgree
  <2>1. \A x : ~Told(poolEvents, x) /\ ~Told(configEvents, x)
    BY <1>1 DEF Quiet, Told
  <2>2. \A x : ~Waiting(poolDeletions, x) /\ ~Waiting(configDeletions, x)
    BY <1>1 DEF Quiet, Waiting
  <2> QED
    BY <1>1, <2>1, <2>2 DEF CachesCatchUp, CatchesUp, QuietMeansCachesAgree
<1>2. CachesCatchUp => QuietMeansCachesAgree
  BY <1>1 DEF QuietMeansCachesAgree
<1> QED
  BY <1>2, CatchUpCorrect, PTL

-----------------------------------------------------------------------------
(* The store.                                                              *)

AllWhys == Facts \cup OwnWords

\* Whatever is stored is the state of a node, with one condition of each type.
StoreOK ==
  /\ store \in [Node -> NodeStates \cup {None}]
  /\ \A n \in Node : store[n] # None => Complete(store[n].conditions, AllWhys)

\* It can be read back from its hash, and so can what the worker is about to store.
StoreLegible ==
  /\ \A n \in Node : store[n] # None => Legible(store[n], Facts)
  /\ pc \in {"evaluate", "notifyNode", "notifyPool"} => got.target # None

LEMMA ShapeTells ==
  ASSUME NEW s \in NodeShape
  PROVE  Telling(s, Facts) /\ Telling(s, AllWhys)
<1> DEFINE A == UNION {r.mcdReason : r \in NodeShape}
           B == UNION {{t.reason : t \in r.troubles} : r \in NodeShape}
<1>1. s.mcdReason \subseteq A
  OBVIOUS
<1>2. \A t \in s.troubles : t.reason \in B
  OBVIOUS
<1>3. Facts = A \cup B
  BY DEF Facts
<1> HIDE DEF A, B
<1> QED
  BY <1>1, <1>2, <1>3, ShapesAssumption DEF Telling, AllWhys

\* What the worker has when it evaluates.
LEMMA EvaluatedFrom ==
  ASSUME TypeOK, StoreOK, pc = "evaluate"
  PROVE  /\ item \in Node /\ got.node \in NodeShape /\ got.pool \in Pool /\ got.spec \in PoolShape
         /\ got.target \in Version \cup {None}
         /\ versions \in [Config -> Version \cup {None}]
         /\ DOMAIN store = Node
         /\ Carriable(IF store[item] = None THEN <<>> ELSE store[item].conditions, AllWhys)
<1>1. /\ item \in Node /\ got.node \in NodeShape /\ got.pool \in Pool /\ got.spec \in PoolShape
      /\ got.target \in Version \cup {None}
      /\ versions \in [Config -> Version \cup {None}]
      /\ DOMAIN store = Node
  BY DEF TypeOK, WorkerTypeOK, ListenersTypeOK, StoreTypeOK, Steps
<1>2. Carriable(IF store[item] = None THEN <<>> ELSE store[item].conditions, AllWhys)
  BY <1>1 DEF StoreOK, Carriable
<1> QED
  BY <1>1, <1>2

LEMMA EvaluationTyped ==
  ASSUME TypeOK, StoreOK, pc = "evaluate"
  PROVE  /\ Evaluation(item) \in NodeStates
         /\ Complete(Evaluation(item).conditions, AllWhys)
<1> DEFINE existing == IF store[item] = None THEN <<>> ELSE store[item].conditions
           s == EvaluateNode(item, got.node, got.pool, got.spec, versions, got.target, existing, 1)
<1>1. /\ item \in Node /\ got.node \in NodeShape /\ got.pool \in Pool
      /\ got.target \in Version \cup {None}
      /\ versions \in [Config -> Version \cup {None}]
      /\ Carriable(existing, AllWhys)
  BY EvaluatedFrom
<1>2. OwnWords \subseteq AllWhys /\ Telling(got.node, AllWhys)
  BY <1>1, ShapeTells DEF AllWhys
<1>3. got.node.current \in Config \cup {None} /\ got.node.desired \in Config \cup {None}
  BY <1>1, ShapesAssumption
<1> HIDE DEF existing
<1>4. Complete(s.conditions, AllWhys)
  BY <1>1, <1>2, EvaluationConditions
<1>5. /\ s.name = item /\ s.pool = got.pool /\ s.desiredVersion = got.target
      /\ s.version = VersionFor(versions, got.node.current)
      /\ s.currentConfig = got.node.current /\ s.desiredConfig = got.node.desired
      /\ s.phase = PhaseOf(got.spec, got.node, IsUpdating(got.node, versions, got.target),
                           IsUpdated(got.node, versions, got.target))
  BY EvaluationFields
<1>6. s.version \in Version \cup {None}
  BY <1>1, <1>3, <1>5 DEF VersionFor
<1>7. s.phase \in Phases
  BY <1>5, PhaseType
<1>8. s.message \subseteq AllWhys
  <2>1. UnavailableReasons(got.node) \subseteq AllWhys /\ got.node.mcdReason \subseteq AllWhys
    BY <1>2 DEF UnavailableReasons, Telling, OwnWords
  <2> QED
    BY <2>1 DEF EvaluateNode, DetermineConditions
<1>9. s.conditions \in Seq(Conditions(AllWhys))
  BY <1>4 DEF Complete
<1>10. s = [name |-> s.name, pool |-> s.pool, version |-> s.version,
            desiredVersion |-> s.desiredVersion, currentConfig |-> s.currentConfig,
            desiredConfig |-> s.desiredConfig, conditions |-> s.conditions,
            phase |-> s.phase, message |-> s.message]
  BY DEF EvaluateNode
<1> HIDE DEF s
<1>11. s \in NodeStates
  BY <1>1, <1>3, <1>5, <1>6, <1>7, <1>8, <1>9, <1>10 DEF NodeStates, AllWhys
<1>12. s = Evaluation(item)
  BY DEF s, existing, Evaluation
<1> QED
  BY <1>4, <1>11, <1>12

LEMMA EvaluatedLegible ==
  ASSUME TypeOK, StoreOK, StoreLegible, pc = "evaluate"
  PROVE  Legible(Evaluation(item), Facts)
<1> DEFINE existing == IF store[item] = None THEN <<>> ELSE store[item].conditions
<1>1. got.node \in NodeShape /\ Carriable(existing, Facts \cup OwnWords)
  BY EvaluatedFrom DEF AllWhys
<1>2. Vocabulary(Facts) /\ Telling(got.node, Facts)
  BY <1>1, ShapeTells, HashAssumption DEF Vocabulary
<1>3. got.target # None
  BY DEF StoreLegible
<1>4. got.node.current = None <=> got.node.desired = None
  BY <1>1, HashAssumption
<1> HIDE DEF existing
<1>5. Legible(EvaluateNode(item, got.node, got.pool, got.spec, versions, got.target, existing, 1),
              Facts)
  BY <1>1, <1>2, <1>3, <1>4, EvaluationLegible
<1> QED
  BY <1>5 DEF Evaluation, existing

\* Only an evaluation puts something into the store.
LEMMA StoreStep ==
  ASSUME TypeOK, StoreOK, [Next]_vars, ~Evaluate
  PROVE  /\ store' \in [Node -> NodeStates \cup {None}]
         /\ \A n \in Node : store'[n] \in {None, store[n]}
<1> DEFINE Goal == /\ store' \in [Node -> NodeStates \cup {None}]
                   /\ \A n \in Node : store'[n] \in {None, store[n]}
<1>1. store \in [Node -> NodeStates \cup {None}]
  BY DEF StoreOK
<1>2. CASE Restart
  BY <1>2 DEF Restart
<1>3. ASSUME NEW m \in Node, Begin(m) PROVE Goal
  BY <1>1, <1>3 DEF Begin, Untrack
<1>4. CASE WhichPool
  BY <1>1, <1>4 DEF WhichPool, Untrack
<1>5. CASE UNCHANGED store
  BY <1>1, <1>5
<1> QED
  BY <1>2, <1>3, <1>4, <1>5
  DEF Next, vars, ClusterChanges, ChangeNode, SetPool, DeletePool, SetConfig,
      DeleteConfig, ChangeClusterVersion, Handle, DeliverNode, HandlePool,
      HandleDeletedPool, HandleConfig, HandleDeletedConfig, RequestAllNodes, Reconcile,
      GetPool, GetVersion, NotifyNode, NotifyPool, ReadFails, ListFails,
      TakeNode, TakePool

LEMMA EvaluateStep ==
  ASSUME TypeOK, StoreOK, Evaluate
  PROVE  /\ pc = "evaluate" /\ item \in Node
         /\ \/ Unchanged(item, Evaluation(item)) /\ Finish /\ UNCHANGED store
            \/ /\ ~Unchanged(item, Evaluation(item))
               /\ store' = [store EXCEPT ![item] = Evaluation(item)]
               /\ pc' = "notifyNode" /\ UNCHANGED <<item, got>>
BY EvaluatedFrom DEF Evaluate

LEMMA StoreCorrect == Spec => [](TypeOK /\ StoreOK)
<1>1. Init => StoreOK
  BY DEF Init, StoreOK
<1>2. ASSUME TypeOK, StoreOK, [Next]_vars PROVE StoreOK'
  <2>1. CASE ~Evaluate
    BY <1>2, <2>1, StoreStep DEF StoreOK
  <2>2. CASE Evaluate
    <3>1. pc = "evaluate" /\ DOMAIN store = Node
      BY <1>2, <2>2, EvaluateStep DEF TypeOK, StoreTypeOK
    <3>2. /\ Evaluation(item) \in NodeStates
          /\ Complete(Evaluation(item).conditions, AllWhys)
      BY <1>2, <3>1, EvaluationTyped
    <3>3. \A n \in Node : store'[n] \in {store[n], Evaluation(item)}
      BY <1>2, <2>2, <3>1, EvaluateStep
    <3>4. store' \in [Node -> NodeStates \cup {None}]
      BY <1>2, <2>2, <3>2, EvaluateStep DEF StoreOK
    <3> QED
      BY <1>2, <3>2, <3>3, <3>4 DEF StoreOK
  <2> QED
    BY <2>1, <2>2
<1> QED
  BY <1>1, <1>2, TypeCorrect, PTL DEF Spec

LEMMA LegibleCorrect == Spec => [](TypeOK /\ StoreOK /\ StoreLegible)
<1>1. Init => StoreLegible
  BY DEF Init, StoreLegible
<1>2. ASSUME TypeOK, StoreOK, StoreLegible, [Next]_vars PROVE StoreLegible'
  <2>1. ASSUME NEW n \in Node, store'[n] # None PROVE Legible(store'[n], Facts)
    <3>1. CASE ~Evaluate
      BY <1>2, <2>1, <3>1, StoreStep DEF StoreLegible
    <3>2. CASE Evaluate
      <4>1. pc = "evaluate" /\ DOMAIN store = Node
        BY <1>2, <3>2, EvaluateStep DEF TypeOK, StoreTypeOK
      <4>2. Legible(Evaluation(item), Facts)
        BY <1>2, <4>1, EvaluatedLegible
      <4>3. store'[n] \in {store[n], Evaluation(item)}
        BY <1>2, <3>2, <4>1, EvaluateStep
      <4> QED
        BY <1>2, <2>1, <4>2, <4>3 DEF StoreLegible
    <3> QED
      BY <3>1, <3>2
  <2>2. ASSUME pc' \in {"evaluate", "notifyNode", "notifyPool"} PROVE got'.target # None
    <3>1. CASE GetVersion
      BY <1>2, <2>2, <3>1, HashAssumption DEF GetVersion, Finish, Goto, TypeOK, ClusterTypeOK,
         WorkerTypeOK
    <3>2. CASE ~GetVersion
      <4>1. pc \in {"evaluate", "notifyNode", "notifyPool"} /\ got' = got
        BY <1>2, <2>2, <3>2
        DEF Next, vars, ClusterChanges, ChangeNode, SetPool, DeletePool, SetConfig,
            DeleteConfig, ChangeClusterVersion, Handle, DeliverNode, HandlePool,
            HandleDeletedPool, HandleConfig, HandleDeletedConfig, RequestAllNodes, Reconcile,
            Begin, WhichPool, GetPool, Evaluate, NotifyNode, NotifyPool, ReadFails, ListFails,
            TakeNode, TakePool, Restart, Finish, Goto, worker
      <4> QED
        BY <1>2, <4>1 DEF StoreLegible
    <3> QED
      BY <3>1, <3>2
  <2> QED
    BY <2>1, <2>2 DEF StoreLegible
<1> QED
  BY <1>1, <1>2, StoreCorrect, PTL DEF Spec

\* A fresh state that Reconcile drops because its hash is the stored one's shows
\* nothing that the stored one does not: no two states of a node that an insight
\* would show differently are written to the same bytes.
THEOREM UnchangedCorrect == Spec => []UnchangedMeansSame
<1>1. ASSUME TypeOK, StoreOK, StoreLegible PROVE UnchangedMeansSame
  <2>1. SUFFICES ASSUME pc = "evaluate", store[item] # None,
                        ComputeHash(Evaluation(item)) = ComputeHash(store[item])
                 PROVE  Shown(Evaluation(item)) = Shown(store[item])
    BY DEF UnchangedMeansSame
  <2>2. item \in Node
    BY <1>1, <2>1, EvaluatedFrom
  <2>3. Legible(Evaluation(item), Facts) /\ Legible(store[item], Facts) /\ Vocabulary(Facts)
    BY <1>1, <2>1, <2>2, EvaluatedLegible, HashAssumption DEF StoreLegible, Vocabulary
  <2> QED
    BY <2>1, <2>3, HashTells
<1> QED
  BY <1>1, LegibleCorrect, PTL

-----------------------------------------------------------------------------
(* The controller implements StateProvider.                                *)

\* What it is announcing, as its place in Reconcile tells.
Announcing == [node |-> IF pc = "notifyNode" THEN item ELSE None,
               pool |-> IF pc \in {"notifyNode", "notifyPool"} THEN got.pool ELSE None]

ProviderStep == Provider!ProviderNext \/ UNCHANGED <<store, nodeChan, poolChan, Announcing>>

LEMMA NotAnnouncing ==
  ASSUME pc \notin {"notifyNode", "notifyPool"}
  PROVE  Announcing = Provider!Nothing
BY DEF Announcing, Provider!Nothing

\* The steps of the cluster, the listeners and the reads that are none of the provider's.
LEMMA Unannounced ==
  ASSUME pc \notin {"notifyNode", "notifyPool"}, pc' \notin {"notifyNode", "notifyPool"},
         UNCHANGED <<store, nodeChan, poolChan>>
  PROVE  ProviderStep
BY DEF Announcing, ProviderStep

LEMMA UntrackStep ==
  ASSUME TypeOK, StoreOK, NEW n \in Node, Untrack(n), UNCHANGED <<nodeChan, poolChan>>,
         pc \notin {"notifyNode", "notifyPool"}, pc' \notin {"notifyNode", "notifyPool"}
  PROVE  ProviderStep
<1>1. Announcing = Provider!Nothing /\ Announcing' = Provider!Nothing
  BY DEF Announcing, Provider!Nothing
<1>2. CASE store[n] = None
  <2>1. store' = store
    BY <1>2 DEF StoreOK, Untrack
  <2> QED
    BY <1>1, <2>1 DEF ProviderStep
<1>3. CASE store[n] # None
  <2>1. Provider!Remove(n)
    BY <1>1, <1>3 DEF Provider!Remove, Announcing, Untrack
  <2> QED
    BY <2>1 DEF ProviderStep, Provider!ProviderNext
<1> QED
  BY <1>2, <1>3

\* Storing a state that hashes differently is publishing another one.
LEMMA PublishStep ==
  ASSUME TypeOK, StoreOK, Evaluate
  PROVE  ProviderStep
<1>1. pc = "evaluate" /\ item \in Node /\ UNCHANGED <<nodeChan, poolChan>>
  BY EvaluateStep DEF Evaluate, downstream
<1>2. CASE Finish /\ UNCHANGED store
  BY <1>1, <1>2, Unannounced DEF Finish
<1>3. CASE /\ ~Unchanged(item, Evaluation(item))
           /\ store' = [store EXCEPT ![item] = Evaluation(item)]
           /\ pc' = "notifyNode" /\ UNCHANGED <<item, got>>
  <2>1. store \in [Node -> NodeStates \cup {None}]
    BY DEF StoreOK
  <2>2. store'[item] = Evaluation(item)
    BY <1>1, <1>3, <2>1
  <2>3. store'[item] # None
    BY <1>1, <2>2, EvaluationTyped, ShapesAssumption
  <2>4. store'[item] # store[item]
    BY <1>3, <2>2, <2>3 DEF Unchanged
  <2>5. store'[item].pool = got.pool
    BY <2>2, EvaluationFields DEF Evaluation
  <2>6. Announcing' = [node |-> item, pool |-> store'[item].pool]
    BY <1>3, <2>5 DEF Announcing
  <2>7. Announcing = Provider!Nothing
    BY <1>1, NotAnnouncing
  <2>8. store' = [store EXCEPT ![item] = store'[item]]
    BY <1>3, <2>2
  <2>9. Provider!Publish(item)
    BY <1>1, <2>3, <2>4, <2>6, <2>7, <2>8 DEF Provider!Publish, Announcing
  <2> QED
    BY <1>1, <2>9 DEF ProviderStep, Provider!ProviderNext
<1> QED
  BY <1>2, <1>3, EvaluateStep

LEMMA AnnounceSteps ==
  ASSUME TypeOK, NotifyNode \/ NotifyPool
  PROVE  ProviderStep
<1>1. item \in Node /\ got.pool \in Pool /\ None \notin Node \cup Pool
  BY CentralAssumption DEF NotifyNode, NotifyPool, TypeOK, WorkerTypeOK, Steps
<1>2. CASE NotifyNode
  <2>1. Announcing = [node |-> item, pool |-> got.pool]
    BY <1>2 DEF Announcing, NotifyNode
  <2>2. Announcing' = [node |-> None, pool |-> got.pool]
    BY <1>2 DEF Announcing, NotifyNode
  <2>3. Provider!AnnounceNode
    BY <1>1, <1>2, <2>1, <2>2
    DEF Provider!AnnounceNode, Provider!Offer, Offer, NotifyNode, Announcing
  <2> QED
    BY <2>3 DEF ProviderStep, Provider!ProviderNext
<1>3. CASE NotifyPool
  <2>1. Announcing = [node |-> None, pool |-> got.pool]
    BY <1>3 DEF Announcing, NotifyPool
  <2>2. Announcing' = Provider!Nothing
    BY <1>3 DEF Announcing, NotifyPool, Finish, Provider!Nothing
  <2>3. Provider!AnnouncePool
    BY <1>1, <1>3, <2>1, <2>2
    DEF Provider!AnnouncePool, Provider!Offer, Offer, NotifyPool, Announcing
  <2> QED
    BY <2>3 DEF ProviderStep, Provider!ProviderNext
<1> QED
  BY <1>2, <1>3

LEMMA WorkerImplements ==
  ASSUME TypeOK, StoreOK, Reconcile \/ ReadFails
  PROVE  ProviderStep
<1>1. ASSUME NEW n \in Node, Begin(n) PROVE ProviderStep
  <2>1. /\ pc = "idle" /\ pc' \in {"idle", "whichPool"}
        /\ UNCHANGED <<nodeChan, poolChan>> /\ (Untrack(n) \/ UNCHANGED store)
    BY <1>1 DEF Begin, downstream, worker
  <2> QED
    BY <2>1, UntrackStep, Unannounced
<1>2. CASE WhichPool
  <2>1. /\ pc = "whichPool" /\ pc' \in {"idle", "getPool"} /\ item \in Node
        /\ UNCHANGED <<nodeChan, poolChan>> /\ (Untrack(item) \/ UNCHANGED store)
    BY <1>2 DEF WhichPool, downstream, Finish, Goto, TypeOK, WorkerTypeOK
  <2> QED
    BY <2>1, UntrackStep, Unannounced
<1>3. CASE GetPool \/ GetVersion \/ ReadFails
  <2>1. /\ pc \in {"getPool", "getVersion"} /\ pc' \in {"idle", "getVersion", "evaluate"}
        /\ UNCHANGED <<store, nodeChan, poolChan>>
    BY <1>3 DEF GetPool, GetVersion, ReadFails, downstream, Finish, Goto
  <2> QED
    BY <2>1, Unannounced
<1> QED
  BY <1>1, <1>2, <1>3, PublishStep, AnnounceSteps DEF Reconcile

\* Every step of the controller is a step of the provider or none of its business.
LEMMA StepImplements ==
  ASSUME TypeOK, StoreOK, [Next]_vars
  PROVE  ProviderStep
<1>1. CASE Restart
  <2>1. Announcing' = Provider!Nothing
    BY <1>1 DEF Restart, Finish, Announcing, Provider!Nothing
  <2>2. Provider!RestartProvider
    BY <1>1, <2>1 DEF Restart, Provider!RestartProvider, Announcing
  <2> QED
    BY <2>2 DEF ProviderStep, Provider!ProviderNext
<1>2. CASE TakeNode
  <2>1. Provider!TakeNode
    BY <1>2 DEF TakeNode, Provider!TakeNode, worker
  <2> QED
    BY <2>1 DEF ProviderStep, Provider!ProviderNext
<1>3. CASE TakePool
  <2>1. Provider!TakePool
    BY <1>3 DEF TakePool, Provider!TakePool, worker
  <2> QED
    BY <2>1 DEF ProviderStep, Provider!ProviderNext
<1>4. CASE ClusterChanges \/ Handle \/ UNCHANGED vars \/ \E l \in Listeners : ListFails(l)
  <2>1. UNCHANGED <<store, nodeChan, poolChan, pc, item, got>>
    BY <1>4
    DEF vars, ClusterChanges, ChangeNode, SetPool, DeletePool, SetConfig,
        DeleteConfig, ChangeClusterVersion, Handle, DeliverNode, HandlePool,
        HandleDeletedPool, HandleConfig, HandleDeletedConfig, RequestAllNodes, ListFails,
        worker, downstream
  <2> QED
    BY <2>1 DEF ProviderStep, Announcing
<1> QED
  BY <1>1, <1>2, <1>3, <1>4, WorkerImplements DEF Next

\* The controller implements its promise to the controllers downstream: a state is
\* stored before it is announced and announced, to the node's channel and then the
\* pool's, before another is stored; what is dropped as unchanged is nothing lost.
THEOREM ProviderCorrect == Spec => ImplementsProvider
<1>1. Init => Provider!ProviderInit
  BY DEF Init, Provider!ProviderInit, Provider!Nothing
<1>2. ASSUME TypeOK, StoreOK, [Next]_vars
      PROVE  [Provider!ProviderNext]_(Provider!providerVars)
  BY <1>2, StepImplements DEF ProviderStep, Announcing, Provider!providerVars
<1> QED
  BY <1>1, <1>2, StoreCorrect, PTL DEF Spec, ImplementsProvider, Provider!ProviderSpec

-----------------------------------------------------------------------------
(* Once all is quiet the store is up to date.                              *)

\* The store has for n what the cluster and the caches as they are evaluate to.
RightIn(n, p) ==
  IF p = None THEN store[n] = None
  ELSE /\ store[n] # None /\ pools[p] # None /\ clusterVersion # None
       /\ Shown(store[n]) =
          Shown(EvaluateNode(n, nodes[n], p, pools[p], versions, clusterVersion.version, <<>>, 1))

Right(n) ==
  IF nodes[n] = None THEN store[n] = None
  ELSE \E p \in WhichMCPs(selectors, nodes[n].labels) : RightIn(n, p)

\* What waits about p will change its selector in the cache, and so request all
\* nodes, or will overtake one another.
PoolDue(p) ==
  \E i \in DOMAIN poolEvents : poolEvents[i].object = p /\ poolEvents[i].holds # selectors[p]
DeletionDue(p) == Waiting(poolDeletions, p) /\ selectors[p] # None
Stirring(p) ==
  PoolDue(p) \/ DeletionDue(p) \/ (Told(poolEvents, p) /\ Waiting(poolDeletions, p))

\* The node will be reconciled again.
Pending(n) ==
  \/ n \in dirty \cup nodeEvents
  \/ nodes[n] # None /\ (listing # {} \/ \E p \in Pool : Stirring(p))

\* The worker is on n, and nothing it has read so far is stale.
Working == pc \in {"whichPool", "getPool", "getVersion", "evaluate"}

Underway(n) ==
  /\ nodes[n] # None /\ got.node = nodes[n]
  /\ pc # "whichPool" => got.pool \in WhichMCPs(selectors, got.node.labels) \ {None}
  /\ pc \in {"getVersion", "evaluate"} => got.spec = pools[got.pool] /\ pools[got.pool] # None
  /\ pc = "evaluate" => clusterVersion # None /\ got.target = clusterVersion.version

Accounted(n) == Pending(n) \/ (IF Working /\ item = n THEN Underway(n) ELSE Right(n))

\* The invariant behind QuietMeansUpToDate: a node whose stored state is not right
\* will be reconciled again, or is being reconciled from what the cluster is now, but
\* for the nodes that a list that failed did not request.
Settled == overtaken = {} /\ unheeded = {} => \A n \in Node \ missed : Accounted(n)

\* A queue that tells of an object has a latest event about it.
LEMMA LatestExists ==
  ASSUME NEW S, NEW q \in Seq(S), NEW x, Told(q, x)
  PROVE  \E i \in DOMAIN q : q[i].object = x /\ \A j \in DOMAIN q : j > i => q[j].object # x
<1> DEFINE T == {Len(q) - i : i \in {k \in DOMAIN q : q[k].object = x}}
<1>1. DOMAIN q = 1..Len(q) /\ Len(q) \in Nat
  OBVIOUS
<1>2. T \subseteq Nat /\ T # {}
  BY <1>1 DEF Told
<1>3. \E t \in T : \A u \in T : t <= u
  <2> HIDE DEF T
  <2> QED
    BY <1>2, EarliestExists
<1>4. PICK i \in DOMAIN q : q[i].object = x /\ \A u \in T : Len(q) - i <= u
  BY <1>3
<1>5. ASSUME NEW j \in DOMAIN q, j > i PROVE q[j].object # x
  <2>1. ASSUME q[j].object = x PROVE FALSE
    <3>1. Len(q) - j \in T
      BY <2>1
    <3>2. Len(q) - i <= Len(q) - j
      BY <1>4, <3>1
    <3> QED
      BY <1>1, <1>5, <3>2
  <2> QED
    BY <2>1
<1> QED
  BY <1>4, <1>5

\* A pool WhichMCP returns has a selector in the cache.
LEMMA WhichMCPsCached ==
  ASSUME NEW cache, NEW labels, NEW p \in WhichMCPs(cache, labels), p # None
  PROVE  p \in Pool /\ cache[p] # None
BY DEF WhichMCPs

\* When the cache disagrees with the cluster about a pool, what waits stirs.
LEMMA StaleStirs ==
  ASSUME TypeOK, CachesCatchUp, overtaken = {}, NEW p \in Pool, selectors[p] # SelectorOf(p)
  PROVE  Stirring(p)
<1>1. CatchesUp(p, selectors[p], poolEvents, poolDeletions, pools[p] # None, SelectorOf(p))
  BY DEF CachesCatchUp
<1>2. poolEvents \in Seq(PoolNews)
  BY DEF TypeOK, ListenersTypeOK, PoolNews
<1>3. CASE Told(poolEvents, p) /\ ~Waiting(poolDeletions, p)
  <2>1. PICK i \in DOMAIN poolEvents :
          poolEvents[i].object = p
            /\ \A j \in DOMAIN poolEvents : j > i => poolEvents[j].object # p
    BY <1>2, <1>3, LatestExists
  <2>2. poolEvents[i].holds = SelectorOf(p)
    BY <1>1, <1>3, <2>1 DEF CatchesUp, LatestHolds
  <2> QED
    BY <2>1, <2>2 DEF Stirring, PoolDue
<1>4. CASE ~Told(poolEvents, p) /\ Waiting(poolDeletions, p)
  BY <1>1, <1>4 DEF CatchesUp, Stirring, DeletionDue, SelectorOf
<1>5. CASE ~Told(poolEvents, p) /\ ~Waiting(poolDeletions, p)
  BY <1>1, <1>5 DEF CatchesUp
<1>6. CASE Told(poolEvents, p) /\ Waiting(poolDeletions, p)
  BY <1>6 DEF Stirring
<1> QED
  BY <1>3, <1>4, <1>5, <1>6

\* A pool's events at the end of the queue stir.
LEMMA NewEventStirs ==
  ASSUME NEW S, NEW q \in Seq(S), NEW e \in S, poolEvents' = Append(q, e),
         UNCHANGED selectors, e.holds # selectors[e.object]
  PROVE  Stirring(e.object)'
<1>1. Len(q) + 1 \in DOMAIN poolEvents' /\ poolEvents'[Len(q) + 1] = e
  OBVIOUS
<1> QED
  BY <1>1 DEF Stirring, PoolDue

-----------------------------------------------------------------------------
(* What keeps a node accounted for.                                        *)

LEMMA RightStays ==
  ASSUME NEW n, nodes'[n] = nodes[n], store'[n] = store[n], Right(n),
         UNCHANGED <<clusterVersion, selectors, versions>>,
         \A p \in Pool : selectors[p] # None => pools'[p] = pools[p]
  PROVE  Right(n)'
<1>1. CASE nodes[n] = None
  BY <1>1 DEF Right
<1>2. CASE nodes[n] # None
  <2>1. PICK p \in WhichMCPs(selectors, nodes[n].labels) : RightIn(n, p)
    BY <1>2 DEF Right
  <2>2. WhichMCPs(selectors, nodes[n].labels)' = WhichMCPs(selectors, nodes[n].labels)
    BY DEF WhichMCPs
  <2>3. p # None => pools'[p] = pools[p]
    BY <2>1, WhichMCPsCached
  <2>4. RightIn(n, p)'
    BY <2>1, <2>3 DEF RightIn
  <2> QED
    BY <1>2, <2>1, <2>2, <2>4 DEF Right
<1> QED
  BY <1>1, <1>2

LEMMA UnderwayStays ==
  ASSUME NEW n, nodes'[n] = nodes[n], Underway(n), Working,
         UNCHANGED <<clusterVersion, selectors, worker>>,
         \A p \in Pool : selectors[p] # None => pools'[p] = pools[p]
  PROVE  Underway(n)'
<1>1. UNCHANGED <<pc, item, got>>
  BY DEF worker
<1>2. WhichMCPs(selectors, got.node.labels)' = WhichMCPs(selectors, got.node.labels)
  BY <1>1 DEF WhichMCPs
<1>3. pc \in {"getVersion", "evaluate"} => pools'[got.pool] = pools[got.pool]
  <2>1. pc \in {"getVersion", "evaluate"} =>
          got.pool \in Pool /\ selectors[got.pool] # None
    BY WhichMCPsCached DEF Underway
  <2> QED
    BY <2>1
<1> QED
  BY <1>1, <1>2, <1>3 DEF Underway

LEMMA AccountedStays ==
  ASSUME NEW n, nodes'[n] = nodes[n], store'[n] = store[n],
         UNCHANGED <<clusterVersion, selectors, versions, worker>>,
         \A p \in Pool : selectors[p] # None => pools'[p] = pools[p],
         Pending(n) => Pending(n)', Accounted(n)
  PROVE  Accounted(n)'
<1>1. CASE Pending(n)
  BY <1>1 DEF Accounted
<1>2. CASE ~Pending(n) /\ Working /\ item = n
  <2>1. Underway(n)'
    BY <1>2, UnderwayStays DEF Accounted
  <2>2. (Working /\ item = n)'
    BY <1>2 DEF Working, worker
  <2> QED
    BY <2>1, <2>2 DEF Accounted
<1>3. CASE ~Pending(n) /\ ~(Working /\ item = n)
  <2>1. Right(n)'
    BY <1>3, RightStays DEF Accounted
  <2>2. ~(Working /\ item = n)'
    BY <1>3 DEF Working, worker
  <2> QED
    BY <2>1, <2>2 DEF Accounted
<1> QED
  BY <1>1, <1>2, <1>3

\* Steps that set off another round for every node there is.
LEMMA AccountedAnew ==
  ASSUME NEW n, nodes'[n] = nodes[n], store'[n] = store[n], UNCHANGED worker,
         n \in dirty \cup nodeEvents => n \in dirty' \cup nodeEvents',
         nodes[n] # None => Pending(n)', Accounted(n)
  PROVE  Accounted(n)'
<1>1. CASE nodes[n] # None
  BY <1>1 DEF Accounted
<1>2. CASE nodes[n] = None /\ n \in dirty \cup nodeEvents
  BY <1>2 DEF Accounted, Pending
<1>3. CASE nodes[n] = None /\ n \notin dirty \cup nodeEvents
  <2>1. ~Pending(n) /\ ~Underway(n)
    BY <1>3 DEF Pending, Underway
  <2>2. Right(n) /\ ~(Working /\ item = n)
    BY <2>1 DEF Accounted
  <2>3. Right(n)' /\ ~(Working /\ item = n)'
    BY <1>3, <2>2 DEF Right, Working, worker
  <2> QED
    BY <2>3 DEF Accounted
<1> QED
  BY <1>1, <1>2, <1>3

LEMMA PendingStays ==
  ASSUME NEW n, nodes'[n] = nodes[n], n \in dirty \cup nodeEvents => n \in dirty' \cup nodeEvents',
         listing # {} => listing' # {},
         \A p \in Pool : Stirring(p) => Stirring(p)', Pending(n)
  PROVE  Pending(n)'
BY DEF Pending

LEMMA StirringStays ==
  ASSUME UNCHANGED <<poolEvents, poolDeletions, selectors>>, NEW p, Stirring(p)
  PROVE  Stirring(p)'
BY DEF Stirring, PoolDue, DeletionDue

-----------------------------------------------------------------------------
(* Each step keeps every node accounted for.                               *)

Heeded == overtaken = {} /\ unheeded = {}

LEMMA SetPoolStirs ==
  ASSUME TypeOK, CachesCatchUp, Heeded, Heeded', NEW p \in Pool, NEW s \in PoolShape, SetPool(p, s)
  PROVE  Stirring(p)'
<1> DEFINE told == IF pools[p] = None THEN poolEvents
                   ELSE Append(poolEvents, PoolEvent(p, pools[p]))
<1>1. /\ poolEvents \in Seq(PoolNews) /\ pools[p] \in PoolShape \cup {None}
      /\ SelectorOf(p) # s.selector
  BY DEF TypeOK, ListenersTypeOK, ClusterTypeOK, PoolNews, SetPool, Heeded
<1>2. /\ PoolEvent(p, s) \in PoolNews /\ PoolEvent(p, s).object = p
      /\ PoolEvent(p, s).holds = s.selector
      /\ pools[p] # None => /\ PoolEvent(p, pools[p]) \in PoolNews
                            /\ PoolEvent(p, pools[p]).object = p
                            /\ PoolEvent(p, pools[p]).holds = SelectorOf(p)
  BY <1>1, PoolEventType DEF PoolEvent, SelectorOf
<1>3. told \in Seq(PoolNews)
  BY <1>1, <1>2, AppendType
<1>4. poolEvents' = Append(told, PoolEvent(p, s)) /\ UNCHANGED <<selectors, poolDeletions>>
  BY DEF SetPool, caches
<1>5. CASE s.selector # selectors[p]
  <2> HIDE DEF told
  <2> QED
    BY <1>2, <1>3, <1>4, <1>5, NewEventStirs
<1>6. CASE s.selector = selectors[p] /\ pools[p] # None
  <2>1. told = Append(poolEvents, PoolEvent(p, pools[p]))
    BY <1>6
  <2> HIDE DEF told
  <2>2. /\ Len(poolEvents) + 1 \in DOMAIN poolEvents'
        /\ poolEvents'[Len(poolEvents) + 1] = PoolEvent(p, pools[p])
    BY <1>1, <1>2, <1>3, <1>4, <1>6, <2>1
  <2>3. SelectorOf(p) # selectors'[p]
    BY <1>1, <1>4, <1>6
  <2> QED
    BY <1>2, <1>6, <2>2, <2>3 DEF Stirring, PoolDue
<1>7. CASE s.selector = selectors[p] /\ pools[p] = None
  <2>1. Stirring(p)
    BY <1>1, <1>7, StaleStirs DEF Heeded
  <2>2. poolEvents' = Append(poolEvents, PoolEvent(p, s))
    BY <1>4, <1>7
  <2>3. \A i \in DOMAIN poolEvents : i \in DOMAIN poolEvents' /\ poolEvents'[i] = poolEvents[i]
    BY <1>1, <1>2, <2>2
  <2>4. PoolDue(p) => PoolDue(p)'
    BY <1>4, <2>3 DEF PoolDue
  <2>5. Told(poolEvents, p) => Told(poolEvents', p)
    BY <2>3 DEF Told
  <2> QED
    BY <1>4, <2>1, <2>4, <2>5 DEF Stirring, DeletionDue
<1> QED
  BY <1>5, <1>6, <1>7

LEMMA ClusterSettles ==
  ASSUME TypeOK, CachesCatchUp, Heeded, Heeded', ClusterChanges, NEW n \in Node, Accounted(n)
  PROVE  Accounted(n)'
<1>1. ASSUME NEW m \in Node, NEW s \in NodeShape \cup {None}, ChangeNode(m, s)
      PROVE  Accounted(n)'
  <2>1. CASE n = m
    BY <1>1, <2>1 DEF ChangeNode, Accounted, Pending
  <2>2. CASE n # m
    <3>1. /\ nodes'[n] = nodes[n] /\ UNCHANGED <<pools, clusterVersion, poolEvents,
             poolDeletions, listing, selectors, versions, dirty, worker, store>>
          /\ nodeEvents \subseteq nodeEvents'
      BY <1>1, <2>2 DEF ChangeNode, TypeOK, ClusterTypeOK, caches
    <3>2. Pending(n) => Pending(n)'
      BY <3>1, PendingStays, StirringStays
    <3> QED
      BY <3>1, <3>2, AccountedStays
  <2> QED
    BY <2>1, <2>2
<1>2. ASSUME NEW p \in Pool, NEW s \in PoolShape, SetPool(p, s)
      PROVE  Accounted(n)'
  <2>1. UNCHANGED <<nodes, store, worker, dirty, nodeEvents>>
    BY <1>2 DEF SetPool
  <2>2. nodes[n] # None => Pending(n)'
    BY <1>2, <2>1, SetPoolStirs DEF Pending
  <2> QED
    BY <2>1, <2>2, AccountedAnew
<1>3. ASSUME NEW p \in Pool, DeletePool(p)
      PROVE  Accounted(n)'
  <2>1. /\ UNCHANGED <<nodes, clusterVersion, poolEvents, listing, selectors, versions, dirty,
                       nodeEvents, worker, store>>
        /\ \A q \in Pool : q # p => pools'[q] = pools[q]
        /\ poolDeletions' = Append(poolDeletions, p)
    BY <1>3 DEF DeletePool, TypeOK, ClusterTypeOK, caches
  <2>2. \A x : Waiting(poolDeletions', x) <=> Waiting(poolDeletions, x) \/ x = p
    BY <2>1, AppendDeletion DEF TypeOK, ListenersTypeOK
  <2>3. CASE selectors[p] # None
    <3>1. Stirring(p)'
      BY <2>1, <2>2, <2>3 DEF Stirring, DeletionDue
    <3>2. nodes[n] # None => Pending(n)'
      BY <2>1, <3>1 DEF Pending
    <3> QED
      BY <2>1, <3>2, AccountedAnew
  <2>4. CASE selectors[p] = None
    <3>1. \A q \in Pool : Stirring(q) => Stirring(q)'
      BY <2>1, <2>2 DEF Stirring, DeletionDue, PoolDue
    <3>2. Pending(n) => Pending(n)'
      BY <2>1, <3>1, PendingStays
    <3> QED
      BY <2>1, <2>4, <3>2, AccountedStays
  <2> QED
    BY <2>3, <2>4
<1>4. ASSUME NEW c \in Config, \/ \E v \in Version \cup {None} : SetConfig(c, v)
                               \/ DeleteConfig(c)
      PROVE  Accounted(n)'
  <2>1. UNCHANGED <<nodes, pools, clusterVersion, poolEvents, poolDeletions, listing, selectors,
                    versions, dirty, nodeEvents, worker, store>>
    BY <1>4 DEF SetConfig, DeleteConfig, caches
  <2>2. Pending(n) => Pending(n)'
    BY <2>1, PendingStays, StirringStays
  <2> QED
    BY <2>1, <2>2, AccountedStays
<1>5. ASSUME NEW cv \in ClusterVersions \cup {None}, ChangeClusterVersion(cv)
      PROVE  Accounted(n)'
  <2>1. UNCHANGED <<nodes, store, worker, dirty, nodeEvents>> /\ listing' # {}
    BY <1>5 DEF ChangeClusterVersion, events
  <2> QED
    BY <2>1, AccountedAnew DEF Pending
<1> QED
  BY <1>1, <1>2, <1>3, <1>4, <1>5 DEF ClusterChanges

LEMMA HandleSettles ==
  ASSUME TypeOK, Heeded, Heeded', Handle, NEW n \in Node, Accounted(n)
  PROVE  Accounted(n)'
<1>0. /\ UNCHANGED <<nodes, pools, clusterVersion, worker, store>>
      /\ nodeEvents \cup dirty \subseteq nodeEvents' \cup dirty'
  BY DEF Handle, DeliverNode, HandlePool, HandleDeletedPool, HandleConfig,
         HandleDeletedConfig, RequestAllNodes, cluster, events
<1>1. CASE listing' # {}
  BY <1>0, <1>1, AccountedAnew DEF Pending
<1>2. ASSUME NEW m \in Node, DeliverNode(m) PROVE Accounted(n)'
  <2>1. UNCHANGED <<poolEvents, poolDeletions, selectors, versions, listing>>
    BY <1>2 DEF DeliverNode, caches
  <2>2. Pending(n) => Pending(n)'
    BY <1>0, <2>1, PendingStays, StirringStays
  <2> QED
    BY <1>0, <2>1, <2>2, AccountedStays
<1>3. CASE HandlePool /\ listing' = {}
  <2> DEFINE e == Head(poolEvents)
  <2>1. /\ poolEvents \in Seq(PoolNews) /\ poolEvents # <<>> /\ poolEvents' = Tail(poolEvents)
        /\ selectors \in [Pool -> Selectors]
    BY <1>3 DEF HandlePool, TypeOK, ListenersTypeOK, PoolNews
  <2>2. e \in PoolNews /\ e = poolEvents[1]
    BY <2>1
  <2> HIDE DEF e
  <2>3. selectors[e.object] = e.holds /\ selectors' = selectors
    BY <1>3, <2>1, <2>2 DEF HandlePool, e
  <2>4. ~Waiting(poolDeletions, e.object) /\ UNCHANGED <<poolDeletions, versions, listing>>
    BY <1>3 DEF HandlePool, Heeded, e
  <2>5. \A x : Told(poolEvents, x) <=> e.object = x \/ Told(poolEvents', x)
    BY <2>1, TailNews DEF e
  <2>6. ASSUME NEW p \in Pool, PoolDue(p) PROVE PoolDue(p)'
    <3>1. PICK i \in DOMAIN poolEvents :
            poolEvents[i].object = p /\ poolEvents[i].holds # selectors[p]
      BY <2>6 DEF PoolDue
    <3>2. i # 1
      BY <2>2, <2>3, <3>1
    <3>3. i - 1 \in DOMAIN poolEvents' /\ poolEvents'[i - 1] = poolEvents[i]
      BY <2>1, <3>1, <3>2
    <3> QED
      BY <2>3, <3>1, <3>3 DEF PoolDue
  <2>7. \A p \in Pool : Stirring(p) => Stirring(p)'
    BY <2>3, <2>4, <2>5, <2>6 DEF Stirring, DeletionDue
  <2>8. Pending(n) => Pending(n)'
    BY <1>0, <2>4, <2>7, PendingStays
  <2> QED
    BY <1>0, <2>3, <2>4, <2>8, AccountedStays
<1>4. CASE HandleDeletedPool /\ listing' = {}
  <2> DEFINE d == Head(poolDeletions)
  <2>1. /\ poolDeletions \in Seq(Pool) /\ poolDeletions # <<>>
        /\ poolDeletions' = Tail(poolDeletions) /\ selectors \in [Pool -> Selectors]
    BY <1>4 DEF HandleDeletedPool, TypeOK, ListenersTypeOK
  <2>2. d \in Pool
    BY <2>1
  <2> HIDE DEF d
  <2>3. selectors[d] = None /\ selectors' = selectors
    BY <1>4, <2>1, <2>2 DEF HandleDeletedPool, d
  <2>4. ~Told(poolEvents, d) /\ UNCHANGED <<poolEvents, versions, listing>>
    BY <1>4 DEF HandleDeletedPool, Heeded, d
  <2>5. \A x : Waiting(poolDeletions, x) <=> d = x \/ Waiting(poolDeletions', x)
    BY <2>1, TailDeletion DEF d
  <2>6. \A p \in Pool : Stirring(p) => Stirring(p)'
    BY <2>3, <2>4, <2>5 DEF Stirring, DeletionDue, PoolDue
  <2>7. Pending(n) => Pending(n)'
    BY <1>0, <2>4, <2>6, PendingStays
  <2> QED
    BY <1>0, <2>3, <2>4, <2>7, AccountedStays
<1>5. CASE (HandleConfig \/ HandleDeletedConfig) /\ listing' = {}
  <2>1. UNCHANGED <<poolEvents, poolDeletions, selectors>>
    BY <1>5 DEF HandleConfig, HandleDeletedConfig
  <2>2. versions \in [Config -> Version \cup {None}] /\ UNCHANGED listing
    BY <1>5 DEF HandleConfig, HandleDeletedConfig, TypeOK, ListenersTypeOK
  <2>3. versions' = versions
    BY <1>5, <2>2 DEF HandleConfig, HandleDeletedConfig
  <2>4. Pending(n) => Pending(n)'
    BY <1>0, <2>1, <2>2, PendingStays, StirringStays
  <2> QED
    BY <1>0, <2>1, <2>3, <2>4, AccountedStays
<1>6. ASSUME NEW l \in Listeners, RequestAllNodes(l) PROVE Accounted(n)'
  <2>1. nodes[n] # None => n \in dirty'
    BY <1>6 DEF RequestAllNodes, Existing, TypeOK, ClusterTypeOK
  <2> QED
    BY <1>0, <2>1, AccountedAnew DEF Pending
<1> QED
  BY <1>1, <1>2, <1>3, <1>4, <1>5, <1>6 DEF Handle

\* What the worker evaluates from what the cluster is now is right.
LEMMA EvaluationRight ==
  ASSUME TypeOK, StoreOK, StoreLegible, Evaluate, NEW n \in Node, item = n, Underway(n)
  PROVE  Right(n)' /\ ~Working'
<1> DEFINE existing == IF store[item] = None THEN <<>> ELSE store[item].conditions
           s == EvaluateNode(item, got.node, got.pool, got.spec, versions, got.target, existing, 1)
<1>0. PICK p : p = got.pool
  OBVIOUS
<1>1. /\ pc = "evaluate" /\ ~Working'
      /\ UNCHANGED <<nodes, pools, clusterVersion, selectors, versions>>
  BY EvaluateStep DEF Evaluate, cluster, caches, Working, Finish
<1>2. /\ nodes[n] # None /\ got.node = nodes[n] /\ p \in WhichMCPs(selectors, got.node.labels)
      /\ p # None /\ got.spec = pools[p] /\ pools[p] # None
      /\ clusterVersion # None /\ got.target = clusterVersion.version
  BY <1>0, <1>1 DEF Underway
<1>3. /\ got.node \in NodeShape /\ Carriable(existing, AllWhys) /\ DOMAIN store = Node
  BY <1>1, EvaluatedFrom
<1>4. s = Evaluation(item)
  BY DEF Evaluation
<1> DEFINE fresh == EvaluateNode(n, nodes[n], p, pools[p], versions, clusterVersion.version, <<>>, 1)
<1>5. Shown(s) = Shown(fresh)
  <2>1. OwnWords \subseteq AllWhys /\ Telling(got.node, AllWhys) /\ Carriable(<<>>, AllWhys)
    BY <1>3, ShapeTells DEF AllWhys, Carriable
  <2> HIDE DEF existing
  <2>2. Shown(s) = Shown(EvaluateNode(item, got.node, got.pool, got.spec, versions, got.target,
                                      <<>>, 1))
    BY <1>3, <2>1, EvaluationShown
  <2> QED
    BY <1>0, <1>2, <2>2
<1> HIDE DEF s
<1>6. store'[n] # None /\ Shown(store'[n]) = Shown(s)
  <2>1. CASE Unchanged(item, Evaluation(item)) /\ UNCHANGED store
    <3>1. store[n] # None /\ ComputeHash(store[n]) = ComputeHash(s)
      BY <1>4, <2>1 DEF Unchanged
    <3>2. Legible(s, Facts) /\ Legible(store[n], Facts) /\ Vocabulary(Facts)
      BY <1>1, <1>4, <3>1, EvaluatedLegible, HashAssumption DEF StoreLegible, Vocabulary
    <3>3. Shown(store[n]) = Shown(s)
      BY <3>1, <3>2, HashTells
    <3> QED
      BY <2>1, <3>1, <3>3
  <2>2. CASE store' = [store EXCEPT ![item] = Evaluation(item)]
    <3>1. s # None
      BY <1>1, <1>4, EvaluationTyped, ShapesAssumption
    <3>2. store'[n] = s
      BY <1>3, <1>4, <2>2
    <3> QED
      BY <3>1, <3>2
  <2> QED
    BY <2>1, <2>2, EvaluateStep
<1>7. RightIn(n, p)'
  BY <1>1, <1>2, <1>5, <1>6 DEF RightIn
<1>8. WhichMCPs(selectors, nodes[n].labels)' = WhichMCPs(selectors, got.node.labels)
  BY <1>1, <1>2 DEF WhichMCPs
<1>9. nodes'[n] # None
  BY <1>1, <1>2
<1> QED
  BY <1>1, <1>2, <1>7, <1>8, <1>9 DEF Right

\* The steps of the worker that end its round or take it further, for the node it is on.
LEMMA ItemSettles ==
  ASSUME TypeOK, StoreOK, StoreLegible, CachesCatchUp, Heeded, NEW n \in Node, item = n,
         Underway(n), WhichPool \/ GetPool \/ GetVersion \/ Evaluate \/ ReadFails
  PROVE  Accounted(n)'
<1>1. UNCHANGED <<nodes, pools, clusterVersion, poolEvents, poolDeletions, listing, selectors,
                  versions>>
  BY DEF WhichPool, GetPool, GetVersion, Evaluate, ReadFails, cluster, events, caches
<1>2. nodes[n] # None /\ got.node = nodes[n]
  BY DEF Underway
<1>3. WhichMCPs(selectors, nodes[n].labels)' = WhichMCPs(selectors, got.node.labels)
  BY <1>1, <1>2 DEF WhichMCPs
<1>4. DOMAIN store = Node /\ DOMAIN got = {"node", "pool", "spec", "target"}
  BY DEF TypeOK, StoreTypeOK, WorkerTypeOK
<1>5. CASE WhichPool
  <2>1. PICK p \in WhichMCPs(selectors, got.node.labels) :
          IF p = None THEN Untrack(item) /\ Finish
          ELSE Goto("getPool", "pool", p) /\ UNCHANGED store
    BY <1>5 DEF WhichPool
  <2>2. CASE p = None
    <3>1. store'[n] = None /\ ~Working'
      BY <1>4, <2>1, <2>2 DEF Untrack, Finish, Working
    <3>2. RightIn(n, None)'
      BY <3>1 DEF RightIn
    <3>3. Right(n)'
      BY <1>1, <1>2, <1>3, <2>1, <2>2, <3>2 DEF Right
    <3> QED
      BY <3>1, <3>3 DEF Accounted
  <2>3. CASE p # None
    <3>1. /\ pc' = "getPool" /\ item' = n /\ got'.pool = p /\ got'.node = got.node
      BY <1>4, <2>1, <2>3 DEF Goto
    <3>2. WhichMCPs(selectors, got.node.labels)' = WhichMCPs(selectors, got.node.labels)
      BY <1>1, <3>1 DEF WhichMCPs
    <3>3. Underway(n)'
      BY <1>1, <1>2, <2>1, <2>3, <3>1, <3>2 DEF Underway
    <3> QED
      BY <3>1, <3>3 DEF Accounted, Working
  <2> QED
    BY <2>2, <2>3
<1>6. CASE GetPool
  <2>1. pc = "getPool" /\ got.pool \in WhichMCPs(selectors, got.node.labels) \ {None}
    BY <1>6 DEF Underway, GetPool
  <2>2. CASE pools[got.pool] = None
    <3>1. got.pool \in Pool /\ selectors[got.pool] # None
      BY <2>1, WhichMCPsCached
    <3>2. Stirring(got.pool)
      BY <2>2, <3>1, StaleStirs DEF Heeded, SelectorOf
    <3>3. Pending(n)'
      BY <1>1, <1>2, <3>1, <3>2, StirringStays DEF Pending
    <3> QED
      BY <3>3 DEF Accounted
  <2>3. CASE pools[got.pool] # None
    <3>1. /\ pc' = "getVersion" /\ item' = n /\ got'.spec = pools[got.pool]
          /\ got'.pool = got.pool /\ got'.node = got.node
      BY <1>4, <1>6, <2>3 DEF GetPool, Goto
    <3>2. WhichMCPs(selectors, got.node.labels)' = WhichMCPs(selectors, got.node.labels)
      BY <1>1, <3>1 DEF WhichMCPs
    <3>3. Underway(n)'
      BY <1>1, <1>2, <2>1, <2>3, <3>1, <3>2 DEF Underway
    <3> QED
      BY <3>1, <3>3 DEF Accounted, Working
  <2> QED
    BY <2>2, <2>3
<1>7. CASE GetVersion
  <2>1. /\ pc = "getVersion" /\ got.pool \in WhichMCPs(selectors, got.node.labels) \ {None}
        /\ got.spec = pools[got.pool] /\ pools[got.pool] # None
    BY <1>7 DEF Underway, GetVersion
  <2>2. CASE clusterVersion = None
    BY <1>7, <2>2 DEF GetVersion, Accounted, Pending
  <2>3. CASE clusterVersion # None
    <3>1. /\ pc' = "evaluate" /\ item' = n /\ got'.target = clusterVersion.version
          /\ got'.pool = got.pool /\ got'.node = got.node /\ got'.spec = got.spec
      BY <1>4, <1>7, <2>3 DEF GetVersion, Goto
    <3>2. WhichMCPs(selectors, got.node.labels)' = WhichMCPs(selectors, got.node.labels)
      BY <1>1, <3>1 DEF WhichMCPs
    <3>3. Underway(n)'
      BY <1>1, <1>2, <2>1, <2>3, <3>1, <3>2 DEF Underway
    <3> QED
      BY <3>1, <3>3 DEF Accounted, Working
  <2> QED
    BY <2>2, <2>3
<1>8. CASE Evaluate
  BY <1>8, EvaluationRight DEF Accounted
<1>9. CASE ReadFails
  BY <1>9 DEF ReadFails, Accounted, Pending
<1> QED
  BY <1>5, <1>6, <1>7, <1>8, <1>9

LEMMA WorkerSettles ==
  ASSUME TypeOK, StoreOK, StoreLegible, CachesCatchUp, Heeded, Reconcile \/ ReadFails,
         NEW n \in Node, Accounted(n)
  PROVE  Accounted(n)'
<1>1. /\ UNCHANGED <<nodes, pools, clusterVersion, poolEvents, poolDeletions, listing, selectors,
                     versions, nodeEvents>>
  BY DEF Reconcile, Begin, WhichPool, GetPool, GetVersion, Evaluate, NotifyNode, NotifyPool,
         ReadFails, cluster, events, caches
<1>2. store \in [Node -> NodeStates \cup {None}]
  BY DEF StoreOK
<1>3. ASSUME NEW m \in Node, Begin(m) PROVE Accounted(n)'
  <2>1. pc = "idle" /\ ~Working
    BY <1>3 DEF Begin, Working
  <2>2. CASE n = m /\ nodes[n] = None
    <3>1. store'[n] = None /\ ~Working'
      BY <1>2, <1>3, <2>1, <2>2 DEF Begin, Untrack, worker, Working
    <3> QED
      BY <1>1, <2>2, <3>1 DEF Accounted, Right
  <2>3. CASE n = m /\ nodes[n] # None
    <3>1. pc' = "whichPool" /\ item' = n /\ got'.node = nodes[n]
      BY <1>3, <2>3 DEF Begin, Nowhere
    <3> QED
      BY <1>1, <2>3, <3>1 DEF Accounted, Underway, Working
  <2>4. CASE n # m
    <3>1. store'[n] = store[n] /\ ~(Working /\ item = n)'
          /\ (n \in dirty \cup nodeEvents => n \in dirty' \cup nodeEvents')
      BY <1>1, <1>2, <1>3, <2>1, <2>4 DEF Begin, Untrack, worker, Working
    <3>2. Pending(n) => Pending(n)'
      BY <1>1, <3>1, PendingStays, StirringStays
    <3>3. Right(n) => Right(n)'
      BY <1>1, <3>1, RightStays
    <3> QED
      BY <2>1, <3>1, <3>2, <3>3 DEF Accounted
  <2> QED
    BY <2>2, <2>3, <2>4
<1>4. CASE WhichPool \/ GetPool \/ GetVersion \/ Evaluate \/ ReadFails
  <2>1. Working /\ item \in Node
    BY <1>4 DEF WhichPool, GetPool, GetVersion, Evaluate, ReadFails, Working, TypeOK, WorkerTypeOK
  <2>2. dirty \subseteq dirty'
    BY <1>4 DEF WhichPool, GetPool, GetVersion, Evaluate, ReadFails
  <2>3. Pending(n) => Pending(n)'
    BY <1>1, <2>2, PendingStays, StirringStays
  <2>4. CASE n = item
    BY <1>4, <2>1, <2>3, <2>4, ItemSettles DEF Accounted
  <2>5. CASE n # item
    <3>1. store'[n] = store[n] /\ ~(Working /\ item = n)'
      <4>1. CASE Evaluate
        BY <1>2, <2>5, <4>1, EvaluateStep DEF Working, Finish
      <4>2. CASE ~Evaluate
        BY <1>2, <1>4, <2>1, <2>5, <4>2, CentralAssumption
        DEF WhichPool, GetPool, GetVersion, ReadFails, Working, Finish, Goto, Untrack
      <4> QED
        BY <4>1, <4>2
    <3>2. Right(n) => Right(n)'
      BY <1>1, <3>1, RightStays
    <3> QED
      BY <2>3, <2>5, <3>1, <3>2 DEF Accounted
  <2> QED
    BY <2>4, <2>5
<1>5. CASE NotifyNode \/ NotifyPool
  <2>1. ~Working /\ ~Working' /\ UNCHANGED <<store, dirty>>
    BY <1>5 DEF NotifyNode, NotifyPool, Working, Finish
  <2>2. Pending(n) => Pending(n)'
    BY <1>1, <2>1, PendingStays, StirringStays
  <2>3. Right(n) => Right(n)'
    BY <1>1, <2>1, RightStays
  <2> QED
    BY <2>1, <2>2, <2>3 DEF Accounted
<1> QED
  BY <1>3, <1>4, <1>5 DEF Reconcile

LEMMA InitSettled == Init => Settled
<1> SUFFICES ASSUME Init, NEW n \in Node PROVE Accounted(n)
  BY DEF Settled
<1>1. nodes \in [Node -> NodeShape \cup {None}]
  BY InitTypeOK DEF TypeOK, ClusterTypeOK
<1>2. nodes[n] # None => n \in nodeEvents
  BY <1>1 DEF Init, Existing
<1>3. ~Working /\ store[n] = None
  BY DEF Init, Working
<1> QED
  BY <1>2, <1>3 DEF Accounted, Pending, Right

LEMMA NextSettled ==
  ASSUME TypeOK, StoreOK, StoreLegible, CachesCatchUp, Settled, [Next]_vars
  PROVE  Settled'
<1> SUFFICES ASSUME Heeded', NEW n \in Node, n \notin missed' PROVE Accounted(n)'
  BY DEF Settled, Heeded
<1>1. CASE Restart
  <2>1. nodes'[n] # None => n \in nodeEvents'
    BY <1>1 DEF Restart, cluster, Existing, TypeOK, ClusterTypeOK
  <2>2. ~Working' /\ store'[n] = None
    BY <1>1 DEF Restart, Finish, Working
  <2> QED
    BY <2>1, <2>2 DEF Accounted, Pending, Right
<1>2. CASE ~Restart
  <2>1. overtaken \subseteq overtaken' /\ unheeded \subseteq unheeded'
    BY <1>2 DEF Next, vars, ClusterChanges, ChangeNode, SetPool, DeletePool, SetConfig,
         DeleteConfig, ChangeClusterVersion, Handle, DeliverNode, HandlePool,
         HandleDeletedPool, HandleConfig, HandleDeletedConfig, RequestAllNodes, Reconcile,
         Begin, WhichPool, GetPool, GetVersion, Evaluate, NotifyNode, NotifyPool, ReadFails, ListFails,
         TakeNode, TakePool, history
  <2>2. Heeded
    BY <2>1 DEF Heeded
\* A node that was missed until now is requested.
  <2>3. CASE n \in missed
    <3>1. CASE DeliverNode(n)
      BY <3>1 DEF DeliverNode, Accounted, Pending
    <3>2. CASE \E l \in Listeners : RequestAllNodes(l)
      <4>1. nodes'[n] # None /\ n \in dirty'
        BY <2>3, <3>2 DEF RequestAllNodes, Existing, cluster
      <4> QED
        BY <4>1 DEF Accounted, Pending
    <3>3. CASE ~DeliverNode(n) /\ ~\E l \in Listeners : RequestAllNodes(l)
      BY <1>2, <2>3, <3>3 DEF Next, vars, ClusterChanges, ChangeNode, SetPool, DeletePool,
         SetConfig, DeleteConfig, ChangeClusterVersion, Handle, DeliverNode, HandlePool,
         HandleDeletedPool, HandleConfig, HandleDeletedConfig, Reconcile, Begin, WhichPool,
         GetPool, GetVersion, Evaluate, NotifyNode, NotifyPool, ReadFails, ListFails,
         TakeNode, TakePool, history
    <3> QED
      BY <3>1, <3>2, <3>3
  <2>4. CASE n \notin missed
    <3>1. Accounted(n)
      BY <2>2, <2>4 DEF Settled, Heeded
    <3>2. CASE TakeNode \/ TakePool \/ UNCHANGED vars
      <4>1. UNCHANGED <<nodes, pools, clusterVersion, poolEvents, poolDeletions, listing,
                        selectors, versions, dirty, nodeEvents, worker, store>>
        BY <3>2 DEF TakeNode, TakePool, vars, cluster, events, caches
      <4>2. Pending(n) => Pending(n)'
        BY <4>1, PendingStays, StirringStays
      <4> QED
        BY <3>1, <4>1, <4>2, AccountedStays
    <3>3. ASSUME NEW l \in Listeners, ListFails(l) PROVE Accounted(n)'
      <4>1. /\ UNCHANGED <<nodes, store, worker, dirty, nodeEvents>>
            /\ n \notin Existing(nodes)
        BY <3>3 DEF ListFails, cluster, events
      <4>2. nodes[n] = None
        BY <4>1 DEF Existing, TypeOK, ClusterTypeOK
      <4> QED
        BY <3>1, <4>1, <4>2, AccountedAnew
    <3> QED
      BY <1>2, <2>2, <3>1, <3>2, <3>3, ClusterSettles, HandleSettles, WorkerSettles DEF Next
  <2> QED
    BY <2>3, <2>4
<1> QED
  BY <1>1, <1>2

LEMMA SettledCorrect == Spec => []Settled
<1>1. TypeOK /\ StoreOK /\ StoreLegible /\ CachesCatchUp /\ Settled /\ [Next]_vars => Settled'
  BY NextSettled
<1> QED
  BY <1>1, InitSettled, LegibleCorrect, CatchUpCorrect, PTL DEF Spec

\* Whatever order events, handlers and reads came in, once everything is handled the
\* store has for every node what its labels, its pool, the configs and the target
\* version evaluate to now: no update of any of them is lost, although the worker reads
\* them one after the other while they change.
THEOREM UpToDateCorrect == Spec => []QuietMeansUpToDate
<1>1. ASSUME TypeOK, StoreOK, CachesCatchUp, QuietMeansCachesAgree, Settled
      PROVE  QuietMeansUpToDate
  <2>1. SUFFICES ASSUME Quiet, overtaken = {}, unheeded = {}, NEW n \in Node \ missed
                 PROVE  UpToDate(n)
    BY DEF QuietMeansUpToDate
  <2>2. selectors = [q \in Pool |-> SelectorOf(q)]
    BY <1>1, <2>1 DEF QuietMeansCachesAgree, TypeOK, ListenersTypeOK
  <2>3. versions = [c \in Config |-> VersionOf(c)]
    BY <1>1, <2>1 DEF QuietMeansCachesAgree, TypeOK, ListenersTypeOK
  <2>4. ~Pending(n) /\ ~Working
    BY <2>1 DEF Quiet, Pending, Stirring, PoolDue, DeletionDue, Told, Waiting, Working
  <2>5. Right(n)
    BY <1>1, <2>1, <2>4 DEF Settled, Accounted
  <2>6. CASE nodes[n] = None
    BY <2>5, <2>6 DEF Right, UpToDate
  <2>7. CASE nodes[n] # None
    <3>1. PICK p \in WhichMCPs(selectors, nodes[n].labels) : RightIn(n, p)
      BY <2>5, <2>7 DEF Right
    <3>2. CASE p = None
      BY <2>2, <2>7, <3>1, <3>2 DEF RightIn, UpToDate
    <3>3. CASE p # None
      <4>1. /\ store[n] # None
            /\ Shown(store[n]) = Shown(EvaluateNode(n, nodes[n], p, pools[p], versions,
                                         clusterVersion.version, <<>>, 1))
        BY <3>1, <3>3 DEF RightIn
      <4>2. nodes[n] \in NodeShape
        BY <1>1, <2>7 DEF TypeOK, ClusterTypeOK
      <4>3. /\ OwnWords \subseteq AllWhys /\ Telling(nodes[n], AllWhys) /\ Carriable(<<>>, AllWhys)
            /\ Carriable(store[n].conditions, AllWhys)
        BY <1>1, <4>1, <4>2, ShapeTells DEF AllWhys, Carriable, StoreOK
      <4>4. Shown(EvaluateNode(n, nodes[n], p, pools[p], versions, clusterVersion.version, <<>>, 1))
          = Shown(EvaluateNode(n, nodes[n], p, pools[p], versions, clusterVersion.version,
                               store[n].conditions, 1))
        BY <4>3, EvaluationShown
      <4>5. Shown(store[n]) = Shown(EvaluateNode(n, nodes[n], p, pools[p],
               [c \in Config |-> VersionOf(c)], clusterVersion.version, store[n].conditions, 1))
        BY <2>3, <4>1, <4>4
      <4> QED
        BY <2>2, <2>7, <3>1, <3>3, <4>1, <4>5 DEF UpToDate
    <3> QED
      BY <3>2, <3>3
  <2> QED
    BY <2>6, <2>7
<1> QED
  BY <1>1, StoreCorrect, CatchUpCorrect, CachesCorrect, SettledCorrect, PTL
=============================================================================
