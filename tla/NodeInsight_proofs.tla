-------------------------- MODULE NodeInsight_proofs --------------------------
(***************************************************************************)
(* Proofs about NodeInsight, for any nodes, pools, states, capacity of the *)
(* channels and number of changes: the types, and that an insight that     *)
(* does not show what it should is always on somebody's list.              *)
(***************************************************************************)
EXTENDS NodeInsight, TLAPS

\* Offering to a channel keeps it a sequence.
LEMMA OfferType ==
  ASSUME NEW S, NEW channel \in Seq(S), NEW x \in S
  PROVE  Offer(channel, x) \in Seq(S)
BY DEF Offer

\* Whatever is due to an insight is a status or None.
LEMMA StatusOfType ==
  ASSUME NEW s \in State
  PROVE  StatusOf(s) \in Statuses
BY DEF Statuses

-----------------------------------------------------------------------------
(* Types.                                                                  *)

LEMMA InitTypeOK == Init => TypeOK
<1> SUFFICES ASSUME Init PROVE TypeOK
  OBVIOUS
<1>1. /\ store \in [Node -> State \cup {None}]
      /\ nodeChan \in Seq(Node) /\ poolChan \in Seq(Pool)
      /\ announcing \in [node : Node \cup {None}, pool : Pool \cup {None}]
  BY DEF Init, ProviderInit, Nothing
<1>2. /\ insights \in [Node -> Statuses \cup {None}]
      /\ cached \subseteq Node /\ unseen \subseteq Node /\ dirty \subseteq Node
      /\ unannounced \subseteq Node /\ gone \subseteq Node
  BY DEF Init
<1>3. pc = "idle" /\ item = None /\ seen = None /\ current = FALSE /\ changes = 0
  BY DEF Init
<1> QED
  BY <1>1, <1>2, <1>3 DEF TypeOK

LEMMA WriteType ==
  ASSUME TypeOK, NEW n \in Node, NEW status \in Statuses \cup {None}, Write(n, status)
  PROVE  /\ insights' \in [Node -> Statuses \cup {None}]
         /\ cached' \subseteq Node /\ unseen' \subseteq Node
BY DEF TypeOK, Write

\* A bounded change of the outside world, or none.
LEMMA ChangeType ==
  ASSUME TypeOK, Change \/ UNCHANGED changes
  PROVE  changes' \in Nat
BY DEF TypeOK, Change

\* A worker that stops is idle, with the node it had back in the queue or not.
LEMMA StopType ==
  ASSUME TypeOK, item \in Node, Done \/ Retry
  PROVE  /\ dirty' \subseteq Node
         /\ pc' = "idle" /\ item' = None /\ seen' = None /\ current' = FALSE
BY DEF TypeOK, Done, Retry, Stop

\* The provider's actions.
LEMMA StoreTypeOK ==
  ASSUME TypeOK, NEW n \in Node, PublishState(n) \/ RemoveState(n)
  PROVE  TypeOK'
<1>1. CASE PublishState(n)
  <2>1. PICK s \in State : store' = [store EXCEPT ![n] = s]
    BY <1>1 DEF PublishState
  <2>2. store'[n] = s /\ s.pool \in Pool
    BY <2>1, NodeInsightAssumption DEF TypeOK
  <2> QED
    BY <1>1, <2>1, <2>2
    DEF TypeOK, PublishState, Publish, Change, objects, worker
<1>2. CASE RemoveState(n)
  BY <1>2 DEF TypeOK, RemoveState, Remove, Change, objects, worker
<1> QED
  BY <1>1, <1>2

LEMMA ChannelTypeOK ==
  ASSUME TypeOK, AnnounceToNodes \/ AnnounceToPools \/ ReceiveForPools \/ Receive
  PROVE  TypeOK'
<1>1. CASE AnnounceToNodes
  <2>1. announcing.node \in Node
    BY <1>1 DEF TypeOK, AnnounceToNodes, AnnounceNode
  <2>2. nodeChan' \in Seq(Node)
    BY <1>1, <2>1, OfferType DEF TypeOK, AnnounceToNodes, AnnounceNode
  <2> QED
    BY <1>1, <2>1, <2>2 DEF TypeOK, AnnounceToNodes, AnnounceNode, objects, worker
<1>2. CASE AnnounceToPools
  <2>1. announcing.pool \in Pool
    BY <1>2 DEF TypeOK, AnnounceToPools, AnnouncePool
  <2>2. poolChan' \in Seq(Pool)
    BY <1>2, <2>1, OfferType DEF TypeOK, AnnounceToPools, AnnouncePool
  <2> QED
    BY <1>2, <2>2 DEF TypeOK, AnnounceToPools, AnnouncePool, Nothing, objects, worker
<1>3. CASE ReceiveForPools
  BY <1>3 DEF TypeOK, ReceiveForPools, TakePool, objects, worker
<1>4. CASE Receive
  <2>1. Head(nodeChan) \in Node /\ Tail(nodeChan) \in Seq(Node)
    BY <1>4 DEF TypeOK, Receive, TakeNode
  <2> QED
    BY <1>4, <2>1 DEF TypeOK, Receive, TakeNode, objects, worker
<1> QED
  BY <1>1, <1>2, <1>3, <1>4

\* The worker's actions.
LEMMA WorkTypeOK ==
  ASSUME TypeOK, Work \/ CallFails
  PROVE  TypeOK'
<1>1. ASSUME NEW n \in Node, Reconcile(n) PROVE TypeOK'
  BY <1>1, NodeInsightAssumption DEF TypeOK, Reconcile, providerVars, objects
<1>2. CASE GetInsight
  BY <1>2, NodeInsightAssumption
  DEF TypeOK, GetInsight, Done, Stop, providerVars, objects
<1>3. CASE DeleteInsight
  <2>1. item \in Node
    BY <1>3 DEF DeleteInsight, TypeOK
  <2>2. CASE insights[item] = None
    BY <1>3, <2>1, <2>2
    DEF TypeOK, DeleteInsight, Retry, Stop, Untouched, providerVars, objects
  <2>3. CASE insights[item] # None
    <3>1. Write(item, None)
      BY <1>3, <2>3 DEF DeleteInsight
    <3>2. /\ insights' \in [Node -> Statuses \cup {None}]
          /\ cached' \subseteq Node /\ unseen' \subseteq Node
      BY <2>1, <3>1, WriteType
    <3>3. /\ (Done /\ UNCHANGED changes) \/ (Retry /\ Change)
          /\ UNCHANGED <<providerVars, unannounced, gone>>
      BY <1>3, <2>3 DEF DeleteInsight, Answered
    <3> QED
      BY <2>1, <3>2, <3>3, ChangeType, StopType DEF TypeOK, providerVars
  <2> QED
    BY <2>2, <2>3
<1>4. CASE CreateInsight
  <2>1. item \in Node
    BY <1>4 DEF CreateInsight, TypeOK
  <2>2. CASE insights[item] # None
    BY <1>4, <2>1, <2>2
    DEF TypeOK, CreateInsight, Retry, Stop, Untouched, providerVars, objects
  <2>3. CASE insights[item] = None
    <3>1. Write(item, Empty) /\ Empty \in Statuses
      BY <1>4, <2>3 DEF CreateInsight, Statuses
    <3>2. /\ insights' \in [Node -> Statuses \cup {None}]
          /\ cached' \subseteq Node /\ unseen' \subseteq Node
      BY <2>1, <3>1, WriteType
    <3>3. /\ \/ pc' = "update" /\ current' = TRUE /\ UNCHANGED <<item, seen, dirty, changes>>
             \/ Retry /\ Change
          /\ pc = "create"
          /\ UNCHANGED <<providerVars, unannounced, gone>>
      BY <1>4, <2>3 DEF CreateInsight, Answered
    <3>4. changes' \in Nat
      BY <3>3, ChangeType
    <3>5. CASE Retry
      BY <2>1, <3>2, <3>3, <3>4, <3>5, StopType DEF TypeOK, providerVars
    <3>6. CASE ~Retry
      BY <2>1, <3>2, <3>3, <3>4, <3>6, NodeInsightAssumption DEF TypeOK, providerVars
    <3> QED
      BY <3>5, <3>6
  <2> QED
    BY <2>2, <2>3
<1>5. CASE UpdateStatus
  <2>1. item \in Node /\ seen \in State
    BY <1>5 DEF UpdateStatus, TypeOK
  <2>2. CASE insights[item] = None \/ ~current
    BY <1>5, <2>1, <2>2
    DEF TypeOK, UpdateStatus, Retry, Stop, Untouched, providerVars, objects
  <2>3. CASE ~(insights[item] = None \/ ~current)
    <3>1. Write(item, StatusOf(seen))
      BY <1>5, <2>3 DEF UpdateStatus
    <3>2. /\ insights' \in [Node -> Statuses \cup {None}]
          /\ cached' \subseteq Node /\ unseen' \subseteq Node
      BY <2>1, <3>1, StatusOfType, WriteType
    <3>3. /\ (Done /\ UNCHANGED changes) \/ (Retry /\ Change)
          /\ UNCHANGED <<providerVars, unannounced, gone>>
      BY <1>5, <2>3 DEF UpdateStatus, Answered
    <3> QED
      BY <2>1, <3>2, <3>3, ChangeType, StopType DEF TypeOK, providerVars
  <2> QED
    BY <2>2, <2>3
<1>6. CASE CallFails
  <2>1. item \in Node
    BY <1>6 DEF CallFails, TypeOK
  <2> QED
    BY <1>6, <2>1, ChangeType, StopType DEF TypeOK, CallFails, providerVars, objects
<1> QED
  BY <1>1, <1>2, <1>3, <1>4, <1>5, <1>6 DEF Work

LEMMA NextTypeOK == TypeOK /\ [Next]_vars => TypeOK'
<1> SUFFICES ASSUME TypeOK, [Next]_vars PROVE TypeOK'
  OBVIOUS
<1>1. ASSUME NEW n \in Node, PublishState(n) \/ RemoveState(n) PROVE TypeOK'
  BY <1>1, StoreTypeOK
<1>2. CASE AnnounceToNodes \/ AnnounceToPools \/ ReceiveForPools \/ Receive
  BY <1>2, ChannelTypeOK
<1>3. ASSUME NEW n \in Node, Sync(n) PROVE TypeOK'
  BY <1>3 DEF TypeOK, Sync, providerVars, worker
<1>4. CASE Resync
  BY <1>4 DEF TypeOK, Resync, providerVars, objects, worker
<1>5. CASE Work \/ CallFails
  BY <1>5, WorkTypeOK
<1>6. ASSUME NEW n \in Node, Meddle(n) PROVE TypeOK'
  <2>1. PICK status \in {None, Empty} : Write(n, status)
    BY <1>6 DEF Meddle
  <2>2. /\ insights' \in [Node -> Statuses \cup {None}]
        /\ cached' \subseteq Node /\ unseen' \subseteq Node
    BY <2>1, WriteType DEF Statuses
  <2> QED
    BY <1>6, <2>2 DEF TypeOK, Meddle, Change, providerVars
<1>7. CASE Restart
  <2>1. changes' \in Nat
    BY <1>7, ChangeType DEF Restart
  <2>2. /\ store' \in [Node -> State \cup {None}]
        /\ nodeChan' \in Seq(Node) /\ poolChan' \in Seq(Pool)
        /\ announcing' \in [node : Node \cup {None}, pool : Pool \cup {None}]
    BY <1>7 DEF Restart, RestartProvider, Nothing
  <2> QED
    BY <1>7, <2>1, <2>2 DEF TypeOK, Restart, Stop
<1>8. CASE UNCHANGED vars
  BY <1>8 DEF TypeOK, vars, providerVars, objects, worker
<1> QED
  BY <1>1, <1>2, <1>3, <1>4, <1>5, <1>6, <1>7, <1>8 DEF Next

\* Every variable keeps its type (TypeOK), whatever the sizes.
THEOREM TypeCorrect == Spec => []TypeOK
BY InitTypeOK, NextTypeOK, PTL DEF Spec

-----------------------------------------------------------------------------
(* An insight that does not show what is due is pending.                   *)
(*                                                                         *)
(* MirroredOrPending is inductive.  A publication is pending in            *)
(* announcing; an announcement moves it to the channel, or nowhere when    *)
(* the channel is full; receiving moves it to the queue; the worker moves  *)
(* it to item and seen; and a worker that stops without having written     *)
(* what is due puts it back.  Any write of an insight makes it pending in  *)
(* unseen.                                                                 *)

\* NothingForgotten for one node.
Good(n) == insights[n] = Due(n) \/ n \in unannounced \/ Pending(n)

\* What is in a sequence stays in it when something is appended, and leaves it
\* only as its head.
LEMMA OfferKeeps ==
  ASSUME NEW S, NEW channel \in Seq(S), NEW x \in S, NEW i \in 1..Len(channel)
  PROVE  i \in 1..Len(Offer(channel, x)) /\ Offer(channel, x)[i] = channel[i]
BY DEF Offer

LEMMA OfferAdds ==
  ASSUME NEW S, NEW channel \in Seq(S), NEW x \in S, Offer(channel, x) # channel
  PROVE  \E i \in 1..Len(Offer(channel, x)) : Offer(channel, x)[i] = x
<1>1. Offer(channel, x) = Append(channel, x)
  BY DEF Offer
<1>2. Len(channel) + 1 \in 1..Len(Append(channel, x))
  OBVIOUS
<1>3. Append(channel, x)[Len(channel) + 1] = x
  OBVIOUS
<1> QED
  BY <1>1, <1>2, <1>3

LEMMA TailKeeps ==
  ASSUME NEW S, NEW channel \in Seq(S), channel # <<>>, NEW i \in 1..Len(channel)
  PROVE  \/ channel[i] = Head(channel)
         \/ \E j \in 1..Len(Tail(channel)) : Tail(channel)[j] = channel[i]
<1>1. CASE i = 1
  BY <1>1
<1>2. CASE i # 1
  <2>1. i - 1 \in 1..Len(Tail(channel)) /\ Tail(channel)[i - 1] = channel[i]
    BY <1>2
  <2> QED
    BY <2>1
<1> QED
  BY <1>1, <1>2

LEMMA InitGood == Init => NothingForgotten
BY DEF Init, ProviderInit, NothingForgotten, Pending, Due

\* A write puts the node among the unseen, unless it stores what is there.
LEMMA WriteGood ==
  ASSUME TypeOK, NEW m \in Node, NEW status, Write(m, status),
         NEW n \in Node
  PROVE  /\ n \in unseen => n \in unseen'
         /\ insights'[n] # insights[n] => n \in unseen'
         /\ n # m => insights'[n] = insights[n]
         /\ insights'[m] = status
BY DEF TypeOK, Write

LEMMA StoreGood ==
  ASSUME TypeOK, NEW m \in Node, PublishState(m) \/ RemoveState(m), NEW n \in Node, Good(n)
  PROVE  Good(n)'
<1>1. CASE n = m
  <2>1. CASE PublishState(m)
    BY <1>1, <2>1 DEF PublishState, Publish, Good, Pending
  <2>2. CASE RemoveState(m)
    BY <1>1, <2>2 DEF RemoveState, Good
  <2> QED
    BY <2>1, <2>2
<1>2. CASE n # m
  <2>1. store'[n] = store[n] /\ Due(n)' = Due(n)
    BY <1>2 DEF PublishState, Publish, RemoveState, Remove, Due, TypeOK
  <2>2. CASE PublishState(m)
    <3>1. announcing = Nothing /\ announcing.node # n
      BY <2>2, NodeInsightAssumption DEF PublishState, Publish, Nothing
    <3> QED
      BY <2>1, <2>2, <3>1
      DEF PublishState, Publish, Good, Pending, objects, worker
  <2>3. CASE RemoveState(m)
    BY <2>1, <2>3 DEF RemoveState, Remove, Good, Pending, objects, worker
  <2> QED
    BY <2>2, <2>3
<1> QED
  BY <1>1, <1>2

LEMMA ChannelGood ==
  ASSUME TypeOK, AnnounceToNodes \/ AnnounceToPools \/ ReceiveForPools \/ Receive,
         NEW n \in Node, Good(n)
  PROVE  Good(n)'
<1>1. CASE AnnounceToNodes
  <2>1. /\ announcing.node \in Node /\ nodeChan \in Seq(Node)
        /\ nodeChan' = Offer(nodeChan, announcing.node)
    BY <1>1 DEF AnnounceToNodes, AnnounceNode, TypeOK
  <2>2. CASE announcing.node = n
    <3>1. CASE nodeChan' = nodeChan
      BY <1>1, <2>2, <3>1 DEF AnnounceToNodes, Good
    <3>2. CASE nodeChan' # nodeChan
      BY <2>1, <2>2, <3>2, OfferAdds DEF Good, Pending
    <3> QED
      BY <3>1, <3>2
  <2>3. CASE announcing.node # n
    <3>1. ASSUME NEW i \in 1..Len(nodeChan), nodeChan[i] = n
          PROVE  \E j \in 1..Len(nodeChan') : nodeChan'[j] = n
      BY <2>1, <3>1, OfferKeeps
    <3> QED
      BY <1>1, <2>3, <3>1
      DEF AnnounceToNodes, AnnounceNode, Good, Pending, Due, objects, worker
  <2> QED
    BY <2>2, <2>3
<1>2. CASE AnnounceToPools
  BY <1>2, NodeInsightAssumption
  DEF AnnounceToPools, AnnouncePool, Nothing, Good, Pending, Due, objects, worker
<1>3. CASE ReceiveForPools
  BY <1>3 DEF ReceiveForPools, TakePool, Good, Pending, Due, objects, worker
<1>4. CASE Receive
  <2>1. nodeChan \in Seq(Node) /\ nodeChan # <<>> /\ nodeChan' = Tail(nodeChan)
    BY <1>4 DEF Receive, TakeNode, TypeOK
  <2>2. ASSUME NEW i \in 1..Len(nodeChan), nodeChan[i] = n
        PROVE  n \in dirty' \/ \E j \in 1..Len(nodeChan') : nodeChan'[j] = n
    BY <1>4, <2>1, <2>2, TailKeeps DEF Receive
  <2> QED
    BY <1>4, <2>2 DEF Receive, TakeNode, Good, Pending, Due, objects, worker
<1> QED
  BY <1>1, <1>2, <1>3, <1>4

LEMMA WorkGood ==
  ASSUME TypeOK, InformerAgrees, Work \/ CallFails, NEW n \in Node, Good(n)
  PROVE  Good(n)'
<1>1. ASSUME NEW m \in Node, Reconcile(m) PROVE Good(n)'
  <2>1. item = None /\ item # n
    BY <1>1, NodeInsightAssumption DEF Reconcile, TypeOK
  <2> QED
    BY <1>1, <2>1 DEF Reconcile, Good, Pending, Due, providerVars, objects
<1>2. CASE GetInsight
  <2>1. CASE item \notin cached /\ seen = None
    <3>1. n \notin unseen /\ n = item => insights[n] = None
      BY <2>1 DEF InformerAgrees
    <3> QED
      BY <1>2, <2>1, <3>1
      DEF GetInsight, Done, Stop, Good, Pending, Due, providerVars, objects
  <2>2. CASE ~(item \notin cached /\ seen = None)
    BY <1>2, <2>2 DEF GetInsight, Good, Pending, Due, providerVars, objects
  <2> QED
    BY <2>1, <2>2
<1>3. ASSUME NEW status, item \in Node, Write(item, status),
             UNCHANGED <<providerVars, unannounced>>,
             dirty \subseteq dirty',
             \/ item \in dirty'
             \/ item' = item /\ seen' = seen
             \/ seen = store[item] => status = Due(item)
      PROVE  Good(n)'
  <2>1. Due(n)' = Due(n)
    BY <1>3 DEF Due, providerVars
  <2>2. CASE n \in unseen' \cup dirty'
    BY <2>2 DEF Good, Pending
  <2>3. CASE n \notin unseen' \cup dirty'
    <3>1. insights'[n] = insights[n] /\ n \notin unseen \cup dirty
      BY <1>3, <2>3, WriteGood
    <3>2. CASE item = n /\ seen = store[n]
      BY <1>3, <2>1, <2>3, <3>2, WriteGood DEF Good, Pending, providerVars
    <3>3. CASE ~(item = n /\ seen = store[n])
      BY <1>3, <2>1, <3>1, <3>3 DEF Good, Pending, providerVars
    <3> QED
      BY <3>2, <3>3
  <2> QED
    BY <2>2, <2>3
<1>4. ASSUME Retry, UNCHANGED <<providerVars, objects, unannounced>> PROVE Good(n)'
  BY <1>4 DEF Retry, Stop, Good, Pending, Due, providerVars, objects
<1>5. CASE DeleteInsight
  <2>1. item \in Node /\ seen = None
    BY <1>5 DEF DeleteInsight, TypeOK
  <2>2. CASE insights[item] = None
    BY <1>4, <1>5, <2>2 DEF DeleteInsight, Untouched
  <2>3. CASE insights[item] # None
    <3>1. /\ Write(item, None) /\ UNCHANGED <<providerVars, unannounced>>
          /\ Done \/ Retry
      BY <1>5, <2>3 DEF DeleteInsight, Answered
    <3>2. dirty \subseteq dirty' /\ (seen = store[item] => None = Due(item))
      BY <2>1, <3>1 DEF Done, Retry, Due
    <3> QED
      BY <1>3, <2>1, <3>1, <3>2
  <2> QED
    BY <2>2, <2>3
<1>6. CASE CreateInsight
  <2>1. item \in Node
    BY <1>6 DEF CreateInsight, TypeOK
  <2>2. CASE insights[item] # None
    BY <1>4, <1>6, <2>2 DEF CreateInsight, Untouched
  <2>3. CASE insights[item] = None
    <3>1. /\ Write(item, Empty) /\ UNCHANGED <<providerVars, unannounced>>
          /\ Retry \/ UNCHANGED <<item, seen, dirty>>
      BY <1>6, <2>3 DEF CreateInsight, Answered
    <3>2. /\ dirty \subseteq dirty'
          /\ item \in dirty' \/ (item' = item /\ seen' = seen)
      BY <3>1 DEF Retry
    <3> QED
      BY <1>3, <2>1, <3>1, <3>2
  <2> QED
    BY <2>2, <2>3
<1>7. CASE UpdateStatus
  <2>1. item \in Node /\ seen \in State
    BY <1>7 DEF UpdateStatus, TypeOK
  <2>2. CASE insights[item] = None \/ ~current
    BY <1>4, <1>7, <2>2 DEF UpdateStatus, Untouched
  <2>3. CASE ~(insights[item] = None \/ ~current)
    <3>1. /\ Write(item, StatusOf(seen)) /\ UNCHANGED <<providerVars, unannounced>>
          /\ Done \/ Retry
      BY <1>7, <2>3 DEF UpdateStatus, Answered
    <3>2. dirty \subseteq dirty' /\ (seen = store[item] => StatusOf(seen) = Due(item))
      BY <2>1, <3>1, NodeInsightAssumption DEF Done, Retry, Due
    <3> QED
      BY <1>3, <2>1, <3>1, <3>2
  <2> QED
    BY <2>2, <2>3
<1>8. CASE CallFails
  BY <1>4, <1>8 DEF CallFails
<1> QED
  BY <1>1, <1>2, <1>5, <1>6, <1>7, <1>8 DEF Work

LEMMA NextGood ==
  ASSUME TypeOK, InformerAgrees, [Next]_vars, NEW n \in Node, Good(n)
  PROVE  Good(n)'
<1>1. ASSUME NEW m \in Node, PublishState(m) \/ RemoveState(m) PROVE Good(n)'
  BY <1>1, StoreGood
<1>2. CASE AnnounceToNodes \/ AnnounceToPools \/ ReceiveForPools \/ Receive
  BY <1>2, ChannelGood
<1>3. ASSUME NEW m \in Node, Sync(m) PROVE Good(n)'
  BY <1>3 DEF Sync, Good, Pending, Due, providerVars, worker
<1>4. CASE Resync
  BY <1>4 DEF Resync, Good, Pending, Due, providerVars, objects, worker
<1>5. CASE Work \/ CallFails
  BY <1>5, WorkGood
<1>6. ASSUME NEW m \in Node, Meddle(m) PROVE Good(n)'
  <2>1. PICK status \in {None, Empty} : Write(m, status)
    BY <1>6 DEF Meddle
  <2>2. CASE n \in unseen'
    BY <2>2 DEF Good, Pending
  <2>3. CASE n \notin unseen'
    <3>1. insights'[n] = insights[n] /\ n \notin unseen
      BY <2>1, <2>3, WriteGood
    <3> QED
      BY <1>6, <3>1 DEF Meddle, Good, Pending, Due, providerVars
  <2> QED
    BY <2>2, <2>3
<1>7. CASE Restart
  BY <1>7 DEF Restart, RestartProvider, Good, Pending, Due
<1>8. CASE UNCHANGED vars
  BY <1>8 DEF Good, Pending, Due, vars, providerVars, objects, worker
<1> QED
  BY <1>1, <1>2, <1>3, <1>4, <1>5, <1>6, <1>7, <1>8 DEF Next

\* A write makes the informer lag behind; a sync ends that.
LEMMA WriteAgrees ==
  ASSUME TypeOK, InformerAgrees, NEW m \in Node, NEW status, Write(m, status)
  PROVE  InformerAgrees'
BY WriteGood DEF Write, InformerAgrees, TypeOK

LEMMA NextAgrees ==
  ASSUME TypeOK, InformerAgrees, [Next]_vars
  PROVE  InformerAgrees'
<1>1. CASE UNCHANGED objects
  BY <1>1 DEF InformerAgrees, objects
<1>2. ASSUME NEW m \in Node, Sync(m) PROVE InformerAgrees'
  BY <1>2 DEF Sync, InformerAgrees, TypeOK
<1>3. ASSUME NEW m \in Node, Meddle(m) PROVE InformerAgrees'
  BY <1>3, WriteAgrees DEF Meddle
<1>4. CASE DeleteInsight \/ CreateInsight \/ UpdateStatus
  <2>1. item \in Node
    BY <1>4 DEF DeleteInsight, CreateInsight, UpdateStatus, TypeOK
  <2>2. UNCHANGED objects \/ \E status : Write(item, status)
    BY <1>4 DEF DeleteInsight, CreateInsight, UpdateStatus, Untouched
  <2> QED
    BY <1>1, <2>1, <2>2, WriteAgrees
<1>5. CASE Restart
  BY <1>5 DEF Restart, InformerAgrees
<1>6. QED
  BY <1>1, <1>2, <1>3, <1>4, <1>5
  DEF Next, Work, PublishState, RemoveState, AnnounceToNodes, AnnounceToPools,
      ReceiveForPools, Receive, Resync, Reconcile, GetInsight, CallFails, vars

LEMMA InitMirrored == Init => MirroredOrPending
<1>1. Init => InformerAgrees
  BY DEF Init, InformerAgrees
<1> QED
  BY <1>1, InitGood DEF MirroredOrPending

LEMMA NextMirrored == TypeOK /\ MirroredOrPending /\ [Next]_vars => MirroredOrPending'
BY NextGood, NextAgrees DEF MirroredOrPending, NothingForgotten, Good

\* An insight that does not show what it should is on somebody's list, for any
\* number of nodes, any capacity and any sequence of changes, conflicts, failed
\* calls and restarts (reconcileWithProvider's error returns, the For watch).
THEOREM PendingCorrect == Spec => []MirroredOrPending
BY InitTypeOK, NextTypeOK, InitMirrored, NextMirrored, PTL DEF Spec

LEMMA QuietMirrored == TypeOK /\ MirroredOrPending => QuietMeansMirrored
<1> SUFFICES ASSUME TypeOK, MirroredOrPending, Quiet, NEW n \in Node \ unannounced
             PROVE  insights[n] = Due(n)
  BY DEF QuietMeansMirrored
<1>1. ~Pending(n)
  BY NodeInsightAssumption DEF Quiet, Nothing, Pending, TypeOK
<1> QED
  BY <1>1 DEF MirroredOrPending, NothingForgotten

\* When all is quiet every insight shows the state stored for its node, except
\* for what was never announced.
THEOREM QuietCorrect == Spec => []QuietMeansMirrored
BY TypeCorrect, PendingCorrect, QuietMirrored, PTL
=============================================================================
