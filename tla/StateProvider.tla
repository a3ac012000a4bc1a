---------------------------- MODULE StateProvider ----------------------------
(***************************************************************************)
(* What the central controller promises the controllers downstream of it   *)
(* (nodestate.Provider): a store of node states to read from, and two      *)
(* channels on which it announces that a node's state, or the state of a   *)
(* member of a pool, changed.                                              *)
(*                                                                         *)
(*   - A state is stored first and announced afterwards, to the node       *)
(*     channel and then to the pool channel, before anything else is       *)
(*     stored.                                                             *)
(*   - An announcement that finds its channel full is dropped.             *)
(*   - Removing a state is not announced.                                  *)
(*   - A restart loses the store and whatever the channels held.           *)
(*                                                                         *)
(* CentralNodeState implements this specification; NodeInsight is built on *)
(* it.                                                                     *)
(***************************************************************************)
EXTENDS Integers, Sequences

CONSTANTS Node,      \* names of nodes
          Pool,      \* names of MachineConfigPools
          None,      \* no state
          Capacity   \* defaultChannelBufferSize

ASSUME CapacityAssumption == Capacity \in Nat

VARIABLES store,      \* what GetNodeState returns: a state with a pool, or None
          nodeChan,   \* nodeInsightEvents
          poolChan,   \* mcpInsightEvents
          announcing  \* [node, pool]: still to be announced, None each when not

providerVars == <<store, nodeChan, poolChan, announcing>>

Nothing == [node |-> None, pool |-> None]

ProviderInit ==
  /\ store = [n \in Node |-> None]
  /\ nodeChan = <<>> /\ poolChan = <<>>
  /\ announcing = Nothing

\* A non-blocking send.
Offer(channel, item) == IF Len(channel) < Capacity THEN Append(channel, item) ELSE channel

\* store'[n] is any state that differs from the one stored.
Publish(n) ==
  /\ announcing = Nothing
  /\ store'[n] \notin {None, store[n]}
  /\ store' = [store EXCEPT ![n] = store'[n]]
  /\ announcing' = [node |-> n, pool |-> store'[n].pool]
  /\ UNCHANGED <<nodeChan, poolChan>>

AnnounceNode ==
  /\ announcing.node # None
  /\ nodeChan' = Offer(nodeChan, announcing.node)
  /\ announcing' = [announcing EXCEPT !.node = None]
  /\ UNCHANGED <<store, poolChan>>

AnnouncePool ==
  /\ announcing.node = None /\ announcing.pool # None
  /\ poolChan' = Offer(poolChan, announcing.pool)
  /\ announcing' = Nothing
  /\ UNCHANGED <<store, nodeChan>>

Remove(n) ==
  /\ announcing = Nothing
  /\ store[n] # None
  /\ store' = [store EXCEPT ![n] = None]
  /\ UNCHANGED <<nodeChan, poolChan, announcing>>

\* The channel sources of the downstream controllers receive.
TakeNode ==
  /\ nodeChan # <<>>
  /\ nodeChan' = Tail(nodeChan)
  /\ UNCHANGED <<store, poolChan, announcing>>

TakePool ==
  /\ poolChan # <<>>
  /\ poolChan' = Tail(poolChan)
  /\ UNCHANGED <<store, nodeChan, announcing>>

RestartProvider ==
  /\ store' = [n \in Node |-> None]
  /\ nodeChan' = <<>> /\ poolChan' = <<>>
  /\ announcing' = Nothing

ProviderNext ==
  \/ \E n \in Node : Publish(n) \/ Remove(n)
  \/ AnnounceNode \/ AnnouncePool
  \/ TakeNode \/ TakePool
  \/ RestartProvider

ProviderSpec == ProviderInit /\ [][ProviderNext]_providerVars
=============================================================================
