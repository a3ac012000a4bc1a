--------------------------- MODULE MC_NodeInsight ---------------------------
(* Two nodes of one pool, whose states have something that insights show   *)
(* and something they leave out.                                           *)
EXTENDS NodeInsight, TLC

CONSTANTS n1, n2, p1

NodeState(shown, hidden) == [pool |-> p1, shown |-> shown, hidden |-> hidden]

MCState    == {NodeState("draining", "v1"), NodeState("updated", "v1")}
MCOneState == {NodeState("updated", "v1")}
=============================================================================
