--------------------------- MODULE MC_PoolInsight ---------------------------
(* Two pools, a node that drains or reboots in one or is done in the other. *)
EXTENDS PoolInsight, TLC

CONSTANTS n1, n2, a, b

NodeState(p, phase, version, degraded) ==
  [pool |-> p, phase |-> phase, version |-> version, desiredVersion |-> "new",
   available |-> phase # "Rebooting", degraded |-> degraded]

MCState == {NodeState(a, "Draining", "old", FALSE), NodeState(a, "Rebooting", "old", FALSE),
            NodeState(b, "Completed", "new", FALSE)}

\* One pool, whose nodes drain, or are done but for a degraded daemon.
MCOnePoolState ==
  {NodeState(a, "Draining", "old", FALSE), NodeState(a, "Completed", "new", TRUE)}
=============================================================================
