------------------------- MODULE MC_CentralNodeState -------------------------
(* Two pools with overlapping selectors, as a custom pool's nodes carry    *)
(* the labels of the base pool too, and one node that may belong to both.  *)
EXTENDS CentralNodeState, TLC

CONSTANTS n1, n2, base, custom, c1, c2, v1, v2

\* A node with no configuration yet, one that is done on c1, and one on its
\* way from c1 to c2.
Bare(labels) ==
  [labels |-> labels, current |-> None, desired |-> None, mcd |-> None, mcdReason |-> {},
   desiredDrain |-> None, appliedDrain |-> None, cordoned |-> FALSE, troubles |-> {},
   currentImage |-> None, desiredImage |-> None]
Done(labels)   == [Bare(labels) EXCEPT !.current = c1, !.desired = c1, !.mcd = "Done"]
Moving(labels) == [Done(labels) EXCEPT !.desired = c2, !.mcd = "Working"]

\* Nodes that move between the pools, or come and go.
MCNodeShape     == {Done("plain"), Done("both"), Moving("both")}
MCBareNodeShape == {Bare("both")}

PoolSpec(selector, paused) == [selector |-> selector, paused |-> paused, osImage |-> None]
Wide   == PoolSpec({"plain", "both"}, FALSE)
Narrow == PoolSpec({"both"}, FALSE)
Broken == PoolSpec(None, FALSE)
MCPoolShape == {Wide, Narrow, [Narrow EXCEPT !.paused = TRUE], Broken}

\* A ClusterVersion whose history has an entry.
MCClusterVersions == [version : Version]

MCClusters ==
  {[nodes   |-> [n \in Node |-> IF n = n1 THEN s ELSE None],
    pools   |-> [p \in Pool |-> IF p = base THEN Wide ELSE None],
    configs |-> [c \in Config |-> IF c = c1 THEN [version |-> v1] ELSE None],
    clusterVersion |-> [version |-> v1]] :
      s \in {Moving("both"), Bare("both")} \cap NodeShape}
=============================================================================
