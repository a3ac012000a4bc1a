---------------------- MODULE MC_ClusterOperatorInsight ----------------------
(* Two versions, two operators, and what they report before an update and   *)
(* at its end, out of service for a moment.                                 *)
EXTENDS ClusterOperatorInsight

CONSTANTS v1, v2, o1, o2

Reporting(version, progressing, available, degraded) ==
  [version |-> version, progressing |-> progressing, available |-> available,
   degraded |-> degraded]

MCReport ==
  {Reporting(v1, "False", "True", None), Reporting(v2, "True", "False", "True")}
=============================================================================
