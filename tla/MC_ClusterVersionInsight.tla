---------------------- MODULE MC_ClusterVersionInsight ----------------------
(* Two versions, two operators, ticks of a quarter of a minute and a clock  *)
(* that advances by one of them or by more than six hours.                  *)
EXTENDS ClusterVersionInsight

CONSTANTS v1, v2, o1, o2

\* timewiseComplete at the only share that is neither nothing nor all.
MCTimewise(updated, total) == IF 2 * updated = total THEN 39 ELSE 0
=============================================================================
