--------------------------- MODULE MC_NodeUpdate ---------------------------
(* Two releases, one MachineConfig of each; the second config's version    *)
(* may be known or not when the run starts.                                *)
EXTENDS NodeUpdate, TLC

CONSTANTS c1, c2, v1, v2, os

MCInitialVersions == (c1 :> v1) @@ (c2 :> v2)
=============================================================================
