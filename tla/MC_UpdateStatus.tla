--------------------------- MODULE MC_UpdateStatus ---------------------------
(* Two operators, two nodes in the control plane of which one is listed     *)
(* regardless, and three workers, between two versions.                     *)
EXTENDS UpdateStatus, TLC

CONSTANTS v1, v2, o1, o2, m1, m2, w1, w2, w3, c1, c2

MCMasters == <<m1, m2>>

MCMachineVersions == c1 :> v1 @@ c2 :> v2

MCTimewise(updated, total) == 0

Reporting(version, progressing, available, degraded) ==
  [version |-> version, progressing |-> progressing, available |-> available,
   degraded |-> degraded]

MCReport == {Reporting(v1, "True", "True", "True"), Reporting(v2, "False", "False", None)}

Drain(verb, id) == [verb |-> verb, id |-> id]

Running(current, desired, mcd, drain, troubles) ==
  [current |-> current, desired |-> desired, mcd |-> mcd, mcdReason |-> {},
   desiredDrain |-> drain, appliedDrain |-> Drain("uncordon", current),
   cordoned |-> FALSE, troubles |-> troubles, currentImage |-> None, desiredImage |-> None]

\* Before the update and not ready; draining for it; after it; and after it, broken.
Old      == Running(c1, c1, "Done", None, {[reason |-> "NotReady", since |-> 0]})
Draining == Running(c1, c2, "Working", Drain("drain", c2), {})
Done     == Running(c2, c2, "Done", Drain("uncordon", c2), {})
Broken   == Running(c2, c2, "Degraded", Drain("uncordon", c2), {})

MCMachine == {Old, Draining, Done, Broken}

Fleet(first, second, done) ==
  m1 :> first @@ m2 :> second
    @@ [w \in Workers |-> IF w \in done THEN Done ELSE Draining]

Fleeting(first, second, done) == {Fleet(first, second, ws) : ws \in kSubset(done, Workers)}

MCFleets == Fleeting(Draining, Old, 1) \cup Fleeting(Done, Broken, 2)

\* Operators are alike, and so are workers: Fleets is closed under their permutations.
Symmetry == Permutations(Operator) \cup Permutations(Workers)
=============================================================================
