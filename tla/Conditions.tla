------------------------------ MODULE Conditions ------------------------------
(***************************************************************************)
(* Conditions of an insight that is always given the same ones.  why       *)
(* stands for a condition's reason and message, since for its transition   *)
(* time.  Pure operators; no state.                                        *)
(***************************************************************************)
CONSTANT None  \* no condition, no object, no time

Condition(status, why, since) == [status |-> status, why |-> why, since |-> since]

\* meta.SetStatusCondition: the transition time moves only with the status.
SetStatusCondition(old, new) ==
  IF old # None /\ old.status = new.status THEN [new EXCEPT !.since = old.since] ELSE new
=============================================================================
