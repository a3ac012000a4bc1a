---------------------------- MODULE ClusterVersion ----------------------------
(***************************************************************************)
(* The ClusterVersion as its watchers see it: the changes the cluster      *)
(* version operator makes to it, and the predicates that decide which of   *)
(* them wake a controller (internal/clusterversions/predicates.go).  Pure  *)
(* operators; no state.                                                    *)
(*                                                                         *)
(* cv is None or [progressing, history, desired, forced]: the status of    *)
(* the Progressing condition or None, the update history with the newest   *)
(* entry first, the desired version, and whether the annotation that       *)
(* forces a health insight is there.                                       *)
(***************************************************************************)
EXTENDS Conditions, Integers, Sequences

Progressing == {"True", "False", "Unknown", None}

Entry(version, state, started, completed) ==
  [version |-> version, state |-> state, started |-> started, completed |-> completed]

-----------------------------------------------------------------------------
(* What the cluster version operator does.                                 *)

Fresh == [progressing |-> None, history |-> <<>>, desired |-> None, forced |-> FALSE]

Installed(version, now) ==
  [progressing |-> "False", history |-> <<Entry(version, "Completed", now, now)>>,
   desired |-> version, forced |-> FALSE]

\* An update that never completed is superseded, and ends as a partial one.
StartUpdate(cv, version, now) ==
  LET superseded == [i \in DOMAIN cv.history |->
                       IF cv.history[i].completed = None
                       THEN [cv.history[i] EXCEPT !.completed = now] ELSE cv.history[i]]
  IN  [cv EXCEPT !.progressing = "True", !.desired = version,
                 !.history = <<Entry(version, "Partial", now, None)>> \o superseded]

FinishUpdate(cv, now) ==
  [cv EXCEPT !.progressing = "False",
             !.history[1].state = "Completed", !.history[1].completed = now]

\* What it may make of the ClusterVersion next.  The last two sets are somebody who
\* sets the annotation, and an operator that reports at odds with its history.
Successors(cv, versions, now) ==
  IF cv = None THEN {Fresh}
  ELSE {None} \cup {StartUpdate(cv, v, now) : v \in versions \ {cv.desired}}
       \cup (IF cv.history # <<>> /\ cv.history[1].completed = None
             THEN {FinishUpdate(cv, now)} ELSE {})
       \cup {[cv EXCEPT !.forced = ~cv.forced]}
       \cup {[cv EXCEPT !.progressing = p] : p \in Progressing \ {cv.progressing}}

-----------------------------------------------------------------------------
(* Operators that are at the desired version; versions maps the cluster    *)
(* operators that exist to the version they report as theirs, or None.     *)

Updated(cv, versions) ==
  {o \in DOMAIN versions : versions[o] # None /\ versions[o] = cv.desired}

-----------------------------------------------------------------------------
(* Predicates.  Creation and deletion pass all of them.                    *)

CvDesiredVersionChanged(before, after) == before.desired # after.desired

CvHistoryChanged(before, after) ==
  \/ Len(before.history) # Len(after.history)
  \/ /\ before.history # <<>> /\ after.history # <<>>
     /\ \/ before.history[1].state # after.history[1].state
        \/ before.history[1].version # after.history[1].version

CvProgressingChanged(before, after) == before.progressing # after.progressing

\* Fault: only the Progressing condition is looked at.
StartedOrCompletedProgressing(before, after) ==
  before = None \/ after = None \/ CvProgressingChanged(before, after)

StartedOrCompletedUpdating(before, after) ==
  \/ before = None \/ after = None
  \/ CvProgressingChanged(before, after)
  \/ CvHistoryChanged(before, after)
  \/ CvDesiredVersionChanged(before, after)
=============================================================================
