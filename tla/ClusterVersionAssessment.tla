----------------------- MODULE ClusterVersionAssessment -----------------------
(***************************************************************************)
(* What the cluster version's insight says:                                *)
(* internal/controller/clusterversions/impl.go.  Pure operators; no state. *)
(*                                                                         *)
(* Time is a number of ticks, None standing for Go's zero time and for no  *)
(* time at all.  Durations are 64 bit in the code: the difference to the   *)
(* zero time saturates and a product wraps, here at MaxDuration.           *)
(***************************************************************************)
EXTENDS ClusterVersion, FiniteSetsExt

CONSTANTS Minute,         \* ticks in a minute
          MaxDuration,    \* the longest duration
          Timewise(_, _)  \* share of an update's time, in percent, that has passed
                          \* when so many of so many operators are updated

ASSUME AssessmentAssumption ==
  Minute \in Nat \ {0} /\ MaxDuration \in Nat /\ MaxDuration > 60 * Minute

-----------------------------------------------------------------------------
(* Updating, versions.                                                     *)

\* Why it cannot be told whether the control plane is updating; None if it can.
WhyUndetermined(cv) ==
  LET last == cv.history[1]
  IN  CASE cv.progressing = None -> "no Progressing condition"
        [] cv.progressing # None /\ cv.history = <<>> -> "empty history"
        [] OTHER ->
             CASE cv.progressing = "True" /\ last.state # "Partial" -> "not partial"
               [] cv.progressing = "True" /\ last.state = "Partial" ->
                    IF last.completed = None THEN None ELSE "partial but completed"
               [] cv.progressing = "False" /\ last.state # "Completed" -> "not completed"
               [] cv.progressing = "False" /\ last.state = "Completed" ->
                    IF last.completed # None THEN None ELSE "completed but no time"
               [] cv.progressing = "Unknown" -> "Progressing is Unknown"

IsControlPlaneUpdating(cv) ==
  LET why == WhyUndetermined(cv)
  IN  IF why # None
      THEN [status |-> "Unknown", why |-> why, started |-> None, completed |-> None]
      ELSE [status |-> cv.progressing, why |-> "as reported",
            started |-> cv.history[1].started, completed |-> cv.history[1].completed]

VersionsFromHistory(history) ==
  [target   |-> IF history = <<>> THEN None ELSE history[1].version,
   install  |-> Len(history) = 1,
   previous |-> IF Len(history) < 2 THEN None ELSE history[2].version,
   partial  |-> Len(history) > 1 /\ history[2].state = "Partial"]

-----------------------------------------------------------------------------
(* Completion and estimate.                                                *)

\* The whole percentages that float64(updated) / float64(total) * 100 falls short of:
\* 29 of 50 comes out just below 58.  Where the share is no whole percentage the digits
\* that are cut off decide, and the double is too close to it to matter.
FallsShort == {29, 57, 58}

\* int32(float64(updated) / float64(total) * 100).
Percentage(updated, total) ==
  LET exact == (100 * updated) \div total
  IN  IF exact \in FallsShort /\ (100 * updated) % total = 0 THEN exact - 1 ELSE exact

\* Fault: an update that is completed still counts operators.
CompletionByOperators(cv, versions, assessment) ==
  IF DOMAIN versions = {} THEN 0
  ELSE Percentage(Cardinality(Updated(cv, versions)), Cardinality(DOMAIN versions))

Completion(cv, versions, assessment) ==
  IF assessment = "Completed" THEN 100
  ELSE IF DOMAIN versions = {} THEN 0
  ELSE Percentage(Cardinality(Updated(cv, versions)), Cardinality(DOMAIN versions))

\* time.Time.Sub saturates.
Since(time, start) == IF start = None THEN MaxDuration ELSE time - start

\* time.Duration(seconds) * time.Second wraps.
Wrap(d) == ((d + MaxDuration) % (2 * MaxDuration)) - MaxDuration

\* The newest completed update but the first entry and the installation.
BaselineDuration(history) ==
  LET completed == {i \in 2..(Len(history) - 1) : history[i].state = "Completed"}
  IN  IF completed = {} THEN 60 * Minute
      ELSE history[Min(completed)].completed - history[Min(completed)].started

\* Fault: what is overdue is stretched too.
OverestimateAll(remaining) ==
  IF remaining < 0 THEN -((-remaining * 6) \div 5) ELSE (remaining * 6) \div 5

Overestimate(remaining) ==
  IF remaining < 0 THEN -((-remaining * 5) \div 6) ELSE (remaining * 6) \div 5

\* A tick is longer than the second that shorter estimates are rounded to.
Rounded(d) == IF d > 10 * Minute THEN ((d + Minute \div 2) \div Minute) * Minute ELSE d

EstimateCompletion(baseline, toLastObservedProgress, updatingFor, updated, total) ==
  LET passed   == Timewise(updated, total)
      expected == IF updated > 0 /\ passed > 0 /\ toLastObservedProgress > 5 * Minute
                  THEN (toLastObservedProgress * 100) \div passed ELSE baseline
  IN  IF total > 0 /\ updated = total THEN 0
      ELSE Rounded(Wrap(Overestimate(expected - updatingFor)))

-----------------------------------------------------------------------------
(* The assessment.                                                         *)

\* The status of an insight that was just created.
EmptyStatus ==
  [assessment |-> "", completion |-> 0, versions |-> VersionsFromHistory(<<>>),
   started |-> None, completed |-> None, observed |-> None, estimated |-> None,
   updating |-> None]

AssessClusterVersion(cv, previous, versions, now) ==
  LET verdict    == IsControlPlaneUpdating(cv)
      assessment == CASE verdict.status = "True"    -> "Progressing"
                      [] verdict.status = "False"   -> "Completed"
                      [] verdict.status = "Unknown" -> "Unknown"
      completion == Completion(cv, versions, assessment)
      observed   == IF completion # previous.completion \/ previous.observed = None
                    THEN now ELSE previous.observed
      estimate   == EstimateCompletion(BaselineDuration(cv.history),
                      Since(observed, verdict.started), Since(now, verdict.started),
                      Cardinality(Updated(cv, versions)), Cardinality(DOMAIN versions))
  IN  [assessment |-> assessment,
       completion |-> completion,
       versions   |-> VersionsFromHistory(cv.history),
       started    |-> verdict.started,
       completed  |-> verdict.completed,
       observed   |-> observed,
       estimated  |-> IF assessment = "Completed" THEN None ELSE now + estimate,
       updating   |-> SetStatusCondition(previous.updating,
                                         Condition(verdict.status, verdict.why, now))]

-----------------------------------------------------------------------------
(* Is it worth a write?                                                    *)

\* timeFieldsEqualWithTolerance: half a minute.
Close(old, new) ==
  IF old = None \/ new = None THEN old = new
  ELSE old - new < Minute \div 2 /\ new - old < Minute \div 2

\* A status without its times, and what of its versions is compared: not their
\* metadata, by which an installation and a partial update are told.
Content(status) ==
  [assessment |-> status.assessment, completion |-> status.completion,
   target |-> status.versions.target, previous |-> status.versions.previous,
   updating |-> IF status.updating = None THEN None
                ELSE [status.updating EXCEPT !.since = None]]

\* Fault: the estimate is not compared.
HasOtherFacts(old, new) ==
  \/ Content(old) # Content(new)
  \/ \E time \in {"started", "observed", "completed"} : ~Close(old[time], new[time])
  \/ ~Close(old.updating.since, new.updating.since)

HasSignificantDifference(old, new) ==
  \/ Content(old) # Content(new)
  \/ \E time \in {"started", "observed", "completed", "estimated"} :
       ~Close(old[time], new[time])
  \/ ~Close(old.updating.since, new.updating.since)
=============================================================================
