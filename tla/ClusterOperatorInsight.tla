------------------------ MODULE ClusterOperatorInsight ------------------------
(***************************************************************************)
(* The cluster operator progress insight controller                        *)
(* (internal/controller/clusteroperators,                                  *)
(* clusteroperatorprogressinsight_controller.go): an insight for each      *)
(* cluster operator.  What it says also depends on the ClusterVersion, a   *)
(* change of which is mapped to all operators by a list that may fail.     *)
(*                                                                         *)
(* cv and co are the informers' view of what the controller watches.       *)
(* insights is what the API server holds; copies are the informer's, which *)
(* lag for the operators in unseen.                                        *)
(***************************************************************************)
EXTENDS ClusterVersion, ClusterOperatorAssessment

CONSTANTS Version,    \* versions of the payload
          First,      \* the one that was installed
          Operator,   \* names of cluster operators
          Report,     \* what a cluster operator may report of itself
          MaxChanges  \* bound on the steps of time and of the outside world

\* What may be said of a condition; the status of an insight.
Reasons  == {"Updated", "Progressing", "Pending", "CannotDetermine",
             "AsExpected", "Degraded", "Unavailable"}
Verdicts == [status : {"True", "False", "Unknown"}, why : Reasons, since : Nat]
Statuses == [updating : Verdicts \cup {None}, healthy : Verdicts \cup {None}]

ASSUME InsightAssumption ==
  /\ None \notin Version \cup Operator \cup Report \cup Verdicts \cup Statuses
  /\ First \in Version
  /\ Report \subseteq [version : Version \cup {None}, progressing : Progressing,
                       available : Progressing, degraded : Progressing]
  /\ MaxChanges \in Nat

VARIABLES
  cv, co,            \* the ClusterVersion; what each operator reports, or None
  clock,             \* now
  insights,          \* status of each operator's insight, or None
  copies, unseen,    \* the informer's; where it lags
  listing,           \* the handler of a ClusterVersion event has yet to list operators
  dirty,             \* work queue
  pc, item,          \* where the worker is; the operator it reconciles, None when idle
  seen, held,        \* the operator's report and insight as it read them
  current, plan,     \* nothing was written since; the status it computed
  unheard,           \* history: operators whose event was lost with a list, and that
                     \* were not assessed since
  changes            \* steps of time and of the outside world so far

world   == <<cv, co, clock>>
objects == <<insights, copies, unseen>>
worker  == <<pc, item, seen, held, current, plan>>
vars == <<world, objects, listing, dirty, worker, unheard, changes>>

Present == {o \in Operator : co[o] # None}

\* An earlier process may have left blank insights, also of operators that are gone.
Init ==
  /\ cv = Installed(First, 0) /\ clock = 0
  /\ \E r \in Report \cup {None}, s \in {None, EmptyStatus} :
       co = [o \in Operator |-> r] /\ insights = [o \in Operator |-> s]
  /\ copies = insights /\ unseen = {}
  /\ listing = FALSE /\ dirty = Present \cup {o \in Operator : insights[o] # None}
  /\ pc = "idle" /\ item = None /\ seen = None /\ held = None
  /\ current = FALSE /\ plan = None
  /\ unheard = {} /\ changes = 0

Change == changes < MaxChanges /\ changes' = changes + 1

-----------------------------------------------------------------------------
(* The cluster, and the watches that tell the controller of it.            *)

ChangeClusterVersion ==
  /\ Change
  /\ cv' \in Successors(cv, Version, 0)
  /\ listing' = (listing \/ StartedOrCompletedUpdating(cv, cv'))
  /\ UNCHANGED <<co, clock, objects, dirty, worker, unheard>>

\* allClusterOperators.
ListOperators ==
  /\ listing /\ listing' = FALSE
  /\ dirty' = dirty \cup Present
  /\ UNCHANGED <<world, objects, worker, unheard, changes>>

ListFails ==
  /\ listing /\ listing' = FALSE /\ Change
  /\ unheard' = unheard \cup Present
  /\ UNCHANGED <<world, objects, dirty, worker>>

\* No predicate: every event of an operator is heard.
ChangeOperator(o) ==
  /\ Change
  /\ \E r \in (Report \cup {None}) \ {co[o]} : co' = [co EXCEPT ![o] = r]
  /\ dirty' = dirty \cup {o}
  /\ UNCHANGED <<cv, clock, objects, listing, worker, unheard>>

Tick ==
  /\ Change
  /\ clock' = clock + 1
  /\ UNCHANGED <<cv, co, objects, listing, dirty, worker, unheard>>

-----------------------------------------------------------------------------
(* Informers.                                                              *)

Sync(o) ==
  /\ o \in unseen /\ unseen' = unseen \ {o}
  /\ copies' = [copies EXCEPT ![o] = insights[o]]
  /\ dirty' = dirty \cup {o}
  /\ UNCHANGED <<world, insights, listing, worker, unheard, changes>>

\* The informers' periodic resync tells of every operator and insight they have.
Resync ==
  LET known == Present \cup {o \in Operator : copies[o] # None}
  IN  /\ ~(known \subseteq dirty) /\ dirty' = dirty \cup known
      /\ UNCHANGED <<world, objects, listing, worker, unheard, changes>>

-----------------------------------------------------------------------------
(* The worker: Reconcile.                                                  *)

Stop == pc' = "idle" /\ item' = None /\ seen' = None /\ held' = None
        /\ current' = FALSE /\ plan' = None

Done  == Stop /\ UNCHANGED dirty
\* A returned error, or RequeueAfter.
Retry == Stop /\ dirty' = dirty \cup {item}

\* The answer arrives, or an error (a timeout) does although the call succeeded.
Answered(next) ==
  \/ next /\ UNCHANGED changes
  \/ Retry /\ Change

Reconcile(o) ==
  /\ pc = "idle" /\ o \in dirty
  /\ dirty' = dirty \ {o}
  /\ pc' = "getInsight" /\ item' = o /\ seen' = co[o]
  /\ UNCHANGED <<world, objects, listing, held, current, plan, unheard, changes>>

\* Fault: an insight that was not found is deleted too.
NothingThereEver == FALSE

NothingThere == seen = None /\ copies[item] = None

GetInsight ==
  /\ pc = "getInsight"
  /\ IF NothingThere THEN Done
     ELSE /\ pc' = IF seen = None THEN "delete" ELSE "assess"
          /\ held' = copies[item] /\ current' = (item \notin unseen)
          /\ UNCHANGED <<dirty, item, seen, plan>>
  /\ UNCHANGED <<world, objects, listing, unheard, changes>>

\* Fault: only whether the operator is updating counts.
DiffersInUpdating(old, new) == old.updating # new.updating

Differs(old, new) == old # new

\* Without a ClusterVersion the insight stays as it is.
Assess ==
  /\ pc = "assess"
  /\ IF cv = None THEN Done /\ UNCHANGED unheard
     ELSE LET old == IF held = None THEN EmptyStatus ELSE held
              new == AssessClusterOperator(seen, cv.desired, old, clock)
          IN  /\ unheard' = unheard \ {item}
              /\ IF held # None /\ ~Differs(old, new) THEN Done
                 ELSE /\ pc' = IF held = None THEN "create" ELSE "update"
                      /\ plan' = new
                      /\ UNCHANGED <<dirty, item, seen, held, current>>
  /\ UNCHANGED <<world, objects, listing, changes>>

\* The API server stores an insight, or None for a deletion.
Write(o, new) ==
  /\ insights' = [insights EXCEPT ![o] = new]
  /\ unseen' = unseen \cup {o}
  /\ UNCHANGED copies

DeleteInsight ==
  /\ pc = "delete"
  /\ IF insights[item] = None THEN Retry /\ UNCHANGED <<objects, changes>>
     ELSE Write(item, None) /\ Answered(Done)
  /\ UNCHANGED <<world, listing, unheard>>

CreateInsight ==
  /\ pc = "create"
  /\ IF insights[item] # None THEN Retry /\ UNCHANGED <<objects, changes>>
     ELSE /\ Write(item, EmptyStatus)
          /\ Answered(/\ pc' = "update" /\ held' = EmptyStatus /\ current' = TRUE
                      /\ UNCHANGED <<dirty, item, seen, plan>>)
  /\ UNCHANGED <<world, listing, unheard>>

\* A conflict, an error and an answer that is lost all lead to another try.
UpdateStatus ==
  /\ pc = "update"
  /\ IF insights[item] = None \/ ~current THEN Retry /\ UNCHANGED <<objects, changes>>
     ELSE Write(item, plan) /\ Answered(Done)
  /\ UNCHANGED <<world, listing, unheard>>

CallFails ==
  /\ pc \in {"delete", "create", "update"} /\ Change
  /\ Retry
  /\ UNCHANGED <<world, objects, listing, unheard>>

-----------------------------------------------------------------------------
(* Others write insights too; the process restarts.                        *)

Meddle(o) ==
  /\ Change
  /\ insights[o] # None /\ \E new \in {None, EmptyStatus} \ {insights[o]} : Write(o, new)
  /\ current' = (current /\ o # item)
  /\ UNCHANGED <<world, listing, dirty, pc, item, seen, held, plan, unheard>>

Restart ==
  /\ Change
  /\ copies' = insights /\ unseen' = {}
  /\ listing' = FALSE /\ dirty' = Present \cup {o \in Operator : insights[o] # None}
  /\ Stop
  /\ UNCHANGED <<world, insights, unheard>>

Work ==
  \/ \E o \in Operator : Reconcile(o)
  \/ GetInsight \/ Assess
  \/ DeleteInsight \/ CreateInsight \/ UpdateStatus

Next ==
  \/ ChangeClusterVersion \/ ListOperators \/ ListFails
  \/ \E o \in Operator : ChangeOperator(o) \/ Sync(o) \/ Meddle(o)
  \/ Tick \/ Resync
  \/ Work \/ CallFails
  \/ Restart

Spec == Init /\ [][Next]_vars

\* Handlers and informers keep up and resync.  The worker works whenever it can and
\* the work queue is fair to its keys.
Fairness ==
  /\ WF_vars(ListOperators) /\ WF_vars(Resync) /\ WF_vars(Work)
  /\ \A o \in Operator : WF_vars(Sync(o)) /\ SF_vars(Reconcile(o))

FairSpec == Spec /\ Fairness

-----------------------------------------------------------------------------
(* Properties.                                                             *)

\* Every variable has its type; what the worker is about to do it has the means for.
TypeOK ==
  /\ co \in [Operator -> Report \cup {None}] /\ clock \in Nat
  /\ insights \in [Operator -> Statuses \cup {None}]
  /\ copies \in [Operator -> Statuses \cup {None}] /\ unseen \subseteq Operator
  /\ listing \in BOOLEAN /\ dirty \subseteq Operator /\ unheard \subseteq Operator
  /\ pc \in {"idle", "getInsight", "assess", "delete", "create", "update"}
  /\ item \in Operator \cup {None} /\ pc # "idle" <=> item # None
  /\ seen \in Report \cup {None} /\ current \in BOOLEAN /\ changes \in Nat
  /\ held \in Statuses \cup {None} /\ plan \in Statuses \cup {None}
  /\ pc \in {"delete", "update"} => held # None
  /\ pc \in {"assess", "create", "update"} => seen # None
  /\ pc \in {"create", "update"} => plan # None

\* Nothing about the operator is on its way to the controller.
Quiet(o) == o \notin dirty \cup unseen /\ item # o /\ ~listing

Assessed(o) ==
  IF co[o] = None THEN insights[o] = None
  ELSE /\ insights[o] # None
       /\ Content(insights[o]) =
            Content(AssessClusterOperator(co[o], cv.desired, EmptyStatus, 0))

\* However changes of operators and of the ClusterVersion, lagging reads, conflicts,
\* failed calls, other writers and restarts interleave, when all is quiet about an
\* operator its insight says what it would now be given, but where the list failed
\* that was to tell of the last change of the ClusterVersion.
QuietMeansAssessed ==
  \A o \in Operator \ unheard : Quiet(o) /\ cv # None => Assessed(o)

Versions == [o \in Present |-> co[o].version]

\* Two controllers count updated operators, one from the operators and one by their
\* insights: when all is quiet the insights that say Updated are those of the operators
\* that the completion of the cluster version's insight counts.
CountsAgree ==
  cv # None /\ unheard = {} /\ (\A o \in Operator : Quiet(o)) =>
    {o \in Operator : insights[o] # None /\ insights[o].updating.why = "Updated"}
      = Updated(cv, Versions)

\* A transition time moves only with the status of its condition, whatever stale copy
\* the assessment took it from.
TransitionTimesKept ==
  [][\A o \in Operator : insights[o] # None /\ insights'[o] # None =>
       \A c \in {"updating", "healthy"} :
         LET old == insights[o][c]  new == insights'[o][c]
         IN  old # None /\ new # None /\ old.status = new.status => old.since = new.since]_vars

\* When the outside world stops, every insight becomes and stays what it should be: the
\* resync makes up for a list that failed.
EventuallyAssessed == <>[](cv # None => \A o \in Operator : Assessed(o))
=============================================================================
