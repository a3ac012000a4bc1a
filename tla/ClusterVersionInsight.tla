------------------------ MODULE ClusterVersionInsight ------------------------
(***************************************************************************)
(* The cluster version progress insight controller                         *)
(* (internal/controller/clusterversions,                                   *)
(* clusterversionprogressinsight_controller.go): one insight about the     *)
(* ClusterVersion and, beside it, health insights that are diffed against  *)
(* the desired ones and written one call at a time.                        *)
(*                                                                         *)
(* cv and operators are the informers' view of what the controller         *)
(* watches.  insight and health are what the API server holds; copy and    *)
(* listed are the informers' copies, which lag while unseen, or for the    *)
(* names in unseenHealth.                                                  *)
(***************************************************************************)
EXTENDS ClusterVersionAssessment

CONSTANTS Version,    \* versions of the payload
          First,      \* the one that was installed
          Operator,   \* cluster operators
          Stale,      \* names of health insights no longer generated
          Steps,      \* how far time may advance at once
          MaxChanges  \* bound on the steps of time and of the outside world

Time == Nat \cup {None}

\* The ClusterVersion; an insight's status; what the API server holds.
Entries         == [version : Version, state : {"Completed", "Partial"},
                    started : Nat, completed : Time]
ClusterVersions == [progressing : Progressing, history : Seq(Entries),
                    desired : Version \cup {None}, forced : BOOLEAN]
Whys            == {"as reported", "no Progressing condition", "empty history",
                    "not partial", "partial but completed", "not completed",
                    "completed but no time", "Progressing is Unknown"}
Verdicts        == [status : {"True", "False", "Unknown"}, why : Whys, since : Nat]
Undated         == [status : {"True", "False", "Unknown"}, why : Whys, since : {None}]
Statuses ==
  [assessment : {"", "Progressing", "Completed", "Unknown"}, completion : 0..100,
   versions : [target : Version \cup {None}, install : BOOLEAN,
               previous : Version \cup {None}, partial : BOOLEAN],
   started : Time, completed : Time, observed : Time, estimated : Int \cup {None},
   updating : Verdicts \cup {None}]
Insights        == [uid : Nat, status : Statuses]
Numbered(number) == {i \in Insights : i.uid \in 1..number} \cup {None}
HealthInsights  == [filled : BOOLEAN, owner : Nat]

ASSUME InsightAssumption ==
  /\ None \notin Version \cup Operator \cup Int \cup Whys \cup {"True", "False", "Unknown"}
  /\ None \notin ClusterVersions \cup Verdicts \cup Insights \cup HealthInsights
  /\ None \notin Undated
  /\ First \in Version /\ IsFiniteSet(Operator)
  /\ Steps \subseteq Nat \ {0} /\ MaxChanges \in Nat
  /\ \A updated, total \in 0..Cardinality(Operator) : Timewise(updated, total) \in Int

\* The clock stays far from where durations wrap: even the longest estimate that is
\* made of it, of an update that is one percent done, can be represented.
ASSUME HorizonAssumption ==
  /\ MaxDuration > 72 * Minute
  /\ \E longest \in Steps : /\ \A step \in Steps : step <= longest
                            /\ MaxDuration > 120 * (1 + MaxChanges * longest)

VARIABLES
  cv, operators,         \* the ClusterVersion; version of each operator that exists
  clock,                 \* now, at least 1
  insight,               \* [uid, status], or None
  copy, unseen,          \* the informer's copy; whether it lags
  born,                  \* insights created so far
  health,                \* health insights by name: [filled, owner], or None
  listed, unseenHealth,  \* names the informer has; names it lags on
  dirty,                 \* the one key is on the work queue
  pc, seen, held,        \* where the worker is; the ClusterVersion and insight it read
  current, plan,         \* nothing was written since; the status it computed
  todo, outdated,        \* its calls about health insights; its copies that are not current
  failed,                \* one of them failed
  unlisted,              \* history: names that changed without the controller hearing
                         \* of it, and that it did not list since
  looked,                \* history: when the controller last assessed
  changes                \* steps of the outside world so far

world   == <<cv, operators, clock>>
main    == <<insight, copy, unseen, born>>
side    == <<health, listed, unseenHealth>>
worker  == <<pc, seen, held, current, plan, todo, outdated, failed>>
vars == <<world, main, side, dirty, worker, unlisted, looked, changes>>

Name == {"forced"} \cup Stale

NoCalls == [create |-> {}, update |-> {}, delete |-> {}]

Wanted(version) == IF version.forced THEN {"forced"} ELSE {}

\* An update may be under way.  An earlier process may have left a blank insight, and
\* health insights.
Init ==
  /\ LET installed == Installed(First, 1)
     IN  cv \in {installed} \cup {StartUpdate(installed, v, 1) : v \in Version \ {First}}
  /\ operators = [o \in Operator |-> First]
  /\ clock = 1
  /\ insight \in {None, [uid |-> 1, status |-> EmptyStatus]} /\ born = 1
  /\ copy = insight /\ unseen = FALSE
  /\ health \in [Name -> {None, [filled |-> TRUE, owner |-> 1]}]
  /\ listed = {n \in Name : health[n] # None} /\ unseenHealth = {}
  /\ dirty = TRUE
  /\ pc = "idle" /\ seen = None /\ held = None /\ current = FALSE /\ plan = None
  /\ todo = NoCalls /\ outdated = {} /\ failed = FALSE
  /\ unlisted = {} /\ looked = 0 /\ changes = 0

Change == changes < MaxChanges /\ changes' = changes + 1

-----------------------------------------------------------------------------
(* The cluster, and the watches that tell the controller of it.            *)

ChangeClusterVersion ==
  /\ Change
  /\ cv' \in Successors(cv, Version, clock)
  /\ dirty' = TRUE
  /\ UNCHANGED <<operators, clock, main, side, worker, unlisted, looked>>

\* coOperatorVersionChanged; creations and deletions pass the predicate too.
SetOperators(new) ==
  /\ Change
  /\ operators' = new
  /\ dirty' = TRUE
  /\ UNCHANGED <<cv, clock, main, side, worker, unlisted, looked>>

\* Fault: the predicate lets only creations and deletions pass.
ChangeOperatorQuietly(o) ==
  /\ Change /\ o \in DOMAIN operators
  /\ \E v \in Version : operators' = [operators EXCEPT ![o] = v]
  /\ UNCHANGED <<cv, clock, main, side, worker, unlisted, looked, dirty>>

ChangeOperator(o) ==
  \/ \E v \in Version : /\ o \in DOMAIN operators => operators[o] # v
                        /\ SetOperators([p \in DOMAIN operators \cup {o} |->
                                           IF p = o THEN v ELSE operators[p]])
  \/ o \in DOMAIN operators
       /\ SetOperators([p \in DOMAIN operators \ {o} |-> operators[p]])

Tick ==
  /\ Change
  /\ \E step \in Steps : clock' = clock + step
  /\ UNCHANGED <<cv, operators, main, side, dirty, worker, unlisted, looked>>

-----------------------------------------------------------------------------
(* Informers.                                                              *)

Sync ==
  /\ unseen /\ unseen' = FALSE
  /\ copy' = insight
  /\ dirty' = TRUE
  /\ UNCHANGED <<world, insight, born, side, worker, unlisted, looked, changes>>

\* Owns() lets events pass whose label is the controller's name, and the label
\* that is set has another value: the work queue does not hear of them.
SyncHealth(n) ==
  /\ n \in unseenHealth /\ unseenHealth' = unseenHealth \ {n}
  /\ listed' = IF health[n] = None THEN listed \ {n} ELSE listed \cup {n}
  /\ UNCHANGED <<world, main, health, dirty, worker, unlisted, looked, changes>>

\* The informers' periodic resync.
Resync ==
  /\ ~dirty /\ dirty' = TRUE
  /\ cv # None \/ copy # None
  /\ UNCHANGED <<world, main, side, worker, unlisted, looked, changes>>

-----------------------------------------------------------------------------
(* The worker: Reconcile.                                                  *)

Stop ==
  /\ pc' = "idle" /\ seen' = None /\ held' = None /\ current' = FALSE /\ plan' = None
  /\ todo' = NoCalls /\ outdated' = {} /\ failed' = FALSE

Done  == Stop /\ UNCHANGED dirty
\* A returned error, or RequeueAfter.
Retry == Stop /\ dirty' = TRUE

Goto(place) == pc' = place /\ UNCHANGED <<dirty, todo, outdated, failed>>

\* The answer arrives, or an error (a timeout) does although the call succeeded.
Answered(next) ==
  \/ next /\ UNCHANGED changes
  \/ Retry /\ Change

Reconcile ==
  /\ pc = "idle" /\ dirty
  /\ dirty' = FALSE /\ pc' = "getInsight" /\ seen' = cv
  /\ UNCHANGED <<world, main, side, held, current, plan, todo, outdated, failed, unlisted,
                 looked, changes>>

GetInsight ==
  /\ pc = "getInsight" /\ Goto("assess")
  /\ held' = copy /\ current' = ~unseen
  /\ UNCHANGED <<world, main, side, seen, plan, unlisted, looked, changes>>

Assessed ==
  AssessClusterVersion(seen, IF held = None THEN EmptyStatus ELSE held.status,
                       operators, clock)

\* The operators are listed; the status is compared with the one of the copy.
Assess ==
  /\ pc = "assess"
  /\ CASE seen = None /\ held = None -> Done
       [] seen = None /\ held # None ->
            Goto("delete") /\ UNCHANGED <<seen, held, current, plan>>
       [] seen # None ->
            /\ plan' = Assessed
            /\ Goto(CASE held = None -> "create"
                      [] held # None /\ HasSignificantDifference(held.status, Assessed)
                           -> "update"
                      [] OTHER -> "listHealth")
            /\ UNCHANGED <<seen, held, current>>
  /\ looked' = clock
  /\ UNCHANGED <<world, main, side, unlisted, changes>>

\* The API server stores an insight, or None for a deletion.
Write(new) == insight' = new /\ unseen' = TRUE /\ UNCHANGED copy

DeleteInsight ==
  /\ pc = "delete"
  /\ IF insight = None THEN Retry /\ UNCHANGED <<insight, copy, unseen, changes>>
     ELSE Write(None) /\ Answered(Done)
  /\ UNCHANGED <<world, born, side, unlisted, looked>>

\* Fault: the insight created is not the one that is worked on.
CreatedAside == Goto("update") /\ UNCHANGED <<held, current>>

\* The new insight is empty, and so different from any assessment.
Created == Goto("update") /\ held' = insight' /\ current' = TRUE

CreateInsight ==
  /\ pc = "create"
  /\ IF insight # None THEN Retry /\ UNCHANGED <<main, changes>>
     ELSE /\ born' = born + 1
          /\ Write([uid |-> born', status |-> EmptyStatus])
          /\ Answered(Created /\ UNCHANGED <<seen, plan>>)
  /\ UNCHANGED <<world, side, unlisted, looked>>

\* Fault: the write does not say which version of the insight it is based on.
UpdateStatusBlindly ==
  /\ pc = "update"
  /\ IF insight = None THEN Retry /\ UNCHANGED <<insight, copy, unseen, changes>>
     ELSE /\ Write([insight EXCEPT !.status = plan])
          /\ Answered(Goto("listHealth") /\ UNCHANGED <<seen, held, current, plan>>)
  /\ UNCHANGED <<world, born, side, unlisted, looked>>

UpdateStatus ==
  /\ pc = "update"
  /\ IF insight = None \/ ~current THEN Retry /\ UNCHANGED <<insight, copy, unseen, changes>>
     ELSE /\ Write([insight EXCEPT !.status = plan])
          /\ Answered(Goto("listHealth") /\ UNCHANGED <<seen, held, current, plan>>)
  /\ UNCHANGED <<world, born, side, unlisted, looked>>

CallFails ==
  /\ pc \in {"delete", "create", "update"} /\ Change
  /\ Retry
  /\ UNCHANGED <<world, main, side, unlisted, looked>>

-----------------------------------------------------------------------------
(* The worker: reconcileHealthInsights.  A call that fails does not keep   *)
(* the others from being made.                                             *)

\* Fault: a health insight that exists is taken for one that is right.
CallsForOthers(wanted) ==
  [create |-> wanted \ listed, update |-> {}, delete |-> listed \ wanted]

CallsFor(wanted) ==
  [create |-> wanted \ listed, update |-> wanted \cap listed, delete |-> listed \ wanted]

ListHealth ==
  /\ pc = "listHealth" /\ pc' = "health"
  /\ todo' = CallsFor(Wanted(seen))
  /\ outdated' = unseenHealth
  /\ unlisted' = unlisted \cap unseenHealth
  /\ UNCHANGED <<world, main, side, dirty, seen, held, current, plan, failed, looked,
                 changes>>

\* Creations come first, then updates, then deletions.
NextCalls(call) ==
  CASE call = "create" -> todo.create
    [] call = "update" -> IF todo.create = {} THEN todo.update ELSE {}
    [] call = "delete" -> IF todo.create \cup todo.update = {} THEN todo.delete ELSE {}

Made(call, n, success) ==
  /\ todo' = [todo EXCEPT ![call] = @ \ {n}]
  /\ failed' = (failed \/ ~success)

\* An answer may get lost.
Tried(call, n, success) ==
  \/ Made(call, n, success) /\ UNCHANGED changes
  \/ success /\ Made(call, n, FALSE) /\ Change

WriteHealth(n, new) ==
  /\ health' = [health EXCEPT ![n] = new]
  /\ unseenHealth' = unseenHealth \cup {n}
  /\ UNCHANGED listed

\* The status is a subresource: what a creation says of it is dropped.
CreateHealth(n) ==
  /\ pc = "health" /\ n \in NextCalls("create")
  /\ Tried("create", n, health[n] = None)
  /\ IF health[n] # None THEN UNCHANGED <<side, unlisted>>
     ELSE /\ WriteHealth(n, [filled |-> FALSE, owner |-> held.uid])
          /\ unlisted' = unlisted \cup {n}
  /\ UNCHANGED <<world, main, dirty, pc, seen, held, current, plan, outdated, looked>>

UpdateHealth(n) ==
  /\ pc = "health" /\ n \in NextCalls("update")
  /\ LET accepted == health[n] # None /\ n \notin outdated
     IN  /\ Tried("update", n, accepted)
         /\ IF accepted THEN WriteHealth(n, [health[n] EXCEPT !.filled = TRUE])
            ELSE UNCHANGED side
  /\ UNCHANGED <<world, main, dirty, pc, seen, held, current, plan, outdated, unlisted,
                 looked>>

DeleteHealth(n) ==
  /\ pc = "health" /\ n \in NextCalls("delete")
  /\ Tried("delete", n, health[n] # None)
  /\ IF health[n] # None THEN WriteHealth(n, None) ELSE UNCHANGED side
  /\ UNCHANGED <<world, main, dirty, pc, seen, held, current, plan, outdated, unlisted,
                 looked>>

HealthCallFails(n) ==
  /\ pc = "health" /\ Change
  /\ \E call \in DOMAIN todo : n \in NextCalls(call) /\ Made(call, n, FALSE)
  /\ UNCHANGED <<world, main, side, dirty, pc, seen, held, current, plan, outdated,
                 unlisted, looked>>

\* Fault: only the error of the last list of errors is returned.
FinishUnconcerned ==
  /\ pc = "health" /\ \A call \in DOMAIN todo : todo[call] = {}
  /\ Done
  /\ UNCHANGED <<world, main, side, unlisted, looked, changes>>

Finish ==
  /\ pc = "health" /\ \A call \in DOMAIN todo : todo[call] = {}
  /\ IF failed THEN Retry ELSE Done
  /\ UNCHANGED <<world, main, side, unlisted, looked, changes>>

-----------------------------------------------------------------------------
(* Others write insights too; the process restarts.                        *)

MeddleWith(new) ==
  /\ Change
  /\ new # insight
  /\ Write(new) /\ current' = FALSE
  /\ UNCHANGED <<world, born, side, dirty, pc, seen, held, plan, todo, outdated, failed,
                 unlisted, looked>>

Meddle ==
  /\ insight # None
  /\ MeddleWith(None) \/ MeddleWith([insight EXCEPT !.status = EmptyStatus])

RemoveHealth(n) ==
  /\ health[n] # None
  /\ WriteHealth(n, None)
  /\ outdated' = IF pc = "health" THEN outdated \cup {n} ELSE outdated
  /\ unlisted' = unlisted \cup {n}
  /\ UNCHANGED <<world, main, dirty, pc, seen, held, current, plan, todo, failed, looked>>

MeddleWithHealth(n) == Change /\ RemoveHealth(n)

\* The garbage collector: owned by an insight that is gone.
Collect(n) ==
  /\ health[n] # None /\ (insight # None => insight.uid # health[n].owner)
  /\ RemoveHealth(n) /\ UNCHANGED changes

Restart ==
  /\ Change
  /\ copy' = insight /\ unseen' = FALSE
  /\ listed' = {n \in Name : health[n] # None} /\ unseenHealth' = {}
  /\ dirty' = TRUE
  /\ pc' = "idle" /\ seen' = None /\ held' = None /\ current' = FALSE /\ plan' = None
  /\ todo' = NoCalls /\ outdated' = {} /\ failed' = FALSE
  /\ UNCHANGED <<world, insight, born, health, unlisted, looked>>

Work ==
  \/ Reconcile \/ GetInsight \/ Assess \/ DeleteInsight \/ CreateInsight \/ UpdateStatus
  \/ ListHealth \/ \E n \in Name : CreateHealth(n) \/ UpdateHealth(n) \/ DeleteHealth(n)
  \/ Finish

Next ==
  \/ ChangeClusterVersion \/ \E o \in Operator : ChangeOperator(o)
  \/ Tick
  \/ Sync \/ Resync \/ \E n \in Name : SyncHealth(n)
  \/ Work
  \/ CallFails \/ \E n \in Name : HealthCallFails(n)
  \/ Meddle \/ \E n \in Name : MeddleWithHealth(n) \/ Collect(n)
  \/ Restart

Spec == Init /\ [][Next]_vars

\* Informers keep up and resync, and the worker works whenever it can.
Fairness ==
  /\ WF_vars(Sync) /\ WF_vars(Resync) /\ WF_vars(Work)
  /\ \A n \in Name : WF_vars(SyncHealth(n))

FairSpec == Spec /\ Fairness

-----------------------------------------------------------------------------
(* Properties.                                                             *)

\* Every variable has its type; the worker has an insight to delete, and one to
\* own the health insights it creates.
TypeOK ==
  /\ cv \in ClusterVersions \cup {None} /\ seen \in ClusterVersions \cup {None}
  /\ DOMAIN operators \subseteq Operator /\ clock \in Nat
  /\ insight \in Numbered(born) /\ copy \in Numbered(born) /\ held \in Numbered(born)
  /\ unseen \in BOOLEAN /\ born \in Nat
  /\ health \in [Name -> [filled : BOOLEAN, owner : 1..born] \cup {None}]
  /\ listed \subseteq Name /\ unseenHealth \subseteq Name
  /\ dirty \in BOOLEAN /\ current \in BOOLEAN /\ failed \in BOOLEAN
  /\ pc \in {"idle", "getInsight", "assess", "delete", "create", "update", "listHealth",
             "health"}
  /\ pc \in {"delete", "update", "listHealth", "health"} => held # None
  /\ pc \in {"create", "update", "listHealth", "health"} =>
       seen # None /\ plan \in Statuses
  /\ todo \in [{"create", "update", "delete"} -> SUBSET Name] /\ outdated \subseteq Name
  /\ unlisted \subseteq Name /\ looked \in Nat /\ changes \in Nat

\* Nothing is on its way to the controller, but for the next resync.
Quiet == ~dirty /\ ~unseen /\ pc = "idle"

TimeFields == {"started", "completed", "observed", "estimated"}

\* The insight says what an assessment made at that time would, those time fields to
\* within half a minute.
SaysAsOf(time, fields) ==
  IF cv = None THEN insight = None
  ELSE /\ insight # None
       /\ LET due == AssessClusterVersion(cv, insight.status, operators, time)
          IN  /\ Content(insight.status) = Content(due)
              /\ \A field \in fields : Close(insight.status[field], due[field])
              /\ Close(insight.status.updating.since, due.updating.since)

\* However changes of the ClusterVersion and of operators, lagging reads, conflicts,
\* failed calls, other writers and restarts interleave, when all is quiet the
\* insight says of the ClusterVersion and the operators as they are what the
\* assessment would say now.  Only the estimate is as old as the last time the
\* controller looked: time alone does not wake it, a resync does.  A time may be off
\* by half a minute; versions are right but for their metadata, which is not
\* compared.
QuietMeansReported ==
  Quiet => SaysAsOf(looked, TimeFields) /\ SaysAsOf(clock, TimeFields \ {"estimated"})

HealthRight(n) ==
  IF n \in Wanted(cv) THEN health[n] # None /\ health[n].filled ELSE health[n] = None

\* When all is quiet the desired health insights are there, filled, and no others,
\* but for those the controller created itself or others removed since it listed
\* them last: no event tells it of these.
QuietMeansDiffed ==
  Quiet /\ cv # None => \A n \in Name \ unlisted : HealthRight(n)

\* Spec, section 7: lastObservedProgress moves only with the completion, and the
\* transition time only with the condition's status, whatever stale copy the
\* assessment took them from.
TimesMoveWithWhatTheyDate ==
  [][insight # None /\ insight' # None /\ insight'.status # EmptyStatus =>
       LET old == insight.status  new == insight'.status
       IN  /\ old.observed # None /\ old.completion = new.completion
                => new.observed = old.observed
           /\ old.updating # None /\ old.updating.status = new.updating.status
                => new.updating.since = old.updating.since]_vars

\* An insight that is stored makes sense in itself: a completed update is complete
\* and dated, an estimate is no earlier than the start of the update, and what is
\* not known to have started has not ended.
StoredMakesSense ==
  insight # None /\ insight.status # EmptyStatus =>
    LET s == insight.status
    IN  /\ s.assessment = "Completed" <=> s.completed # None
        /\ s.assessment = "Completed" =>
             s.completion = 100 /\ s.estimated = None /\ s.started <= s.completed
        /\ s.assessment = "Progressing" => s.started < s.estimated + Minute

\* When the outside world stops, the insight, its estimate too, and the health
\* insights become and stay what they should be: the resync makes up for the events
\* that are not heard.
EventuallyReported ==
  <>[](SaysAsOf(clock, TimeFields) /\ (cv # None => \A n \in Name : HealthRight(n)))
=============================================================================
