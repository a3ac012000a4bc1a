-------------------------- MODULE UpdateStatus_proofs --------------------------
(***************************************************************************)
(* Proofs about UpdateStatus, for any versions, operators, reports, nodes, *)
(* MachineConfigs and number of changes: the types; that what the client   *)
(* shows of a cluster that holds still is true of the cluster, through     *)
(* evaluator, assessment and display; that trouble is shown; that nothing  *)
(* is made up of insights of different moments; and how far the counts of  *)
(* a worker pool can be off.                                               *)
(***************************************************************************)
EXTENDS UpdateStatus, FiniteSetTheorems, SequenceTheorems, TLAPS

Proved == INSTANCE NodeAssessment_proofs

-----------------------------------------------------------------------------
(* The inductive invariants.                                               *)

\* An insight of a node that an evaluation wrote: it has the three conditions, and
\* Updating says a phase.
Evaluated(n, s) ==
  /\ s.name = n /\ s.pool = PoolOf(n)
  /\ Proved!Complete(s.conditions, Whys)
  /\ \E phase \in Nodes!Phases :
       /\ \A i \in 1..3 : s.conditions[i].type = "Updating" =>
            /\ s.conditions[i].why = {phase}
            /\ s.conditions[i].status <=> phase \in Nodes!ActivePhases
       /\ phase = "Completed" => s.version # None

\* What the client has of a node, when its insight was one of those.
Sound(n, line) ==
  /\ line.name = n
  /\ \E phase \in Nodes!Phases :
       /\ line.phase = {phase}
       /\ line.isUpdating <=> phase \in Nodes!ActivePhases
       /\ line.isUpdated <=> phase = "Completed"
       /\ phase = "Completed" => line.version # None
  /\ line.assessment = "Degraded" => line.isDegraded

\* Insights are blank or say what an assessment said at some moment, and so does what
\* the client has of them.
Written ==
  /\ cvInsight # None /\ cvInsight.updating # None /\ cvInsight.updating.status = "True"
       => cvInsight.assessment = "Progressing"
  /\ \A n \in Node : nodeInsights[n] \notin {None, BlankNode} => Evaluated(n, nodeInsights[n])
  /\ pc \in {"listPools", "done"} => \A i \in DOMAIN nodes : Sound(Masters[i], nodes[i])

\* While the cluster holds still the insights are right, and what the client has is
\* what they say.
Held ==
  steady =>
    /\ pc # "start" /\ Right
    /\ pc = "listOperators" => header = cvInsight
    /\ pc \in {"listNodes", "listPools", "done"} =>
         header = Display!AssessControlPlaneStatus(cvInsight,
                                                   [o \in Present |-> coInsights[o]])
    /\ pc \in {"listPools", "done"} =>
         nodes = [i \in DOMAIN Masters |-> Display!AssessNode(nodeInsights[Masters[i]])]
    /\ pc = "done" =>
         rows = [p \in {"worker"} |-> Display!WritePool(poolInsights[p].status)]
    /\ pc \in {"listOperators", "listNodes", "listPools", "done"} =>
         cvInsight.updating.status = "True"
    /\ pc = "not updating" => cvInsight.updating.status # "True"

-----------------------------------------------------------------------------
(* The fleet.                                                              *)

LEMMA FleetGiven ==
  /\ DOMAIN Masters = 1..Len(Masters) /\ Len(Masters) \in Nat \ {0}
  /\ \A i \in DOMAIN Masters : /\ Masters[i] \in Range(Masters) /\ Masters[i] \in Node
                               /\ Masters[i] \notin Workers /\ PoolOf(Masters[i]) = "master"
  /\ \A n \in Range(Masters) : \E i \in DOMAIN Masters : n = Masters[i]
  /\ IsFiniteSet(DOMAIN Masters) /\ IsFiniteSet(Range(Masters)) /\ IsFiniteSet(Node)
  /\ {n \in Node : PoolOf(n) = "worker"} = Workers
  /\ {n \in Node : PoolOf(n) = "master"} = Range(Masters)
<1>1. /\ DOMAIN Masters = 1..Len(Masters) /\ Len(Masters) \in Nat \ {0}
  BY FleetAssumption
<1>2. \A i \in DOMAIN Masters : Masters[i] \in Range(Masters)
  BY DEF Range
<1>3. \A n \in Range(Masters) : \E i \in DOMAIN Masters : n = Masters[i]
  BY DEF Range
<1>4. Workers \cap Range(Masters) = {}
  BY FleetAssumption
<1>5. IsFiniteSet(DOMAIN Masters)
  BY <1>1, FS_Interval
<1>6. IsFiniteSet(Range(Masters))
  <2>1. Masters \in Surjection(DOMAIN Masters, Range(Masters))
    BY <1>1, FleetAssumption DEF Surjection, Range
  <2> QED
    BY <1>5, <2>1, FS_Surjection
<1>7. IsFiniteSet(Node)
  BY <1>6, FleetAssumption, FS_Union DEF Node
<1> QED
  BY <1>1, <1>2, <1>3, <1>4, <1>5, <1>6, <1>7 DEF Node, PoolOf

-----------------------------------------------------------------------------
(* The ClusterVersion.                                                     *)

\* The entries that a new update leaves behind.
LEMMA Superseded ==
  ASSUME NEW history \in Seq(Entries)
  PROVE  [i \in DOMAIN history |->
            IF history[i].completed = None THEN [history[i] EXCEPT !.completed = 0]
            ELSE history[i]] \in Seq(Entries)
<1> DEFINE ended(i) == IF history[i].completed = None
                       THEN [history[i] EXCEPT !.completed = 0] ELSE history[i]
<1>1. DOMAIN history = 1..Len(history) /\ Len(history) \in Nat
  OBVIOUS
<1>2. ASSUME NEW i \in 1..Len(history) PROVE ended(i) \in Entries
  <2>1. history[i] \in Entries
    OBVIOUS
  <2> QED
    BY <2>1 DEF Entries
<1> HIDE DEF ended
<1>3. [i \in 1..Len(history) |-> ended(i)] \in Seq(Entries)
  BY <1>1, <1>2
<1> QED
  BY <1>1, <1>3 DEF ended

LEMMA StartGives ==
  ASSUME NEW old \in ClusterVersions, NEW version \in Version
  PROVE  StartUpdate(old, version, 0) \in ClusterVersions
<1> DEFINE rest == [i \in DOMAIN old.history |->
                      IF old.history[i].completed = None
                      THEN [old.history[i] EXCEPT !.completed = 0] ELSE old.history[i]]
           head == <<Entry(version, "Partial", 0, None)>>
<1>1. old.history \in Seq(Entries)
  BY DEF ClusterVersions
<1>2. rest \in Seq(Entries)
  BY <1>1, Superseded
<1>3. head \in Seq(Entries)
  <2>1. Entry(version, "Partial", 0, None) \in Entries
    BY DEF Entry, Entries
  <2> QED
    BY <2>1
<1>4. StartUpdate(old, version, 0) =
        [old EXCEPT !.progressing = "True", !.desired = version, !.history = head \o rest]
  BY DEF StartUpdate
<1> HIDE DEF rest, head
<1>5. head \o rest \in Seq(Entries)
  BY <1>2, <1>3
<1> QED
  BY <1>4, <1>5 DEF ClusterVersions, Progressing

\* What the cluster version operator makes of the ClusterVersion is one.
LEMMA SuccessorsGive ==
  ASSUME NEW old \in ClusterVersions, NEW new \in Successors(old, Version, 0) \ {None}
  PROVE  new \in ClusterVersions
<1>1. CASE old = None
  <2>1. Fresh \in ClusterVersions
    BY DEF Fresh, ClusterVersions, Progressing
  <2> QED
    BY <1>1, <2>1 DEF Successors
<1>2. CASE old # None
  <2>0. old.history \in Seq(Entries)
    BY DEF ClusterVersions
  <2>1. ASSUME NEW version \in Version, new = StartUpdate(old, version, 0)
        PROVE  new \in ClusterVersions
    BY <2>1, StartGives
  <2>2. ASSUME old.history # <<>>, new = FinishUpdate(old, 0)
        PROVE  new \in ClusterVersions
    <3> DEFINE first == [old.history[1] EXCEPT !.state = "Completed", !.completed = 0]
    <3>1. 1 \in 1..Len(old.history) /\ old.history[1] \in Entries
          /\ DOMAIN old.history = 1..Len(old.history)
      BY <2>0, <2>2
    <3>2. first \in Entries
      BY <3>1 DEF Entries
    <3>3. new = [old EXCEPT !.progressing = "False",
                            !.history = [old.history EXCEPT ![1] = first]]
      BY <2>0, <2>2, <3>1 DEF FinishUpdate, ClusterVersions, Entries
    <3> HIDE DEF first
    <3>4. [old.history EXCEPT ![1] = first] \in Seq(Entries)
      BY <2>0, <3>1, <3>2
    <3> QED
      BY <3>3, <3>4 DEF ClusterVersions, Progressing
  <2>3. ASSUME new = [old EXCEPT !.forced = ~old.forced]
        PROVE  new \in ClusterVersions
    <3>1. PICK f \in BOOLEAN : new = [old EXCEPT !.forced = f]
      BY <2>3
    <3> QED
      BY <3>1 DEF ClusterVersions
  <2>4. ASSUME NEW p \in Progressing, new = [old EXCEPT !.progressing = p]
        PROVE  new \in ClusterVersions
    BY <2>4 DEF ClusterVersions
  <2>5. \/ \E version \in Version : new = StartUpdate(old, version, 0)
        \/ old.history # <<>> /\ new = FinishUpdate(old, 0)
        \/ new = [old EXCEPT !.forced = ~old.forced]
        \/ \E p \in Progressing : new = [old EXCEPT !.progressing = p]
    BY <1>2 DEF Successors
  <2> QED
    BY <2>1, <2>2, <2>3, <2>4, <2>5
<1> QED
  BY <1>1, <1>2

\* The versions of a history are versions.
LEMMA VersionsGiven ==
  ASSUME NEW history \in Seq(Entries)
  PROVE  VersionsFromHistory(history) \in
           [target : Version \cup {None}, install : BOOLEAN,
            previous : Version \cup {None}, partial : BOOLEAN]
<1> DEFINE target   == IF history = <<>> THEN None ELSE history[1].version
           previous == IF Len(history) < 2 THEN None ELSE history[2].version
<1>1. Len(history) \in Nat
  OBVIOUS
<1>2. target \in Version \cup {None}
  <2>1. CASE history # <<>>
    <3>1. history[1] \in Entries
      BY <2>1
    <3> QED
      BY <2>1, <3>1 DEF Entries
  <2> QED
    BY <2>1
<1>3. previous \in Version \cup {None}
  <2>1. CASE ~(Len(history) < 2)
    <3>1. history[2] \in Entries
      BY <1>1, <2>1
    <3> QED
      BY <2>1, <3>1 DEF Entries
  <2> QED
    BY <2>1
<1>4. PICK install \in BOOLEAN, partial \in BOOLEAN :
        /\ install <=> Len(history) = 1
        /\ partial <=> (Len(history) > 1 /\ history[2].state = "Partial")
  <2>1. \E install \in BOOLEAN : install <=> Len(history) = 1
    OBVIOUS
  <2>2. \E partial \in BOOLEAN : partial <=> (Len(history) > 1 /\ history[2].state = "Partial")
    OBVIOUS
  <2> QED
    BY <2>1, <2>2
<1> HIDE DEF target, previous
<1>5. VersionsFromHistory(history) =
        [target |-> target, install |-> install, previous |-> previous, partial |-> partial]
  BY <1>4 DEF VersionsFromHistory, target, previous
<1> QED
  BY <1>2, <1>3, <1>4, <1>5

\* It is told whether the control plane is updating only where there is a history.
LEMMA VerdictGiven ==
  ASSUME NEW version \in ClusterVersions
  PROVE  LET verdict == IsControlPlaneUpdating(version)
         IN  /\ Condition(verdict.status, verdict.why, 0) \in Verdicts
             /\ verdict.status # "Unknown" => version.history # <<>>
<1> DEFINE last    == version.history[1]
           why     == WhyUndetermined(version)
           words   == {"no Progressing condition", "empty history", "not partial",
                       "partial but completed", "not completed", "completed but no time",
                       "Progressing is Unknown"}
<1>1. /\ version.progressing \in {"True", "False", "Unknown", None}
      /\ version.history \in Seq(Entries)
      /\ None \notin {"True", "False", "Unknown"} /\ None \notin words
  BY UpdateStatusAssumption DEF ClusterVersions, Progressing, Reasons
<1>2. \/ why \in words
      \/ why = None /\ version.history # <<>> /\ version.progressing \in {"True", "False"}
  <2>1. CASE version.progressing = None
    BY <2>1 DEF WhyUndetermined
  <2>2. CASE version.progressing # None /\ version.history = <<>>
    BY <2>2 DEF WhyUndetermined
  <2>3. CASE version.progressing # None /\ version.history # <<>>
    <3>0. version.history \in Seq(Entries)
      BY <1>1
    <3>1. last \in Entries
      BY <2>3, <3>0
    <3>2. why =
            CASE version.progressing = "True" /\ last.state # "Partial" -> "not partial"
              [] version.progressing = "True" /\ last.state = "Partial" ->
                   IF last.completed = None THEN None ELSE "partial but completed"
              [] version.progressing = "False" /\ last.state # "Completed" -> "not completed"
              [] version.progressing = "False" /\ last.state = "Completed" ->
                   IF last.completed # None THEN None ELSE "completed but no time"
              [] version.progressing = "Unknown" -> "Progressing is Unknown"
      BY <2>3 DEF WhyUndetermined
    <3> HIDE DEF last, why
    <3>3. CASE version.progressing = "True"
      BY <1>1, <2>3, <3>1, <3>2, <3>3 DEF Entries
    <3>4. CASE version.progressing = "False"
      BY <1>1, <2>3, <3>1, <3>2, <3>4 DEF Entries
    <3>5. CASE version.progressing = "Unknown"
      BY <1>1, <3>2, <3>5
    <3> QED
      BY <1>1, <2>3, <3>3, <3>4, <3>5
  <2> QED
    BY <2>1, <2>2, <2>3
<1>3. CASE why # None
  <2>1. /\ IsControlPlaneUpdating(version).status = "Unknown"
        /\ IsControlPlaneUpdating(version).why = why
    BY <1>3 DEF IsControlPlaneUpdating
  <2>2. why \in words
    BY <1>2, <1>3
  <2> HIDE DEF why
  <2> QED
    BY <2>1, <2>2 DEF Condition, Verdicts, Reasons
<1>4. CASE why = None /\ version.history # <<>> /\ version.progressing \in {"True", "False"}
  <2>1. /\ IsControlPlaneUpdating(version).status = version.progressing
        /\ IsControlPlaneUpdating(version).why = "as reported"
    BY <1>4 DEF IsControlPlaneUpdating
  <2> QED
    BY <1>4, <2>1 DEF Condition, Verdicts, Reasons
<1> QED
  BY <1>1, <1>2, <1>3, <1>4

-----------------------------------------------------------------------------
(* What the assessments say.                                               *)

LEMMA ConditionStatus ==
  ASSUME NEW status, NEW why, NEW since
  PROVE  Condition(status, why, since).status = status
BY DEF Condition

\* A percentage is rounded down, or one less where the share is a whole percentage; it is
\* 100 for the whole only.
LEMMA PercentageGiven ==
  ASSUME NEW all \in Nat \ {0}, NEW part \in 0..all
  PROVE  Percentage(part, all) \in Int /\ Rounds(Percentage(part, all), part, all)
<1> DEFINE exact == (100 * part) \div all
           rest  == (100 * part) % all
<1>1. /\ exact \in Int /\ rest \in 0..(all - 1)
      /\ 100 * part = exact * all + rest
  BY SMT
<1>2. exact = 100 <=> part = all
  BY SMT
<1>3. Percentage(part, all) =
        IF exact \in {29, 57, 58} /\ rest = 0 THEN exact - 1 ELSE exact
  BY DEF Percentage, FallsShort
<1>4. exact * all <= 100 * part /\ 100 * part <= (exact + 1) * all
  <2>1. ASSUME NEW e \in Int, NEW r \in 0..(all - 1), 100 * part = e * all + r
        PROVE  e * all <= 100 * part /\ 100 * part <= (e + 1) * all
    <3>1. (e + 1) * all = e * all + all /\ e * all \in Int
      OBVIOUS
    <3> QED
      BY <2>1, <3>1
  <2> HIDE DEF exact, rest
  <2> QED
    BY <1>1, <2>1
<1>5. rest = 0 => (exact - 1) * all <= 100 * part /\ 100 * part <= ((exact - 1) + 1) * all
  <2>1. ASSUME NEW e \in Int, 100 * part = e * all + 0
        PROVE  (e - 1) * all <= 100 * part /\ 100 * part <= ((e - 1) + 1) * all
    <3>1. (e - 1) * all = e * all - all /\ (e - 1) + 1 = e /\ e * all \in Int
      OBVIOUS
    <3> QED
      BY <2>1, <3>1
  <2> HIDE DEF exact, rest
  <2> QED
    BY <1>1, <2>1
<1> HIDE DEF exact, rest
<1>6. CASE exact \in {29, 57, 58} /\ rest = 0
  <2>1. /\ Percentage(part, all) = exact - 1 /\ exact - 1 \in Int
        /\ exact # 100 /\ exact - 1 # 100
    BY <1>1, <1>3, <1>6
  <2> QED
    BY <1>2, <1>5, <1>6, <2>1 DEF Rounds
<1>7. CASE ~(exact \in {29, 57, 58} /\ rest = 0)
  BY <1>1, <1>2, <1>3, <1>4, <1>7 DEF Rounds
<1> QED
  BY <1>6, <1>7

\* The updated operators are some of those that report a version.
LEMMA UpdatedCounted ==
  ASSUME NEW version, NEW versions, IsFiniteSet(DOMAIN versions)
  PROVE  Cardinality(Updated(version, versions)) \in 0..Cardinality(DOMAIN versions)
<1>1. Updated(version, versions) \subseteq DOMAIN versions
  BY DEF Updated
<1> QED
  BY <1>1, FS_Subset, FS_CardinalityType

\* What the cluster version's insight says is what the history and the operators do.
LEMMA DueGiven ==
  ASSUME NEW version \in ClusterVersions, NEW versions, IsFiniteSet(DOMAIN versions)
  PROVE  LET due     == Glance(AssessClusterVersion(version, EmptyStatus, versions, 0))
             verdict == IsControlPlaneUpdating(version)
         IN  /\ due \in ClusterVersionStatuses
             /\ due.updating = Condition(verdict.status, verdict.why, 0)
             /\ due.updating # None
             /\ due.assessment = "Progressing" <=> verdict.status = "True"
             /\ due.versions = VersionsFromHistory(version.history)
             /\ verdict.status = "True" =>
                  due.completion = IF DOMAIN versions = {} THEN 0
                                   ELSE Percentage(Cardinality(Updated(version, versions)),
                                                   Cardinality(DOMAIN versions))
<1> DEFINE verdict    == IsControlPlaneUpdating(version)
           said       == Condition(verdict.status, verdict.why, 0)
           assessment == CASE verdict.status = "True"    -> "Progressing"
                           [] verdict.status = "False"   -> "Completed"
                           [] verdict.status = "Unknown" -> "Unknown"
           completion == Completion(version, versions, assessment)
           due        == Glance(AssessClusterVersion(version, EmptyStatus, versions, 0))
<1>1. said \in Verdicts /\ said # None
  BY VerdictGiven, UpdateStatusAssumption
<1>2. verdict.status \in {"True", "False", "Unknown"}
  BY <1>1 DEF Verdicts, Condition
<1>3. SetStatusCondition(EmptyStatus.updating, said) = said
  BY DEF SetStatusCondition, EmptyStatus
<1>4. due = [assessment |-> assessment, completion |-> completion,
             versions |-> VersionsFromHistory(version.history), updating |-> said]
  BY <1>3 DEF Glance, AssessClusterVersion
<1>5. /\ assessment \in {"Progressing", "Completed", "Unknown"}
      /\ assessment = "Progressing" <=> verdict.status = "True"
  BY <1>2
<1>6. completion \in Int
  <2>1. DOMAIN versions # {} => Cardinality(DOMAIN versions) \in Nat \ {0}
    BY FS_CardinalityType, FS_EmptySet
  <2>2. Cardinality(Updated(version, versions)) \in 0..Cardinality(DOMAIN versions)
    BY UpdatedCounted
  <2>3. DOMAIN versions # {} =>
          Percentage(Cardinality(Updated(version, versions)), Cardinality(DOMAIN versions)) \in Int
    BY <2>1, <2>2, PercentageGiven
  <2> HIDE DEF assessment
  <2>4. CASE assessment = "Completed" \/ DOMAIN versions = {}
    BY <2>4 DEF Completion
  <2>5. CASE assessment # "Completed" /\ DOMAIN versions # {}
    BY <2>3, <2>5 DEF Completion
  <2> QED
    BY <2>4, <2>5
<1>7. verdict.status = "True" =>
        completion = IF DOMAIN versions = {} THEN 0
                     ELSE Percentage(Cardinality(Updated(version, versions)),
                                     Cardinality(DOMAIN versions))
  BY <1>5 DEF Completion
<1>8. VersionsFromHistory(version.history) \in
        [target : Version \cup {None}, install : BOOLEAN,
         previous : Version \cup {None}, partial : BOOLEAN]
  BY VersionsGiven DEF ClusterVersions
<1> HIDE DEF said, assessment, completion, verdict
<1>9. due \in ClusterVersionStatuses
  <2>1. /\ assessment \in {"", "Progressing", "Completed", "Unknown"}
        /\ said \in Verdicts \cup {None}
    BY <1>1, <1>5
  <2> HIDE DEF due
  <2> QED
    BY <1>4, <1>6, <1>8, <2>1 DEF ClusterVersionStatuses
<1> QED
  BY <1>1, <1>4, <1>5, <1>7, <1>9 DEF said, verdict

\* A cluster operator's insight has both conditions.
LEMMA OperatorGiven ==
  ASSUME NEW report \in Report, NEW target
  PROVE  LET status == Cos!AssessClusterOperator(report, target, Cos!EmptyStatus, 0)
         IN  /\ status \in OperatorStatuses /\ status # None
             /\ status.updating = Cos!Updating(report, target, 0)
             /\ status.healthy = Cos!Healthy(report, 0)
             /\ status.updating # None /\ status.healthy # None
<1> DEFINE u == Cos!Updating(report, target, 0)
           h == Cos!Healthy(report, 0)
<1>1. u \in Verdicts
  BY DEF Cos!Updating, Cos!Condition, Verdicts, Reasons
<1>2. h \in Verdicts
  BY DEF Cos!Healthy, Cos!Condition, Verdicts, Reasons
<1> HIDE DEF u, h
<1>3. Cos!AssessClusterOperator(report, target, Cos!EmptyStatus, 0)
        = [updating |-> u, healthy |-> h]
  BY DEF Cos!AssessClusterOperator, Cos!EmptyStatus, Cos!SetStatusCondition, u, h
<1>4. [updating |-> u, healthy |-> h] \in OperatorStatuses
  BY <1>1, <1>2 DEF OperatorStatuses
<1> QED
  BY <1>1, <1>2, <1>3, <1>4, UpdateStatusAssumption DEF u, h

LEMMA SameCardinality ==
  ASSUME NEW S
  PROVE  /\ Pools!Cardinality(S) = Cardinality(S)
         /\ Display!Cardinality(S) = Cardinality(S)
BY DEF Pools!Cardinality, Display!Cardinality, Cardinality

LEMMA SummariesGiven ==
  ASSUME NEW members, IsFiniteSet(members), NEW state
  PROVE  /\ Pools!Summaries(members, state) \in
              [Total : Nat, Available : Nat, Progressing : Nat, Outdated : Nat,
               Draining : Nat, Excluded : Nat, Degraded : Nat]
         /\ Pools!Summaries(members, state).Total = Cardinality(members)
<1>1. ASSUME NEW S PROVE Cardinality(S \cap members) \in Nat
  <2>1. S \cap members \in SUBSET members
    OBVIOUS
  <2> QED
    BY <2>1, FS_Subset, FS_CardinalityType
<1>2. Cardinality(members) \in Nat
  BY FS_CardinalityType
<1> QED
  BY <1>1, <1>2, SameCardinality DEF Pools!Summaries

LEMMA CompletionGiven ==
  ASSUME NEW members, IsFiniteSet(members), NEW state
  PROVE  /\ Pools!Completion(members, state) =
              IF members = {} THEN 0
              ELSE (Cardinality(Pools!Completed(members, state)) * 100)
                     \div Cardinality(members)
         /\ Pools!Completion(members, state) \in Int
<1>1. Pools!Completion(members, state) =
        IF members = {} THEN 0
        ELSE (Cardinality(Pools!Completed(members, state)) * 100) \div Cardinality(members)
  BY SameCardinality DEF Pools!Completion
<1>2. ASSUME NEW part \in Int, NEW all \in Nat \ {0} PROVE (part * 100) \div all \in Int
  BY <1>2
<1>3. Cardinality(Pools!Completed(members, state)) \in Nat
  <2>1. Pools!Completed(members, state) \in SUBSET members
    BY DEF Pools!Completed
  <2> QED
    BY <2>1, FS_Subset, FS_CardinalityType
<1>4. members # {} => Cardinality(members) \in Nat \ {0}
  BY FS_CardinalityType, FS_EmptySet
<1> QED
  BY <1>1, <1>2, <1>3, <1>4

\* A pool's insight tells how many of its nodes are completed, as a percentage.
LEMMA PoolGiven ==
  ASSUME NEW p \in Pool
  PROVE  LET due     == DuePool(p)
             members == {n \in Node : PoolOf(n) = p}
         IN  /\ due \in PoolInsights /\ due # None /\ due.name = p
             /\ due.status.summaries.Total = Cardinality(members)
             /\ due.status.completion =
                  IF members = {} THEN 0
                  ELSE (Cardinality(Completed(p)) * 100) \div Cardinality(members)
<1> DEFINE members    == {n \in Node : PoolOf(n) = p}
           state      == [n \in Node |-> StateOf(n)]
           summaries  == Pools!Summaries(members, state)
           assessment == Pools!Assessment(p \in paused, members, state)
           completion == Pools!Completion(members, state)
           updating   == Pools!SetStatusCondition(Pools!EmptyStatus.updating,
                           Pools!Updating(assessment, summaries, 0))
           healthy    == Pools!SetStatusCondition(Pools!EmptyStatus.healthy,
                           Pools!Healthy(assessment, summaries, 0))
           status     == [assessment |-> assessment, completion |-> completion,
                          summaries |-> summaries, updating |-> updating,
                          healthy |-> healthy]
<1>1. DuePool(p) = [name |-> p, status |-> status]
  BY DEF DuePool, Pools!AssessPool
<1>2. IsFiniteSet(members)
  BY FleetGiven, FS_Subset
<1>3. Completed(p) = Pools!Completed(members, state)
  BY DEF Completed, Pools!Completed
<1>8. assessment \in {"Pending", "Degraded", "Excluded", "Progressing", "Completed"}
  BY DEF Pools!Assessment
<1> HIDE DEF members, state, assessment
<1>4. summaries \in [Total : Nat, Available : Nat, Progressing : Nat, Outdated : Nat,
                     Draining : Nat, Excluded : Nat, Degraded : Nat]
      /\ summaries.Total = Cardinality(members)
  BY <1>2, SummariesGiven
<1>6. /\ completion = IF members = {} THEN 0
                      ELSE (Cardinality(Completed(p)) * 100) \div Cardinality(members)
      /\ completion \in Int
  BY <1>2, <1>3, CompletionGiven
<1> HIDE DEF summaries, completion
<1>9. updating \in Verdicts
  BY DEF Pools!Updating, Pools!SetStatusCondition, Pools!EmptyStatus, Pools!Unset,
         Pools!Condition, Verdicts, Reasons
<1>10. healthy \in Verdicts
  BY DEF Pools!Healthy, Pools!SetStatusCondition, Pools!EmptyStatus, Pools!Unset,
         Pools!Condition, Verdicts, Reasons
<1> HIDE DEF updating, healthy
<1>11. [name |-> p, status |-> status] \in PoolInsights
  BY <1>4, <1>6, <1>8, <1>9, <1>10 DEF PoolInsights
<1>12. DuePool(p) \in PoolInsights /\ DuePool(p) # None /\ DuePool(p).name = p
       /\ DuePool(p).status.summaries = summaries /\ DuePool(p).status.completion = completion
  <2>1. None \notin PoolInsights
    BY UpdateStatusAssumption
  <2>2. DuePool(p) # None
    BY <1>1, <1>11, <2>1
  <2> QED
    BY <1>1, <1>11, <2>2
<1> QED
  BY <1>4, <1>6, <1>12 DEF members

-----------------------------------------------------------------------------
(* The evaluation of a node.                                               *)

LEMMA SameCarryOver ==
  ASSUME NEW existing, NEW u, NEW a, NEW d
  PROVE  Proved!CarryOver(existing, u, a, d) = Nodes!CarryOver(existing, u, a, d)
BY DEF Proved!CarryOver, Nodes!CarryOver, Proved!SetAvailable, Nodes!SetAvailable,
       Proved!Replaced, Nodes!Replaced, Proved!Without, Nodes!Without,
       Proved!Kept, Nodes!Kept,
       Proved!SetStatusCondition, Nodes!SetStatusCondition

LEMMA SameFacts ==
  ASSUME NEW node, NEW pool
  PROVE  /\ Proved!IsUnavailable(node, pool) <=> Nodes!IsUnavailable(node, pool)
         /\ Proved!UnavailableReasons(node) = Nodes!UnavailableReasons(node)
         /\ Proved!GetUnavailableSince(node) = Nodes!GetUnavailableSince(node)
         /\ Proved!IsNodeDegraded(node) <=> Nodes!IsNodeDegraded(node)
<1>1. /\ Proved!IsNodeReady(node) <=> Nodes!IsNodeReady(node)
      /\ Proved!IsWorkInProgress(node) <=> Nodes!IsWorkInProgress(node)
  BY DEF Proved!IsNodeReady, Nodes!IsNodeReady,
         Proved!IsWorkInProgress, Nodes!IsWorkInProgress,
         Proved!IsNodeDone, Nodes!IsNodeDone,
         Proved!IsNodeConfigDone, Nodes!IsNodeConfigDone,
         Proved!IsNodeImageDone, Nodes!IsNodeImageDone
<1>2. Proved!IsUnavailable(node, pool) <=> Nodes!IsUnavailable(node, pool)
  BY <1>1 DEF Proved!IsUnavailable, Nodes!IsUnavailable,
              Proved!IsDesiredImageEqualToPool, Nodes!IsDesiredImageEqualToPool
<1>3. Proved!UnavailableReasons(node) = Nodes!UnavailableReasons(node)
  BY <1>1 DEF Proved!UnavailableReasons, Nodes!UnavailableReasons
<1>4. Proved!GetUnavailableSince(node) = Nodes!GetUnavailableSince(node)
  BY DEF Proved!GetUnavailableSince, Nodes!GetUnavailableSince
<1>5. Proved!IsNodeDegraded(node) <=> Nodes!IsNodeDegraded(node)
  BY DEF Proved!IsNodeDegraded, Nodes!IsNodeDegraded
<1> QED
  BY <1>2, <1>3, <1>4, <1>5

LEMMA SameUpdate ==
  ASSUME NEW node, NEW versions, NEW target
  PROVE  /\ Proved!IsUpdating(node, versions, target) <=> Nodes!IsUpdating(node, versions, target)
         /\ Proved!IsUpdated(node, versions, target) <=> Nodes!IsUpdated(node, versions, target)
         /\ \A config : Proved!VersionFor(versions, config) = Nodes!VersionFor(versions, config)
BY DEF Proved!IsUpdating, Nodes!IsUpdating, Proved!IsUpdated, Nodes!IsUpdated,
       Proved!VersionFor, Nodes!VersionFor

LEMMA SamePhase ==
  ASSUME NEW pool, NEW node, NEW isUpdating, NEW isUpdated
  PROVE  Proved!PhaseOf(pool, node, isUpdating, isUpdated)
           = Nodes!PhaseOf(pool, node, isUpdating, isUpdated)
BY DEF Proved!PhaseOf, Nodes!PhaseOf, Proved!IsNodeDraining, Nodes!IsNodeDraining

LEMMA SameConditions ==
  ASSUME NEW pool, NEW node, NEW isUpdating, NEW phase, NEW now, NEW down
  PROVE  /\ Proved!UpdatingCondition(phase, now) = Nodes!UpdatingCondition(phase, now)
         /\ Proved!DegradedCondition(node, now) = Nodes!DegradedCondition(node, now)
         /\ Proved!AvailableCondition(node, down, now) = Nodes!AvailableCondition(node, down, now)
<1>1. Proved!UpdatingCondition(phase, now) = Nodes!UpdatingCondition(phase, now)
  BY DEF Proved!UpdatingCondition, Nodes!UpdatingCondition, Proved!Condition,
         Nodes!Condition, Proved!ActivePhases, Nodes!ActivePhases
<1>2. Proved!DegradedCondition(node, now) = Nodes!DegradedCondition(node, now)
  BY DEF Proved!DegradedCondition, Nodes!DegradedCondition, Proved!Condition,
         Nodes!Condition, Proved!IsNodeDegraded, Nodes!IsNodeDegraded
<1>3. Proved!AvailableCondition(node, down, now) = Nodes!AvailableCondition(node, down, now)
  <2>1. /\ Proved!UnavailableReasons(node) = Nodes!UnavailableReasons(node)
        /\ Proved!GetUnavailableSince(node) = Nodes!GetUnavailableSince(node)
    BY SameFacts
  <2> QED
    BY <2>1 DEF Proved!AvailableCondition, Nodes!AvailableCondition, Proved!Condition,
                Nodes!Condition
<1> QED
  BY <1>1, <1>2, <1>3

LEMMA SameVerdict ==
  ASSUME NEW pool, NEW node, NEW isUpdating, NEW isUpdated, NEW existing, NEW now
  PROVE  Proved!DetermineConditions(pool, node, isUpdating, isUpdated, existing, now)
           = Nodes!DetermineConditions(pool, node, isUpdating, isUpdated, existing, now)
<1>1. Proved!IsDown(pool, node, isUpdating) = Nodes!IsDown(pool, node, isUpdating)
  BY DEF Proved!IsDown, Nodes!IsDown, Proved!IsUnavailable, Nodes!IsUnavailable,
       Proved!IsNodeReady, Nodes!IsNodeReady,
       Proved!IsWorkInProgress, Nodes!IsWorkInProgress,
       Proved!IsNodeDone, Nodes!IsNodeDone,
       Proved!IsNodeConfigDone, Nodes!IsNodeConfigDone,
       Proved!IsNodeImageDone, Nodes!IsNodeImageDone,
       Proved!IsDesiredImageEqualToPool, Nodes!IsDesiredImageEqualToPool
<1> QED
  BY <1>1, SamePhase, SameConditions, SameCarryOver, SameFacts, Zenon
  DEF Proved!DetermineConditions, Nodes!DetermineConditions

LEMMA SameEvaluation ==
  ASSUME NEW name, NEW node, NEW poolName, NEW pool, NEW versions, NEW target,
         NEW existing, NEW now
  PROVE  Proved!EvaluateNode(name, node, poolName, pool, versions, target, existing, now)
           = Nodes!EvaluateNode(name, node, poolName, pool, versions, target, existing, now)
<1>1. /\ Proved!IsUpdating(node, versions, target) = Nodes!IsUpdating(node, versions, target)
      /\ Proved!IsUpdated(node, versions, target) = Nodes!IsUpdated(node, versions, target)
  BY DEF Proved!IsUpdating, Nodes!IsUpdating, Proved!IsUpdated, Nodes!IsUpdated,
         Proved!VersionFor, Nodes!VersionFor
<1>2. Proved!VersionFor(versions, node.current) = Nodes!VersionFor(versions, node.current)
  BY DEF Proved!VersionFor, Nodes!VersionFor
<1>3. Proved!DetermineConditions(pool, node, Proved!IsUpdating(node, versions, target),
                                 Proved!IsUpdated(node, versions, target), existing, now)
        = Nodes!DetermineConditions(pool, node, Nodes!IsUpdating(node, versions, target),
                                    Nodes!IsUpdated(node, versions, target), existing, now)
  BY <1>1, SameVerdict, Zenon
<1> QED
  BY <1>2, <1>3, Zenon DEF Proved!EvaluateNode, Nodes!EvaluateNode

\* What an evaluation of a node of the fleet writes, of what it finds.
LEMMA EvaluationGiven ==
  ASSUME NEW n \in Node, NEW m \in Machine, NEW pool,
         NEW target \in Version \cup {None}
  PROVE  LET s == Nodes!EvaluateNode(n, m, PoolOf(n), pool, MachineVersions, target, <<>>, 1)
         IN  /\ s \in NodeStates /\ s # None /\ Evaluated(n, s)
             /\ \A i \in 1..3 : s.conditions[i].type = "Updating" =>
                  /\ s.conditions[i].why = {s.phase}
                  /\ s.conditions[i].status <=> s.phase \in Nodes!ActivePhases
             /\ \A i \in 1..3 : s.conditions[i].type = "Degraded" =>
                  (s.conditions[i].status <=> Nodes!IsNodeDegraded(m))
<1> DEFINE s  == Proved!EvaluateNode(n, m, PoolOf(n), pool, MachineVersions, target, <<>>, 1)
           u  == Proved!FreshUpdating(m, pool, MachineVersions, target, 1)
           a  == Proved!FreshAvailable(m, pool, MachineVersions, target, 1)
           d  == Proved!DegradedCondition(m, 1)
           cs == s.conditions
<1>1. s = Nodes!EvaluateNode(n, m, PoolOf(n), pool, MachineVersions, target, <<>>, 1)
  BY SameEvaluation
<1>2. Proved!Telling(m, Whys)
  <2>1. m.mcdReason \subseteq Whys
    BY DEF Whys, Facts
  <2>2. \A t \in m.troubles : t.reason \in Whys
    BY DEF Whys, Facts
  <2>3. \A t \in m.troubles : t.since \in Nat
    BY FleetAssumption
  <2> QED
    BY <2>1, <2>2, <2>3 DEF Proved!Telling
<1>3. Proved!OwnWords \subseteq Whys
  BY DEF Whys, Proved!OwnWords, Nodes!OwnWords, Proved!Phases, Nodes!Phases,
         Proved!ActivePhases, Nodes!ActivePhases
<1>4. Proved!Complete(cs, Whys)
  BY <1>2, <1>3, Proved!EvaluationConditions DEF Proved!Carriable
<1>5. \A i \in 1..3 : Proved!Says(cs[i], u, a, d)
  BY <1>2, <1>3, Proved!EvaluationConditions DEF Proved!Carriable
<1>6. /\ s.name = n /\ s.pool = PoolOf(n)
      /\ s.version = Proved!VersionFor(MachineVersions, m.current)
      /\ s.desiredVersion = target
      /\ s.currentConfig = m.current /\ s.desiredConfig = m.desired
      /\ s.phase = Proved!PhaseOf(pool, m, Proved!IsUpdating(m, MachineVersions, target),
                                  Proved!IsUpdated(m, MachineVersions, target))
  BY Proved!EvaluationFields
<1>7. s.phase \in Proved!Phases
  BY <1>6, Proved!PhaseType
<1>8. s.phase = "Completed" => s.version # None
  BY <1>6 DEF Proved!PhaseOf, Proved!IsUpdating, Proved!IsUpdated
<1>9. \A i \in 1..3 : cs[i].type = "Updating" =>
        /\ cs[i].why = {s.phase}
        /\ cs[i].status <=> s.phase \in Nodes!ActivePhases
  <2>1. u.why = {s.phase} /\ u.status = (s.phase \in Proved!ActivePhases)
    BY <1>6 DEF Proved!FreshUpdating, Proved!UpdatingCondition, Proved!Condition
  <2>2. Proved!ActivePhases = Nodes!ActivePhases
    BY DEF Proved!ActivePhases, Nodes!ActivePhases
  <2> HIDE DEF s, u, a, d, cs
  <2> QED
    BY <1>5, <2>1, <2>2, Zenon DEF Proved!Says
<1>10. \A i \in 1..3 : cs[i].type = "Degraded" =>
         (cs[i].status <=> Nodes!IsNodeDegraded(m))
  <2>1. d.status = Proved!IsNodeDegraded(m)
    BY DEF Proved!DegradedCondition, Proved!Condition
  <2>2. Proved!IsNodeDegraded(m) <=> Nodes!IsNodeDegraded(m)
    BY SameFacts
  <2> HIDE DEF s, u, a, d, cs
  <2> QED
    BY <1>5, <2>1, <2>2, Zenon DEF Proved!Says
<1>11. s.message \subseteq Whys
  <2>1. s.message = IF Proved!IsNodeDegraded(m) THEN m.mcdReason
                    ELSE IF Proved!IsDown(pool, m, Proved!IsUpdating(m, MachineVersions, target))
                         THEN Proved!UnavailableReasons(m) ELSE {}
    BY DEF Proved!EvaluateNode, Proved!DetermineConditions
  <2>2. Proved!UnavailableReasons(m) \subseteq Whys
    BY <1>2, <1>3 DEF Proved!UnavailableReasons, Proved!Telling, Proved!OwnWords
  <2> HIDE DEF s
  <2> QED
    BY <1>2, <2>1, <2>2 DEF Proved!Telling
<1>12. /\ s.version \in Version \cup {None}
       /\ s.currentConfig \in DOMAIN MachineVersions \cup {None}
       /\ s.desiredConfig \in DOMAIN MachineVersions \cup {None}
  <2>1. {m.current, m.desired} \subseteq DOMAIN MachineVersions \cup {None}
        /\ MachineVersions \in [DOMAIN MachineVersions -> Version \cup {None}]
    BY FleetAssumption
  <2> HIDE DEF s
  <2> QED
    BY <1>6, <2>1 DEF Proved!VersionFor
<1>13. cs \in Seq(Nodes!Conditions(Whys))
  <2>1. Proved!Conditions(Whys) = Nodes!Conditions(Whys)
    BY DEF Proved!Conditions, Nodes!Conditions, Proved!ConditionTypes, Nodes!ConditionTypes
  <2> QED
    BY <1>4, <2>1 DEF Proved!Complete
<1>14. s.phase \in Nodes!Phases /\ PoolOf(n) \in Pool
  BY <1>7 DEF Proved!Phases, Nodes!Phases, Proved!ActivePhases, Nodes!ActivePhases, PoolOf, Pool
<1>15. s = [name |-> s.name, pool |-> s.pool, version |-> s.version,
            desiredVersion |-> s.desiredVersion, currentConfig |-> s.currentConfig,
            desiredConfig |-> s.desiredConfig, conditions |-> cs, phase |-> s.phase,
            message |-> s.message]
  BY DEF Proved!EvaluateNode
<1> HIDE DEF s, cs
<1>16. s \in NodeStates
  BY <1>6, <1>11, <1>12, <1>13, <1>14, <1>15 DEF NodeStates
<1>17. s # None
  BY <1>16, UpdateStatusAssumption
<1>18. Evaluated(n, s)
  BY <1>4, <1>6, <1>8, <1>9, <1>14 DEF Evaluated, cs
<1> QED
  BY <1>1, <1>9, <1>10, <1>16, <1>17, <1>18 DEF s, cs

-----------------------------------------------------------------------------
(* The display of nodes.                                                   *)

LEMMA FirstOfNumbers ==
  ASSUME NEW T, T \subseteq Nat, T # {}
  PROVE  Display!Min(T) \in T
<1>1. \E t \in T : \A u \in T : t <= u
  BY Proved!EarliestExists
<1> QED
  BY <1>1 DEF Display!Min

\* Of three conditions of different types, each is found.
LEMMA ConditionFound ==
  ASSUME NEW cs, Proved!Complete(cs, Whys), NEW i \in 1..3
  PROVE  /\ Display!FindStatusCondition(cs, cs[i].type) = cs[i]
         /\ cs[i] # None
<1>1. /\ DOMAIN cs = 1..3
      /\ \A j \in 1..3 : cs[j] \in Proved!Conditions(Whys)
      /\ \A j, k \in 1..3 : cs[j].type = cs[k].type => j = k
  BY Proved!ThreeTypes
<1>2. {j \in DOMAIN cs : cs[j].type = cs[i].type} = {i}
  BY <1>1
<1>3. Display!Min({i}) = i
  BY FirstOfNumbers
<1>4. Display!FindStatusCondition(cs, cs[i].type) = cs[i]
  BY <1>2, <1>3 DEF Display!FindStatusCondition
<1>5. cs[i] # None
  <2>1. Proved!Conditions(Whys) = Nodes!Conditions(Whys)
    BY DEF Proved!Conditions, Nodes!Conditions, Proved!ConditionTypes, Nodes!ConditionTypes
  <2> QED
    BY <1>1, <2>1, UpdateStatusAssumption
<1> QED
  BY <1>4, <1>5

\* The display of a node's insight that an evaluation wrote.
LEMMA NodeShown ==
  ASSUME NEW s, Proved!Complete(s.conditions, Whys), NEW phase \in Nodes!Phases,
         \A i \in 1..3 : s.conditions[i].type = "Updating" =>
           /\ s.conditions[i].why = {phase}
           /\ s.conditions[i].status <=> phase \in Nodes!ActivePhases
  PROVE  LET line     == Display!AssessNode(s)
             is(type) == \E i \in 1..3 : s.conditions[i].type = type /\ s.conditions[i].status
         IN  /\ line.name = s.name /\ line.version = s.version
             /\ line.phase = {phase}
             /\ line.isUpdating <=> phase \in Nodes!ActivePhases
             /\ line.isUpdated <=> phase = "Completed"
             /\ line.isDegraded <=> is("Degraded")
             /\ line.isUnavailable <=> ~is("Available")
             /\ line.assessment = "Degraded" => line.isDegraded
<1> DEFINE cs   == s.conditions
           line == Display!AssessNode(s)
<1>1. /\ \A i, j \in 1..3 : cs[i].type = cs[j].type => i = j
      /\ \A t \in Proved!ConditionTypes : \E i \in 1..3 : cs[i].type = t
  BY Proved!ThreeTypes DEF Proved!Complete
<1>2. PICK u \in 1..3, a \in 1..3, d \in 1..3 :
        cs[u].type = "Updating" /\ cs[a].type = "Available" /\ cs[d].type = "Degraded"
  BY <1>1 DEF Proved!ConditionTypes
<1>3. /\ Display!FindStatusCondition(cs, "Updating") = cs[u] /\ cs[u] # None
      /\ Display!FindStatusCondition(cs, "Available") = cs[a] /\ cs[a] # None
      /\ Display!FindStatusCondition(cs, "Degraded") = cs[d] /\ cs[d] # None
  BY <1>2, ConditionFound
<1>4. /\ cs[u].why = {phase}
      /\ cs[u].status <=> phase \in Nodes!ActivePhases
  BY <1>2
<1>5. line.name = s.name /\ line.version = s.version
  BY DEF Display!AssessNode
<1>6. line.phase = {phase}
  <2>1. line.phase = IF cs[u].why = {} THEN {"Draining"} ELSE cs[u].why
    BY <1>3 DEF Display!AssessNode
  <2> QED
    BY <1>4, <2>1
<1>7. line.isUpdating <=> phase \in Nodes!ActivePhases
  <2>1. line.isUpdating <=> cs[u].status
    BY <1>3 DEF Display!AssessNode
  <2> QED
    BY <1>4, <2>1
<1>8. line.isUpdated <=> phase = "Completed"
  <2>1. line.isUpdated <=> ~cs[u].status /\ cs[u].why = {"Completed"}
    BY <1>3 DEF Display!AssessNode
  <2> HIDE DEF line
  <2> QED
    BY <1>4, <2>1 DEF Nodes!ActivePhases
<1>9. line.isDegraded <=> cs[d].status
  BY <1>3 DEF Display!AssessNode
<1>10. line.isUnavailable <=> ~cs[a].status
  BY <1>3 DEF Display!AssessNode
<1>12. line.assessment = "Degraded" => line.isDegraded
  <2>1. CASE cs[u].status
    BY <1>3, <2>1 DEF Display!AssessNode
  <2>2. CASE ~cs[u].status
    <3>1. cs[u].why = {"Completed"} \/ cs[u].why = {"Paused"} \/ cs[u].why = {"Pending"}
      BY <1>4, <2>2 DEF Nodes!Phases, Nodes!ActivePhases
    <3> QED
      BY <1>3, <2>2, <3>1 DEF Display!AssessNode
  <2> QED
    BY <2>1, <2>2
<1>11. /\ cs[d].status <=> \E i \in 1..3 : cs[i].type = "Degraded" /\ cs[i].status
       /\ cs[a].status <=> \E i \in 1..3 : cs[i].type = "Available" /\ cs[i].status
  BY <1>1, <1>2
<1> QED
  BY <1>5, <1>6, <1>7, <1>8, <1>9, <1>10, <1>11, <1>12

LEMMA EvaluatedSound ==
  ASSUME NEW n, NEW s, Evaluated(n, s)
  PROVE  Sound(n, Display!AssessNode(s))
<1>1. PICK phase \in Nodes!Phases :
        /\ \A i \in 1..3 : s.conditions[i].type = "Updating" =>
             /\ s.conditions[i].why = {phase}
             /\ s.conditions[i].status <=> phase \in Nodes!ActivePhases
        /\ phase = "Completed" => s.version # None
  BY DEF Evaluated
<1> QED
  BY <1>1, NodeShown DEF Evaluated, Sound

\* A part and the rest.
LEMMA TwoParts ==
  ASSUME NEW S, IsFiniteSet(S), NEW part, part \subseteq S
  PROVE  /\ IsFiniteSet(part) /\ IsFiniteSet(S \ part)
         /\ Cardinality(part) \in Nat /\ Cardinality(S \ part) \in Nat
         /\ Cardinality(S) = Cardinality(part) + Cardinality(S \ part)
<1>1. IsFiniteSet(part) /\ IsFiniteSet(S \ part)
  BY FS_Subset
<1>2. /\ Cardinality(part) \in Nat /\ Cardinality(S \ part) \in Nat
      /\ Cardinality(S) \in Nat
  BY <1>1, FS_CardinalityType
<1>3. S \cap part = part
  OBVIOUS
<1>4. Cardinality(S \ part) = Cardinality(S) - Cardinality(S \cap part)
  BY FS_Difference
<1>5. Cardinality(S \ part) = Cardinality(S) - Cardinality(part)
  BY <1>3, <1>4, Zenon
<1> QED
  BY <1>1, <1>2, <1>5

\* Nodes of different names are on as many lines.
LEMMA OneLineEach ==
  ASSUME NEW positions, IsFiniteSet(positions), NEW lines,
         \A i, j \in positions : lines[i] = lines[j] => i = j
  PROVE  Cardinality({lines[i] : i \in positions}) = Cardinality(positions)
<1> DEFINE shown == {lines[i] : i \in positions}
           line  == [i \in positions |-> lines[i]]
<1>1. line \in Surjection(positions, shown)
  BY DEF Surjection
<1>2. line \in Injection(positions, shown)
  BY DEF Injection, IsInjective
<1> HIDE DEF shown, line
<1>3. Cardinality(shown) = Cardinality(positions)
  BY <1>1, <1>2, FS_Surjection
<1> QED
  BY <1>3 DEF shown

\* What the screen shows of the control plane's nodes, one line each.
LEMMA ScreenGiven ==
  ASSUME NEW list, DOMAIN list \subseteq DOMAIN Masters,
         \A i \in DOMAIN list : Sound(Masters[i], list[i])
  PROVE  LET screen  == Display!WriteNodes(list)
             omitted == Display!OmittedLines(list)
         IN  /\ screen.allUpdatedTo # None <=> Display!AllUpdated(list)
             /\ \A line \in screen.lines : \E i \in DOMAIN list : line = list[i]
             /\ screen.allUpdatedTo = None =>
                  /\ Cardinality(screen.lines) + screen.omitted.Total
                       = Cardinality(DOMAIN list)
                  /\ screen.omitted.Total > 0 =>
                       screen.omitted.Completed + screen.omitted.Outdated
                         = screen.omitted.Total
                  /\ \A i \in DOMAIN list \ omitted : list[i] \in screen.lines
<1> DEFINE screen  == Display!WriteNodes(list)
           omitted == Display!OmittedLines(list)
           shown   == DOMAIN list \ omitted
           all     == DOMAIN list = {} \/ Display!AllUpdated(list)
           done    == {i \in omitted : list[i].isUpdated}
           behind  == {i \in omitted : ~list[i].isUpdated}
<1>1. IsFiniteSet(DOMAIN list)
  BY FleetGiven, FS_Subset
<1>2. omitted \subseteq DOMAIN list
  BY DEF Display!OmittedLines
<1>3. /\ IsFiniteSet(omitted) /\ IsFiniteSet(shown)
      /\ Cardinality(omitted) \in Nat /\ Cardinality(shown) \in Nat
      /\ Cardinality(DOMAIN list) = Cardinality(omitted) + Cardinality(shown)
  <2> HIDE DEF omitted
  <2> QED
    BY <1>1, <1>2, TwoParts
<1>4. \A i, j \in DOMAIN list : list[i] = list[j] => i = j
  BY FleetAssumption DEF Sound
<1>5. CASE all
  <2>1. /\ screen.lines = {} /\ screen.omitted.Total = 0
        /\ screen.allUpdatedTo = IF DOMAIN list = {} THEN None
                                 ELSE list[Display!Min(DOMAIN list)].version
    BY <1>5 DEF Display!WriteNodes
  <2>2. CASE DOMAIN list = {}
    <3>1. /\ screen.allUpdatedTo = None /\ ~Display!AllUpdated(list)
          /\ Cardinality(DOMAIN list) = 0 /\ Cardinality({}) = 0
      BY <2>1, <2>2, FS_EmptySet DEF Display!AllUpdated
    <3> QED
      BY <2>1, <2>2, <3>1
  <2>3. CASE DOMAIN list # {}
    <3> DEFINE first == Display!Min(DOMAIN list)
    <3>1. Display!AllUpdated(list)
      BY <1>5, <2>3
    <3>2. first \in DOMAIN list
      BY <2>3, FleetGiven, FirstOfNumbers
    <3>3. list[first].isUpdated /\ Sound(Masters[first], list[first])
      BY <3>1, <3>2 DEF Display!AllUpdated
    <3>4. list[first].version # None
      BY <3>3 DEF Sound
    <3> QED
      BY <2>1, <2>3, <3>1, <3>4
  <2> QED
    BY <2>2, <2>3
<1>6. CASE ~all
  <2>1. /\ screen.allUpdatedTo = None
        /\ screen.lines = {list[i] : i \in shown}
        /\ screen.omitted.Total = Cardinality(omitted)
    BY <1>6, SameCardinality DEF Display!WriteNodes
  <2>2. /\ screen.omitted.Completed = Cardinality(done)
        /\ screen.omitted.Outdated = Cardinality(behind)
    BY <1>6, SameCardinality DEF Display!WriteNodes
  <2>3. Cardinality(omitted) = Cardinality(done) + Cardinality(behind)
    <3>1. done \subseteq omitted /\ behind = omitted \ done
      OBVIOUS
    <3> HIDE DEF omitted, done, behind
    <3> QED
      BY <1>3, <3>1, TwoParts
  <2>4. Cardinality(screen.lines) = Cardinality(shown)
    <3>1. \A i, j \in shown : list[i] = list[j] => i = j
      BY <1>4
    <3> HIDE DEF shown, screen
    <3> QED
      BY <1>3, <2>1, <3>1, OneLineEach
  <2>5. Cardinality(screen.lines) + screen.omitted.Total = Cardinality(DOMAIN list)
    <3> HIDE DEF shown, screen, omitted
    <3> QED
      BY <1>3, <2>1, <2>4
  <2>6. screen.omitted.Completed + screen.omitted.Outdated = screen.omitted.Total
    <3> HIDE DEF done, behind, screen, omitted
    <3> QED
      BY <2>1, <2>2, <2>3
  <2>7. ~Display!AllUpdated(list)
    BY <1>6
  <2>8. \A line \in screen.lines : \E i \in DOMAIN list : line = list[i]
    <3> HIDE DEF screen, omitted
    <3> QED
      BY <2>1
  <2>9. \A i \in DOMAIN list \ omitted : list[i] \in screen.lines
    <3> HIDE DEF screen, omitted
    <3> QED
      BY <2>1
  <2> QED
    BY <2>1, <2>5, <2>6, <2>7, <2>8, <2>9
<1> QED
  BY <1>5, <1>6

-----------------------------------------------------------------------------
(* Types, and what insights say.                                           *)

\* What the controllers would write is of the insights' types.
LEMMA DueTypes ==
  ASSUME cv \in ClusterVersions, co \in [Operator -> Report \cup {None}],
         machine \in [Node -> Machine]
  PROVE  /\ Present \subseteq Operator /\ IsFiniteSet(Present) /\ DOMAIN Versions = Present
         /\ DueClusterVersion \in ClusterVersionStatuses
         /\ DueClusterVersion.updating # None
         /\ DueClusterVersion.updating.status = "True"
              => DueClusterVersion.assessment = "Progressing"
         /\ \A o \in Present : DueOperator(o) \in OperatorStatuses /\ DueOperator(o) # None
         /\ \A n \in Node : /\ DueNode(n) \in NodeStates /\ DueNode(n) # None
                            /\ Evaluated(n, DueNode(n))
         /\ \A p \in Pool : DuePool(p) \in PoolInsights
<1>1. /\ Present \subseteq Operator /\ IsFiniteSet(Present) /\ DOMAIN Versions = Present
  <2>1. Present \subseteq Operator /\ DOMAIN Versions = Present
    BY DEF Present, Versions
  <2> QED
    BY <2>1, FS_Subset, UpdateStatusAssumption
<1>2. /\ DueClusterVersion \in ClusterVersionStatuses
      /\ DueClusterVersion.updating # None
      /\ DueClusterVersion.updating.status = "True"
           => DueClusterVersion.assessment = "Progressing"
  <2> DEFINE verdict == IsControlPlaneUpdating(cv)
  <2>1. /\ DueClusterVersion \in ClusterVersionStatuses
        /\ DueClusterVersion.updating = Condition(verdict.status, verdict.why, 0)
        /\ DueClusterVersion.updating # None
        /\ DueClusterVersion.assessment = "Progressing" <=> verdict.status = "True"
    BY <1>1, DueGiven DEF DueClusterVersion
  <2> HIDE DEF verdict
  <2>2. DueClusterVersion.updating.status = verdict.status
    BY <2>1 DEF Condition
  <2> QED
    BY <2>1, <2>2
<1>3. ASSUME NEW o \in Present
      PROVE  DueOperator(o) \in OperatorStatuses /\ DueOperator(o) # None
  <2>1. co[o] \in Report
    BY DEF Present
  <2> QED
    BY <2>1, OperatorGiven DEF DueOperator
<1>4. Target \in Version \cup {None}
  <2>1. cv.history \in Seq(Entries)
    BY DEF ClusterVersions
  <2>2. cv.history # <<>> => cv.history[1] \in Entries
    BY <2>1
  <2> QED
    BY <2>2 DEF Target, Entries
<1>5. ASSUME NEW n \in Node
      PROVE  /\ DueNode(n) \in NodeStates /\ DueNode(n) # None
             /\ Evaluated(n, DueNode(n))
  <2>1. machine[n] \in Machine
    OBVIOUS
  <2> QED
    BY <1>4, <2>1, EvaluationGiven DEF DueNode
<1>6. \A p \in Pool : DuePool(p) \in PoolInsights
  BY PoolGiven
<1> QED
  BY <1>1, <1>2, <1>3, <1>5, <1>6

LEMMA InstalledGives ==
  ASSUME NEW now \in Nat PROVE Installed(First, now) \in ClusterVersions
<1>1. Entry(First, "Completed", now, now) \in Entries
  BY UpdateStatusAssumption DEF Entry, Entries
<1>2. <<Entry(First, "Completed", now, now)>> \in Seq(Entries)
  BY <1>1
<1> QED
  BY <1>2, UpdateStatusAssumption DEF Installed, ClusterVersions, Progressing

LEMMA TypeInit ==
  ASSUME Init
  PROVE  TypeOK /\ Written /\ Held
<1>1. cv \in ClusterVersions
  BY InstalledGives, StartGives DEF Init
<1>2. /\ co \in [Operator -> Report \cup {None}] /\ machine \in [Node -> Machine]
  BY FleetAssumption DEF Init
<1>3. cvInsight = DueClusterVersion /\ cvInsight \in ClusterVersionStatuses
  BY <1>1, <1>2, DueTypes DEF Init, Right
<1>4. coInsights \in [Operator -> OperatorStatuses \cup {None}]
  <2>1. \A o \in Operator : co[o] # None => DueOperator(o) \in OperatorStatuses
    BY <1>1, <1>2, DueTypes DEF Present
  <2> QED
    BY <2>1 DEF Init, Right
<1>5. nodeInsights \in [Node -> NodeStates] /\ \A n \in Node : Evaluated(n, nodeInsights[n])
  BY <1>1, <1>2, DueTypes DEF Init, Right
<1>6. poolInsights \in [Pool -> PoolInsights]
  BY <1>1, <1>2, DueTypes DEF Init, Right
<1>7. TypeOK
  <2>1. steady = FALSE /\ changes = 0 /\ pc = "start" /\ paused = {}
    BY DEF Init
  <2>2. MaxChanges \in Nat
    BY UpdateStatusAssumption
  <2>3. steady \in BOOLEAN
    BY <2>1
  <2>4. changes \in 0..MaxChanges
    BY <2>1, <2>2
  <2>5. paused \subseteq Pool
    BY <2>1
  <2>6. /\ nodeInsights \in [Node -> NodeStates \cup {BlankNode, None}]
        /\ poolInsights \in [Pool -> PoolInsights \cup {BlankPool, None}]
    BY <1>5, <1>6
  <2> QED
    BY <1>1, <1>2, <1>3, <1>4, <2>1, <2>3, <2>4, <2>5, <2>6 DEF TypeOK
<1>8. Written
  BY <1>1, <1>2, <1>3, <1>5, DueTypes DEF Init, Written
<1>9. Held
  BY DEF Init, Held
<1> QED
  BY <1>7, <1>8, <1>9

LEMMA ChangeCounts ==
  ASSUME TypeOK, Change
  PROVE  changes' \in 0..MaxChanges /\ steady' \in BOOLEAN
<1>1. MaxChanges \in Nat
  BY UpdateStatusAssumption
<1>2. steady' = FALSE
  BY DEF Change
<1>3. steady' \in BOOLEAN
  BY <1>2
<1>4. changes \in 0..MaxChanges /\ changes < MaxChanges /\ changes' = changes + 1
  BY DEF Change, TypeOK
<1> QED
  BY <1>1, <1>3, <1>4

LEMMA StatusTyped ==
  ASSUME NEW status, NEW completion \in Int,
         NEW assessment \in {"", "Progressing", "Completed", "Unknown"},
         NEW versions \in [target : Version \cup {None}, install : BOOLEAN,
                          previous : Version \cup {None}, partial : BOOLEAN],
         status = [assessment |-> assessment, completion |-> completion,
                   versions |-> versions, updating |-> None]
  PROVE  status \in ClusterVersionStatuses /\ status.updating = None
BY DEF ClusterVersionStatuses

\* What insights are lost to.
LEMMA BlanksTyped ==
  /\ Glance(EmptyStatus) \in ClusterVersionStatuses
  /\ Glance(EmptyStatus).updating = None
  /\ Cos!EmptyStatus \in OperatorStatuses
<1>1. <<>> \in Seq(Entries)
  OBVIOUS
<1>2. VersionsFromHistory(<<>>) \in
        [target : Version \cup {None}, install : BOOLEAN,
         previous : Version \cup {None}, partial : BOOLEAN]
  BY <1>1, VersionsGiven
<1>3. Glance(EmptyStatus) = [assessment |-> "", completion |-> 0,
                             versions |-> VersionsFromHistory(<<>>), updating |-> None]
  BY DEF Glance, EmptyStatus
<1>4. 0 \in Int /\ "" \in {"", "Progressing", "Completed", "Unknown"}
  OBVIOUS
<1>5. /\ Glance(EmptyStatus) \in ClusterVersionStatuses
      /\ Glance(EmptyStatus).updating = None
  BY <1>2, <1>3, <1>4, StatusTyped, Zenon
<1>6. Cos!EmptyStatus \in OperatorStatuses
  BY DEF Cos!EmptyStatus, OperatorStatuses
<1> QED
  BY <1>5, <1>6

\* An insight that a list found to be updating says so in its assessment.
LEMMA TypeStep ==
  ASSUME TypeOK, Written, [Next]_vars
  PROVE  TypeOK'
<1>0. /\ \A o \in Operator : co[o] # None => DueOperator(o) \in OperatorStatuses
      /\ DueClusterVersion \in ClusterVersionStatuses
      /\ \A n \in Node : DueNode(n) \in NodeStates
      /\ \A p \in Pool : DuePool(p) \in PoolInsights
  BY DueTypes DEF TypeOK, Present
<1>1. CASE ChangeClusterVersion
  <2>1. cv' \in ClusterVersions
    BY <1>1, SuccessorsGive DEF ChangeClusterVersion, TypeOK
  <2>2. changes' \in 0..MaxChanges /\ steady' \in BOOLEAN
    BY <1>1, ChangeCounts DEF ChangeClusterVersion
  <2> QED
    BY <1>1, <2>1, <2>2 DEF ChangeClusterVersion, TypeOK, insights, client
<1>2. ASSUME NEW o \in Operator, ChangeOperator(o) PROVE TypeOK'
  <2>1. co' \in [Operator -> Report \cup {None}]
    BY <1>2 DEF ChangeOperator, TypeOK
  <2>2. changes' \in 0..MaxChanges /\ steady' \in BOOLEAN
    BY <1>2, ChangeCounts DEF ChangeOperator
  <2> QED
    BY <1>2, <2>1, <2>2 DEF ChangeOperator, TypeOK, insights, client
<1>3. ASSUME NEW n \in Node, ChangeNode(n) PROVE TypeOK'
  <2>1. machine' \in [Node -> Machine]
    BY <1>3 DEF ChangeNode, TypeOK
  <2>2. changes' \in 0..MaxChanges /\ steady' \in BOOLEAN
    BY <1>3, ChangeCounts DEF ChangeNode
  <2> QED
    BY <1>3, <2>1, <2>2 DEF ChangeNode, TypeOK, insights, client
<1>4. ASSUME NEW p \in Pool, PausePool(p) PROVE TypeOK'
  <2>1. paused' \subseteq Pool
    BY <1>4 DEF PausePool, TypeOK
  <2>2. changes' \in 0..MaxChanges /\ steady' \in BOOLEAN
    BY <1>4, ChangeCounts DEF PausePool
  <2> QED
    BY <1>4, <2>1, <2>2 DEF PausePool, TypeOK, insights, client
<1>5. CASE Writing
  <2>1. cvInsight' \in ClusterVersionStatuses \cup {None}
    BY <1>0, <1>5 DEF Writing, WriteClusterVersionInsight, WriteOperatorInsight,
                      WriteNodeInsight, WritePoolInsight, TypeOK
  <2>2. coInsights' \in [Operator -> OperatorStatuses \cup {None}]
    BY <1>0, <1>5 DEF Writing, WriteClusterVersionInsight, WriteOperatorInsight,
                      WriteNodeInsight, WritePoolInsight, TypeOK
  <2>3. nodeInsights' \in [Node -> NodeStates \cup {BlankNode, None}]
    BY <1>0, <1>5 DEF Writing, WriteClusterVersionInsight, WriteOperatorInsight,
                      WriteNodeInsight, WritePoolInsight, TypeOK
  <2>4. poolInsights' \in [Pool -> PoolInsights \cup {BlankPool, None}]
    BY <1>0, <1>5 DEF Writing, WriteClusterVersionInsight, WriteOperatorInsight,
                      WriteNodeInsight, WritePoolInsight, TypeOK
  <2>5. steady' = FALSE /\ UNCHANGED <<cluster, client, changes>>
    BY <1>5 DEF Writing, WriteClusterVersionInsight, WriteOperatorInsight,
                WriteNodeInsight, WritePoolInsight, Write
  <2> QED
    BY <2>1, <2>2, <2>3, <2>4, <2>5 DEF TypeOK, cluster, client
<1>6. CASE LoseInsight
  <2>1. cvInsight' \in ClusterVersionStatuses \cup {None}
    BY <1>6, BlanksTyped DEF LoseInsight, TypeOK
  <2>2. coInsights' \in [Operator -> OperatorStatuses \cup {None}]
    <3>1. \/ UNCHANGED coInsights
          \/ \E o \in Operator, s \in {None, Cos!EmptyStatus} :
               coInsights' = [coInsights EXCEPT ![o] = s]
      BY <1>6 DEF LoseInsight
    <3>2. coInsights \in [Operator -> OperatorStatuses \cup {None}]
      BY DEF TypeOK
    <3> QED
      BY <3>1, <3>2, BlanksTyped
  <2>3. nodeInsights' \in [Node -> NodeStates \cup {BlankNode, None}]
    <3>1. \/ UNCHANGED nodeInsights
          \/ \E n \in Node, s \in {None, BlankNode} :
               nodeInsights' = [nodeInsights EXCEPT ![n] = s]
      BY <1>6 DEF LoseInsight
    <3>2. nodeInsights \in [Node -> NodeStates \cup {BlankNode, None}]
      BY DEF TypeOK
    <3> QED
      BY <3>1, <3>2
  <2>4. poolInsights' \in [Pool -> PoolInsights \cup {BlankPool, None}]
    <3>1. \/ UNCHANGED poolInsights
          \/ \E p \in Pool, s \in {None, BlankPool} :
               poolInsights' = [poolInsights EXCEPT ![p] = s]
      BY <1>6 DEF LoseInsight
    <3>2. poolInsights \in [Pool -> PoolInsights \cup {BlankPool, None}]
      BY DEF TypeOK
    <3> QED
      BY <3>1, <3>2
  <2>5. changes' \in 0..MaxChanges /\ steady' \in BOOLEAN
    BY <1>6, ChangeCounts DEF LoseInsight
  <2> QED
    BY <1>6, <2>1, <2>2, <2>3, <2>4, <2>5 DEF LoseInsight, TypeOK, cluster, client
<1>7. CASE Start
  <2>1. steady' \in BOOLEAN
    BY <1>7 DEF Start, Right
  <2> QED
    BY <1>7, <2>1 DEF Start, Step, TypeOK, cluster, insights
<1>8. CASE ListClusterVersions
  <2>1. /\ pc' \in {"error", "listOperators", "not updating"}
        /\ pc' = "listOperators" => header'.assessment = "Progressing"
    BY <1>8 DEF ListClusterVersions, AfterClusterVersions, Written
  <2> QED
    BY <1>8, <2>1 DEF ListClusterVersions, Step, TypeOK, cluster, insights
<1>9. CASE ListOperators
  <2>1. header'.assessment = header.assessment
    BY <1>9 DEF ListOperators, Display!AssessControlPlaneStatus
  <2> QED
    BY <1>9, <2>1 DEF ListOperators, Step, TypeOK, cluster, insights
<1>10. CASE ListNodes
  <2>1. DOMAIN nodes' \subseteq DOMAIN Masters
    BY <1>10 DEF ListNodes, Display!AssessPool, Display!OfPool
  <2> QED
    BY <1>10, <2>1 DEF ListNodes, Step, TypeOK, cluster, insights
<1>11. CASE ListPools
  <2>1. DOMAIN rows' \subseteq Pool
    BY <1>11 DEF ListPools
  <2> QED
    BY <1>11, <2>1 DEF ListPools, Step, TypeOK, cluster, insights
<1>12. CASE ListFails
  BY <1>12 DEF ListFails, Step, TypeOK, cluster, insights
<1>13. CASE UNCHANGED vars
  BY <1>13 DEF TypeOK, vars, cluster, insights, client
<1> QED
  BY <1>1, <1>2, <1>3, <1>4, <1>5, <1>6, <1>7, <1>8, <1>9, <1>10, <1>11, <1>12, <1>13
  DEF Next, Run

\* What a list takes of the control plane's nodes are sound lines.
LEMMA NodesListed ==
  ASSUME TypeOK, Written, ListNodes
  PROVE  \A i \in DOMAIN nodes' : /\ i \in DOMAIN Masters
                                 /\ nodes'[i] = Display!AssessNode(nodeInsights[Masters[i]])
                                 /\ Sound(Masters[i], nodes'[i])
<1> DEFINE listed == [i \in {i \in DOMAIN Masters : nodeInsights[Masters[i]] # None} |->
                        nodeInsights[Masters[i]]]
           mine   == Display!OfPool(listed, "master")
<1>1. nodes' = Display!AssessPool(mine)
  BY DEF ListNodes
<1>2. /\ DOMAIN mine \subseteq DOMAIN Masters
      /\ \A i \in DOMAIN mine : /\ mine[i] = nodeInsights[Masters[i]]
                               /\ mine[i] # None /\ mine[i].pool = "master"
  BY DEF Display!OfPool
<1> HIDE DEF mine
<1>3. /\ DOMAIN nodes' = DOMAIN mine
      /\ \A i \in DOMAIN mine : nodes'[i] = Display!AssessNode(mine[i])
  BY <1>1 DEF Display!AssessPool
<1>4. ASSUME NEW i \in DOMAIN mine PROVE Sound(Masters[i], nodes'[i])
  <2>1. Masters[i] \in Node
    BY <1>2, FleetGiven
  <2>2. mine[i] # BlankNode
    <3>1. "master" # None /\ BlankNode.pool = None
      BY UpdateStatusAssumption DEF BlankNode
    <3> QED
      BY <1>2, <3>1
  <2>3. Evaluated(Masters[i], mine[i])
    BY <1>2, <2>1, <2>2 DEF Written
  <2> QED
    BY <1>3, <2>3, EvaluatedSound
<1> QED
  BY <1>2, <1>3, <1>4

LEMMA WrittenStep ==
  ASSUME TypeOK, Written, [Next]_vars
  PROVE  Written'
<1> DEFINE Says(status)    == (status # None /\ status.updating # None
                                 /\ status.updating.status = "True")
                                => status.assessment = "Progressing"
           Sources(known)  == \A n \in Node : known[n] \notin {None, BlankNode} =>
                                               Evaluated(n, known[n])
           Lines(at, list) == at \in {"listPools", "done"} =>
                                \A i \in DOMAIN list : Sound(Masters[i], list[i])
<1>1. /\ Written <=> Says(cvInsight) /\ Sources(nodeInsights) /\ Lines(pc, nodes)
      /\ Written' <=> Says(cvInsight') /\ Sources(nodeInsights') /\ Lines(pc', nodes')
  BY DEF Written
<1>2. /\ Says(DueClusterVersion)
      /\ \A n \in Node : Evaluated(n, DueNode(n))
  BY DueTypes DEF TypeOK
<1>3. Says(cvInsight) /\ Sources(nodeInsights) /\ Lines(pc, nodes)
  BY <1>1
<1>4. Says(cvInsight')
  <2>1. CASE Writing
    BY <1>2, <1>3, <2>1 DEF Writing, WriteClusterVersionInsight, WriteOperatorInsight,
                            WriteNodeInsight, WritePoolInsight, TypeOK
  <2>2. CASE LoseInsight
    BY <1>3, <2>2, BlanksTyped DEF LoseInsight
  <2>3. CASE ~Writing /\ ~LoseInsight
    <3>1. UNCHANGED cvInsight
      BY <2>3 DEF Next, Run, Step, insights, vars, ChangeClusterVersion, ChangeOperator,
                  ChangeNode, PausePool, Start, ListClusterVersions, ListOperators,
                  ListNodes, ListPools, ListFails
    <3> QED
      BY <1>3, <3>1
  <2> QED
    BY <2>1, <2>2, <2>3
<1>5. Sources(nodeInsights')
  <2>1. CASE Writing
    BY <1>2, <1>3, <2>1 DEF Writing, WriteClusterVersionInsight, WriteOperatorInsight,
                            WriteNodeInsight, WritePoolInsight, TypeOK
  <2>2. CASE LoseInsight
    BY <1>3, <2>2 DEF LoseInsight, TypeOK
  <2>3. CASE ~Writing /\ ~LoseInsight
    <3>1. UNCHANGED nodeInsights
      BY <2>3 DEF Next, Run, Step, insights, vars, ChangeClusterVersion, ChangeOperator,
                  ChangeNode, PausePool, Start, ListClusterVersions, ListOperators,
                  ListNodes, ListPools, ListFails
    <3> QED
      BY <1>3, <3>1
  <2> QED
    BY <2>1, <2>2, <2>3
<1>6. Lines(pc', nodes')
  <2>1. CASE ListNodes
    BY <2>1, NodesListed
  <2>2. CASE ~ListNodes
    <3>1. /\ UNCHANGED nodes
          /\ pc' \in {"listPools", "done"} => pc \in {"listPools", "done"}
      BY <2>2 DEF Next, Run, Step, client, vars, ChangeClusterVersion, ChangeOperator,
                  ChangeNode, PausePool, Writing, WriteClusterVersionInsight,
                  WriteOperatorInsight, WriteNodeInsight, WritePoolInsight, Write,
                  LoseInsight, Start,
                  ListClusterVersions, AfterClusterVersions, ListOperators, ListPools,
                  ListFails
    <3> QED
      BY <1>3, <3>1
  <2> QED
    BY <2>1, <2>2
<1> QED
  BY <1>1, <1>4, <1>5, <1>6

\* While nothing changes in the cluster, what is right stays right.
LEMMA RightStays ==
  ASSUME UNCHANGED cluster, UNCHANGED insights
  PROVE  Right' = Right /\ Present' = Present
<1>1. UNCHANGED <<cv, co, machine, paused, cvInsight, coInsights, nodeInsights, poolInsights>>
  BY DEF cluster, insights
<1>2. Present' = Present /\ Target' = Target /\ Versions' = Versions
  BY <1>1 DEF Present, Target, Versions
<1>3. DueClusterVersion' = DueClusterVersion
  BY <1>1, <1>2 DEF DueClusterVersion
<1>4. \A o : DueOperator(o)' = DueOperator(o)
  BY <1>1 DEF DueOperator
<1>5. \A n : DueNode(n)' = DueNode(n)
  BY <1>1, <1>2 DEF DueNode
<1>6. \A n : StateOf(n)' = StateOf(n)
  BY <1>5 DEF StateOf
<1>7. \A p : DuePool(p)' = DuePool(p)
  BY <1>1, <1>6 DEF DuePool
<1> QED
  BY <1>1, <1>2, <1>3, <1>4, <1>5, <1>7 DEF Right

\* What the lists get of insights that are right.
LEMMA RightLists ==
  ASSUME TypeOK, Right
  PROVE  /\ {o \in Operator : coInsights[o] # None} = Present
         /\ \A o \in Present : coInsights[o] = DueOperator(o)
         /\ \A i \in DOMAIN Masters : /\ nodeInsights[Masters[i]] = DueNode(Masters[i])
                                     /\ nodeInsights[Masters[i]] # None
                                     /\ nodeInsights[Masters[i]].pool = "master"
         /\ {p \in Pool : poolInsights[p] # None /\ poolInsights[p].name # "master"}
              = {"worker"}
         /\ poolInsights["worker"] = DuePool("worker")
<1>1. /\ cvInsight = DueClusterVersion
      /\ coInsights = [o \in Operator |-> IF co[o] = None THEN None ELSE DueOperator(o)]
      /\ nodeInsights = [n \in Node |-> DueNode(n)]
      /\ poolInsights = [p \in Pool |-> DuePool(p)]
  BY DEF Right
<1>2. /\ Present \subseteq Operator
      /\ \A o \in Present : DueOperator(o) # None
      /\ \A n \in Node : DueNode(n) # None /\ Evaluated(n, DueNode(n))
  BY DueTypes DEF TypeOK
<1>3. {o \in Operator : coInsights[o] # None} = Present
      /\ \A o \in Present : coInsights[o] = DueOperator(o)
  BY <1>1, <1>2 DEF Present
<1>4. ASSUME NEW i \in DOMAIN Masters
      PROVE  /\ nodeInsights[Masters[i]] = DueNode(Masters[i])
             /\ nodeInsights[Masters[i]] # None
             /\ nodeInsights[Masters[i]].pool = "master"
  <2>1. Masters[i] \in Node /\ PoolOf(Masters[i]) = "master"
    BY FleetGiven
  <2> QED
    BY <1>1, <1>2, <2>1 DEF Evaluated
<1>5. \A p \in Pool : DuePool(p) # None /\ DuePool(p).name = p
  BY PoolGiven
<1>6. /\ {p \in Pool : poolInsights[p] # None /\ poolInsights[p].name # "master"}
           = {"worker"}
      /\ poolInsights["worker"] = DuePool("worker")
  BY <1>1, <1>5 DEF Pool
<1> QED
  BY <1>3, <1>4, <1>6

\* Each list of a client that started with right insights gets what they say.
LEMMA HeldStep ==
  ASSUME TypeOK, Held, [Next]_vars
  PROVE  Held'
<1>0. SUFFICES ASSUME steady' PROVE Held'
  BY DEF Held
<1>1. CASE \/ ChangeClusterVersion \/ (\E o \in Operator : ChangeOperator(o))
           \/ (\E n \in Node : ChangeNode(n)) \/ (\E p \in Pool : PausePool(p))
           \/ Writing \/ LoseInsight
  <2>1. steady' = FALSE
    BY <1>1 DEF ChangeClusterVersion, ChangeOperator, ChangeNode, PausePool, Writing,
                WriteClusterVersionInsight, WriteOperatorInsight, WriteNodeInsight,
                WritePoolInsight, Write, LoseInsight, Change
  <2> QED
    BY <1>0, <2>1
<1>2. ASSUME Run \/ UNCHANGED vars
      PROVE  Right' = Right /\ Present' = Present /\ UNCHANGED insights
  BY <1>2, RightStays DEF Run, Start, ListClusterVersions, ListOperators, ListNodes,
                          ListPools, ListFails, Step, vars
<1>3. CASE Start
  <2>1. /\ Right' /\ pc' = "listClusterVersions"
    BY <1>0, <1>2, <1>3 DEF Start, Run
  <2> QED
    BY <2>1 DEF Held
<1>4. ASSUME Run \/ UNCHANGED vars, ~Start PROVE steady /\ Right' /\ Right /\ pc # "start"
  <2>1. steady
    BY <1>0, <1>4 DEF Run, ListClusterVersions, ListOperators, ListNodes, ListPools,
                      ListFails, vars
  <2> QED
    BY <1>2, <1>4, <2>1 DEF Held
<1>5. CASE ListClusterVersions
  <2>1. steady /\ Right' /\ UNCHANGED insights
    BY <1>2, <1>4, <1>5 DEF Run, ListClusterVersions, Start
  <2>2. /\ pc' \in {"error", "listOperators", "not updating"}
        /\ pc' = "listOperators" => header' = cvInsight /\ cvInsight.updating.status = "True"
        /\ pc' = "not updating" => cvInsight.updating.status # "True"
    BY <1>5 DEF ListClusterVersions, AfterClusterVersions
  <2> QED
    BY <2>1, <2>2 DEF Held, insights
<1>6. CASE ListOperators
  <2>1. /\ steady /\ Right' /\ Right /\ UNCHANGED insights /\ Present' = Present
    BY <1>2, <1>4, <1>6 DEF Run, ListOperators, Start
  <2>2. pc' = "listNodes" /\ header = cvInsight /\ cvInsight.updating.status = "True"
    BY <1>6, <2>1 DEF ListOperators, Held
  <2>3. header' = Display!AssessControlPlaneStatus(cvInsight,
                                                   [o \in Present |-> coInsights[o]])
    BY <1>6, <2>1, <2>2, RightLists DEF ListOperators
  <2> QED
    BY <2>1, <2>2, <2>3 DEF Held, insights
<1>7. CASE ListNodes
  <2>1. /\ steady /\ Right' /\ Right /\ UNCHANGED insights /\ Present' = Present
    BY <1>2, <1>4, <1>7 DEF Run, ListNodes, Start
  <2>2. /\ pc' = "listPools" /\ UNCHANGED header /\ cvInsight.updating.status = "True"
        /\ header = Display!AssessControlPlaneStatus(cvInsight,
                                                     [o \in Present |-> coInsights[o]])
    BY <1>7, <2>1 DEF ListNodes, Held
  <2>3. nodes' = [i \in DOMAIN Masters |-> Display!AssessNode(nodeInsights[Masters[i]])]
    <3> DEFINE found  == {i \in DOMAIN Masters : nodeInsights[Masters[i]] # None}
               listed == [i \in found |-> nodeInsights[Masters[i]]]
    <3>1. found = DOMAIN Masters
      BY <2>1, RightLists
    <3>2. {i \in found : listed[i].pool = "master"} = DOMAIN Masters
      BY <2>1, <3>1, RightLists
    <3>3. nodes' = Display!AssessPool(Display!OfPool(listed, "master"))
      BY <1>7 DEF ListNodes
    <3> HIDE DEF found
    <3>4. Display!OfPool(listed, "master")
            = [i \in DOMAIN Masters |-> nodeInsights[Masters[i]]]
      BY <3>1, <3>2 DEF Display!OfPool
    <3> QED
      BY <3>3, <3>4 DEF Display!AssessPool
  <2> QED
    BY <2>1, <2>2, <2>3 DEF Held, insights
<1>8. CASE ListPools
  <2>1. /\ steady /\ Right' /\ Right /\ UNCHANGED insights /\ Present' = Present
    BY <1>2, <1>4, <1>8 DEF Run, ListPools, Start
  <2>2. /\ pc' = "done" /\ UNCHANGED <<header, nodes>> /\ cvInsight.updating.status = "True"
        /\ header = Display!AssessControlPlaneStatus(cvInsight,
                                                     [o \in Present |-> coInsights[o]])
        /\ nodes = [i \in DOMAIN Masters |-> Display!AssessNode(nodeInsights[Masters[i]])]
    BY <1>8, <2>1 DEF ListPools, Held
  <2>3. rows' = [p \in {"worker"} |-> Display!WritePool(poolInsights[p].status)]
    BY <1>8, <2>1, RightLists DEF ListPools
  <2> QED
    BY <2>1, <2>2, <2>3 DEF Held, insights
<1>9. CASE ListFails
  <2>1. Right' /\ pc' = "error"
    BY <1>2, <1>4, <1>9 DEF Run, ListFails, Start
  <2> QED
    BY <2>1 DEF Held
<1>10. CASE UNCHANGED vars
  <2>0. ~Start
    BY <1>10 DEF Start, vars, client
  <2>1. /\ steady /\ Right' /\ pc # "start" /\ UNCHANGED insights /\ Present' = Present
        /\ UNCHANGED client
    BY <1>2, <1>4, <1>10, <2>0 DEF vars
  <2> QED
    BY <2>1 DEF Held, insights, client
<1> QED
  BY <1>1, <1>3, <1>5, <1>6, <1>7, <1>8, <1>9, <1>10 DEF Next, Run

LEMMA InvariantsHold == Spec => [](TypeOK /\ Written /\ Held)
<1>1. Init => TypeOK /\ Written /\ Held
  BY TypeInit
<1>2. TypeOK /\ Written /\ Held /\ [Next]_vars => (TypeOK /\ Written /\ Held)'
  BY TypeStep, WrittenStep, HeldStep
<1> QED
  BY <1>1, <1>2, PTL DEF Spec

-----------------------------------------------------------------------------
(* The theorems.                                                           *)

\* Every variable has its type, and whatever is done to insights meanwhile, a client
\* that gets past the first list has the insight of an update that is under way.
THEOREM TypeCorrect == Spec => []TypeOK
BY InvariantsHold, PTL

\* Sound lines are of named nodes, and say nothing that an insight does not.
LEMMA SoundNodes ==
  ASSUME TypeOK, Written, pc \in {"listPools", "done"}
  PROVE  /\ DOMAIN nodes \subseteq DOMAIN Masters
         /\ \A i \in DOMAIN nodes : Sound(Masters[i], nodes[i])
BY DEF TypeOK, Written

LEMMA NothingIsMadeUp ==
  ASSUME TypeOK, Written
  PROVE  NothingMadeUp
<1> SUFFICES ASSUME pc \in {"listPools", "done"}
             PROVE  /\ \A line \in Screen.lines :
                         /\ line.name # None
                         /\ line.phase = {"Draining"} => line.isUpdating
                         /\ line.assessment = "Degraded" => line.isDegraded
                    /\ Screen.allUpdatedTo = None =>
                         /\ Cardinality(Screen.lines) + Screen.omitted.Total
                              = Cardinality(DOMAIN nodes)
                         /\ Screen.omitted.Total > 0 =>
                              Screen.omitted.Completed + Screen.omitted.Outdated
                                = Screen.omitted.Total
  BY DEF NothingMadeUp
<1>1. /\ DOMAIN nodes \subseteq DOMAIN Masters
      /\ \A i \in DOMAIN nodes : Sound(Masters[i], nodes[i])
  BY SoundNodes
<1>2. /\ \A line \in Screen.lines : \E i \in DOMAIN nodes : line = nodes[i]
      /\ Screen.allUpdatedTo = None =>
           /\ Cardinality(Screen.lines) + Screen.omitted.Total
                = Cardinality(DOMAIN nodes)
           /\ Screen.omitted.Total > 0 =>
                Screen.omitted.Completed + Screen.omitted.Outdated
                  = Screen.omitted.Total
  BY <1>1, ScreenGiven DEF Screen
<1>3. ASSUME NEW i \in DOMAIN nodes
      PROVE  /\ nodes[i].name # None
             /\ nodes[i].phase = {"Draining"} => nodes[i].isUpdating
             /\ nodes[i].assessment = "Degraded" => nodes[i].isDegraded
  <2>1. nodes[i].name # None
    BY <1>1, FleetGiven, UpdateStatusAssumption DEF Sound
  <2>2. nodes[i].phase = {"Draining"} => nodes[i].isUpdating
    BY <1>1 DEF Sound, Nodes!ActivePhases
  <2> QED
    BY <1>1, <2>1, <2>2 DEF Sound
<1> QED
  BY <1>2, <1>3

\* Whatever moments the lists are of, every line is of a named node and says no more
\* than its insight, and the nodes that are left out add up.
THEOREM NothingMadeUpCorrect == Spec => []NothingMadeUp
<1>1. TypeOK /\ Written /\ Held => NothingMadeUp
  BY NothingIsMadeUp
<1> QED
  BY <1>1, InvariantsHold, PTL

-----------------------------------------------------------------------------
(* A cluster that holds still: its nodes.                                  *)

\* What the states of nodes say of the nodes.
LEMMA StateGiven ==
  ASSUME TypeOK, NEW n \in Node
  PROVE  LET s        == DueNode(n)
             is(type) == \E i \in 1..3 : s.conditions[i].type = type /\ s.conditions[i].status
         IN  /\ Proved!Complete(s.conditions, Whys)
             /\ StateOf(n).phase = s.phase /\ s.phase \in Nodes!Phases
             /\ StateOf(n).available <=> is("Available")
             /\ is("Degraded") <=> Nodes!IsNodeDegraded(machine[n])
             /\ \A i \in 1..3 : s.conditions[i].type = "Updating" =>
                  /\ s.conditions[i].why = {s.phase}
                  /\ s.conditions[i].status <=> s.phase \in Nodes!ActivePhases
<1> DEFINE s == DueNode(n)
<1>1. machine[n] \in Machine /\ Target \in Version \cup {None}
  <2>1. cv.history \in Seq(Entries)
    BY DEF ClusterVersions, TypeOK
  <2>2. cv.history # <<>> => cv.history[1] \in Entries
    BY <2>1
  <2> QED
    BY <2>2 DEF Target, Entries, TypeOK
<1>2. /\ s \in NodeStates /\ Evaluated(n, s)
      /\ \A i \in 1..3 : s.conditions[i].type = "Updating" =>
           /\ s.conditions[i].why = {s.phase}
           /\ s.conditions[i].status <=> s.phase \in Nodes!ActivePhases
      /\ \A i \in 1..3 : s.conditions[i].type = "Degraded" =>
           (s.conditions[i].status <=> Nodes!IsNodeDegraded(machine[n]))
  BY <1>1, EvaluationGiven DEF DueNode
<1>3. Proved!Complete(s.conditions, Whys)
  BY <1>2 DEF Evaluated
<1>4. /\ DOMAIN s.conditions = 1..3
      /\ \E i \in 1..3 : s.conditions[i].type = "Degraded"
  BY <1>3, Proved!ThreeTypes DEF Proved!Complete, Proved!ConditionTypes
<1>5. s.phase \in Nodes!Phases
  BY <1>2 DEF NodeStates
<1>6. /\ StateOf(n).phase = s.phase
      /\ StateOf(n).available <=> \E i \in 1..3 : /\ s.conditions[i].type = "Available"
                                                /\ s.conditions[i].status
  BY <1>4 DEF StateOf
<1> HIDE DEF s
<1>7. (\E i \in 1..3 : s.conditions[i].type = "Degraded" /\ s.conditions[i].status)
        <=> Nodes!IsNodeDegraded(machine[n])
  BY <1>2, <1>4
<1> QED
  BY <1>2, <1>3, <1>5, <1>6, <1>7 DEF s

\* What the client has of a node is how the node is.
LEMMA NodesTrue ==
  ASSUME TypeOK, Held, steady, pc = "done"
  PROVE  /\ DOMAIN nodes = DOMAIN Masters
         /\ \A i \in DOMAIN Masters :
              LET n == Masters[i]
              IN  /\ nodes[i].name = n
                  /\ nodes[i].isUpdating <=> StateOf(n).phase \in Nodes!ActivePhases
                  /\ nodes[i].isUpdated <=> StateOf(n).phase = "Completed"
                  /\ nodes[i].isDegraded <=> Nodes!IsNodeDegraded(machine[n])
                  /\ nodes[i].isUnavailable <=> ~StateOf(n).available
<1>1. Right /\ nodes = [i \in DOMAIN Masters |-> Display!AssessNode(nodeInsights[Masters[i]])]
  BY DEF Held
<1>2. ASSUME NEW i \in DOMAIN Masters
      PROVE  LET n == Masters[i]
             IN  /\ nodes[i].name = n
                 /\ nodes[i].isUpdating <=> StateOf(n).phase \in Nodes!ActivePhases
                 /\ nodes[i].isUpdated <=> StateOf(n).phase = "Completed"
                 /\ nodes[i].isDegraded <=> Nodes!IsNodeDegraded(machine[n])
                 /\ nodes[i].isUnavailable <=> ~StateOf(n).available
  <2> DEFINE n == Masters[i]
             s == DueNode(n)
  <2>1. nodes[i] = Display!AssessNode(s) /\ n \in Node
    BY <1>1, RightLists, FleetGiven
  <2>2. s.name = n
    BY <2>1, DueTypes DEF Evaluated, TypeOK
  <2>3. /\ Proved!Complete(s.conditions, Whys)
        /\ StateOf(n).phase = s.phase /\ s.phase \in Nodes!Phases
        /\ StateOf(n).available <=> \E k \in 1..3 : s.conditions[k].type = "Available"
                                                  /\ s.conditions[k].status
        /\ (\E k \in 1..3 : s.conditions[k].type = "Degraded" /\ s.conditions[k].status)
              <=> Nodes!IsNodeDegraded(machine[n])
        /\ \A k \in 1..3 : s.conditions[k].type = "Updating" =>
             /\ s.conditions[k].why = {s.phase}
             /\ s.conditions[k].status <=> s.phase \in Nodes!ActivePhases
    BY <2>1, StateGiven
  <2> HIDE DEF s, n
  <2>4. LET line == Display!AssessNode(s)
        IN  /\ line.name = s.name
            /\ line.isUpdating <=> s.phase \in Nodes!ActivePhases
            /\ line.isUpdated <=> s.phase = "Completed"
            /\ line.isDegraded <=> \E k \in 1..3 : s.conditions[k].type = "Degraded"
                                                 /\ s.conditions[k].status
            /\ line.isUnavailable <=> ~\E k \in 1..3 : s.conditions[k].type = "Available"
                                                     /\ s.conditions[k].status
    BY <2>3, NodeShown
  <2> QED
    BY <2>1, <2>2, <2>3, <2>4 DEF n
<1> QED
  BY <1>1, <1>2

LEMMA TroubleShows ==
  ASSUME TypeOK, Written, Held
  PROVE  TroubleIsShown
<1> SUFFICES ASSUME steady, pc = "done", NEW n \in Range(Masters),
                    \/ Nodes!IsNodeDegraded(machine[n])
                    \/ ~StateOf(n).available /\ StateOf(n).phase \notin Nodes!ActivePhases,
                    Screen.allUpdatedTo = None
             PROVE  n \in Listed
  BY DEF TroubleIsShown, Shown
<1>1. PICK i \in DOMAIN Masters : n = Masters[i]
  BY FleetGiven
<1>2. i \in DOMAIN nodes /\ nodes[i].name = n /\ ~Display!Omitted(nodes[i])
  BY <1>1, NodesTrue DEF Display!Omitted
<1>3. i \notin Display!OmittedLines(nodes)
  BY <1>2 DEF Display!OmittedLines
<1>4. nodes[i] \in Screen.lines
  BY <1>2, <1>3, SoundNodes, ScreenGiven DEF Screen
<1> QED
  BY <1>2, <1>4 DEF Listed

\* However many nodes there are and however many lines are shown, a degraded node and
\* one that is out of service without being updated are listed.
THEOREM TroubleCorrect == Spec => []TroubleIsShown
<1>1. TypeOK /\ Written /\ Held => TroubleIsShown
  BY TroubleShows
<1> QED
  BY <1>1, InvariantsHold, PTL

LEMMA AllUpdatedTrue ==
  ASSUME TypeOK, Written, Held, steady, pc = "done"
  PROVE  Screen.allUpdatedTo # None <=> Completed("master") = Range(Masters)
<1>1. Screen.allUpdatedTo # None <=> Display!AllUpdated(nodes)
  BY SoundNodes, ScreenGiven DEF Screen
<1>2. Display!AllUpdated(nodes)
        <=> \A i \in DOMAIN Masters : StateOf(Masters[i]).phase = "Completed"
  <2>1. 1 \in DOMAIN Masters
    BY FleetGiven
  <2> QED
    BY <2>1, NodesTrue DEF Display!AllUpdated
<1>3. Completed("master") = {n \in Range(Masters) : StateOf(n).phase = "Completed"}
  BY FleetGiven DEF Completed
<1>4. (\A i \in DOMAIN Masters : StateOf(Masters[i]).phase = "Completed")
        <=> \A n \in Range(Masters) : StateOf(n).phase = "Completed"
  BY FleetGiven
<1> QED
  BY <1>1, <1>2, <1>3, <1>4

-----------------------------------------------------------------------------
(* A cluster that holds still: its worker pool.                            *)

LEMMA DivisionGives ==
  ASSUME NEW a \in Nat, NEW b \in Nat \ {0}
  PROVE  LET q == a \div b
         IN  q \in Nat /\ q * b <= a /\ a < q * b + b
OBVIOUS

\* A part of a whole, turned to percent and back, both rounded down.
LEMMA RoundedTwice ==
  ASSUME NEW whole \in Nat \ {0}, NEW part \in 0..whole
  PROVE  LET percent == (part * 100) \div whole
             back    == (percent * whole) \div 100
         IN  /\ part - back \in 0..((whole + 99) \div 100)
             /\ back = whole <=> part = whole
<1> DEFINE percent == (part * 100) \div whole
           back    == (percent * whole) \div 100
<1>1. /\ percent \in Nat
      /\ percent * whole <= part * 100 /\ part * 100 < percent * whole + whole
  BY DivisionGives
<1>2. PICK total \in Nat : total = percent * whole
  BY <1>1
<1>3. back \in Nat /\ back * 100 <= total /\ total < back * 100 + 100
  BY <1>2, DivisionGives
<1>4. PICK most \in Nat :
        most = (whole + 99) \div 100 /\ whole + 99 < most * 100 + 100
  BY DivisionGives
<1>5. part - back \in 0..most
  BY <1>1, <1>2, <1>3, <1>4
<1>6. back = whole => part = whole
  BY <1>5
<1>7. ASSUME part = whole PROVE back = whole
  <2>1. percent = 100
    BY <1>7
  <2> QED
    BY <2>1
<1> QED
  BY <1>4, <1>5, <1>6, <1>7

LEMMA CountsAreClose ==
  ASSUME TypeOK, Held
  PROVE  CountsClose
<1> DEFINE row    == rows["worker"]
           actual == Cardinality(Completed("worker"))
           whole  == Cardinality(Workers)
           due    == DuePool("worker")
<1> SUFFICES ASSUME steady, pc = "done"
             PROVE  /\ actual - row.updated \in 0..((whole + 99) \div 100)
                    /\ row.updated = row.total <=> actual = whole
  BY DEF CountsClose
<1>1. row = Display!WritePool(due.status)
  BY RightLists DEF Held
<1>2. /\ due.status.summaries.Total = whole
      /\ due.status.completion = IF Workers = {} THEN 0 ELSE (actual * 100) \div whole
  BY FleetGiven, PoolGiven DEF Pool
<1>3. /\ row.total = whole
      /\ row.updated = (due.status.completion * whole) \div 100
  BY <1>1, <1>2 DEF Display!WritePool, Display!UpdatedNodes
<1>4. IsFiniteSet(Workers) /\ Completed("worker") \in SUBSET Workers
  BY FleetGiven, FleetAssumption DEF Completed
<1>5. whole \in Nat /\ actual \in Nat /\ actual <= whole /\ (Workers = {} <=> whole = 0)
  BY <1>4, FS_Subset, FS_CardinalityType, FS_EmptySet
<1> HIDE DEF row, actual, whole, due
<1>6. CASE Workers = {}
  BY <1>2, <1>3, <1>5, <1>6
<1>7. CASE Workers # {}
  <2>1. whole \in Nat \ {0} /\ actual \in 0..whole
    BY <1>5, <1>7
  <2>2. row.updated = (((actual * 100) \div whole) * whole) \div 100
    BY <1>2, <1>3, <1>7
  <2>3. LET percent == (actual * 100) \div whole
            back    == (percent * whole) \div 100
        IN  /\ actual - back \in 0..((whole + 99) \div 100)
            /\ back = whole <=> actual = whole
    BY <2>1, RoundedTwice
  <2> QED
    BY <1>3, <2>2, <2>3
<1> QED
  BY <1>6, <1>7

\* For pools of any size: what is computed back from the percentage is never more than
\* are updated, short by at most one for every hundred nodes that there are or begin,
\* and complete just when the update is.
THEOREM CountsCorrect == Spec => []CountsClose
<1>1. TypeOK /\ Written /\ Held => CountsClose
  BY CountsAreClose
<1> QED
  BY <1>1, InvariantsHold, PTL

-----------------------------------------------------------------------------
(* A cluster that holds still: its operators and versions.                 *)

\* Which conditions an operator's insight has tells what the operator reports.
LEMMA ConditionsTell ==
  ASSUME NEW report \in Report, NEW target
  PROVE  LET u   == Cos!Updating(report, target, 0)
             h   == Cos!Healthy(report, 0)
             new == report.version # None /\ report.version = target
         IN  /\ (u.status = "False" /\ u.why = "Updated") <=> new
             /\ (u.status = "True") <=> (~new /\ report.progressing = "True")
             /\ (u.status = "False" /\ u.why = "Pending")
                  <=> (~new /\ report.progressing = "False")
             /\ (h.status = "True")
                  <=> (report.available = "True" /\ report.degraded # "True")
             /\ (h.status = "False" /\ h.why = "Unavailable")
                  <=> (report.available # "True" /\ report.available # None)
             /\ (h.status = "False" /\ h.why = "Degraded")
                  <=> (report.available = "True" /\ report.degraded = "True")
<1>1. /\ report \in Reports
      /\ None \notin {"True", "False", "Unknown"}
  BY UpdateStatusAssumption
<1>2. report.progressing \in {"True", "False", "Unknown", None}
  BY <1>1 DEF Reports, Claims
<1> DEFINE u   == Cos!Updating(report, target, 0)
           h   == Cos!Healthy(report, 0)
           new == report.version # None /\ report.version = target
<1>3. u = IF new THEN Cos!Condition("False", "Updated", 0)
          ELSE IF report.progressing = "True" THEN Cos!Condition("True", "Progressing", 0)
          ELSE IF report.progressing = "False" THEN Cos!Condition("False", "Pending", 0)
          ELSE Cos!Condition("Unknown", "CannotDetermine", 0)
  BY DEF Cos!Updating, Cos!VersionUpdated
<1>4. h = IF report.available = None THEN Cos!Condition("Unknown", "Unavailable", 0)
          ELSE IF report.available # "True" THEN Cos!Condition("False", "Unavailable", 0)
          ELSE IF report.degraded = "True" THEN Cos!Condition("False", "Degraded", 0)
          ELSE Cos!Condition("True", "AsExpected", 0)
  BY DEF Cos!Healthy
<1> HIDE DEF u, h
<1>5. /\ (u.status = "False" /\ u.why = "Updated") <=> new
      /\ (u.status = "True") <=> (~new /\ report.progressing = "True")
      /\ (u.status = "False" /\ u.why = "Pending")
           <=> (~new /\ report.progressing = "False")
  BY <1>3 DEF Cos!Condition
<1>6. /\ (h.status = "True")
           <=> (report.available = "True" /\ report.degraded # "True")
      /\ (h.status = "False" /\ h.why = "Unavailable")
           <=> (report.available # "True" /\ report.available # None)
      /\ (h.status = "False" /\ h.why = "Degraded")
           <=> (report.available = "True" /\ report.degraded = "True")
  BY <1>1, <1>4 DEF Cos!Condition
<1> QED
  BY <1>5, <1>6 DEF u, h

\* How the client sorts the operators of a cluster.
LEMMA OperatorsSorted ==
  ASSUME TypeOK, Held, steady, pc = "done"
  PROVE  LET ops == header.operators
             old == Present \ Updated(cv, Versions)
         IN  /\ ops.total = Cardinality(Present)
             /\ ops.Updated = Updated(cv, Versions)
             /\ ops.Updating = {o \in old : co[o].progressing = "True"}
             /\ ops.Waiting  = {o \in old : co[o].progressing = "False"}
             /\ ops.Healthy  = {o \in Present : co[o].available = "True"
                                                /\ co[o].degraded # "True"}
             /\ ops.Unavailable = {o \in Present : co[o].available # "True"
                                                   /\ co[o].available # None}
             /\ ops.Degraded = {o \in Present : co[o].available = "True"
                                                /\ co[o].degraded = "True"}
<1> DEFINE statuses == [o \in Present |-> coInsights[o]]
           u(o) == Cos!Updating(co[o], cv.desired, 0)
           h(o) == Cos!Healthy(co[o], 0)
           ops  == header.operators
<1>1. ops = Display!AssessOperators(statuses)
  BY DEF Held, Display!AssessControlPlaneStatus
<1>2. ASSUME NEW o \in Present
      PROVE  /\ co[o] \in Report
             /\ statuses[o].updating = u(o) /\ statuses[o].healthy = h(o)
             /\ u(o) # None /\ h(o) # None
  <2>1. co[o] \in Report
    BY DEF Present, TypeOK
  <2>2. coInsights[o] = DueOperator(o)
    BY RightLists DEF Held
  <2> QED
    BY <2>1, <2>2, OperatorGiven DEF DueOperator
<1>3. DOMAIN statuses = Present
  OBVIOUS
<1> HIDE DEF statuses
<1>4. /\ ops.total = Cardinality(Present)
      /\ ops.Updated = {o \in Present : u(o).status = "False" /\ u(o).why = "Updated"}
      /\ ops.Updating = {o \in Present : u(o).status = "True"}
      /\ ops.Waiting = {o \in Present : u(o).status = "False" /\ u(o).why = "Pending"}
      /\ ops.Healthy = {o \in Present : h(o).status = "True"}
      /\ ops.Unavailable = {o \in Present : h(o).status = "False" /\ h(o).why = "Unavailable"}
      /\ ops.Degraded = {o \in Present : h(o).status = "False" /\ h(o).why = "Degraded"}
  BY <1>1, <1>2, <1>3, SameCardinality DEF Display!AssessOperators, Display!Group
<1>5. Updated(cv, Versions) = {o \in Present : co[o].version # None
                                              /\ co[o].version = cv.desired}
  BY DEF Updated, Versions
<1> HIDE DEF ops, u, h
<1>6. ASSUME NEW o \in Present
      PROVE  LET new == co[o].version # None /\ co[o].version = cv.desired
             IN  /\ (u(o).status = "False" /\ u(o).why = "Updated") <=> new
                 /\ (u(o).status = "True") <=> (~new /\ co[o].progressing = "True")
                 /\ (u(o).status = "False" /\ u(o).why = "Pending")
                      <=> (~new /\ co[o].progressing = "False")
                 /\ (h(o).status = "True")
                      <=> (co[o].available = "True" /\ co[o].degraded # "True")
                 /\ (h(o).status = "False" /\ h(o).why = "Unavailable")
                      <=> (co[o].available # "True" /\ co[o].available # None)
                 /\ (h(o).status = "False" /\ h(o).why = "Degraded")
                      <=> (co[o].available = "True" /\ co[o].degraded = "True")
  BY <1>2, ConditionsTell DEF u, h
<1>7. /\ ops.Updated = Updated(cv, Versions)
      /\ ops.Updating = {o \in Present \ Updated(cv, Versions) : co[o].progressing = "True"}
      /\ ops.Waiting = {o \in Present \ Updated(cv, Versions) : co[o].progressing = "False"}
  BY <1>4, <1>5, <1>6
<1>8. /\ ops.Healthy  = {o \in Present : co[o].available = "True" /\ co[o].degraded # "True"}
      /\ ops.Unavailable = {o \in Present : co[o].available # "True"
                                            /\ co[o].available # None}
      /\ ops.Degraded = {o \in Present : co[o].available = "True" /\ co[o].degraded = "True"}
  BY <1>4, <1>6
<1> QED
  BY <1>4, <1>7, <1>8 DEF ops

LEMMA FourParts ==
  ASSUME NEW S, IsFiniteSet(S), NEW A, A \subseteq S, NEW B, B \subseteq S \ A,
         NEW C, C \subseteq (S \ A) \ B
  PROVE  Cardinality(S) - Cardinality(A) - Cardinality(B) - Cardinality(C)
           = Cardinality(((S \ A) \ B) \ C)
<1>1. /\ IsFiniteSet(S \ A) /\ Cardinality(A) \in Nat /\ Cardinality(S \ A) \in Nat
      /\ Cardinality(S) = Cardinality(A) + Cardinality(S \ A)
  BY TwoParts
<1>2. /\ IsFiniteSet((S \ A) \ B) /\ Cardinality(B) \in Nat
      /\ Cardinality((S \ A) \ B) \in Nat
      /\ Cardinality(S \ A) = Cardinality(B) + Cardinality((S \ A) \ B)
  BY <1>1, TwoParts
<1>3. /\ Cardinality(C) \in Nat /\ Cardinality(((S \ A) \ B) \ C) \in Nat
      /\ Cardinality((S \ A) \ B) = Cardinality(C) + Cardinality(((S \ A) \ B) \ C)
  BY <1>2, TwoParts
<1> QED
  BY <1>1, <1>2, <1>3

\* The operators that are in no group are those that do not report whether they are
\* available.
LEMMA UnknownTrue ==
  ASSUME TypeOK, Held, steady, pc = "done"
  PROVE  Display!UnknownOperators(header.operators)
           = Cardinality({o \in Present : co[o].available = None})
<1> DEFINE ops == header.operators
           A   == {o \in Present : co[o].available = "True" /\ co[o].degraded # "True"}
           B   == {o \in Present : co[o].available # "True" /\ co[o].available # None}
           C   == {o \in Present : co[o].available = "True" /\ co[o].degraded = "True"}
<1>1. /\ ops.total = Cardinality(Present)
      /\ ops.Healthy = A /\ ops.Unavailable = B /\ ops.Degraded = C
  BY OperatorsSorted
<1>2. IsFiniteSet(Present)
  BY DueTypes DEF TypeOK
<1>3. A \subseteq Present /\ B \subseteq Present \ A /\ C \subseteq (Present \ A) \ B
  OBVIOUS
<1>4. ((Present \ A) \ B) \ C = {o \in Present : co[o].available = None}
  BY UpdateStatusAssumption
<1> HIDE DEF A, B, C
<1>5. Display!UnknownOperators(ops)
        = Cardinality(Present) - Cardinality(A) - Cardinality(B) - Cardinality(C)
  BY <1>1, SameCardinality DEF Display!UnknownOperators
<1> QED
  BY <1>2, <1>3, <1>4, <1>5, FourParts

\* The rest of what the header shows: completion and versions.
LEMMA HeaderTrue ==
  ASSUME TypeOK, Held, steady, pc = "done"
  PROVE  LET ops == header.operators
         IN  /\ ops.total > 0 =>
                  Rounds(header.completion, Cardinality(ops.Updated), ops.total)
             /\ header.versions.target = cv.history[1].version
             /\ header.versions.from = IF Len(cv.history) > 1 THEN cv.history[2].version
                                       ELSE None
<1> DEFINE verdict  == IsControlPlaneUpdating(cv)
           versions == VersionsFromHistory(cv.history)
<1>1. /\ header = Display!AssessControlPlaneStatus(cvInsight,
                                                    [o \in Present |-> coInsights[o]])
      /\ cvInsight = DueClusterVersion /\ cvInsight.updating.status = "True"
  BY DEF Held, Right
<1>2. /\ header.completion = cvInsight.completion
      /\ header.versions = Display!ShownVersions(cvInsight.versions)
  BY <1>1 DEF Display!AssessControlPlaneStatus
<1>3. DOMAIN Versions = Present /\ IsFiniteSet(Present)
  BY DueTypes DEF TypeOK
<1>4. /\ cvInsight.updating = Condition(verdict.status, verdict.why, 0)
      /\ cvInsight.versions = versions
      /\ verdict.status = "True" =>
           cvInsight.completion = IF Present = {} THEN 0
                                  ELSE Percentage(Cardinality(Updated(cv, Versions)),
                                                  Cardinality(Present))
  BY <1>1, <1>3, DueGiven DEF DueClusterVersion, TypeOK
<1>5. verdict.status = "True"
  BY <1>1, <1>4 DEF Condition
<1>6. cv.history \in Seq(Entries) /\ cv.history # <<>>
  BY <1>5, VerdictGiven DEF TypeOK, ClusterVersions
<1>7. /\ header.operators.total = Cardinality(Present)
      /\ header.operators.Updated = Updated(cv, Versions)
  BY OperatorsSorted
<1>8. header.operators.total > 0 =>
        Rounds(header.completion, Cardinality(header.operators.Updated), header.operators.total)
  <2>1. SUFFICES ASSUME Cardinality(Present) > 0
                 PROVE  Rounds(header.completion, Cardinality(Updated(cv, Versions)),
                               Cardinality(Present))
    BY <1>7
  <2>2. Present # {} /\ Cardinality(Present) \in Nat \ {0}
    BY <1>3, <2>1, FS_EmptySet, FS_CardinalityType
  <2>3. Cardinality(Updated(cv, Versions)) \in 0..Cardinality(Present)
    BY <1>3, UpdatedCounted
  <2>4. header.completion = Percentage(Cardinality(Updated(cv, Versions)), Cardinality(Present))
    BY <1>2, <1>4, <1>5, <2>2
  <2> QED
    BY <2>2, <2>3, <2>4, PercentageGiven
<1>9. /\ header.versions.target = cv.history[1].version
      /\ header.versions.from = IF Len(cv.history) > 1 THEN cv.history[2].version ELSE None
  <2>0. Len(cv.history) \in Nat /\ Len(cv.history) # 0
    BY <1>6
  <2>1. /\ versions.install <=> Len(cv.history) = 1
        /\ versions.target = cv.history[1].version
        /\ versions.previous = IF Len(cv.history) < 2 THEN None ELSE cv.history[2].version
    BY <1>6 DEF VersionsFromHistory
  <2> HIDE DEF versions
  <2>2. CASE versions.install
    <3>1. header.versions = [target |-> versions.target, from |-> None, whole |-> TRUE]
      BY <1>2, <1>4, <2>2 DEF Display!ShownVersions
    <3> QED
      BY <2>1, <2>2, <3>1
  <2>3. CASE ~versions.install
    <3>1. header.versions = [target |-> versions.target, from |-> versions.previous,
                             whole |-> ~versions.partial]
      BY <1>2, <1>4, <2>3 DEF Display!ShownVersions
    <3> QED
      BY <2>0, <2>1, <2>3, <3>1
  <2> QED
    BY <2>2, <2>3
<1> QED
  BY <1>8, <1>9

LEMMA SteadyIsTrue ==
  ASSUME TypeOK, Written, Held
  PROVE  SteadyMeansTrue
<1> SUFFICES ASSUME steady, pc \in {"done", "not updating"}
             PROVE  /\ pc = "done" <=> IsControlPlaneUpdating(cv).status = "True"
                    /\ pc = "done" =>
                         LET ops == header.operators
                             old == Present \ Updated(cv, Versions)
                         IN  /\ ops.Updated = Updated(cv, Versions)
                             /\ ops.Updating = {o \in old : co[o].progressing = "True"}
                             /\ ops.Waiting  = {o \in old : co[o].progressing = "False"}
                             /\ ops.Healthy  = {o \in Present : co[o].available = "True"
                                                                /\ co[o].degraded # "True"}
                             /\ ops.Degraded = {o \in Present : co[o].available = "True"
                                                                /\ co[o].degraded = "True"}
                             /\ Display!UnknownOperators(ops)
                                  = Cardinality({o \in Present : co[o].available = None})
                             /\ ops.total > 0 =>
                                  Rounds(header.completion, Cardinality(ops.Updated),
                                         ops.total)
                             /\ header.versions.target = cv.history[1].version
                             /\ header.versions.from =
                                  IF Len(cv.history) > 1 THEN cv.history[2].version ELSE None
                             /\ Screen.allUpdatedTo # None
                                  <=> Completed("master") = Range(Masters)
                             /\ DOMAIN rows = {"worker"}
  BY DEF SteadyMeansTrue
<1>1. pc = "done" <=> IsControlPlaneUpdating(cv).status = "True"
  <2>1. cvInsight = DueClusterVersion
        /\ (pc = "done" <=> cvInsight.updating.status = "True")
    BY DEF Held, Right
  <2>2. PICK verdict : verdict = IsControlPlaneUpdating(cv)
    OBVIOUS
  <2>3. DueClusterVersion.updating = Condition(verdict.status, verdict.why, 0)
    BY <2>2, DueTypes, DueGiven DEF DueClusterVersion, TypeOK
  <2>4. DueClusterVersion.updating.status = verdict.status
    <3>1. Condition(verdict.status, verdict.why, 0).status = verdict.status
      BY ConditionStatus
    <3> QED
      BY <2>3, <3>1
  <2> QED
    BY <2>1, <2>2, <2>4
<1>2. ASSUME pc = "done" PROVE DOMAIN rows = {"worker"}
  BY <1>2 DEF Held
<1> QED
  BY <1>1, <1>2, OperatorsSorted, UnknownTrue, HeaderTrue, AllUpdatedTrue

\* What the client shows of a cluster that holds still is true of the cluster, for any
\* number of operators, nodes and history entries: through the assessments that write
\* the insights and the display that sorts and counts them.
THEOREM SteadyCorrect == Spec => []SteadyMeansTrue
<1>1. TypeOK /\ Written /\ Held => SteadyMeansTrue
  BY SteadyIsTrue
<1> QED
  BY <1>1, InvariantsHold, PTL
=============================================================================
