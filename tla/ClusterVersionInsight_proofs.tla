---------------------- MODULE ClusterVersionInsight_proofs ----------------------
(***************************************************************************)
(* Proofs about ClusterVersionInsight, for any versions, operators, names  *)
(* of health insights, steps of time and number of changes: the types;     *)
(* that an insight that does not say what it should is always on           *)
(* somebody's list; that the health insights are diffed; that times move   *)
(* only with what they date; and that what is stored makes sense.          *)
(***************************************************************************)
EXTENDS ClusterVersionInsight, FiniteSetTheorems, SequenceTheorems, WellFoundedInduction,
        TLAPS

-----------------------------------------------------------------------------
(* The inductive invariants.                                               *)

\* The cached insight is the stored one unless it lags, and work that nothing has
\* disturbed is about the ClusterVersion that is there.
Followed ==
  /\ ~unseen => copy = insight
  /\ pc # "idle" /\ ~dirty => seen = cv

\* While nothing has happened that the controller will still hear of, it works on the
\* stored insight, and once it has compared that one it says what it should as of then.
Compared ==
  /\ pc = "assess" /\ ~dirty /\ ~unseen => held = insight
  /\ pc \in {"idle", "listHealth", "health"} /\ ~dirty /\ ~unseen =>
       SaysAsOf(looked, TimeFields)

\* A name is taken care of: it is as it should be, or the call about it is still to be
\* made.
Handled(n) ==
  IF n \in Wanted(seen)
  THEN \/ n \in todo.create \cup todo.update
       \/ health[n] # None /\ health[n].filled
  ELSE n \in todo.delete \/ health[n] = None

\* The informer knows the health insights but those it lags on; what it does not know
\* came after the last listing; and a run that has listed takes care of all it listed.
Listing ==
  /\ \A n \in Name \ unseenHealth : n \in listed <=> health[n] # None
  /\ \A n \in Name \ listed : health[n] = None \/ n \in unlisted
  /\ pc = "delete" => seen = None
  /\ pc = "health" => todo.delete \cap Wanted(seen) = {}
  /\ pc = "health" /\ ~failed => \A n \in Name \ unlisted : Handled(n)
  /\ pc = "idle" /\ ~dirty /\ cv # None => \A n \in Name \ unlisted : HealthRight(n)

\* What TimesMoveWithWhatTheyDate says of two statuses.
Keeps(old, new) ==
  /\ old.observed # None /\ old.completion = new.completion => new.observed = old.observed
  /\ old.updating # None /\ old.updating.status = new.updating.status
       => new.updating.since = old.updating.since

\* A worker whose copy is current works on what is stored, and what it is about to
\* write keeps the times of its copy.
Based ==
  /\ ~unseen => copy = insight
  /\ pc \in {"assess", "update"} /\ current => held = insight
  /\ pc = "update" => Keeps(held.status, plan)

\* The history of a ClusterVersion tells of the past: what ended did so after it
\* started, and what was completed has ended.
Dated(version, now) ==
  \A i \in DOMAIN version.history :
    LET entry == version.history[i]
    IN  /\ entry.started <= now
        /\ entry.state = "Completed" => entry.completed # None
        /\ entry.completed # None => entry.started <= entry.completed
                                     /\ entry.completed <= now

Past(time, now) == time # None => time <= now

\* The clock has advanced by the bounded number of bounded steps.
Bounded ==
  /\ changes <= MaxChanges
  /\ \A longest \in Steps :
       (\A step \in Steps : step <= longest) => clock <= 1 + changes * longest

\* What StoredMakesSense says of a status.
Sensible(s) ==
  /\ s.assessment = "Completed" <=> s.completed # None
  /\ s.assessment = "Completed" =>
       s.completion = 100 /\ s.estimated = None /\ s.started <= s.completed
  /\ s.assessment = "Progressing" => s.started < s.estimated + Minute

\* All that is known is known of the past, and what is about to be written makes sense.
Dates ==
  /\ Bounded
  /\ \A version \in {cv, seen} : version # None => Dated(version, clock)
  /\ \A object \in {insight, copy, held} : object # None => Past(object.status.observed, clock)
  /\ pc \in {"create", "update"} => Past(plan.observed, clock) /\ Sensible(plan)

-----------------------------------------------------------------------------
(* The ClusterVersion.                                                     *)

\* The entries that a new update leaves behind.
LEMMA Superseded ==
  ASSUME NEW history \in Seq(Entries), NEW now \in Nat
  PROVE  [i \in DOMAIN history |->
            IF history[i].completed = None THEN [history[i] EXCEPT !.completed = now]
            ELSE history[i]] \in Seq(Entries)
<1> DEFINE ended(i) == IF history[i].completed = None
                       THEN [history[i] EXCEPT !.completed = now] ELSE history[i]
<1>1. DOMAIN history = 1..Len(history) /\ Len(history) \in Nat
  OBVIOUS
<1>2. ASSUME NEW i \in 1..Len(history) PROVE ended(i) \in Entries
  <2>1. history[i] \in Entries
    OBVIOUS
  <2> QED
    BY <2>1 DEF Entries, Time
<1> HIDE DEF ended
<1>3. [i \in 1..Len(history) |-> ended(i)] \in Seq(Entries)
  BY <1>1, <1>2
<1> QED
  BY <1>1, <1>3 DEF ended

\* An update that starts has the newest entry, and has ended all that came before it.
LEMMA StartGives ==
  ASSUME NEW old \in ClusterVersions, NEW version \in Version, NEW now \in Nat
  PROVE  LET new == StartUpdate(old, version, now)
         IN  /\ new \in ClusterVersions
             /\ Len(new.history) = Len(old.history) + 1
             /\ new.history[1] = Entry(version, "Partial", now, None)
             /\ \A i \in 2..Len(new.history) :
                  new.history[i] = IF old.history[i - 1].completed = None
                                   THEN [old.history[i - 1] EXCEPT !.completed = now]
                                   ELSE old.history[i - 1]
<1> DEFINE rest == [i \in DOMAIN old.history |->
                      IF old.history[i].completed = None
                      THEN [old.history[i] EXCEPT !.completed = now] ELSE old.history[i]]
           head == <<Entry(version, "Partial", now, None)>>
           new  == StartUpdate(old, version, now)
<1>1. old.history \in Seq(Entries)
  BY DEF ClusterVersions
<1>2. rest \in Seq(Entries)
  BY <1>1, Superseded
<1>3. Len(rest) = Len(old.history) /\ Len(old.history) \in Nat
      /\ \A i \in 1..Len(old.history) :
           rest[i] = IF old.history[i].completed = None
                     THEN [old.history[i] EXCEPT !.completed = now] ELSE old.history[i]
  <2>1. DOMAIN old.history = 1..Len(old.history) /\ Len(old.history) \in Nat
    BY <1>1
  <2>2. DOMAIN rest = 1..Len(old.history)
    BY <2>1
  <2>3. \A i \in 1..Len(old.history) :
          rest[i] = IF old.history[i].completed = None
                    THEN [old.history[i] EXCEPT !.completed = now] ELSE old.history[i]
    BY <2>1
  <2> HIDE DEF rest
  <2>4. DOMAIN rest = 1..Len(rest) /\ Len(rest) \in Nat
    BY <1>2
  <2>5. Len(rest) = Len(old.history)
    BY <2>1, <2>2, <2>4
  <2> QED
    BY <2>1, <2>3, <2>5
<1>4. head \in Seq(Entries) /\ Len(head) = 1 /\ head[1] = Entry(version, "Partial", now, None)
  <2>1. Entry(version, "Partial", now, None) \in Entries
    BY DEF Entry, Entries, Time
  <2> QED
    BY <2>1
<1>5. new = [old EXCEPT !.progressing = "True", !.desired = version, !.history = head \o rest]
  BY DEF StartUpdate
<1> HIDE DEF rest, head, new
<1>6. /\ head \o rest \in Seq(Entries)
      /\ Len(head \o rest) = Len(head) + Len(rest)
      /\ \A i \in 1..(Len(head) + Len(rest)) :
           (head \o rest)[i] = IF i <= Len(head) THEN head[i] ELSE rest[i - Len(head)]
  BY <1>2, <1>4, ConcatProperties
<1>7. new \in ClusterVersions /\ new.history = head \o rest
  BY <1>5, <1>6 DEF ClusterVersions, Progressing
<1>8. Len(new.history) = Len(old.history) + 1
  BY <1>3, <1>4, <1>6, <1>7
<1>9. new.history[1] = Entry(version, "Partial", now, None)
  BY <1>3, <1>4, <1>6, <1>7
<1>10. ASSUME NEW i \in 2..Len(new.history)
       PROVE  new.history[i] = IF old.history[i - 1].completed = None
                               THEN [old.history[i - 1] EXCEPT !.completed = now]
                               ELSE old.history[i - 1]
  <2>1. i \in 1..(Len(head) + Len(rest)) /\ i - 1 \in 1..Len(old.history) /\ ~(i <= 1)
    BY <1>3, <1>4, <1>8
  <2>2. new.history[i] = rest[i - 1]
    BY <1>4, <1>6, <1>7, <2>1
  <2> QED
    BY <1>3, <2>1, <2>2
<1> QED
  BY <1>7, <1>8, <1>9, <1>10 DEF new

\* What the cluster version operator makes of the ClusterVersion is one, and its
\* history still tells of the past.
LEMMA SuccessorsGive ==
  ASSUME clock \in Nat, NEW old \in ClusterVersions \cup {None},
         NEW new \in Successors(old, Version, clock)
  PROVE  /\ new \in ClusterVersions \cup {None}
         /\ new # None /\ (old # None => Dated(old, clock)) => Dated(new, clock)
<1>1. CASE old = None
  <2>1. new = Fresh
    BY <1>1 DEF Successors
  <2>2. Fresh \in ClusterVersions
    BY DEF Fresh, ClusterVersions, Progressing
  <2>3. Dated(Fresh, clock)
    BY DEF Fresh, Dated
  <2> QED
    BY <2>1, <2>2, <2>3
<1>2. CASE old # None
  <2>0. old \in ClusterVersions /\ old.history \in Seq(Entries)
    BY <1>2 DEF ClusterVersions
  <2>1. CASE new = None
    BY <2>1
  <2>2. ASSUME NEW version \in Version, new = StartUpdate(old, version, clock)
        PROVE  /\ new \in ClusterVersions
               /\ Dated(old, clock) => Dated(new, clock)
    <3>1. /\ new \in ClusterVersions
          /\ Len(new.history) = Len(old.history) + 1
          /\ new.history[1] = Entry(version, "Partial", clock, None)
          /\ \A i \in 2..Len(new.history) :
               new.history[i] = IF old.history[i - 1].completed = None
                                THEN [old.history[i - 1] EXCEPT !.completed = clock]
                                ELSE old.history[i - 1]
      BY <2>0, <2>2, StartGives
    <3>2. ASSUME Dated(old, clock), NEW i \in DOMAIN new.history
          PROVE  /\ new.history[i].started <= clock
                 /\ new.history[i].state = "Completed" => new.history[i].completed # None
                 /\ new.history[i].completed # None =>
                      new.history[i].started <= new.history[i].completed
                      /\ new.history[i].completed <= clock
      <4>1. new.history \in Seq(Entries)
        BY <3>1 DEF ClusterVersions
      <4>2. i \in 1..Len(new.history) /\ Len(old.history) \in Nat
        BY <2>0, <4>1
      <4>3. CASE i = 1
        BY <3>1, <4>3 DEF Entry
      <4>4. CASE i # 1
        <5>1. i \in 2..Len(new.history) /\ i - 1 \in 1..Len(old.history)
          BY <3>1, <4>2, <4>4
        <5>2. i - 1 \in DOMAIN old.history /\ old.history[i - 1] \in Entries
          BY <2>0, <5>1
        <5> DEFINE e == old.history[i - 1]
        <5>3. /\ e.started <= clock
              /\ e.state = "Completed" => e.completed # None
              /\ e.completed # None => e.started <= e.completed /\ e.completed <= clock
          BY <3>2, <5>2 DEF Dated
        <5>4. new.history[i] = IF e.completed = None THEN [e EXCEPT !.completed = clock]
                               ELSE e
          BY <3>1, <5>1
        <5>5. e \in Entries
          BY <5>2
        <5> HIDE DEF e
        <5> QED
          BY <5>3, <5>4, <5>5, InsightAssumption DEF Entries
      <4> QED
        BY <4>3, <4>4
    <3> QED
      BY <3>1, <3>2 DEF Dated
  <2>3. ASSUME old.history # <<>>, old.history[1].completed = None,
               new = FinishUpdate(old, clock)
        PROVE  /\ new \in ClusterVersions
               /\ Dated(old, clock) => Dated(new, clock)
    <3> DEFINE first == [old.history[1] EXCEPT !.state = "Completed", !.completed = clock]
    <3>1. 1 \in 1..Len(old.history) /\ old.history[1] \in Entries
          /\ DOMAIN old.history = 1..Len(old.history)
      BY <2>0, <2>3
    <3>2. first \in Entries /\ first.started = old.history[1].started
          /\ first.completed = clock
      BY <3>1 DEF Entries, Time
    <3>3. new = [old EXCEPT !.progressing = "False",
                            !.history = [old.history EXCEPT ![1] = first]]
      BY <2>0, <2>3, <3>1 DEF FinishUpdate, ClusterVersions, Entries
    <3> HIDE DEF first
    <3>4. /\ [old.history EXCEPT ![1] = first] \in Seq(Entries)
          /\ DOMAIN [old.history EXCEPT ![1] = first] = DOMAIN old.history
      BY <2>0, <3>1, <3>2
    <3>5. new \in ClusterVersions /\ new.history = [old.history EXCEPT ![1] = first]
      BY <2>0, <3>3, <3>4 DEF ClusterVersions, Progressing
    <3>6. ASSUME Dated(old, clock) PROVE Dated(new, clock)
      <4>1. \A i \in DOMAIN new.history :
              new.history[i] = IF i = 1 THEN first ELSE old.history[i]
        BY <2>0, <3>1, <3>4, <3>5
      <4>2. old.history[1].started <= clock
        BY <3>1, <3>6 DEF Dated
      <4>3. first.started <= clock /\ first.completed # None
            /\ first.started <= first.completed /\ first.completed <= clock
        BY <3>2, <4>2, InsightAssumption DEF Entries
      <4> QED
        BY <3>4, <3>5, <3>6, <4>1, <4>3 DEF Dated
    <3> QED
      BY <3>5, <3>6
  <2>4. ASSUME new = [old EXCEPT !.forced = ~old.forced]
        PROVE  /\ new \in ClusterVersions
               /\ Dated(old, clock) => Dated(new, clock)
    <3>1. PICK f \in BOOLEAN : new = [old EXCEPT !.forced = f]
      BY <2>4
    <3> QED
      BY <2>0, <3>1 DEF ClusterVersions, Dated
  <2>5. ASSUME NEW p \in Progressing, new = [old EXCEPT !.progressing = p]
        PROVE  /\ new \in ClusterVersions
               /\ Dated(old, clock) => Dated(new, clock)
    BY <2>0, <2>5 DEF ClusterVersions, Dated
  <2>6. \/ new = None
        \/ \E version \in Version : new = StartUpdate(old, version, clock)
        \/ old.history # <<>> /\ old.history[1].completed = None
           /\ new = FinishUpdate(old, clock)
        \/ new = [old EXCEPT !.forced = ~old.forced]
        \/ \E p \in Progressing : new = [old EXCEPT !.progressing = p]
    BY <1>2 DEF Successors
  <2> QED
    BY <1>2, <2>1, <2>2, <2>3, <2>4, <2>5, <2>6
<1> QED
  BY <1>1, <1>2

-----------------------------------------------------------------------------
(* The parts of an assessment.                                             *)

\* It is told whether the control plane is updating only where the newest entry of the
\* history agrees: an update under way has not ended, one that is over has.
LEMMA VerdictGiven ==
  ASSUME NEW version \in ClusterVersions
  PROVE  LET verdict == IsControlPlaneUpdating(version)
         IN  /\ verdict.status \in {"True", "False", "Unknown"}
             /\ verdict.why \in Whys
             /\ verdict.started \in Time /\ verdict.completed \in Time
             /\ verdict.status = "False" <=> verdict.completed # None
             /\ verdict.status # "Unknown" =>
                  /\ version.history # <<>>
                  /\ verdict.started = version.history[1].started
                  /\ verdict.completed = version.history[1].completed
<1> DEFINE last    == version.history[1]
           verdict == IsControlPlaneUpdating(version)
<1>1. /\ version.progressing \in Progressing /\ version.history \in Seq(Entries)
      /\ None \notin Whys \cup {"True", "False", "Unknown"}
  BY InsightAssumption DEF ClusterVersions
<1>2. \/ WhyUndetermined(version) \in Whys
      \/ /\ WhyUndetermined(version) = None
         /\ version.history # <<>>
         /\ \/ version.progressing = "True" /\ last.completed = None
            \/ version.progressing = "False" /\ last.completed # None
  <2>1. CASE version.progressing = None
    BY <2>1 DEF WhyUndetermined, Whys
  <2>2. CASE version.progressing # None /\ version.history = <<>>
    BY <2>2 DEF WhyUndetermined, Whys
  <2>3. CASE version.progressing # None /\ version.history # <<>>
    <3>1. last \in Entries
      BY <1>1, <2>3
    <3>2. WhyUndetermined(version) =
            CASE version.progressing = "True" /\ last.state # "Partial" -> "not partial"
              [] version.progressing = "True" /\ last.state = "Partial" ->
                   IF last.completed = None THEN None ELSE "partial but completed"
              [] version.progressing = "False" /\ last.state # "Completed" -> "not completed"
              [] version.progressing = "False" /\ last.state = "Completed" ->
                   IF last.completed # None THEN None ELSE "completed but no time"
              [] version.progressing = "Unknown" -> "Progressing is Unknown"
      BY <2>3 DEF WhyUndetermined, Whys
    <3> HIDE DEF last
    <3>3. CASE version.progressing = "True"
      BY <1>1, <2>3, <3>1, <3>2, <3>3 DEF Entries, Whys
    <3>4. CASE version.progressing = "False"
      BY <1>1, <2>3, <3>1, <3>2, <3>4 DEF Entries, Whys
    <3>5. CASE version.progressing = "Unknown"
      BY <1>1, <3>2, <3>5 DEF Whys
    <3> QED
      BY <1>1, <2>3, <3>3, <3>4, <3>5 DEF Progressing
  <2> QED
    BY <2>1, <2>2, <2>3
<1>3. CASE WhyUndetermined(version) # None
  <2>1. verdict = [status |-> "Unknown", why |-> WhyUndetermined(version),
                   started |-> None, completed |-> None]
    BY <1>3 DEF IsControlPlaneUpdating
  <2> QED
    BY <1>2, <1>3, <2>1 DEF Time
<1>4. CASE WhyUndetermined(version) = None
  <2>1. verdict = [status |-> version.progressing, why |-> "as reported",
                   started |-> last.started, completed |-> last.completed]
    BY <1>4 DEF IsControlPlaneUpdating
  <2>2. /\ version.history # <<>>
        /\ \/ version.progressing = "True" /\ last.completed = None
           \/ version.progressing = "False" /\ last.completed # None
    BY <1>1, <1>2, <1>4
  <2>3. last \in Entries
    BY <1>1, <2>2
  <2> QED
    <3> HIDE DEF verdict, last
    <3>1. /\ verdict.why \in Whys
          /\ verdict.started \in Time /\ verdict.completed \in Time
      BY <2>1, <2>3 DEF Entries, Time, Whys
    <3>2. verdict.status = version.progressing /\ verdict.completed = last.completed
          /\ verdict.started = last.started
      BY <2>1
    <3>3. verdict.started = version.history[1].started
          /\ verdict.completed = version.history[1].completed
      BY <3>2 DEF last
    <3> QED
      BY <2>2, <3>1, <3>2, <3>3 DEF verdict
<1> QED
  BY <1>3, <1>4

\* The versions of a history are versions.
LEMMA VersionsGiven ==
  ASSUME NEW history \in Seq(Entries)
  PROVE  VersionsFromHistory(history) \in
           [target : Version \cup {None}, install : BOOLEAN,
            previous : Version \cup {None}, partial : BOOLEAN]
<1> DEFINE target   == IF history = <<>> THEN None ELSE history[1].version
           previous == IF Len(history) < 2 THEN None ELSE history[2].version
<1>1. Len(history) \in Nat
  OBVIOUS
<1>2. target \in Version \cup {None}
  <2>1. CASE history = <<>>
    BY <2>1
  <2>2. CASE history # <<>>
    <3>1. history[1] \in Entries
      BY <2>2
    <3> QED
      BY <2>2, <3>1 DEF Entries
  <2> QED
    BY <2>1, <2>2
<1>3. previous \in Version \cup {None}
  <2>1. CASE Len(history) < 2
    BY <2>1
  <2>2. CASE ~(Len(history) < 2)
    <3>1. history[2] \in Entries
      BY <1>1, <2>2
    <3> QED
      BY <2>2, <3>1 DEF Entries
  <2> QED
    BY <2>1, <2>2
<1>4. PICK install \in BOOLEAN, partial \in BOOLEAN :
        /\ install <=> Len(history) = 1
        /\ partial <=> (Len(history) > 1 /\ history[2].state = "Partial")
  <2>1. \E install \in BOOLEAN : install <=> Len(history) = 1
    OBVIOUS
  <2>2. \E partial \in BOOLEAN : partial <=> (Len(history) > 1 /\ history[2].state = "Partial")
    OBVIOUS
  <2> QED
    BY <2>1, <2>2
<1> HIDE DEF target, previous
<1>5. VersionsFromHistory(history) =
        [target |-> target, install |-> install, previous |-> previous, partial |-> partial]
  BY <1>4 DEF VersionsFromHistory, target, previous
<1> QED
  BY <1>2, <1>3, <1>4, <1>5

\* Operators that are updated are some of those that exist.
LEMMA UpdatedCounted ==
  ASSUME NEW version, NEW versions, DOMAIN versions \subseteq Operator
  PROVE  /\ Cardinality(DOMAIN versions) \in 0..Cardinality(Operator)
         /\ Cardinality(Updated(version, versions)) \in 0..Cardinality(DOMAIN versions)
         /\ DOMAIN versions # {} => Cardinality(DOMAIN versions) > 0
<1>1. IsFiniteSet(Operator) /\ DOMAIN versions \in SUBSET Operator
  BY InsightAssumption
<1>2. IsFiniteSet(DOMAIN versions) /\ Cardinality(DOMAIN versions) <= Cardinality(Operator)
  BY <1>1, FS_Subset
<1>3. Updated(version, versions) \in SUBSET DOMAIN versions
  BY DEF Updated
<1>4. /\ IsFiniteSet(Updated(version, versions))
      /\ Cardinality(Updated(version, versions)) <= Cardinality(DOMAIN versions)
  BY <1>2, <1>3, FS_Subset
<1>5. /\ Cardinality(Operator) \in Nat /\ Cardinality(DOMAIN versions) \in Nat
      /\ Cardinality(Updated(version, versions)) \in Nat
  BY <1>1, <1>2, <1>4, FS_CardinalityType
<1>6. DOMAIN versions # {} => Cardinality(DOMAIN versions) # 0
  BY <1>2, FS_EmptySet
<1> QED
  BY <1>2, <1>4, <1>5, <1>6

\* The percentage of a part is one, also where it falls short.
LEMMA PercentageGiven ==
  ASSUME NEW total \in Nat \ {0}, NEW part \in 0..total
  PROVE  Percentage(part, total) \in 0..100
<1> DEFINE exact == (100 * part) \div total
<1>1. exact \in 0..100
  BY SMT
<1>2. Percentage(part, total) =
        IF exact \in {29, 57, 58} /\ (100 * part) % total = 0 THEN exact - 1 ELSE exact
  BY DEF Percentage, FallsShort
<1> HIDE DEF exact
<1> QED
  BY <1>1, <1>2

\* A completion is a percentage.
LEMMA CompletionGiven ==
  ASSUME NEW version, NEW versions, DOMAIN versions \subseteq Operator, NEW assessment
  PROVE  /\ Completion(version, versions, assessment) \in 0..100
         /\ assessment = "Completed" => Completion(version, versions, assessment) = 100
<1>1. CASE assessment = "Completed" \/ DOMAIN versions = {}
  BY <1>1 DEF Completion
<1>2. CASE ~(assessment = "Completed" \/ DOMAIN versions = {})
  <2>1. Completion(version, versions, assessment) =
          Percentage(Cardinality(Updated(version, versions)), Cardinality(DOMAIN versions))
    BY <1>2 DEF Completion
  <2>2. /\ Cardinality(DOMAIN versions) \in Nat \ {0}
        /\ Cardinality(Updated(version, versions)) \in 0..Cardinality(DOMAIN versions)
    <3> DEFINE total == Cardinality(DOMAIN versions)
    <3>1. /\ total \in 0..Cardinality(Operator)
          /\ Cardinality(Updated(version, versions)) \in 0..total
          /\ DOMAIN versions # {} => total > 0
      BY UpdatedCounted
    <3>0. Cardinality(Operator) \in Nat
      BY InsightAssumption, FS_CardinalityType
    <3> HIDE DEF total
    <3>2. total \in Nat /\ total > 0
      <4>1. DOMAIN versions # {}
        BY <1>2
      <4>2. total \in 0..Cardinality(Operator)
        BY <3>1
      <4> QED
        BY <3>0, <3>1, <4>1, <4>2
    <3> QED
      BY <3>1, <3>2 DEF total
  <2> QED
    BY <1>2, <2>1, <2>2, PercentageGiven
<1> QED
  BY <1>1, <1>2

\* A set of natural numbers that is not empty has a least element.
LEMMA LeastExists ==
  ASSUME NEW S \in SUBSET Nat, S # {}
  PROVE  Min(S) \in S
<1>1. \E x \in S : \A y \in S : ~(<<y, x>> \in OpToRel(<, Nat))
  BY NatLessThanWellFounded, WFMin
<1>2. \E x \in S : \A y \in S : x <= y
  <2>1. PICK x \in S : \A y \in S : ~(<<y, x>> \in OpToRel(<, Nat))
    BY <1>1
  <2>2. ASSUME NEW y \in S PROVE x <= y
    <3>1. y \in Nat /\ x \in Nat
      BY <2>2
    <3>2. ~(y < x)
      BY <2>1, <2>2, <3>1 DEF OpToRel
    <3> QED
      BY <3>1, <3>2
  <2> QED
    BY <2>2
<1> QED
  BY <1>2 DEF Min

\* The baseline is the time that an earlier update took, or an hour.
LEMMA BaselineGiven ==
  ASSUME NEW version \in ClusterVersions, Dated(version, clock), clock \in Nat
  PROVE  /\ BaselineDuration(version.history) \in Nat
         /\ \/ BaselineDuration(version.history) <= clock
            \/ BaselineDuration(version.history) <= 60 * Minute
<1> DEFINE history   == version.history
           completed == {i \in 2..(Len(history) - 1) : history[i].state = "Completed"}
           newest    == Min(completed)
<1>1. history \in Seq(Entries) /\ Len(history) \in Nat /\ DOMAIN history = 1..Len(history)
  BY DEF ClusterVersions
<1>2. CASE completed = {}
  BY <1>2, AssessmentAssumption DEF BaselineDuration
<1>3. CASE completed # {}
  <2>1. completed \in SUBSET Nat
    BY <1>1
  <2>2. newest \in completed
    BY <1>3, <2>1, LeastExists
  <2>3. newest \in 1..Len(history) /\ history[newest].state = "Completed"
    BY <1>1, <2>2
  <2>4. BaselineDuration(history) = history[newest].completed - history[newest].started
    BY <1>3 DEF BaselineDuration
  <2> HIDE DEF newest, completed
  <2> DEFINE entry == history[newest]
  <2>5. /\ entry \in Entries
        /\ entry.completed # None
        /\ entry.started <= entry.completed /\ entry.completed <= clock
    BY <1>1, <2>3 DEF Dated
  <2>6. entry.started \in Nat /\ entry.completed \in Nat
    BY <2>5 DEF Entries, Time
  <2>7. BaselineDuration(history) = entry.completed - entry.started
    BY <2>4
  <2> HIDE DEF entry, history
  <2>8. BaselineDuration(history) \in Nat /\ BaselineDuration(history) <= clock
    BY <2>5, <2>6, <2>7
  <2> QED
    BY <2>8 DEF history
<1> QED
  BY <1>2, <1>3

\* What remains is overestimated; what is overdue is not made more of.
LEMMA OverestimateGiven ==
  ASSUME NEW d \in Int
  PROVE  /\ Overestimate(d) \in Int
         /\ Overestimate(d) >= d
         /\ d < 0 => Overestimate(d) <= 0
         /\ d >= 0 => 5 * Overestimate(d) <= 6 * d
BY SMT DEF Overestimate

\* Durations that can be represented do not wrap.
LEMMA WrapGiven ==
  ASSUME NEW d \in Int
  PROVE  /\ Wrap(d) \in Int
         /\ -MaxDuration <= d /\ d < MaxDuration => Wrap(d) = d
<1>1. MaxDuration \in Nat /\ MaxDuration > 0
  BY AssessmentAssumption
<1>2. ASSUME NEW x \in Int, NEW m \in Nat, m > 0
      PROVE  /\ x % m \in Int
             /\ 0 <= x /\ x < m => x % m = x
  BY <1>2, SMT
<1>3. (d + MaxDuration) % (2 * MaxDuration) \in Int
  BY <1>1, <1>2
<1>4. ASSUME -MaxDuration <= d, d < MaxDuration
      PROVE  (d + MaxDuration) % (2 * MaxDuration) = d + MaxDuration
  BY <1>1, <1>2, <1>4
<1> QED
  BY <1>1, <1>3, <1>4 DEF Wrap

\* Rounding to the minute loses less than a minute.
LEMMA RoundedGiven ==
  ASSUME NEW d \in Int
  PROVE  /\ Rounded(d) \in Int
         /\ d < Rounded(d) + Minute
<1>1. Minute \in Nat /\ Minute > 0
  BY AssessmentAssumption
<1>2. ASSUME NEW x \in Int
      PROVE  /\ (x \div Minute) * Minute \in Int
             /\ x < (x \div Minute) * Minute + Minute
  BY <1>1, SMT
<1>3. Minute \div 2 \in Nat
  BY <1>1
<1>4. CASE d > 10 * Minute
  <2> DEFINE x == d + Minute \div 2
  <2>1. x \in Int /\ d <= x
    BY <1>3
  <2>2. Rounded(d) = (x \div Minute) * Minute
    BY <1>4 DEF Rounded
  <2> HIDE DEF x
  <2>3. (x \div Minute) * Minute \in Int /\ x < (x \div Minute) * Minute + Minute
    BY <1>2, <2>1
  <2> QED
    BY <1>1, <2>1, <2>2, <2>3
<1>5. CASE ~(d > 10 * Minute)
  BY <1>1, <1>5 DEF Rounded
<1> QED
  BY <1>4, <1>5

\* The time an update is expected to take is that of an earlier one, or what follows
\* from the share of it that has passed.
LEMMA ExpectedGiven ==
  ASSUME NEW passed \in Int, NEW baseline \in Nat, NEW progress \in Int, NEW b
  PROVE  LET expected == IF b /\ passed > 0 /\ progress > 5 * Minute
                         THEN (progress * 100) \div passed ELSE baseline
         IN  expected \in Nat /\ (expected = baseline \/ expected <= 100 * progress)
<1>1. Minute \in Nat
  BY AssessmentAssumption
<1>2. ASSUME NEW x \in Nat, NEW m \in Nat, m > 0
      PROVE  x \div m \in Nat /\ x \div m <= x
  BY <1>2, SMT
<1>3. CASE b /\ passed > 0 /\ progress > 5 * Minute
  <2>1. progress * 100 \in Nat /\ passed \in Nat /\ passed > 0
    BY <1>1, <1>3
  <2>2. (progress * 100) \div passed \in Nat
        /\ (progress * 100) \div passed <= progress * 100
    BY <1>2, <2>1
  <2> QED
    BY <1>3, <2>2
<1>4. CASE ~(b /\ passed > 0 /\ progress > 5 * Minute)
  BY <1>4
<1> QED
  BY <1>3, <1>4

\* An estimate is a number; it does not lie before the start of the update by a minute
\* or more, as long as the clock stays far from where durations wrap.
LEMMA EstimateGiven ==
  ASSUME NEW total \in 0..Cardinality(Operator), NEW updated \in 0..total,
         NEW baseline \in Nat, NEW progress \in Int, NEW elapsed \in Int
  PROVE  /\ EstimateCompletion(baseline, progress, elapsed, updated, total) \in Int
         /\ \A now \in Nat :
              /\ 0 <= elapsed /\ elapsed <= now /\ progress <= now
              /\ baseline <= now \/ baseline <= 60 * Minute
              /\ MaxDuration > 72 * Minute /\ MaxDuration > 120 * now
              => -elapsed < EstimateCompletion(baseline, progress, elapsed, updated, total)
                              + Minute
<1> DEFINE passed   == Timewise(updated, total)
           expected == IF updated > 0 /\ passed > 0 /\ progress > 5 * Minute
                       THEN (progress * 100) \div passed ELSE baseline
           estimate == EstimateCompletion(baseline, progress, elapsed, updated, total)
<1>1. /\ Minute \in Nat /\ Minute > 0 /\ MaxDuration \in Nat
      /\ Cardinality(Operator) \in Nat
  BY AssessmentAssumption, InsightAssumption, FS_CardinalityType
<1>2. updated \in 0..Cardinality(Operator)
  BY <1>1
<1>3. passed \in Int
  BY <1>2, InsightAssumption
<1>4. expected \in Nat /\ (expected = baseline \/ expected <= 100 * progress)
  <2> HIDE DEF passed
  <2> QED
    BY <1>3, ExpectedGiven
<1>5. estimate = IF total > 0 /\ updated = total THEN 0
                 ELSE Rounded(Wrap(Overestimate(expected - elapsed)))
  BY DEF EstimateCompletion
<1> HIDE DEF passed, expected, estimate
<1> DEFINE over == Overestimate(expected - elapsed)
<1>6. /\ over \in Int /\ over >= expected - elapsed
      /\ expected - elapsed < 0 => over <= 0
      /\ expected - elapsed >= 0 => 5 * over <= 6 * (expected - elapsed)
  <2>1. expected - elapsed \in Int
    BY <1>4
  <2> QED
    BY <2>1, OverestimateGiven
<1> HIDE DEF over
<1>7. /\ Wrap(over) \in Int
      /\ -MaxDuration <= over /\ over < MaxDuration => Wrap(over) = over
  BY <1>6, WrapGiven
<1>8. /\ Rounded(Wrap(over)) \in Int
      /\ Wrap(over) < Rounded(Wrap(over)) + Minute
  BY <1>7, RoundedGiven
<1>9. estimate \in Int
  BY <1>5, <1>8 DEF over
<1>10. ASSUME NEW now \in Nat,
              0 <= elapsed, elapsed <= now, progress <= now,
              baseline <= now \/ baseline <= 60 * Minute,
              MaxDuration > 72 * Minute, MaxDuration > 120 * now
       PROVE  -elapsed < estimate + Minute
  <2>1. CASE total > 0 /\ updated = total
    BY <1>1, <1>5, <1>10, <2>1
  <2>2. CASE ~(total > 0 /\ updated = total)
    <3>1. estimate = Rounded(Wrap(over))
      BY <1>5, <2>2 DEF over
    <3>2. expected <= 100 * now \/ expected <= 60 * Minute
      BY <1>1, <1>4, <1>10
    <3>3. -MaxDuration <= over /\ over < MaxDuration
      BY <1>1, <1>4, <1>6, <1>10, <3>2
    <3>4. Wrap(over) = over
      BY <1>7, <3>3
    <3> QED
      BY <1>1, <1>4, <1>6, <1>8, <1>10, <3>1, <3>4
  <2> QED
    BY <2>1, <2>2
<1> QED
  BY <1>9, <1>10 DEF estimate

-----------------------------------------------------------------------------
(* An assessment.                                                          *)

LEMMA NoneIsApart ==
  None \notin Nat /\ None \notin Verdicts /\ None \notin Insights
  /\ None \notin HealthInsights
BY InsightAssumption

LEMMA EmptyIsStatus == EmptyStatus \in Statuses
<1> DEFINE history  == <<>>
           versions == VersionsFromHistory(history)
<1>0. history \in Seq(Entries)
  OBVIOUS
<1> HIDE DEF history
<1>1. versions \in [target : Version \cup {None}, install : BOOLEAN,
                   previous : Version \cup {None}, partial : BOOLEAN]
  BY <1>0, VersionsGiven
<1>2. EmptyStatus =
        [assessment |-> "", completion |-> 0, versions |-> versions,
         started |-> None, completed |-> None, observed |-> None, estimated |-> None,
         updating |-> None]
  BY DEF EmptyStatus, history
<1> HIDE DEF versions
<1>3. ASSUME NEW time, time = None, NEW completion \in 0..100
      PROVE  [assessment |-> "", completion |-> completion, versions |-> versions,
              started |-> time, completed |-> time, observed |-> time,
              estimated |-> time, updating |-> time] \in Statuses
  BY <1>1, <1>3 DEF Statuses, Time
<1>4. 0 \in 0..100
  OBVIOUS
<1>5. [assessment |-> "", completion |-> 0, versions |-> versions,
       started |-> None, completed |-> None, observed |-> None, estimated |-> None,
       updating |-> None] \in Statuses
  BY <1>3, <1>4, Zenon
<1> QED
  BY <1>2, <1>5

\* A condition that is set is as the new one but for its time, which is the old one's
\* when the status stays.
LEMMA SetType ==
  ASSUME NEW old \in Verdicts \cup {None}, NEW new \in Verdicts
  PROVE  /\ SetStatusCondition(old, new) \in Verdicts
         /\ [SetStatusCondition(old, new) EXCEPT !.since = None]
              = [status |-> new.status, why |-> new.why, since |-> None]
         /\ old # None /\ old.status = SetStatusCondition(old, new).status
              => SetStatusCondition(old, new).since = old.since
BY InsightAssumption DEF SetStatusCondition, Verdicts

\* An assessment is a status, and not that of a new insight.  It keeps the times that
\* it has no reason to move, it knows of the past only, and it makes sense.
LEMMA AssessmentGives ==
  ASSUME NEW version \in ClusterVersions, NEW previous \in Statuses, NEW versions,
         DOMAIN versions \subseteq Operator, clock \in Nat, Dated(version, clock)
  PROVE  LET new == AssessClusterVersion(version, previous, versions, clock)
         IN  /\ new \in Statuses /\ new # EmptyStatus
             /\ Keeps(previous, new)
             /\ Past(previous.observed, clock) => Past(new.observed, clock)
             /\ Past(previous.observed, clock) /\ MaxDuration > 72 * Minute
                /\ MaxDuration > 120 * clock => Sensible(new)
<1> DEFINE verdict    == IsControlPlaneUpdating(version)
           assessment == CASE verdict.status = "True"    -> "Progressing"
                           [] verdict.status = "False"   -> "Completed"
                           [] verdict.status = "Unknown" -> "Unknown"
           completion == Completion(version, versions, assessment)
           observed   == IF completion # previous.completion \/ previous.observed = None
                         THEN clock ELSE previous.observed
           baseline   == BaselineDuration(version.history)
           progress   == Since(observed, verdict.started)
           elapsed    == Since(clock, verdict.started)
           updated    == Cardinality(Updated(version, versions))
           total      == Cardinality(DOMAIN versions)
           estimate   == EstimateCompletion(baseline, progress, elapsed, updated, total)
           estimated  == IF assessment = "Completed" THEN None ELSE clock + estimate
           condition  == Condition(verdict.status, verdict.why, clock)
           updating   == SetStatusCondition(previous.updating, condition)
           from       == VersionsFromHistory(version.history)
           new        == AssessClusterVersion(version, previous, versions, clock)
<1>1. new = [assessment |-> assessment, completion |-> completion, versions |-> from,
             started |-> verdict.started, completed |-> verdict.completed,
             observed |-> observed, estimated |-> estimated, updating |-> updating]
  BY DEF AssessClusterVersion
<1>2. /\ verdict.status \in {"True", "False", "Unknown"}
      /\ verdict.why \in Whys
      /\ verdict.started \in Time /\ verdict.completed \in Time
      /\ verdict.status = "False" <=> verdict.completed # None
      /\ verdict.status # "Unknown" =>
           /\ version.history # <<>>
           /\ verdict.started = version.history[1].started
           /\ verdict.completed = version.history[1].completed
  BY VerdictGiven
<1> HIDE DEF verdict
<1>3. /\ assessment \in {"Progressing", "Completed", "Unknown"}
      /\ assessment = "Progressing" <=> verdict.status = "True"
      /\ assessment = "Completed" <=> verdict.status = "False"
  BY <1>2
<1> HIDE DEF assessment
<1>4. completion \in 0..100 /\ (assessment = "Completed" => completion = 100)
  BY CompletionGiven
<1> HIDE DEF completion
<1>5. /\ observed \in Nat
      /\ previous.observed # None /\ previous.completion = completion
           => observed = previous.observed
      /\ Past(previous.observed, clock) => observed <= clock
  <2>1. previous.observed \in Nat \cup {None} /\ None \notin Nat
    BY NoneIsApart DEF Statuses, Time
  <2>2. CASE completion # previous.completion \/ previous.observed = None
    <3>1. observed = clock
      BY <2>2
    <3> HIDE DEF observed
    <3> QED
      BY <2>1, <2>2, <3>1
  <2>3. CASE ~(completion # previous.completion \/ previous.observed = None)
    <3>1. observed = previous.observed
      BY <2>3
    <3> HIDE DEF observed
    <3> QED
      BY <2>1, <2>3, <3>1 DEF Past
  <2> QED
    BY <2>2, <2>3
<1> HIDE DEF observed
<1>6. baseline \in Nat /\ (baseline <= clock \/ baseline <= 60 * Minute)
  BY BaselineGiven
<1> HIDE DEF baseline
<1>7. /\ progress \in Int /\ elapsed \in Int
      /\ verdict.started # None =>
           progress = observed - verdict.started /\ elapsed = clock - verdict.started
  BY <1>2, <1>5, AssessmentAssumption DEF Since, Time
<1> HIDE DEF progress, elapsed
<1>8. total \in 0..Cardinality(Operator) /\ updated \in 0..total
  BY UpdatedCounted
<1> HIDE DEF total, updated
<1>9. /\ estimate \in Int
      /\ \A now \in Nat :
           /\ 0 <= elapsed /\ elapsed <= now /\ progress <= now
           /\ baseline <= now \/ baseline <= 60 * Minute
           /\ MaxDuration > 72 * Minute /\ MaxDuration > 120 * now
           => -elapsed < estimate + Minute
  BY <1>6, <1>7, <1>8, EstimateGiven
<1> HIDE DEF estimate
<1>10. /\ estimated \in Int \cup {None}
       /\ assessment = "Completed" => estimated = None
       /\ assessment = "Progressing" => estimated = clock + estimate
  BY <1>9
<1> HIDE DEF estimated
<1>11. condition \in Verdicts
  BY <1>2 DEF Condition, Verdicts
<1> HIDE DEF condition
<1>12. /\ updating \in Verdicts
       /\ previous.updating # None /\ previous.updating.status = updating.status
            => updating.since = previous.updating.since
  <2>1. previous.updating \in Verdicts \cup {None}
    BY DEF Statuses
  <2> QED
    BY <1>11, <2>1, SetType
<1> HIDE DEF updating
<1>13. from \in [target : Version \cup {None}, install : BOOLEAN,
                 previous : Version \cup {None}, partial : BOOLEAN]
  BY VersionsGiven DEF ClusterVersions
<1> HIDE DEF from, new
<1>14. new \in Statuses
  <2>1. observed \in Time
    BY <1>5 DEF Time
  <2> QED
    BY <1>1, <1>2, <1>3, <1>4, <1>10, <1>12, <1>13, <2>1 DEF Statuses
<1>15. new # EmptyStatus
  BY <1>1, <1>3 DEF EmptyStatus
<1>16. Keeps(previous, new)
  BY <1>1, <1>5, <1>12 DEF Keeps
<1>17. Past(previous.observed, clock) => Past(new.observed, clock)
  BY <1>1, <1>5 DEF Past
<1>18. ASSUME Past(previous.observed, clock), MaxDuration > 72 * Minute, MaxDuration > 120 * clock
       PROVE  Sensible(new)
  <2>1. ASSUME verdict.status # "Unknown"
        PROVE  /\ verdict.started \in Nat /\ verdict.started <= clock
               /\ verdict.completed # None => verdict.started <= verdict.completed
    <3> DEFINE first == version.history[1]
    <3>1. version.history \in Seq(Entries) /\ version.history # <<>>
      BY <1>2, <2>1 DEF ClusterVersions
    <3>2. first \in Entries /\ 1 \in DOMAIN version.history
      BY <3>1
    <3>3. /\ first.started <= clock
          /\ first.completed # None => first.started <= first.completed
      BY <3>2 DEF Dated
    <3> QED
      BY <1>2, <2>1, <3>2, <3>3 DEF Entries
  <2>2. new.assessment = "Completed" <=> new.completed # None
    BY <1>1, <1>2, <1>3
  <2>3. ASSUME new.assessment = "Completed"
        PROVE  new.completion = 100 /\ new.estimated = None /\ new.started <= new.completed
    BY <1>1, <1>2, <1>3, <1>4, <1>10, <2>1, <2>3
  <2>4. ASSUME new.assessment = "Progressing"
        PROVE  new.started < new.estimated + Minute
    <3>1. /\ verdict.started \in Nat /\ verdict.started <= clock
          /\ verdict.started # None
      BY <1>1, <1>3, <2>1, <2>4, InsightAssumption
    <3>2. progress = observed - verdict.started /\ elapsed = clock - verdict.started
      BY <1>7, <3>1
    <3>3. 0 <= elapsed /\ elapsed <= clock /\ progress <= clock
      BY <1>5, <1>18, <3>1, <3>2
    <3>4. -elapsed < estimate + Minute
      BY <1>6, <1>9, <1>18, <3>3
    <3>5. new.estimated = clock + estimate /\ new.started = verdict.started
      BY <1>1, <1>3, <1>10, <2>4
    <3> QED
      BY <1>9, <3>1, <3>2, <3>4, <3>5, AssessmentAssumption
  <2> QED
    BY <2>2, <2>3, <2>4 DEF Sensible
<1> QED
  BY <1>14, <1>15, <1>16, <1>17, <1>18 DEF new

-----------------------------------------------------------------------------
(* Types.                                                                  *)

\* The calls of a run, by kind.
LEMMA CallsType ==
  ASSUME NEW c \in SUBSET Name, NEW u \in SUBSET Name, NEW d \in SUBSET Name
  PROVE  [create |-> c, update |-> u, delete |-> d]
           \in [{"create", "update", "delete"} -> SUBSET Name]
<1> DEFINE calls == [create |-> c, update |-> u, delete |-> d]
<1>1. /\ DOMAIN calls = {"create", "update", "delete"}
      /\ calls["create"] = c /\ calls["update"] = u /\ calls["delete"] = d
      /\ calls = [x \in DOMAIN calls |-> calls[x]]
  OBVIOUS
<1> HIDE DEF calls
<1>2. \A x \in DOMAIN calls : calls[x] \in SUBSET Name
  BY <1>1
<1>3. calls \in [{"create", "update", "delete"} -> SUBSET Name]
  BY <1>1, <1>2
<1> QED
  BY <1>3 DEF calls

LEMMA NoCallsType ==
  NoCalls \in [{"create", "update", "delete"} -> SUBSET Name]
BY CallsType DEF NoCalls

LEMMA InitOK == Init => TypeOK /\ Dates
<1> SUFFICES ASSUME Init PROVE TypeOK /\ Dates
  OBVIOUS
<1> DEFINE installed == Installed(First, 1)
<1>1. clock = 1 /\ born = 1 /\ changes = 0 /\ DOMAIN operators = Operator
  BY DEF Init
<1>2. installed \in ClusterVersions /\ Dated(installed, clock) /\ installed.desired = First
  <2> DEFINE entry == Entry(First, "Completed", 1, 1)
  <2>1. /\ entry \in Entries /\ entry.started = 1 /\ entry.completed = 1
    BY InsightAssumption DEF Entry, Entries, Time
  <2>2. installed = [progressing |-> "False", history |-> <<entry>>,
                     desired |-> First, forced |-> FALSE]
    BY DEF Installed
  <2> HIDE DEF entry, installed
  <2>3. <<entry>> \in Seq(Entries) /\ DOMAIN <<entry>> = {1} /\ <<entry>>[1] = entry
    BY <2>1
  <2>4. installed \in ClusterVersions
    BY <2>2, <2>3, InsightAssumption DEF ClusterVersions, Progressing
  <2>5. installed.history = <<entry>> /\ installed.desired = First
    BY <2>2
  <2>6. Dated(installed, clock)
    BY <1>1, <2>1, <2>3, <2>5, NoneIsApart DEF Dated
  <2> QED
    BY <2>4, <2>5, <2>6
<1>3. cv \in ClusterVersions /\ Dated(cv, clock)
  <2>1. CASE cv = installed
    BY <1>2, <2>1
  <2>2. ASSUME NEW v \in Version \ {First}, cv = StartUpdate(installed, v, 1)
        PROVE  cv \in ClusterVersions /\ Dated(cv, clock)
    <3>1. installed # None /\ cv # None /\ cv \in ClusterVersions
      BY <1>2, <2>2, StartGives, InsightAssumption
    <3>2. cv \in Successors(installed, Version, clock)
      BY <1>1, <1>2, <2>2, <3>1 DEF Successors
    <3> HIDE DEF installed
    <3>3. Dated(cv, clock)
      BY <1>1, <1>2, <3>1, <3>2, SuccessorsGive
    <3> QED
      BY <3>1, <3>3
  <2> QED
    BY <2>1, <2>2 DEF Init
<1>4. insight \in Numbered(born) /\ copy = insight
      /\ (insight # None => insight.status.observed = None)
  <2>1. EmptyStatus.observed = None
    BY DEF EmptyStatus
  <2>2. [uid |-> 1, status |-> EmptyStatus] \in Numbered(born)
    BY <1>1, EmptyIsStatus DEF Numbered, Insights
  <2>3. None \in Numbered(born)
    BY DEF Numbered
  <2> QED
    BY <2>1, <2>2, <2>3 DEF Init
<1>5. health \in [Name -> [filled : BOOLEAN, owner : 1..born] \cup {None}]
  <2>1. [filled |-> TRUE, owner |-> 1] \in [filled : BOOLEAN, owner : 1..born]
    BY <1>1
  <2> QED
    BY <2>1 DEF Init
<1>6. TypeOK
  <2>1. listed \subseteq Name /\ unseenHealth \subseteq Name
    BY DEF Init
  <2> QED
    <3>1. /\ unseen = FALSE /\ dirty = TRUE /\ current = FALSE /\ failed = FALSE
          /\ pc = "idle" /\ seen = None /\ held = None
          /\ todo = NoCalls /\ outdated = {} /\ unlisted = {} /\ looked = 0
      BY DEF Init
    <3> QED
      BY <1>1, <1>3, <1>4, <1>5, <2>1, <3>1, NoCallsType DEF TypeOK, Numbered
<1>7. Dates
  <2>1. Bounded
    BY <1>1, InsightAssumption DEF Bounded
  <2> QED
    BY <1>3, <1>4, <2>1 DEF Init, Dates, Past
<1> QED
  BY <1>6, <1>7

\* Insights that were created stay so.
LEMMA NumberedGrows ==
  ASSUME NEW m \in Nat, NEW n \in Nat, m <= n
  PROVE  Numbered(m) \subseteq Numbered(n)
BY DEF Numbered

\* The server stores an insight, or none; the informer's copy stays.
LEMMA WriteType ==
  ASSUME TypeOK, Write(insight'), insight' \in Numbered(born'), born' \in Nat, born <= born'
  PROVE  /\ copy' \in Numbered(born') /\ held \in Numbered(born')
         /\ unseen' \in BOOLEAN
<1>1. Numbered(born) \subseteq Numbered(born')
  BY NumberedGrows DEF TypeOK
<1> QED
  BY <1>1 DEF TypeOK, Write

\* A bounded change of the outside world, or none.
LEMMA ChangeType ==
  ASSUME TypeOK, Change \/ UNCHANGED changes
  PROVE  changes' \in Nat
BY DEF TypeOK, Change

\* A worker that stops is idle.
LEMMA StopType ==
  ASSUME TypeOK, Done \/ Retry
  PROVE  /\ dirty' \in BOOLEAN
         /\ pc' = "idle" /\ seen' = None /\ held' = None /\ current' = FALSE
         /\ todo' \in [{"create", "update", "delete"} -> SUBSET Name]
         /\ outdated' \subseteq Name /\ failed' \in BOOLEAN
BY NoCallsType DEF TypeOK, Done, Retry, Stop

\* What the outside world and the informers do.
LEMMA WorldTypeOK ==
  ASSUME TypeOK,
         ChangeClusterVersion \/ Tick \/ Sync \/ Resync
           \/ (\E o \in Operator : ChangeOperator(o)) \/ \E n \in Name : SyncHealth(n)
  PROVE  TypeOK'
<1>1. CASE ChangeClusterVersion
  <2>1. cv' \in ClusterVersions \cup {None}
    BY <1>1, SuccessorsGive DEF TypeOK, ChangeClusterVersion
  <2>2. changes' \in Nat
    BY <1>1, ChangeType DEF ChangeClusterVersion
  <2> QED
    BY <1>1, <2>1, <2>2 DEF TypeOK, ChangeClusterVersion, main, side, worker
<1>2. CASE Tick
  <2>1. clock' \in Nat /\ changes' \in Nat
    BY <1>2, ChangeType, InsightAssumption DEF TypeOK, Tick
  <2> QED
    BY <1>2, <2>1 DEF TypeOK, Tick, main, side, worker
<1>3. CASE Sync
  BY <1>3 DEF TypeOK, Sync, world, side, worker
<1>4. CASE Resync
  BY <1>4 DEF TypeOK, Resync, world, main, side, worker
<1>5. ASSUME NEW o \in Operator, ChangeOperator(o) PROVE TypeOK'
  <2>1. DOMAIN operators' \subseteq Operator
    BY <1>5 DEF TypeOK, ChangeOperator, SetOperators
  <2>2. changes' \in Nat
    BY <1>5, ChangeType DEF ChangeOperator, SetOperators
  <2> QED
    BY <1>5, <2>1, <2>2 DEF TypeOK, ChangeOperator, SetOperators, main, side, worker
<1>6. ASSUME NEW n \in Name, SyncHealth(n) PROVE TypeOK'
  <2>1. listed' \subseteq Name /\ unseenHealth' \subseteq Name
    BY <1>6 DEF TypeOK, SyncHealth
  <2> QED
    BY <1>6, <2>1 DEF TypeOK, SyncHealth, world, main, worker
<1> QED
  BY <1>1, <1>2, <1>3, <1>4, <1>5, <1>6

\* The worker reads.
LEMMA ReadTypeOK ==
  ASSUME TypeOK, Reconcile \/ GetInsight \/ ListHealth \/ Finish
  PROVE  TypeOK'
<1>1. CASE Reconcile
  BY <1>1 DEF TypeOK, Reconcile, world, main, side
<1>2. CASE GetInsight
  BY <1>2 DEF TypeOK, GetInsight, Goto, world, main, side
<1>3. CASE ListHealth
  <2>1. todo' \in [{"create", "update", "delete"} -> SUBSET Name]
    <3> DEFINE wanted == Wanted(seen)
    <3>1. wanted \subseteq Name
      BY DEF Wanted, Name
    <3>2. todo' = [create |-> wanted \ listed, update |-> wanted \cap listed,
                   delete |-> listed \ wanted]
      BY <1>3 DEF ListHealth, CallsFor
    <3> HIDE DEF wanted
    <3>3. /\ wanted \ listed \in SUBSET Name /\ wanted \cap listed \in SUBSET Name
          /\ listed \ wanted \in SUBSET Name
      BY <3>1 DEF TypeOK
    <3> QED
      BY <3>2, <3>3, CallsType
  <2> QED
    BY <1>3, <2>1 DEF TypeOK, ListHealth, world, main, side
<1>4. CASE Finish
  BY <1>4, StopType DEF TypeOK, Finish, Numbered, world, main, side
<1> QED
  BY <1>1, <1>2, <1>3, <1>4

\* What the assessment takes from before.
Previous == IF held = None THEN EmptyStatus ELSE held.status

LEMMA PreviousType ==
  ASSUME TypeOK
  PROVE  Previous \in Statuses
BY EmptyIsStatus DEF TypeOK, Previous, Numbered, Insights

\* The worker assesses.
LEMMA AssessTypeOK ==
  ASSUME TypeOK, Dates, Assess
  PROVE  TypeOK'
<1>1. UNCHANGED <<world, main, side, unlisted, changes>> /\ looked' = clock
  BY DEF Assess
<1>2. CASE seen = None /\ held = None
  BY <1>1, <1>2, StopType DEF TypeOK, Assess, world, main, side
<1>3. CASE seen = None /\ held # None
  BY <1>1, <1>3 DEF TypeOK, Assess, Goto, world, main, side
<1>4. CASE seen # None
  <2>1. /\ pc' = CASE held = None -> "create"
                   [] held # None /\ HasSignificantDifference(held.status, Assessed)
                        -> "update"
                   [] OTHER -> "listHealth"
        /\ plan' = Assessed
        /\ UNCHANGED <<seen, held, current, dirty, todo, outdated, failed>>
    BY <1>4 DEF Assess, Goto
  <2>2. Assessed \in Statuses
    <3>1. seen \in ClusterVersions /\ Dated(seen, clock) /\ clock \in Nat
          /\ DOMAIN operators \subseteq Operator
      BY <1>4 DEF TypeOK, Dates
    <3>2. Assessed = AssessClusterVersion(seen, Previous, operators, clock)
      BY DEF Assessed, Previous
    <3> QED
      BY <3>1, <3>2, PreviousType, AssessmentGives
  <2>3. /\ pc' \in {"create", "update", "listHealth"}
        /\ pc' \in {"update", "listHealth"} => held # None
    BY <2>1
  <2> QED
    BY <1>1, <1>4, <2>1, <2>2, <2>3 DEF TypeOK, world, main, side
<1> QED
  BY <1>2, <1>3, <1>4

\* The worker writes its insight.
LEMMA CallTypeOK ==
  ASSUME TypeOK, DeleteInsight \/ CreateInsight \/ UpdateStatus \/ CallFails
  PROVE  TypeOK'
<1>1. UNCHANGED <<world, side, unlisted, looked>>
  BY DEF DeleteInsight, CreateInsight, UpdateStatus, CallFails
<1>2. changes' \in Nat
  BY ChangeType DEF DeleteInsight, CreateInsight, UpdateStatus, CallFails, Answered
<1>3. ASSUME Done \/ Retry,
             UNCHANGED <<insight, copy, unseen>> \/ Write(insight'),
             insight' \in Numbered(born'), born' \in Nat, born <= born'
      PROVE  TypeOK'
  <2>1. copy' \in Numbered(born') /\ unseen' \in BOOLEAN
    <3>1. Numbered(born) \subseteq Numbered(born')
      BY <1>3, NumberedGrows DEF TypeOK
    <3> QED
      BY <1>3, <3>1, WriteType DEF TypeOK
  <2>2. held' \in Numbered(born')
    BY <1>3, StopType DEF Numbered
  <2>3. health' \in [Name -> [filled : BOOLEAN, owner : 1..born'] \cup {None}]
    <3>1. [filled : BOOLEAN, owner : 1..born] \subseteq [filled : BOOLEAN, owner : 1..born']
      BY <1>3 DEF TypeOK
    <3> QED
      BY <1>1, <3>1 DEF TypeOK, side
  <2> QED
    BY <1>1, <1>2, <1>3, <2>1, <2>2, <2>3, StopType DEF TypeOK, world, side
<1>4. CASE DeleteInsight
  <2>1. insight' \in Numbered(born) /\ born' = born /\ born \in Nat
        /\ (UNCHANGED <<insight, copy, unseen>> \/ Write(insight'))
        /\ (Done \/ Retry)
    BY <1>4 DEF DeleteInsight, Answered, Write, TypeOK, Numbered
  <2> QED
    BY <1>3, <2>1
<1>5. CASE UpdateStatus
  <2>1. CASE insight = None \/ ~current
    BY <1>3, <1>5, <2>1 DEF UpdateStatus, TypeOK
  <2>2. CASE ~(insight = None \/ ~current)
    <3>1. insight' = [insight EXCEPT !.status = plan] /\ Write(insight') /\ born' = born
          /\ born \in Nat
      BY <1>5, <2>2 DEF UpdateStatus, Write, TypeOK
    <3>2. insight' \in Numbered(born)
      BY <1>5, <2>2, <3>1 DEF TypeOK, UpdateStatus, Numbered, Insights
    <3>3. CASE Retry
      BY <1>3, <3>1, <3>2, <3>3
    <3>4. CASE ~Retry
      <4>1. /\ pc' = "listHealth" /\ pc = "update"
            /\ UNCHANGED <<dirty, seen, held, current, plan, todo, outdated, failed>>
        BY <1>5, <2>2, <3>4 DEF UpdateStatus, Answered, Goto
      <4>2. copy' \in Numbered(born) /\ unseen' \in BOOLEAN
        BY <3>1 DEF Write, TypeOK
      <4> QED
        BY <1>1, <1>2, <3>1, <3>2, <4>1, <4>2 DEF TypeOK, world, side
    <3> QED
      BY <3>3, <3>4
  <2> QED
    BY <2>1, <2>2
<1>6. CASE CallFails
  BY <1>3, <1>6 DEF CallFails, main, TypeOK
<1>7. CASE CreateInsight
  <2>1. CASE insight # None
    BY <1>3, <1>7, <2>1 DEF CreateInsight, main, TypeOK
  <2>2. CASE insight = None
    <3>1. /\ born' = born + 1 /\ born \in Nat
          /\ insight' = [uid |-> born', status |-> EmptyStatus]
          /\ Write(insight')
          /\ pc = "create"
          /\ \/ /\ pc' = "update" /\ held' = insight' /\ current' = TRUE
                /\ UNCHANGED <<dirty, todo, outdated, failed, seen, plan>>
             \/ Retry
      BY <1>7, <2>2 DEF CreateInsight, Answered, Created, Goto, TypeOK, Write
    <3>2. insight' \in Numbered(born') /\ insight' # None /\ born' \in Nat /\ born <= born'
      BY <3>1, EmptyIsStatus, NoneIsApart DEF Numbered, Insights
    <3>3. CASE Retry
      BY <1>3, <3>1, <3>2, <3>3
    <3>4. CASE ~Retry
      <4>1. copy' \in Numbered(born') /\ unseen' \in BOOLEAN
        BY <3>1, <3>2, WriteType
      <4>2. health' \in [Name -> [filled : BOOLEAN, owner : 1..born'] \cup {None}]
        <5>1. [filled : BOOLEAN, owner : 1..born] \subseteq [filled : BOOLEAN, owner : 1..born']
          BY <3>1
        <5> QED
          BY <1>1, <5>1 DEF TypeOK, side
      <4> QED
        BY <1>1, <1>2, <3>1, <3>2, <3>4, <4>1, <4>2 DEF TypeOK, world, side
    <3> QED
      BY <3>3, <3>4
  <2> QED
    BY <2>1, <2>2
<1> QED
  BY <1>4, <1>5, <1>6, <1>7

\* The worker writes health insights.
LEMMA HealthTypeOK ==
  ASSUME TypeOK, NEW n \in Name,
         CreateHealth(n) \/ UpdateHealth(n) \/ DeleteHealth(n) \/ HealthCallFails(n)
  PROVE  TypeOK'
<1>1. /\ UNCHANGED <<world, main, dirty, pc, seen, held, current, plan, outdated, looked>>
      /\ UNCHANGED unlisted \/ unlisted' = unlisted \cup {n}
      /\ pc = "health"
  BY DEF CreateHealth, UpdateHealth, DeleteHealth, HealthCallFails
<1>2. \E call \in DOMAIN todo : Made(call, n, TRUE) \/ Made(call, n, FALSE)
  BY DEF CreateHealth, UpdateHealth, DeleteHealth, HealthCallFails, Tried, TypeOK
<1>3. changes' \in Nat
  BY ChangeType DEF CreateHealth, UpdateHealth, DeleteHealth, HealthCallFails, Tried
<1>4. /\ todo' \in [{"create", "update", "delete"} -> SUBSET Name]
      /\ failed' \in BOOLEAN
  BY <1>2 DEF Made, TypeOK
<1>5. ASSUME NEW new \in [filled : BOOLEAN, owner : 1..born] \cup {None},
             WriteHealth(n, new)
      PROVE  /\ health' \in [Name -> [filled : BOOLEAN, owner : 1..born] \cup {None}]
             /\ unseenHealth' \subseteq Name /\ listed' = listed
  BY <1>5 DEF WriteHealth, TypeOK
<1>6. /\ health' \in [Name -> [filled : BOOLEAN, owner : 1..born] \cup {None}]
      /\ unseenHealth' \subseteq Name /\ listed' = listed
  <2>1. CASE UNCHANGED side
    BY <2>1 DEF TypeOK, side
  <2>2. CASE CreateHealth(n) /\ ~UNCHANGED side
    <3>1. held.uid \in 1..born
      BY <1>1 DEF TypeOK, Numbered
    <3>2. [filled |-> FALSE, owner |-> held.uid] \in [filled : BOOLEAN, owner : 1..born]
      BY <3>1
    <3>3. WriteHealth(n, [filled |-> FALSE, owner |-> held.uid])
      BY <2>2 DEF CreateHealth
    <3> QED
      BY <1>5, <3>2, <3>3
  <2>3. CASE UpdateHealth(n) /\ ~UNCHANGED side
    <3>1. health[n] # None /\ WriteHealth(n, [health[n] EXCEPT !.filled = TRUE])
      BY <2>3 DEF UpdateHealth
    <3>2. [health[n] EXCEPT !.filled = TRUE] \in [filled : BOOLEAN, owner : 1..born]
      BY <3>1 DEF TypeOK
    <3> QED
      BY <1>5, <3>1, <3>2
  <2>4. CASE DeleteHealth(n) /\ ~UNCHANGED side
    <3>1. WriteHealth(n, None)
      BY <2>4 DEF DeleteHealth
    <3> QED
      BY <1>5, <3>1
  <2>5. CASE HealthCallFails(n)
    BY <2>1, <2>5 DEF HealthCallFails
  <2> QED
    BY <2>1, <2>2, <2>3, <2>4, <2>5
<1>7. unlisted' \subseteq Name
  BY <1>1 DEF TypeOK
<1> QED
  BY <1>1, <1>3, <1>4, <1>6, <1>7 DEF TypeOK, world, main

\* Others write, and the process restarts.
LEMMA OthersTypeOK ==
  ASSUME TypeOK,
         Meddle \/ Restart \/ \E n \in Name : MeddleWithHealth(n) \/ Collect(n)
  PROVE  TypeOK'
<1>1. CASE Meddle
  <2>1. PICK new \in {None, [insight EXCEPT !.status = EmptyStatus]} :
          insight # None /\ MeddleWith(new)
    BY <1>1 DEF Meddle
  <2>2. insight' \in Numbered(born)
    BY <2>1, EmptyIsStatus DEF MeddleWith, Write, TypeOK, Numbered, Insights
  <2>3. changes' \in Nat
    BY <2>1, ChangeType DEF MeddleWith
  <2> QED
    BY <2>1, <2>2, <2>3 DEF TypeOK, MeddleWith, Write, world, side
<1>2. ASSUME NEW n \in Name, RemoveHealth(n), changes' \in Nat
      PROVE  TypeOK'
  <2>1. /\ health' \in [Name -> [filled : BOOLEAN, owner : 1..born] \cup {None}]
        /\ unseenHealth' \subseteq Name /\ listed' = listed
    BY <1>2 DEF RemoveHealth, WriteHealth, TypeOK
  <2>2. outdated' \subseteq Name /\ unlisted' \subseteq Name
    BY <1>2 DEF RemoveHealth, TypeOK
  <2> QED
    BY <1>2, <2>1, <2>2 DEF TypeOK, RemoveHealth, world, main
<1>3. ASSUME NEW n \in Name, MeddleWithHealth(n) \/ Collect(n) PROVE TypeOK'
  <2>1. changes' \in Nat
    BY <1>3, ChangeType DEF MeddleWithHealth, Collect
  <2> QED
    BY <1>2, <1>3, <2>1 DEF MeddleWithHealth, Collect
<1>4. CASE Restart
  <2>1. changes' \in Nat
    BY <1>4, ChangeType DEF Restart
  <2>2. listed' \subseteq Name /\ None \in Numbered(born)
    BY <1>4 DEF Restart, Numbered
  <2> QED
    BY <1>4, <2>1, <2>2, NoCallsType DEF TypeOK, Restart, world
<1> QED
  BY <1>1, <1>3, <1>4

LEMMA NextTypeOK == TypeOK /\ Dates /\ [Next]_vars => TypeOK'
<1> SUFFICES ASSUME TypeOK, Dates, [Next]_vars PROVE TypeOK'
  OBVIOUS
<1>1. CASE UNCHANGED vars
  BY <1>1 DEF TypeOK, vars, world, main, side, worker
<1>2. CASE Next
  BY <1>2, WorldTypeOK, ReadTypeOK, AssessTypeOK, CallTypeOK, HealthTypeOK, OthersTypeOK
  DEF Next, Work
<1> QED
  BY <1>1, <1>2

-----------------------------------------------------------------------------
(* What a step may do.                                                     *)

\* The clock moves with Tick only, and the ClusterVersion with its changes; the worker
\* reads what is there, and writes the status it computed last.
StepTells ==
  /\ clock' = clock \/ Tick
  /\ cv' = cv \/ ChangeClusterVersion
  /\ seen' \in {seen, cv, None}
  /\ copy' \in {copy, insight}
  /\ held' \in {held, copy, insight', None}
  /\ \/ insight' = insight
     \/ insight' = None
     \/ insight'.status = EmptyStatus
     \/ UpdateStatus /\ insight # None /\ current
        /\ insight' = [insight EXCEPT !.status = plan]
  /\ pc' \in {"create", "update"} =>
       Assess \/ (pc \in {"create", "update"} /\ plan' = plan)
  /\ UNCHANGED changes \/ Change

LEMMA StepsTell == TypeOK /\ [Next]_vars => StepTells
<1> SUFFICES ASSUME TypeOK, [Next]_vars PROVE StepTells
  OBVIOUS
<1>1. CASE UNCHANGED vars
  BY <1>1 DEF StepTells, TypeOK, vars, world, main, worker
<1>2. CASE ChangeClusterVersion
  BY <1>2 DEF StepTells, ChangeClusterVersion, main, worker
<1>3. CASE Tick
  BY <1>3 DEF StepTells, Tick, main, worker
<1>4. CASE Sync \/ Resync
  BY <1>4 DEF StepTells, Sync, Resync, world, main, worker
<1>5. ASSUME NEW o \in Operator, ChangeOperator(o) PROVE StepTells
  BY <1>5 DEF StepTells, ChangeOperator, SetOperators, main, worker
<1>6. ASSUME NEW n \in Name, SyncHealth(n) PROVE StepTells
  BY <1>6 DEF StepTells, SyncHealth, world, main, worker
<1>7. CASE Reconcile \/ GetInsight
  BY <1>7 DEF StepTells, Reconcile, GetInsight, Goto, world, main
<1>8. CASE Assess
  <2>1. seen' \in {seen, None} /\ held' \in {held, None}
    BY <1>8 DEF Assess, Done, Stop
  <2> QED
    BY <1>8, <2>1 DEF StepTells, Assess, world, main
<1>9. CASE DeleteInsight
  <2>1. /\ pc' = "idle" /\ seen' = None /\ held' = None
        /\ insight' \in {insight, None} /\ UNCHANGED copy
        /\ UNCHANGED world
        /\ UNCHANGED changes \/ Change
    BY <1>9 DEF DeleteInsight, Answered, Done, Retry, Stop, Write
  <2> QED
    BY <2>1 DEF StepTells, world
<1>10. CASE CreateInsight
  <2>1. \/ pc' = "idle" /\ seen' = None /\ held' = None
        \/ pc = "create" /\ plan' = plan /\ seen' = seen /\ held' = insight'
    BY <1>10 DEF CreateInsight, Answered, Created, Goto, Retry, Stop
  <2>2. /\ insight' \in {insight, [uid |-> born', status |-> EmptyStatus]} /\ UNCHANGED copy
        /\ UNCHANGED world
        /\ UNCHANGED changes \/ Change
    BY <1>10 DEF CreateInsight, Answered, Write, main
  <2>3. insight' = insight \/ insight' = None
        \/ insight'.status = EmptyStatus
    BY <2>2
  <2> QED
    BY <2>1, <2>2, <2>3 DEF StepTells, world
<1>11. CASE UpdateStatus
  <2>1. \/ pc' = "idle" /\ seen' = None /\ held' = None
        \/ pc' = "listHealth" /\ seen' = seen /\ held' = held
    BY <1>11 DEF UpdateStatus, Answered, Goto, Retry, Stop
  <2>2. /\ \/ insight' = insight
           \/ insight # None /\ current /\ insight' = [insight EXCEPT !.status = plan]
        /\ UNCHANGED copy /\ UNCHANGED world
        /\ UNCHANGED changes \/ Change
    BY <1>11 DEF UpdateStatus, Answered, Write, TypeOK
  <2> QED
    BY <1>11, <2>1, <2>2 DEF StepTells, world
<1>12. CASE CallFails \/ Finish
  BY <1>12 DEF StepTells, CallFails, Finish, Done, Retry, Stop, world, main
<1>13. CASE ListHealth
  BY <1>13 DEF StepTells, ListHealth, world, main
<1>14. ASSUME NEW n \in Name,
              CreateHealth(n) \/ UpdateHealth(n) \/ DeleteHealth(n) \/ HealthCallFails(n)
       PROVE  StepTells
  <2>1. /\ UNCHANGED <<world, main, pc, seen, held, plan>>
        /\ UNCHANGED changes \/ Change
        /\ pc = "health"
    BY <1>14 DEF CreateHealth, UpdateHealth, DeleteHealth, HealthCallFails, Tried
  <2> QED
    BY <2>1 DEF StepTells, world, main
<1>15. CASE Meddle
  <2>1. PICK new \in {None, [insight EXCEPT !.status = EmptyStatus]} :
          insight # None /\ MeddleWith(new)
    BY <1>15 DEF Meddle
  <2>2. insight' = None \/ insight'.status = EmptyStatus
    BY <2>1, NoneIsApart DEF MeddleWith, Write, TypeOK, Numbered, Insights
  <2> QED
    BY <2>1, <2>2 DEF StepTells, MeddleWith, Write, world
<1>16. ASSUME NEW n \in Name, MeddleWithHealth(n) \/ Collect(n) PROVE StepTells
  BY <1>16 DEF StepTells, MeddleWithHealth, Collect, RemoveHealth, world, main
<1>17. CASE Restart
  BY <1>17 DEF StepTells, Restart, world
<1> QED
  BY <1>1, <1>2, <1>3, <1>4, <1>5, <1>6, <1>7, <1>8, <1>9, <1>10, <1>11, <1>12, <1>13,
     <1>14, <1>15, <1>16, <1>17 DEF Next, Work

-----------------------------------------------------------------------------
(* Times.                                                                  *)

\* What is past stays past.
LEMMA PastStays ==
  ASSUME NEW m \in Nat, NEW n \in Nat, m <= n
  PROVE  /\ \A version \in ClusterVersions : Dated(version, m) => Dated(version, n)
         /\ \A time \in Time : Past(time, m) => Past(time, n)
<1>1. ASSUME NEW version \in ClusterVersions, Dated(version, m)
      PROVE  Dated(version, n)
  <2>1. ASSUME NEW i \in DOMAIN version.history
        PROVE  LET entry == version.history[i]
               IN  /\ entry.started <= n
                   /\ entry.state = "Completed" => entry.completed # None
                   /\ entry.completed # None => entry.started <= entry.completed
                                                /\ entry.completed <= n
    <3> DEFINE entry == version.history[i]
    <3>1. entry \in Entries
      <4>1. version.history \in Seq(Entries)
        BY DEF ClusterVersions
      <4> QED
        BY <4>1
    <3>2. /\ entry.started <= m
          /\ entry.state = "Completed" => entry.completed # None
          /\ entry.completed # None => entry.started <= entry.completed
                                       /\ entry.completed <= m
      BY <1>1 DEF Dated
    <3> HIDE DEF entry
    <3>3. /\ entry.started <= n
          /\ entry.state = "Completed" => entry.completed # None
          /\ entry.completed # None => entry.started <= entry.completed
                                       /\ entry.completed <= n
      BY <3>1, <3>2 DEF Entries, Time
    <3> QED
      BY <3>3 DEF entry
  <2> QED
    BY <2>1 DEF Dated
<1>2. ASSUME NEW time \in Time, Past(time, m)
      PROVE  Past(time, n)
  BY <1>2 DEF Past, Time
<1> QED
  BY <1>1, <1>2

LEMMA NextBounded == TypeOK /\ Bounded /\ [Next]_vars => Bounded' /\ clock <= clock'
<1> SUFFICES ASSUME TypeOK, Bounded, [Next]_vars
             PROVE  Bounded' /\ clock <= clock'
  OBVIOUS
<1>1. /\ clock \in Nat /\ changes \in Nat /\ MaxChanges \in Nat /\ changes <= MaxChanges
      /\ Steps \subseteq Nat \ {0}
  BY InsightAssumption DEF TypeOK, Bounded
<1>2. (clock' = clock \/ Tick) /\ (UNCHANGED changes \/ Change)
  BY StepsTell DEF StepTells
<1>3. ASSUME NEW longest \in Steps, \A step \in Steps : step <= longest,
             NEW done \in Nat, NEW time \in Nat, time <= 1 + done * longest
      PROVE  /\ time <= 1 + (done + 1) * longest
             /\ \A step \in Steps : time + step <= 1 + (done + 1) * longest
  <2>1. longest \in Nat /\ (done + 1) * longest = done * longest + longest
        /\ done * longest \in Nat
    BY <1>1, <1>3
  <2> QED
    BY <1>1, <1>3, <2>1
<1>4. CASE UNCHANGED changes /\ ~Tick
  BY <1>1, <1>2, <1>4 DEF Bounded
<1>5. CASE Change
  <2>1. changes' = changes + 1 /\ changes < MaxChanges
    BY <1>5 DEF Change
  <2>2. clock' = clock \/ \E step \in Steps : clock' = clock + step
    BY <1>2 DEF Tick
  <2>3. ASSUME NEW longest \in Steps, \A step \in Steps : step <= longest
        PROVE  clock' <= 1 + changes' * longest
    <3>1. clock <= 1 + changes * longest
      BY <2>3 DEF Bounded
    <3>2. /\ clock <= 1 + (changes + 1) * longest
          /\ \A step \in Steps : clock + step <= 1 + (changes + 1) * longest
      BY <1>1, <1>3, <2>3, <3>1
    <3> QED
      BY <2>1, <2>2, <3>2
  <2>4. clock <= clock'
    BY <1>1, <2>2
  <2> QED
    BY <1>1, <2>1, <2>3, <2>4 DEF Bounded
<1> QED
  BY <1>2, <1>4, <1>5 DEF Tick

\* The clock stays within the horizon.
LEMMA WithinHorizon ==
  ASSUME TypeOK, Bounded
  PROVE  MaxDuration > 72 * Minute /\ MaxDuration > 120 * clock
<1>1. PICK longest \in Steps : /\ \A step \in Steps : step <= longest
                              /\ MaxDuration > 120 * (1 + MaxChanges * longest)
  BY HorizonAssumption
<1>2. longest \in Nat /\ changes \in Nat /\ MaxChanges \in Nat /\ clock \in Nat
      /\ MaxDuration \in Nat /\ changes <= MaxChanges
  BY InsightAssumption, AssessmentAssumption DEF TypeOK, Bounded
<1>3. clock <= 1 + changes * longest
  BY <1>1 DEF Bounded
<1>4. ASSUME NEW a \in Nat, NEW b \in Nat, NEW c \in Nat, a <= b
      PROVE  a * c <= b * c /\ a * c \in Nat /\ b * c \in Nat
  BY <1>4, SMT
<1>5. /\ changes * longest <= MaxChanges * longest
      /\ changes * longest \in Nat /\ MaxChanges * longest \in Nat
  BY <1>2, <1>4
<1> QED
  BY <1>1, <1>2, <1>3, <1>5, HorizonAssumption

LEMMA NextDates == TypeOK /\ Dates /\ [Next]_vars => Dates'
<1> SUFFICES ASSUME TypeOK, Dates, [Next]_vars PROVE Dates'
  OBVIOUS
<1>1. TypeOK' /\ StepTells
  BY NextTypeOK, StepsTell
<1>2. /\ Bounded' /\ clock <= clock' /\ clock \in Nat /\ clock' \in Nat
  BY <1>1, NextBounded DEF Dates, TypeOK
<1>3. /\ \A version \in ClusterVersions : Dated(version, clock) => Dated(version, clock')
      /\ \A time \in Time : Past(time, clock) => Past(time, clock')
  BY <1>2, PastStays
<1>4. ASSUME NEW version \in {cv', seen'}, version # None
      PROVE  Dated(version, clock')
  <2>1. version \in ClusterVersions
    BY <1>1, <1>4 DEF TypeOK
  <2>2. Dated(version, clock)
    <3>1. CASE version \in {cv, seen}
      BY <1>4, <3>1 DEF Dates
    <3>2. CASE version \notin {cv, seen}
      <4>1. version = cv' /\ ChangeClusterVersion
        BY <1>1, <1>4, <3>2 DEF StepTells
      <4>2. version \in Successors(cv, Version, clock)
        BY <4>1 DEF ChangeClusterVersion
      <4>3. cv \in ClusterVersions \cup {None} /\ (cv # None => Dated(cv, clock))
        BY DEF TypeOK, Dates
      <4> QED
        BY <1>2, <1>4, <4>2, <4>3, SuccessorsGive
    <3> QED
      BY <3>1, <3>2
  <2> QED
    BY <1>3, <2>1, <2>2
<1>5. ASSUME insight' # None
      PROVE  Past(insight'.status.observed, clock)
  <2>1. CASE insight' = insight
    BY <1>5, <2>1 DEF Dates
  <2>2. CASE insight'.status = EmptyStatus
    <3>1. EmptyStatus.observed = None
      BY DEF EmptyStatus
    <3> QED
      BY <2>2, <3>1 DEF Past
  <2>3. CASE UpdateStatus /\ insight # None /\ current
             /\ insight' = [insight EXCEPT !.status = plan]
    <3>1. pc = "update" /\ insight \in Insights
      BY <2>3 DEF UpdateStatus, TypeOK, Numbered
    <3>2. insight'.status = plan
      BY <2>3, <3>1 DEF Insights
    <3> QED
      BY <3>1, <3>2 DEF Dates
  <2> QED
    BY <1>1, <1>5, <2>1, <2>2, <2>3 DEF StepTells
<1>6. ASSUME NEW object \in {insight', copy', held'}, object # None
      PROVE  Past(object.status.observed, clock')
  <2>1. object \in Insights
    BY <1>1, <1>6 DEF TypeOK, Numbered
  <2>2. object.status.observed \in Time
    BY <2>1 DEF Insights, Statuses
  <2>3. Past(object.status.observed, clock)
    <3>1. CASE object = insight'
      BY <1>5, <1>6, <3>1
    <3>2. CASE object # insight'
      <4>1. object \in {insight, copy, held}
        BY <1>1, <1>6, <3>2 DEF StepTells
      <4> QED
        BY <1>6, <4>1 DEF Dates
    <3> QED
      BY <3>1, <3>2
  <2> QED
    BY <1>3, <2>2, <2>3
<1>7. ASSUME pc' \in {"create", "update"}
      PROVE  Past(plan'.observed, clock') /\ Sensible(plan')
  <2>1. plan' \in Statuses
    BY <1>1, <1>7 DEF TypeOK
  <2>2. plan'.observed \in Time
    BY <2>1 DEF Statuses
  <2>3. Past(plan'.observed, clock) /\ Sensible(plan')
    <3>1. CASE pc \in {"create", "update"} /\ plan' = plan
      BY <3>1 DEF Dates
    <3>2. CASE Assess
      <4>1. seen # None /\ plan' = Assessed
        BY <1>7, <3>2 DEF Assess, Done, Stop, Goto
      <4>2. seen \in ClusterVersions /\ Dated(seen, clock) /\ clock \in Nat
            /\ DOMAIN operators \subseteq Operator
        BY <4>1 DEF TypeOK, Dates
      <4>3. plan' = AssessClusterVersion(seen, Previous, operators, clock)
        BY <4>1 DEF Assessed, Previous
      <4>4. Past(Previous.observed, clock)
        BY DEF Previous, EmptyStatus, Past, Dates
      <4>5. MaxDuration > 72 * Minute /\ MaxDuration > 120 * clock
        BY WithinHorizon DEF Dates
      <4> QED
        BY <4>2, <4>3, <4>4, <4>5, PreviousType, AssessmentGives
    <3> QED
      BY <1>1, <1>7, <3>1, <3>2 DEF StepTells
  <2> QED
    BY <1>3, <2>2, <2>3
<1> QED
  BY <1>2, <1>4, <1>6, <1>7 DEF Dates

\* The inductive invariant of the types and times.
LEMMA Timed == Spec => [](TypeOK /\ Dates)
<1>1. TypeOK /\ Dates /\ [Next]_vars => TypeOK' /\ Dates'
  BY NextTypeOK, NextDates
<1> QED
  BY <1>1, InitOK, PTL DEF Spec

(***************************************************************************)
(* The types, for all constants: the worker always has what its place in   *)
(* Reconcile needs, an insight to delete or to own the health insights it  *)
(* creates, a ClusterVersion and a status to write; and a completion is a  *)
(* percentage, an estimate a number, whatever the history and the          *)
(* operators are.                                                          *)
(***************************************************************************)
THEOREM TypeCorrect == Spec => []TypeOK
BY Timed, PTL

-----------------------------------------------------------------------------
(* What is stored makes sense.                                             *)

LEMMA SenseStep ==
  TypeOK /\ Dates /\ StoredMakesSense /\ [Next]_vars => StoredMakesSense'
<1> SUFFICES ASSUME TypeOK, Dates, StoredMakesSense, [Next]_vars,
                    insight' # None, insight'.status # EmptyStatus
             PROVE  Sensible(insight'.status)
  BY DEF StoredMakesSense, Sensible
<1>1. StepTells
  BY StepsTell
<1>2. CASE insight' = insight
  BY <1>2 DEF StoredMakesSense, Sensible
<1>3. CASE UpdateStatus /\ insight # None /\ insight' = [insight EXCEPT !.status = plan]
  <2>1. pc = "update" /\ insight \in Insights
    BY <1>3 DEF UpdateStatus, TypeOK, Numbered
  <2>2. insight'.status = plan
    BY <1>3, <2>1 DEF Insights
  <2> QED
    BY <2>1, <2>2 DEF Dates
<1> QED
  BY <1>1, <1>2, <1>3 DEF StepTells

(***************************************************************************)
(* An insight that is stored makes sense in itself, whatever the operator  *)
(* reports beside its history, whatever copy the assessment took over from *)
(* and however writers interleave: a completed update is complete and      *)
(* dated, an estimate lies not before the start of the update.             *)
(***************************************************************************)
THEOREM SenseCorrect == Spec => []StoredMakesSense
<1>1. Init => StoredMakesSense
  BY DEF Init, StoredMakesSense
<1>2. TypeOK /\ Dates /\ StoredMakesSense /\ [Next]_vars => StoredMakesSense'
  BY SenseStep
<1> QED
  BY <1>1, <1>2, Timed, PTL DEF Spec

-----------------------------------------------------------------------------
(* Times move only with what they date.                                    *)

LEMMA InitBased == Init => Based
BY DEF Init, Based

LEMMA NextBased == TypeOK /\ Dates /\ Based /\ [Next]_vars => Based'
<1> SUFFICES ASSUME TypeOK, Dates, Based, [Next]_vars PROVE Based'
  OBVIOUS
<1>1. CASE UNCHANGED vars
  BY <1>1 DEF Based, vars, main, worker
<1>2. CASE ChangeClusterVersion \/ Tick \/ Resync
  BY <1>2 DEF Based, ChangeClusterVersion, Tick, Resync, main, worker
<1>3. CASE Sync
  BY <1>3 DEF Based, Sync, worker
<1>4. ASSUME NEW o \in Operator, ChangeOperator(o) PROVE Based'
  BY <1>4 DEF Based, ChangeOperator, SetOperators, main, worker
<1>5. ASSUME NEW n \in Name, SyncHealth(n) PROVE Based'
  BY <1>5 DEF Based, SyncHealth, main, worker
<1>6. CASE Reconcile \/ GetInsight
  BY <1>6 DEF Based, Reconcile, GetInsight, Goto, main, TypeOK
<1>7. CASE Assess
  <2>1. UNCHANGED main
    BY <1>7 DEF Assess
  <2>2. CASE seen = None /\ held = None
    BY <1>7, <2>1, <2>2 DEF Based, Assess, Done, Stop, main
  <2>3. CASE seen = None /\ held # None
    BY <1>7, <2>1, <2>3 DEF Based, Assess, Goto, main
  <2>4. CASE seen # None
    <3>1. /\ pc = "assess"
          /\ pc' = CASE held = None -> "create"
                     [] held # None /\ HasSignificantDifference(held.status, Assessed)
                          -> "update"
                     [] OTHER -> "listHealth"
          /\ plan' = Assessed
          /\ UNCHANGED <<held, current>>
      BY <1>7, <2>4 DEF Assess, Goto
    <3>2. pc' \in {"create", "update", "listHealth"} /\ (pc' = "update" => held # None)
      BY <3>1
    <3>3. ASSUME pc' = "update" PROVE Keeps(held.status, plan')
      <4>1. seen \in ClusterVersions /\ Dated(seen, clock) /\ clock \in Nat
            /\ DOMAIN operators \subseteq Operator
        BY <2>4 DEF TypeOK, Dates
      <4>2. plan' = AssessClusterVersion(seen, Previous, operators, clock)
        BY <3>1 DEF Assessed, Previous
      <4>3. Previous = held.status
        BY <3>2, <3>3 DEF Previous
      <4> QED
        BY <4>1, <4>2, <4>3, PreviousType, AssessmentGives
    <3> QED
      BY <2>1, <3>1, <3>2, <3>3 DEF Based, main
  <2> QED
    BY <2>2, <2>3, <2>4
<1>8. CASE DeleteInsight
  BY <1>8 DEF Based, DeleteInsight, Answered, Done, Retry, Stop, Write
<1>9. CASE CreateInsight
  <2>1. CASE Retry
    BY <1>9, <2>1 DEF Based, CreateInsight, Retry, Stop, Write, main
  <2>2. CASE ~Retry
    <3>1. /\ insight' = [uid |-> born', status |-> EmptyStatus] /\ unseen' = TRUE
          /\ pc' = "update" /\ held' = insight' /\ plan' = plan
      BY <1>9, <2>2 DEF CreateInsight, Answered, Created, Goto, Write
    <3>2. EmptyStatus.observed = None /\ EmptyStatus.updating = None
      BY DEF EmptyStatus
    <3>3. held'.status = EmptyStatus
      BY <3>1
    <3>4. Keeps(held'.status, plan')
      BY <3>2, <3>3 DEF Keeps
    <3> QED
      BY <3>1, <3>4 DEF Based
  <2> QED
    BY <2>1, <2>2
<1>10. CASE UpdateStatus
  BY <1>10 DEF Based, UpdateStatus, Answered, Goto, Retry, Stop, Write
<1>11. CASE CallFails \/ Finish
  BY <1>11 DEF Based, CallFails, Finish, Done, Retry, Stop, main
<1>12. CASE ListHealth
  BY <1>12 DEF Based, ListHealth, main
<1>13. ASSUME NEW n \in Name,
              CreateHealth(n) \/ UpdateHealth(n) \/ DeleteHealth(n) \/ HealthCallFails(n)
       PROVE  Based'
  <2>1. UNCHANGED <<main, pc, held, current, plan>>
    BY <1>13 DEF CreateHealth, UpdateHealth, DeleteHealth, HealthCallFails
  <2> QED
    BY <2>1 DEF Based, main
<1>14. CASE Meddle
  BY <1>14 DEF Based, Meddle, MeddleWith, Write
<1>15. ASSUME NEW n \in Name, MeddleWithHealth(n) \/ Collect(n) PROVE Based'
  BY <1>15 DEF Based, MeddleWithHealth, Collect, RemoveHealth, main
<1>16. CASE Restart
  BY <1>16 DEF Based, Restart
<1> QED
  BY <1>1, <1>2, <1>3, <1>4, <1>5, <1>6, <1>7, <1>8, <1>9, <1>10, <1>11, <1>12, <1>13,
     <1>14, <1>15, <1>16 DEF Next, Work

\* What a step does to an insight that is there.
TimesKept ==
  insight # None /\ insight' # None /\ insight'.status # EmptyStatus =>
    LET old == insight.status  new == insight'.status
    IN  /\ old.observed # None /\ old.completion = new.completion
             => new.observed = old.observed
        /\ old.updating # None /\ old.updating.status = new.updating.status
             => new.updating.since = old.updating.since

LEMMA TimesStep == TypeOK /\ Based /\ [Next]_vars => TimesKept
<1> SUFFICES ASSUME TypeOK, Based, [Next]_vars,
                    insight # None, insight' # None, insight'.status # EmptyStatus
             PROVE  Keeps(insight.status, insight'.status)
  BY DEF TimesKept, Keeps
<1>1. StepTells
  BY StepsTell
<1>2. CASE insight' = insight
  BY <1>2 DEF Keeps
<1>3. CASE UpdateStatus /\ current /\ insight' = [insight EXCEPT !.status = plan]
  <2>1. pc = "update" /\ insight \in Insights /\ held = insight
    BY <1>3 DEF UpdateStatus, TypeOK, Numbered, Based
  <2>2. insight'.status = plan
    BY <1>3, <2>1 DEF Insights
  <2> QED
    BY <2>1, <2>2 DEF Based
<1> QED
  BY <1>1, <1>2, <1>3 DEF StepTells

(***************************************************************************)
(* lastObservedProgress moves only with the completion and the transition  *)
(* time only with the condition's status, although the assessment takes    *)
(* them from a copy that may lag behind what other writers stored: a       *)
(* write that is not based on what is stored is refused.                   *)
(***************************************************************************)
THEOREM TimesCorrect == Spec => TimesMoveWithWhatTheyDate
<1>1. Spec => []Based
  BY InitBased, NextBased, Timed, PTL DEF Spec
<1>2. TypeOK /\ Based /\ [Next]_vars => [TimesKept]_vars
  BY TimesStep
<1>3. Spec => [][TimesKept]_vars
  BY <1>1, <1>2, Timed, PTL DEF Spec
<1> QED
  BY <1>3 DEF TimesMoveWithWhatTheyDate, TimesKept

-----------------------------------------------------------------------------
(* When all is quiet the insight says what it should.                      *)

\* What an assessment says but for its times: it depends on neither the time nor the
\* status before.
Said(version, versions) ==
  LET verdict    == IsControlPlaneUpdating(version)
      assessment == CASE verdict.status = "True"    -> "Progressing"
                      [] verdict.status = "False"   -> "Completed"
                      [] verdict.status = "Unknown" -> "Unknown"
      from       == VersionsFromHistory(version.history)
  IN  [assessment |-> assessment, completion |-> Completion(version, versions, assessment),
       target |-> from.target, previous |-> from.previous,
       updating |-> [status |-> verdict.status, why |-> verdict.why, since |-> None]]

LEMMA SaidByAssessment ==
  ASSUME NEW version \in ClusterVersions, NEW previous \in Statuses, NEW versions,
         NEW now \in Nat
  PROVE  LET new == AssessClusterVersion(version, previous, versions, now)
         IN  /\ Content(new) = Said(version, versions) /\ new.updating \in Verdicts
             /\ new.started = IsControlPlaneUpdating(version).started
             /\ new.completed = IsControlPlaneUpdating(version).completed
             /\ new.completion = previous.completion /\ previous.observed # None
                  => new.observed = previous.observed
             /\ previous.observed = None => new.observed = now
             /\ previous.updating # None /\ previous.updating.status = new.updating.status
                  => new.updating.since = previous.updating.since
<1> DEFINE new        == AssessClusterVersion(version, previous, versions, now)
           verdict    == IsControlPlaneUpdating(version)
           condition  == Condition(verdict.status, verdict.why, now)
           assessment == CASE verdict.status = "True"    -> "Progressing"
                           [] verdict.status = "False"   -> "Completed"
                           [] verdict.status = "Unknown" -> "Unknown"
           completion == Completion(version, versions, assessment)
           from       == VersionsFromHistory(version.history)
<1>1. verdict.status \in {"True", "False", "Unknown"} /\ verdict.why \in Whys
  BY VerdictGiven
<1>2. condition \in Verdicts /\ condition.status = verdict.status
      /\ condition.why = verdict.why
  BY <1>1 DEF Condition, Verdicts
<1>3. /\ new.assessment = assessment /\ new.completion = completion /\ new.versions = from
      /\ new.started = verdict.started /\ new.completed = verdict.completed
      /\ new.updating = SetStatusCondition(previous.updating, condition)
      /\ new.observed = IF completion # previous.completion \/ previous.observed = None
                        THEN now ELSE previous.observed
  BY DEF AssessClusterVersion
<1>4. Said(version, versions) =
        [assessment |-> assessment, completion |-> completion,
         target |-> from.target, previous |-> from.previous,
         updating |-> [status |-> verdict.status, why |-> verdict.why, since |-> None]]
  BY DEF Said
<1> HIDE DEF new, verdict, condition, assessment, completion, from
<1>5. /\ new.updating \in Verdicts
      /\ [new.updating EXCEPT !.since = None]
           = [status |-> verdict.status, why |-> verdict.why, since |-> None]
      /\ previous.updating # None /\ previous.updating.status = new.updating.status
           => new.updating.since = previous.updating.since
  <2>1. previous.updating \in Verdicts \cup {None}
    BY DEF Statuses
  <2> DEFINE set == SetStatusCondition(previous.updating, condition)
  <2>2. /\ set \in Verdicts
        /\ [set EXCEPT !.since = None]
             = [status |-> condition.status, why |-> condition.why, since |-> None]
        /\ previous.updating # None /\ previous.updating.status = set.status
             => set.since = previous.updating.since
    BY <1>2, <2>1, SetType
  <2> HIDE DEF set
  <2>3. new.updating = set
    BY <1>3 DEF set
  <2> QED
    BY <1>2, <2>2, <2>3
<1>6. Content(new) = Said(version, versions)
  BY <1>3, <1>4, <1>5, NoneIsApart DEF Content
<1> QED
  BY <1>3, <1>5, <1>6 DEF new, verdict

\* An insight that says what an assessment made at one time would say, does so at any
\* other, but for the estimate: what was read the same keeps its times.
LEMMA SaysAtAnyTime ==
  ASSUME TypeOK, SaysAsOf(looked, TimeFields)
  PROVE  SaysAsOf(clock, TimeFields \ {"estimated"})
<1>1. CASE cv = None
  BY <1>1 DEF SaysAsOf
<1>2. CASE cv # None
  <2> DEFINE then == AssessClusterVersion(cv, insight.status, operators, looked)
             now  == AssessClusterVersion(cv, insight.status, operators, clock)
  <2>1. /\ cv \in ClusterVersions /\ insight # None /\ insight.status \in Statuses
        /\ looked \in Nat /\ clock \in Nat
    BY <1>2 DEF TypeOK, SaysAsOf, Numbered, Insights
  <2>2. /\ Content(insight.status) = Content(then)
        /\ \A field \in TimeFields : Close(insight.status[field], then[field])
        /\ Close(insight.status.updating.since, then.updating.since)
    BY <1>2 DEF SaysAsOf
  <2>3. /\ Content(then) = Said(cv, operators) /\ Content(now) = Said(cv, operators)
        /\ now.started = then.started /\ now.completed = then.completed
    BY <2>1, SaidByAssessment
  <2>4. ASSUME NEW time \in {looked, clock}
        PROVE  LET due == AssessClusterVersion(cv, insight.status, operators, time)
               IN  /\ insight.status.completion = due.completion
                      /\ insight.status.observed # None
                        => due.observed = insight.status.observed
                   /\ insight.status.observed = None => due.observed = time
                   /\ insight.status.updating # None
                      /\ insight.status.updating.status = due.updating.status
                        => due.updating.since = insight.status.updating.since
    BY <2>1, SaidByAssessment
  <2>5. /\ Content(insight.status) = Content(now) /\ now.completion = then.completion
        /\ insight.status.completion = then.completion
        /\ insight.status.updating # None
        /\ insight.status.updating.status = then.updating.status
        /\ insight.status.updating.status = now.updating.status
    <3> HIDE DEF then, now
    <3>1. Content(insight.status) = Content(now)
      BY <2>2, <2>3
    <3>2. now.completion = then.completion /\ insight.status.completion = then.completion
      BY <2>2, <3>1 DEF Content
    <3>3. then.updating \in Verdicts /\ now.updating \in Verdicts
      BY <2>1, SaidByAssessment DEF then, now
    <3>4. /\ Content(insight.status).updating = [then.updating EXCEPT !.since = None]
          /\ Content(insight.status).updating = [now.updating EXCEPT !.since = None]
      BY <2>2, <3>1, <3>3, NoneIsApart DEF Content
    <3>5. [then.updating EXCEPT !.since = None] # None
      BY <3>3, InsightAssumption DEF Verdicts, Undated
    <3>6. insight.status.updating \in Verdicts
      <4>1. insight.status.updating # None
        BY <3>4, <3>5 DEF Content
      <4> QED
        BY <2>1, <4>1 DEF Statuses
    <3>7. Content(insight.status).updating = [insight.status.updating EXCEPT !.since = None]
      BY <3>6, NoneIsApart DEF Content
    <3>8. \A old, new \in Verdicts :
            [old EXCEPT !.since = None] = [new EXCEPT !.since = None]
              => old.status = new.status
      BY DEF Verdicts
    <3>9. /\ insight.status.updating.status = then.updating.status
          /\ insight.status.updating.status = now.updating.status
      BY <3>3, <3>4, <3>6, <3>7, <3>8
    <3> QED
      BY <3>1, <3>2, <3>6, <3>9, NoneIsApart
  <2>6. /\ insight.status.observed = None => then.observed = looked
        /\ insight.status.observed # None => then.observed = insight.status.observed
        /\ insight.status.observed # None => now.observed = insight.status.observed
        /\ then.updating.since = insight.status.updating.since
        /\ now.updating.since = insight.status.updating.since
    BY <2>4, <2>5
  <2> HIDE DEF then, now
  <2>7. /\ Close(insight.status.started, then.started)
        /\ Close(insight.status.completed, then.completed)
        /\ Close(insight.status.observed, then.observed)
    BY <2>2 DEF TimeFields
  <2>8. insight.status.observed # None
    BY <2>1, <2>6, <2>7, NoneIsApart DEF Close
  <2>9. /\ Close(insight.status.started, now.started)
        /\ Close(insight.status.completed, now.completed)
        /\ Close(insight.status.observed, now.observed)
        /\ Close(insight.status.updating.since, now.updating.since)
    BY <2>2, <2>3, <2>6, <2>7, <2>8
  <2>10. \A field \in TimeFields \ {"estimated"} : Close(insight.status[field], now[field])
    BY <2>9 DEF TimeFields
  <2> QED
    BY <1>2, <2>1, <2>5, <2>9, <2>10 DEF SaysAsOf, now
<1> QED
  BY <1>1, <1>2

\* A copy that no assessment differs from significantly already says what is to be said.
LEMMA NoDifference ==
  ASSUME pc = "assess", seen = cv, cv # None, held = insight, insight # None,
         ~HasSignificantDifference(held.status, Assessed)
  PROVE  SaysAsOf(clock, TimeFields)
<1>1. Assessed = AssessClusterVersion(cv, insight.status, operators, clock)
  BY DEF Assessed
<1>2. /\ Content(insight.status) = Content(Assessed)
      /\ \A field \in TimeFields : Close(insight.status[field], Assessed[field])
      /\ Close(insight.status.updating.since, Assessed.updating.since)
  BY DEF HasSignificantDifference, TimeFields
<1> QED
  BY <1>1, <1>2 DEF SaysAsOf

LEMMA InitFollowed == Init => Followed
BY DEF Init, Followed

LEMMA NextFollowed == TypeOK /\ Followed /\ [Next]_vars => Followed'
<1> SUFFICES ASSUME TypeOK, Followed, [Next]_vars PROVE Followed'
  OBVIOUS
<1>1. CASE UNCHANGED vars
  BY <1>1 DEF Followed, vars, world, main, worker
<1>2. CASE ChangeClusterVersion \/ Tick \/ Resync
  BY <1>2 DEF Followed, ChangeClusterVersion, Tick, Resync, world, main, worker
<1>3. CASE Sync
  BY <1>3 DEF Followed, Sync, world, worker
<1>4. ASSUME NEW o \in Operator, ChangeOperator(o) PROVE Followed'
  BY <1>4 DEF Followed, ChangeOperator, SetOperators, main, worker
<1>5. ASSUME NEW n \in Name, SyncHealth(n) PROVE Followed'
  BY <1>5 DEF Followed, SyncHealth, world, main, worker
<1>6. CASE Reconcile \/ GetInsight
  BY <1>6 DEF Followed, Reconcile, GetInsight, Goto, world, main
<1>7. CASE Assess
  <2>1. UNCHANGED <<world, main, dirty>> /\ pc = "assess"
    BY <1>7 DEF Assess, Done, Goto
  <2>2. UNCHANGED seen \/ pc' = "idle"
    BY <1>7 DEF Assess, Done, Stop
  <2> QED
    BY <2>1, <2>2 DEF Followed, world, main
<1>8. CASE DeleteInsight
  BY <1>8 DEF Followed, DeleteInsight, Answered, Done, Retry, Stop, Write, world
<1>9. CASE CreateInsight
  BY <1>9 DEF Followed, CreateInsight, Answered, Created, Goto, Retry, Stop, Write, world, main
<1>10. CASE UpdateStatus
  BY <1>10 DEF Followed, UpdateStatus, Answered, Goto, Retry, Stop, Write, world
<1>11. CASE CallFails \/ Finish
  BY <1>11 DEF Followed, CallFails, Finish, Done, Retry, Stop, world, main
<1>12. CASE ListHealth
  BY <1>12 DEF Followed, ListHealth, world, main
<1>13. ASSUME NEW n \in Name,
              CreateHealth(n) \/ UpdateHealth(n) \/ DeleteHealth(n) \/ HealthCallFails(n)
       PROVE  Followed'
  <2>1. UNCHANGED <<world, main, dirty, pc, seen>>
    BY <1>13 DEF CreateHealth, UpdateHealth, DeleteHealth, HealthCallFails
  <2> QED
    BY <2>1 DEF Followed, world, main
<1>14. CASE Meddle
  BY <1>14 DEF Followed, Meddle, MeddleWith, Write, world
<1>15. ASSUME NEW n \in Name, MeddleWithHealth(n) \/ Collect(n) PROVE Followed'
  BY <1>15 DEF Followed, MeddleWithHealth, Collect, RemoveHealth, world, main
<1>16. CASE Restart
  BY <1>16 DEF Followed, Restart
<1> QED
  BY <1>1, <1>2, <1>3, <1>4, <1>5, <1>6, <1>7, <1>8, <1>9, <1>10, <1>11, <1>12, <1>13,
     <1>14, <1>15, <1>16 DEF Next, Work

LEMMA InitCompared == Init => Compared
BY DEF Init, Compared

LEMMA NextCompared == TypeOK /\ Followed /\ Compared /\ [Next]_vars => Compared'
<1> SUFFICES ASSUME TypeOK, Followed, Compared, [Next]_vars PROVE Compared'
  OBVIOUS
<1>1. ASSUME UNCHANGED <<cv, operators, insight, unseen, dirty, pc, held, looked>>
      PROVE  Compared'
  BY <1>1 DEF Compared, SaysAsOf
<1>2. ASSUME dirty' PROVE Compared'
  BY <1>2 DEF Compared
<1>3. ASSUME unseen' PROVE Compared'
  BY <1>3 DEF Compared
<1>4. CASE UNCHANGED vars
  BY <1>1, <1>4 DEF vars, world, main, worker
<1>5. CASE Tick
  BY <1>1, <1>5 DEF Tick, main, worker
<1>6. CASE ChangeClusterVersion \/ Sync \/ Resync \/ \E o \in Operator : ChangeOperator(o)
  BY <1>2, <1>6 DEF ChangeClusterVersion, Sync, Resync, ChangeOperator, SetOperators
<1>7. ASSUME NEW n \in Name, SyncHealth(n) PROVE Compared'
  BY <1>1, <1>7 DEF SyncHealth, world, main, worker
<1>8. CASE Reconcile
  BY <1>8 DEF Compared, Reconcile
<1>9. CASE GetInsight
  <2>1. pc' = "assess" /\ held' = copy /\ UNCHANGED <<insight, unseen>>
    BY <1>9 DEF GetInsight, Goto, main
  <2> QED
    BY <2>1 DEF Compared, Followed
<1>10. CASE Assess
  <2>1. /\ pc = "assess" /\ UNCHANGED <<cv, operators, insight, copy, unseen, dirty>>
        /\ looked' = clock
    BY <1>10 DEF Assess, Done, Goto, world, main
  <2>2. CASE dirty \/ unseen
    BY <1>2, <1>3, <2>1, <2>2
  <2>3. CASE ~dirty /\ ~unseen
    <3>1. seen = cv /\ held = insight
      BY <2>1, <2>3 DEF Followed, Compared
    <3>2. CASE seen = None /\ held = None
      <4>1. pc' = "idle"
        BY <1>10, <3>2 DEF Assess, Done, Stop
      <4> QED
        BY <2>1, <3>1, <3>2, <4>1 DEF Compared, SaysAsOf
    <3>3. CASE seen = None /\ held # None
      <4>1. pc' = "delete"
        BY <1>10, <3>3 DEF Assess, Goto
      <4> QED
        BY <4>1 DEF Compared
    <3>4. CASE seen # None
      <4>1. pc' = CASE held = None -> "create"
                    [] held # None /\ HasSignificantDifference(held.status, Assessed)
                         -> "update"
                    [] OTHER -> "listHealth"
        BY <1>10, <3>4 DEF Assess, Goto
      <4>2. CASE pc' \in {"create", "update"}
        BY <4>2 DEF Compared
      <4>3. CASE pc' \notin {"create", "update"}
        <5>1. /\ pc' = "listHealth" /\ held # None
              /\ ~HasSignificantDifference(held.status, Assessed)
          BY <4>1, <4>3
        <5>2. SaysAsOf(clock, TimeFields)
          BY <2>1, <3>1, <3>4, <5>1, NoDifference
        <5> QED
          BY <2>1, <5>1, <5>2 DEF Compared, SaysAsOf
      <4> QED
        BY <4>2, <4>3
    <3> QED
      BY <3>2, <3>3, <3>4
  <2> QED
    BY <2>2, <2>3
<1>11. CASE DeleteInsight \/ CreateInsight \/ UpdateStatus
  <2>1. dirty' \/ unseen'
    BY <1>11 DEF DeleteInsight, CreateInsight, UpdateStatus, Retry, Write
  <2> QED
    BY <1>2, <1>3, <2>1
<1>12. CASE CallFails
  BY <1>2, <1>12 DEF CallFails, Retry
<1>13. CASE Finish
  <2>1. CASE Retry
    BY <1>2, <2>1 DEF Retry
  <2>2. CASE Done
    BY <1>13, <2>2 DEF Finish, Done, Stop, Compared, SaysAsOf, world, main
  <2> QED
    BY <1>13, <2>1, <2>2 DEF Finish
<1>14. CASE ListHealth
  BY <1>14 DEF ListHealth, Compared, SaysAsOf, world, main
<1>15. ASSUME NEW n \in Name,
              CreateHealth(n) \/ UpdateHealth(n) \/ DeleteHealth(n) \/ HealthCallFails(n)
       PROVE  Compared'
  BY <1>1, <1>15 DEF CreateHealth, UpdateHealth, DeleteHealth, HealthCallFails, world, main
<1>16. CASE Meddle
  BY <1>3, <1>16 DEF Meddle, MeddleWith, Write
<1>17. ASSUME NEW n \in Name, MeddleWithHealth(n) \/ Collect(n) PROVE Compared'
  BY <1>1, <1>17 DEF MeddleWithHealth, Collect, RemoveHealth, world, main
<1>18. CASE Restart
  BY <1>2, <1>18 DEF Restart
<1> QED
  BY <1>4, <1>5, <1>6, <1>7, <1>8, <1>9, <1>10, <1>11, <1>12, <1>13, <1>14, <1>15,
     <1>16, <1>17, <1>18 DEF Next, Work

LEMMA FollowedAlways == Spec => []Followed
BY InitFollowed, NextFollowed, Timed, PTL DEF Spec

(***************************************************************************)
(* When nothing is on its way to the controller the insight says what the  *)
(* assessment would say now, the estimate what it would have said when the *)
(* controller looked last: no interleaving of changes, lagging reads,      *)
(* refused or lost writes, other writers and restarts loses the last       *)
(* change, for any number of each.                                         *)
(***************************************************************************)
THEOREM ReportCorrect == Spec => []QuietMeansReported
<1>1. Spec => []Compared
  BY InitCompared, NextCompared, FollowedAlways, Timed, PTL DEF Spec
<1>2. TypeOK /\ Compared => QuietMeansReported
  BY SaysAtAnyTime DEF QuietMeansReported, Quiet, Compared
<1> QED
  BY <1>1, <1>2, Timed, PTL

-----------------------------------------------------------------------------
(* When all is quiet the health insights are as they should be.            *)

LEMMA InitListing == Init => Listing
<1> SUFFICES ASSUME Init PROVE Listing
  OBVIOUS
<1>1. /\ listed = {n \in Name : health[n] # None} /\ unseenHealth = {}
      /\ dirty = TRUE /\ pc = "idle"
  BY DEF Init
<1> QED
  BY <1>1 DEF Listing

LEMMA NextListing == TypeOK /\ Followed /\ Listing /\ [Next]_vars => Listing'
<1> SUFFICES ASSUME TypeOK, Followed, Listing, [Next]_vars PROVE Listing'
  OBVIOUS
\* The informer's view.
<1>1. ASSUME UNCHANGED <<side, unlisted>>
      PROVE  /\ (\A n \in Name \ unseenHealth : n \in listed <=> health[n] # None)'
             /\ (\A n \in Name \ listed : health[n] = None \/ n \in unlisted)'
  BY <1>1 DEF Listing, side
\* Most steps leave the health insights, and the calls to be made about them, alone.
<1>2. ASSUME UNCHANGED <<cv, side, unlisted, pc, seen, todo, failed, dirty>>
      PROVE  Listing'
  BY <1>2 DEF Listing, Handled, HealthRight, side
<1>3. ASSUME UNCHANGED side, UNCHANGED unlisted,
             \/ pc' \in {"getInsight", "assess", "create", "update", "listHealth"}
             \/ dirty' /\ pc' = "idle"
      PROVE  Listing'
  BY <1>1, <1>3 DEF Listing
<1>4. CASE UNCHANGED vars
  BY <1>2, <1>4 DEF vars, world, worker
<1>5. CASE Tick \/ CallFails
  BY <1>2, <1>3, <1>5 DEF Tick, CallFails, Retry, Stop, main, worker
<1>6. ASSUME UNCHANGED <<side, unlisted, pc, seen, todo, failed>>, dirty'
      PROVE  Listing'
  BY <1>1, <1>6 DEF Listing, Handled, side
<1>7. CASE ChangeClusterVersion \/ Sync \/ Resync \/ \E o \in Operator : ChangeOperator(o)
  BY <1>6, <1>7
  DEF ChangeClusterVersion, Sync, Resync, ChangeOperator, SetOperators, worker
<1>8. ASSUME NEW n \in Name, SyncHealth(n) PROVE Listing'
  <2>1. /\ unseenHealth' = unseenHealth \ {n} /\ n \in unseenHealth
        /\ listed' = IF health[n] = None THEN listed \ {n} ELSE listed \cup {n}
        /\ UNCHANGED <<cv, health, dirty, pc, seen, todo, failed, unlisted>>
    BY <1>8 DEF SyncHealth, world, worker
  <2>2. (\A m \in Name \ unseenHealth : m \in listed <=> health[m] # None)'
    BY <2>1 DEF Listing
  <2>3. (\A m \in Name \ listed : health[m] = None \/ m \in unlisted)'
    BY <2>1 DEF Listing
  <2> QED
    BY <2>1, <2>2, <2>3 DEF Listing, Handled, HealthRight
<1>9. CASE Reconcile \/ GetInsight
  BY <1>3, <1>9 DEF Reconcile, GetInsight, Goto
<1>10. CASE Assess
  <2>1. UNCHANGED <<cv, side, unlisted, dirty>> /\ pc = "assess"
    BY <1>10 DEF Assess, Done, Goto, world
  <2>2. CASE seen = None /\ held = None
    <3>1. pc' = "idle"
      BY <1>10, <2>2 DEF Assess, Done, Stop
    <3>2. ~dirty => cv = None
      BY <2>1, <2>2 DEF Followed
    <3> QED
      BY <1>1, <2>1, <3>1, <3>2 DEF Listing
  <2>3. CASE seen = None /\ held # None
    <3>1. pc' = "delete" /\ seen' = None
      BY <1>10, <2>3 DEF Assess, Goto
    <3> QED
      BY <1>1, <2>1, <3>1 DEF Listing
  <2>4. CASE seen # None
    <3>1. pc' \in {"create", "update", "listHealth"}
      BY <1>10, <2>4 DEF Assess, Goto
    <3> QED
      BY <1>3, <2>1, <3>1
  <2> QED
    BY <2>2, <2>3, <2>4
<1>11. CASE DeleteInsight
  <2>1. UNCHANGED <<cv, side, unlisted>> /\ pc' = "idle" /\ (dirty' \/ UNCHANGED dirty)
    BY <1>11 DEF DeleteInsight, Answered, Done, Retry, Stop, world
  <2>2. ~dirty => cv = None
    BY <1>11 DEF DeleteInsight, Listing, Followed
  <2> QED
    BY <1>1, <2>1, <2>2 DEF Listing
<1>12. CASE CreateInsight \/ UpdateStatus
  <2>1. /\ UNCHANGED <<side, unlisted>>
        /\ \/ pc' \in {"update", "listHealth"}
           \/ dirty' /\ pc' = "idle"
    <3>1. CASE Retry
      BY <1>12, <3>1 DEF CreateInsight, UpdateStatus, Retry, Stop
    <3>2. CASE ~Retry
      BY <1>12, <3>2 DEF CreateInsight, UpdateStatus, Answered, Created, Goto
    <3> QED
      BY <3>1, <3>2
  <2> QED
    BY <1>3, <2>1
<1>13. CASE ListHealth
  <2> DEFINE wanted == Wanted(seen)
  <2>1. /\ pc' = "health"
        /\ todo' = [create |-> wanted \ listed, update |-> wanted \cap listed,
                    delete |-> listed \ wanted]
        /\ unlisted' = unlisted \cap unseenHealth
        /\ UNCHANGED <<side, seen>>
    BY <1>13 DEF ListHealth, CallsFor
  <2> HIDE DEF wanted
  <2>2. (\A n \in Name \ unseenHealth : n \in listed <=> health[n] # None)'
    BY <2>1 DEF Listing, side
  <2>3. \A n \in Name \ listed : health[n] = None \/ n \in unlisted'
    BY <2>1 DEF Listing
  <2>4. ASSUME NEW n \in Name, n \notin unlisted'
        PROVE  IF n \in wanted
               THEN \/ n \in todo'.create \cup todo'.update
                    \/ health[n] # None /\ health[n].filled
               ELSE n \in todo'.delete \/ health[n] = None
    BY <2>1, <2>3, <2>4
  <2>5. \A n \in Name \ unlisted' : Handled(n)'
    BY <2>1, <2>4 DEF Handled, wanted, side
  <2>6. todo'.delete \cap Wanted(seen') = {}
    BY <2>1 DEF wanted
  <2> QED
    BY <2>1, <2>2, <2>3, <2>5, <2>6 DEF Listing, side
<1>14. ASSUME NEW n \in Name,
              CreateHealth(n) \/ UpdateHealth(n) \/ DeleteHealth(n) \/ HealthCallFails(n)
       PROVE  Listing'
  <2>1. /\ pc = "health" /\ UNCHANGED <<cv, pc, seen, listed, dirty>>
        /\ \E call \in DOMAIN todo : Made(call, n, TRUE) \/ Made(call, n, FALSE)
    <3>1. /\ pc = "health" /\ UNCHANGED <<cv, pc, seen, dirty>>
          /\ UNCHANGED listed
      BY <1>14
      DEF CreateHealth, UpdateHealth, DeleteHealth, HealthCallFails, WriteHealth, world, side
    <3>2. \E call \in DOMAIN todo : Made(call, n, TRUE) \/ Made(call, n, FALSE)
      BY <1>14 DEF CreateHealth, UpdateHealth, DeleteHealth, HealthCallFails, Tried, TypeOK
    <3> QED
      BY <3>1, <3>2
  <2>2. failed => failed'
    BY <2>1 DEF Made
  <2>3. \/ UNCHANGED <<health, unseenHealth>>
        \/ n \in unseenHealth' /\ unseenHealth \subseteq unseenHealth'
           /\ \A m \in Name \ {n} : health'[m] = health[m]
    BY <1>14
    DEF CreateHealth, UpdateHealth, DeleteHealth, HealthCallFails, WriteHealth, side, TypeOK
  <2>4. UNCHANGED unlisted \/ unlisted' = unlisted \cup {n}
    BY <1>14 DEF CreateHealth, UpdateHealth, DeleteHealth, HealthCallFails
  <2>5. \/ n \in unlisted'
        \/ health[n] # None /\ health'[n] # None
        \/ health'[n] = None
    BY <1>14
    DEF CreateHealth, UpdateHealth, DeleteHealth, HealthCallFails, WriteHealth, side, TypeOK
  <2>6. (\A m \in Name \ unseenHealth : m \in listed <=> health[m] # None)'
    BY <2>1, <2>3 DEF Listing
  <2>7. (\A m \in Name \ listed : health[m] = None \/ m \in unlisted)'
    BY <2>1, <2>3, <2>4, <2>5 DEF Listing
  <2>8. /\ todo'.delete \subseteq todo.delete
        /\ todo.create \ {n} \subseteq todo'.create
        /\ todo.update \ {n} \subseteq todo'.update
        /\ todo.delete \ {n} \subseteq todo'.delete
    <3>1. PICK call \in {"create", "update", "delete"} :
            todo' = [todo EXCEPT ![call] = @ \ {n}]
      BY <2>1 DEF Made, TypeOK
    <3> QED
      BY <3>1 DEF TypeOK
  <2>9. todo'.delete \cap Wanted(seen') = {}
    BY <2>1, <2>8 DEF Listing
  <2>10. ASSUME ~failed', n \notin unlisted'
         PROVE  Handled(n)'
    <3>1. Handled(n)
      BY <2>1, <2>2, <2>4, <2>10 DEF Listing
    <3>2. CASE CreateHealth(n)
      BY <2>10, <3>2 DEF CreateHealth, Tried, Made
    <3>3. CASE UpdateHealth(n)
      <4>1. health[n] # None /\ n \notin outdated
        BY <2>10, <3>3 DEF UpdateHealth, Tried, Made
      <4>2. /\ health'[n] = [health[n] EXCEPT !.filled = TRUE]
            /\ Made("update", n, TRUE)
        BY <2>10, <3>3, <4>1 DEF UpdateHealth, Tried, Made, WriteHealth, TypeOK
      <4>3. health'[n] # None /\ health'[n].filled
        <5>1. health[n] \in HealthInsights
          BY <4>1 DEF TypeOK, HealthInsights
        <5>2. [health[n] EXCEPT !.filled = TRUE] \in HealthInsights
              /\ [health[n] EXCEPT !.filled = TRUE].filled
          BY <5>1 DEF HealthInsights
        <5> QED
          BY <4>2, <5>2, NoneIsApart
      <4>4. todo'.delete = todo.delete
        BY <4>2 DEF Made, TypeOK
      <4> QED
        BY <2>1, <3>1, <4>1, <4>3, <4>4 DEF Handled
    <3>4. CASE DeleteHealth(n)
      <4>1. n \in todo.delete
        BY <3>4 DEF DeleteHealth, NextCalls
      <4>2. n \notin Wanted(seen)
        BY <2>1, <4>1 DEF Listing
      <4>3. health'[n] = None
        BY <3>4 DEF DeleteHealth, WriteHealth, TypeOK, side
      <4> QED
        BY <2>1, <4>2, <4>3 DEF Handled
    <3>5. CASE HealthCallFails(n)
      BY <2>10, <3>5 DEF HealthCallFails, Made
    <3> QED
      BY <1>14, <3>2, <3>3, <3>4, <3>5
  <2>11. ASSUME ~failed', NEW m \in Name \ {n}, m \notin unlisted'
         PROVE  Handled(m)'
    <3>1. Handled(m) /\ health'[m] = health[m]
      BY <2>1, <2>2, <2>3, <2>4, <2>11 DEF Listing
    <3>2. /\ m \in todo.create => m \in todo'.create
          /\ m \in todo.update => m \in todo'.update
          /\ m \in todo.delete => m \in todo'.delete
      BY <2>8
    <3>3. Wanted(seen') = Wanted(seen)
      BY <2>1
    <3> QED
      BY <3>1, <3>2, <3>3 DEF Handled
  <2>12. ASSUME ~failed', NEW m \in Name, m \notin unlisted'
         PROVE  Handled(m)'
    <3>1. CASE m = n
      BY <2>10, <2>12, <3>1
    <3>2. CASE m # n
      BY <2>11, <2>12, <3>2
    <3> QED
      BY <3>1, <3>2
  <2>13. ASSUME ~failed' PROVE (\A m \in Name \ unlisted : Handled(m))'
    BY <2>12, <2>13
  <2> QED
    BY <2>1, <2>6, <2>7, <2>9, <2>13 DEF Listing
<1>15. CASE Finish
  <2>1. CASE failed
    BY <1>3, <1>15, <2>1 DEF Finish, Retry, Stop
  <2>2. CASE ~failed
    <3>1. /\ pc = "health" /\ pc' = "idle" /\ UNCHANGED <<cv, side, unlisted, dirty>>
          /\ todo["create"] = {} /\ todo["update"] = {} /\ todo["delete"] = {}
      BY <1>15, <2>2 DEF Finish, Done, Stop, TypeOK, world
    <3>2. ASSUME ~dirty, NEW n \in Name \ unlisted PROVE HealthRight(n)
      <4>1. Handled(n) /\ seen = cv
        BY <2>2, <3>1, <3>2 DEF Listing, Followed
      <4> QED
        BY <3>1, <4>1 DEF Handled, HealthRight
    <3>3. ASSUME ~dirty' PROVE (\A n \in Name \ unlisted : HealthRight(n))'
      BY <3>1, <3>2, <3>3 DEF HealthRight, side
    <3> QED
      BY <1>1, <3>1, <3>3 DEF Listing
  <2> QED
    BY <2>1, <2>2
<1>16. CASE Meddle
  BY <1>2, <1>16 DEF Meddle, MeddleWith, world
<1>17. ASSUME NEW n \in Name, RemoveHealth(n) PROVE Listing'
  <2>1. /\ health' = [health EXCEPT ![n] = None]
        /\ unseenHealth' = unseenHealth \cup {n}
        /\ unlisted' = unlisted \cup {n}
        /\ UNCHANGED <<cv, listed, dirty, pc, seen, todo, failed>>
    BY <1>17 DEF RemoveHealth, WriteHealth, world
  <2>2. \A m \in Name \ {n} : health'[m] = health[m]
    BY <2>1 DEF TypeOK
  <2> QED
    BY <2>1, <2>2 DEF Listing, Handled, HealthRight
<1>18. CASE Restart
  <2>1. /\ listed' = {n \in Name : health[n] # None} /\ unseenHealth' = {}
        /\ dirty' /\ pc' = "idle" /\ UNCHANGED <<health, unlisted>>
    BY <1>18 DEF Restart
  <2> QED
    BY <2>1 DEF Listing
<1> QED
  BY <1>4, <1>5, <1>7, <1>8, <1>9, <1>10, <1>11, <1>12, <1>13, <1>14, <1>15,
     <1>16, <1>17, <1>18 DEF Next, Work, MeddleWithHealth, Collect

(***************************************************************************)
(* When nothing is on its way to the controller the desired health         *)
(* insights are there, filled, and no others, but for those no event and   *)
(* no listing told it of: calls that fail or whose answer is lost, others' *)
(* removals between the listing and the writes, and copies that lag make   *)
(* the run fail and be repeated, never forgotten.                          *)
(***************************************************************************)
THEOREM DiffCorrect == Spec => []QuietMeansDiffed
<1>1. Spec => []Listing
  BY InitListing, NextListing, FollowedAlways, Timed, PTL DEF Spec
<1>2. Listing => QuietMeansDiffed
  BY DEF QuietMeansDiffed, Quiet, Listing
<1> QED
  BY <1>1, <1>2, PTL
=============================================================================
