----------------------- MODULE NodeAssessment_proofs -----------------------
(***************************************************************************)
(* Lemmas about one evaluation of a node: what becomes of the conditions   *)
(* of the previous one, what the result shows, and what its hash tells.    *)
(* NodeUpdate_proofs and CentralNodeState_proofs rest on them.             *)
(*                                                                         *)
(* Whys is the set of facts conditions may report.                         *)
(***************************************************************************)
EXTENDS NodeAssessment, SequenceTheorems, WellFoundedInduction, TLAPS

\* One condition of each type.
Complete(conditions, Whys) ==
  /\ conditions \in Seq(Conditions(Whys)) /\ Len(conditions) = 3
  /\ \A t \in ConditionTypes : \E i \in 1..3 : conditions[i].type = t

LEMMA ThreeElements ==
  ASSUME NEW S, NEW s \in Seq(S), Len(s) = 3
  PROVE  DOMAIN s = 1..3 /\ \A i \in 1..3 : s[i] \in S
BY ElementOfSeq, LenProperties

LEMMA ThreeTypes ==
  ASSUME NEW Whys, NEW cs, Complete(cs, Whys)
  PROVE  /\ DOMAIN cs = 1..3
         /\ \A i \in 1..3 : cs[i] \in Conditions(Whys)
         /\ \A i, j \in 1..3 : cs[i].type = cs[j].type => i = j
<1>1. /\ DOMAIN cs = 1..3
      /\ \A i \in 1..3 : cs[i] \in Conditions(Whys)
  BY ThreeElements DEF Complete
<1>2. /\ \A i \in 1..3 : cs[i].type \in {"Updating", "Available", "Degraded"}
      /\ \E i \in 1..3 : cs[i].type = "Updating"
      /\ \E i \in 1..3 : cs[i].type = "Available"
      /\ \E i \in 1..3 : cs[i].type = "Degraded"
  BY <1>1 DEF Complete, ConditionTypes, Conditions
<1>3. \A i \in 1..3 : i = 1 \/ i = 2 \/ i = 3
  OBVIOUS
<1> QED
  BY <1>1, <1>2, <1>3

-----------------------------------------------------------------------------
(* Setting a condition, and taking one out.                                *)

\* c says what fresh says, and is dated as the condition of its type before was if
\* that had the same status.
CarriedFrom(existing, fresh, c) ==
  /\ c.type = fresh.type /\ c.status = fresh.status /\ c.why = fresh.why
  /\ \/ c.since = fresh.since
        /\ \A i \in DOMAIN existing :
             existing[i].type = fresh.type => existing[i].status # fresh.status
     \/ \E i \in DOMAIN existing : existing[i].type = fresh.type
                                   /\ existing[i].status = fresh.status
                                   /\ c.since = existing[i].since

LEMMA SetInPlace ==
  ASSUME NEW Whys, NEW cs \in Seq(Conditions(Whys)), NEW fresh \in Conditions(Whys),
         NEW k \in DOMAIN cs, cs[k].type = fresh.type,
         \A i \in DOMAIN cs : cs[i].type = fresh.type => i = k
  PROVE  /\ SetStatusCondition(cs, fresh) \in Seq(Conditions(Whys))
         /\ Len(SetStatusCondition(cs, fresh)) = Len(cs)
         /\ \A i \in DOMAIN cs : i # k => SetStatusCondition(cs, fresh)[i] = cs[i]
         /\ CarriedFrom(cs, fresh, SetStatusCondition(cs, fresh)[k])
         /\ SetStatusCondition(cs, fresh)[k].type = fresh.type
<1> DEFINE carried == [fresh EXCEPT !.since = cs[k].since]
           set(i) == IF cs[i].type # fresh.type THEN cs[i]
                     ELSE IF cs[i].status # fresh.status THEN fresh
                     ELSE [fresh EXCEPT !.since = cs[i].since]
<1>1. /\ DOMAIN cs = 1..Len(cs) /\ Len(cs) \in Nat
      /\ \A i \in DOMAIN cs : cs[i] \in Conditions(Whys)
  OBVIOUS
<1>2. /\ carried \in Conditions(Whys)
      /\ carried.type = fresh.type /\ carried.status = fresh.status
      /\ carried.why = fresh.why /\ carried.since = cs[k].since
  BY <1>1 DEF Conditions
<1>3. SetStatusCondition(cs, fresh) = [i \in DOMAIN cs |-> set(i)]
  BY DEF SetStatusCondition
<1>4. \A i \in DOMAIN cs : i # k => set(i) = cs[i]
  OBVIOUS
<1>5. set(k) = IF cs[k].status # fresh.status THEN fresh ELSE carried
  OBVIOUS
<1> HIDE DEF set, carried
<1>6. \A i \in DOMAIN cs : set(i) \in Conditions(Whys)
  BY <1>1, <1>2, <1>4, <1>5
<1>7. SetStatusCondition(cs, fresh) \in Seq(Conditions(Whys))
      /\ Len(SetStatusCondition(cs, fresh)) = Len(cs)
  BY <1>1, <1>3, <1>6
<1>8. CarriedFrom(cs, fresh, set(k))
  BY <1>1, <1>2, <1>5 DEF CarriedFrom
<1> QED
  BY <1>3, <1>4, <1>7, <1>8 DEF CarriedFrom

LEMMA SetNew ==
  ASSUME NEW Whys, NEW cs \in Seq(Conditions(Whys)), NEW fresh \in Conditions(Whys),
         \A i \in DOMAIN cs : cs[i].type # fresh.type
  PROVE  SetStatusCondition(cs, fresh) = Append(cs, fresh)
BY DEF SetStatusCondition

LEMMA KeptSteps ==
  ASSUME NEW S, NEW s \in Seq(S), Len(s) \in 0..3, NEW t
  PROVE  /\ Kept(s, t)[0] = <<>>
         /\ \A i \in 1..Len(s) :
              Kept(s, t)[i] = IF s[i].type # t THEN Append(Kept(s, t)[i - 1], s[i])
                              ELSE Kept(s, t)[i - 1]
<1> DEFINE step(g) == [i \in 0..Len(s) |->
                         IF i = 0 THEN <<>>
                         ELSE IF s[i].type # t THEN Append(g[i - 1], s[i])
                         ELSE g[i - 1]]
           k1 == IF s[1].type # t THEN Append(<<>>, s[1]) ELSE <<>>
           k2 == IF s[2].type # t THEN Append(k1, s[2]) ELSE k1
           k3 == IF s[3].type # t THEN Append(k2, s[3]) ELSE k2
           w == [i \in 0..Len(s) |-> IF i = 0 THEN <<>>
                                     ELSE IF i = 1 THEN k1 ELSE IF i = 2 THEN k2 ELSE k3]
<1>1. w = step(w)
  BY Z3
<1>2. \E g : g = step(g)
  BY <1>1
<1>3. Kept(s, t) = step(Kept(s, t))
  BY <1>2 DEF Kept
<1> HIDE DEF w
<1> DEFINE f == Kept(s, t)
<1>4. f = step(f)
  BY <1>3
<1> HIDE DEF f
<1>5. f[0] = <<>>
  BY <1>4
<1>6. ASSUME NEW i \in 1..Len(s)
      PROVE  f[i] = IF s[i].type # t THEN Append(f[i - 1], s[i]) ELSE f[i - 1]
  <2>1. i \in 0..Len(s) /\ i # 0
    OBVIOUS
  <2> QED
    BY <1>4, <2>1
<1> QED
  BY <1>5, <1>6 DEF f

LEMMA SmallTuples ==
  ASSUME NEW x, NEW y, NEW z
  PROVE  /\ Append(<<>>, x) = <<x>>
         /\ Append(<<x>>, y) = <<x, y>>
         /\ Append(<<x, y>>, z) = <<x, y, z>>
<1> DEFINE T == Seq({x, y, z})
<1>1. /\ <<>> \in T /\ Len(<<>>) = 0
      /\ <<x>> \in T /\ Len(<<x>>) = 1
      /\ <<x, y>> \in T /\ Len(<<x, y>>) = 2
      /\ <<x, y, z>> \in T /\ Len(<<x, y, z>>) = 3
  OBVIOUS
<1>2. /\ Append(<<>>, x) \in T /\ Len(Append(<<>>, x)) = 1
      /\ \A i \in 1..1 : Append(<<>>, x)[i] = <<x>>[i]
  BY <1>1
<1>3. /\ Append(<<x>>, y) \in T /\ Len(Append(<<x>>, y)) = 2
      /\ \A i \in 1..2 : Append(<<x>>, y)[i] = <<x, y>>[i]
  BY <1>1
<1>4. /\ Append(<<x, y>>, z) \in T /\ Len(Append(<<x, y>>, z)) = 3
      /\ \A i \in 1..3 : Append(<<x, y>>, z)[i] = <<x, y, z>>[i]
  BY <1>1
<1>5. Append(<<>>, x) = <<x>>
  BY <1>1, <1>2, SeqEqual
<1>6. Append(<<x>>, y) = <<x, y>>
  BY <1>1, <1>3, SeqEqual
<1>7. Append(<<x, y>>, z) = <<x, y, z>>
  BY <1>1, <1>4, SeqEqual
<1> QED
  BY <1>5, <1>6, <1>7

LEMMA WithoutOne ==
  ASSUME NEW S, NEW s \in Seq(S), Len(s) = 1, NEW t, s[1].type # t
  PROVE  Without(s, t) = s
<1>0. Len(s) \in 0..3 /\ 1 \in 1..Len(s) /\ 1 - 1 = 0
  OBVIOUS
<1>3. \A i \in 1..Len(s) :
         Kept(s, t)[i] = IF s[i].type # t THEN Append(Kept(s, t)[i - 1], s[i])
                         ELSE Kept(s, t)[i - 1]
  BY <1>0, KeptSteps
<1>4. Kept(s, t)[0] = <<>>
  BY <1>0, KeptSteps
<1>1. Kept(s, t)[0] = <<>> /\ Kept(s, t)[1] = Append(Kept(s, t)[0], s[1])
  BY <1>0, <1>3, <1>4
<1>2. s = <<s[1]>>
  OBVIOUS
<1> QED
  BY <1>1, <1>2, SmallTuples DEF Without

LEMMA WithoutThree ==
  ASSUME NEW S, NEW s \in Seq(S), Len(s) = 3, NEW t, NEW k \in 1..3, s[k].type = t,
         \A i \in 1..3 : i # k => s[i].type # t
  PROVE  /\ Without(s, t) \in Seq(S) /\ Len(Without(s, t)) = 2
         /\ \A i \in 1..2 : Without(s, t)[i] = s[IF i < k THEN i ELSE i + 1]
<1>0. Len(s) \in 0..3 /\ 1 - 1 = 0 /\ 2 - 1 = 1 /\ 3 - 1 = 2
  OBVIOUS
<1>1. /\ Kept(s, t)[0] = <<>>
      /\ Kept(s, t)[1] = IF s[1].type # t THEN Append(<<>>, s[1]) ELSE <<>>
      /\ Kept(s, t)[2] = IF s[2].type # t THEN Append(Kept(s, t)[1], s[2]) ELSE Kept(s, t)[1]
      /\ Kept(s, t)[3] = IF s[3].type # t THEN Append(Kept(s, t)[2], s[3]) ELSE Kept(s, t)[2]
  <2>1. 1 \in 1..Len(s) /\ 2 \in 1..Len(s) /\ 3 \in 1..Len(s)
    OBVIOUS
  <2>2. \A i \in 1..Len(s) :
          Kept(s, t)[i] = IF s[i].type # t THEN Append(Kept(s, t)[i - 1], s[i])
                          ELSE Kept(s, t)[i - 1]
    BY <1>0, KeptSteps
  <2>3. Kept(s, t)[0] = <<>>
    BY <1>0, KeptSteps
  <2> DEFINE K(i) == Kept(s, t)[i]
             Step(i, j) == K(i) = IF s[i].type # t THEN Append(K(j), s[i]) ELSE K(j)
  <2>4. Step(1, 1 - 1)
    BY <2>1, <2>2
  <2>5. Step(2, 2 - 1)
    BY <2>1, <2>2
  <2>6. Step(3, 3 - 1)
    BY <2>1, <2>2
  <2>7. Step(1, 0) /\ Step(2, 1) /\ Step(3, 2)
    <3> HIDE DEF Step
    <3> QED
      BY <1>0, <2>4, <2>5, <2>6
  <2> QED
    BY <2>3, <2>7
<1>2. s[1] \in S /\ s[2] \in S /\ s[3] \in S /\ DOMAIN s = 1..3
  BY ThreeElements
<1>3. Without(s, t) = Kept(s, t)[3]
  BY DEF Without
<1>4. CASE k = 1
  <2>0. s[1].type = t /\ s[2].type # t /\ s[3].type # t
    BY <1>4
  <2>1. Kept(s, t)[1] = <<>> /\ Kept(s, t)[2] = Append(<<>>, s[2])
        /\ Kept(s, t)[3] = Append(Kept(s, t)[2], s[3])
    BY <1>1, <2>0
  <2> QED
    BY <1>2, <1>3, <1>4, <2>1, SmallTuples
<1>5. CASE k = 2
  <2>0. s[1].type # t /\ s[2].type = t /\ s[3].type # t
    BY <1>5
  <2>1. Kept(s, t)[1] = Append(<<>>, s[1]) /\ Kept(s, t)[2] = Append(<<>>, s[1])
        /\ Kept(s, t)[3] = Append(Kept(s, t)[2], s[3])
    BY <1>1, <2>0
  <2> QED
    BY <1>2, <1>3, <1>5, <2>1, SmallTuples
<1>6. CASE k = 3
  <2>0. s[1].type # t /\ s[2].type # t /\ s[3].type = t
    BY <1>6
  <2>1. Kept(s, t)[1] = Append(<<>>, s[1]) /\ Kept(s, t)[2] = Append(Kept(s, t)[1], s[2])
        /\ Kept(s, t)[3] = Kept(s, t)[2]
    BY <1>1, <2>0
  <2> QED
    BY <1>2, <1>3, <1>6, <2>1, SmallTuples
<1> QED
  BY <1>4, <1>5, <1>6

-----------------------------------------------------------------------------
(* The conditions of an evaluation.                                        *)

\* Unless the node is down, its Available condition is carried over like the others.
Carried(existing, updating, available, degraded, c) ==
  /\ c.type = "Updating" => CarriedFrom(existing, updating, c)
  /\ c.type = "Degraded" => CarriedFrom(existing, degraded, c)
  /\ c.type = "Available" => IF available.status THEN CarriedFrom(existing, available, c) ELSE c = available

LEMMA CarryOverFirst ==
  ASSUME NEW Whys,
         NEW u \in Conditions(Whys), u.type = "Updating",
         NEW a \in Conditions(Whys), a.type = "Available",
         NEW d \in Conditions(Whys), d.type = "Degraded"
  PROVE  CarryOver(<<>>, u, a, d) = <<u, a, d>>
<1>1. SetStatusCondition(<<>>, u) = <<u>>
  <2>1. <<>> \in Seq(Conditions(Whys)) /\ DOMAIN <<>> = {}
    OBVIOUS
  <2> QED
    BY <2>1, SetNew, SmallTuples
<1>2. SetAvailable(<<u>>, a) = <<u, a>>
  <2>1. /\ <<u>> \in Seq(Conditions(Whys)) /\ Len(<<u>>) = 1 /\ <<u>>[1].type # "Available"
        /\ \A i \in DOMAIN <<u>> : <<u>>[i].type # a.type
    OBVIOUS
  <2>2. Without(<<u>>, "Available") = <<u>>
    BY <2>1, WithoutOne DEF Replaced
  <2>3. SetStatusCondition(<<u>>, a) = Append(<<u>>, a)
    BY <2>1, SetNew
  <2> QED
    BY <2>2, <2>3, SmallTuples DEF SetAvailable, Replaced
<1>3. SetStatusCondition(<<u, a>>, d) = <<u, a, d>>
  <2>1. /\ <<u, a>> \in Seq(Conditions(Whys)) /\ DOMAIN <<u, a>> = 1..2
        /\ \A i \in DOMAIN <<u, a>> : <<u, a>>[i].type # d.type
    OBVIOUS
  <2>2. SetStatusCondition(<<u, a>>, d) = Append(<<u, a>>, d)
    BY <2>1, SetNew
  <2> QED
    BY <2>2, SmallTuples
<1> QED
  BY <1>1, <1>2, <1>3 DEF CarryOver

LEMMA SetComplete ==
  ASSUME NEW Whys, NEW cs, Complete(cs, Whys), NEW fresh \in Conditions(Whys)
  PROVE  /\ Complete(SetStatusCondition(cs, fresh), Whys)
         /\ \A i \in 1..3 :
              /\ SetStatusCondition(cs, fresh)[i].type = cs[i].type
              /\ cs[i].type # fresh.type => SetStatusCondition(cs, fresh)[i] = cs[i]
              /\ cs[i].type = fresh.type =>
                   CarriedFrom(cs, fresh, SetStatusCondition(cs, fresh)[i])
<1>1. /\ cs \in Seq(Conditions(Whys)) /\ Len(cs) = 3 /\ DOMAIN cs = 1..3
      /\ \A i, j \in 1..3 : cs[i].type = cs[j].type => i = j
  BY ThreeTypes DEF Complete
<1>2. fresh.type \in ConditionTypes
  BY DEF Conditions
<1>3. PICK k \in 1..3 : cs[k].type = fresh.type
  BY <1>2 DEF Complete
<1>4. \A i \in DOMAIN cs : cs[i].type = fresh.type => i = k
  BY <1>1, <1>3
<1> DEFINE set == SetStatusCondition(cs, fresh)
<1>5. /\ set \in Seq(Conditions(Whys)) /\ Len(set) = 3
      /\ \A i \in 1..3 : i # k => set[i] = cs[i]
      /\ CarriedFrom(cs, fresh, set[k]) /\ set[k].type = fresh.type
  <2>1. k \in DOMAIN cs
    BY <1>1
  <2>2. /\ set \in Seq(Conditions(Whys)) /\ Len(set) = Len(cs)
        /\ \A i \in DOMAIN cs : i # k => set[i] = cs[i]
        /\ CarriedFrom(cs, fresh, set[k]) /\ set[k].type = fresh.type
    <3>1. cs \in Seq(Conditions(Whys)) /\ cs[k].type = fresh.type
      BY <1>1, <1>3
    <3> HIDE DEF set
    <3>2. \A i \in DOMAIN cs : cs[i].type = fresh.type => i = k
      BY <1>4
    <3>3. set \in Seq(Conditions(Whys))
      BY <2>1, <3>1, <3>2, SetInPlace DEF set
    <3>4. Len(set) = Len(cs)
      BY <2>1, <3>1, <3>2, SetInPlace DEF set
    <3>5. \A i \in DOMAIN cs : i # k => set[i] = cs[i]
      BY <2>1, <3>1, <3>2, SetInPlace DEF set
    <3>6. CarriedFrom(cs, fresh, set[k]) 
      BY <2>1, <3>1, <3>2, SetInPlace DEF set
    <3>7. set[k].type = fresh.type
      BY <3>6 DEF CarriedFrom
    <3> QED
      BY <3>3, <3>4, <3>5, <3>6, <3>7
  <2> QED
    BY <1>1, <2>2
<1> HIDE DEF set
<1>6. \A i \in 1..3 : set[i].type = cs[i].type
  BY <1>3, <1>5
<1>7. Complete(set, Whys)
  BY <1>5, <1>6 DEF Complete
<1> QED
  BY <1>1, <1>3, <1>4, <1>5, <1>6, <1>7 DEF set

LEMMA AppendedThird ==
  ASSUME NEW S, NEW q \in Seq(S), Len(q) = 2, NEW x \in S
  PROVE  /\ Append(q, x) \in Seq(S) /\ Len(Append(q, x)) = 3 /\ Append(q, x)[3] = x
         /\ \A j \in 1..2 : Append(q, x)[j] = q[j]
<1>1. Append(q, x) \in Seq(S) /\ Len(Append(q, x)) = Len(q) + 1
  BY AppendProperties
<1>2. Append(q, x)[Len(q) + 1] = x
  BY AppendProperties
<1>3. \A j \in 1..Len(q) : Append(q, x)[j] = q[j]
  BY AppendProperties, SMTT(60)
<1> QED
  BY <1>1, <1>2, <1>3

LEMMA ReplacedComplete ==
  ASSUME NEW Whys, NEW cs, Complete(cs, Whys),
         NEW a \in Conditions(Whys), a.type = "Available"
  PROVE  /\ Complete(Replaced(cs, a), Whys)
         /\ Replaced(cs, a)[3] = a
         /\ \A k \in 1..3 : cs[k].type = "Available" =>
              \A j \in 1..2 : Replaced(cs, a)[j] = cs[IF j < k THEN j ELSE j + 1]
<1>1. /\ cs \in Seq(Conditions(Whys)) /\ Len(cs) = 3 /\ DOMAIN cs = 1..3
      /\ \A i, j \in 1..3 : cs[i].type = cs[j].type => i = j
  BY ThreeTypes DEF Complete
<1>2. PICK k \in 1..3 : cs[k].type = "Available"
  BY DEF Complete, ConditionTypes
<1>3. \A i \in 1..3 : cs[i].type = "Available" => i = k
  BY <1>1, <1>2
<1> DEFINE rest == Without(cs, "Available")
           new == Replaced(cs, a)
<1>4. /\ rest \in Seq(Conditions(Whys)) /\ Len(rest) = 2
      /\ \A j \in 1..2 : rest[j] = cs[IF j < k THEN j ELSE j + 1]
  BY <1>1, <1>2, <1>3, WithoutThree
<1> HIDE DEF rest
<1>5. /\ new \in Seq(Conditions(Whys)) /\ Len(new) = 3 /\ new[3] = a
      /\ \A j \in 1..2 : new[j] = rest[j]
  <2>1. new = Append(rest, a)
    BY DEF Replaced, rest
  <2> HIDE DEF new
  <2>2. new \in Seq(Conditions(Whys))
    BY <1>4, <2>1, AppendedThird
  <2>3. Len(new) = 3
    BY <1>4, <2>1, AppendedThird
  <2>4. new[3] = a
    BY <1>4, <2>1, AppendedThird
  <2>5. \A j \in 1..2 : new[j] = rest[j]
    BY <1>4, <2>1, AppendedThird
  <2> QED
    BY <2>2, <2>3, <2>4, <2>5
<1> HIDE DEF new
<1>6. \A t \in ConditionTypes : \E i \in 1..3 : new[i].type = t
  <2> SUFFICES ASSUME NEW t \in ConditionTypes PROVE \E i \in 1..3 : new[i].type = t
    OBVIOUS
  <2>1. PICK i \in 1..3 : cs[i].type = t
    BY DEF Complete
  <2>2. CASE i < k
    <3>1. i \in 1..2 /\ new[i] = cs[i]
      BY <1>4, <1>5, <2>2
    <3> QED
      BY <2>1, <3>1
  <2>3. CASE i > k
    <3>1. i - 1 \in 1..2 /\ ~(i - 1 < k) /\ (i - 1) + 1 = i
      BY <2>3
    <3>2. new[i - 1] = cs[i]
      BY <1>4, <1>5, <3>1
    <3> QED
      BY <2>1, <3>1, <3>2
  <2>4. CASE i = k
    BY <1>2, <1>5, <2>1, <2>4
  <2> QED
    BY <2>2, <2>3, <2>4
<1>7. Complete(new, Whys)
  BY <1>5, <1>6 DEF Complete
<1>8. \A m \in 1..3 : cs[m].type = "Available" =>
        \A j \in 1..2 : new[j] = cs[IF j < m THEN j ELSE j + 1]
  BY <1>3, <1>4, <1>5
<1> QED
  BY <1>5, <1>7, <1>8 DEF new

\* What a condition is carried over from are the conditions of its type only.
LEMMA CarriedFromSame ==
  ASSUME NEW cs, NEW ds, NEW fresh, NEW c, CarriedFrom(cs, fresh, c),
         \A i \in DOMAIN cs : cs[i].type = fresh.type => \E j \in DOMAIN ds : ds[j] = cs[i],
         \A j \in DOMAIN ds : ds[j].type = fresh.type => \E i \in DOMAIN cs : cs[i] = ds[j]
  PROVE  CarriedFrom(ds, fresh, c)
BY DEF CarriedFrom

LEMMA CarryOverComplete ==
  ASSUME NEW Whys, NEW cs, Complete(cs, Whys),
         NEW u \in Conditions(Whys), u.type = "Updating",
         NEW a \in Conditions(Whys), a.type = "Available",
         NEW d \in Conditions(Whys), d.type = "Degraded"
  PROVE  /\ Complete(CarryOver(cs, u, a, d), Whys)
         /\ \A i \in 1..3 : Carried(cs, u, a, d, CarryOver(cs, u, a, d)[i])
         /\ a.status => \A i \in 1..3 : CarryOver(cs, u, a, d)[i].type = cs[i].type
         /\ ~a.status => /\ CarryOver(cs, u, a, d)[3].type = "Available"
                    /\ \A k \in 1..3 : cs[k].type = "Available" =>
                         \A j \in 1..2 : CarryOver(cs, u, a, d)[j].type =
                                           cs[IF j < k THEN j ELSE j + 1].type
<1> DEFINE s1 == SetStatusCondition(cs, u)
           s2 == SetAvailable(s1, a)
           s3 == SetStatusCondition(s2, d)
<1>1. CarryOver(cs, u, a, d) = s3
  BY DEF CarryOver
<1>2. Complete(s1, Whys)
  BY SetComplete
<1>3. \A i \in 1..3 : /\ s1[i].type = cs[i].type
                      /\ cs[i].type # "Updating" => s1[i] = cs[i]
                      /\ cs[i].type = "Updating" => CarriedFrom(cs, u, s1[i])
  BY SetComplete
<1> HIDE DEF s1
<1>4. CASE a.status
  <2>1. s2 = SetStatusCondition(s1, a)
    BY <1>4 DEF SetAvailable
  <2>2. Complete(s2, Whys)
    BY <1>2, <2>1, SetComplete
  <2>3. \A i \in 1..3 : /\ s2[i].type = s1[i].type
                        /\ s1[i].type # "Available" => s2[i] = s1[i]
                        /\ s1[i].type = "Available" => CarriedFrom(s1, a, s2[i])
    BY <1>2, <2>1, SetComplete, SMTT(60)
  <2> HIDE DEF s2
  <2>4. Complete(s3, Whys)
    BY <2>2, SetComplete
  <2>5. \A i \in 1..3 : /\ s3[i].type = s2[i].type
                        /\ s2[i].type # "Degraded" => s3[i] = s2[i]
                        /\ s2[i].type = "Degraded" => CarriedFrom(s2, d, s3[i])
    BY <2>2, SetComplete, SMTT(60)
  <2> HIDE DEF s3
  <2>6. DOMAIN cs = 1..3 /\ DOMAIN s1 = 1..3 /\ DOMAIN s2 = 1..3
    BY <1>2, <2>2, ThreeTypes
  <2>7. ASSUME NEW i \in 1..3 PROVE Carried(cs, u, a, d, s3[i])
    <3>1. CASE cs[i].type = "Updating"
      <4>1. s3[i] = s1[i] /\ s3[i].type = "Updating"
        BY <1>3, <2>3, <2>5, <3>1
      <4> QED
        BY <1>3, <3>1, <4>1 DEF Carried
    <3>2. CASE cs[i].type = "Available"
      <4>1. s3[i] = s2[i] /\ s3[i].type = "Available" /\ CarriedFrom(s1, a, s2[i])
        BY <1>3, <2>3, <2>5, <3>2
      <4>2. \A j \in 1..3 : s1[j].type = a.type \/ cs[j].type = a.type => s1[j] = cs[j]
        BY <1>3
      <4>3. CarriedFrom(cs, a, s2[i])
        BY <2>6, <4>1, <4>2, CarriedFromSame
      <4> QED
        BY <1>4, <4>1, <4>3 DEF Carried
    <3>3. CASE cs[i].type = "Degraded"
      <4>1. s3[i].type = "Degraded" /\ CarriedFrom(s2, d, s3[i])
        BY <1>3, <2>3, <2>5, <3>3
      <4>2. \A j \in 1..3 : s2[j].type = d.type \/ cs[j].type = d.type => s2[j] = cs[j]
        BY <1>3, <2>3
      <4>3. CarriedFrom(cs, d, s3[i])
        BY <2>6, <4>1, <4>2, CarriedFromSame
      <4> QED
        BY <4>1, <4>3 DEF Carried
    <3>4. cs[i].type \in {"Updating", "Available", "Degraded"}
      BY ThreeTypes DEF Conditions, ConditionTypes
    <3> QED
      BY <3>1, <3>2, <3>3, <3>4
  <2> QED
    BY <1>1, <1>3, <1>4, <2>3, <2>4, <2>5, <2>7
<1>5. CASE ~a.status
  <2>0. PICK k \in 1..3 : cs[k].type = "Available"
    BY DEF Complete, ConditionTypes
  <2>1. s2 = Replaced(s1, a)
    BY <1>5 DEF SetAvailable
  <2> HIDE DEF s2
  <2>2. Complete(s2, Whys)
    BY <1>2, <2>1, ReplacedComplete
  <2>3. s2[3] = a
    BY <1>2, <2>1, ReplacedComplete
  <2>4. \A m \in 1..3 : s1[m].type = "Available" =>
          \A j \in 1..2 : s2[j] = s1[IF j < m THEN j ELSE j + 1]
    BY <1>2, <2>1, ReplacedComplete
  <2>5. Complete(s3, Whys)
    BY <2>2, SetComplete
  <2>6. \A i \in 1..3 : /\ s3[i].type = s2[i].type
                        /\ s2[i].type # "Degraded" => s3[i] = s2[i]
                        /\ s2[i].type = "Degraded" => CarriedFrom(s2, d, s3[i])
    BY <2>2, SetComplete, SMTT(60)
  <2> HIDE DEF s3
  <2>7. /\ DOMAIN cs = 1..3 /\ DOMAIN s1 = 1..3 /\ DOMAIN s2 = 1..3
        /\ \A i \in 1..3 : s2[i].type \in {"Updating", "Available", "Degraded"}
        /\ \A i, j \in 1..3 : s2[i].type = s2[j].type => i = j
        /\ \A i, j \in 1..3 : s1[i].type = s1[j].type => i = j
    BY <1>2, <2>2, ThreeTypes DEF Conditions, ConditionTypes
  <2>8. \A j \in 1..2 : s2[j] = s1[IF j < k THEN j ELSE j + 1] /\ (IF j < k THEN j ELSE j + 1) \in 1..3
    BY <1>3, <2>0, <2>4
  <2>9. ASSUME NEW i \in 1..3 PROVE Carried(cs, u, a, d, s3[i])
    <3>1. CASE s2[i].type = "Updating"
      <4>1. i \in 1..2 /\ s3[i] = s2[i]
        BY <2>3, <2>6, <3>1
      <4>2. PICK j \in 1..3 : s3[i] = s1[j]
        BY <2>8, <4>1
      <4> QED
        BY <1>3, <3>1, <4>1, <4>2 DEF Carried
    <3>2. CASE s2[i].type = "Available"
      <4>1. i = 3
        BY <2>3, <2>7, <3>2
      <4>2. s3[i] = a
        BY <2>3, <2>6, <4>1
      <4> QED
        BY <1>5, <4>2 DEF Carried
    <3>3. CASE s2[i].type = "Degraded"
      <4>1. s3[i].type = "Degraded" /\ CarriedFrom(s2, d, s3[i])
        BY <2>6, <3>3
      <4>2. \A j \in 1..3 : s2[j].type = "Degraded" => \E m \in 1..3 : cs[m] = s2[j]
        <5> SUFFICES ASSUME NEW j \in 1..3, s2[j].type = "Degraded"
                     PROVE  \E m \in 1..3 : cs[m] = s2[j]
          OBVIOUS
        <5>1. j \in 1..2
          BY <2>3
        <5>2. PICK m \in 1..3 : s2[j] = s1[m]
          BY <2>8, <5>1
        <5> QED
          BY <1>3, <5>2
      <4>3. \A m \in 1..3 : cs[m].type = "Degraded" => \E j \in 1..3 : cs[m] = s2[j]
        <5> SUFFICES ASSUME NEW m \in 1..3, cs[m].type = "Degraded"
                     PROVE  \E j \in 1..3 : cs[m] = s2[j]
          OBVIOUS
        <5>1. cs[m] = s1[m] /\ m # k
          BY <1>3, <2>0
        <5>2. CASE m < k
          <6>1. m \in 1..2
            BY <5>2
          <6> QED
            BY <2>8, <5>1, <5>2, <6>1
        <5>3. CASE m > k
          <6>1. m - 1 \in 1..2 /\ ~(m - 1 < k) /\ (m - 1) + 1 = m /\ m - 1 \in 1..3
            BY <5>3
          <6>2. s2[m - 1] = s1[m]
            BY <2>8, <6>1
          <6> QED
            BY <5>1, <6>1, <6>2
        <5> QED
          BY <5>1, <5>2, <5>3
      <4>4. CarriedFrom(cs, d, s3[i])
        BY <2>7, <4>1, <4>2, <4>3, CarriedFromSame
      <4> QED
        BY <4>1, <4>4 DEF Carried
    <3> QED
      BY <2>7, <3>1, <3>2, <3>3
  <2>10. s3[3].type = "Available"
    BY <2>3, <2>6
  <2>11. \A m \in 1..3 : cs[m].type = "Available" =>
           \A j \in 1..2 : s3[j].type = cs[IF j < m THEN j ELSE j + 1].type
    <3> SUFFICES ASSUME NEW m \in 1..3, cs[m].type = "Available", NEW j \in 1..2
                 PROVE  s3[j].type = cs[IF j < m THEN j ELSE j + 1].type
      OBVIOUS
    <3>1. s2[j] = s1[IF j < m THEN j ELSE j + 1] /\ (IF j < m THEN j ELSE j + 1) \in 1..3
      BY <1>3, <2>4
    <3> QED
      BY <1>3, <2>6, <3>1
  <2> QED
    BY <1>1, <1>5, <2>5, <2>9, <2>10, <2>11
<1> QED
  BY <1>4, <1>5

-----------------------------------------------------------------------------
(* What an evaluation makes of a node.                                     *)

\* What the node itself reports are facts of Whys, with times.
Telling(node, Whys) ==
  /\ node.mcdReason \in SUBSET Whys
  /\ \A t \in node.troubles : t.reason \in Whys /\ t.since \in Nat

LEMMA EarliestExists ==
  ASSUME NEW T, T \subseteq Nat, T # {}
  PROVE  \E t \in T : \A u \in T : t <= u
<1>1. PICK t \in T : \A u \in T : ~(<<u, t>> \in OpToRel(<, Nat))
  BY NatLessThanWellFounded, WFMin
<1>2. \A u \in T : ~(u < t)
  BY <1>1 DEF OpToRel
<1> QED
  BY <1>2

LEMMA SinceType ==
  ASSUME NEW Whys, NEW node, Telling(node, Whys)
  PROVE  /\ GetUnavailableSince(node) \in Nat
         /\ GetUnavailableSince(node) = 0
              \/ \E t \in node.troubles : GetUnavailableSince(node) = t.since
<1> DEFINE times == {t.since : t \in node.troubles} \ {0}
<1>1. times \subseteq Nat /\ \A x \in times : \E t \in node.troubles : x = t.since
  BY DEF Telling
<1>2. CASE times = {}
  BY <1>2 DEF GetUnavailableSince
<1>3. CASE times # {}
  <2>1. \E t \in times : \A u \in times : t <= u
    <3> HIDE DEF times
    <3> QED
      BY <1>1, <1>3, EarliestExists
  <2>2. GetUnavailableSince(node) \in times
    BY <1>3, <2>1 DEF GetUnavailableSince
  <2> HIDE DEF times
  <2> QED
    BY <1>1, <2>2
<1> QED
  BY <1>2, <1>3

LEMMA PhaseType ==
  ASSUME NEW pool, NEW node, NEW isUpdating, NEW isUpdated
  PROVE  PhaseOf(pool, node, isUpdating, isUpdated) \in Phases
BY DEF PhaseOf, Phases, ActivePhases

LEMMA UpdatingType ==
  ASSUME NEW Whys, OwnWords \subseteq Whys, NEW phase \in Phases, NEW now \in Nat
  PROVE  UpdatingCondition(phase, now) \in Conditions(Whys)
<1>1. phase \in Whys
  BY DEF OwnWords
<1>2. (phase \in ActivePhases) \in BOOLEAN
  OBVIOUS
<1> QED
  BY <1>1, <1>2 DEF UpdatingCondition, Condition, Conditions, ConditionTypes

LEMMA AvailableType ==
  ASSUME NEW Whys, OwnWords \subseteq Whys, NEW node, Telling(node, Whys),
         NEW down, NEW now \in Nat
  PROVE  AvailableCondition(node, down, now) \in Conditions(Whys)
<1>1. UnavailableReasons(node) \in SUBSET Whys /\ {"AsExpected"} \in SUBSET Whys
  BY DEF UnavailableReasons, Telling, OwnWords
<1>2. GetUnavailableSince(node) \in Nat
  BY SinceType
<1> QED
  BY <1>1, <1>2 DEF AvailableCondition, Condition, Conditions, ConditionTypes

LEMMA DegradedType ==
  ASSUME NEW Whys, OwnWords \subseteq Whys, NEW node, Telling(node, Whys), NEW now \in Nat
  PROVE  DegradedCondition(node, now) \in Conditions(Whys)
<1>1. node.mcdReason \in SUBSET Whys /\ {"AsExpected"} \in SUBSET Whys
  BY DEF Telling, OwnWords
<1>2. IsNodeDegraded(node) \in BOOLEAN
  BY DEF IsNodeDegraded
<1> QED
  BY <1>1, <1>2 DEF DegradedCondition, Condition, Conditions, ConditionTypes

\* The conditions of an evaluation as they are before any is carried over.
FreshUpdating(node, pool, versions, target, now) ==
  UpdatingCondition(PhaseOf(pool, node, IsUpdating(node, versions, target),
                            IsUpdated(node, versions, target)), now)
FreshAvailable(node, pool, versions, target, now) ==
  AvailableCondition(node, IsDown(pool, node, IsUpdating(node, versions, target)), now)

Carriable(existing, Whys) == existing = <<>> \/ Complete(existing, Whys)

\* The condition says what the fresh one of its type says.
Says(c, updating, available, degraded) ==
  /\ c.type = "Updating"  => c.status = updating.status /\ c.why = updating.why
  /\ c.type = "Available" => c.status = available.status /\ c.why = available.why
  /\ c.type = "Degraded"  => c.status = degraded.status /\ c.why = degraded.why

LEMMA FreshTypes ==
  ASSUME NEW Whys, OwnWords \subseteq Whys, NEW node, Telling(node, Whys),
         NEW pool, NEW versions, NEW target, NEW now \in Nat
  PROVE  /\ FreshUpdating(node, pool, versions, target, now) \in Conditions(Whys)
         /\ FreshUpdating(node, pool, versions, target, now).type = "Updating"
         /\ FreshAvailable(node, pool, versions, target, now) \in Conditions(Whys)
         /\ FreshAvailable(node, pool, versions, target, now).type = "Available"
         /\ DegradedCondition(node, now) \in Conditions(Whys)
         /\ DegradedCondition(node, now).type = "Degraded"
<1> DEFINE phase == PhaseOf(pool, node, IsUpdating(node, versions, target),
                            IsUpdated(node, versions, target))
           down == IsDown(pool, node, IsUpdating(node, versions, target))
<1>1. phase \in Phases
  BY PhaseType
<1> HIDE DEF phase, down
<1>2. UpdatingCondition(phase, now) \in Conditions(Whys)
  BY <1>1, UpdatingType
<1>3. UpdatingCondition(phase, now).type = "Updating"
  BY DEF UpdatingCondition, Condition
<1>4. AvailableCondition(node, down, now) \in Conditions(Whys)
  BY AvailableType
<1>5. AvailableCondition(node, down, now).type = "Available"
  BY DEF AvailableCondition, Condition
<1>6. DegradedCondition(node, now) \in Conditions(Whys)
  BY DegradedType
<1>7. DegradedCondition(node, now).type = "Degraded"
  BY DEF DegradedCondition, Condition
<1> QED
  BY <1>2, <1>3, <1>4, <1>5, <1>6, <1>7 DEF FreshUpdating, FreshAvailable, phase, down

LEMMA EvaluationFields ==
  ASSUME NEW name, NEW node, NEW poolName, NEW pool, NEW versions, NEW target,
         NEW existing, NEW now
  PROVE  LET s == EvaluateNode(name, node, poolName, pool, versions, target, existing, now)
             fresh == EvaluateNode(name, node, poolName, pool, versions, target, <<>>, 1)
         IN  /\ s.name = name /\ s.pool = poolName
             /\ s.version = VersionFor(versions, node.current) /\ s.desiredVersion = target
             /\ s.currentConfig = node.current /\ s.desiredConfig = node.desired
             /\ s.phase = PhaseOf(pool, node, IsUpdating(node, versions, target),
                                  IsUpdated(node, versions, target))
             /\ s.message = fresh.message
             /\ s.conditions = CarryOver(existing,
                                 FreshUpdating(node, pool, versions, target, now),
                                 FreshAvailable(node, pool, versions, target, now),
                                 DegradedCondition(node, now))
BY DEF EvaluateNode, DetermineConditions, FreshUpdating, FreshAvailable

\* An evaluation has one condition of each type, each carried over from the one of its
\* type before if there was one.
LEMMA EvaluationConditions ==
  ASSUME NEW Whys, OwnWords \subseteq Whys, NEW node, Telling(node, Whys),
         NEW name, NEW poolName, NEW pool, NEW versions, NEW target,
         NEW existing, Carriable(existing, Whys), NEW now \in Nat
  PROVE  LET cs == EvaluateNode(name, node, poolName, pool, versions, target, existing, now).conditions
             u == FreshUpdating(node, pool, versions, target, now)
             a == FreshAvailable(node, pool, versions, target, now)
             d == DegradedCondition(node, now)
         IN  /\ Complete(cs, Whys)
             /\ existing # <<>> => \A i \in 1..3 : Carried(existing, u, a, d, cs[i])
             /\ \A i \in 1..3 : Says(cs[i], u, a, d)
<1> DEFINE cs == EvaluateNode(name, node, poolName, pool, versions, target, existing, now).conditions
           u == FreshUpdating(node, pool, versions, target, now)
           a == FreshAvailable(node, pool, versions, target, now)
           d == DegradedCondition(node, now)
<1>1. cs = CarryOver(existing, u, a, d)
  BY EvaluationFields
<1>2. /\ u \in Conditions(Whys) /\ u.type = "Updating"
      /\ a \in Conditions(Whys) /\ a.type = "Available"
      /\ d \in Conditions(Whys) /\ d.type = "Degraded"
  BY FreshTypes
<1> HIDE DEF cs, u, a, d
<1>3. CASE existing = <<>>
  <2>1. cs = <<u, a, d>>
    BY <1>1, <1>2, <1>3, CarryOverFirst
  <2>2. cs \in Seq(Conditions(Whys)) /\ Len(cs) = 3 /\ cs[1] = u /\ cs[2] = a /\ cs[3] = d
    BY <1>2, <2>1
  <2>3. Complete(cs, Whys)
    BY <1>2, <2>2 DEF Complete, ConditionTypes
  <2>4. \A i \in 1..3 : i = 1 \/ i = 2 \/ i = 3
    OBVIOUS
  <2>5. \A i \in 1..3 : Says(cs[i], u, a, d)
    BY <1>2, <2>2, <2>4 DEF Says
  <2> QED
    BY <1>3, <2>3, <2>5 DEF cs, u, a, d
<1>4. CASE existing # <<>>
  <2>1. Complete(existing, Whys)
    BY <1>4 DEF Carriable
  <2>2. Complete(cs, Whys)
    BY <1>1, <1>2, <2>1, CarryOverComplete
  <2>3. \A i \in 1..3 : Carried(existing, u, a, d, cs[i])
    BY <1>1, <1>2, <2>1, CarryOverComplete
  <2>4. \A i \in 1..3 : Says(cs[i], u, a, d)
    BY <2>3 DEF Carried, CarriedFrom, Says
  <2> QED
    BY <1>4, <2>2, <2>3, <2>4 DEF cs, u, a, d
<1> QED
  BY <1>3, <1>4

-----------------------------------------------------------------------------
(* What is shown depends on the node, its pool and the versions only.      *)

ShownConditions(cs) ==
  {<<cs[i].type, cs[i].status, cs[i].why>> : i \in DOMAIN cs}

LEMMA SameShown ==
  ASSUME NEW Whys, NEW cs, Complete(cs, Whys), NEW ds, Complete(ds, Whys),
         \A i, j \in 1..3 : cs[i].type = ds[j].type =>
            cs[i].status = ds[j].status /\ cs[i].why = ds[j].why
  PROVE  ShownConditions(cs) = ShownConditions(ds)
<1> DEFINE entry(c) == <<c.type, c.status, c.why>>
<1>1. DOMAIN cs = 1..3 /\ DOMAIN ds = 1..3
  BY ThreeTypes
<1>2. \A i \in 1..3 : cs[i].type \in ConditionTypes /\ ds[i].type \in ConditionTypes
  BY ThreeTypes DEF Conditions
<1>3. \A i \in 1..3 : \E j \in 1..3 : ds[j].type = cs[i].type
  BY <1>2 DEF Complete
<1>4. \A j \in 1..3 : \E i \in 1..3 : cs[i].type = ds[j].type
  BY <1>2 DEF Complete
<1>5. \A i, j \in 1..3 : cs[i].type = ds[j].type => entry(cs[i]) = entry(ds[j])
  BY Zenon
<1>6. ShownConditions(cs) = {entry(cs[i]) : i \in 1..3} /\ ShownConditions(ds) = {entry(ds[i]) : i \in 1..3}
  BY <1>1 DEF ShownConditions
<1> HIDE DEF entry
<1> QED
  BY <1>3, <1>4, <1>5, <1>6

LEMMA FreshSame ==
  ASSUME NEW node, NEW pool, NEW versions, NEW target, NEW now, NEW later
  PROVE  /\ FreshUpdating(node, pool, versions, target, now).status =
            FreshUpdating(node, pool, versions, target, later).status
         /\ FreshUpdating(node, pool, versions, target, now).why =
            FreshUpdating(node, pool, versions, target, later).why
         /\ FreshAvailable(node, pool, versions, target, now).status =
            FreshAvailable(node, pool, versions, target, later).status
         /\ FreshAvailable(node, pool, versions, target, now).why =
            FreshAvailable(node, pool, versions, target, later).why
         /\ DegradedCondition(node, now).status = DegradedCondition(node, later).status
         /\ DegradedCondition(node, now).why = DegradedCondition(node, later).why
BY DEF FreshUpdating, FreshAvailable, UpdatingCondition, AvailableCondition, DegradedCondition,
       Condition

\* What an insight shows of an evaluation depends on the node, its pool, the versions and
\* the target only: EvaluateNode may be given any conditions stored before, and any time.
THEOREM EvaluationShown ==
  ASSUME NEW Whys, OwnWords \subseteq Whys, NEW node, Telling(node, Whys),
         NEW name, NEW poolName, NEW pool, NEW versions, NEW target,
         NEW existing, Carriable(existing, Whys), NEW now \in Nat,
         NEW other, Carriable(other, Whys), NEW later \in Nat
  PROVE  Shown(EvaluateNode(name, node, poolName, pool, versions, target, existing, now)) =
         Shown(EvaluateNode(name, node, poolName, pool, versions, target, other, later))
<1> DEFINE s == EvaluateNode(name, node, poolName, pool, versions, target, existing, now)
           t == EvaluateNode(name, node, poolName, pool, versions, target, other, later)
           u == FreshUpdating(node, pool, versions, target, now)
           a == FreshAvailable(node, pool, versions, target, now)
           d == DegradedCondition(node, now)
           v == FreshUpdating(node, pool, versions, target, later)
           b == FreshAvailable(node, pool, versions, target, later)
           e == DegradedCondition(node, later)
<1>1. /\ s.pool = t.pool /\ s.version = t.version /\ s.desiredVersion = t.desiredVersion
      /\ s.currentConfig = t.currentConfig /\ s.desiredConfig = t.desiredConfig
      /\ s.phase = t.phase /\ s.message = t.message
  BY EvaluationFields
<1>2. Complete(s.conditions, Whys)
  BY EvaluationConditions
<1>3. \A i \in 1..3 : Says(s.conditions[i], u, a, d)
  BY EvaluationConditions
<1>4. Complete(t.conditions, Whys)
  BY EvaluationConditions
<1>5. \A i \in 1..3 : Says(t.conditions[i], v, b, e)
  BY EvaluationConditions
<1>6. /\ u.status = v.status /\ u.why = v.why /\ a.status = b.status /\ a.why = b.why
      /\ d.status = e.status /\ d.why = e.why
  BY FreshSame
<1> HIDE DEF s, t, u, a, d, v, b, e
<1>7. \A i \in 1..3 : s.conditions[i].type \in {"Updating", "Available", "Degraded"}
  BY <1>2, ThreeTypes DEF Conditions, ConditionTypes
<1>8. \A i, j \in 1..3 : s.conditions[i].type = t.conditions[j].type =>
         s.conditions[i].status = t.conditions[j].status /\ s.conditions[i].why = t.conditions[j].why
  BY <1>3, <1>5, <1>6, <1>7 DEF Says
<1>9. ShownConditions(s.conditions) = ShownConditions(t.conditions)
  BY <1>2, <1>4, <1>8, SameShown
<1>10. Shown(s) = Shown(t)
  BY <1>1, <1>9 DEF Shown, ShownConditions
<1> QED
  BY <1>10 DEF s, t

-----------------------------------------------------------------------------
(* What the hash tells.                                                    *)

HashedFields(s) ==
  <<{s.name}, {s.pool}>>
    \o Written(s.version) \o Written(s.desiredVersion)
    \o Written(s.currentConfig) \o Written(s.desiredConfig)
    \o <<{s.phase}>> \o (IF s.message = {} THEN <<>> ELSE <<s.message>>)

HashedCondition(c) == {c.type, IF c.status THEN "True" ELSE "False"} \cup c.why

HashedConditions(s) == [i \in DOMAIN s.conditions |-> HashedCondition(s.conditions[i])]

LEMMA HashParts ==
  ASSUME NEW s
  PROVE  ComputeHash(s) = HashedFields(s) \o HashedConditions(s)
BY DEF ComputeHash, HashedFields, HashedConditions, HashedCondition

\* Evaluating the same again leaves the conditions in the order they are in.
LEMMA EvaluationOrder ==
  ASSUME NEW Whys, OwnWords \subseteq Whys, NEW node, Telling(node, Whys),
         NEW name, NEW poolName, NEW pool, NEW versions, NEW target,
         NEW existing, Complete(existing, Whys), NEW now \in Nat, NEW later \in Nat
  PROVE  LET once == EvaluateNode(name, node, poolName, pool, versions, target, existing, now)
             again == EvaluateNode(name, node, poolName, pool, versions, target, once.conditions, later)
         IN  \A i \in 1..3 : again.conditions[i].type = once.conditions[i].type
<1> DEFINE once == EvaluateNode(name, node, poolName, pool, versions, target, existing, now)
           again == EvaluateNode(name, node, poolName, pool, versions, target, once.conditions, later)
           cs == once.conditions
           ds == again.conditions
           u == FreshUpdating(node, pool, versions, target, now)
           a == FreshAvailable(node, pool, versions, target, now)
           d == DegradedCondition(node, now)
           v == FreshUpdating(node, pool, versions, target, later)
           b == FreshAvailable(node, pool, versions, target, later)
           e == DegradedCondition(node, later)
<1>1. cs = CarryOver(existing, u, a, d)
  BY EvaluationFields
<1>2. ds = CarryOver(cs, v, b, e)
  BY EvaluationFields
<1>3. /\ u \in Conditions(Whys) /\ u.type = "Updating"
      /\ a \in Conditions(Whys) /\ a.type = "Available"
      /\ d \in Conditions(Whys) /\ d.type = "Degraded"
  BY FreshTypes
<1>4. /\ v \in Conditions(Whys) /\ v.type = "Updating"
      /\ b \in Conditions(Whys) /\ b.type = "Available"
      /\ e \in Conditions(Whys) /\ e.type = "Degraded"
  BY FreshTypes
<1>5. a.status = b.status
  BY FreshSame
<1> HIDE DEF once, again, cs, ds, u, a, d, v, b, e
<1>6. Complete(cs, Whys)
  BY <1>1, <1>3, CarryOverComplete
<1>7. CASE b.status
  <2>1. \A i \in 1..3 : ds[i].type = cs[i].type
    BY <1>2, <1>4, <1>6, <1>7, CarryOverComplete
  <2> QED
    BY <2>1 DEF once, again, cs, ds
<1>8. CASE ~b.status
  <2>0. ~a.status
    BY <1>5, <1>8
  <2>1. cs[3].type = "Available"
    BY <1>1, <1>3, <2>0, CarryOverComplete
  <2>2. ds[3].type = "Available"
    BY <1>2, <1>4, <1>6, <1>8, CarryOverComplete
  <2>3. \A k \in 1..3 : cs[k].type = "Available" =>
          \A j \in 1..2 : ds[j].type = cs[IF j < k THEN j ELSE j + 1].type
    BY <1>2, <1>4, <1>6, <1>8, CarryOverComplete
  <2>4. \A j \in 1..2 : ds[j].type = cs[j].type
    BY <2>1, <2>3
  <2>5. \A i \in 1..3 : i \in 1..2 \/ i = 3
    OBVIOUS
  <2>6. \A i \in 1..3 : ds[i].type = cs[i].type
    BY <2>1, <2>2, <2>4, <2>5
  <2> QED
    BY <2>6 DEF once, again, cs, ds
<1> QED
  BY <1>7, <1>8

\* The second evaluation of an unchanged node has the hash of the first, whenever
\* it is made.
LEMMA EvaluationSettles ==
  ASSUME NEW Whys, OwnWords \subseteq Whys, NEW node, Telling(node, Whys),
         NEW name, NEW poolName, NEW pool, NEW versions, NEW target,
         NEW existing, Complete(existing, Whys), NEW now \in Nat, NEW later \in Nat
  PROVE  LET once == EvaluateNode(name, node, poolName, pool, versions, target, existing, now)
             again == EvaluateNode(name, node, poolName, pool, versions, target, once.conditions, later)
         IN  ComputeHash(once) = ComputeHash(again)
<1> DEFINE once == EvaluateNode(name, node, poolName, pool, versions, target, existing, now)
           again == EvaluateNode(name, node, poolName, pool, versions, target, once.conditions, later)
           cs == once.conditions
           ds == again.conditions
           u == FreshUpdating(node, pool, versions, target, now)
           a == FreshAvailable(node, pool, versions, target, now)
           d == DegradedCondition(node, now)
           v == FreshUpdating(node, pool, versions, target, later)
           b == FreshAvailable(node, pool, versions, target, later)
           e == DegradedCondition(node, later)
<1>0. Carriable(existing, Whys)
  BY DEF Carriable
<1>1. Complete(cs, Whys)
  BY <1>0, EvaluationConditions
<1>2. \A i \in 1..3 : Says(cs[i], u, a, d)
  BY <1>0, EvaluationConditions
<1>3. Carriable(cs, Whys)
  BY <1>1 DEF Carriable
<1> HIDE DEF cs
<1>4. Complete(ds, Whys)
  BY <1>3, EvaluationConditions DEF cs
<1>5. \A i \in 1..3 : Says(ds[i], v, b, e)
  BY <1>3, EvaluationConditions DEF cs
<1>6. \A i \in 1..3 : ds[i].type = cs[i].type
  BY EvaluationOrder DEF cs
<1>7. /\ u.status = v.status /\ u.why = v.why /\ a.status = b.status /\ a.why = b.why
      /\ d.status = e.status /\ d.why = e.why
  BY FreshSame
<1>8. HashedFields(once) = HashedFields(again)
  <2>1. /\ once.name = again.name /\ once.pool = again.pool /\ once.version = again.version
        /\ once.desiredVersion = again.desiredVersion
        /\ once.currentConfig = again.currentConfig /\ once.desiredConfig = again.desiredConfig
        /\ once.phase = again.phase /\ once.message = again.message
    BY EvaluationFields
  <2> HIDE DEF once, again
  <2> QED
    BY <2>1 DEF HashedFields
<1> HIDE DEF once, again, ds, u, a, d, v, b, e
<1>9. \A i \in 1..3 : cs[i].type \in {"Updating", "Available", "Degraded"}
  BY <1>1, ThreeTypes DEF Conditions, ConditionTypes
<1>10. \A i \in 1..3 : HashedCondition(cs[i]) = HashedCondition(ds[i])
  <2>1. \A i \in 1..3 : cs[i].status = ds[i].status /\ cs[i].why = ds[i].why
    BY <1>2, <1>5, <1>6, <1>7, <1>9 DEF Says
  <2> QED
    BY <1>6, <2>1 DEF HashedCondition
<1>11. DOMAIN cs = 1..3 /\ DOMAIN ds = 1..3
  BY <1>1, <1>4, ThreeTypes
<1>12. HashedConditions(once) = HashedConditions(again)
  BY <1>10, <1>11 DEF HashedConditions, cs, ds
<1> QED
  BY <1>8, <1>12, HashParts DEF once, again

LEMMA TailSame ==
  ASSUME NEW S, NEW p \in Seq(S), NEW q \in Seq(S), NEW c \in Seq(S), NEW d \in Seq(S),
         Len(c) = Len(d), p \o c = q \o d
  PROVE  c = d
<1>1. /\ p \o c \in Seq(S) /\ Len(p \o c) = Len(p) + Len(c)
      /\ \A i \in Len(p) + 1..Len(p) + Len(c) : (p \o c)[i] = c[i - Len(p)]
  BY ConcatProperties, SMTT(60)
<1>2. /\ q \o d \in Seq(S) /\ Len(q \o d) = Len(q) + Len(d)
      /\ \A i \in Len(q) + 1..Len(q) + Len(d) : (q \o d)[i] = d[i - Len(q)]
  BY ConcatProperties
<1>3. Len(p) \in Nat /\ Len(q) \in Nat /\ Len(c) \in Nat
  OBVIOUS
<1>4. Len(p) = Len(q)
  BY <1>1, <1>2, <1>3
<1>5. ASSUME NEW i \in 1..Len(c) PROVE c[i] = d[i]
  <2>1. i + Len(p) \in Len(p) + 1..Len(p) + Len(c) /\ (i + Len(p)) - Len(p) = i
    BY <1>3
  <2>2. (p \o c)[i + Len(p)] = c[i]
    BY <1>1, <2>1
  <2>3. (q \o d)[i + Len(p)] = d[i]
    BY <1>2, <1>4, <2>1
  <2> QED
    BY <2>2, <2>3
<1> QED
  BY <1>5, SeqEqual

LEMMA TailCancels ==
  ASSUME NEW S, NEW p \in Seq(S), NEW q \in Seq(S), NEW c \in Seq(S), NEW d \in Seq(S),
         Len(c) = Len(d), p \o c = q \o d
  PROVE  p = q /\ c = d
<1>1. Len(p \o c) = Len(p) + Len(c) /\ Len(q \o d) = Len(q) + Len(d)
  BY ConcatProperties
<1>2. \A i \in 1..Len(p) : (p \o c)[i] = p[i]
  BY ConcatProperties
<1>3. \A i \in 1..Len(q) : (q \o d)[i] = q[i]
  BY ConcatProperties
<1>4. Len(p) = Len(q) /\ \A i \in 1..Len(p) : p[i] = q[i]
  BY <1>1, <1>2, <1>3
<1>5. p = q
  BY <1>4, SeqEqual
<1> QED
  BY <1>5, TailSame

\* What the hash needs to be read back.  The facts a node reports are told apart from
\* the words the controller writes itself; there is a target version; and a node has
\* both its configs or neither.
Vocabulary(Facts) == Facts \cap (Phases \cup ConditionTypes \cup {"True", "False"}) = {}

Notes == {"AsExpected", "Unschedulable", "WorkInProgress"}

Legible(s, Facts) ==
  /\ Complete(s.conditions, Facts \cup OwnWords)
  /\ \A i \in 1..3 : IF s.conditions[i].type = "Updating"
                      THEN s.conditions[i].why = {s.phase}
                      ELSE s.conditions[i].why \subseteq Facts \cup Notes
  /\ s.phase \in Phases /\ s.message \subseteq Facts \cup Notes
  /\ s.desiredVersion # None
  /\ s.currentConfig = None <=> s.desiredConfig = None
  /\ s.version # None => s.currentConfig # None

LEMMA WrittenType ==
  ASSUME NEW S, NEW v, {v} \in S
  PROVE  /\ Written(v) \in Seq(S)
         /\ v = None => Len(Written(v)) = 0
         /\ v # None => Len(Written(v)) = 1 /\ Written(v)[1] = {v}
BY DEF Written

LEMMA WrittenTells ==
  ASSUME NEW v, NEW w, Written(v) = Written(w)
  PROVE  v = w
<1>1. /\ v = None => Len(Written(v)) = 0
      /\ v # None => Len(Written(v)) = 1 /\ Written(v)[1] = {v}
  BY DEF Written
<1>2. /\ w = None => Len(Written(w)) = 0
      /\ w # None => Len(Written(w)) = 1 /\ Written(w)[1] = {w}
  BY DEF Written
<1> QED
  BY <1>1, <1>2

Configs(s) == <<{s.name}, {s.pool}>> \o Written(s.version) \o Written(s.desiredVersion)
                \o Written(s.currentConfig) \o Written(s.desiredConfig)
Said(s)    == IF s.message = {} THEN <<>> ELSE <<s.message>>

LEMMA FieldsParts ==
  ASSUME NEW s
  PROVE  HashedFields(s) = Configs(s) \o <<{s.phase}>> \o Said(s)
BY DEF HashedFields, Configs, Said

\* What a state writes, as a set the sequences are over.
Text(s) == {{s.name}, {s.pool}, {s.version}, {s.desiredVersion}, {s.currentConfig},
            {s.desiredConfig}, {s.phase}, s.message}

LEMMA ConfigsType ==
  ASSUME NEW S, NEW s, Text(s) \subseteq S, NEW Facts, Legible(s, Facts)
  PROVE  /\ Configs(s) \in Seq(S)
         /\ Len(Configs(s)) = 3 + (IF s.version = None THEN 0 ELSE 1)
                               + (IF s.currentConfig = None THEN 0 ELSE 2)
<1>1. /\ {s.name} \in S /\ {s.pool} \in S /\ {s.version} \in S /\ {s.desiredVersion} \in S
      /\ {s.currentConfig} \in S /\ {s.desiredConfig} \in S
  BY DEF Text
<1> DEFINE p1 == <<{s.name}, {s.pool}>>
           p2 == p1 \o Written(s.version)
           p3 == p2 \o Written(s.desiredVersion)
           p4 == p3 \o Written(s.currentConfig)
           p5 == p4 \o Written(s.desiredConfig)
<1>2. p1 \in Seq(S) /\ Len(p1) = 2
  BY <1>1
<1>3. /\ Written(s.version) \in Seq(S)
      /\ Len(Written(s.version)) = IF s.version = None THEN 0 ELSE 1
  BY <1>1, WrittenType
<1>4. /\ Written(s.desiredVersion) \in Seq(S)
      /\ Len(Written(s.desiredVersion)) = 1
  BY <1>1, WrittenType DEF Legible
<1>5. /\ Written(s.currentConfig) \in Seq(S)
      /\ Len(Written(s.currentConfig)) = IF s.currentConfig = None THEN 0 ELSE 1
  BY <1>1, WrittenType
<1>6. /\ Written(s.desiredConfig) \in Seq(S)
      /\ Len(Written(s.desiredConfig)) = IF s.currentConfig = None THEN 0 ELSE 1
  BY <1>1, WrittenType DEF Legible
<1> HIDE DEF p1
<1>7. p2 \in Seq(S) /\ Len(p2) = Len(p1) + Len(Written(s.version))
  BY <1>2, <1>3, ConcatProperties
<1> HIDE DEF p2
<1>8. p3 \in Seq(S) /\ Len(p3) = Len(p2) + Len(Written(s.desiredVersion))
  BY <1>4, <1>7, ConcatProperties
<1> HIDE DEF p3
<1>9. p4 \in Seq(S) /\ Len(p4) = Len(p3) + Len(Written(s.currentConfig))
  BY <1>5, <1>8, ConcatProperties
<1> HIDE DEF p4
<1>10. p5 \in Seq(S) /\ Len(p5) = Len(p4) + Len(Written(s.desiredConfig))
  BY <1>6, <1>9, ConcatProperties
<1>11. Configs(s) = p5
  BY DEF Configs, p1, p2, p3, p4
<1> HIDE DEF p5
<1> QED
  BY <1>2, <1>3, <1>4, <1>5, <1>6, <1>7, <1>8, <1>9, <1>10, <1>11, SMTT(60)

LEMMA SaidType ==
  ASSUME NEW S, NEW s, Text(s) \subseteq S
  PROVE  /\ Said(s) \in Seq(S) /\ <<{s.phase}>> \in Seq(S)
         /\ Len(Said(s)) = IF s.message = {} THEN 0 ELSE 1
BY DEF Said, Text

\* A state that says nothing is not taken for one that has a message.
LEMMA SilenceTells ==
  ASSUME NEW Facts, Vocabulary(Facts), NEW s, Legible(s, Facts), NEW t, Legible(t, Facts),
         HashedFields(s) = HashedFields(t), s.message = {}
  PROVE  t.message = {}
<1> SUFFICES ASSUME t.message # {} PROVE FALSE
  OBVIOUS
<1> DEFINE S == Text(s) \cup Text(t)
           p == Configs(s)
           q == Configs(t) \o <<{t.phase}>>
<1>1. Text(s) \subseteq S /\ Text(t) \subseteq S
  OBVIOUS
<1> HIDE DEF S
<1>2. p \in Seq(S) /\ Configs(t) \in Seq(S)
  BY <1>1, ConfigsType
<1>3. /\ <<{s.phase}>> \in Seq(S) /\ <<{t.phase}>> \in Seq(S) /\ <<t.message>> \in Seq(S)
  BY <1>1 DEF Text
<1>4. q \in Seq(S)
  BY <1>2, <1>3, ConcatProperties
<1>5. HashedFields(s) = p \o <<{s.phase}>>
  <2>1. Said(s) = <<>>
    BY DEF Said
  <2>2. (p \o <<{s.phase}>>) \in Seq(S)
    BY <1>2, <1>3, ConcatProperties
  <2>3. HashedFields(s) = (p \o <<{s.phase}>>) \o <<>>
    BY <2>1, FieldsParts
  <2> HIDE DEF p
  <2> QED
    BY <2>2, <2>3, ConcatEmptySeq
<1>6. HashedFields(t) = q \o <<t.message>>
  BY FieldsParts DEF Said
<1> HIDE DEF p, q
<1>7. <<{s.phase}>> = <<t.message>>
  <2>1. Len(<<{s.phase}>>) = Len(<<t.message>>)
    OBVIOUS
  <2>2. p \o <<{s.phase}>> = q \o <<t.message>>
    BY <1>5, <1>6
  <2> QED
    BY <1>2, <1>3, <1>4, <2>1, <2>2, TailCancels
<1>8. s.phase \in t.message
  BY <1>7
<1>9. s.phase \notin Facts \cup Notes
  BY DEF Legible, Vocabulary, Notes, Phases, ActivePhases
<1> QED
  BY <1>8, <1>9 DEF Legible

LEMMA FieldsTell ==
  ASSUME NEW Facts, Vocabulary(Facts), NEW s, Legible(s, Facts), NEW t, Legible(t, Facts),
         HashedFields(s) = HashedFields(t)
  PROVE  /\ s.name = t.name /\ s.pool = t.pool /\ s.version = t.version
         /\ s.desiredVersion = t.desiredVersion /\ s.currentConfig = t.currentConfig
         /\ s.desiredConfig = t.desiredConfig /\ s.phase = t.phase /\ s.message = t.message
<1> DEFINE S == Text(s) \cup Text(t)
<1>1. Text(s) \subseteq S /\ Text(t) \subseteq S
  OBVIOUS
<1>2. /\ {s.name} \in S /\ {s.pool} \in S /\ {s.version} \in S /\ {s.desiredVersion} \in S
      /\ {s.currentConfig} \in S /\ {s.desiredConfig} \in S
      /\ {t.name} \in S /\ {t.pool} \in S /\ {t.version} \in S /\ {t.desiredVersion} \in S
      /\ {t.currentConfig} \in S /\ {t.desiredConfig} \in S
  BY DEF Text
<1> HIDE DEF S
<1>3. s.message = {} <=> t.message = {}
  BY SilenceTells
<1>4. Configs(s) \in Seq(S) /\ Configs(t) \in Seq(S)
  BY <1>1, ConfigsType
<1>5. /\ Said(s) \in Seq(S) /\ <<{s.phase}>> \in Seq(S)
      /\ Len(Said(s)) = IF s.message = {} THEN 0 ELSE 1
  BY <1>1, SaidType
<1>6. /\ Said(t) \in Seq(S) /\ <<{t.phase}>> \in Seq(S)
      /\ Len(Said(t)) = IF t.message = {} THEN 0 ELSE 1
  BY <1>1, SaidType
<1> DEFINE p5 == Configs(s)
           q5 == Configs(t)
           sp == <<{s.phase}>>
           tp == <<{t.phase}>>
           p6 == p5 \o sp
           q6 == q5 \o tp
<1>7. p6 = q6 /\ Said(s) = Said(t)
  <2>1. p6 \in Seq(S)
    BY <1>4, <1>5, ConcatProperties
  <2>2. q6 \in Seq(S)
    BY <1>4, <1>6, ConcatProperties
  <2>3. Len(Said(s)) = Len(Said(t))
    BY <1>3, <1>5, <1>6
  <2>4. p6 \o Said(s) = q6 \o Said(t)
    BY FieldsParts
  <2> HIDE DEF p6, q6
  <2> QED
    BY <1>5, <1>6, <2>1, <2>2, <2>3, <2>4, TailCancels
<1>8. Configs(s) = Configs(t) /\ <<{s.phase}>> = <<{t.phase}>>
  <2>1. Len(sp) = Len(tp) /\ sp \in Seq(S) /\ tp \in Seq(S) /\ p5 \in Seq(S) /\ q5 \in Seq(S)
    BY <1>4, <1>5, <1>6
  <2>2. p5 \o sp = q5 \o tp
    BY <1>7
  <2>3. p5 = q5 /\ sp = tp
    <3> HIDE DEF p5, q5, sp, tp, p6, q6
    <3> QED
      BY <2>1, <2>2, TailCancels
  <2> QED
    BY <2>3
<1> HIDE DEF p5, q5, sp, tp, p6, q6
<1>9. s.phase = t.phase
  <2>1. {s.phase} = {t.phase}
    BY <1>8
  <2> QED
    BY <2>1
<1>10. s.message = t.message
  BY <1>3, <1>7 DEF Said
<1>11. /\ s.version = None <=> t.version = None
       /\ s.currentConfig = None <=> t.currentConfig = None
  <2>1. Len(Configs(s)) = 3 + (IF s.version = None THEN 0 ELSE 1)
                            + (IF s.currentConfig = None THEN 0 ELSE 2)
    BY <1>1, ConfigsType
  <2>2. Len(Configs(t)) = 3 + (IF t.version = None THEN 0 ELSE 1)
                            + (IF t.currentConfig = None THEN 0 ELSE 2)
    BY <1>1, ConfigsType
  <2> QED
    BY <1>8, <2>1, <2>2
<1>12. s.desiredConfig = None <=> t.desiredConfig = None
  BY <1>11 DEF Legible
<1> DEFINE p1 == <<{s.name}, {s.pool}>>
           p2 == p1 \o Written(s.version)
           p3 == p2 \o Written(s.desiredVersion)
           p4 == p3 \o Written(s.currentConfig)
           q1 == <<{t.name}, {t.pool}>>
           q2 == q1 \o Written(t.version)
           q3 == q2 \o Written(t.desiredVersion)
           q4 == q3 \o Written(t.currentConfig)
<1>13. /\ Written(s.version) \in Seq(S) /\ Written(t.version) \in Seq(S)
       /\ Len(Written(s.version)) = Len(Written(t.version))
  BY <1>2, <1>11, WrittenType
<1>14. /\ Written(s.desiredVersion) \in Seq(S) /\ Written(t.desiredVersion) \in Seq(S)
       /\ Len(Written(s.desiredVersion)) = Len(Written(t.desiredVersion))
  BY <1>2, WrittenType DEF Legible
<1>15. /\ Written(s.currentConfig) \in Seq(S) /\ Written(t.currentConfig) \in Seq(S)
       /\ Len(Written(s.currentConfig)) = Len(Written(t.currentConfig))
  BY <1>2, <1>11, WrittenType
<1>16. /\ Written(s.desiredConfig) \in Seq(S) /\ Written(t.desiredConfig) \in Seq(S)
       /\ Len(Written(s.desiredConfig)) = Len(Written(t.desiredConfig))
  BY <1>2, <1>12, WrittenType
<1>17. p1 \in Seq(S) /\ q1 \in Seq(S)
  BY <1>2
<1>18. p2 \in Seq(S) /\ q2 \in Seq(S)
  BY <1>13, <1>17, ConcatProperties
<1>19. p3 \in Seq(S) /\ q3 \in Seq(S)
  BY <1>14, <1>18, ConcatProperties
<1>20. p4 \in Seq(S) /\ q4 \in Seq(S)
  BY <1>15, <1>19, ConcatProperties
<1>21. p4 = q4 /\ Written(s.desiredConfig) = Written(t.desiredConfig)
  <2>1. p4 \o Written(s.desiredConfig) = q4 \o Written(t.desiredConfig)
    BY <1>8 DEF Configs
  <2> HIDE DEF p4, q4
  <2> QED
    BY <1>16, <1>20, <2>1, TailCancels
<1>22. p3 = q3 /\ Written(s.currentConfig) = Written(t.currentConfig)
  <2>1. p3 \o Written(s.currentConfig) = q3 \o Written(t.currentConfig)
    BY <1>21
  <2> HIDE DEF p3, q3
  <2> QED
    BY <1>15, <1>19, <2>1, TailCancels
<1>23. p2 = q2 /\ Written(s.desiredVersion) = Written(t.desiredVersion)
  <2>1. p2 \o Written(s.desiredVersion) = q2 \o Written(t.desiredVersion)
    BY <1>22
  <2> HIDE DEF p2, q2
  <2> QED
    BY <1>14, <1>18, <2>1, TailCancels
<1>24. p1 = q1 /\ Written(s.version) = Written(t.version)
  <2>1. p1 \o Written(s.version) = q1 \o Written(t.version)
    BY <1>23
  <2> HIDE DEF p1, q1
  <2> QED
    BY <1>13, <1>17, <2>1, TailCancels
<1>25. s.name = t.name /\ s.pool = t.pool
  <2>1. {s.name} = {t.name} /\ {s.pool} = {t.pool}
    BY <1>24
  <2> QED
    BY <2>1
<1> HIDE DEF p1, p2, p3, p4, q1, q2, q3, q4
<1> QED
  BY <1>9, <1>10, <1>21, <1>22, <1>23, <1>24, <1>25, WrittenTells

\* A condition's entry in the hash tells its type, its status and its why.
LEMMA ConditionTells ==
  ASSUME NEW Facts, Vocabulary(Facts), NEW phase \in Phases,
         NEW c \in Conditions(Facts \cup OwnWords), NEW d \in Conditions(Facts \cup OwnWords),
         IF c.type = "Updating" THEN c.why = {phase} ELSE c.why \subseteq Facts \cup Notes,
         IF d.type = "Updating" THEN d.why = {phase} ELSE d.why \subseteq Facts \cup Notes,
         HashedCondition(c) = HashedCondition(d)
  PROVE  c.type = d.type /\ c.status = d.status /\ c.why = d.why
<1>1. c.type \in {"Updating", "Available", "Degraded"} /\ d.type \in {"Updating", "Available", "Degraded"}
  BY DEF Conditions, ConditionTypes
<1>2. /\ \A x \in Facts \cup Notes : x \notin {"Updating", "Available", "Degraded", "True", "False"}
      /\ phase \notin {"Available", "Degraded", "True", "False"}
  BY DEF Vocabulary, Notes, Phases, ActivePhases, ConditionTypes
<1>3. c.type = d.type
  <2>1. "Available" \in HashedCondition(c) <=> c.type = "Available"
    BY <1>1, <1>2 DEF HashedCondition
  <2>2. "Available" \in HashedCondition(d) <=> d.type = "Available"
    BY <1>1, <1>2 DEF HashedCondition
  <2>3. "Degraded" \in HashedCondition(c) <=> c.type = "Degraded"
    BY <1>1, <1>2 DEF HashedCondition
  <2>4. "Degraded" \in HashedCondition(d) <=> d.type = "Degraded"
    BY <1>1, <1>2 DEF HashedCondition
  <2> QED
    BY <1>1, <2>1, <2>2, <2>3, <2>4
<1>4. c.status = d.status
  <2>1. "True" \in HashedCondition(c) <=> c.status
    BY <1>1, <1>2 DEF HashedCondition
  <2>2. "True" \in HashedCondition(d) <=> d.status
    BY <1>1, <1>2 DEF HashedCondition
  <2>3. c.status \in BOOLEAN /\ d.status \in BOOLEAN
    BY DEF Conditions
  <2> QED
    BY <2>1, <2>2, <2>3
<1>5. c.why = d.why
  <2>1. CASE c.type = "Updating"
    BY <1>3, <2>1
  <2>2. CASE c.type # "Updating"
    <3>1. c.why = HashedCondition(c) \ {"Updating", "Available", "Degraded", "True", "False"}
      BY <1>1, <1>2, <2>2 DEF HashedCondition
    <3>2. d.why = HashedCondition(d) \ {"Updating", "Available", "Degraded", "True", "False"}
      BY <1>1, <1>2, <1>3, <2>2 DEF HashedCondition
    <3> QED
      BY <3>1, <3>2
  <2> QED
    BY <2>1, <2>2
<1> QED
  BY <1>3, <1>4, <1>5

\* ComputeHash tells two legible states apart whenever an insight would show them
\* differently, although an empty field leaves no trace in what it writes.
THEOREM HashTells ==
  ASSUME NEW Facts, Vocabulary(Facts), NEW s, Legible(s, Facts), NEW t, Legible(t, Facts),
         ComputeHash(s) = ComputeHash(t)
  PROVE  Shown(s) = Shown(t)
<1> DEFINE cs == s.conditions
           ds == t.conditions
           Whys == Facts \cup OwnWords
           S == Text(s) \cup Text(t) \cup {HashedCondition(cs[i]) : i \in 1..3}
                  \cup {HashedCondition(ds[i]) : i \in 1..3}
           fs == HashedFields(s)
           ft == HashedFields(t)
           hs == HashedConditions(s)
           ht == HashedConditions(t)
<1>1. Complete(cs, Whys) /\ Complete(ds, Whys)
  BY DEF Legible
<1>2. /\ DOMAIN cs = 1..3 /\ DOMAIN ds = 1..3
      /\ \A i \in 1..3 : cs[i] \in Conditions(Whys) /\ ds[i] \in Conditions(Whys)
      /\ \A i, j \in 1..3 : ds[i].type = ds[j].type => i = j
  BY <1>1, ThreeTypes
<1>3. /\ Text(s) \subseteq S /\ Text(t) \subseteq S
      /\ \A i \in 1..3 : HashedCondition(cs[i]) \in S /\ HashedCondition(ds[i]) \in S
  OBVIOUS
<1> HIDE DEF S, Whys
<1>4. hs = [i \in 1..3 |-> HashedCondition(cs[i])] /\ ht = [i \in 1..3 |-> HashedCondition(ds[i])]
  BY <1>2 DEF HashedConditions
<1> HIDE DEF cs, ds
<1>5. hs \in Seq(S) /\ ht \in Seq(S) /\ Len(hs) = Len(ht)
  <2> HIDE DEF hs, ht
  <2>1. hs \in Seq(S)
    BY <1>3, <1>4
  <2>2. ht \in Seq(S)
    BY <1>3, <1>4
  <2>3. Len(hs) = 3
    BY <1>4
  <2>4. Len(ht) = 3
    BY <1>4
  <2> QED
    BY <2>1, <2>2, <2>3, <2>4
<1>6. fs \in Seq(S) /\ ft \in Seq(S)
  <2> DEFINE sp == <<{s.phase}>>
             tp == <<{t.phase}>>
             p5 == Configs(s)
             q5 == Configs(t)
             p6 == p5 \o sp
             q6 == q5 \o tp
  <2>1. p5 \in Seq(S) /\ q5 \in Seq(S)
    BY <1>3, ConfigsType
  <2>2. Said(s) \in Seq(S) /\ sp \in Seq(S) /\ Said(t) \in Seq(S) /\ tp \in Seq(S)
    BY <1>3, SaidType
  <2>3. fs = p6 \o Said(s) /\ ft = q6 \o Said(t)
    BY FieldsParts
  <2> HIDE DEF p5, q5, sp, tp, fs, ft
  <2>4. p6 \in Seq(S) /\ q6 \in Seq(S)
    BY <2>1, <2>2, ConcatProperties
  <2> HIDE DEF p6, q6
  <2> QED
    BY <2>2, <2>3, <2>4, ConcatProperties
<1>7. fs = ft /\ hs = ht
  <2>1. fs \o hs = ft \o ht
    BY HashParts
  <2> HIDE DEF fs, ft, hs, ht
  <2>2. fs = ft
    BY <1>5, <1>6, <2>1, TailCancels
  <2>3. hs = ht
    BY <1>5, <1>6, <2>1, TailSame
  <2> QED
    BY <2>2, <2>3
<1>8. /\ s.pool = t.pool /\ s.version = t.version
      /\ s.desiredVersion = t.desiredVersion /\ s.currentConfig = t.currentConfig
      /\ s.desiredConfig = t.desiredConfig /\ s.phase = t.phase /\ s.message = t.message
  BY <1>7, FieldsTell
<1>9. \A i \in 1..3 : cs[i].type = ds[i].type /\ cs[i].status = ds[i].status /\ cs[i].why = ds[i].why
  <2> SUFFICES ASSUME NEW i \in 1..3
               PROVE  cs[i].type = ds[i].type /\ cs[i].status = ds[i].status /\ cs[i].why = ds[i].why
    OBVIOUS
  <2>1. HashedCondition(cs[i]) = HashedCondition(ds[i])
    <3>1. hs[i] = ht[i] /\ hs[i] = HashedCondition(cs[i]) /\ ht[i] = HashedCondition(ds[i])
      BY <1>4, <1>7
    <3> QED
      BY <3>1
  <2>2. /\ cs[i] \in Conditions(Facts \cup OwnWords) /\ ds[i] \in Conditions(Facts \cup OwnWords)
        /\ s.phase \in Phases
        /\ IF cs[i].type = "Updating" THEN cs[i].why = {s.phase} ELSE cs[i].why \subseteq Facts \cup Notes
        /\ IF ds[i].type = "Updating" THEN ds[i].why = {s.phase} ELSE ds[i].why \subseteq Facts \cup Notes
    BY <1>2, <1>8 DEF Legible, cs, ds, Whys
  <2> HIDE DEF cs, ds
  <2> QED
    BY <2>1, <2>2, ConditionTells
<1>10. \A i, j \in 1..3 : cs[i].type = ds[j].type =>
         cs[i].status = ds[j].status /\ cs[i].why = ds[j].why
  BY <1>2, <1>9
<1>11. ShownConditions(cs) = ShownConditions(ds)
  BY <1>1, <1>10, SameShown
<1> QED
  BY <1>8, <1>11 DEF Shown, ShownConditions, cs, ds

\* An evaluation is legible.
LEMMA EvaluationLegible ==
  ASSUME NEW Facts, Vocabulary(Facts), NEW node, Telling(node, Facts),
         node.current = None <=> node.desired = None,
         NEW name, NEW poolName, NEW pool, NEW versions, NEW target, target # None,
         NEW existing, Carriable(existing, Facts \cup OwnWords), NEW now \in Nat
  PROVE  Legible(EvaluateNode(name, node, poolName, pool, versions, target, existing, now), Facts)
<1> DEFINE s == EvaluateNode(name, node, poolName, pool, versions, target, existing, now)
           u == FreshUpdating(node, pool, versions, target, now)
           a == FreshAvailable(node, pool, versions, target, now)
           d == DegradedCondition(node, now)
           Whys == Facts \cup OwnWords
<1>0. OwnWords \subseteq Whys /\ Telling(node, Whys) /\ Carriable(existing, Whys)
  BY DEF Telling
<1> HIDE DEF Whys
<1>1. Complete(s.conditions, Whys)
  BY <1>0, EvaluationConditions
<1>2. \A i \in 1..3 : Says(s.conditions[i], u, a, d)
  BY <1>0, EvaluationConditions
<1>3. /\ s.desiredVersion = target /\ s.currentConfig = node.current /\ s.desiredConfig = node.desired
      /\ s.version = VersionFor(versions, node.current)
      /\ s.phase = PhaseOf(pool, node, IsUpdating(node, versions, target),
                           IsUpdated(node, versions, target))
  BY EvaluationFields
<1>4. s.phase \in Phases
  BY <1>3, PhaseType
<1>5. UnavailableReasons(node) \subseteq Facts \cup Notes /\ node.mcdReason \subseteq Facts \cup Notes
  BY DEF UnavailableReasons, Telling, Notes
<1>6. s.message \subseteq Facts \cup Notes
  BY <1>5 DEF EvaluateNode, DetermineConditions
<1>7. u.why = {s.phase}
  BY <1>3 DEF FreshUpdating, UpdatingCondition, Condition
<1>8. a.why \subseteq Facts \cup Notes
  BY <1>5 DEF FreshAvailable, AvailableCondition, Condition, Notes
<1>9. d.why \subseteq Facts \cup Notes
  BY <1>5 DEF DegradedCondition, Condition, Notes
<1> HIDE DEF s, u, a, d
<1>10. \A i \in 1..3 : s.conditions[i].type \in {"Updating", "Available", "Degraded"}
  BY <1>1, ThreeTypes DEF Conditions, ConditionTypes
<1>11. \A i \in 1..3 : IF s.conditions[i].type = "Updating"
                       THEN s.conditions[i].why = {s.phase}
                       ELSE s.conditions[i].why \subseteq Facts \cup Notes
  BY <1>2, <1>7, <1>8, <1>9, <1>10 DEF Says
<1>12. s.version # None => s.currentConfig # None
  BY <1>3 DEF VersionFor
<1> QED
  BY <1>1, <1>3, <1>4, <1>6, <1>11, <1>12 DEF Legible, s, Whys
=============================================================================
