-------------------------- MODULE Collectors_proof --------------------------
(* Theorems about DiskActivity, DiskPower and CPUUsage, for every value of *)
(* their constants.                                                        *)
EXTENDS MCCollectors, FiniteSetTheorems, TLAPS

-----------------------------------------------------------------------------
(* Sums of counters *)

\* The sectors of a sample are finitely many, and no disk has more than all.
LEMMA SumBounds ==
  ASSUME NEW s, DOMAIN s \subseteq Disks, NEW n \in Nat,
         \A d \in DOMAIN s : s[d] \in 0 .. n
  PROVE  /\ IsFiniteSet(SectorsOf(s)) /\ SumOf(s) \in Nat
         /\ \A d \in DOMAIN s : s[d] <= SumOf(s)
<1>1. IsFiniteSet(Disks \X (1 .. n))
  <2>1. IsFiniteSet(Disks) /\ IsFiniteSet(1 .. n)
    BY ActAssumption, FS_Interval
  <2> QED
    BY ONLY <2>1, FS_Product
<1>2. SectorsOf(s) \subseteq Disks \X (1 .. n)
  BY DEF SectorsOf
<1>3. IsFiniteSet(SectorsOf(s))
  BY <1>1, <1>2, FS_Subset
<1>4. SumOf(s) \in Nat
  BY <1>3, FS_CardinalityType DEF SumOf
<1>5. ASSUME NEW d \in DOMAIN s PROVE s[d] <= SumOf(s)
  <2>1. IsFiniteSet({d}) /\ Cardinality({d}) = 1
    BY FS_Singleton
  <2>2. IsFiniteSet(1 .. s[d]) /\ Cardinality(1 .. s[d]) = s[d]
    <3>1. s[d] \in Nat
      BY <1>5
    <3> QED
      BY <3>1, FS_Interval
  <2>3. Cardinality({d} \X (1 .. s[d])) = s[d]
    <3>1. Cardinality({d} \X (1 .. s[d])) = Cardinality({d}) * Cardinality(1 .. s[d])
      BY ONLY <2>1, <2>2, FS_Product
    <3> QED
      BY <2>1, <2>2, <3>1
  <2>4. {d} \X (1 .. s[d]) \subseteq SectorsOf(s)
    BY DEF SectorsOf
  <2> QED
    BY <1>3, <2>3, <2>4, FS_Subset DEF SumOf
<1> QED
  BY <1>3, <1>4, <1>5

\* One sector more for one disk is one sector more for all.
LEMMA SumGrows ==
  ASSUME NEW s, NEW t, DOMAIN t = DOMAIN s, NEW d \in DOMAIN s,
         s[d] \in Nat, IsFiniteSet(SectorsOf(s)),
         \A e \in DOMAIN s : t[e] = IF e = d THEN s[e] + 1 ELSE s[e]
  PROVE  SumOf(t) = SumOf(s) + 1
<1>1. SectorsOf(t) = SectorsOf(s) \cup {<<d, s[d] + 1>>}
  BY DEF SectorsOf
<1>2. <<d, s[d] + 1>> \notin SectorsOf(s)
  BY DEF SectorsOf
<1> QED
  BY <1>1, <1>2, FS_AddElement DEF SumOf

\* Sums add up.
LEMMA SumAdds ==
  ASSUME NEW a, NEW b, NEW c, DOMAIN a = DOMAIN c, DOMAIN b = DOMAIN c,
         DOMAIN c \subseteq Disks, NEW n \in Nat,
         \A d \in DOMAIN c : /\ a[d] \in Nat /\ b[d] \in Nat
                             /\ c[d] = a[d] + b[d] /\ c[d] <= n
  PROVE  SumOf(c) = SumOf(a) + SumOf(b)
<1> DEFINE Rest == {p \in SectorsOf(c) : p[2] > a[p[1]]}
           F == [p \in SectorsOf(b) |-> <<p[1], a[p[1]] + p[2]>>]
<1>1. IsFiniteSet(SectorsOf(a)) /\ IsFiniteSet(SectorsOf(b)) /\ IsFiniteSet(SectorsOf(c))
  BY SumBounds
<1>2. \A p : p \in SectorsOf(a) <=> \E d \in DOMAIN c : \E k \in 1 .. a[d] : p = <<d, k>>
  BY DEF SectorsOf
<1>3. \A p : p \in SectorsOf(b) <=> \E d \in DOMAIN c : \E k \in 1 .. b[d] : p = <<d, k>>
  BY DEF SectorsOf
<1>4. \A p : p \in SectorsOf(c) <=> \E d \in DOMAIN c : \E k \in 1 .. c[d] : p = <<d, k>>
  BY DEF SectorsOf
<1>5. SectorsOf(c) = SectorsOf(a) \cup Rest /\ SectorsOf(a) \cap Rest = {}
  BY <1>2, <1>4
<1>6. F \in Bijection(SectorsOf(b), Rest)
  <2>1. F \in [SectorsOf(b) -> Rest]
    BY <1>3, <1>4
  <2>2. ASSUME NEW p \in SectorsOf(b), NEW q \in SectorsOf(b), F[p] = F[q] PROVE p = q
    BY <1>3, <2>2
  <2>3. ASSUME NEW r \in Rest PROVE \E p \in SectorsOf(b) : F[p] = r
    <3>1. PICK d \in DOMAIN c : \E k \in 1 .. c[d] : r = <<d, k>> /\ k > a[d]
      BY <1>4
    <3>2. PICK k \in 1 .. c[d] : r = <<d, k>> /\ k > a[d]
      BY <3>1
    <3>3. <<d, k - a[d]>> \in SectorsOf(b)
      BY <1>3, <3>2
    <3> QED
      BY <3>2, <3>3
  <2> QED
    BY <2>1, <2>2, <2>3 DEF Bijection, Injection, IsInjective, Surjection
<1>7. IsFiniteSet(Rest) /\ Cardinality(Rest) = SumOf(b)
  BY <1>1, <1>6, FS_Bijection DEF SumOf, ExistsBijection
<1> HIDE DEF Rest
<1>8. SumOf(c) = SumOf(a) + SumOf(b) - 0
  BY <1>1, <1>5, <1>7, FS_Union, FS_EmptySet DEF SumOf
<1>9. SumOf(a) \in Nat /\ SumOf(b) \in Nat
  BY <1>1, FS_CardinalityType DEF SumOf
<1> QED
  BY <1>8, <1>9

\* A sum of at most as much, disk by disk, is at most as much.
LEMMA SumSmaller ==
  ASSUME NEW s, NEW t, DOMAIN t = DOMAIN s, IsFiniteSet(SectorsOf(s)),
         \A d \in DOMAIN s : s[d] \in Nat /\ t[d] \in Nat /\ t[d] <= s[d]
  PROVE  SumOf(t) <= SumOf(s)
<1>1. SectorsOf(t) \subseteq SectorsOf(s)
  BY DEF SectorsOf
<1> QED
  BY <1>1, FS_Subset DEF SumOf

-----------------------------------------------------------------------------
(* DiskActivity *)

Oldest == QuietWindow + Lag

\* How long a disk may go unnoticed, after the samples that have failed so far.
Slack == Period * (1 + missed)

LEMMA Slacks ==
  ASSUME missed \in 0 .. MaxMissed
  PROVE  /\ Lag \in Nat /\ Slack \in Nat /\ Oldest \in Nat
         /\ Period <= Slack /\ Slack <= Lag /\ Lag < Oldest
         /\ missed' = missed + 1 => Slack' = Slack + Period
<1>1. /\ Period \in Nat /\ Period > 0 /\ QuietWindow \in Nat /\ QuietWindow > 0
      /\ MaxMissed \in Nat /\ missed \in Nat /\ MaxMissed - missed \in Nat
  BY ActAssumption
<1>2. Period * missed \in Nat /\ Period * (MaxMissed - missed) \in Nat
  BY <1>1
<1>3. /\ Slack = Period + Period * missed
      /\ Lag = Period + Period * missed + Period * (MaxMissed - missed)
  BY <1>1 DEF Slack, Lag
<1>4. missed' = missed + 1 => Slack' = Period + Period * missed + Period
  BY <1>1 DEF Slack
<1> QED
  BY <1>1, <1>2, <1>3, <1>4 DEF Oldest

LEMMA AgedAge ==
  ASSUME NEW t \in 0 .. Oldest, missed \in 0 .. MaxMissed
  PROVE  /\ Aged(t) \in 0 .. Oldest /\ t <= Aged(t) /\ Aged(t) <= t + 1
         /\ \A u \in Nat : t <= u => Aged(t) <= Aged(u)
         /\ \A u \in Nat, k \in Nat : t <= u + k => Aged(t) <= Aged(u) + k
  BY Slacks DEF Aged, Oldest

\* What the counters of the last samples have to do with those of now: nothing
\* has moved that is not counted as moved, and an entry with the counter of now
\* is not older than the disk's last I/O, unless the disk has been away.
SampleInv ==
  /\ SumOf(sectors) <= MaxIO
  /\ \A d \in Disks : moved[d] <= sectors[d]
  /\ baseline # NoDisks =>
       \A d \in DOMAIN baseline :
         /\ sectors[d] <= baseline[d] + moved[d]
         /\ d \notin restarted => baseline[d] + moved[d] = sectors[d]
  /\ \A d \in DOMAIN activity : activity[d] \in [sectors : Nat, age : 0 .. Oldest]
  /\ \A d \in DOMAIN activity \ restarted :
       /\ d \in inStats
       /\ activity[d].sectors <= sectors[d]
       /\ activity[d].sectors = sectors[d] => activity[d].age <= idle[d]

\* A disk that is on the list and has been quiet has been noticed, with an entry
\* that is younger than its quiet by the slack at most; or it has not been quiet
\* on the list for longer than a sample takes to come.
Noticed(d) ==
  /\ d \in DOMAIN activity
  /\ activity[d].sectors = sectors[d]
  /\ idle[d] <= activity[d].age + Slack \/ listed[d] <= activity[d].age + Slack

Awaited(d) ==
  LET rest == IF sampling = NoDisks THEN nextRun ELSE 0 IN
    idle[d] + rest <= Slack \/ listed[d] + rest <= Slack

QuietInv ==
  /\ \A d \in Disks : idle[d] <= Oldest /\ listed[d] <= Oldest
  /\ \A d \in Disks \ (devices \cap inStats) : listed[d] = 0
  /\ sampling # NoDisks =>
       nextRun = Period /\ \A d \in Disks \ sampling : listed[d] = 0
  /\ \A d \in devices \cap inStats : Noticed(d) \/ Awaited(d)

ActInv == ActTypeOK /\ SampleInv /\ QuietInv

LEMMA ActStart == ActInit => ActInv
<1> SUFFICES ASSUME ActInit PROVE ActInv
  OBVIOUS
<1>1. /\ sectors = [d \in Disks |-> 0] /\ moved = [d \in Disks |-> 0]
      /\ idle = [d \in Disks |-> 0] /\ listed = [d \in Disks |-> 0]
      /\ inStats \subseteq Disks /\ devices \subseteq Disks
      /\ sampling = NoDisks /\ baseline = NoDisks
      /\ nextRun = 0 /\ missed = 0 /\ plugs = 0 /\ restarted = {}
  BY ActAssumption DEF ActInit
<1>2. DOMAIN activity = {}
  BY DEF ActInit
<1>3. SumOf(sectors) = 0
  <2>1. SectorsOf(sectors) = {}
    BY <1>1 DEF SectorsOf
  <2> QED
    BY <2>1, FS_EmptySet DEF SumOf
<1>4. ActTypeOK
  BY <1>1, <1>2, ActAssumption DEF ActTypeOK
<1>5. SampleInv
  BY <1>1, <1>2, <1>3, ActAssumption DEF SampleInv
<1>6. missed \in 0 .. MaxMissed
  BY <1>4 DEF ActTypeOK
<1>7. QuietInv
  BY <1>1, <1>6, Slacks DEF QuietInv, Awaited
<1> QED
  BY <1>4, <1>5, <1>7 DEF ActInv

\* A sector is moved, by I/O or when a disk is plugged in.
LEMMA MoveStep ==
  ASSUME ActInv, NEW d \in Disks, SumOf(sectors) < MaxIO,
         sectors' = [sectors EXCEPT ![d] = @ + 1],
         moved' = [moved EXCEPT ![d] = @ + 1],
         inStats' = inStats \cup {d}, plugs' \in 0 .. MaxPlug,
         idle' = IF d \in inStats THEN [idle EXCEPT ![d] = 0] ELSE idle,
         UNCHANGED <<actState, listed, restarted>>
  PROVE  ActInv'
<1> USE DEF ActInv, actState
<1>0. /\ sectors \in [Disks -> 0 .. MaxIO] /\ moved \in [Disks -> 0 .. MaxIO]
      /\ idle \in [Disks -> Nat] /\ listed \in [Disks -> Nat] /\ MaxIO \in Nat
      /\ inStats' \subseteq Disks /\ inStats' \ {d} = inStats \ {d}
  BY ActAssumption DEF ActTypeOK
<1>1. \A e \in Disks : /\ sectors'[e] = IF e = d THEN sectors[e] + 1 ELSE sectors[e]
                       /\ moved'[e] = IF e = d THEN moved[e] + 1 ELSE moved[e]
                       /\ idle'[e] = IF e = d /\ d \in inStats THEN 0 ELSE idle[e]
  BY <1>0
<1>2. PICK now : now = sectors'
  OBVIOUS
<1>3. SumOf(sectors)' <= MaxIO /\ sectors' \in [Disks -> 0 .. MaxIO]
  <2>1. IsFiniteSet(SectorsOf(sectors)) /\ SumOf(sectors) \in Nat
    BY <1>0, SumBounds
  <2>2. /\ DOMAIN now = DOMAIN sectors /\ d \in DOMAIN sectors /\ sectors[d] \in Nat
        /\ \A e \in DOMAIN sectors : now[e] = IF e = d THEN sectors[e] + 1 ELSE sectors[e]
    BY <1>0, <1>1, <1>2
  <2>3. SumOf(now) = SumOf(sectors) + 1
    BY ONLY <2>1, <2>2, SumGrows
  <2>4. SumOf(now) <= MaxIO
    BY <1>0, <2>1, <2>3
  <2>5. PICK n \in Nat : n = MaxIO + 1
    BY <1>0
  <2>6. DOMAIN now \subseteq Disks /\ \A e \in DOMAIN now : now[e] \in 0 .. n
    BY <1>0, <1>1, <1>2, <2>5
  <2>7. SumOf(now) \in Nat /\ \A e \in DOMAIN now : now[e] <= SumOf(now)
    BY ONLY <2>6, SumBounds
  <2>8. now \in [Disks -> 0 .. MaxIO]
    <3>1. now = [e \in Disks |-> now[e]]
      BY <1>0, <1>2
    <3>2. \A e \in Disks : now[e] \in 0 .. MaxIO
      BY <1>0, <2>2, <2>4, <2>6, <2>7
    <3> QED
      BY <3>1, <3>2
  <2> QED
    BY <1>2, <2>4, <2>8 DEF SumOf, SectorsOf
<1>4. \A e \in Disks : moved'[e] <= sectors'[e]
  BY <1>0, <1>1 DEF SampleInv
<1>5. moved' \in [Disks -> 0 .. MaxIO]
  BY <1>0, <1>3, <1>4
<1>6. ActTypeOK'
  BY <1>0, <1>3, <1>5 DEF ActTypeOK
<1>7. SampleInv'
  <2>1. baseline' # NoDisks =>
          \A e \in DOMAIN baseline' :
            /\ sectors'[e] <= baseline'[e] + moved'[e]
            /\ e \notin restarted => baseline'[e] + moved'[e] = sectors'[e]
    <3> SUFFICES ASSUME baseline # NoDisks, NEW e \in DOMAIN baseline
                 PROVE  /\ sectors'[e] <= baseline[e] + moved'[e]
                        /\ e \notin restarted => baseline[e] + moved'[e] = sectors'[e]
      OBVIOUS
    <3>1. e \in Disks /\ baseline[e] \in Nat
      BY ActAssumption DEF ActTypeOK
    <3>2. /\ sectors[e] <= baseline[e] + moved[e]
          /\ e \notin restarted => baseline[e] + moved[e] = sectors[e]
      BY DEF SampleInv
    <3> QED
      BY <1>0, <1>1, <3>1, <3>2
  <2>2. ASSUME NEW e \in DOMAIN activity \ restarted
        PROVE  /\ e \in inStats' /\ activity[e].sectors <= sectors'[e]
               /\ activity[e].sectors = sectors'[e] => activity[e].age <= idle'[e]
    <3>1. /\ e \in Disks /\ activity[e].sectors <= sectors[e] /\ activity[e].sectors \in Nat
          /\ e \in inStats
      BY DEF SampleInv, ActTypeOK
    <3> QED
      BY <1>0, <1>1, <3>1 DEF SampleInv
  <2> QED
    BY <1>3, <1>4, <2>1, <2>2, Slacks DEF SampleInv, Oldest
<1>8. QuietInv'
  <2>0. missed \in 0 .. MaxMissed /\ nextRun \in 0 .. Period
    BY DEF ActTypeOK
  <2>1. \A e \in Disks : idle'[e] <= Oldest' /\ listed'[e] <= Oldest'
    BY <1>0, <1>1, <2>0, Slacks DEF QuietInv, Oldest
  <2>2. ASSUME NEW e \in devices' \cap inStats' PROVE (Noticed(e) \/ Awaited(e))'
    <3>1. CASE e = d
      <4>1. idle'[d] = 0 \/ listed'[d] = 0
        BY <1>0, <1>1 DEF QuietInv
      <4>2. idle'[d] \in Nat /\ listed'[d] \in Nat
        BY <1>0, <1>1
      <4> QED
        BY <2>0, <3>1, <4>1, <4>2, Slacks, ActAssumption DEF Awaited, Slack
    <3>2. CASE e # d
      <4>1. e \in devices \cap inStats /\ e \in Disks
        BY <1>0, <3>2 DEF ActTypeOK
      <4> QED
        BY <1>1, <3>2, <4>1 DEF QuietInv, Noticed, Awaited, Slack
    <3> QED
      BY <3>1, <3>2
  <2> QED
    BY <2>1, <2>2 DEF QuietInv
<1> QED
  BY <1>6, <1>7, <1>8

LEMMA PullStep == ASSUME ActInv, NEW d \in Disks, Pull(d) PROVE ActInv'
<1> USE DEF ActInv, actState
<1>0. /\ sectors \in [Disks -> 0 .. MaxIO] /\ moved \in [Disks -> 0 .. MaxIO]
      /\ idle \in [Disks -> Nat] /\ listed \in [Disks -> Nat] /\ MaxIO \in Nat
      /\ plugs' \in 0 .. MaxPlug /\ restarted' = restarted \cup {d}
      /\ inStats' = inStats \ {d} /\ UNCHANGED actState
  BY ActAssumption DEF ActTypeOK, Pull
<1>1. \A e \in Disks : /\ sectors'[e] = IF e = d THEN 0 ELSE sectors[e]
                       /\ moved'[e] = IF e = d THEN 0 ELSE moved[e]
                       /\ idle'[e] = IF e = d THEN 0 ELSE idle[e]
                       /\ listed'[e] = IF e = d THEN 0 ELSE listed[e]
  BY <1>0 DEF Pull
<1>2. /\ sectors' \in [Disks -> 0 .. MaxIO] /\ moved' \in [Disks -> 0 .. MaxIO]
      /\ idle' \in [Disks -> Nat] /\ listed' \in [Disks -> Nat]
  BY <1>0 DEF Pull
<1>3. ActTypeOK'
  BY <1>0, <1>2 DEF ActTypeOK
<1>4. SumOf(sectors)' <= MaxIO
  <2>1. PICK now : now = sectors'
    OBVIOUS
  <2>2. /\ DOMAIN now = DOMAIN sectors /\ DOMAIN sectors \subseteq Disks
        /\ \A e \in DOMAIN sectors :
             /\ sectors[e] \in 0 .. MaxIO /\ sectors[e] \in Nat
             /\ now[e] \in 0 .. MaxIO /\ now[e] \in Nat /\ now[e] <= sectors[e]
    BY <1>0, <1>1, <1>2, <2>1
  <2>3. IsFiniteSet(SectorsOf(sectors)) /\ SumOf(sectors) \in Nat /\ SumOf(now) \in Nat
    BY ONLY <1>0, <2>2, SumBounds
  <2>4. SumOf(now) <= SumOf(sectors)
    BY ONLY <2>2, <2>3, SumSmaller
  <2>5. SumOf(now) <= MaxIO
    BY <1>0, <2>3, <2>4 DEF SampleInv
  <2> QED
    BY <2>1, <2>5 DEF SumOf, SectorsOf
<1>5. missed \in 0 .. MaxMissed /\ nextRun \in 0 .. Period /\ Oldest' = Oldest /\ Oldest \in Nat
  BY <1>0, Slacks DEF ActTypeOK, Oldest
<1>6. SampleInv'
  <2>1. ASSUME baseline # NoDisks, NEW e \in DOMAIN baseline
        PROVE  /\ sectors'[e] <= baseline[e] + moved'[e]
               /\ e \notin restarted' => baseline[e] + moved'[e] = sectors'[e]
    <3>1. e \in Disks /\ baseline[e] \in Nat
      BY <2>1 DEF ActTypeOK
    <3>2. /\ sectors[e] <= baseline[e] + moved[e]
          /\ e \notin restarted => baseline[e] + moved[e] = sectors[e]
      BY <2>1 DEF SampleInv
    <3> QED
      BY <1>0, <1>1, <3>1, <3>2
  <2>2. ASSUME NEW e \in DOMAIN activity \ restarted'
        PROVE  /\ e \in inStats' /\ activity[e].sectors <= sectors'[e]
               /\ activity[e].sectors = sectors'[e] => activity[e].age <= idle'[e]
    <3>1. e \in DOMAIN activity \ restarted /\ e # d /\ e \in Disks
      BY <1>0 DEF ActTypeOK
    <3> QED
      BY <1>0, <1>1, <3>1 DEF SampleInv
  <2>3. \A e \in Disks : moved'[e] <= sectors'[e]
    BY <1>0, <1>1 DEF SampleInv
  <2>4. \A e \in DOMAIN activity : activity[e] \in [sectors : Nat, age : 0 .. Oldest]
    BY DEF SampleInv
  <2> QED
    BY <1>0, <1>4, <1>5, <2>1, <2>2, <2>3, <2>4 DEF SampleInv
<1>7. QuietInv'
  <2>1. ASSUME NEW e \in devices' \cap inStats' PROVE (Noticed(e) \/ Awaited(e))'
    <3>1. e \in devices \cap inStats /\ e # d /\ e \in Disks
      BY <1>0 DEF ActTypeOK
    <3> QED
      BY <1>0, <1>1, <3>1 DEF QuietInv, Noticed, Awaited, Slack
  <2>2. \A e \in Disks : idle'[e] <= Oldest' /\ listed'[e] <= Oldest'
    BY <1>1, <1>5 DEF QuietInv
  <2>3. \A e \in Disks \ (devices' \cap inStats') : listed'[e] = 0
    BY <1>0, <1>1 DEF QuietInv
  <2>4. sampling' # NoDisks =>
          nextRun' = Period /\ \A e \in Disks \ sampling' : listed'[e] = 0
    BY <1>0, <1>1 DEF QuietInv
  <2> QED
    BY <2>1, <2>2, <2>3, <2>4 DEF QuietInv
<1> QED
  BY <1>3, <1>6, <1>7

LEMMA ElapseStep == ActInv /\ Elapse => ActInv'
<1> SUFFICES ASSUME ActInv, Elapse PROVE ActInv'
  OBVIOUS
<1> USE DEF ActInv
<1>1. /\ nextRun > 0 /\ sampling = NoDisks /\ nextRun' = nextRun - 1
      /\ activity' = [d \in DOMAIN activity |-> [activity[d] EXCEPT !.age = Aged(@)]]
      /\ idle' = [d \in Disks |-> IF d \in inStats THEN Aged(idle[d]) ELSE 0]
      /\ listed' = [d \in Disks |->
                      IF d \in devices \cap inStats THEN Aged(listed[d]) ELSE 0]
      /\ UNCHANGED <<inStats, sectors, moved, plugs, devices, sampling, baseline, missed,
                     restarted>>
  BY DEF Elapse, actMachine
<1>2. /\ missed \in 0 .. MaxMissed /\ nextRun \in 0 .. Period /\ Period \in Nat
      /\ \A d \in Disks : idle[d] \in 0 .. Oldest /\ listed[d] \in 0 .. Oldest
      /\ DOMAIN activity \subseteq Disks
  BY ActAssumption DEF ActTypeOK, QuietInv
<1>3. Oldest \in Nat /\ Oldest' = Oldest /\ Slack \in Nat /\ Slack' = Slack
  BY <1>1, <1>2, Slacks DEF Oldest, Slack
<1>4. \A d \in Disks : /\ Aged(idle[d]) \in 0 .. Oldest /\ Aged(idle[d]) <= idle[d] + 1
                       /\ Aged(listed[d]) \in 0 .. Oldest
                       /\ Aged(listed[d]) <= listed[d] + 1
  BY <1>2, AgedAge
<1>5. \A d \in DOMAIN activity' :
        /\ d \in DOMAIN activity /\ d \in Disks
        /\ activity[d] \in [sectors : Nat, age : 0 .. Oldest]
        /\ activity'[d] \in [sectors : Nat, age : 0 .. Oldest]
        /\ activity'[d].sectors = activity[d].sectors
        /\ activity'[d].age = Aged(activity[d].age)
  <2> SUFFICES ASSUME NEW d \in DOMAIN activity
               PROVE  /\ d \in Disks /\ activity[d] \in [sectors : Nat, age : 0 .. Oldest]
                      /\ activity'[d] \in [sectors : Nat, age : 0 .. Oldest]
                      /\ activity'[d].sectors = activity[d].sectors
                      /\ activity'[d].age = Aged(activity[d].age)
    BY <1>1
  <2>1. activity[d] \in [sectors : Nat, age : 0 .. Oldest]
    BY DEF SampleInv
  <2>2. Aged(activity[d].age) \in 0 .. Oldest
    BY <1>2, <2>1, AgedAge
  <2>3. activity'[d] = [activity[d] EXCEPT !.age = Aged(activity[d].age)]
    BY <1>1
  <2> QED
    BY <1>2, <2>1, <2>2, <2>3
<1>6. ActTypeOK'
  BY <1>1, <1>2, <1>3, <1>4, <1>5 DEF ActTypeOK
<1>7. SampleInv'
  <2>1. ASSUME NEW d \in DOMAIN activity' \ restarted'
        PROVE  /\ d \in inStats' /\ activity'[d].sectors <= sectors'[d]
               /\ activity'[d].sectors = sectors'[d] => activity'[d].age <= idle'[d]
    <3>1. /\ d \in inStats /\ activity[d].sectors <= sectors[d]
          /\ activity[d].sectors = sectors[d] => activity[d].age <= idle[d]
      BY <1>1, <1>5 DEF SampleInv
    <3>2. activity[d].age <= idle[d] => Aged(activity[d].age) <= Aged(idle[d])
      BY <1>2, <1>5, AgedAge
    <3> QED
      BY <1>1, <1>5, <3>1, <3>2
  <2>2. SumOf(sectors)' <= MaxIO
    BY <1>1 DEF SampleInv, SumOf, SectorsOf
  <2> QED
    BY <1>1, <1>3, <1>5, <2>1, <2>2 DEF SampleInv
<1>8. QuietInv'
  <2>1. /\ \A d \in Disks : idle'[d] <= Oldest' /\ listed'[d] <= Oldest'
        /\ \A d \in Disks \ (devices' \cap inStats') : listed'[d] = 0
    BY <1>1, <1>3, <1>4
  <2>2. ASSUME NEW d \in devices' \cap inStats' PROVE (Noticed(d) \/ Awaited(d))'
    <3>1. d \in Disks /\ d \in devices \cap inStats
      BY <1>1 DEF ActTypeOK
    <3>2. idle'[d] = Aged(idle[d]) /\ listed'[d] = Aged(listed[d])
      BY <1>1, <3>1
    <3>3. CASE Noticed(d)
      <4>1. d \in DOMAIN activity' /\ activity'[d].sectors = sectors'[d]
        BY <1>1, <1>5, <3>3 DEF Noticed
      <4>2. \/ idle[d] <= activity[d].age + Slack
            \/ listed[d] <= activity[d].age + Slack
        BY <3>3 DEF Noticed
      <4>3. activity[d].age \in Nat
        BY <1>5, <4>1
      <4>4. /\ idle[d] <= activity[d].age + Slack =>
                 Aged(idle[d]) <= Aged(activity[d].age) + Slack
            /\ listed[d] <= activity[d].age + Slack =>
                 Aged(listed[d]) <= Aged(activity[d].age) + Slack
        BY <1>2, <1>3, <3>1, <4>3, AgedAge
      <4>5. activity'[d].age = Aged(activity[d].age)
        BY <1>5, <4>1
      <4> QED
        BY <1>3, <3>2, <4>1, <4>2, <4>4, <4>5 DEF Noticed
    <3>4. CASE Awaited(d)
      BY <1>1, <1>2, <1>3, <1>4, <3>1, <3>2, <3>4 DEF Awaited
    <3> QED
      BY <3>1, <3>3, <3>4 DEF QuietInv
  <2> QED
    BY <1>1, <2>1, <2>2 DEF QuietInv
<1> QED
  BY <1>6, <1>7, <1>8

LEMMA StoreStep == ActInv /\ StoreDevices => ActInv'
<1> SUFFICES ASSUME ActInv, StoreDevices PROVE ActInv'
  OBVIOUS
<1> USE DEF ActInv
<1>1. /\ devices' \subseteq inStats
      /\ listed' = [d \in Disks |-> IF d \in devices' THEN listed[d] ELSE 0]
      /\ UNCHANGED <<inStats, sectors, moved, plugs, idle, restarted, sampling, baseline,
                     activity, nextRun, missed>>
  BY DEF StoreDevices, actMachine
<1>2. /\ missed \in 0 .. MaxMissed /\ nextRun \in 0 .. Period /\ inStats \subseteq Disks
      /\ Oldest \in Nat /\ Oldest' = Oldest /\ Slack' = Slack /\ Period <= Slack
      /\ Slack \in Nat /\ Period \in Nat
  BY <1>1, Slacks, ActAssumption DEF ActTypeOK, Oldest, Slack
<1>3. ActTypeOK'
  BY <1>1, <1>2 DEF ActTypeOK
<1>4. SampleInv'
  BY <1>1, <1>2 DEF SampleInv, SumOf, SectorsOf
<1>5. QuietInv'
  <2>1. ASSUME NEW d \in devices' \cap inStats' PROVE (Noticed(d) \/ Awaited(d))'
    <3>1. d \in Disks /\ listed'[d] = listed[d] /\ d \in inStats
      BY <1>1, <1>2
    <3>2. CASE d \in devices
      BY <1>1, <1>2, <3>1, <3>2 DEF QuietInv, Noticed, Awaited
    <3>3. CASE d \notin devices
      <4>1. listed'[d] = 0
        BY <3>1, <3>3 DEF QuietInv
      <4> QED
        BY <1>1, <1>2, <4>1 DEF Awaited
    <3> QED
      BY <3>2, <3>3
  <2> QED
    BY <1>1, <1>2, <2>1 DEF QuietInv
<1> QED
  BY <1>3, <1>4, <1>5

LEMMA TakeStep == ActInv /\ TakeDevices => ActInv'
<1> SUFFICES ASSUME ActInv, TakeDevices PROVE ActInv'
  OBVIOUS
<1> USE DEF ActInv
<1>1. /\ nextRun = 0 /\ sampling = NoDisks /\ nextRun' = Period
      /\ sampling' = IF devices = {} THEN NoDisks ELSE devices
      /\ UNCHANGED <<inStats, sectors, moved, plugs, devices, baseline, activity, missed,
                     idle, listed, restarted>>
  BY DEF TakeDevices, actMachine
<1>2. /\ missed \in 0 .. MaxMissed /\ Period \in Nat
      /\ Oldest' = Oldest /\ Slack' = Slack
  BY <1>1, ActAssumption DEF ActTypeOK, Oldest, Slack
<1>3. ActTypeOK'
  <2>1. sampling' = NoDisks \/ sampling' \in (SUBSET Disks) \ {{}}
    BY <1>1 DEF ActTypeOK
  <2> QED
    BY <1>1, <1>2, <2>1 DEF ActTypeOK
<1>4. SampleInv'
  BY <1>1, <1>2 DEF SampleInv, SumOf, SectorsOf
<1>5. QuietInv'
  <2>1. ASSUME NEW d \in devices' \cap inStats' PROVE (Noticed(d) \/ Awaited(d))'
    <3>1. d \in devices \cap inStats /\ (sampling' = NoDisks => devices = {})
          /\ idle[d] \in Nat /\ listed[d] \in Nat
      BY <1>1, ActAssumption DEF ActTypeOK
    <3>2. sampling' # NoDisks
      BY <3>1
    <3> QED
      BY <1>1, <1>2, <3>1, <3>2 DEF QuietInv, Noticed, Awaited
  <2> QED
    BY <1>1, <1>2, <2>1 DEF QuietInv
<1> QED
  BY <1>3, <1>4, <1>5

\* A disk in the sample that is taken, or lost, has just come on the list.
LEMMA LeftOut ==
  ASSUME ActInv, sampling # NoDisks, NEW d \in devices \cap inStats
  PROVE  \/ d \in sampling
         \/ d \in Disks /\ listed[d] = 0
  BY DEF ActInv, QuietInv, ActTypeOK

LEMMA FailStep == ActInv /\ SampleFails => ActInv'
<1> SUFFICES ASSUME ActInv, SampleFails PROVE ActInv'
  OBVIOUS
<1> USE DEF ActInv
<1>1. /\ sampling # NoDisks /\ sampling' = NoDisks
      /\ missed < MaxMissed /\ missed' = missed + 1
      /\ UNCHANGED <<inStats, sectors, moved, plugs, devices, baseline, activity, nextRun,
                     idle, listed, restarted>>
  BY DEF SampleFails, actMachine
<1>2. /\ missed \in 0 .. MaxMissed /\ missed' \in 0 .. MaxMissed
      /\ Oldest' = Oldest /\ Slack' = Slack + Period
      /\ Slack \in Nat /\ Period \in Nat /\ nextRun = Period
  BY <1>1, Slacks, ActAssumption DEF ActTypeOK, QuietInv, Oldest
<1>3. ActTypeOK'
  BY <1>1, <1>2 DEF ActTypeOK
<1>4. SampleInv'
  BY <1>1, <1>2 DEF SampleInv, SumOf, SectorsOf
<1>5. QuietInv'
  <2>1. ASSUME NEW d \in devices' \cap inStats' PROVE (Noticed(d) \/ Awaited(d))'
    <3>1. d \in devices \cap inStats /\ d \in Disks /\ idle[d] \in Nat /\ listed[d] \in Nat
      BY <1>1 DEF ActTypeOK
    <3>2. CASE Noticed(d)
      <4>1. activity[d].age \in Nat
        BY <3>2 DEF Noticed, ActTypeOK
      <4> QED
        BY <1>1, <1>2, <3>1, <3>2, <4>1 DEF Noticed
    <3>3. CASE Awaited(d)
      BY <1>1, <1>2, <3>1, <3>3 DEF Awaited
    <3> QED
      BY <3>1, <3>2, <3>3 DEF QuietInv
  <2> QED
    BY <1>1, <1>2, <2>1 DEF QuietInv
<1> QED
  BY <1>3, <1>4, <1>5

LEMMA TakenSample == ActInv /\ Sample => ActInv'
<1> SUFFICES ASSUME ActInv, Sample PROVE ActInv'
  OBVIOUS
<1> USE DEF ActInv
<1> DEFINE cur == Current(sampling)
<1>1. /\ sampling # NoDisks /\ sampling' = NoDisks
      /\ baseline' = cur /\ activity' = Seen(sampling, cur)
      /\ moved' = [d \in Disks |-> 0]
      /\ restarted' = {d \in restarted \cap DOMAIN activity :
                         d \in DOMAIN activity' /\ activity'[d] = activity[d]}
      /\ UNCHANGED <<inStats, sectors, plugs, devices, nextRun, missed, idle, listed>>
  BY DEF Sample, NextBaseline
<1>2. /\ missed \in 0 .. MaxMissed /\ nextRun = Period
      /\ Oldest' = Oldest /\ Slack' = Slack /\ Oldest \in Nat
      /\ Slack \in Nat /\ Period \in Nat /\ Period <= Slack
  BY <1>1, Slacks, ActAssumption DEF ActTypeOK, QuietInv, Oldest, Slack
<1>3. /\ DOMAIN cur = sampling \cap inStats /\ sampling \cap inStats \subseteq Disks
      /\ \A d \in DOMAIN cur : cur[d] = sectors[d] /\ sectors[d] \in 0 .. MaxIO
  BY <1>1 DEF Current, ActTypeOK
<1>4. /\ DOMAIN activity' = (sampling \cap inStats) \cup (DOMAIN activity \cap sampling)
      /\ \A d \in DOMAIN activity' :
           activity'[d] = IF d \notin sampling \cap inStats THEN activity[d]
                          ELSE IF d \in DOMAIN activity /\ activity[d].sectors = sectors[d]
                               THEN activity[d]
                               ELSE [sectors |-> sectors[d], age |-> 0]
  BY <1>1, <1>3, Zenon DEF Seen
<1> HIDE DEF cur
<1>5. ASSUME NEW d \in DOMAIN activity'
      PROVE  /\ d \in Disks /\ activity'[d] \in [sectors : Nat, age : 0 .. Oldest]
             /\ d \notin restarted' =>
                  /\ d \in inStats /\ activity'[d].sectors <= sectors[d]
                  /\ activity'[d].sectors = sectors[d] => activity'[d].age <= idle[d]
  <2>1. d \in Disks /\ sectors[d] \in Nat /\ idle[d] \in Nat
    BY <1>3, <1>4 DEF ActTypeOK
  <2>2. CASE d \in inStats /\ activity'[d] = [sectors |-> sectors[d], age |-> 0]
    BY <1>2, <2>1, <2>2
  <2>3. CASE activity'[d] = activity[d] /\ d \in DOMAIN activity
    <3>1. d \notin restarted' => d \notin restarted
      BY <1>1, <1>5, <2>3
    <3> QED
      BY <2>1, <2>3, <3>1 DEF SampleInv
  <2> QED
    BY <1>4, <1>5, <2>2, <2>3, <2>1
<1>6. ActTypeOK'
  <2>1. /\ DOMAIN baseline' \subseteq Disks
        /\ \A d \in DOMAIN baseline' : baseline'[d] \in 0 .. MaxIO
    BY <1>1, <1>3
  <2>2. moved' \in [Disks -> 0 .. MaxIO]
    BY <1>1, ActAssumption
  <2> QED
    BY <1>1, <1>5, <2>1, <2>2 DEF ActTypeOK
<1>7. SampleInv'
  <2>1. \A d \in Disks : moved'[d] = 0 /\ sectors[d] \in Nat
    BY <1>1 DEF ActTypeOK
  <2>2. \A d \in DOMAIN baseline' : /\ baseline'[d] + moved'[d] = sectors'[d]
                                     /\ sectors'[d] <= baseline'[d] + moved'[d]
    BY <1>1, <1>3, <2>1
  <2>3. SumOf(sectors)' <= MaxIO
    BY <1>1 DEF SampleInv, SumOf, SectorsOf
  <2> QED
    BY <1>1, <1>2, <1>5, <2>1, <2>2, <2>3 DEF SampleInv
<1>8. QuietInv'
  <2>1. ASSUME NEW d \in devices' \cap inStats' PROVE (Noticed(d) \/ Awaited(d))'
    <3>1. /\ d \in devices \cap inStats /\ d \in Disks /\ sectors[d] \in Nat
          /\ idle[d] \in Nat /\ listed[d] \in Nat
      BY <1>1 DEF ActTypeOK
    <3>2. CASE d \in sampling
      <4>1. /\ d \in DOMAIN activity' /\ activity'[d].sectors = sectors[d]
            /\ activity'[d].age \in Nat
            /\ d \in DOMAIN activity /\ activity[d].sectors = sectors[d] =>
                 activity'[d].age = activity[d].age
        <5>1. d \in DOMAIN activity'
          BY <1>4, <3>1, <3>2
        <5>2. activity'[d] = IF d \in DOMAIN activity /\ activity[d].sectors = sectors[d]
                             THEN activity[d] ELSE [sectors |-> sectors[d], age |-> 0]
          BY <1>4, <3>1, <3>2, <5>1
        <5>3. activity'[d].age \in Nat
          BY <1>2, <1>5, <5>1
        <5> QED
          BY <5>1, <5>2, <5>3
      <4>2. CASE Noticed(d)
        BY <1>1, <1>2, <4>1, <4>2 DEF Noticed
      <4>3. CASE Awaited(d)
        BY <1>1, <1>2, <3>1, <4>1, <4>3 DEF Noticed, Awaited
      <4> QED
        BY <3>1, <4>2, <4>3 DEF QuietInv
    <3>3. CASE listed[d] = 0
      BY <1>1, <1>2, <3>3 DEF Awaited
    <3> QED
      BY <1>1, <3>1, <3>2, <3>3, LeftOut
  <2> QED
    BY <1>1, <1>2, <2>1 DEF QuietInv
<1> QED
  BY <1>6, <1>7, <1>8

LEMMA ActStep == ActInv /\ [ActNext]_actVars => ActInv'
<1> SUFFICES ASSUME ActInv, [ActNext]_actVars PROVE ActInv'
  OBVIOUS
<1>1. ASSUME NEW d \in Disks, IO(d) PROVE ActInv'
  <2>1. inStats' = inStats \cup {d} /\ plugs' \in 0 .. MaxPlug
    BY <1>1 DEF IO, ActInv, ActTypeOK
  <2>2. idle' = IF d \in inStats THEN [idle EXCEPT ![d] = 0] ELSE idle
    BY <1>1 DEF IO
  <2> QED
    BY <1>1, <2>1, <2>2, MoveStep DEF IO
<1>2. ASSUME NEW d \in Removable, Pull(d) \/ Plug(d) PROVE ActInv'
  <2>1. d \in Disks
    BY ActAssumption
  <2>2. CASE Pull(d)
    BY <2>1, <2>2, PullStep
  <2>3. CASE Plug(d)
    <3>1. plugs' \in 0 .. MaxPlug
      BY <2>3, ActAssumption DEF Plug, ActInv, ActTypeOK
    <3>2. idle' = IF d \in inStats THEN [idle EXCEPT ![d] = 0] ELSE idle
      BY <2>3 DEF Plug
    <3> QED
      BY <2>1, <2>3, <3>1, <3>2, MoveStep DEF Plug
  <2> QED
    BY <1>2, <2>2, <2>3
<1>3. CASE UNCHANGED actVars
  BY <1>3 DEF actVars, actMachine, actState, ActInv, ActTypeOK, SampleInv, QuietInv, Noticed,
     Awaited, Slack, Oldest, SumOf, SectorsOf
<1> QED
  BY <1>1, <1>2, <1>3, ElapseStep, StoreStep, TakeStep, TakenSample, FailStep DEF ActNext

LEMMA ActInvariant == ActSpec => []ActInv
  BY ActStart, ActStep, PTL DEF ActSpec

LEMMA InvRate == ActInv => RateTrue
<1> SUFFICES ASSUME ActInv, sampling # NoDisks, baseline # NoDisks,
                    DOMAIN Current(sampling) = DOMAIN baseline
             PROVE  LET sum == SumOf([d \in DOMAIN Current(sampling) |-> moved[d]]) IN
                      /\ Rate(Current(sampling)) <= sum
                      /\ DOMAIN Current(sampling) \cap restarted = {} =>
                           Rate(Current(sampling)) = sum
  BY DEF RateTrue
<1> DEFINE cur == Current(sampling)
           news == [d \in DOMAIN Current(sampling) |-> moved[d]]
           most == [d \in DOMAIN Current(sampling) |-> baseline[d] + moved[d]]
<1>1. /\ DOMAIN cur \subseteq Disks /\ DOMAIN baseline = DOMAIN cur
      /\ DOMAIN news = DOMAIN cur /\ DOMAIN most = DOMAIN cur
      /\ MaxIO \in Nat /\ MaxIO + MaxIO \in Nat
  BY ActAssumption DEF Current, ActInv, ActTypeOK
<1>2. \A d \in DOMAIN cur :
        /\ baseline[d] \in 0 .. MaxIO /\ news[d] \in 0 .. MaxIO /\ cur[d] \in 0 .. MaxIO
        /\ most[d] = baseline[d] + news[d] /\ cur[d] <= most[d]
        /\ d \notin restarted => cur[d] = most[d]
  <2> SUFFICES ASSUME NEW d \in DOMAIN cur
               PROVE  /\ baseline[d] \in 0 .. MaxIO /\ news[d] \in 0 .. MaxIO
                      /\ cur[d] \in 0 .. MaxIO
                      /\ most[d] = baseline[d] + news[d] /\ cur[d] <= most[d]
                      /\ d \notin restarted => cur[d] = most[d]
    OBVIOUS
  <2>1. /\ cur[d] = sectors[d] /\ news[d] = moved[d] /\ d \in Disks
        /\ most[d] = baseline[d] + moved[d]
    BY <1>1 DEF Current
  <2>2. /\ sectors[d] \in 0 .. MaxIO /\ moved[d] \in 0 .. MaxIO
        /\ baseline[d] \in 0 .. MaxIO
    BY <1>1, <2>1 DEF ActInv, ActTypeOK
  <2>3. /\ sectors[d] <= baseline[d] + moved[d]
        /\ d \notin restarted => baseline[d] + moved[d] = sectors[d]
    BY <1>1 DEF ActInv, SampleInv
  <2> QED
    BY <1>1, <2>1, <2>2, <2>3
<1> HIDE DEF cur, news, most
<1>3. \A d \in DOMAIN cur :
        /\ baseline[d] \in Nat /\ news[d] \in Nat /\ cur[d] \in Nat
        /\ most[d] \in Nat /\ most[d] <= MaxIO + MaxIO /\ most[d] \in 0 .. MaxIO + MaxIO
  BY <1>1, <1>2
<1>4. SumOf(most) = SumOf(baseline) + SumOf(news)
  BY ONLY <1>1, <1>2, <1>3, SumAdds
<1>5. /\ SumOf(baseline) \in Nat /\ SumOf(news) \in Nat /\ SumOf(cur) \in Nat
      /\ IsFiniteSet(SectorsOf(most))
  BY ONLY <1>1, <1>2, <1>3, SumBounds
<1>6. SumOf(cur) <= SumOf(most)
  BY ONLY <1>1, <1>2, <1>3, <1>5, SumSmaller
<1>7. Rate(cur) <= SumOf(news)
  BY <1>4, <1>5, <1>6 DEF Rate
<1>8. ASSUME DOMAIN cur \cap restarted = {} PROVE Rate(cur) = SumOf(news)
  <2>1. SumOf(most) <= SumOf(cur)
    <3>1. IsFiniteSet(SectorsOf(cur))
      BY ONLY <1>1, <1>2, SumBounds
    <3>2. \A d \in DOMAIN cur : most[d] <= cur[d]
      BY <1>2, <1>3, <1>8
    <3> QED
      BY ONLY <1>1, <1>3, <3>1, <3>2, SumSmaller
  <2> QED
    BY <1>4, <1>5, <1>6, <2>1 DEF Rate
<1> QED
  BY <1>7, <1>8 DEF cur, news

\* The rate is what the disks of the sample have moved since the sample before,
\* and too low at most if one of them was plugged in again in between, for any
\* number of disks, however mounts come and go and reads fail.
THEOREM RatesAreTrue == ActSpec => []RateTrue
  BY ActInvariant, InvRate, PTL

LEMMA InvPolled == ActInv => PolledWhileActive
<1> SUFFICES ASSUME ActInv PROVE PolledWhileActive
  OBVIOUS
<1>1. ASSUME NEW d \in inStats \ restarted, idle[d] < QuietWindow, d \in DOMAIN activity,
             activity[d].sectors = sectors[d]
      PROVE  activity[d].age < QuietWindow
  <2>1. activity[d].age \in Nat /\ idle[d] \in Nat /\ activity[d].age <= idle[d]
    BY <1>1 DEF ActInv, ActTypeOK, SampleInv
  <2> QED
    BY <1>1, <2>1, ActAssumption
<1>2. ASSUME NEW d \in devices \cap inStats,
             idle[d] >= QuietWindow + Lag, listed[d] >= QuietWindow + Lag
      PROVE  ~ShouldPollDisk(d)
  <2>1. /\ d \in Disks /\ idle[d] \in Nat /\ listed[d] \in Nat
        /\ missed \in 0 .. MaxMissed /\ nextRun \in Nat
        /\ QuietWindow \in Nat /\ QuietWindow > 0
    BY ActAssumption DEF ActInv, ActTypeOK
  <2>2. Slack \in Nat /\ Lag \in Nat /\ Slack <= Lag
    BY <2>1, Slacks
  <2>3. ~Awaited(d)
    BY <1>2, <2>1, <2>2 DEF Awaited
  <2>4. Noticed(d)
    BY <2>3 DEF ActInv, QuietInv
  <2>5. activity[d].age \in Nat
    BY <2>4 DEF Noticed, ActInv, ActTypeOK
  <2> QED
    BY <1>2, <2>1, <2>2, <2>4, <2>5 DEF Noticed, ShouldPollDisk
<1> QED
  BY <1>1, <1>2 DEF PolledWhileActive, ShouldPollDisk

\* A rotational disk is polled for a quiet window after its last I/O and left
\* alone after it, when Lag has passed, for any number of disks and any window.
THEOREM PolledUntilQuiet == ActSpec => []PolledWhileActive
  BY ActInvariant, InvPolled, PTL

-----------------------------------------------------------------------------
(* DiskPower *)

\* The time a disk has taken is that of its commands, each with its timeout.
TookInv ==
  /\ spent <= Timeout
  /\ stage = "idle" => took = 0
  /\ stage = "direct" => took <= spent
  /\ stage = "sudo" => took <= Timeout + spent
  /\ stage = "sat" => took <= 2 * Timeout + spent
  /\ stage = "satSudo" => took <= 3 * Timeout + spent
  /\ tool = "hdparm" => stage \in {"idle", "direct", "sudo"}
  /\ orphan => stage # "idle"

\* The pause is what is left of Backoff since the refusal, and sudo is not
\* tried in it.  refusedAt stops at Backoff + 1.
PauseInv ==
  /\ refusedAt \in [PowerDisks -> 0 .. Backoff + 1]
  /\ \A d \in PowerDisks :
       IF pause[d] >= 0 THEN pause[d] + refusedAt[d] = Backoff ELSE refusedAt[d] > Backoff
  /\ tool = "hdparm" /\ stage = "sudo" => pause[disk] < 0

PowerInv == PowerTypeOK /\ TookInv /\ PauseInv

LEMMA PowerStart == PowerInit => PowerInv
<1> SUFFICES ASSUME PowerInit PROVE PowerInv
  OBVIOUS
<1>1. DOMAIN read = {} /\ DOMAIN sleeping = {}
  BY DEF PowerInit
<1>2. /\ pause \in [PowerDisks -> -1 .. Backoff]
      /\ refusedAt \in [PowerDisks -> 0 .. Backoff + 1]
      /\ \A d \in PowerDisks : pause[d] = -1 /\ refusedAt[d] = Backoff + 1
  BY PowerAssumption DEF PowerInit
<1>3. PowerTypeOK
  <2>1. /\ rights \in {"direct", "sudo", "none"} /\ tool \in {"hdparm", "smartctl"}
        /\ asleep = {} /\ poll = 0 /\ todo = {} /\ disk = NoDisk /\ stage = "idle"
        /\ spent = 0 /\ took = 0 /\ orphan = FALSE /\ reported = {}
    BY DEF PowerInit
  <2>2. orphan \in BOOLEAN /\ (disk = NoDisk <=> stage = "idle")
    BY <2>1
  <2>3. poll \in 0 .. PollEvery /\ spent \in Nat /\ took \in Nat
    BY <2>1, PowerAssumption
  <2>4. DOMAIN read \subseteq PowerDisks /\ DOMAIN sleeping \subseteq PowerDisks
    BY <1>1
  <2> QED
    BY <1>2, <2>1, <2>2, <2>3, <2>4 DEF PowerTypeOK
<1>4. TookInv
  BY PowerAssumption DEF PowerInit, TookInv
<1>5. PauseInv
  BY <1>2, PowerAssumption DEF PowerInit, PauseInv
<1> QED
  BY <1>3, <1>4, <1>5 DEF PowerInv

LEMMA PassingTime == PowerInv /\ Pass => PowerInv'
<1> SUFFICES ASSUME PowerInv, Pass PROVE PowerInv'
  OBVIOUS
<1> USE PowerAssumption DEF PowerInv
<1>1. /\ stage # "idle" => spent < Timeout \/ orphan
      /\ poll' = IF poll > 0 THEN poll - 1 ELSE 0
      /\ pause' = [d \in PowerDisks |-> IF pause[d] >= 0 THEN pause[d] - 1 ELSE -1]
      /\ refusedAt' = [d \in PowerDisks |->
                         IF refusedAt[d] <= Backoff THEN refusedAt[d] + 1 ELSE refusedAt[d]]
      /\ spent' = IF stage # "idle" /\ ~orphan THEN spent + 1 ELSE spent
      /\ took' = IF stage # "idle" /\ ~orphan THEN took + 1 ELSE took
      /\ UNCHANGED <<rights, asleep, changes, tool, todo, disk, stage, orphan, read,
                     sleeping, reported, errors>>
  BY DEF Pass, MayPass, machineVars
<1>2. PowerTypeOK'
  <2>1. pause' \in [PowerDisks -> -1 .. Backoff]
    BY <1>1 DEF PowerTypeOK
  <2>2. poll' \in 0 .. PollEvery /\ spent' \in Nat /\ took' \in Nat
    BY <1>1 DEF PowerTypeOK
  <2> QED
    BY <1>1, <2>1, <2>2 DEF PowerTypeOK
<1>3. TookInv'
  BY <1>1 DEF TookInv, PowerTypeOK
<1>4. PauseInv'
  <2>1. \A d \in PowerDisks : pause[d] \in -1 .. Backoff /\ refusedAt[d] \in 0 .. Backoff + 1
    BY DEF PowerTypeOK, PauseInv
  <2>2. \A d \in PowerDisks :
          IF pause'[d] >= 0 THEN pause'[d] + refusedAt'[d] = Backoff ELSE refusedAt'[d] > Backoff
    BY <1>1, <2>1 DEF PauseInv
  <2>3. refusedAt' \in [PowerDisks -> 0 .. Backoff + 1]
    BY <1>1, <2>1
  <2>4. tool' = "hdparm" /\ stage' = "sudo" => pause'[disk'] < 0
    BY <1>1, <2>1 DEF PauseInv, PowerTypeOK
  <2> QED
    BY <2>2, <2>3, <2>4 DEF PauseInv
<1> QED
  BY <1>2, <1>3, <1>4

LEMMA StartStep == PowerInv /\ StartRun => PowerInv'
  BY PowerAssumption
  DEF PowerInv, StartRun, PowerTypeOK, TookInv, PauseInv, machineVars, command

LEMMA AskStep == ASSUME PowerInv, NEW d \in PowerDisks, Ask(d) PROVE PowerInv'
<1> USE PowerAssumption DEF PowerInv
<1>1. /\ stage = "idle" /\ todo' = todo \ {d} /\ disk' = d
      /\ stage' = "direct" /\ spent' = 0
      /\ UNCHANGED <<rights, asleep, changes, poll, tool, orphan, pause, read, sleeping,
                     reported, errors, refusedAt, took>>
  BY DEF Ask, machineVars
<1>2. PowerTypeOK'
  BY <1>1 DEF PowerTypeOK
<1>3. TookInv' /\ PauseInv'
  BY <1>1 DEF TookInv, PauseInv, PowerTypeOK
<1> QED
  BY <1>2, <1>3

\* What a command's end does to the invariants, whatever it has printed.
LEMMA TakeOutput ==
  ASSUME PowerInv, stage # "idle", NEW out, Take(out),
         UNCHANGED <<rights, asleep>>
  PROVE  PowerInv'
<1> USE PowerAssumption DEF PowerInv
<1> DEFINE next == NextCommand(out)
<1>1. /\ stage' = next /\ spent' = 0 /\ orphan' = FALSE
      /\ disk' = IF next = "idle" THEN NoDisk ELSE disk
      /\ took' = IF next = "idle" THEN 0 ELSE took
      /\ UNCHANGED <<poll, tool, todo>>
  BY DEF Take
<1>2. /\ pause' = NextPause(out)
      /\ refusedAt' = IF stage = "sudo" /\ tool = "hdparm" /\ out = "refused"
                      THEN [refusedAt EXCEPT ![disk] = 0] ELSE refusedAt
  BY DEF Take
<1>3. disk \in PowerDisks /\ disk # NoDisk
  BY DEF PowerTypeOK
<1>4. /\ next \in {"idle", "sudo", "sat", "satSudo"}
      /\ next = "sudo" => stage = "direct" /\ (tool = "hdparm" => pause[disk] < 0)
      /\ next = "sat" => stage \in {"direct", "sudo"} /\ tool = "smartctl"
      /\ next = "satSudo" => stage = "sat"
  BY DEF NextCommand, RetryAllowed
<1>5. DOMAIN read' \subseteq PowerDisks /\ DOMAIN sleeping' \subseteq PowerDisks
  <2> DEFINE got == IF tool = "hdparm" /\ out = "ok"
                    THEN [d \in DOMAIN read \cup {disk} |->
                            IF d = disk THEN disk \in asleep ELSE read[d]]
                    ELSE read
             all == [d \in DOMAIN got \cup DOMAIN sleeping |->
                       IF d \in DOMAIN got THEN got[d] ELSE sleeping[d]]
  <2>1. read' \in {<<>>, got} /\ sleeping' \in {all, sleeping}
    BY DEF Take
  <2>2. DOMAIN got \subseteq PowerDisks
    BY <1>3 DEF PowerTypeOK
  <2>3. DOMAIN all \subseteq PowerDisks
    BY <2>2 DEF PowerTypeOK
  <2>4. DOMAIN <<>> \subseteq PowerDisks /\ DOMAIN sleeping \subseteq PowerDisks
    BY DEF PowerTypeOK
  <2> HIDE DEF got, all
  <2> QED
    BY <2>1, <2>2, <2>3, <2>4
<1>6. reported' \subseteq PowerDisks
  <2>1. reported' \in {reported, reported \cup {disk}, reported \ {disk}}
    BY DEF Take
  <2> QED
    BY <1>3, <2>1 DEF PowerTypeOK
<1> HIDE DEF next
<1>7. /\ pause' \in [PowerDisks -> -1 .. Backoff]
      /\ \A d \in PowerDisks \ {disk} : pause'[d] = pause[d]
      /\ pause'[disk] \in {pause[disk], -1, Backoff}
      /\ pause'[disk] = Backoff /\ pause[disk] # Backoff =>
           stage = "sudo" /\ tool = "hdparm" /\ out = "refused"
      /\ stage = "sudo" /\ tool = "hdparm" /\ out = "refused" => pause'[disk] = Backoff
      /\ ~(stage = "sudo" /\ tool = "hdparm") => pause' = pause
  BY <1>2, <1>3 DEF NextPause, PowerTypeOK
<1>8. PowerTypeOK'
  <2>1. took' \in Nat /\ disk' \in PowerDisks \cup {NoDisk}
    BY <1>1, <1>3 DEF PowerTypeOK
  <2>2. disk' = NoDisk <=> stage' = "idle"
    BY <1>1, <1>3
  <2> QED
    BY <1>1, <1>4, <1>5, <1>6, <1>7, <2>1, <2>2 DEF PowerTypeOK
<1>9. TookInv'
  BY <1>1, <1>4 DEF TookInv, PowerTypeOK
<1>10. PauseInv'
  <2>1. refusedAt' \in [PowerDisks -> 0 .. Backoff + 1]
    BY <1>2, <1>3 DEF PauseInv
  <2>2. ASSUME NEW d \in PowerDisks
        PROVE  IF pause'[d] >= 0 THEN pause'[d] + refusedAt'[d] = Backoff
               ELSE refusedAt'[d] > Backoff
    <3>1. CASE stage = "sudo" /\ tool = "hdparm" /\ out = "refused" /\ d = disk
      <4>1. pause'[d] = Backoff /\ refusedAt'[d] = 0
        BY <1>2, <1>7, <3>1 DEF PauseInv
      <4> QED
        BY <4>1
    <3>2. CASE stage = "sudo" /\ tool = "hdparm" /\ out # "refused" /\ d = disk
      <4>1. pause[d] < 0 /\ refusedAt[d] > Backoff /\ refusedAt' = refusedAt
        <5>1. pause[disk] \in -1 .. Backoff /\ pause[disk] < 0
          BY <1>3, <3>2 DEF PauseInv, PowerTypeOK
        <5>2. refusedAt[disk] > Backoff
          BY <1>3, <5>1 DEF PauseInv
        <5> QED
          BY <1>2, <3>2, <5>1, <5>2
      <4>2. pause'[d] < 0
        BY <1>2, <1>3, <3>2, <4>1 DEF NextPause, PowerTypeOK
      <4>3. pause'[d] \in Int
        BY <1>7
      <4> QED
        BY <4>1, <4>2, <4>3
    <3>3. CASE d # disk \/ ~(stage = "sudo" /\ tool = "hdparm")
      <4>1. pause'[d] = pause[d] /\ refusedAt'[d] = refusedAt[d]
        BY <1>2, <1>7, <3>3 DEF PauseInv
      <4> QED
        BY <4>1 DEF PauseInv
    <3> QED
      BY <3>1, <3>2, <3>3
  <2>3. tool' = "hdparm" /\ stage' = "sudo" => pause'[disk'] < 0
    BY <1>1, <1>4, <1>7
  <2> QED
    BY <2>1, <2>2, <2>3 DEF PauseInv
<1> QED
  BY <1>8, <1>9, <1>10

LEMMA PowerStep == PowerInv /\ [PowerNext]_powerVars => PowerInv'
<1> SUFFICES ASSUME PowerInv, [PowerNext]_powerVars PROVE PowerInv'
  OBVIOUS
<1>1. CASE Alter
  BY <1>1 DEF Alter, PowerInv, PowerTypeOK, TookInv, PauseInv, command
<1>2. CASE Answer \/ Fail
  BY <1>2, TakeOutput DEF Answer, Fail, Take, machineVars
<1>3. CASE OrphanEnds
  <2>1. stage # "idle"
    BY <1>3 DEF OrphanEnds, PowerInv, TookInv
  <2> QED
    BY <1>3, <2>1, TakeOutput DEF OrphanEnds, Take, machineVars
<1>4. CASE Kill
  BY <1>4 DEF Kill, PowerInv, PowerTypeOK, TookInv, PauseInv, machineVars
<1>5. CASE UNCHANGED powerVars
  BY <1>5 DEF powerVars, PowerInv, PowerTypeOK, TookInv, PauseInv, machineVars, command
<1> QED
  BY <1>1, <1>2, <1>3, <1>4, <1>5, PassingTime, StartStep, AskStep DEF PowerNext

LEMMA PowerInvariant == PowerSpec => []PowerInv
  BY PowerStart, PowerStep, PTL DEF PowerSpec

\* A disk keeps its collector for four commands at most, two of hdparm, each no
\* longer than the timeout; and sudo is not tried again before the pause is
\* over, for any number of disks and any timeout and pause.
THEOREM TimesAreKept == PowerSpec => TimesKept
<1> DEFINE Bound == took <= (IF tool = "hdparm" THEN 2 ELSE 4) * Timeout
           NoRetry == tool = "hdparm" /\ stage # "sudo" /\ stage' = "sudo" =>
                        refusedAt[disk] > Backoff
<1>1. PowerInv => Bound
  BY PowerAssumption DEF PowerInv, PowerTypeOK, TookInv
<1>2. PowerInv /\ [PowerNext]_powerVars => [NoRetry]_powerVars
  <2> SUFFICES ASSUME PowerInv, PowerNext, tool = "hdparm", stage # "sudo", stage' = "sudo"
               PROVE  refusedAt[disk] > Backoff
    OBVIOUS
  <2>1. PICK out : Take(out)
    BY DEF PowerNext, Alter, Pass, StartRun, Ask, Kill, Answer, Fail, OrphanEnds, command,
       PowerInv, TookInv
  <2>2. NextCommand(out) = "sudo"
    BY <2>1 DEF Take
  <2>3. stage = "direct" /\ pause[disk] < 0
    BY <2>2 DEF NextCommand, RetryAllowed
  <2>4. disk \in PowerDisks /\ pause[disk] \in -1 .. Backoff
    BY <2>3 DEF PowerInv, PowerTypeOK
  <2> QED
    BY <2>3, <2>4 DEF PowerInv, PauseInv
<1> QED
  BY <1>1, <1>2, PowerInvariant, PTL DEF PowerSpec, TimesKept

-----------------------------------------------------------------------------
(* CPUUsage *)

LEMMA RestOfSmaller == ASSUME NEW m \in Nat \ {0}, NEW x \in 0 .. m - 1 PROVE x % m = x
  OBVIOUS

LEMMA Quotient ==
  ASSUME NEW a \in Nat, NEW b \in Nat \ {0}
  PROVE  a \div b \in Nat /\ (a \div b) * b <= a /\ a < (a \div b) * b + b
  OBVIOUS

LEMMA UnsignedRange ==
  ASSUME NEW x \in Int
  PROVE  /\ Unsigned(x) \in 0 .. 2 * Half - 1
         /\ x \in 0 .. 2 * Half - 1 => Unsigned(x) = x
<1>1. 2 * Half \in Nat \ {0}
  BY CPUAssumption
<1>2. \A m \in Nat \ {0} : x % m \in 0 .. m - 1
  OBVIOUS
<1> QED
  BY <1>1, <1>2, RestOfSmaller DEF Unsigned

LEMMA ShareInt ==
  ASSUME NEW n \in Int, NEW td \in Nat \ {0} PROVE Share(n, td) \in Int
<1>1. Unsigned(n) * 100 \in Int
  BY UnsignedRange
<1>2. Unsigned(Unsigned(n) * 100) \in Nat
  BY <1>1, UnsignedRange
<1>3. Unsigned(Unsigned(n) * 100) \div td \in Nat
  BY <1>2, Quotient
<1> QED
  BY <1>3, CPUAssumption DEF Share, Signed

\* A share that does not wrap is exact to one percent.
LEMMA ShareExact ==
  ASSUME NEW td \in 1 .. MaxCount, NEW n \in 0 .. td
  PROVE  /\ Share(n, td) \in 0 .. 100
         /\ Share(n, td) * td <= 100 * n
         /\ 100 * n < Share(n, td) * td + td
<1>1. /\ Half \in Nat /\ 100 * n \in Nat /\ td \in Nat \ {0} /\ n \in Nat
      /\ 100 * n < Half /\ n < Half
  BY CPUAssumption
<1>2. Unsigned(n) = n
  BY <1>1, UnsignedRange
<1>3. Unsigned(Unsigned(n) * 100) = 100 * n
  BY <1>1, <1>2, UnsignedRange
<1> DEFINE q == (100 * n) \div td
<1>4. q \in Nat /\ q * td <= 100 * n /\ 100 * n < q * td + td
  BY <1>1, Quotient
<1> HIDE DEF q
<1>5. q <= 100
  <2> SUFFICES ASSUME q >= 101 PROVE FALSE
    BY <1>4
  <2>1. PICK r \in Nat : q = 101 + r
    <3>1. q - 101 \in Nat /\ q = 101 + (q - 101)
      BY <1>4
    <3> QED
      BY <3>1
  <2>2. q * td = 101 * td + r * td /\ r * td \in Nat
    BY <1>1, <2>1
  <2> QED
    BY <1>1, <1>4, <2>2
<1>6. q < Half
  BY <1>1, <1>4, <1>5, CPUAssumption
<1>7. Share(n, td) = q
  BY <1>3, <1>6 DEF Share, Signed, q
<1> QED
  BY <1>4, <1>5, <1>7

LEMMA SharesOrdered ==
  ASSUME NEW td \in 1 .. MaxCount, NEW n \in 0 .. td, NEW m \in 0 .. n
  PROVE  Share(m, td) <= Share(n, td)
<1> DEFINE p == Share(m, td)
           q == Share(n, td)
<1>1. /\ p \in Nat /\ q \in Nat /\ p * td <= 100 * m /\ 100 * n < q * td + td
      /\ td \in Nat \ {0} /\ m \in Nat /\ n \in Nat /\ m <= n
  <2>1. td \in Nat \ {0} /\ m \in 0 .. td /\ m \in Nat /\ n \in Nat /\ m <= n
    BY CPUAssumption
  <2>2. p \in 0 .. 100 /\ p * td <= 100 * m
    BY <2>1, ShareExact
  <2>3. q \in 0 .. 100 /\ 100 * n < q * td + td
    BY <2>1, ShareExact
  <2> HIDE DEF p, q
  <2> QED
    BY <2>1, <2>2, <2>3
<1> HIDE DEF p, q
<1> SUFFICES ASSUME p >= q + 1 PROVE FALSE
  BY <1>1 DEF p, q
<1>2. PICK r \in Nat : p = q + 1 + r
  <2>1. p - q - 1 \in Nat /\ p = q + 1 + (p - q - 1)
    BY <1>1
  <2> QED
    BY <2>1
<1>3. p * td = q * td + td + r * td /\ r * td \in Nat
  BY <1>1, <1>2
<1>4. 100 * m <= 100 * n /\ p * td \in Nat /\ q * td \in Nat
  BY <1>1
<1> QED
  BY <1>1, <1>3, <1>4

\* Unless iowait went back, the baseline and what was counted since make up the
\* counters; and they are small enough for every product and sum to be exact.
CPUInv ==
  /\ CPUTypeOK
  /\ busy + idleTime + iowait <= MaxCount
  /\ ~since.back =>
       /\ prevTotal + since.busy + since.idle + since.iowait = busy + idleTime + iowait
       /\ prevIdle + since.idle + since.iowait = idleTime + iowait
       /\ prevIOWait + since.iowait = iowait

LEMMA CPUStart == CPUInit => CPUInv
<1> SUFFICES ASSUME CPUInit PROVE CPUInv
  OBVIOUS
<1>1. /\ busy = 0 /\ idleTime = 0 /\ iowait = 0 /\ usage = 0 /\ ioPct = 0 /\ lost = 0
      /\ prevTotal = 0 /\ prevIdle = 0 /\ prevIOWait = 0 /\ initialized \in BOOLEAN
  BY DEF CPUInit
<1>2. /\ since \in [busy : Nat, idle : Nat, iowait : Nat, back : BOOLEAN]
      /\ since.busy = 0 /\ since.idle = 0 /\ since.iowait = 0
  BY DEF CPUInit, Nothing
<1>3. CPUTypeOK
  BY <1>1, <1>2, CPUAssumption DEF CPUTypeOK
<1> QED
  BY <1>1, <1>2, <1>3, CPUAssumption DEF CPUInv

LEMMA TickCounts ==
  ASSUME CPUTypeOK, NEW b \in {0, 1}, NEW i \in {0, 1}, NEW w \in {0, 1}, RunTick(b, i, w)
  PROVE  /\ since' \in [busy : Nat, idle : Nat, iowait : Nat, back : BOOLEAN]
         /\ since'.busy = since.busy + b /\ since'.idle = since.idle + i
         /\ since'.iowait = since.iowait + w /\ since'.back = since.back
<1>1. since \in [busy : Nat, idle : Nat, iowait : Nat, back : BOOLEAN]
  BY DEF CPUTypeOK
<1>2. since' = [since EXCEPT !.busy = since.busy + b, !.idle = since.idle + i,
                             !.iowait = since.iowait + w]
  BY DEF RunTick
<1>3. since' = [busy |-> since.busy + b, idle |-> since.idle + i,
                iowait |-> since.iowait + w, back |-> since.back]
  BY <1>1, <1>2
<1>4. since.busy + b \in Nat /\ since.idle + i \in Nat /\ since.iowait + w \in Nat
  BY <1>1
<1> QED
  BY <1>1, <1>3, <1>4

LEMMA TickStep ==
  ASSUME CPUInv, NEW b \in {0, 1}, NEW i \in {0, 1}, NEW w \in {0, 1},
         b + i + w = 1, RunTick(b, i, w)
  PROVE  CPUInv'
<1>1. /\ busy + idleTime + iowait < MaxCount
      /\ busy' = busy + b /\ idleTime' = idleTime + i /\ iowait' = iowait + w
      /\ UNCHANGED <<initialized, prevTotal, prevIdle, prevIOWait, usage, ioPct, lost>>
  BY DEF RunTick, prev
<1>2. /\ busy \in Nat /\ idleTime \in Nat /\ iowait \in Nat
      /\ since \in [busy : Nat, idle : Nat, iowait : Nat, back : BOOLEAN]
      /\ prevTotal \in Nat /\ prevIdle \in Nat /\ prevIOWait \in Nat
      /\ Half \in Nat /\ MaxCount \in Nat /\ MaxCount < Half
  BY CPUAssumption DEF CPUInv, CPUTypeOK
<1>3. /\ since' \in [busy : Nat, idle : Nat, iowait : Nat, back : BOOLEAN]
      /\ since'.busy = since.busy + b /\ since'.idle = since.idle + i
      /\ since'.iowait = since.iowait + w /\ since'.back = since.back
  BY TickCounts DEF CPUInv
<1>4. {busy, idleTime, iowait, prevTotal, prevIdle, prevIOWait}' \subseteq 0 .. 2 * Half - 1
  BY <1>1, <1>2 DEF CPUInv, CPUTypeOK
<1>5. CPUTypeOK'
  BY <1>1, <1>3, <1>4 DEF CPUInv, CPUTypeOK
<1>6. (busy + idleTime + iowait <= MaxCount)'
  BY <1>1, <1>2
<1>7. ASSUME ~since'.back
      PROVE  /\ prevTotal' + since'.busy + since'.idle + since'.iowait
                  = busy' + idleTime' + iowait'
             /\ prevIdle' + since'.idle + since'.iowait = idleTime' + iowait'
             /\ prevIOWait' + since'.iowait = iowait'
  <2>1. /\ prevTotal + since.busy + since.idle + since.iowait = busy + idleTime + iowait
        /\ prevIdle + since.idle + since.iowait = idleTime + iowait
        /\ prevIOWait + since.iowait = iowait
    BY <1>3, <1>7 DEF CPUInv
  <2>2. since.busy \in Nat /\ since.idle \in Nat /\ since.iowait \in Nat
    BY <1>2
  <2>3. b \in Nat /\ i \in Nat /\ w \in Nat
    OBVIOUS
  <2>4. prevIOWait' + since'.iowait = iowait'
    BY <1>1, <1>2, <1>3, <2>1, <2>2, <2>3
  <2>5. prevIdle' + since'.idle + since'.iowait = idleTime' + iowait'
    BY <1>1, <1>2, <1>3, <2>1, <2>2, <2>3
  <2>6. prevTotal' + since'.busy + since'.idle + since'.iowait
          = busy' + idleTime' + iowait'
    BY <1>1, <1>2, <1>3, <2>1, <2>2, <2>3
  <2> QED
    BY <2>4, <2>5, <2>6
<1> QED
  BY <1>5, <1>6, <1>7 DEF CPUInv

LEMMA BackStep == CPUInv /\ GoBack => CPUInv'
<1> SUFFICES ASSUME CPUInv, GoBack PROVE CPUInv'
  OBVIOUS
<1>1. /\ iowait > 0 /\ iowait' = iowait - 1
      /\ since' = [since EXCEPT !.back = TRUE]
      /\ UNCHANGED <<busy, idleTime, initialized, prevTotal, prevIdle, prevIOWait, usage,
                     ioPct, lost>>
  BY DEF GoBack, prev
<1>2. since' \in [busy : Nat, idle : Nat, iowait : Nat, back : BOOLEAN] /\ since'.back
  BY <1>1 DEF CPUInv, CPUTypeOK
<1> QED
  BY <1>1, <1>2, CPUAssumption DEF CPUInv, CPUTypeOK

\* What CollectCPU shows of a sample with n ticks.
LEMMA PercentRange ==
  /\ \A x \in Int : Percent(x) \in 0 .. 100
  /\ \A x \in 0 .. 100 : Percent(x) = x
  BY DEF Percent

LEMMA SampledCPU ==
  ASSUME CPUInv, CollectCPU
  PROVE  /\ usage' \in 0 .. 100 /\ ioPct' \in 0 .. 100
         /\ prevTotal' = busy + idleTime + iowait /\ prevIdle' = idleTime + iowait
         /\ prevIOWait' = iowait /\ since' = Nothing
         /\ LET n == since.busy + since.idle + since.iowait IN
              initialized /\ n > 0 /\ ~since.back =>
                /\ n \in 1 .. MaxCount
                /\ usage' = 100 - Share(since.idle + since.iowait, n)
                /\ ioPct' = Share(since.iowait, n)
<1> DEFINE total == Unsigned(busy + idleTime + iowait)
           idleAll == Unsigned(idleTime + iowait)
           td == total - prevTotal
           grown == initialized /\ td > 0
           n == since.busy + since.idle + since.iowait
<1>1. /\ busy \in Nat /\ idleTime \in Nat /\ iowait \in Nat
      /\ since \in [busy : Nat, idle : Nat, iowait : Nat, back : BOOLEAN]
      /\ prevTotal \in Nat /\ prevIdle \in Nat /\ prevIOWait \in Nat
      /\ Half \in Nat /\ MaxCount \in Nat /\ MaxCount < Half
      /\ busy + idleTime + iowait <= MaxCount
  BY CPUAssumption DEF CPUInv, CPUTypeOK
<1>2. total = busy + idleTime + iowait /\ idleAll = idleTime + iowait
  BY <1>1, UnsignedRange
<1>3. /\ usage' = IF grown THEN Percent(100 - Share(idleAll - prevIdle, td)) ELSE 0
      /\ ioPct' = IF grown THEN Percent(Share(iowait - prevIOWait, td)) ELSE 0
      /\ prevTotal' = total /\ prevIdle' = idleAll /\ prevIOWait' = iowait
      /\ since' = Nothing
  BY DEF CollectCPU, SetBaseline
<1> HIDE DEF total, idleAll
<1>4. usage' \in 0 .. 100 /\ ioPct' \in 0 .. 100
  <2>1. CASE grown
    <3>1. td \in Nat \ {0} /\ idleAll - prevIdle \in Int /\ iowait - prevIOWait \in Int
      BY <1>1, <1>2, <2>1
    <3>2. Share(idleAll - prevIdle, td) \in Int /\ Share(iowait - prevIOWait, td) \in Int
      BY <3>1, ShareInt
    <3> QED
      BY <1>3, <2>1, <3>2, PercentRange
  <2>2. CASE ~grown
    BY <1>3, <2>2
  <2> QED
    BY <2>1, <2>2
<1>5. ASSUME initialized, n > 0, ~since.back
      PROVE  /\ n \in 1 .. MaxCount
             /\ usage' = 100 - Share(since.idle + since.iowait, n)
             /\ ioPct' = Share(since.iowait, n)
  <2>1. /\ since.busy \in Nat /\ since.idle \in Nat /\ since.iowait \in Nat
        /\ prevTotal + since.busy + since.idle + since.iowait = busy + idleTime + iowait
        /\ prevIdle + since.idle + since.iowait = idleTime + iowait
        /\ prevIOWait + since.iowait = iowait
    BY <1>1, <1>5 DEF CPUInv
  <2>2. /\ td = n /\ idleAll - prevIdle = since.idle + since.iowait
        /\ iowait - prevIOWait = since.iowait /\ n \in 1 .. MaxCount
        /\ since.idle + since.iowait \in 0 .. n /\ since.iowait \in 0 .. n
    BY <1>1, <1>2, <1>5, <2>1
  <2>3. Share(since.idle + since.iowait, n) \in 0 .. 100 /\ Share(since.iowait, n) \in 0 .. 100
    BY <2>2, ShareExact
  <2>4. /\ usage' = Percent(100 - Share(since.idle + since.iowait, n))
        /\ ioPct' = Percent(Share(since.iowait, n))
    BY <1>3, <1>5, <2>2
  <2>5. 100 - Share(since.idle + since.iowait, n) \in 0 .. 100
    BY <2>3
  <2> QED
    BY <2>2, <2>3, <2>4, <2>5, PercentRange
<1> QED
  BY <1>2, <1>3, <1>4, <1>5

LEMMA CollectStep == CPUInv /\ CollectCPU => CPUInv'
<1> SUFFICES ASSUME CPUInv, CollectCPU PROVE CPUInv'
  OBVIOUS
<1>1. /\ usage' \in 0 .. 100 /\ ioPct' \in 0 .. 100
      /\ prevTotal' = busy + idleTime + iowait /\ prevIdle' = idleTime + iowait
      /\ prevIOWait' = iowait /\ since' = Nothing
  BY SampledCPU
<1>2. initialized' = TRUE /\ UNCHANGED <<busy, idleTime, iowait, lost>>
  BY DEF CollectCPU, counters
<1>3. /\ busy \in Nat /\ idleTime \in Nat /\ iowait \in Nat /\ lost \in 0 .. MaxLost
      /\ Half \in Nat /\ MaxCount \in Nat /\ MaxCount < Half
      /\ busy + idleTime + iowait <= MaxCount
  BY CPUAssumption DEF CPUInv, CPUTypeOK
<1>4. /\ since' \in [busy : Nat, idle : Nat, iowait : Nat, back : BOOLEAN]
      /\ since'.busy = 0 /\ since'.idle = 0 /\ since'.iowait = 0
  BY <1>1 DEF Nothing
<1>5. {busy, idleTime, iowait, prevTotal, prevIdle, prevIOWait}' \subseteq 0 .. 2 * Half - 1
  BY <1>1, <1>2, <1>3
<1>6. initialized' \in BOOLEAN
  BY <1>2
<1>7. CPUTypeOK'
  BY <1>1, <1>2, <1>3, <1>4, <1>5, <1>6 DEF CPUTypeOK
<1> QED
  BY <1>1, <1>2, <1>3, <1>4, <1>7 DEF CPUInv

LEMMA CPUStep == CPUInv /\ [CPUNext]_cpuVars => CPUInv'
<1> SUFFICES ASSUME CPUInv, [CPUNext]_cpuVars PROVE CPUInv'
  OBVIOUS
<1>1. CASE RunTick(1, 0, 0) \/ RunTick(0, 1, 0) \/ RunTick(0, 0, 1)
  BY <1>1, TickStep
<1>2. CASE CollectCPUFails
  BY <1>2, CPUAssumption DEF CollectCPUFails, CPUInv, CPUTypeOK, counters, prev
<1>3. CASE UNCHANGED cpuVars
  BY <1>3 DEF cpuVars, CPUInv, CPUTypeOK, counters, prev
<1> QED
  BY <1>1, <1>2, <1>3, BackStep, CollectStep DEF CPUNext

LEMMA CPUInvariant == CPUSpec => []CPUInv
  BY CPUStart, CPUStep, PTL DEF CPUSpec

\* usage and iowait are exact to a percent, for counters of any width in which
\* a hundred times their largest value does not wrap.
THEOREM UsageIsExact == CPUSpec => CPUExact
<1> DEFINE n == since.busy + since.idle + since.iowait
           Exact ==
             since' = Nothing /\ initialized /\ n > 0 /\ ~since.back =>
               /\ 100 * since.busy <= usage' * n /\ usage' * n < 100 * since.busy + n
               /\ ioPct' * n <= 100 * since.iowait /\ 100 * since.iowait < ioPct' * n + n
               /\ usage' + ioPct' <= 100
<1>1. CPUInv /\ [CPUNext]_cpuVars => [Exact]_cpuVars
  <2> SUFFICES ASSUME CPUInv, CPUNext, since' = Nothing, initialized, n > 0, ~since.back
               PROVE  /\ 100 * since.busy <= usage' * n /\ usage' * n < 100 * since.busy + n
                      /\ ioPct' * n <= 100 * since.iowait
                      /\ 100 * since.iowait < ioPct' * n + n
                      /\ usage' + ioPct' <= 100
    OBVIOUS
  <2>1. since \in [busy : Nat, idle : Nat, iowait : Nat, back : BOOLEAN]
    BY DEF CPUInv, CPUTypeOK
  <2>2. CollectCPU
    <3>1. since' # since
      BY <2>1 DEF Nothing
    <3>2. ~GoBack
      BY <2>1 DEF GoBack, Nothing
    <3>3. ASSUME NEW b \in {0, 1}, NEW i \in {0, 1}, NEW w \in {0, 1}, RunTick(b, i, w)
          PROVE  b = 0 /\ i = 0 /\ w = 0
      <4>1. since'.busy = since.busy + b /\ since'.idle = since.idle + i
            /\ since'.iowait = since.iowait + w
        BY <3>3, TickCounts DEF CPUInv
      <4>2. since'.busy = 0 /\ since'.idle = 0 /\ since'.iowait = 0
        BY DEF Nothing
      <4>3. since.busy \in Nat /\ since.idle \in Nat /\ since.iowait \in Nat
        BY <2>1
      <4>4. \A x \in Nat, k \in {0, 1} : x + k = 0 => k = 0
        OBVIOUS
      <4>5. since.busy + b = 0 /\ since.idle + i = 0 /\ since.iowait + w = 0
        BY <4>1, <4>2
      <4> QED
        BY <4>3, <4>4, <4>5, Zenon
    <3>4. ~RunTick(1, 0, 0)
      BY <3>3
    <3>5. ~RunTick(0, 1, 0)
      BY <3>3
    <3>6. ~RunTick(0, 0, 1)
      BY <3>3
    <3> QED
      BY <3>1, <3>2, <3>4, <3>5, <3>6 DEF CPUNext, CollectCPUFails
  <2> DEFINE p == Share(since.idle + since.iowait, n)
             q == Share(since.iowait, n)
  <2>3. n \in 1 .. MaxCount /\ usage' = 100 - p /\ ioPct' = q
    BY <2>2, SampledCPU
  <2>4. since.idle + since.iowait \in 0 .. n /\ since.iowait \in 0 .. since.idle + since.iowait
    BY <2>1
  <2>5. /\ p \in 0 .. 100 /\ p * n <= 100 * (since.idle + since.iowait)
        /\ 100 * (since.idle + since.iowait) < p * n + n
    BY <2>3, <2>4, ShareExact
  <2>6. since.iowait \in 0 .. n
    BY <2>1
  <2>7. q \in 0 .. 100 /\ q * n <= 100 * since.iowait /\ 100 * since.iowait < q * n + n
    BY <2>3, <2>6, ShareExact
  <2>8. q <= p
    BY <2>3, <2>4, SharesOrdered
  <2>9. /\ n \in Nat /\ since.busy \in Nat /\ since.idle \in Nat /\ since.iowait \in Nat
        /\ n = since.busy + since.idle + since.iowait
    BY <2>1
  <2> HIDE DEF p, q, n
  <2>10. /\ usage' * n = 100 * n - p * n /\ p * n \in Nat
         /\ ioPct' * n = q * n /\ q * n \in Nat
    <3>1. \A x \in Nat, k \in Nat : (100 - k) * x = 100 * x - k * x /\ k * x \in Nat
      OBVIOUS
    <3>2. p \in Nat /\ q \in Nat
      BY <2>5, <2>7
    <3>3. (100 - p) * n = 100 * n - p * n /\ p * n \in Nat /\ q * n \in Nat
      BY <2>9, <3>1, <3>2
    <3> QED
      BY ONLY <2>3, <3>3
  <2>11. PICK u \in Nat, v \in Nat : u = p * n /\ v = q * n
    BY <2>10
  <2>12. 100 * since.busy <= 100 * n - u /\ 100 * n - u < 100 * since.busy + n
    BY <2>5, <2>9, <2>11
  <2>13. usage' + ioPct' <= 100
    BY <2>3, <2>5, <2>7, <2>8
  <2> QED
    BY <2>7, <2>10, <2>11, <2>12, <2>13
<1> QED
  BY <1>1, CPUInvariant, PTL DEF CPUSpec, CPUExact

-----------------------------------------------------------------------------
(* The three together *)

\* What the collectors' run does is, in each part, a behaviour of that part.
THEOREM PartsOfCollectors == CollectorsSpec => ActSpec /\ PowerSpec /\ CPUSpec
<1>1. CollectorsInit => ActInit /\ PowerInit /\ CPUInit
  BY DEF CollectorsInit
<1>2. [CollectorsNext]_collectorVars =>
        [ActNext]_actVars /\ [PowerNext]_powerVars /\ [CPUNext]_cpuVars
  BY DEF CollectorsNext, collectorVars
<1> QED
  BY <1>1, <1>2, PTL DEF CollectorsSpec, ActSpec, PowerSpec, CPUSpec

\* The variables keep their types: the counters stay in their width, a disk is
\* being asked just when a command runs, a run always has disks.
THEOREM CollectorsTyped == CollectorsSpec => []CollectorTypes
<1>1. ActInv /\ PowerInv /\ CPUInv => CollectorTypes
  BY DEF CollectorTypes, ActInv, PowerInv, CPUInv
<1> QED
  BY <1>1, PartsOfCollectors, ActInvariant, PowerInvariant, CPUInvariant, PTL
=============================================================================
