-------------------------- MODULE DiskHealth_proof --------------------------
(* Theorems about DiskHealth, for every set of devices and every bound. *)
EXTENDS DiskHealth, TLAPS

\* The entry of a device as the updates of p's run change it.
Merged(p, d) == IF d \in run[p].answered
                THEN MergeOf(p, health[d], run[p].updates[d])
                ELSE health[d]

\* Merging yields an entry.
LEMMA MergeType ==
    ASSUME NEW p \in Collector, NEW dst \in Entry, NEW src \in Entry
    PROVE  MergeOf(p, dst, src) \in Entry
<1>1. MergePower(dst, src) \in Entry
  BY DEF MergePower, Entry
<1>2. MergeTemperature(dst, src) \in Entry
  BY DEF MergeTemperature, Entry, Blank, Placeholder
<1>3. MergeSMART(dst, src) \in Entry
  BY DEF MergeSMART, Entry
<1> QED
  BY <1>1, <1>2, <1>3 DEF MergeOf

\* A collector between two runs is one of Run.
LEMMA IdleType == Idle \in Run /\ BlankEntry \in Entry
<1>1. BlankEntry \in Entry
  BY DEF BlankEntry, Entry, Blank
<1> QED
  BY <1>1 DEF Idle, Run

\* Replacing keeps the shape of the snapshot.
LEMMA ReplaceType ==
    ASSUME NEW devs \in SUBSET Device, NEW entries,
           \A d \in Device : entries[d] \in Entry,
           Replace(devs, entries)
    PROVE  /\ shown' \subseteq Device
           /\ health' \in [Device -> Entry]
           /\ \A d \in Device \ shown' : health'[d] = BlankEntry
BY IdleType DEF Replace

\* A step of p that only replaces its own run keeps its type.
LEMMA RunType ==
    ASSUME run \in [Collector -> Run], NEW p \in Collector, NEW r \in Run,
           run' = [run EXCEPT ![p] = r]
    PROVE  run' \in [Collector -> Run]
OBVIOUS

\* The number of polls that fell short is one.
LEMMA CountedType ==
    ASSUME TypeOK, NEW short, Counted(short)
    PROVE  failures' \in Nat
BY DEF TypeOK, Counted

\* What a temperature run may be told of d.
TempUpdates(d) ==
    {[BlankEntry EXCEPT !.sleeping = TRUE], [BlankEntry EXCEPT !.temp = age[d]],
     [BlankEntry EXCEPT !.temp = NoValue]}

LEMMA TempAnswer ==
    ASSUME NEW d \in Device, AskTemperature(d)
    PROVE  \E h \in TempUpdates(d) : Answer("temp", d, h)
BY DEF AskTemperature, TempUpdates

\* What a SMART run may be told of d, whose entry it had taken as u.
LEMMA SmartAnswer ==
    ASSUME TypeOK, NEW d \in Device, AskSMART(d)
    PROVE  LET u == run["smart"].updates[d]
           IN  /\ u \in Entry
               /\ \E h \in Entry :
                     /\ Answer("smart", d, h)
                     /\ \/ h.smart = u.smart
                        \/ u.smart = Blank /\ h.smart = Placeholder
                        \/ h.smart \in {age[d], NoValue}
                     /\ h.counts \in {u.counts, age[d]}
<1> DEFINE u == run["smart"].updates[d]
           kept == IF u.smart = Blank THEN Placeholder ELSE u.smart
<1>1. u \in Entry /\ age[d] \in Nat
  BY DEF TypeOK, Run, Collector
<1>2. CASE d \in asleep
  <2>1. Answer("smart", d, [u EXCEPT !.smart = kept])
    BY <1>2 DEF AskSMART
  <2>2. /\ [u EXCEPT !.smart = kept] \in Entry
        /\ [u EXCEPT !.smart = kept].smart = kept
        /\ [u EXCEPT !.smart = kept].counts = u.counts
    BY <1>1 DEF Entry, Placeholder
  <2> HIDE DEF u
  <2> QED
    BY <1>1, <2>1, <2>2 DEF u
<1>3. CASE d \notin asleep
  <2>1. PICK v \in {age[d], NoValue}, c \in {age[d], u.counts} :
           Answer("smart", d, [u EXCEPT !.smart = v, !.counts = c])
    BY <1>3 DEF AskSMART
  <2> DEFINE h == [u EXCEPT !.smart = v, !.counts = c]
  <2>2. v \in Nat /\ c \in Nat
    BY <1>1 DEF Entry, NoValue
  <2>3. h \in Entry /\ h.smart = v /\ h.counts = c
    BY <1>1, <2>2 DEF Entry
  <2> QED
    BY <1>1, <2>1, <2>3
<1> QED
  BY <1>2, <1>3

\* An answer keeps the types.
LEMMA AnswerType ==
    ASSUME TypeOK, NEW p \in Collector, NEW d \in Device, NEW h \in Entry,
           Answer(p, d, h), failures' \in Nat
    PROVE  TypeOK'
<1> DEFINE r == [run[p] EXCEPT !.left = @ \ {d}, !.answered = @ \cup {d},
                               !.updates[d] = h]
<1>1. r \in Run
  BY DEF TypeOK, Run
<1>2. run' = [run EXCEPT ![p] = r]
  BY DEF Answer, TypeOK
<1>3. run' \in [Collector -> Run]
  BY <1>1, <1>2, RunType DEF TypeOK
<1> QED
  BY <1>3 DEF Answer, TypeOK, machine, snapshot

\* A step that only changes the run of p.
LEMMA LocalType ==
    ASSUME TypeOK, NEW p \in Collector, NEW r \in Run,
           run' = [run EXCEPT ![p] = r],
           UNCHANGED <<mounted, asleep, age, changes, healthDevices, snapshot>>,
           failures' \in Nat
    PROVE  TypeOK'
<1>1. run' \in [Collector -> Run]
  BY RunType DEF TypeOK
<1> QED
  BY <1>1 DEF TypeOK, snapshot

\* A run that has one device less to ask.
LEMMA SkipType ==
    ASSUME TypeOK, NEW p \in Collector, NEW d \in Device,
           run' = [run EXCEPT ![p].left = @ \ {d}],
           UNCHANGED <<mounted, asleep, age, changes, healthDevices, snapshot>>,
           failures' \in Nat
    PROVE  TypeOK'
<1> DEFINE r == [run[p] EXCEPT !.left = @ \ {d}]
<1>1. r \in Run
  BY DEF TypeOK, Run
<1>2. run' = [run EXCEPT ![p] = r]
  BY DEF TypeOK
<1> QED
  BY <1>1, <1>2, LocalType

\* A step that replaces the entries and ends the run of p.
LEMMA EndType ==
    ASSUME TypeOK, NEW p \in Collector, NEW devs \in SUBSET Device, NEW entries,
           \A d \in Device : entries[d] \in Entry,
           Replace(devs, entries),
           run' = [run EXCEPT ![p] = Idle],
           UNCHANGED <<machine, failures, healthDevices>>
    PROVE  TypeOK'
<1>1. run' \in [Collector -> Run]
  BY IdleType, RunType DEF TypeOK
<1> QED
  BY <1>1, ReplaceType DEF TypeOK, machine

LEMMA TypeStep == TypeOK /\ [Next]_vars => TypeOK'
<1> SUFFICES ASSUME TypeOK, [Next]_vars PROVE TypeOK'
  OBVIOUS
<1>1. ASSUME NEW d \in Device, Mount(d) \/ SpinDownOrUp(d) \/ Age(d) PROVE TypeOK'
  <2>1. CASE Mount(d)
    BY <2>1 DEF Mount, TypeOK, snapshot
  <2>2. CASE SpinDownOrUp(d)
    <3>1. asleep' \subseteq Rotational
      BY <2>2 DEF SpinDownOrUp, TypeOK
    <3> QED
      BY <2>2, <3>1 DEF SpinDownOrUp, TypeOK, snapshot
  <2>3. CASE Age(d)
    BY <2>3 DEF Age, TypeOK, snapshot
  <2> QED
    BY <1>1, <2>1, <2>2, <2>3
<1>2. CASE ReadMounts
  <2> DEFINE r == [run["layout"] EXCEPT !.pc = "store", !.devs = mounted]
  <2>1. r \in Run /\ run' = [run EXCEPT !["layout"] = r]
    BY <1>2 DEF ReadMounts, TypeOK, Run, Collector
  <2> QED
    BY <1>2, <2>1, LocalType DEF ReadMounts, Collector, machine, TypeOK
<1>3. CASE StoreLists
  <2> DEFINE r == [run["layout"] EXCEPT !.pc = "identify"]
  <2>1. r \in Run /\ run' = [run EXCEPT !["layout"] = r]
    BY <1>3 DEF StoreLists, TypeOK, Run, Collector
  <2>2. run' \in [Collector -> Run]
    BY <2>1, RunType DEF TypeOK, Collector
  <2>3. healthDevices' \subseteq Device
    BY <1>3 DEF StoreLists, TypeOK, Run, Collector
  <2> QED
    BY <1>3, <2>2, <2>3 DEF StoreLists, machine, snapshot, TypeOK
<1>4. CASE Identify
  <2> DEFINE e == [d \in Device |-> [health[d] EXCEPT !.id = TRUE]]
  <2>1. \A d \in Device : e[d] \in Entry
    BY DEF TypeOK, Entry
  <2> QED
    BY <1>4, <2>1, EndType DEF Identify, Collector, TypeOK
<1>5. ASSUME NEW p \in Collector, Start(p) PROVE TypeOK'
  <2> DEFINE r == [run[p] EXCEPT !.pc = IF p = "smart" THEN "snapshot" ELSE "probe",
                                 !.devs = ListFor(p), !.left = ListFor(p)]
  <2>1. ListFor(p) \subseteq Device
    BY DEF ListFor, SmartDevices, TypeOK
  <2>2. r \in Run /\ run' = [run EXCEPT ![p] = r]
    BY <1>5, <2>1 DEF Start, TypeOK, Run
  <2> QED
    BY <1>5, <2>2, LocalType DEF Start, machine, TypeOK
<1>6. CASE TakePrevious
  <2> DEFINE r == [run["smart"] EXCEPT !.pc = "probe", !.updates = health]
  <2>1. r \in Run /\ run' = [run EXCEPT !["smart"] = r]
    BY <1>6 DEF TakePrevious, TypeOK, Run, Collector
  <2> QED
    BY <1>6, <2>1, LocalType DEF TakePrevious, Collector, machine, TypeOK
<1>7. ASSUME NEW d \in Device, AskPower(d) PROVE TypeOK'
  <2>1. (d \in asleep) \in BOOLEAN
    OBVIOUS
  <2>2. [BlankEntry EXCEPT !.sleeping = d \in asleep] \in Entry
    BY <2>1, IdleType DEF BlankEntry, Entry
  <2>3. Answer("power", d, [BlankEntry EXCEPT !.sleeping = d \in asleep]) /\ failures' \in Nat
    BY <1>7, CountedType DEF AskPower
  <2> QED
    BY <2>2, <2>3, AnswerType DEF Collector
<1>8. ASSUME NEW d \in Device, AskTemperature(d) PROVE TypeOK'
  <2>1. PICK h \in TempUpdates(d) : Answer("temp", d, h)
    BY <1>8, TempAnswer
  <2>2. \A t \in Nat : /\ [BlankEntry EXCEPT !.temp = t] \in Entry
                       /\ [BlankEntry EXCEPT !.sleeping = TRUE] \in Entry
    BY DEF BlankEntry, Entry, Blank
  <2>4. age[d] \in Nat /\ NoValue \in Nat
    BY DEF TypeOK, NoValue
  <2>5. h \in Entry
    BY <2>2, <2>4 DEF TempUpdates
  <2>3. failures' \in Nat
    BY <1>8, CountedType DEF AskTemperature
  <2> QED
    BY <2>1, <2>3, <2>5, AnswerType DEF Collector
<1>9. ASSUME NEW d \in Device, AskSMART(d) PROVE TypeOK'
  <2>1. PICK h \in Entry : Answer("smart", d, h)
    BY <1>9, SmartAnswer
  <2>2. failures' \in Nat
    BY <1>9, CountedType DEF AskSMART
  <2> QED
    BY <2>1, <2>2, AnswerType DEF Collector
<1>10. ASSUME NEW p \in Collector, NEW d \in Device,
              LeaveAlone(p, d) \/ CommandFails(p, d)
       PROVE  TypeOK'
  <2>1. failures' \in Nat
    BY <1>10, CountedType DEF LeaveAlone, CommandFails
  <2> QED
    BY <1>10, <2>1, SkipType DEF LeaveAlone, CommandFails, machine
<1>11. ASSUME NEW p \in Collector, MergeDiskHealth(p) PROVE TypeOK'
  <2>1. ASSUME NEW d \in Device PROVE Merged(p, d) \in Entry
    <3>1. health[d] \in Entry /\ run[p].updates[d] \in Entry
      BY DEF TypeOK, Run
    <3> QED
      BY <3>1, MergeType DEF Merged
  <2>2. Replace(run[p].devs, [d \in Device |-> Merged(p, d)])
    BY <1>11 DEF MergeDiskHealth, Merged
  <2>3. run[p].devs \in SUBSET Device
    BY DEF TypeOK, Run
  <2> DEFINE e == [d \in Device |-> Merged(p, d)]
  <2>4. \A d \in Device : e[d] \in Entry
    BY <2>1
  <2>5. /\ run' = [run EXCEPT ![p] = Idle]
        /\ UNCHANGED <<machine, failures, healthDevices>>
    BY <1>11 DEF MergeDiskHealth
  <2> HIDE DEF e
  <2>6. Replace(run[p].devs, e)
    BY <2>2 DEF e
  <2> QED
    BY <2>3, <2>4, <2>5, <2>6, EndType
<1>12. CASE UNCHANGED vars
  BY <1>12 DEF vars, machine, snapshot, TypeOK
<1> QED
  BY <1>1, <1>2, <1>3, <1>4, <1>5, <1>6, <1>7, <1>8, <1>9, <1>10, <1>11, <1>12
     DEF Next, Machine, Layout, Power, Temperature, SMART, Goroutine, Collector

LEMMA InitType == Init => TypeOK
<1> SUFFICES ASSUME Init PROVE TypeOK
  OBVIOUS
<1>1. run \in [Collector -> Run]
  BY IdleType DEF Init
<1>2. [BlankEntry EXCEPT !.id = TRUE] \in Entry
  BY DEF BlankEntry, Entry, Blank
<1>3. health \in [Device -> Entry]
  BY <1>2, IdleType DEF Init
<1>4. mounted \subseteq Device /\ asleep \subseteq Rotational
  BY DEF Init
<1>5. \A d \in Device \ shown : health[d] = BlankEntry
  BY DEF Init
<1>6. /\ age \in [Device -> Nat] /\ changes \in Nat /\ failures \in Nat
      /\ healthDevices \subseteq Device /\ shown \subseteq Device
  BY <1>4 DEF Init, First
<1> QED
  BY <1>1, <1>3, <1>4, <1>5, <1>6 DEF TypeOK

\* Every state has the types, and a device without an entry the zero value.
THEOREM TypeCorrect == Spec => []TypeOK
BY InitType, TypeStep, PTL DEF Spec

-----------------------------------------------------------------------------
(* Readings never go back. *)

\* What a temperature run has been told of d is not older than what is on
\* display, which nobody else writes, and not newer than the disk.
TempInv(d) ==
    LET u == run["temp"].updates[d]
    IN  /\ u.temp <= age[d]
        /\ d \in run["temp"].answered =>
              u.sleeping \/ u.temp = NoValue \/ health[d].temp <= u.temp

\* The same of what a SMART run has in hand.
SmartInv(d) ==
    LET u == run["smart"].updates[d]
    IN  /\ u.smart <= age[d] /\ u.counts <= age[d]
        /\ run["smart"].pc = "probe" =>
              /\ u.smart = NoValue \/ health[d].smart <= u.smart
              /\ health[d].counts <= u.counts

\* Nothing on display is newer than the disk.
AgeInv(d) ==
    /\ age[d] >= First
    /\ health[d].temp <= age[d] /\ health[d].smart <= age[d]
    /\ health[d].counts <= age[d]

ReadInv == \A d \in Device : AgeInv(d) /\ TempInv(d) /\ SmartInv(d)

\* The readings of an entry are natural numbers.
LEMMA Readings ==
    ASSUME NEW h \in Entry
    PROVE  h.temp \in Nat /\ h.smart \in Nat /\ h.counts \in Nat
BY DEF Entry

\* The fields of a merged entry.
LEMMA MergeFields ==
    ASSUME NEW dst \in Entry, NEW src \in Entry
    PROVE  /\ MergePower(dst, src).temp = dst.temp
           /\ MergePower(dst, src).smart = dst.smart
           /\ MergePower(dst, src).counts = dst.counts
           /\ MergeTemperature(dst, src).smart = dst.smart
           /\ MergeTemperature(dst, src).counts = dst.counts
           /\ MergeTemperature(dst, src).temp =
                 IF ~ src.sleeping THEN src.temp
                 ELSE IF dst.temp = Blank THEN Placeholder ELSE dst.temp
           /\ MergeSMART(dst, src).temp = dst.temp
           /\ MergeSMART(dst, src).smart = src.smart
           /\ MergeSMART(dst, src).counts = src.counts
BY DEF MergePower, MergeTemperature, MergeSMART, Entry

\* What a merge makes of the entry of d.
LEMMA MergedFields ==
    ASSUME TypeOK, ReadInv, NEW p \in Collector, p # "layout", run[p].pc = "probe",
           NEW d \in Device
    PROVE  /\ Merged(p, d).temp <= age[d] /\ Merged(p, d).smart <= age[d]
           /\ Merged(p, d).counts <= age[d] /\ health[d].counts <= Merged(p, d).counts
           /\ p # "temp" => Merged(p, d).temp = health[d].temp
           /\ p # "smart" => /\ Merged(p, d).smart = health[d].smart
                             /\ Merged(p, d).counts = health[d].counts
           /\ \/ health[d].temp <= Merged(p, d).temp
              \/ /\ p = "temp" /\ d \in run[p].answered
                 /\ run[p].updates[d].temp = NoValue /\ Merged(p, d).temp = NoValue
           /\ \/ health[d].smart <= Merged(p, d).smart
              \/ /\ p = "smart" /\ d \in run[p].answered
                 /\ run[p].updates[d].smart = NoValue /\ Merged(p, d).smart = NoValue
<1> DEFINE dst == health[d]
           src == run[p].updates[d]
<1>1. dst \in Entry /\ src \in Entry /\ age[d] \in Nat
  BY DEF TypeOK, Run
<1>2. /\ dst.temp \in Nat /\ dst.smart \in Nat /\ dst.counts \in Nat
      /\ src.temp \in Nat /\ src.smart \in Nat /\ src.counts \in Nat
  BY <1>1, Readings
<1>3. /\ age[d] >= 3 /\ dst.temp <= age[d] /\ dst.smart <= age[d]
      /\ dst.counts <= age[d]
  BY DEF ReadInv, AgeInv, First
<1>4. CASE d \notin run[p].answered
  <2>1. Merged(p, d) = dst
    BY <1>4 DEF Merged
  <2> HIDE DEF dst
  <2> QED
    BY <1>2, <1>3, <2>1 DEF dst
<1>5. CASE d \in run[p].answered /\ p = "power"
  <2>1. /\ Merged(p, d).temp = dst.temp /\ Merged(p, d).smart = dst.smart
        /\ Merged(p, d).counts = dst.counts
    BY <1>1, <1>5, MergeFields DEF Merged, MergeOf
  <2> HIDE DEF dst
  <2> QED
    BY <1>2, <1>3, <2>1 DEF dst
<1>6. CASE d \in run[p].answered /\ p = "temp"
  <2>1. /\ src.temp <= age[d]
        /\ src.sleeping \/ src.temp = NoValue \/ dst.temp <= src.temp
    BY <1>6 DEF ReadInv, TempInv
  <2>2. Merged(p, d) = MergeTemperature(dst, src)
    BY <1>6 DEF Merged, MergeOf
  <2>3. /\ Merged(p, d).smart = dst.smart /\ Merged(p, d).counts = dst.counts
        /\ Merged(p, d).temp = IF ~ src.sleeping THEN src.temp
                               ELSE IF dst.temp = Blank THEN Placeholder ELSE dst.temp
    BY <1>1, <2>2, MergeFields
  <2> HIDE DEF src, dst
  <2>4. /\ Merged(p, d).temp <= age[d]
        /\ \/ dst.temp <= Merged(p, d).temp
           \/ src.temp = NoValue /\ Merged(p, d).temp = NoValue
    <3>1. CASE src.sleeping
      BY <1>1, <1>2, <1>3, <2>1, <2>3, <3>1 DEF Blank, Placeholder
    <3>2. CASE ~ src.sleeping
      BY <1>1, <1>2, <1>3, <2>1, <2>3, <3>2
    <3> QED
      BY <3>1, <3>2
  <2> QED
    BY <1>2, <1>3, <1>6, <2>3, <2>4 DEF dst, src
<1>7. CASE d \in run[p].answered /\ p = "smart"
  <2>1. /\ src.smart <= age[d] /\ src.counts <= age[d]
        /\ src.smart = NoValue \/ dst.smart <= src.smart
        /\ dst.counts <= src.counts
    BY <1>7 DEF ReadInv, SmartInv
  <2>2. /\ Merged(p, d).temp = dst.temp
        /\ Merged(p, d).smart = src.smart /\ Merged(p, d).counts = src.counts
    BY <1>1, <1>7, MergeFields DEF Merged, MergeOf
  <2> HIDE DEF src, dst
  <2> QED
    BY <1>2, <1>3, <1>7, <2>1, <2>2 DEF dst, src
<1> QED
  BY <1>4, <1>5, <1>6, <1>7 DEF Collector

\* A merge in terms of Merged.
LEMMA MergeStep ==
    ASSUME TypeOK, NEW p \in Collector, MergeDiskHealth(p)
    PROVE  /\ run[p].pc = "probe"
           /\ shown' = run[p].devs
           /\ health' = [d \in Device |-> IF d \in run[p].devs THEN Merged(p, d)
                                          ELSE BlankEntry]
           /\ run' = [run EXCEPT ![p] = Idle]
           /\ UNCHANGED age
<1> QED
  BY DEF MergeDiskHealth, Replace, Merged, machine

\* What the readings of a run say, for a run that is not changed.
LEMMA Frame ==
    ASSUME TypeOK, TypeOK', ReadInv,
           \A d \in Device : /\ age'[d] >= age[d]
                             /\ health'[d].temp <= health[d].temp
                             /\ health'[d].smart <= health[d].smart
                             /\ health'[d].counts <= health[d].counts,
           run'["temp"].updates = run["temp"].updates,
           run'["temp"].answered \subseteq run["temp"].answered,
           run'["smart"].updates = run["smart"].updates,
           run'["smart"].pc = "probe" => run["smart"].pc = "probe"
    PROVE  ReadInv'
<1> SUFFICES ASSUME NEW d \in Device
             PROVE  AgeInv(d)' /\ TempInv(d)' /\ SmartInv(d)'
  BY DEF ReadInv
<1>1. /\ age[d] \in Nat /\ age'[d] \in Nat
      /\ health[d] \in Entry /\ health'[d] \in Entry
      /\ run["temp"].updates[d] \in Entry /\ run["smart"].updates[d] \in Entry
  BY DEF TypeOK, Run, Collector
<1>2. /\ health[d].temp \in Nat /\ health'[d].temp \in Nat
      /\ health[d].smart \in Nat /\ health'[d].smart \in Nat
      /\ health[d].counts \in Nat /\ health'[d].counts \in Nat
      /\ run["temp"].updates[d].temp \in Nat /\ run["smart"].updates[d].smart \in Nat
      /\ run["smart"].updates[d].counts \in Nat
  BY <1>1, Readings
<1>3. AgeInv(d) /\ TempInv(d) /\ SmartInv(d)
  BY DEF ReadInv
<1>4. AgeInv(d)'
  BY <1>1, <1>2, <1>3 DEF AgeInv, First
<1>5. TempInv(d)'
  <2> DEFINE u == run["temp"].updates[d]
  <2>1. u.temp <= age'[d]
    BY <1>1, <1>2, <1>3 DEF TempInv
  <2>2. d \in run["temp"].answered =>
           u.sleeping \/ u.temp = NoValue \/ health'[d].temp <= u.temp
    BY <1>2, <1>3 DEF TempInv
  <2> QED
    BY <2>1, <2>2 DEF TempInv
<1>6. SmartInv(d)'
  <2> DEFINE u == run["smart"].updates[d]
  <2>1. u.smart <= age'[d] /\ u.counts <= age'[d]
    BY <1>1, <1>2, <1>3 DEF SmartInv
  <2>2. run["smart"].pc = "probe" =>
           /\ u.smart = NoValue \/ health'[d].smart <= u.smart
           /\ health'[d].counts <= u.counts
    BY <1>2, <1>3 DEF SmartInv
  <2> QED
    BY <2>1, <2>2 DEF SmartInv
<1> QED
  BY <1>4, <1>5, <1>6

\* A step that leaves the entries and the ages alone.
LEMMA FrameSame ==
    ASSUME TypeOK, TypeOK', ReadInv, UNCHANGED <<age, health>>,
           run'["temp"].updates = run["temp"].updates,
           run'["temp"].answered \subseteq run["temp"].answered,
           run'["smart"].updates = run["smart"].updates,
           run'["smart"].pc = "probe" => run["smart"].pc = "probe"
    PROVE  ReadInv'
<1>1. ASSUME NEW d \in Device
      PROVE  /\ age'[d] >= age[d]
             /\ health'[d].temp <= health[d].temp
             /\ health'[d].smart <= health[d].smart
             /\ health'[d].counts <= health[d].counts
  BY Readings DEF TypeOK
<1> QED
  BY <1>1, Frame

\* An answer in terms of the run it belongs to.
LEMMA AnswerFields ==
    ASSUME TypeOK, NEW p \in Collector, NEW d \in Device, NEW h, Answer(p, d, h)
    PROVE  /\ run'[p].pc = run[p].pc
           /\ run'[p].answered = run[p].answered \cup {d}
           /\ run'[p].updates = [run[p].updates EXCEPT ![d] = h]
           /\ \A q \in Collector \ {p} : run'[q] = run[q]
           /\ UNCHANGED <<age, health>>
BY DEF Answer, TypeOK, Run, machine, snapshot

LEMMA ReadStep == TypeOK /\ ReadInv /\ [Next]_vars => ReadInv'
<1> SUFFICES ASSUME TypeOK, ReadInv, [Next]_vars PROVE ReadInv'
  OBVIOUS
<1>0. TypeOK'
  BY TypeStep
<1>1. ASSUME NEW d \in Device, Mount(d) \/ SpinDownOrUp(d) \/ Age(d) PROVE ReadInv'
  <2>1. UNCHANGED <<health, run>>
    BY <1>1 DEF Mount, SpinDownOrUp, Age, snapshot
  <2>2. \A e \in Device : age'[e] >= age[e]
    BY <1>1 DEF Mount, SpinDownOrUp, Age, TypeOK
  <2>3. \A e \in Device : /\ health'[e].temp <= health[e].temp
                          /\ health'[e].smart <= health[e].smart
                          /\ health'[e].counts <= health[e].counts
    BY <2>1, Readings DEF TypeOK
  <2> QED
    BY <1>0, <2>1, <2>2, <2>3, Frame
<1>2. CASE ReadMounts \/ StoreLists
  BY <1>0, <1>2, FrameSame DEF ReadMounts, StoreLists, machine, snapshot, TypeOK, Collector
<1>3. CASE Identify
  <2>1. \A e \in Device : /\ health'[e].temp <= health[e].temp
                          /\ health'[e].smart <= health[e].smart
                          /\ health'[e].counts <= health[e].counts
    <3> TAKE e \in Device
    <3>1. health[e] \in Entry
      BY DEF TypeOK
    <3>2. health'[e] \in {[health[e] EXCEPT !.id = TRUE], BlankEntry}
      BY <1>3 DEF Identify, Replace
    <3> QED
      BY <3>1, <3>2 DEF Entry, BlankEntry, Blank
  <2>2. age' = age /\ \A e \in Device : age'[e] >= age[e]
    BY <1>3 DEF Identify, machine, TypeOK
  <2>3. run'["temp"] = run["temp"] /\ run'["smart"] = run["smart"]
    BY <1>3 DEF Identify, TypeOK, Collector
  <2> QED
    BY <1>0, <2>1, <2>2, <2>3, Frame
<1>4. ASSUME NEW p \in Collector, Start(p) PROVE ReadInv'
  <2>1. /\ run'["temp"].updates = run["temp"].updates
        /\ run'["temp"].answered = run["temp"].answered
        /\ run'["smart"].updates = run["smart"].updates
    BY <1>4 DEF Start, TypeOK, Collector, Run
  <2>2. run'["smart"].pc = "probe" => run["smart"].pc = "probe"
    BY <1>4 DEF Start, TypeOK, Collector, Run
  <2> QED
    BY <1>0, <1>4, <2>1, <2>2, FrameSame DEF Start, machine, snapshot
<1>5. CASE TakePrevious
  <2>1. /\ UNCHANGED <<age, health>>
        /\ run'["temp"] = run["temp"]
        /\ run'["smart"].updates = health
    BY <1>5 DEF TakePrevious, machine, snapshot, TypeOK, Collector, Run
  <2>2. ASSUME NEW d \in Device PROVE SmartInv(d)'
    <3>1. health[d].smart \in Nat /\ health[d].counts \in Nat
      BY <2>2, Readings DEF TypeOK
    <3>2. health[d].smart <= age[d] /\ health[d].counts <= age[d]
      BY <2>2 DEF ReadInv, AgeInv
    <3> QED
      BY <2>1, <3>1, <3>2 DEF SmartInv
  <2> QED
    BY <2>1, <2>2 DEF ReadInv, AgeInv, TempInv
<1>6. ASSUME NEW d \in Device, AskPower(d) PROVE ReadInv'
  <2>1. run'["temp"] = run["temp"] /\ run'["smart"] = run["smart"]
        /\ UNCHANGED <<age, health>>
    BY <1>6, AnswerFields DEF AskPower, Collector
  <2> QED
    BY <1>0, <2>1, FrameSame
<1>7. ASSUME NEW d \in Device, AskTemperature(d) PROVE ReadInv'
  <2>1. PICK h \in TempUpdates(d) : Answer("temp", d, h)
    BY <1>7, TempAnswer
  <2>2. h.temp \in Nat /\ h.temp <= age[d] /\ (h.sleeping \/ h.temp \in {age[d], NoValue})
    <3>1. age[d] \in Nat /\ age[d] >= 3
      BY DEF TypeOK, ReadInv, AgeInv, First
    <3>2. CASE h = [BlankEntry EXCEPT !.sleeping = TRUE]
      <4>1. h.sleeping /\ h.temp = 0
        BY <3>2 DEF BlankEntry, Blank
      <4> QED
        BY <3>1, <4>1
    <3>3. CASE h = [BlankEntry EXCEPT !.temp = age[d]]
      <4>1. h.temp = age[d]
        BY <3>3 DEF BlankEntry
      <4> QED
        BY <3>1, <4>1
    <3>4. CASE h = [BlankEntry EXCEPT !.temp = NoValue]
      <4>1. h.temp = NoValue
        BY <3>4 DEF BlankEntry
      <4> QED
        BY <3>1, <4>1 DEF NoValue
    <3> QED
      BY <3>2, <3>3, <3>4 DEF TempUpdates
  <2>3. /\ run'["smart"] = run["smart"]
        /\ run'["temp"].answered = run["temp"].answered \cup {d}
        /\ run'["temp"].updates = [run["temp"].updates EXCEPT ![d] = h]
        /\ UNCHANGED <<age, health>>
    BY <2>1, AnswerFields DEF Collector
  <2>4. ASSUME NEW e \in Device PROVE TempInv(e)'
    <3>1. CASE e = d
      <4>1. run'["temp"].updates[e] = h
        BY <2>3, <3>1 DEF TypeOK, Run, Collector
      <4>2. health[e].temp <= age[e]
        BY DEF ReadInv, AgeInv
      <4> QED
        BY <2>2, <2>3, <3>1, <4>1, <4>2 DEF TempInv
    <3>2. CASE e # d
      <4>1. run'["temp"].updates[e] = run["temp"].updates[e]
        BY <2>3, <3>2 DEF TypeOK, Run, Collector
      <4>2. e \in run'["temp"].answered <=> e \in run["temp"].answered
        BY <2>3, <3>2
      <4> QED
        BY <2>3, <4>1, <4>2 DEF TempInv, ReadInv
    <3> QED
      BY <3>1, <3>2
  <2>5. \A e \in Device : AgeInv(e)' /\ SmartInv(e)'
    BY <2>3 DEF ReadInv, AgeInv, SmartInv
  <2> QED
    BY <2>4, <2>5 DEF ReadInv
<1>8. ASSUME NEW d \in Device, AskSMART(d) PROVE ReadInv'
  <2> DEFINE u == run["smart"].updates[d]
  <2>1. PICK h \in Entry :
           /\ Answer("smart", d, h)
           /\ \/ h.smart = u.smart
              \/ u.smart = Blank /\ h.smart = Placeholder
              \/ h.smart \in {age[d], NoValue}
           /\ h.counts \in {u.counts, age[d]}
    BY <1>8, SmartAnswer
  <2>2. u \in Entry /\ health[d] \in Entry /\ age[d] \in Nat
    BY DEF TypeOK, Run, Collector
  <2>3. /\ u.smart \in Nat /\ u.counts \in Nat /\ h.smart \in Nat /\ h.counts \in Nat
        /\ health[d].smart \in Nat /\ health[d].counts \in Nat
    BY <2>2, Readings
  <2>4. /\ u.smart <= age[d] /\ health[d].smart <= age[d] /\ age[d] >= 3
        /\ u.counts <= age[d] /\ health[d].counts <= age[d]
        /\ u.smart = NoValue \/ health[d].smart <= u.smart
        /\ health[d].counts <= u.counts
    BY <1>8 DEF AskSMART, Asks, ReadInv, AgeInv, SmartInv, First
  <2> HIDE DEF u
  <2>5. /\ h.smart <= age[d]
        /\ h.smart = NoValue \/ health[d].smart <= h.smart
        /\ h.counts <= age[d] /\ health[d].counts <= h.counts
    BY <2>1, <2>2, <2>3, <2>4 DEF Blank, NoValue, Placeholder
  <2>6. /\ run'["temp"] = run["temp"] /\ run["smart"].pc = "probe"
        /\ run'["smart"].pc = run["smart"].pc
        /\ run'["smart"].updates = [run["smart"].updates EXCEPT ![d] = h]
        /\ UNCHANGED <<age, health>>
    BY <1>8, <2>1, AnswerFields DEF Collector, AskSMART, Asks
  <2>7. ASSUME NEW e \in Device PROVE SmartInv(e)'
    <3>1. CASE e = d
      <4>1. run'["smart"].updates[e] = h
        BY <2>6, <3>1 DEF TypeOK, Run, Collector
      <4> QED
        BY <2>5, <2>6, <3>1, <4>1 DEF SmartInv
    <3>2. CASE e # d
      <4>1. run'["smart"].updates[e] = run["smart"].updates[e]
        BY <2>6, <3>2 DEF TypeOK, Run, Collector
      <4> QED
        BY <2>6, <4>1 DEF SmartInv, ReadInv
    <3> QED
      BY <3>1, <3>2
  <2>8. \A e \in Device : AgeInv(e)' /\ TempInv(e)'
    BY <2>6 DEF ReadInv, AgeInv, TempInv
  <2> QED
    BY <2>7, <2>8 DEF ReadInv
<1>9. ASSUME NEW p \in Collector, NEW d \in Device,
             LeaveAlone(p, d) \/ CommandFails(p, d)
      PROVE  ReadInv'
  <2>1. UNCHANGED <<age, health>> /\ run' = [run EXCEPT ![p].left = @ \ {d}]
    BY <1>9 DEF LeaveAlone, CommandFails, machine, snapshot
  <2>2. \A q \in Collector : /\ run'[q].updates = run[q].updates
                             /\ run'[q].answered = run[q].answered
                             /\ run'[q].pc = run[q].pc
    BY <2>1 DEF TypeOK, Run
  <2> QED
    BY <1>0, <2>1, <2>2, FrameSame DEF Collector
<1>10. ASSUME NEW p \in Collector \ {"layout"}, MergeDiskHealth(p) PROVE ReadInv'
  <2>1. /\ run[p].pc = "probe"
        /\ health' = [d \in Device |-> IF d \in run[p].devs THEN Merged(p, d)
                                       ELSE BlankEntry]
        /\ run' = [run EXCEPT ![p] = Idle]
        /\ age' = age
    BY <1>10, MergeStep
  <2>2. ASSUME NEW d \in Device
        PROVE  /\ health'[d].temp <= age[d] /\ health'[d].smart <= age[d]
               /\ health'[d].counts <= age[d]
               /\ p # "temp" => health'[d].temp <= health[d].temp
               /\ p # "smart" => /\ health'[d].smart <= health[d].smart
                                 /\ health'[d].counts <= health[d].counts
    <3>1. /\ health[d].temp \in Nat /\ health[d].smart \in Nat /\ health[d].counts \in Nat
          /\ age[d] \in Nat
      BY Readings DEF TypeOK
    <3>2. CASE d \in run[p].devs
      <4>1. health'[d] = Merged(p, d)
        BY <2>1, <3>2
      <4>2. /\ Merged(p, d).temp <= age[d] /\ Merged(p, d).smart <= age[d]
            /\ Merged(p, d).counts <= age[d]
            /\ p # "temp" => Merged(p, d).temp = health[d].temp
            /\ p # "smart" => /\ Merged(p, d).smart = health[d].smart
                              /\ Merged(p, d).counts = health[d].counts
        BY <2>1, MergedFields
      <4> QED
        BY <3>1, <4>1, <4>2
    <3>3. CASE d \notin run[p].devs
      <4>1. health'[d].temp = 0 /\ health'[d].smart = 0 /\ health'[d].counts = 0
        BY <2>1, <3>3 DEF BlankEntry, Blank
      <4> QED
        BY <3>1, <4>1
    <3> QED
      BY <3>2, <3>3
  <2>3. ASSUME NEW d \in Device
        PROVE  /\ Idle.updates[d].temp = 0 /\ Idle.updates[d].smart = 0
               /\ Idle.updates[d].counts = 0 /\ age[d] >= 3 /\ age[d] \in Nat
    BY DEF Idle, BlankEntry, Blank, ReadInv, AgeInv, TypeOK, First
  <2>4. Idle.answered = {} /\ Idle.pc = "idle"
    BY DEF Idle
  <2>5. run'[p] = Idle /\ \A q \in Collector \ {p} : run'[q] = run[q]
    BY <2>1 DEF TypeOK
  <2>6. ASSUME NEW d \in Device PROVE TempInv(d)'
    <3>1. CASE p = "temp"
      <4> SUFFICES Idle.updates[d].temp <= age[d]
        BY <2>1, <2>4, <2>5, <3>1 DEF TempInv
      <4> QED
        BY <2>3
    <3>2. CASE p # "temp"
      <4>1. run'["temp"] = run["temp"]
        BY <2>5, <3>2 DEF Collector
      <4>2. TempInv(d)
        BY DEF ReadInv
      <4>3. /\ health[d].temp \in Nat /\ health'[d].temp \in Nat
            /\ run["temp"].updates[d].temp \in Nat
        BY <1>0, Readings DEF TypeOK, Run, Collector
      <4>4. health'[d].temp <= health[d].temp
        BY <2>2, <3>2
      <4>5. health[d].temp <= run["temp"].updates[d].temp
               => health'[d].temp <= run["temp"].updates[d].temp
        BY <4>3, <4>4
      <4> QED
        BY <2>1, <4>1, <4>2, <4>5 DEF TempInv
    <3> QED
      BY <3>1, <3>2
  <2>7. ASSUME NEW d \in Device PROVE SmartInv(d)'
    <3>1. CASE p = "smart"
      <4> SUFFICES Idle.updates[d].smart <= age[d] /\ Idle.updates[d].counts <= age[d]
        BY <2>1, <2>4, <2>5, <3>1 DEF SmartInv
      <4> QED
        BY <2>3
    <3>2. CASE p # "smart"
      <4>1. run'["smart"] = run["smart"]
        BY <2>5, <3>2 DEF Collector
      <4>2. SmartInv(d)
        BY DEF ReadInv
      <4>3. /\ health[d].smart \in Nat /\ health'[d].smart \in Nat
            /\ health[d].counts \in Nat /\ health'[d].counts \in Nat
            /\ run["smart"].updates[d].smart \in Nat
            /\ run["smart"].updates[d].counts \in Nat
        BY <1>0, Readings DEF TypeOK, Run, Collector
      <4>4. health'[d].smart <= health[d].smart /\ health'[d].counts <= health[d].counts
        BY <2>2, <3>2
      <4>5. /\ health[d].smart <= run["smart"].updates[d].smart
                  => health'[d].smart <= run["smart"].updates[d].smart
            /\ health[d].counts <= run["smart"].updates[d].counts
                  => health'[d].counts <= run["smart"].updates[d].counts
        BY <4>3, <4>4
      <4> QED
        BY <2>1, <4>1, <4>2, <4>5 DEF SmartInv
    <3> QED
      BY <3>1, <3>2
  <2>8. ASSUME NEW d \in Device PROVE AgeInv(d)'
    BY <2>1, <2>2, <2>3 DEF AgeInv, First
  <2> QED
    BY <2>6, <2>7, <2>8 DEF ReadInv
<1>11. CASE UNCHANGED vars
  BY <1>0, <1>11, FrameSame DEF vars, machine, snapshot
<1> QED
  BY <1>1, <1>2, <1>3, <1>4, <1>5, <1>6, <1>7, <1>8, <1>9, <1>10, <1>11
     DEF Next, Machine, Layout, Power, Temperature, SMART, Goroutine, Collector

LEMMA InitRead == Init => ReadInv
<1> SUFFICES ASSUME Init, NEW d \in Device
             PROVE  AgeInv(d) /\ TempInv(d) /\ SmartInv(d)
  BY DEF ReadInv
<1>1. age[d] = 3 /\ run["temp"] = Idle /\ run["smart"] = Idle
  BY DEF Init, First, Collector
<1>2. health[d].temp = 0 /\ health[d].smart = 0 /\ health[d].counts = 0
  BY DEF Init, BlankEntry, Blank
<1>3. /\ Idle.updates[d].temp = 0 /\ Idle.updates[d].smart = 0 /\ Idle.updates[d].counts = 0
      /\ Idle.answered = {} /\ Idle.pc = "idle"
  BY DEF Idle, BlankEntry, Blank
<1> QED
  BY <1>1, <1>2, <1>3 DEF AgeInv, TempInv, SmartInv, First

\* The entries change by Identify and by merges only.
LEMMA WhoWrites ==
    ASSUME [Next]_vars
    PROVE  \/ Identify
           \/ \E p \in Collector \ {"layout"} : MergeDiskHealth(p)
           \/ UNCHANGED snapshot
<1>1. CASE Machine
  BY <1>1 DEF Machine, Mount, SpinDownOrUp, Age
<1>2. CASE Layout
  BY <1>2 DEF Layout, ReadMounts, StoreLists
<1>3. ASSUME NEW p \in Collector \ {"layout"}, Goroutine(p), ~ MergeDiskHealth(p)
      PROVE  UNCHANGED snapshot
  BY <1>3 DEF Goroutine, Start, LeaveAlone, CommandFails
<1>4. ASSUME NEW e \in Device, AskPower(e) \/ AskTemperature(e) \/ AskSMART(e)
      PROVE  UNCHANGED snapshot
  BY <1>4 DEF AskPower, AskTemperature, AskSMART, Answer
<1>5. CASE TakePrevious
  BY <1>5 DEF TakePrevious
<1>6. CASE UNCHANGED vars
  BY <1>6 DEF vars
<1> QED
  BY <1>1, <1>2, <1>3, <1>4, <1>5, <1>6 DEF Next, Power, Temperature, SMART, Collector

\* A step puts no older reading in the place of a newer one, and none at all
\* only where the run it ends was told of none.
LEMMA NoOlderReading ==
    ASSUME TypeOK, ReadInv, [Next]_vars, NEW d \in shown \cap shown'
    PROVE  /\ \/ health'[d].temp >= health[d].temp
              \/ health'[d].temp = NoValue /\ Untold("temp", d, run["temp"].updates[d].temp)
           /\ \/ health'[d].smart >= health[d].smart
              \/ health'[d].smart = NoValue /\ Untold("smart", d, run["smart"].updates[d].smart)
           /\ health'[d].counts >= health[d].counts
<1> d \in Device /\ health[d] \in Entry
  BY DEF TypeOK
<1>0. health[d].temp \in Nat /\ health[d].smart \in Nat /\ health[d].counts \in Nat
  BY Readings
<1>1. CASE Identify
  <2>1. health'[d] = [health[d] EXCEPT !.id = TRUE]
    BY <1>1 DEF Identify, Replace
  <2>2. /\ health'[d].temp = health[d].temp /\ health'[d].smart = health[d].smart
        /\ health'[d].counts = health[d].counts
    BY <2>1 DEF Entry
  <2> QED
    BY <1>0, <2>2
<1>2. CASE \E p \in Collector \ {"layout"} : MergeDiskHealth(p)
  <2>1. PICK p \in Collector \ {"layout"} : MergeDiskHealth(p)
    BY <1>2
  <2>2. run[p].pc = "probe" /\ health'[d] = Merged(p, d) /\ run'[p] = Idle
    BY <2>1, MergeStep DEF TypeOK
  <2>3. Merged(p, d).temp \in Nat /\ Merged(p, d).smart \in Nat /\ Merged(p, d).counts \in Nat
    BY <2>2, TypeStep, Readings DEF TypeOK
  <2>4. /\ health[d].counts <= Merged(p, d).counts
        /\ \/ health[d].temp <= Merged(p, d).temp
           \/ /\ p = "temp" /\ d \in run[p].answered
              /\ run[p].updates[d].temp = NoValue /\ Merged(p, d).temp = NoValue
        /\ \/ health[d].smart <= Merged(p, d).smart
           \/ /\ p = "smart" /\ d \in run[p].answered
              /\ run[p].updates[d].smart = NoValue /\ Merged(p, d).smart = NoValue
    BY <2>2, MergedFields
  <2>5. health'[d].counts >= health[d].counts
    BY <1>0, <2>2, <2>3, <2>4
  <2>6. \/ health'[d].temp >= health[d].temp
        \/ health'[d].temp = NoValue /\ Untold("temp", d, run["temp"].updates[d].temp)
    BY <1>0, <2>2, <2>3, <2>4 DEF Untold
  <2>7. \/ health'[d].smart >= health[d].smart
        \/ health'[d].smart = NoValue /\ Untold("smart", d, run["smart"].updates[d].smart)
    BY <1>0, <2>2, <2>3, <2>4 DEF Untold
  <2> QED
    BY <2>5, <2>6, <2>7
<1>3. CASE UNCHANGED health
  BY <1>0, <1>3
<1> QED
  BY <1>1, <1>2, <1>3, WhoWrites DEF snapshot

\* Whatever runs overlap, no reading on display is replaced by an older one.
THEOREM ReadingsMonotonic == Spec => ReadingsNeverGoBack
<1>1. TypeOK /\ ReadInv /\ [Next]_vars =>
         [\A d \in shown \cap shown' :
             /\ health'[d].temp >= health[d].temp \/ health'[d].temp = NoValue
             /\ health'[d].smart >= health[d].smart \/ health'[d].smart = NoValue
             /\ health'[d].counts >= health[d].counts]_vars
  BY NoOlderReading
<1> QED
  BY <1>1, InitType, TypeStep, InitRead, ReadStep, PTL DEF Spec, ReadingsNeverGoBack

-----------------------------------------------------------------------------
(* Readings of disks that stay mounted stay. *)

\* The collectors that merge.
Merging == Collector \ {"layout"}

\* Whether p asks for lists that d is on.
Concerns(p, d) == p = "power" \/ d \in SmartCapable

\* A device that stays mounted is on every list in use that it belongs on.
Listing(d) ==
    /\ d \in mounted
    /\ d \in healthDevices
    /\ run["layout"].pc = "store" => d \in run["layout"].devs
    /\ \A p \in Merging : run[p].pc # "idle" /\ Concerns(p, d) => d \in run[p].devs

\* A device that smartctl is not asked about has no readings.
Unread(d) ==
    /\ health[d].temp = Blank /\ health[d].smart = Blank /\ health[d].counts = Blank
    /\ d \notin run["temp"].devs /\ d \notin run["smart"].devs

ListInv ==
    /\ \A d \in Device \ Pluggable : Listing(d)
    /\ \A d \in Device \ SmartCapable : Unread(d)

\* A step that leaves the mounts, the lists and the entries alone, and changes
\* of a run neither its list nor whether it is idle or storing.
LEMMA ListSame ==
    ASSUME ListInv, UNCHANGED <<mounted, healthDevices, health>>,
           \A p \in Collector : run'[p].pc = run[p].pc /\ run'[p].devs = run[p].devs
    PROVE  ListInv'
BY DEF ListInv, Listing, Unread, Concerns, Merging, Collector

\* The same with p beginning a run, on the list it asks for.
LEMMA ListStart ==
    ASSUME TypeOK, ListInv, NEW p \in Merging, Start(p)
    PROVE  ListInv'
<1>1. /\ UNCHANGED <<mounted, healthDevices, health>>
      /\ run'[p].devs = ListFor(p)
      /\ \A q \in Collector \ {p} : run'[q] = run[q]
  BY DEF Start, TypeOK, machine, snapshot, Merging, Run
<1>2. \A d \in healthDevices : Concerns(p, d) => d \in ListFor(p)
  BY DEF ListFor, SmartDevices, Concerns
<1>3. p # "power" => \A d \in Device \ SmartCapable : d \notin ListFor(p)
  BY DEF ListFor, SmartDevices
<1>4. ASSUME NEW d \in Device \ Pluggable PROVE Listing(d)'
  BY <1>1, <1>2, <1>4 DEF ListInv, Listing, Merging, Collector, Concerns
<1>5. ASSUME NEW d \in Device \ SmartCapable PROVE Unread(d)'
  BY <1>1, <1>3, <1>5 DEF ListInv, Unread, Merging, Collector
<1> QED
  BY <1>4, <1>5 DEF ListInv

\* The same with p at the end of its run.
LEMMA ListMerge ==
    ASSUME TypeOK, ListInv, NEW p \in Merging, MergeDiskHealth(p)
    PROVE  ListInv'
<1>1. /\ run' = [run EXCEPT ![p] = Idle]
      /\ \A d \in Device : health'[d] = IF d \in run[p].devs THEN Merged(p, d)
                                        ELSE BlankEntry
  BY MergeStep DEF Merging
<1>2. run'[p] = Idle /\ \A q \in Collector \ {p} : run'[q] = run[q]
  BY <1>1 DEF TypeOK, Merging
<1>3. Idle.pc = "idle" /\ Idle.devs = {}
  BY DEF Idle
<1>4. UNCHANGED <<mounted, healthDevices>>
  BY DEF MergeDiskHealth, machine
<1>5. ASSUME NEW d \in Device \ Pluggable PROVE Listing(d)'
  BY <1>2, <1>3, <1>4, <1>5 DEF ListInv, Listing, Concerns, Merging, Collector
<1>6. ASSUME NEW d \in Device \ SmartCapable PROVE Unread(d)'
  <2>1. d \in run[p].devs => p = "power"
    BY <1>6 DEF ListInv, Unread, Merging, Collector
  <2>2. BlankEntry.temp = Blank /\ BlankEntry.smart = Blank /\ BlankEntry.counts = Blank
    BY DEF BlankEntry
  <2>3. p = "power" => /\ Merged(p, d).temp = health[d].temp
                       /\ Merged(p, d).smart = health[d].smart
                       /\ Merged(p, d).counts = health[d].counts
    BY <1>6 DEF Merged, MergeOf, MergePower, TypeOK, Entry
  <2>4. health'[d].temp = Blank /\ health'[d].smart = Blank /\ health'[d].counts = Blank
    BY <1>1, <1>6, <2>1, <2>2, <2>3 DEF ListInv, Unread
  <2> QED
    BY <1>2, <1>3, <1>6, <2>4 DEF ListInv, Unread, Merging, Collector
<1> QED
  BY <1>5, <1>6 DEF ListInv

LEMMA ListStep == TypeOK /\ ListInv /\ [Next]_vars => ListInv'
<1> SUFFICES ASSUME TypeOK, ListInv, [Next]_vars PROVE ListInv'
  OBVIOUS
<1> USE DEF TypeOK, Run
<1>1. ASSUME NEW d \in Device, Mount(d) PROVE ListInv'
  BY <1>1 DEF Mount, ListInv, Listing, Unread, Concerns, snapshot
<1>2. ASSUME NEW d \in Device, SpinDownOrUp(d) \/ Age(d) PROVE ListInv'
  BY <1>2, ListSame DEF SpinDownOrUp, Age, snapshot
<1>3. CASE ReadMounts
  BY <1>3 DEF ReadMounts, ListInv, Listing, Unread, Concerns, Merging, Collector,
              machine, snapshot
<1>4. CASE StoreLists
  BY <1>4 DEF StoreLists, ListInv, Listing, Unread, Concerns, Merging, Collector,
              machine, snapshot
<1>5. CASE Identify
  <2>1. /\ UNCHANGED <<mounted, healthDevices>>
        /\ run'["layout"].pc = "idle"
        /\ \A q \in Merging : run'[q] = run[q]
    BY <1>5 DEF Identify, Idle, Merging, Collector, machine
  <2>2. \A d \in Device : \/ health'[d] = [health[d] EXCEPT !.id = TRUE]
                          \/ health'[d] = BlankEntry
    BY <1>5 DEF Identify, Replace
  <2>3. ASSUME NEW d \in Device \ SmartCapable
        PROVE  health'[d].temp = Blank /\ health'[d].smart = Blank /\ health'[d].counts = Blank
    <3>1. health[d] \in Entry
      BY <2>3
    <3>2. /\ [health[d] EXCEPT !.id = TRUE].temp = health[d].temp
          /\ [health[d] EXCEPT !.id = TRUE].smart = health[d].smart
          /\ [health[d] EXCEPT !.id = TRUE].counts = health[d].counts
      BY <3>1 DEF Entry
    <3>3. BlankEntry.temp = Blank /\ BlankEntry.smart = Blank /\ BlankEntry.counts = Blank
      BY DEF BlankEntry
    <3>4. health[d].temp = Blank /\ health[d].smart = Blank /\ health[d].counts = Blank
      BY <2>3 DEF ListInv, Unread
    <3> QED
      BY <2>2, <2>3, <3>2, <3>3, <3>4
  <2> QED
    BY <2>1, <2>3 DEF ListInv, Listing, Unread, Concerns, Merging, Collector
<1>6. ASSUME NEW p \in Merging, Start(p) PROVE ListInv'
  BY <1>6, ListStart
<1>7. ASSUME NEW p \in Merging, MergeDiskHealth(p) PROVE ListInv'
  BY <1>7, ListMerge
<1>8. CASE TakePrevious
  BY <1>8 DEF TakePrevious, ListInv, Listing, Unread, Concerns, Merging, Collector,
              machine, snapshot
<1>9. ASSUME NEW p \in Merging, NEW d \in Device, LeaveAlone(p, d) \/ CommandFails(p, d)
      PROVE  ListInv'
  <2>1. /\ run' = [run EXCEPT ![p].left = @ \ {d}]
        /\ UNCHANGED <<mounted, healthDevices, health>>
    BY <1>9 DEF LeaveAlone, CommandFails, machine, snapshot
  <2> QED
    BY <2>1, ListSame DEF Merging
<1>10. ASSUME NEW p \in Merging, NEW d \in Device, NEW h, Answer(p, d, h)
       PROVE  ListInv'
  BY <1>10, ListSame DEF Answer, Merging, machine, snapshot
<1>11. CASE UNCHANGED vars
  BY <1>11, ListSame DEF vars, machine, snapshot
<1>12. ASSUME NEW d \in Device, AskPower(d) \/ AskTemperature(d) \/ AskSMART(d)
       PROVE  ListInv'
  BY <1>10, <1>12 DEF AskPower, AskTemperature, AskSMART, Merging, Collector
<1> QED
  BY <1>1, <1>2, <1>3, <1>4, <1>5, <1>6, <1>7, <1>8, <1>9, <1>11, <1>12
     DEF Next, Machine, Layout, Power, Temperature, SMART, Goroutine, Merging, Collector

\* A disk that stays mounted and has a reading stays on display.
LEMMA StaysShown ==
    ASSUME TypeOK, ListInv, [Next]_vars, NEW d \in shown \ Pluggable,
           health[d].temp >= First \/ health[d].smart >= First \/ health[d].counts >= First
    PROVE  d \in shown'
<1> d \in Device
  BY DEF TypeOK
<1>1. d \in SmartCapable
  BY DEF ListInv, Unread, Blank, First
<1>2. CASE Identify
  BY <1>2 DEF Identify, Replace, ListInv, Listing
<1>3. ASSUME NEW p \in Merging, MergeDiskHealth(p) PROVE d \in shown'
  <2>1. run[p].pc = "probe" /\ shown' = run[p].devs
    BY <1>3, MergeStep DEF Merging
  <2> QED
    BY <1>1, <2>1 DEF ListInv, Listing, Concerns
<1>4. CASE UNCHANGED snapshot
  BY <1>4 DEF snapshot
<1> QED
  BY <1>2, <1>3, <1>4, WhoWrites DEF Merging

\* What was read of a disk that stays mounted stays on display, whatever comes
\* and goes beside it, whichever commands fail and however runs overlap, until
\* a usable report of the disk itself has no such line; counters always stay.
THEOREM ReadingsStay == Spec => LastKnownStays
<1> DEFINE Kept(d) ==
             /\ health[d].temp >= First =>
                   /\ d \in shown'
                   /\ \/ health'[d].temp >= First
                      \/ Untold("temp", d, run["temp"].updates[d].temp)
             /\ health[d].smart >= First =>
                   /\ d \in shown'
                   /\ \/ health'[d].smart >= First
                      \/ Untold("smart", d, run["smart"].updates[d].smart)
             /\ health[d].counts >= First => d \in shown' /\ health'[d].counts >= First
           Staying == (shown \cap healthDevices \cap healthDevices') \ Pluggable
<1>1. Init => ListInv
  BY DEF Init, ListInv, Listing, Unread, Merging, Collector, Idle, BlankEntry, Concerns
<1>2. ASSUME TypeOK, ReadInv, ListInv, [Next]_vars, NEW d \in Staying
      PROVE  Kept(d)
  <2>1. d \in Device /\ TypeOK'
    BY <1>2, TypeStep DEF TypeOK
  <2>2. /\ health[d].temp \in Nat /\ health[d].smart \in Nat /\ health[d].counts \in Nat
        /\ health'[d].temp \in Nat /\ health'[d].smart \in Nat /\ health'[d].counts \in Nat
    BY <1>2, <2>1, Readings DEF TypeOK
  <2>3. \/ health[d].temp >= First \/ health[d].smart >= First \/ health[d].counts >= First
        => d \in shown'
    BY <1>2, StaysShown
  <2>4. d \in shown' =>
           /\ \/ health'[d].temp >= health[d].temp
              \/ Untold("temp", d, run["temp"].updates[d].temp)
           /\ \/ health'[d].smart >= health[d].smart
              \/ Untold("smart", d, run["smart"].updates[d].smart)
           /\ health'[d].counts >= health[d].counts
    BY <1>2, NoOlderReading
  <2> QED
    BY <2>2, <2>3, <2>4 DEF First
<1>3. TypeOK /\ ReadInv /\ ListInv /\ [Next]_vars => [\A d \in Staying : Kept(d)]_vars
  BY <1>2
<1> QED
  BY <1>1, <1>3, InitType, TypeStep, InitRead, ReadStep, ListStep, PTL
     DEF Spec, LastKnownStays

-----------------------------------------------------------------------------
(* Entries of disks that smartctl is asked about *)

\* A disk that smartctl can read and that stays mounted has an entry, and its
\* brand in it.
DisksShown == \A d \in SmartCapable \ Pluggable : d \in shown /\ health[d].id

\* Merging leaves the brand alone.
LEMMA MergeKeepsBrand ==
    ASSUME NEW p \in Merging, NEW dst \in Entry, NEW src \in Entry
    PROVE  MergeOf(p, dst, src).id = dst.id
BY DEF MergeOf, MergePower, MergeTemperature, MergeSMART, Entry, Merging, Collector

LEMMA ShownStep == TypeOK /\ ListInv /\ DisksShown /\ [Next]_vars => DisksShown'
<1> SUFFICES ASSUME TypeOK, ListInv, DisksShown, [Next]_vars,
                    NEW d \in SmartCapable \ Pluggable
             PROVE  d \in shown' /\ health'[d].id
  BY DEF DisksShown
<1>1. d \in Device /\ d \in Device \ Pluggable
  BY ConstAssumption
<1>2. d \in shown /\ health[d].id /\ health[d] \in Entry /\ Listing(d)
  BY <1>1 DEF DisksShown, ListInv, TypeOK
<1>3. CASE Identify
  <2>1. shown' = healthDevices /\ health'[d] = [health[d] EXCEPT !.id = TRUE]
    BY <1>1, <1>2, <1>3 DEF Identify, Replace, Listing
  <2> QED
    BY <1>2, <2>1 DEF Listing, Entry
<1>4. ASSUME NEW p \in Merging, MergeDiskHealth(p) PROVE d \in shown' /\ health'[d].id
  <2>1. /\ run[p].pc = "probe" /\ shown' = run[p].devs
        /\ \A e \in Device : health'[e] = IF e \in run[p].devs THEN Merged(p, e)
                                          ELSE BlankEntry
    BY <1>4, MergeStep DEF Merging
  <2>2. d \in run[p].devs
    BY <1>2, <2>1 DEF Listing, Concerns
  <2>3. run[p].updates[d] \in Entry
    BY <1>1 DEF TypeOK, Run, Merging
  <2>4. Merged(p, d).id = health[d].id
    BY <1>2, <2>3, MergeKeepsBrand DEF Merged
  <2> QED
    BY <1>1, <1>2, <2>1, <2>2, <2>4
<1>5. CASE UNCHANGED snapshot
  BY <1>2, <1>5 DEF snapshot
<1> QED
  BY <1>3, <1>4, <1>5, WhoWrites DEF Merging

\* The entry of a disk that smartctl is asked about, and its brand in it, stay
\* as long as the disk is mounted, whatever comes and goes beside it and
\* however runs overlap: what mergeDiskHealth drops (DiskHealthMMC) is never one
\* of these.
THEOREM DisksStayShown == Spec => []DisksShown
<1>1. Init => DisksShown
  <2> SUFFICES ASSUME Init, NEW d \in SmartCapable \ Pluggable
               PROVE  d \in shown /\ health[d].id
    BY DEF DisksShown
  <2>1. d \in Device /\ d \in mounted /\ d \in shown
    BY ConstAssumption DEF Init
  <2>2. health[d] = [BlankEntry EXCEPT !.id = TRUE]
    BY <2>1 DEF Init
  <2> QED
    BY <2>1, <2>2 DEF BlankEntry
<1>2. Init => ListInv
  BY DEF Init, ListInv, Listing, Unread, Merging, Collector, Idle, BlankEntry, Concerns
<1> QED
  BY <1>1, <1>2, InitType, TypeStep, ListStep, ShownStep, PTL DEF Spec

\* On a machine whose disks stay and are all known to smartctl, no entry
\* disappears: the finding needs an eMMC device or one that is unplugged.
THEOREM IdentityStaysWithoutMMC ==
    ASSUME SmartCapable = Device, Pluggable = {}
    PROVE  Spec => IdentityStays
<1>1. TypeOK /\ DisksShown' => shown \cap healthDevices \cap healthDevices' \subseteq shown'
  BY DEF TypeOK, DisksShown
<1> QED
  BY <1>1, TypeCorrect, DisksStayShown, PTL DEF Spec, IdentityStays
=============================================================================
