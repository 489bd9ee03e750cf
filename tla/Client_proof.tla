---------------------------- MODULE Client_proof ----------------------------
(***************************************************************************)
(* Theorems about the parts of a client, and about all of them together,   *)
(* for every value of their constants: the age of a snapshot and the wait  *)
(* for a first one (Client), the input of keys (TerminalInput), the status *)
(* of a collector (Status), the configuration (Config).  Those about the   *)
(* screen are in Viewport_proof.                                           *)
(***************************************************************************)
EXTENDS MCClient, Viewport_proof, TLAPS

-----------------------------------------------------------------------------
(* Client: types *)

LEMMA FreshnessOfIntervals ==
  /\ FreshnessInterval \in Nat \ {0} /\ Cap \in Nat
  /\ StateInterval <= FreshnessInterval /\ ClientMain <= FreshnessInterval
<1>1. /\ FreshnessInterval \in Nat \ {0}
      /\ StateInterval <= FreshnessInterval /\ ClientMain <= FreshnessInterval
  BY ConstAssumption DEF FreshnessInterval
<1>2. JumpBy * MaxJump \in Nat
  BY ConstAssumption
<1> QED
  BY <1>1, <1>2, ConstAssumption DEF Cap

LEMMA OlderByOne ==
  ASSUME NEW a \in Int PROVE Older(a) \in Int /\ a <= Older(a) /\ Older(a) <= a + 1
BY FreshnessOfIntervals DEF Older

LEMMA Files ==
  /\ Written \in [there : BOOLEAN, age : Int]
  /\ [there |-> FALSE, age |-> 0] \in [there : BOOLEAN, age : Int]
BY DEF Written

LEMMA FileFields ==
  TypeOK => /\ file.there \in BOOLEAN /\ file.age \in Int
            /\ file = [there |-> file.there, age |-> file.age]
BY DEF TypeOK

\* What the file becomes when its age is changed.
LEMMA FileAged ==
  ASSUME TypeOK, NEW a \in Int, file' = IF file.there THEN [file EXCEPT !.age = a] ELSE file
  PROVE  /\ file' \in [there : BOOLEAN, age : Int]
         /\ file'.there = file.there /\ (file.there => file'.age = a)
<1>1. file.there => file' = [there |-> file.there, age |-> a]
  BY FileFields
<1>2. ~file.there => file' = file
  OBVIOUS
<1> QED
  BY <1>1, <1>2, FileFields DEF TypeOK

\* A first file, which starts the ticker, or the wait for it.
LEMMA BeginTypes ==
  ASSUME TypeOK, Begin PROVE
    /\ client' = "running" /\ due' = ClientMain /\ waited' = 0 /\ seen' = file.age
    /\ screen' = IF file.age > 4 * FreshnessInterval THEN "stale" ELSE "fresh"
    /\ seen' \in Int
BY FileFields DEF Begin, Draw

LEMMA ClientTypeStep == TypeOK /\ [Next]_vars => TypeOK'
<1> SUFFICES ASSUME TypeOK, [Next]_vars PROVE TypeOK'
  OBVIOUS
<1> USE ConstAssumption DEF server, disk, viewer, counts
<1>1. CASE Tick
  <2>1. seen' \in Int /\ Older(file.age) \in Int
    BY <1>1, FileFields, OlderByOne DEF Tick, TypeOK
  <2>2. file' \in [there : BOOLEAN, age : Int]
    <3>1. file' = IF file.there THEN [file EXCEPT !.age = Older(file.age)] ELSE file
      BY <1>1 DEF Tick
    <3> QED
      BY <2>1, <3>1, FileAged
  <2>3. had' \in 0 .. StartupWait
    BY <1>1 DEF Tick, TypeOK
  <2> QED
    BY <1>1, <2>1, <2>2, <2>3 DEF Tick, TypeOK
<1>2. ASSUME NEW by \in Int, Jump(by) PROVE TypeOK'
  <2>1. file' \in [there : BOOLEAN, age : Int]
    <3>1. file' = IF file.there THEN [file EXCEPT !.age = file.age + by] ELSE file
      BY <1>2 DEF Jump
    <3>2. file.age + by \in Int
      BY FileFields
    <3> QED
      BY <3>1, <3>2, FileAged
  <2> QED
    BY <1>2, <2>1 DEF Jump, TypeOK
<1>3. CASE Start
  <2>1. file' \in [there : BOOLEAN, age : Int]
    BY <1>3, Files DEF Start
  <2>2. dirty' \in BOOLEAN
    BY <1>3 DEF Start, TypeOK
  <2> QED
    BY <1>3, <2>1, <2>2 DEF Start, TypeOK
<1>4. CASE Publish
  <2>1. file' \in [there : BOOLEAN, age : Int]
    BY <1>4, Files DEF Publish, Collect, Flush, FlushFails, TypeOK
  <2>2. dirty' \in BOOLEAN
    BY <1>4 DEF Publish, Collect, Flush, FlushFails, TypeOK
  <2> QED
    BY <1>4, <2>1, <2>2 DEF Publish, Collect, Flush, FlushFails, TypeOK
<1>5. CASE Stop \/ Crash
  <2>1. file' \in [there : BOOLEAN, age : Int]
    BY <1>5, Files DEF Stop, Crash, TypeOK
  <2>2. dirty' \in BOOLEAN
    BY <1>5 DEF Stop, Crash, End, TypeOK
  <2> QED
    BY <1>5, <2>1, <2>2 DEF Stop, Crash, End, TypeOK
<1>6. CASE Open
  BY <1>6, BeginTypes DEF Open, Unreadable, TypeOK
<1>7. CASE Retry
  BY <1>7, BeginTypes DEF Retry, Unreadable, TypeOK
<1>8. CASE GiveUp
  BY <1>8 DEF GiveUp, TypeOK
<1>9. CASE Refresh \/ Redraw
  BY <1>9, FileFields DEF Refresh, ReadState, ReadFails, Unreadable, Redraw, Draw, TypeOK
<1>10. CASE UNCHANGED vars
  BY <1>10 DEF vars, TypeOK
<1> QED
  BY <1>1, <1>2, <1>3, <1>4, <1>5, <1>6, <1>7, <1>8, <1>9, <1>10
     DEF Next, Clock, Daemon, Viewer, Wait

LEMMA ClientTypeStart == Init => TypeOK
<1>1. Init => file \in [there : BOOLEAN, age : Int]
  BY Files DEF Init
<1>2. Init => dirty \in BOOLEAN
  BY DEF Init
<1> QED
  BY <1>1, <1>2, ConstAssumption DEF Init, TypeOK

\* The variables of the client and its clock keep their types.
THEOREM AgeTypes == Spec => []TypeOK
BY ClientTypeStart, ClientTypeStep, PTL DEF Spec

-----------------------------------------------------------------------------
(* Client: who gives up *)

\* The file can have been read only since the last try, and the next one is due.
TriesInv ==
  /\ TypeOK
  /\ ~file.there => had = 0
  /\ client = "starting" => due \in -Late .. RetryEvery /\ had + due <= RetryEvery

LEMMA TriesStep == TriesInv /\ [Next]_vars => TriesInv'
<1> SUFFICES ASSUME TriesInv, [Next]_vars PROVE TriesInv'
  OBVIOUS
<1> USE ConstAssumption DEF server, disk, viewer, counts
<1>1. /\ TypeOK /\ TypeOK' /\ had \in Nat /\ due \in Int
      /\ RetryEvery \in Nat \ {0} /\ Late \in Nat
  BY ClientTypeStep DEF TriesInv, TypeOK
<1>2. CASE Tick
  <2>1. file'.there = file.there
    <3>1. /\ file' = IF file.there THEN [file EXCEPT !.age = Older(file.age)] ELSE file
          /\ Older(file.age) \in Int
      BY <1>1, <1>2, FileFields, OlderByOne DEF Tick
    <3> QED
      BY <1>1, <3>1, FileAged
  <2> QED
    BY <1>1, <1>2, <2>1 DEF Tick, TriesInv
<1>3. ASSUME NEW by \in Int, Jump(by) PROVE TriesInv'
  <2>1. file'.there = file.there
    <3>1. /\ file' = IF file.there THEN [file EXCEPT !.age = file.age + by] ELSE file
          /\ file.age + by \in Int
      BY <1>1, <1>3, FileFields DEF Jump
    <3> QED
      BY <1>1, <3>1, FileAged
  <2> QED
    BY <1>1, <1>3, <2>1 DEF Jump, TriesInv
<1>4. CASE Start
  BY <1>1, <1>4 DEF Start, TriesInv, Written
<1>5. CASE Publish
  BY <1>1, <1>5 DEF Publish, Collect, Flush, FlushFails, TriesInv, Written
<1>6. CASE Stop \/ Crash
  BY <1>1, <1>6 DEF Stop, Crash, End, TriesInv
<1>7. CASE Open
  BY <1>1, <1>7, BeginTypes DEF Open, TriesInv
<1>8. CASE Retry
  BY <1>1, <1>8, BeginTypes DEF Retry, TriesInv
<1>9. CASE GiveUp \/ Refresh \/ Redraw
  BY <1>1, <1>9 DEF GiveUp, Refresh, ReadState, ReadFails, Redraw, TriesInv
<1>10. CASE UNCHANGED vars
  BY <1>1, <1>10 DEF vars, TriesInv
<1> QED
  BY <1>2, <1>3, <1>4, <1>5, <1>6, <1>7, <1>8, <1>9, <1>10
     DEF Next, Clock, Daemon, Viewer, Wait

\* Only GiveUp lets a client that waits exit.
LEMMA ExitIsGiveUp == [Next]_vars /\ client = "starting" /\ client' = "exited" => GiveUp
<1> SUFFICES ASSUME [Next]_vars, client = "starting", client' = "exited" PROVE GiveUp
  OBVIOUS
<1> USE DEF server, disk, viewer, counts
<1>1. ~Clock /\ ~Daemon /\ ~UNCHANGED vars
  BY DEF Clock, Tick, Jump, Daemon, Start, Publish, Collect, Flush, FlushFails, Stop, Crash,
         End, vars
<1>2. ~Open /\ ~Retry /\ ~Refresh /\ ~Redraw
  BY DEF Open, Retry, Begin, Refresh, ReadState, ReadFails, Redraw
<1> QED
  BY <1>1, <1>2 DEF Next, Viewer, Wait

\* However long the start takes and the file's whereabouts change, a client
\* gives up only on a file that has not been readable for more than one retry.
THEOREM GivesUpOnlyWithoutFile == Spec => GivesUpWithoutFile
<1>1. Init => TriesInv
  BY ClientTypeStart, ConstAssumption DEF Init, TriesInv
<1>2. TriesInv /\ [Next]_vars =>
        [client = "starting" /\ client' = "exited" => had <= RetryEvery + Late]_vars
  <2> SUFFICES ASSUME TriesInv, [Next]_vars, client = "starting", client' = "exited"
               PROVE  had <= RetryEvery + Late
    OBVIOUS
  <2>1. client = "starting" /\ had \in Nat /\ due \in -Late .. RetryEvery
        /\ had + due <= RetryEvery /\ Late \in Nat /\ RetryEvery \in Nat
    BY ExitIsGiveUp, ConstAssumption DEF TriesInv, TypeOK
  <2> QED
    BY <2>1
<1> QED
  BY <1>1, <1>2, TriesStep, PTL DEF Spec, GivesUpWithoutFile

-----------------------------------------------------------------------------
(* Client: what is shown of a daemon that lives *)

\* How old a file may become of which publications have failed, and a
\* snapshot on the screen, counted to the next tick of its clock.
FileBound(f) == DaemonMain + Late + StateInterval * (1 + f)
SeenBound(f) == DaemonMain + 2 * Late + StateInterval + ClientMain + f * FreshnessInterval

\* An update that waits for two tickers and the client's, late timers and
\* failures fit together into the four intervals of the indicator.
Timely == SeenBound(MaxFailure) + Late <= 4 * FreshnessInterval

\* So they do for a client of the daemon's own configuration, as long as
\* nothing fails and a timer is late by a third of an interval at most.
LEMMA SameIntervalsAreTimely ==
  ASSUME ClientMain = DaemonMain, MaxFailure = 0, 3 * Late <= FreshnessInterval
  PROVE  Timely
<1>1. 0 * FreshnessInterval = 0
  BY FreshnessOfIntervals
<1>2. SeenBound(0) = DaemonMain + 2 * Late + StateInterval + ClientMain
  BY <1>1, ConstAssumption DEF SeenBound
<1>3. FreshnessInterval \in Nat /\ StateInterval <= FreshnessInterval
      /\ ClientMain <= FreshnessInterval
  BY FreshnessOfIntervals
<1> HIDE DEF FreshnessInterval
<1> QED
  BY <1>2, <1>3, ConstAssumption DEF Timely

LEMMA Bounds ==
  ASSUME NEW f \in Nat
  PROVE  /\ FileBound(f) \in Nat /\ SeenBound(f) \in Nat
         /\ FileBound(f + 1) = FileBound(f) + StateInterval
         /\ SeenBound(f + 1) = SeenBound(f) + FreshnessInterval
         /\ FileBound(f) + Late + ClientMain <= SeenBound(f)
         /\ DaemonMain + Late + StateInterval <= FileBound(f)
         /\ f <= MaxFailure /\ Timely => SeenBound(f) + Late <= 4 * FreshnessInterval
<1>1. /\ DaemonMain \in Nat /\ StateInterval \in Nat /\ ClientMain \in Nat /\ Late \in Nat
      /\ MaxFailure \in Nat /\ FreshnessInterval \in Nat /\ StateInterval <= FreshnessInterval
  BY FreshnessOfIntervals, ConstAssumption
<1>2. \A a \in Nat, b \in Nat, g \in Nat :
        /\ g * a \in Nat /\ a * (1 + g) = a + g * a /\ (g + 1) * a = g * a + a
        /\ a * (1 + (g + 1)) = a + g * a + a
        /\ a <= b => g * a <= g * b /\ a * g <= b * g
  <2> SUFFICES ASSUME NEW a \in Nat, NEW b \in Nat, NEW g \in Nat
               PROVE  /\ g * a \in Nat /\ a * (1 + g) = a + g * a /\ (g + 1) * a = g * a + a
                      /\ a * (1 + (g + 1)) = a + g * a + a
                      /\ a <= b => g * a <= g * b /\ a * g <= b * g
    OBVIOUS
  <2>1. /\ g * a \in Nat /\ a * (1 + g) = a + g * a /\ (g + 1) * a = g * a + a
        /\ a * (1 + (g + 1)) = a + g * a + a
    OBVIOUS
  <2>2. ASSUME a <= b PROVE g * a <= g * b /\ a * g <= b * g
    <3>1. PICK d \in Nat : b = a + d
      <4>1. b - a \in Nat /\ b = a + (b - a)
        BY <2>2
      <4> QED
        BY <4>1
    <3>2. g * b = g * a + g * d /\ b * g = a * g + d * g /\ g * d \in Nat /\ d * g \in Nat
          /\ g * a \in Nat /\ a * g \in Nat
      BY <3>1
    <3> QED
      BY <3>2
  <2> QED
    BY <2>1, <2>2
<1> DEFINE fs == f * StateInterval
           ff == f * FreshnessInterval
<1>3. fs \in Nat /\ ff \in Nat /\ fs <= ff
  BY <1>1, <1>2
<1>4. /\ FileBound(f) = DaemonMain + Late + (StateInterval + fs)
      /\ FileBound(f + 1) = DaemonMain + Late + (StateInterval + fs + StateInterval)
  BY <1>1, <1>2 DEF FileBound
<1>5. /\ SeenBound(f) = DaemonMain + 2 * Late + StateInterval + ClientMain + ff
      /\ SeenBound(f + 1)
           = DaemonMain + 2 * Late + StateInterval + ClientMain + (ff + FreshnessInterval)
  BY <1>1, <1>2 DEF SeenBound
<1>6. ASSUME f <= MaxFailure, Timely PROVE SeenBound(f) + Late <= 4 * FreshnessInterval
  <2> DEFINE mf == MaxFailure * FreshnessInterval
  <2>1. ff <= mf /\ mf \in Nat
    BY <1>1, <1>2, <1>6
  <2>2. DaemonMain + 2 * Late + StateInterval + ClientMain + mf + Late <= 4 * FreshnessInterval
    BY <1>6 DEF Timely, SeenBound
  <2> HIDE DEF ff, mf
  <2> QED
    BY <1>1, <1>3, <1>5, <2>1, <2>2
<1> HIDE DEF fs, ff
<1> QED
  BY <1>1, <1>3, <1>4, <1>5, <1>6

\* Until it ends, a daemon that has started has a file and serves its timers.
DaemonInv ==
  stops = 0 =>
    /\ daemon # "down"
    /\ daemon = "new" => ~file.there /\ client # "running"
    /\ daemon = "up" => /\ file.there
                        /\ mainDue \in -Late .. DaemonMain
                        /\ flushDue \in -Late .. StateInterval

\* Its file is as old as the time to the next update allows, or, with an
\* update that waits, the time to the next publication and those that failed.
FileInv ==
  stops = 0 /\ jumps = 0 /\ daemon = "up" =>
    IF dirty THEN file.age + flushDue <= FileBound(failures)
    ELSE file.age + mainDue <= DaemonMain

\* A snapshot that is shown is as old as the time to the next read allows.
SeenInv ==
  client = "running" =>
    /\ due \in -Late .. ClientMain
    /\ stops = 0 /\ jumps = 0 => seen + due <= SeenBound(failures) /\ screen = "fresh"

LivingInv ==
  TypeOK /\ failures <= MaxFailure /\ DaemonInv /\ FileInv /\ SeenInv

\* The file is young enough to be read and shown.
LEMMA YoungFile ==
  ASSUME LivingInv, stops = 0, jumps = 0, daemon = "up"
  PROVE  /\ file.there /\ file.age \in Int
         /\ file.age <= FileBound(failures) + Late
         /\ file.age + ClientMain <= SeenBound(failures)
         /\ failures = 0 => file.age <= DaemonMain + 2 * Late + StateInterval
<1>1. /\ file.there /\ mainDue \in Int /\ mainDue >= -Late /\ flushDue \in Int
      /\ flushDue >= -Late
      /\ Late \in Nat /\ ClientMain \in Nat /\ StateInterval \in Nat /\ DaemonMain \in Nat
  BY ConstAssumption DEF LivingInv, DaemonInv
<1>2. file.age \in Int /\ failures \in Nat
  BY FileFields DEF LivingInv, TypeOK
<1>3. IF dirty THEN file.age + flushDue <= FileBound(failures)
      ELSE file.age + mainDue <= DaemonMain
  BY DEF LivingInv, FileInv
<1>4. /\ FileBound(failures) \in Nat /\ SeenBound(failures) \in Nat
      /\ FileBound(failures) + Late + ClientMain <= SeenBound(failures)
      /\ DaemonMain + Late + StateInterval <= FileBound(failures)
  BY <1>2, Bounds
<1>5. FileBound(0) = DaemonMain + Late + StateInterval
  BY <1>1 DEF FileBound
<1> HIDE DEF FileBound, SeenBound
<1>6. CASE dirty
  BY <1>1, <1>2, <1>3, <1>4, <1>5, <1>6
<1>7. CASE ~dirty
  BY <1>1, <1>2, <1>3, <1>4, <1>5, <1>7
<1> QED
  BY <1>6, <1>7

\* Whoever runs while nothing has ended or jumped runs beside a daemon.
LEMMA BesideDaemon ==
  ASSUME LivingInv, stops = 0
  PROVE  /\ daemon \in {"new", "up"}
         /\ file.there \/ client = "running" => daemon = "up"
BY DEF LivingInv, DaemonInv, TypeOK

\* Numbers of a state.
LEMMA Numerals ==
  LivingInv =>
    /\ mainDue \in Int /\ flushDue \in Int /\ due \in Int /\ seen \in Int /\ file.age \in Int
    /\ failures \in Nat /\ stops \in Nat /\ jumps \in Nat
    /\ DaemonMain \in Nat \ {0} /\ StateInterval \in Nat \ {0} /\ ClientMain \in Nat \ {0}
    /\ Late \in Nat /\ FreshnessInterval \in Nat
    /\ FileBound(failures) \in Nat /\ SeenBound(failures) \in Nat
BY Bounds, FileFields, FreshnessOfIntervals, ConstAssumption DEF LivingInv, TypeOK

LEMMA LivingTick ==
  ASSUME LivingInv, Tick, TypeOK' PROVE LivingInv'
<1> USE DEF server, disk, viewer, counts
<1>1. /\ mainDue \in Int /\ flushDue \in Int /\ due \in Int /\ seen \in Int
      /\ file.age \in Int /\ Late \in Nat /\ DaemonMain \in Nat /\ StateInterval \in Nat
      /\ ClientMain \in Nat /\ FileBound(failures) \in Nat /\ SeenBound(failures) \in Nat
  BY Numerals
<1>2. /\ daemon = "up" => mainDue > -Late /\ flushDue > -Late
      /\ client = "running" => due > -Late
      /\ daemon = "up" => mainDue' = mainDue - 1 /\ flushDue' = flushDue - 1
      /\ client = "running" => due' = due - 1 /\ seen' = Older(seen)
      /\ file' = IF file.there THEN [file EXCEPT !.age = Older(file.age)] ELSE file
      /\ UNCHANGED <<daemon, dirty, client, screen, stops, failures, jumps>>
  BY DEF Tick
<1>3. /\ Older(seen) \in Int /\ Older(seen) <= seen + 1
      /\ Older(file.age) \in Int /\ Older(file.age) <= file.age + 1
  BY <1>1, OlderByOne
<1>4. file'.there = file.there /\ (file.there => file'.age = Older(file.age))
  BY <1>2, <1>3, FileAged DEF LivingInv
<1>5. DaemonInv'
  BY <1>1, <1>2, <1>4 DEF LivingInv, DaemonInv
<1>6. FileInv'
  <2> SUFFICES ASSUME stops = 0, jumps = 0, daemon = "up"
               PROVE  IF dirty THEN file'.age + flushDue' <= FileBound(failures)
                      ELSE file'.age + mainDue' <= DaemonMain
    BY <1>2 DEF FileInv, FileBound
  <2>1. file.there /\ (IF dirty THEN file.age + flushDue <= FileBound(failures)
                       ELSE file.age + mainDue <= DaemonMain)
    BY DEF LivingInv, FileInv, DaemonInv
  <2> HIDE DEF FileBound
  <2> QED
    BY <1>1, <1>2, <1>3, <1>4, <2>1
<1>7. SeenInv'
  <2> SUFFICES ASSUME client = "running"
               PROVE  /\ due' \in -Late .. ClientMain
                      /\ stops = 0 /\ jumps = 0 =>
                           seen' + due' <= SeenBound(failures) /\ screen = "fresh"
    BY <1>2 DEF SeenInv, SeenBound
  <2>1. /\ due \in -Late .. ClientMain
        /\ stops = 0 /\ jumps = 0 => seen + due <= SeenBound(failures) /\ screen = "fresh"
    BY DEF LivingInv, SeenInv
  <2> QED
    BY <1>1, <1>2, <1>3, <2>1
<1> QED
  BY <1>2, <1>5, <1>6, <1>7 DEF LivingInv

\* The daemon starts, collects and publishes.
LEMMA LivingDaemon ==
  ASSUME LivingInv, Start \/ Publish, TypeOK' PROVE LivingInv'
<1> USE DEF server, disk, viewer, counts
<1>1. /\ mainDue \in Int /\ flushDue \in Int /\ due \in Int /\ seen \in Int
      /\ file.age \in Int /\ Late \in Nat /\ DaemonMain \in Nat \ {0} /\ failures \in Nat
      /\ StateInterval \in Nat \ {0} /\ ClientMain \in Nat
      /\ FileBound(failures) \in Nat /\ SeenBound(failures) \in Nat
      /\ FreshnessInterval \in Nat
  BY Numerals
<1>2. /\ FileBound(failures + 1) = FileBound(failures) + StateInterval
      /\ SeenBound(failures + 1) = SeenBound(failures) + FreshnessInterval
      /\ DaemonMain + Late + StateInterval <= FileBound(failures)
  BY <1>1, Bounds
<1>3. CASE Start
  <2>1. /\ daemon # "up" /\ daemon' = "up" /\ mainDue' = DaemonMain
        /\ flushDue' = StateInterval /\ dirty' = FALSE /\ file' = Written
        /\ UNCHANGED <<client, due, seen, screen, stops, failures, jumps>>
    BY <1>3 DEF Start
  <2>2. file'.there /\ file'.age = 0
    BY <2>1 DEF Written
  <2>3. DaemonInv' /\ FileInv'
    BY <1>1, <2>1, <2>2 DEF DaemonInv, FileInv
  <2>4. SeenInv'
    BY <2>1 DEF LivingInv, SeenInv, SeenBound
  <2> QED
    BY <2>1, <2>3, <2>4 DEF LivingInv
<1>4. CASE Collect
  <2>1. /\ daemon = "up" /\ mainDue <= 0 /\ mainDue' = mainDue + DaemonMain /\ dirty'
        /\ UNCHANGED <<daemon, flushDue, file, client, due, seen, screen, stops, failures,
                       jumps>>
    BY <1>4 DEF Collect
  <2>2. DaemonInv'
    BY <1>1, <2>1 DEF LivingInv, DaemonInv
  <2>3. ASSUME stops = 0, jumps = 0 PROVE file.age + flushDue <= FileBound(failures)
    <3>1. mainDue >= -Late /\ flushDue <= StateInterval
      BY <1>1, <2>1, <2>3 DEF LivingInv, DaemonInv
    <3>2. IF dirty THEN file.age + flushDue <= FileBound(failures)
          ELSE file.age + mainDue <= DaemonMain
      BY <2>1, <2>3 DEF LivingInv, FileInv
    <3> QED
      BY <1>1, <1>2, <3>1, <3>2
  <2>4. FileInv' /\ SeenInv'
    BY <2>1, <2>3 DEF LivingInv, FileInv, SeenInv, FileBound, SeenBound
  <2> QED
    BY <2>1, <2>2, <2>4 DEF LivingInv
<1>5. CASE Flush
  <2>1. /\ daemon = "up" /\ flushDue <= 0 /\ flushDue' = flushDue + StateInterval
        /\ file' = IF dirty THEN Written ELSE file
        /\ ~dirty'
        /\ UNCHANGED <<daemon, mainDue, client, due, seen, screen, stops, failures, jumps>>
    BY <1>5 DEF Flush
  <2>2. dirty => file'.there /\ file'.age = 0
    BY <2>1 DEF Written
  <2>3. DaemonInv'
    BY <1>1, <2>1, <2>2 DEF LivingInv, DaemonInv
  <2>4. ASSUME stops = 0, jumps = 0 PROVE file'.age + mainDue <= DaemonMain
    <3>1. mainDue <= DaemonMain
      BY <1>1, <2>1, <2>4 DEF LivingInv, DaemonInv
    <3> QED
      BY <1>1, <2>1, <2>2, <2>4, <3>1 DEF LivingInv, FileInv
  <2>5. FileInv' /\ SeenInv'
    BY <2>1, <2>4 DEF LivingInv, FileInv, SeenInv, SeenBound
  <2> QED
    BY <2>1, <2>3, <2>5 DEF LivingInv
<1>6. CASE FlushFails
  <2>1. /\ daemon = "up" /\ flushDue <= 0 /\ flushDue' = flushDue + StateInterval
        /\ failures < MaxFailure /\ failures' = failures + 1 /\ dirty
        /\ UNCHANGED <<daemon, mainDue, dirty, file, client, due, seen, screen, stops, jumps>>
    BY <1>6 DEF FlushFails
  <2>2. /\ FileBound(failures)' = FileBound(failures + 1)
        /\ SeenBound(failures)' = SeenBound(failures + 1)
    BY <2>1 DEF FileBound, SeenBound
  <2>3. DaemonInv'
    BY <1>1, <2>1 DEF LivingInv, DaemonInv
  <2>4. FileInv'
    BY <1>1, <1>2, <2>1, <2>2 DEF LivingInv, FileInv
  <2>5. SeenInv'
    BY <1>1, <1>2, <2>1, <2>2 DEF LivingInv, SeenInv
  <2>6. failures' <= MaxFailure
    BY <1>1, <2>1, ConstAssumption
  <2> QED
    BY <2>3, <2>4, <2>5, <2>6 DEF LivingInv
<1> QED
  BY <1>3, <1>4, <1>5, <1>6 DEF Publish

\* The client begins, reads and draws.
LEMMA LivingViewer ==
  ASSUME Timely, LivingInv, Viewer, TypeOK' PROVE LivingInv'
<1> USE DEF server, disk, viewer, counts
<1>1. /\ due \in Int /\ seen \in Int /\ file.age \in Int /\ Late \in Nat /\ failures \in Nat
      /\ ClientMain \in Nat \ {0} /\ FreshnessInterval \in Nat
      /\ FileBound(failures) \in Nat /\ SeenBound(failures) \in Nat /\ StateInterval \in Nat
  BY Numerals
<1>2. /\ SeenBound(failures + 1) = SeenBound(failures) + FreshnessInterval
      /\ FileBound(failures + 1) = FileBound(failures) + StateInterval
      /\ FileBound(failures) + Late + ClientMain <= SeenBound(failures)
      /\ SeenBound(failures) + Late <= 4 * FreshnessInterval
      /\ ClientMain <= FreshnessInterval
  BY <1>1, Bounds, FreshnessOfIntervals DEF LivingInv
<1>3. UNCHANGED <<daemon, mainDue, flushDue, dirty, file, stops, jumps>>
  BY DEF Viewer, Wait, Refresh, Open, Retry, GiveUp, ReadState, ReadFails, Unreadable, Redraw
<1>4. failures' \in {failures, failures + 1} /\ failures' <= MaxFailure
  <2>1. failures' = failures \/ (failures < MaxFailure /\ failures' = failures + 1)
    BY DEF Viewer, Wait, Refresh, Open, Retry, GiveUp, ReadState, ReadFails, Unreadable,
           Redraw
  <2> QED
    BY <1>1, <2>1, ConstAssumption DEF LivingInv
<1>5. FileBound(failures) <= FileBound(failures') /\ FileBound(failures') \in Nat
  <2>1. CASE failures' = failures
    BY ONLY <1>1, <2>1
  <2>2. CASE failures' = failures + 1
    <3>1. FileBound(failures') = FileBound(failures) + StateInterval
      BY ONLY <1>2, <2>2
    <3> QED
      BY ONLY <1>1, <3>1
  <2> QED
    BY <1>4, <2>1, <2>2
<1>6. FileInv'
  <2>1. FileBound(failures)' = FileBound(failures') /\ flushDue \in Int
    BY Numerals DEF FileBound
  <2> QED
    BY <1>1, <1>3, <1>5, <2>1 DEF LivingInv, FileInv
<1>7. ASSUME file.there, file.age <= FileBound(failures) + Late, Draw(file.age)
      PROVE  screen' = "fresh"
  BY <1>1, <1>2, <1>7 DEF Draw
<1>8. CASE Begin /\ file.there /\ failures' = failures /\ client # "running"
  <2>1. due' = ClientMain /\ seen' = file.age /\ client' = "running" /\ Draw(file.age)
    BY <1>8 DEF Begin
  <2>2. ASSUME stops = 0, jumps = 0
        PROVE  seen' + due' <= SeenBound(failures) /\ screen' = "fresh"
    BY <1>1, <1>2, <1>7, <1>8, <2>1, <2>2, BesideDaemon, YoungFile
  <2>3. SeenInv'
    BY <1>1, <1>3, <1>8, <2>1, <2>2 DEF SeenInv
  <2>4. DaemonInv'
    BY <1>3, <1>8 DEF LivingInv, DaemonInv
  <2> QED
    BY <1>4, <1>6, <2>3, <2>4 DEF LivingInv
<1>9. CASE client # "running" /\ client' # "running"
  BY <1>3, <1>4, <1>6, <1>9 DEF LivingInv, DaemonInv, SeenInv
<1>10. CASE ReadState
  <2>1. /\ due <= 0 /\ file.there /\ due' = due + ClientMain /\ seen' = file.age
        /\ client = "running" /\ client' = "running" /\ Draw(file.age) /\ failures' = failures
    BY <1>10 DEF ReadState, Draw
  <2>2. due' \in -Late .. ClientMain
    BY <1>1, <2>1 DEF LivingInv, SeenInv
  <2>3. ASSUME stops = 0, jumps = 0
        PROVE  seen' + due' <= SeenBound(failures) /\ screen' = "fresh"
    BY <1>1, <1>2, <1>7, <2>1, <2>2, <2>3, BesideDaemon, YoungFile
  <2>4. SeenInv' /\ DaemonInv'
    BY <1>3, <2>1, <2>2, <2>3 DEF LivingInv, SeenInv, DaemonInv
  <2> QED
    BY <1>4, <1>6, <2>4 DEF LivingInv
<1>11. CASE ReadFails
  <2>1. /\ due <= 0 /\ due' = due + ClientMain /\ seen' = seen /\ client = "running"
        /\ client' = "running" /\ Draw(seen)
        /\ failures' = IF file.there THEN failures + 1 ELSE failures
    BY <1>11 DEF ReadFails, Unreadable
  <2>2. due \in -Late .. ClientMain /\ due' \in -Late .. ClientMain
    BY <1>1, <2>1 DEF LivingInv, SeenInv
  <2>3. ASSUME stops = 0, jumps = 0
        PROVE  seen' + due' <= SeenBound(failures)' /\ screen' = "fresh"
    <3>1. seen + due <= SeenBound(failures) /\ file.there
      BY <2>1, <2>3, BesideDaemon DEF LivingInv, SeenInv, DaemonInv
    <3>2. SeenBound(failures)' = SeenBound(failures + 1)
      BY <2>1, <3>1 DEF SeenBound
    <3> QED
      BY <1>1, <1>2, <2>1, <2>2, <3>1, <3>2 DEF Draw
  <2>4. SeenInv' /\ DaemonInv'
    BY <1>3, <2>1, <2>2, <2>3 DEF LivingInv, SeenInv, DaemonInv
  <2> QED
    BY <1>4, <1>6, <2>4 DEF LivingInv
<1>12. CASE Redraw
  <2>1. UNCHANGED <<client, due, seen, failures>> /\ client = "running" /\ Draw(seen)
    BY <1>12 DEF Redraw
  <2>2. due \in -Late .. ClientMain
    BY <2>1 DEF LivingInv, SeenInv
  <2>3. ASSUME stops = 0, jumps = 0 PROVE screen' = "fresh"
    BY <1>1, <1>2, <2>1, <2>2, <2>3 DEF Draw, LivingInv, SeenInv
  <2>4. SeenInv' /\ DaemonInv'
    BY <1>3, <2>1, <2>3 DEF LivingInv, SeenInv, DaemonInv, SeenBound
  <2> QED
    BY <1>4, <1>6, <2>4 DEF LivingInv
<1>13. Open \/ Wait => \/ Begin /\ file.there /\ failures' = failures /\ client # "running"
                       \/ client # "running" /\ client' # "running"
  BY DEF Open, Wait, Retry, GiveUp, Unreadable
<1> QED
  BY <1>8, <1>9, <1>10, <1>11, <1>12, <1>13 DEF Viewer, Refresh

LEMMA LivingStep ==
  ASSUME Timely, LivingInv, [Next]_vars PROVE LivingInv'
<1> USE DEF server, disk, viewer, counts
<1>1. TypeOK'
  BY ClientTypeStep DEF LivingInv
<1>2. ASSUME stops' > 0 \/ jumps' > 0, failures' <= MaxFailure, DaemonInv',
             client' = client, due' = due
      PROVE  LivingInv'
  BY <1>1, <1>2 DEF LivingInv, FileInv, SeenInv, TypeOK
<1>3. ASSUME NEW by \in Int, Jump(by) PROVE LivingInv'
  <2>1. jumps' > 0 /\ failures' = failures /\ client' = client /\ due' = due
    BY <1>3 DEF Jump, LivingInv, TypeOK
  <2>2. file'.there = file.there
    <3>1. file' = IF file.there THEN [file EXCEPT !.age = file.age + by] ELSE file
      BY <1>3 DEF Jump
    <3>2. file.age + by \in Int
      BY Numerals
    <3> QED
      BY <3>1, <3>2, FileAged DEF LivingInv
  <2>3. DaemonInv'
    BY <1>3, <2>2 DEF Jump, LivingInv, DaemonInv
  <2> QED
    BY <1>2, <2>1, <2>3 DEF LivingInv
<1>4. CASE Stop \/ Crash
  <2>1. stops' > 0 /\ failures' = failures /\ client' = client /\ due' = due
    BY <1>4 DEF Stop, Crash, End, LivingInv, TypeOK
  <2>2. DaemonInv'
    BY <1>1, <2>1 DEF DaemonInv, TypeOK
  <2> QED
    BY <1>2, <2>1, <2>2 DEF LivingInv
<1>5. CASE UNCHANGED vars
  BY <1>1, <1>5
     DEF vars, LivingInv, DaemonInv, FileInv, SeenInv, FileBound, SeenBound
<1> QED
  BY <1>1, <1>3, <1>4, <1>5, LivingTick, LivingDaemon, LivingViewer, ConstAssumption
     DEF Next, Clock, Daemon

\* Whatever the intervals, a daemon that lives is shown as fresh by every
\* client that is timely, and doctor calls its file young.
THEOREM LivingIsNotStale == ASSUME Timely PROVE Spec => []LivingNotStale
<1>1. Init => LivingInv
  BY ClientTypeStart, ConstAssumption DEF Init, LivingInv, DaemonInv, FileInv, SeenInv
<1>2. LivingInv /\ [Next]_vars => LivingInv'
  BY LivingStep
<1>3. LivingInv => LivingNotStale
  <2> SUFFICES ASSUME LivingInv, stops = 0, jumps = 0
               PROVE  /\ screen # "stale"
                      /\ failures = 0 /\ StateInterval + DaemonMain + 2 * Late <= 4 * DaemonMain
                           => ~DoctorStale
    BY DEF LivingNotStale
  <2>1. screen # "stale"
    BY DEF LivingInv, SeenInv, TypeOK
  <2>2. ASSUME failures = 0, StateInterval + DaemonMain + 2 * Late <= 4 * DaemonMain,
               file.there
        PROVE  file.age <= 4 * DaemonMain
    <3>1. file.age <= DaemonMain + 2 * Late + StateInterval /\ file.age \in Int
      BY <2>2, BesideDaemon, YoungFile
    <3> QED
      BY <2>2, <3>1, ConstAssumption
  <2>3. file.age \in Int /\ DaemonMain \in Nat
    BY Numerals
  <2> QED
    BY <2>1, <2>2, <2>3 DEF DoctorStale
<1> QED
  BY <1>1, <1>2, <1>3, PTL DEF Spec

-----------------------------------------------------------------------------
(* TerminalInput: types *)

Places == {"start", "esc", "ss3", "csi", "page", "mouse", "send"}
Holds == {"none", "up", "end", "pageDown", "click"}
AllBytes == {"esc", "O", "[", "A", "F", "6", "3", "~", "<", "press", "motion", "wheel",
             "M", "m", "x"}

LEMMA DecodeTypes ==
  ASSUME NEW at, NEW arg \in Holds, NEW b
  PROVE  Decode(at, arg, b)[1] \in Places /\ Decode(at, arg, b)[2] \in Holds
<1>1. b \in Report => MouseEvent[b] \in Holds
  BY DEF Report, MouseEvent, Holds
<1> QED
  BY <1>1, Zenon DEF Decode, Places, Holds

\* The channel holds events, and what is sent is one.
InputTypeInv ==
  InputTypeOK /\ events \in Seq(Holds) /\ handled \in Seq(Holds) /\ tty \in Seq(AllBytes)

LEMMA Tuples ==
  ASSUME NEW S, NEW a \in S, NEW b \in S, NEW c \in S, NEW d \in S, NEW e \in S
  PROVE  /\ <<a>> \in Seq(S) /\ <<a, b, c>> \in Seq(S) /\ <<a, b, c, d>> \in Seq(S)
         /\ <<a, b, c, d, e>> \in Seq(S)
OBVIOUS

LEMMA Sent ==
  /\ Gestures = {"up", "end", "pageDown", "click", "release", "drag", "wheel", "delete",
                 "escape", "letter"}
  /\ Bytes["up"] = <<"esc", "[", "A">> /\ Bytes["end"] = <<"esc", "O", "F">>
  /\ Bytes["pageDown"] = <<"esc", "[", "6", "~">>
  /\ Bytes["click"] = <<"esc", "[", "<", "press", "M">>
  /\ Bytes["release"] = <<"esc", "[", "<", "press", "m">>
  /\ Bytes["drag"] = <<"esc", "[", "<", "motion", "M">>
  /\ Bytes["wheel"] = <<"esc", "[", "<", "wheel", "M">>
  /\ Bytes["delete"] = <<"esc", "[", "3", "~">>
  /\ Bytes["escape"] = <<"esc">> /\ Bytes["letter"] = <<"x">>
<1>1. Gestures = {"up", "end", "pageDown", "click", "release", "drag", "wheel", "delete",
                  "escape", "letter"}
  BY DEF Gestures, Bytes
<1> QED
  BY <1>1, Zenon DEF Bytes

LEMMA BytesTypes == \A g \in Gestures : Bytes[g] \in Seq(AllBytes)
<1>1. {"esc", "O", "[", "A", "F", "6", "3", "~", "<", "press", "motion", "wheel", "M", "m",
       "x"} \subseteq AllBytes
  BY DEF AllBytes
<1> HIDE DEF AllBytes
<1>2. /\ Bytes["up"] \in Seq(AllBytes) /\ Bytes["end"] \in Seq(AllBytes)
      /\ Bytes["escape"] \in Seq(AllBytes) /\ Bytes["letter"] \in Seq(AllBytes)
  BY <1>1, Sent, Tuples
<1>3. Bytes["pageDown"] \in Seq(AllBytes) /\ Bytes["delete"] \in Seq(AllBytes)
  BY <1>1, Sent, Tuples
<1>4. Bytes["click"] \in Seq(AllBytes) /\ Bytes["release"] \in Seq(AllBytes)
  BY <1>1, Sent, Tuples
<1>5. Bytes["drag"] \in Seq(AllBytes) /\ Bytes["wheel"] \in Seq(AllBytes)
  BY <1>1, Sent, Tuples
<1> QED
  BY <1>2, <1>3, <1>4, <1>5, Sent

LEMMA InputTypeStep == InputTypeInv /\ [InputNext]_inputVars => InputTypeInv'
<1> SUFFICES ASSUME InputTypeInv, [InputNext]_inputVars PROVE InputTypeInv'
  OBVIOUS
<1> USE InputAssumption
<1>1. CASE Type
  <2>1. /\ Len(typed) < MaxTyped
        /\ UNCHANGED <<hungUp, reader, holding, events, handled, listening>>
        /\ typed \in Seq(Gestures) /\ tty \in Seq(AllBytes)
    BY <1>1 DEF Type, InputTypeInv, InputTypeOK
  <2>2. PICK g \in Gestures : typed' = Append(typed, g) /\ tty' = tty \o Bytes[g]
    BY <1>1 DEF Type
  <2>3. typed' \in Seq(Gestures) /\ Len(typed') <= MaxTyped
    BY <2>1, <2>2
  <2>4. tty' \in Seq(AllBytes)
    BY <2>1, <2>2, BytesTypes
  <2> QED
    BY <2>1, <2>3, <2>4 DEF InputTypeInv, InputTypeOK
<1>2. CASE HangUp
  BY <1>2 DEF HangUp, InputTypeInv, InputTypeOK
<1>3. CASE ReadByte
  <2>1. /\ reader' \in Places /\ holding' \in Holds /\ tty' \in Seq(AllBytes)
        /\ UNCHANGED <<typed, hungUp, events, handled, listening>>
    <3>1. holding \in Holds /\ tty \in Seq(AllBytes) /\ tty # <<>>
      BY <1>3 DEF ReadByte, InputTypeInv, InputTypeOK, Holds
    <3>2. /\ reader' = Decode(reader, holding, Head(tty))[1]
          /\ holding' = Decode(reader, holding, Head(tty))[2]
          /\ tty' = Tail(tty)
      BY <1>3 DEF ReadByte
    <3>3. reader' \in Places /\ holding' \in Holds
      BY <3>1, <3>2, DecodeTypes
    <3>4. tty' \in Seq(AllBytes)
      BY <3>1, <3>2
    <3> QED
      BY <1>3, <3>3, <3>4 DEF ReadByte
  <2> QED
    BY <2>1 DEF InputTypeInv, InputTypeOK, Places, Holds
<1>4. CASE ReadEnds
  BY <1>4 DEF ReadEnds, InputTypeInv, InputTypeOK
<1>5. CASE EmitInput
  <2>1. holding \in Holds /\ events \in Seq(Holds) /\ Len(events) < EventCap
        /\ events' = Append(events, holding)
    BY <1>5 DEF EmitInput, InputTypeInv, InputTypeOK, Holds
  <2>2. events' \in Seq(Holds) /\ Len(events') <= EventCap
    BY <2>1
  <2> QED
    BY <1>5, <2>2 DEF EmitInput, InputTypeInv, InputTypeOK
<1>6. CASE Receive
  <2>1. events \in Seq(Holds) /\ handled \in Seq(Holds) /\ Len(events) <= EventCap
        /\ listening \in BOOLEAN
    BY DEF InputTypeInv, InputTypeOK
  <2>2. events' \in Seq(Holds) /\ handled' \in Seq(Holds) /\ Len(events') <= EventCap
    <3>1. CASE /\ events # <<>> /\ events' = Tail(events)
               /\ handled' = Append(handled, Head(events))
      BY <2>1, <3>1
    <3>2. CASE UNCHANGED <<events, handled>>
      BY <2>1, <3>2
    <3> QED
      BY <1>6, <3>1, <3>2 DEF Receive
  <2>3. listening' \in BOOLEAN
    BY <1>6, <2>1 DEF Receive
  <2> QED
    BY <1>6, <2>2, <2>3 DEF Receive, InputTypeInv, InputTypeOK
<1>7. CASE UNCHANGED inputVars
  BY <1>7 DEF inputVars, InputTypeInv, InputTypeOK
<1> QED
  BY <1>1, <1>2, <1>3, <1>4, <1>5, <1>6, <1>7 DEF InputNext

LEMMA InputTypeStart == InputInit => InputTypeInv
<1> SUFFICES ASSUME InputInit PROVE InputTypeInv
  OBVIOUS
<1>1. /\ typed \in Seq(Gestures) /\ Len(typed) = 0 /\ events \in Seq(Holds)
      /\ Len(events) = 0 /\ handled \in Seq(Holds) /\ tty \in Seq(AllBytes)
  BY DEF InputInit
<1>2. hungUp \in BOOLEAN /\ listening \in BOOLEAN
  BY DEF InputInit
<1> QED
  BY <1>1, <1>2, InputAssumption DEF InputInit, InputTypeInv, InputTypeOK

\* The variables of the keys' way keep their types: the channel its bound.
THEOREM InputTypes == InputSpec => []InputTypeOK
<1>1. InputTypeInv => InputTypeOK
  BY DEF InputTypeInv
<1> QED
  BY <1>1, InputTypeStart, InputTypeStep, PTL DEF InputSpec
-----------------------------------------------------------------------------
(* TerminalInput: decoding *)

\* Where the bytes of a gesture, one after the other, take a reader at the start.
Way ==
  [up |-> <<<<"esc", "none">>, <<"csi", "none">>, <<"send", "up">>>>,
   end |-> <<<<"esc", "none">>, <<"ss3", "none">>, <<"send", "end">>>>,
   pageDown |-> <<<<"esc", "none">>, <<"csi", "none">>, <<"page", "pageDown">>,
                  <<"send", "pageDown">>>>,
   click |-> <<<<"esc", "none">>, <<"csi", "none">>, <<"mouse", "none">>,
               <<"mouse", "click">>, <<"send", "click">>>>,
   release |-> <<<<"esc", "none">>, <<"csi", "none">>, <<"mouse", "none">>,
                 <<"mouse", "click">>, <<"start", "none">>>>,
   drag |-> <<<<"esc", "none">>, <<"csi", "none">>, <<"mouse", "none">>,
              <<"mouse", "none">>, <<"start", "none">>>>,
   wheel |-> <<<<"esc", "none">>, <<"csi", "none">>, <<"mouse", "none">>,
               <<"mouse", "up">>, <<"send", "up">>>>,
   delete |-> <<<<"esc", "none">>, <<"csi", "none">>, <<"start", "none">>,
                <<"start", "none">>>>,
   escape |-> <<<<"esc", "none">>>>, letter |-> <<<<"start", "none">>>>]

Decoded(at, b) == Decode(at[1], at[2], b)

\* The bytes of a gesture, read from the start, and read after an Escape.
DecodesAs(g) ==
  LET b == Bytes[g]
      way == Way[g]
      n == Len(b)
  IN  /\ n \in 1 .. 5
      /\ Decoded(<<"start", "none">>, b[1]) = way[1]
      /\ \A j \in 1 .. n - 1 : Decoded(way[j], b[j + 1]) = way[j + 1] /\ way[j][1] # "send"
      /\ way[n] = IF g = "escape" THEN <<"esc", "none">>
                  ELSE IF Meaning[g] = "none" THEN <<"start", "none">>
                  ELSE <<"send", Meaning[g]>>
      /\ Decoded(<<"esc", "none">>, b[1]) = <<"start", "none">>
      /\ \A j \in 2 .. n : Decoded(<<"start", "none">>, b[j]) = <<"start", "none">>

\* The steps of the reader that the gestures take.
LEMMA DecodeSteps ==
  /\ Decoded(<<"start", "none">>, "esc") = <<"esc", "none">>
  /\ Decoded(<<"esc", "none">>, "[") = <<"csi", "none">>
  /\ Decoded(<<"csi", "none">>, "A") = <<"send", "up">>
  /\ Decoded(<<"esc", "none">>, "O") = <<"ss3", "none">>
  /\ Decoded(<<"ss3", "none">>, "F") = <<"send", "end">>
  /\ Decoded(<<"csi", "none">>, "6") = <<"page", "pageDown">>
  /\ Decoded(<<"page", "pageDown">>, "~") = <<"send", "pageDown">>
  /\ Decoded(<<"csi", "none">>, "<") = <<"mouse", "none">>
  /\ Decoded(<<"mouse", "none">>, "press") = <<"mouse", "click">>
  /\ Decoded(<<"mouse", "click">>, "M") = <<"send", "click">>
  /\ Decoded(<<"mouse", "click">>, "m") = <<"start", "none">>
  /\ Decoded(<<"mouse", "none">>, "motion") = <<"mouse", "none">>
  /\ Decoded(<<"mouse", "none">>, "M") = <<"start", "none">>
  /\ Decoded(<<"mouse", "none">>, "wheel") = <<"mouse", "up">>
  /\ Decoded(<<"mouse", "up">>, "M") = <<"send", "up">>
  /\ Decoded(<<"csi", "none">>, "3") = <<"start", "none">>
  /\ Decoded(<<"start", "none">>, "~") = <<"start", "none">>
  /\ Decoded(<<"start", "none">>, "x") = <<"start", "none">>
  /\ Decoded(<<"esc", "none">>, "esc") = <<"start", "none">>
  /\ Decoded(<<"start", "none">>, "[") = <<"start", "none">>
  /\ Decoded(<<"start", "none">>, "A") = <<"start", "none">>
  /\ Decoded(<<"start", "none">>, "O") = <<"start", "none">>
  /\ Decoded(<<"start", "none">>, "F") = <<"start", "none">>
  /\ Decoded(<<"start", "none">>, "6") = <<"start", "none">>
  /\ Decoded(<<"start", "none">>, "<") = <<"start", "none">>
  /\ Decoded(<<"start", "none">>, "press") = <<"start", "none">>
  /\ Decoded(<<"start", "none">>, "M") = <<"start", "none">>
  /\ Decoded(<<"start", "none">>, "m") = <<"start", "none">>
  /\ Decoded(<<"start", "none">>, "motion") = <<"start", "none">>
  /\ Decoded(<<"start", "none">>, "wheel") = <<"start", "none">>
  /\ Decoded(<<"start", "none">>, "3") = <<"start", "none">>
  /\ Decoded(<<"esc", "none">>, "x") = <<"start", "none">>
<1>1. Report = {"press", "wheel", "motion"}
  BY DEF Report, MouseEvent
<1>2. /\ MouseEvent["press"] = "click" /\ MouseEvent["wheel"] = "up"
      /\ MouseEvent["motion"] = "none"
  BY DEF MouseEvent
<1> HIDE DEF Report, MouseEvent
<1> QED
  BY <1>1, <1>2 DEF Decode, Decoded

\* Ten gestures.
LEMMA UpDecodes == DecodesAs("up")
<1> DEFINE b == Bytes["up"]
           way == Way["up"]
<1>1. /\ b = <<"esc", "[", "A">>
      /\ way = <<<<"esc", "none">>, <<"csi", "none">>, <<"send", "up">>>>
  BY Zenon DEF Bytes, Way
<1>2. Len(b) = 3 /\ b[1] = "esc" /\ b[2] = "[" /\ b[3] = "A"
  BY <1>1
<1>3. way[1] = <<"esc", "none">> /\ way[2] = <<"csi", "none">> /\ way[3] = <<"send", "up">>
  BY <1>1
<1>4. Meaning["up"] = "up"
  BY DEF Meaning
<1>5. \A j \in 1 .. 2 : Decoded(way[j], b[j + 1]) = way[j + 1] /\ way[j][1] # "send"
  <2>1. /\ Decoded(way[1], b[2]) = way[2]
        /\ Decoded(way[2], b[3]) = way[3]
    BY <1>2, <1>3, DecodeSteps
  <2>2. /\ way[1][1] # "send"
        /\ way[2][1] # "send"
    BY <1>3
  <2> HIDE DEF b, way
  <2> QED
    BY <2>1, <2>2
<1>6. \A j \in 2 .. 3 : Decoded(<<"start", "none">>, b[j]) = <<"start", "none">>
  BY <1>2, DecodeSteps
<1>7. /\ Decoded(<<"start", "none">>, b[1]) = way[1]
      /\ Decoded(<<"esc", "none">>, b[1]) = <<"start", "none">>
  BY <1>2, <1>3, DecodeSteps
<1> QED
  BY <1>2, <1>3, <1>4, <1>5, <1>6, <1>7 DEF DecodesAs

LEMMA EndDecodes == DecodesAs("end")
<1> DEFINE b == Bytes["end"]
           way == Way["end"]
<1>1. /\ b = <<"esc", "O", "F">>
      /\ way = <<<<"esc", "none">>, <<"ss3", "none">>, <<"send", "end">>>>
  BY Zenon DEF Bytes, Way
<1>2. Len(b) = 3 /\ b[1] = "esc" /\ b[2] = "O" /\ b[3] = "F"
  BY <1>1
<1>3. way[1] = <<"esc", "none">> /\ way[2] = <<"ss3", "none">> /\ way[3] = <<"send", "end">>
  BY <1>1
<1>4. Meaning["end"] = "end"
  BY DEF Meaning
<1>5. \A j \in 1 .. 2 : Decoded(way[j], b[j + 1]) = way[j + 1] /\ way[j][1] # "send"
  <2>1. /\ Decoded(way[1], b[2]) = way[2]
        /\ Decoded(way[2], b[3]) = way[3]
    BY <1>2, <1>3, DecodeSteps
  <2>2. /\ way[1][1] # "send"
        /\ way[2][1] # "send"
    BY <1>3
  <2> HIDE DEF b, way
  <2> QED
    BY <2>1, <2>2
<1>6. \A j \in 2 .. 3 : Decoded(<<"start", "none">>, b[j]) = <<"start", "none">>
  BY <1>2, DecodeSteps
<1>7. /\ Decoded(<<"start", "none">>, b[1]) = way[1]
      /\ Decoded(<<"esc", "none">>, b[1]) = <<"start", "none">>
  BY <1>2, <1>3, DecodeSteps
<1> QED
  BY <1>2, <1>3, <1>4, <1>5, <1>6, <1>7 DEF DecodesAs

LEMMA PageDownDecodes == DecodesAs("pageDown")
<1> DEFINE b == Bytes["pageDown"]
           way == Way["pageDown"]
<1>1. /\ b = <<"esc", "[", "6", "~">>
      /\ way = <<<<"esc", "none">>, <<"csi", "none">>, <<"page", "pageDown">>,
                  <<"send", "pageDown">>>>
  BY Zenon DEF Bytes, Way
<1>2. Len(b) = 4 /\ b[1] = "esc" /\ b[2] = "[" /\ b[3] = "6" /\ b[4] = "~"
  BY <1>1
<1>3. /\ way[1] = <<"esc", "none">> /\ way[2] = <<"csi", "none">> /\ way[3] = <<"page", "pageDown">>
      /\ way[4] = <<"send", "pageDown">>
  BY <1>1
<1>4. Meaning["pageDown"] = "pageDown"
  BY DEF Meaning
<1>5. \A j \in 1 .. 3 : Decoded(way[j], b[j + 1]) = way[j + 1] /\ way[j][1] # "send"
  <2>1. /\ Decoded(way[1], b[2]) = way[2]
        /\ Decoded(way[2], b[3]) = way[3]
        /\ Decoded(way[3], b[4]) = way[4]
    BY <1>2, <1>3, DecodeSteps
  <2>2. /\ way[1][1] # "send"
        /\ way[2][1] # "send"
        /\ way[3][1] # "send"
    BY <1>3
  <2> HIDE DEF b, way
  <2> QED
    BY <2>1, <2>2
<1>6. \A j \in 2 .. 4 : Decoded(<<"start", "none">>, b[j]) = <<"start", "none">>
  BY <1>2, DecodeSteps
<1>7. /\ Decoded(<<"start", "none">>, b[1]) = way[1]
      /\ Decoded(<<"esc", "none">>, b[1]) = <<"start", "none">>
  BY <1>2, <1>3, DecodeSteps
<1> QED
  BY <1>2, <1>3, <1>4, <1>5, <1>6, <1>7 DEF DecodesAs

LEMMA ClickDecodes == DecodesAs("click")
<1> DEFINE b == Bytes["click"]
           way == Way["click"]
<1>1. /\ b = <<"esc", "[", "<", "press", "M">>
      /\ way = <<<<"esc", "none">>, <<"csi", "none">>, <<"mouse", "none">>,
                  <<"mouse", "click">>, <<"send", "click">>>>
  BY Zenon DEF Bytes, Way
<1>2. Len(b) = 5 /\ b[1] = "esc" /\ b[2] = "[" /\ b[3] = "<" /\ b[4] = "press" /\ b[5] = "M"
  BY <1>1
<1>3. /\ way[1] = <<"esc", "none">> /\ way[2] = <<"csi", "none">> /\ way[3] = <<"mouse", "none">>
      /\ way[4] = <<"mouse", "click">> /\ way[5] = <<"send", "click">>
  BY <1>1
<1>4. Meaning["click"] = "click"
  BY DEF Meaning
<1>5. \A j \in 1 .. 4 : Decoded(way[j], b[j + 1]) = way[j + 1] /\ way[j][1] # "send"
  <2>1. /\ Decoded(way[1], b[2]) = way[2]
        /\ Decoded(way[2], b[3]) = way[3]
        /\ Decoded(way[3], b[4]) = way[4]
        /\ Decoded(way[4], b[5]) = way[5]
    BY <1>2, <1>3, DecodeSteps
  <2>2. /\ way[1][1] # "send"
        /\ way[2][1] # "send"
        /\ way[3][1] # "send"
        /\ way[4][1] # "send"
    BY <1>3
  <2> HIDE DEF b, way
  <2> QED
    BY <2>1, <2>2
<1>6. \A j \in 2 .. 5 : Decoded(<<"start", "none">>, b[j]) = <<"start", "none">>
  BY <1>2, DecodeSteps
<1>7. /\ Decoded(<<"start", "none">>, b[1]) = way[1]
      /\ Decoded(<<"esc", "none">>, b[1]) = <<"start", "none">>
  BY <1>2, <1>3, DecodeSteps
<1> QED
  BY <1>2, <1>3, <1>4, <1>5, <1>6, <1>7 DEF DecodesAs

LEMMA ReleaseDecodes == DecodesAs("release")
<1> DEFINE b == Bytes["release"]
           way == Way["release"]
<1>1. /\ b = <<"esc", "[", "<", "press", "m">>
      /\ way = <<<<"esc", "none">>, <<"csi", "none">>, <<"mouse", "none">>,
                  <<"mouse", "click">>, <<"start", "none">>>>
  BY Zenon DEF Bytes, Way
<1>2. Len(b) = 5 /\ b[1] = "esc" /\ b[2] = "[" /\ b[3] = "<" /\ b[4] = "press" /\ b[5] = "m"
  BY <1>1
<1>3. /\ way[1] = <<"esc", "none">> /\ way[2] = <<"csi", "none">> /\ way[3] = <<"mouse", "none">>
      /\ way[4] = <<"mouse", "click">> /\ way[5] = <<"start", "none">>
  BY <1>1
<1>4. Meaning["release"] = "none"
  BY DEF Meaning
<1>5. \A j \in 1 .. 4 : Decoded(way[j], b[j + 1]) = way[j + 1] /\ way[j][1] # "send"
  <2>1. /\ Decoded(way[1], b[2]) = way[2]
        /\ Decoded(way[2], b[3]) = way[3]
        /\ Decoded(way[3], b[4]) = way[4]
        /\ Decoded(way[4], b[5]) = way[5]
    BY <1>2, <1>3, DecodeSteps
  <2>2. /\ way[1][1] # "send"
        /\ way[2][1] # "send"
        /\ way[3][1] # "send"
        /\ way[4][1] # "send"
    BY <1>3
  <2> HIDE DEF b, way
  <2> QED
    BY <2>1, <2>2
<1>6. \A j \in 2 .. 5 : Decoded(<<"start", "none">>, b[j]) = <<"start", "none">>
  BY <1>2, DecodeSteps
<1>7. /\ Decoded(<<"start", "none">>, b[1]) = way[1]
      /\ Decoded(<<"esc", "none">>, b[1]) = <<"start", "none">>
  BY <1>2, <1>3, DecodeSteps
<1> QED
  BY <1>2, <1>3, <1>4, <1>5, <1>6, <1>7 DEF DecodesAs

LEMMA DragDecodes == DecodesAs("drag")
<1> DEFINE b == Bytes["drag"]
           way == Way["drag"]
<1>1. /\ b = <<"esc", "[", "<", "motion", "M">>
      /\ way = <<<<"esc", "none">>, <<"csi", "none">>, <<"mouse", "none">>,
                  <<"mouse", "none">>, <<"start", "none">>>>
  BY Zenon DEF Bytes, Way
<1>2. Len(b) = 5 /\ b[1] = "esc" /\ b[2] = "[" /\ b[3] = "<" /\ b[4] = "motion" /\ b[5] = "M"
  BY <1>1
<1>3. /\ way[1] = <<"esc", "none">> /\ way[2] = <<"csi", "none">> /\ way[3] = <<"mouse", "none">>
      /\ way[4] = <<"mouse", "none">> /\ way[5] = <<"start", "none">>
  BY <1>1
<1>4. Meaning["drag"] = "none"
  BY DEF Meaning
<1>5. \A j \in 1 .. 4 : Decoded(way[j], b[j + 1]) = way[j + 1] /\ way[j][1] # "send"
  <2>1. /\ Decoded(way[1], b[2]) = way[2]
        /\ Decoded(way[2], b[3]) = way[3]
        /\ Decoded(way[3], b[4]) = way[4]
        /\ Decoded(way[4], b[5]) = way[5]
    BY <1>2, <1>3, DecodeSteps
  <2>2. /\ way[1][1] # "send"
        /\ way[2][1] # "send"
        /\ way[3][1] # "send"
        /\ way[4][1] # "send"
    BY <1>3
  <2> HIDE DEF b, way
  <2> QED
    BY <2>1, <2>2
<1>6. \A j \in 2 .. 5 : Decoded(<<"start", "none">>, b[j]) = <<"start", "none">>
  BY <1>2, DecodeSteps
<1>7. /\ Decoded(<<"start", "none">>, b[1]) = way[1]
      /\ Decoded(<<"esc", "none">>, b[1]) = <<"start", "none">>
  BY <1>2, <1>3, DecodeSteps
<1> QED
  BY <1>2, <1>3, <1>4, <1>5, <1>6, <1>7 DEF DecodesAs

LEMMA WheelDecodes == DecodesAs("wheel")
<1> DEFINE b == Bytes["wheel"]
           way == Way["wheel"]
<1>1. /\ b = <<"esc", "[", "<", "wheel", "M">>
      /\ way = <<<<"esc", "none">>, <<"csi", "none">>, <<"mouse", "none">>,
                  <<"mouse", "up">>, <<"send", "up">>>>
  BY Zenon DEF Bytes, Way
<1>2. Len(b) = 5 /\ b[1] = "esc" /\ b[2] = "[" /\ b[3] = "<" /\ b[4] = "wheel" /\ b[5] = "M"
  BY <1>1
<1>3. /\ way[1] = <<"esc", "none">> /\ way[2] = <<"csi", "none">> /\ way[3] = <<"mouse", "none">>
      /\ way[4] = <<"mouse", "up">> /\ way[5] = <<"send", "up">>
  BY <1>1
<1>4. Meaning["wheel"] = "up"
  BY DEF Meaning
<1>5. \A j \in 1 .. 4 : Decoded(way[j], b[j + 1]) = way[j + 1] /\ way[j][1] # "send"
  <2>1. /\ Decoded(way[1], b[2]) = way[2]
        /\ Decoded(way[2], b[3]) = way[3]
        /\ Decoded(way[3], b[4]) = way[4]
        /\ Decoded(way[4], b[5]) = way[5]
    BY <1>2, <1>3, DecodeSteps
  <2>2. /\ way[1][1] # "send"
        /\ way[2][1] # "send"
        /\ way[3][1] # "send"
        /\ way[4][1] # "send"
    BY <1>3
  <2> HIDE DEF b, way
  <2> QED
    BY <2>1, <2>2
<1>6. \A j \in 2 .. 5 : Decoded(<<"start", "none">>, b[j]) = <<"start", "none">>
  BY <1>2, DecodeSteps
<1>7. /\ Decoded(<<"start", "none">>, b[1]) = way[1]
      /\ Decoded(<<"esc", "none">>, b[1]) = <<"start", "none">>
  BY <1>2, <1>3, DecodeSteps
<1> QED
  BY <1>2, <1>3, <1>4, <1>5, <1>6, <1>7 DEF DecodesAs

LEMMA DeleteDecodes == DecodesAs("delete")
<1> DEFINE b == Bytes["delete"]
           way == Way["delete"]
<1>1. /\ b = <<"esc", "[", "3", "~">>
      /\ way = <<<<"esc", "none">>, <<"csi", "none">>, <<"start", "none">>,
                  <<"start", "none">>>>
  BY Zenon DEF Bytes, Way
<1>2. Len(b) = 4 /\ b[1] = "esc" /\ b[2] = "[" /\ b[3] = "3" /\ b[4] = "~"
  BY <1>1
<1>3. /\ way[1] = <<"esc", "none">> /\ way[2] = <<"csi", "none">> /\ way[3] = <<"start", "none">>
      /\ way[4] = <<"start", "none">>
  BY <1>1
<1>4. Meaning["delete"] = "none"
  BY DEF Meaning
<1>5. \A j \in 1 .. 3 : Decoded(way[j], b[j + 1]) = way[j + 1] /\ way[j][1] # "send"
  <2>1. /\ Decoded(way[1], b[2]) = way[2]
        /\ Decoded(way[2], b[3]) = way[3]
        /\ Decoded(way[3], b[4]) = way[4]
    BY <1>2, <1>3, DecodeSteps
  <2>2. /\ way[1][1] # "send"
        /\ way[2][1] # "send"
        /\ way[3][1] # "send"
    BY <1>3
  <2> HIDE DEF b, way
  <2> QED
    BY <2>1, <2>2
<1>6. \A j \in 2 .. 4 : Decoded(<<"start", "none">>, b[j]) = <<"start", "none">>
  BY <1>2, DecodeSteps
<1>7. /\ Decoded(<<"start", "none">>, b[1]) = way[1]
      /\ Decoded(<<"esc", "none">>, b[1]) = <<"start", "none">>
  BY <1>2, <1>3, DecodeSteps
<1> QED
  BY <1>2, <1>3, <1>4, <1>5, <1>6, <1>7 DEF DecodesAs

LEMMA EscapeDecodes == DecodesAs("escape")
<1> DEFINE b == Bytes["escape"]
           way == Way["escape"]
<1>1. /\ b = <<"esc">>
      /\ way = <<<<"esc", "none">>>>
  BY Zenon DEF Bytes, Way
<1>2. Len(b) = 1 /\ b[1] = "esc"
  BY <1>1
<1>3. way[1] = <<"esc", "none">>
  BY <1>1
<1>4. Meaning["escape"] = "none"
  BY DEF Meaning
<1>5. \A j \in 1 .. 0 : Decoded(way[j], b[j + 1]) = way[j + 1] /\ way[j][1] # "send"
  OBVIOUS
<1>6. \A j \in 2 .. 1 : Decoded(<<"start", "none">>, b[j]) = <<"start", "none">>
  OBVIOUS
<1>7. /\ Decoded(<<"start", "none">>, b[1]) = way[1]
      /\ Decoded(<<"esc", "none">>, b[1]) = <<"start", "none">>
  BY <1>2, <1>3, DecodeSteps
<1> QED
  BY <1>2, <1>3, <1>4, <1>5, <1>6, <1>7 DEF DecodesAs

LEMMA LetterDecodes == DecodesAs("letter")
<1> DEFINE b == Bytes["letter"]
           way == Way["letter"]
<1>1. /\ b = <<"x">>
      /\ way = <<<<"start", "none">>>>
  BY Zenon DEF Bytes, Way
<1>2. Len(b) = 1 /\ b[1] = "x"
  BY <1>1
<1>3. way[1] = <<"start", "none">>
  BY <1>1
<1>4. Meaning["letter"] = "none"
  BY DEF Meaning
<1>5. \A j \in 1 .. 0 : Decoded(way[j], b[j + 1]) = way[j + 1] /\ way[j][1] # "send"
  OBVIOUS
<1>6. \A j \in 2 .. 1 : Decoded(<<"start", "none">>, b[j]) = <<"start", "none">>
  OBVIOUS
<1>7. /\ Decoded(<<"start", "none">>, b[1]) = way[1]
      /\ Decoded(<<"esc", "none">>, b[1]) = <<"start", "none">>
  BY <1>2, <1>3, DecodeSteps
<1> QED
  BY <1>2, <1>3, <1>4, <1>5, <1>6, <1>7 DEF DecodesAs

LEMMA GesturesDecode == \A g \in Gestures : DecodesAs(g)
  BY Sent, UpDecodes, EndDecodes, PageDownDecodes, ClickDecodes, ReleaseDecodes, DragDecodes,
     WheelDecodes, DeleteDecodes, EscapeDecodes, LetterDecodes, Zenon

-----------------------------------------------------------------------------
(* TerminalInput: runs of Escape *)

\* The r gestures before the k-th are escapes, and the one before them is none.
EscapesBefore(k, r) ==
  /\ r \in 0 .. k - 1
  /\ \A i \in k - r .. k - 1 : typed[i] = "escape"
  /\ k - r > 1 => typed[k - r - 1] # "escape"

\* That number is one.
LEMMA OneRun ==
  ASSUME NEW k \in Nat, NEW r, NEW s, EscapesBefore(k, r), EscapesBefore(k, s)
  PROVE  r = s
  BY DEF EscapesBefore

LEMMA SwallowedIsOdd ==
  ASSUME NEW k \in Nat, NEW r, EscapesBefore(k, r)
  PROVE  Swallowed(k) <=> r % 2 = 1
<1>1. r \in Nat
  BY DEF EscapesBefore
<1>2. ASSUME r % 2 = 1 PROVE Swallowed(k)
  <2>1. r \in 1 .. k - 1
    BY <1>1, <1>2 DEF EscapesBefore
  <2> QED
    BY <1>2, <2>1 DEF EscapesBefore, Swallowed
<1>3. ASSUME Swallowed(k) PROVE r % 2 = 1
  <2>1. PICK n \in 1 .. k - 1 : n % 2 = 1 /\ EscapesBefore(k, n)
    BY <1>3 DEF Swallowed, EscapesBefore
  <2> QED
    BY <2>1, OneRun
<1> QED
  BY <1>2, <1>3

\* There is one before every gesture.
RunsInv == \A k \in 1 .. Len(typed) + 1 : \E r \in 0 .. k - 1 : EscapesBefore(k, r)

LEMMA SwallowedNext ==
  ASSUME RunsInv, typed \in Seq(Gestures), NEW k \in 1 .. Len(typed)
  PROVE  Swallowed(k + 1) <=> typed[k] = "escape" /\ ~Swallowed(k)
<1>1. Len(typed) \in Nat /\ k \in Nat
  OBVIOUS
<1>2. PICK r \in 0 .. k - 1 : EscapesBefore(k, r)
  BY <1>1 DEF RunsInv
<1>3. r \in Nat /\ (r + 1) % 2 = 1 <=> r % 2 # 1
  OBVIOUS
<1>4. CASE typed[k] = "escape"
  <2>1. EscapesBefore(k + 1, r + 1)
    BY <1>1, <1>2, <1>4 DEF EscapesBefore
  <2> QED
    BY <1>1, <1>2, <1>3, <1>4, <2>1, SwallowedIsOdd
<1>5. CASE typed[k] # "escape"
  <2>1. EscapesBefore(k + 1, 0)
    BY <1>1, <1>5 DEF EscapesBefore
  <2> QED
    BY <1>1, <1>5, <2>1, SwallowedIsOdd
<1> QED
  BY <1>4, <1>5

LEMMA FirstNotSwallowed == ~Swallowed(1)
  BY DEF Swallowed

\* A gesture more changes nothing about those before.
LEMMA EscapesStay ==
  ASSUME typed \in Seq(Gestures), NEW g \in Gestures, typed' = Append(typed, g),
         NEW k \in 1 .. Len(typed) + 1, NEW r \in Nat
  PROVE  EscapesBefore(k, r)' <=> EscapesBefore(k, r)
<1>1. \A i \in 1 .. Len(typed) : typed'[i] = typed[i]
  OBVIOUS
<1>2. /\ (k - r \in 1 .. k) => \A i \in k - r .. k - 1 : typed'[i] = typed[i]
      /\ k - r > 1 => typed'[k - r - 1] = typed[k - r - 1]
  BY <1>1
<1> QED
  BY <1>2 DEF EscapesBefore

LEMMA SwallowedStays ==
  ASSUME RunsInv, typed \in Seq(Gestures), NEW g \in Gestures, typed' = Append(typed, g),
         NEW k \in 1 .. Len(typed) + 1
  PROVE  Swallowed(k)' <=> Swallowed(k)
<1>1. ASSUME NEW n \in 1 .. k - 1
      PROVE  /\ (\A i \in k - n .. k - 1 : typed'[i] = "escape")
                 <=> (\A i \in k - n .. k - 1 : typed[i] = "escape")
             /\ k - n > 1 => typed'[k - n - 1] = typed[k - n - 1]
  OBVIOUS
<1> QED
  BY <1>1 DEF Swallowed

LEMMA RunsStep == InputTypeInv /\ RunsInv /\ [InputNext]_inputVars => RunsInv'
<1> SUFFICES ASSUME InputTypeInv, RunsInv, [InputNext]_inputVars PROVE RunsInv'
  OBVIOUS
<1>1. CASE Type
  <2>1. PICK g \in Gestures : typed' = Append(typed, g)
    BY <1>1 DEF Type
  <2>2. typed \in Seq(Gestures) /\ Len(typed) \in Nat /\ Len(typed') = Len(typed) + 1
        /\ typed'[Len(typed) + 1] = g
    BY <2>1 DEF InputTypeInv, InputTypeOK
  <2>n. PICK n : n = Len(typed) + 1
    OBVIOUS
  <2>3. ASSUME NEW k \in 1 .. n PROVE \E r \in 0 .. k - 1 : EscapesBefore(k, r)'
    <3>1. PICK r \in 0 .. k - 1 : EscapesBefore(k, r)
      BY <2>n DEF RunsInv
    <3>2. r \in Nat
      OBVIOUS
    <3>3. EscapesBefore(k, r)'
      BY <2>1, <2>2, <2>n, <3>1, <3>2, EscapesStay
    <3> QED
      BY <3>1, <3>3
  <2>4. \E r \in 0 .. n : EscapesBefore(n + 1, r)'
    <3>1. CASE g # "escape"
      <4>1. EscapesBefore(n + 1, 0)'
        BY <2>2, <2>n, <3>1 DEF EscapesBefore
      <4> QED
        BY <2>2, <2>n, <4>1
    <3>2. CASE g = "escape"
      <4>1. PICK r \in 0 .. n - 1 : EscapesBefore(n, r)'
        BY <2>2, <2>n, <2>3
      <4>2. EscapesBefore(n + 1, r + 1)'
        <5>1. typed'[n] = "escape"
          BY ONLY <2>2, <2>n, <3>2
        <5> QED
          BY ONLY <2>2, <2>n, <4>1, <5>1 DEF EscapesBefore
      <4> QED
        BY <2>2, <2>n, <4>1, <4>2
    <3> QED
      BY <3>1, <3>2
  <2> QED
    BY <2>2, <2>n, <2>3, <2>4 DEF RunsInv
<1>2. ASSUME UNCHANGED typed PROVE RunsInv'
  BY <1>2 DEF RunsInv, EscapesBefore
<1> QED
  BY <1>1, <1>2 DEF InputNext, HangUp, ReadByte, ReadEnds, EmitInput, Receive, inputVars

-----------------------------------------------------------------------------
(* TerminalInput: what is heard *)

UpTo(k) == {i \in Heard : i <= k}
Count(k) == Cardinality(UpTo(k))

LEMMA HeardTypes ==
  ASSUME typed \in Seq(Gestures), NEW k \in Int
  PROVE  /\ Heard \in SUBSET (1 .. Len(typed)) /\ UpTo(k) \in SUBSET Heard
         /\ IsFiniteSet(Heard) /\ IsFiniteSet(UpTo(k))
         /\ Count(k) \in Nat /\ Count(k) <= Cardinality(Heard)
<1>1. Heard \in SUBSET (1 .. Len(typed)) /\ UpTo(k) \in SUBSET Heard
  BY DEF Heard, UpTo
<1>2. 1 \in Int /\ Len(typed) \in Int
  OBVIOUS
<1>3. IsFiniteSet(1 .. Len(typed))
  BY ONLY <1>2, FS_Interval
<1>4. IsFiniteSet(Heard)
  BY ONLY <1>1, <1>3, FS_Subset
<1>5. IsFiniteSet(UpTo(k)) /\ Cardinality(UpTo(k)) <= Cardinality(Heard)
  BY ONLY <1>1, <1>4, FS_Subset
<1>6. Cardinality(UpTo(k)) \in Nat
  BY ONLY <1>5, FS_CardinalityType
<1> QED
  BY <1>1, <1>4, <1>5, <1>6 DEF Count

LEMMA CountNext ==
  ASSUME typed \in Seq(Gestures), NEW k \in 1 .. Len(typed)
  PROVE  Count(k) = IF k \in Heard THEN Count(k - 1) + 1 ELSE Count(k - 1)
<1>1. k \in Int /\ k - 1 \in Int
  OBVIOUS
<1>2. IsFiniteSet(UpTo(k - 1)) /\ Heard \in SUBSET (1 .. Len(typed))
  BY <1>1, HeardTypes
<1>0. \A i \in Heard : i <= k <=> i <= k - 1 \/ i = k
  <2>1. \A i \in Heard : i \in Int
    BY <1>2
  <2> QED
    BY <1>1, <2>1
<1>3. CASE k \in Heard
  <2>1. UpTo(k) = UpTo(k - 1) \cup {k} /\ k \notin UpTo(k - 1)
    <3>1. ~(k <= k - 1) /\ k <= k
      BY <1>1
    <3> QED
      BY <1>0, <1>3, <3>1 DEF UpTo
  <2>2. Cardinality(UpTo(k - 1) \cup {k}) = Cardinality(UpTo(k - 1)) + 1
    BY ONLY <1>2, <2>1, FS_AddElement
  <2> QED
    BY <1>3, <2>1, <2>2 DEF Count
<1>4. CASE k \notin Heard
  <2>1. UpTo(k) = UpTo(k - 1)
    BY <1>1, <1>0, <1>4 DEF UpTo
  <2> QED
    BY <1>4, <2>1 DEF Count
<1> QED
  BY <1>3, <1>4

\* The gestures heard are numbered.
LEMMA CountsDiffer ==
  ASSUME typed \in Seq(Gestures), NEW h \in Heard, NEW k \in Heard, Count(h) = Count(k)
  PROVE  h = k
<1>1. ASSUME NEW i \in Heard, NEW j \in Heard, i < j PROVE Count(i) # Count(j)
  <2>0. Heard \in SUBSET (1 .. Len(typed))
    BY HeardTypes, 0 \in Int
  <2>1. i \in Int /\ j \in Int
    BY <2>0
  <2>2. UpTo(i) \in SUBSET UpTo(j) /\ j \in UpTo(j) /\ j \notin UpTo(i)
    <3>1. \A x \in Heard : x <= i => x <= j
      BY <1>1, <2>0, <2>1
    <3>2. j <= j /\ ~(j <= i)
      BY <1>1, <2>1
    <3> QED
      BY <3>1, <3>2 DEF UpTo
  <2>3. IsFiniteSet(UpTo(j)) /\ UpTo(i) # UpTo(j)
    BY <2>1, <2>2, HeardTypes
  <2>4. Cardinality(UpTo(i)) # Cardinality(UpTo(j))
    BY ONLY <2>2, <2>3, FS_Subset
  <2> QED
    BY <2>4 DEF Count
<1>2. h \in Int /\ k \in Int
  BY HeardTypes, 0 \in Int
<1> QED
  BY <1>1, <1>2

LEMMA HeardStays ==
  ASSUME RunsInv, typed \in Seq(Gestures), NEW g \in Gestures, typed' = Append(typed, g),
         NEW k \in 0 .. Len(typed)
  PROVE  (UpTo(k))' = UpTo(k) /\ Heard \in SUBSET (Heard')
<1>1. ASSUME NEW i \in 1 .. Len(typed) PROVE i \in Heard' <=> i \in Heard
  <2>1. typed'[i] = typed[i] /\ i \in DOMAIN typed /\ i \in DOMAIN typed'
    OBVIOUS
  <2>2. Swallowed(i)' <=> Swallowed(i)
    BY SwallowedStays
  <2> QED
    BY <2>1, <2>2 DEF Heard
<1>2. Heard \in SUBSET (1 .. Len(typed)) /\ Heard' \in SUBSET (1 .. Len(typed) + 1)
  BY DEF Heard
<1>3. \A i : i \in Heard' /\ i <= k <=> i \in Heard /\ i <= k
  <2>1. \A i \in Heard' : i <= k => i \in 1 .. Len(typed)
    BY <1>2
  <2> QED
    BY <1>1, <1>2, <2>1
<1> QED
  BY <1>1, <1>2, <1>3 DEF UpTo

-----------------------------------------------------------------------------
(* TerminalInput: events in order *)

\* The reader and what it holds, j bytes into the k-th gesture.
StateAt(state, k, j) ==
  IF j = 0
  THEN IF Swallowed(k) THEN state = <<"esc", "none">>
       ELSE state[1] = "send" \/ state = <<"start", "none">>
  ELSE state = IF Swallowed(k) THEN <<"start", "none">> ELSE Way[typed[k]][j]

\* The bytes of the m-th gesture are at pos[m] + 1 and behind, in what is left.
SentAt(pos) ==
  \A m \in 1 .. Len(typed) :
     /\ pos[m + 1] = pos[m] + Len(Bytes[typed[m]]) /\ pos[m + 1] <= Len(tty)
     /\ \A i \in 1 .. Len(Bytes[typed[m]]) :
          pos[m] + i >= 1 => tty[pos[m] + i] = Bytes[typed[m]][i]

\* The reader is in the k-th gesture or waits for it.
Reading(k, pos) ==
  /\ k \in 1 .. Len(typed) + 1 /\ pos \in [1 .. Len(typed) + 1 -> Int]
  /\ pos[Len(typed) + 1] = Len(tty)
  /\ pos[k] <= 0 /\ (k <= Len(typed) => pos[k + 1] > 0)
  /\ SentAt(pos)
  /\ reader # "closed" => StateAt(<<reader, holding>>, k, 0 - pos[k])

\* What is in flight are the events of the first k gestures.
Numbered(k) ==
  /\ Len(InFlight) = Count(k)
  /\ \A n \in 1 .. Len(InFlight) :
       \E h \in UpTo(k) : Count(h) = n /\ InFlight[n] = Meaning[typed[h]]

InputInv ==
  /\ InputTypeInv /\ RunsInv /\ (reader = "closed" => hungUp)
  /\ \E k, pos : Reading(k, pos) /\ Numbered(k - 1)

LEMMA SameTyped ==
  ASSUME typed' = typed, NEW k
  PROVE  /\ (Swallowed(k))' <=> Swallowed(k)
         /\ Heard' = Heard /\ (UpTo(k))' = UpTo(k) /\ (Count(k))' = Count(k)
<1>1. \A i : (Swallowed(i))' <=> Swallowed(i)
  BY DEF Swallowed
<1>2. Heard' = Heard
  BY <1>1 DEF Heard
<1> QED
  BY <1>1, <1>2 DEF UpTo, Count

LEMMA Joined ==
  ASSUME NEW S, NEW h \in Seq(S), NEW e \in Seq(S), NEW x \in S
  PROVE  /\ h \o e \in Seq(S) /\ (h \o e) \o <<>> = h \o e
         /\ (h \o e) \o <<x>> = Append(h \o e, x)
<1>0. h \o e \in Seq(S)
  OBVIOUS
<1>1. PICK s \in Seq(S) : s = h \o e
  BY <1>0
<1>2. s \o <<x>> = Append(s, x) /\ s \o <<>> = s
  OBVIOUS
<1> QED
  BY <1>1, <1>2

\* With an event to send there is one more.
LEMMA InFlightIs ==
  ASSUME InputTypeInv
  PROVE  /\ InFlight \in Seq(Holds)
         /\ reader # "send" => InFlight = handled \o events
         /\ reader = "send" => InFlight = Append(handled \o events, holding)
<1>1. handled \in Seq(Holds) /\ events \in Seq(Holds) /\ holding \in Holds
  BY DEF InputTypeInv, InputTypeOK, Holds
<1>2. PICK h, e, x : h = handled /\ e = events /\ x = holding
  OBVIOUS
<1>3. /\ h \o e \in Seq(Holds) /\ (h \o e) \o <<>> = h \o e
      /\ (h \o e) \o <<x>> = Append(h \o e, x) /\ Append(h \o e, x) \in Seq(Holds)
  BY <1>1, <1>2, Joined
<1> QED
  BY <1>2, <1>3 DEF InFlight

LEMMA InFlightNext ==
  ASSUME InputTypeInv'
  PROVE  /\ InFlight' \in Seq(Holds)
         /\ reader' # "send" => InFlight' = handled' \o events'
         /\ reader' = "send" => InFlight' = Append(handled' \o events', holding')
<1>1. handled' \in Seq(Holds) /\ events' \in Seq(Holds) /\ holding' \in Holds
  BY DEF InputTypeInv, InputTypeOK, Holds
<1>2. PICK h, e, x : h = handled' /\ e = events' /\ x = holding'
  OBVIOUS
<1>3. /\ h \o e \in Seq(Holds) /\ (h \o e) \o <<>> = h \o e
      /\ (h \o e) \o <<x>> = Append(h \o e, x) /\ Append(h \o e, x) \in Seq(Holds)
  BY <1>1, <1>2, Joined
<1> QED
  BY <1>2, <1>3 DEF InFlight

LEMMA SameFlight ==
  ASSUME InFlight' = InFlight, typed' = typed, NEW k, Numbered(k)
  PROVE  Numbered(k)'
<1>1. /\ (UpTo(k))' = UpTo(k) /\ (Count(k))' = Count(k)
      /\ \A h : (Count(h))' = Count(h)
  BY SameTyped
<1> QED
  BY <1>1 DEF Numbered

\* Bytes are there only if the reader has a gesture to read, and the next byte
\* is one of its.
LEMMA NextByte ==
  ASSUME InputInv, tty # <<>>, NEW k, NEW pos, Reading(k, pos)
  PROVE  LET j == 0 - pos[k]
             b == Bytes[typed[k]]
         IN  /\ k \in 1 .. Len(typed) /\ typed[k] \in Gestures
             /\ j \in 0 .. Len(b) - 1 /\ Head(tty) = b[j + 1]
             /\ pos[k + 1] = Len(b) - j
<1>1. /\ typed \in Seq(Gestures) /\ Len(typed) \in Nat
      /\ tty \in Seq(AllBytes) /\ Len(tty) \in Nat /\ Len(tty) >= 1 /\ Head(tty) = tty[1]
  BY DEF InputInv, InputTypeInv, InputTypeOK
<1>2. k \in 1 .. Len(typed)
  BY <1>1 DEF Reading
<1>3. typed[k] \in Gestures
  BY <1>1, <1>2
<1> DEFINE b == Bytes[typed[k]]
<1>4. Len(b) \in 1 .. 5
  BY <1>3, GesturesDecode DEF DecodesAs
<1>5. /\ pos[k] \in Int /\ pos[k] <= 0 /\ pos[k + 1] > 0
      /\ pos[k + 1] = pos[k] + Len(b)
      /\ \A i \in 1 .. Len(b) : pos[k] + i >= 1 => tty[pos[k] + i] = b[i]
  <2>1. pos \in [1 .. Len(typed) + 1 -> Int] /\ pos[k] <= 0 /\ SentAt(pos)
        /\ (k <= Len(typed) => pos[k + 1] > 0)
    BY DEF Reading
  <2>2. k \in 1 .. Len(typed) + 1 /\ k <= Len(typed)
    BY ONLY <1>1, <1>2
  <2>3. pos[k] \in Int
    BY ONLY <2>1, <2>2
  <2>4. /\ pos[k + 1] = pos[k] + Len(b)
        /\ \A i \in 1 .. Len(b) : pos[k] + i >= 1 => tty[pos[k] + i] = b[i]
    BY ONLY <1>2, <2>1 DEF SentAt
  <2> QED
    BY ONLY <2>1, <2>2, <2>3, <2>4
<1> HIDE DEF b
<1>6. 0 - pos[k] \in 0 .. Len(b) - 1 /\ 0 - pos[k] + 1 \in 1 .. Len(b)
  BY ONLY <1>4, <1>5
<1>7. tty[1] = b[0 - pos[k] + 1]
  <2>1. PICK i : i = 0 - pos[k] + 1
    OBVIOUS
  <2>2. i \in 1 .. Len(b) /\ pos[k] + i = 1
    BY ONLY <1>5, <1>6, <2>1
  <2> QED
    BY ONLY <1>5, <2>1, <2>2
<1>8. Head(tty) = b[0 - pos[k] + 1]
  BY <1>1, <1>7
<1>9. pos[k + 1] = Len(b) - (0 - pos[k])
  BY ONLY <1>4, <1>5
<1> QED
  BY <1>2, <1>3, <1>6, <1>8, <1>9 DEF b

\* A byte less in front.
LEMMA SentShifts ==
  ASSUME InputInv, tty # <<>>, tty' = Tail(tty), typed' = typed,
         NEW k, NEW pos, Reading(k, pos)
  PROVE  LET next == [m \in 1 .. Len(typed) + 1 |-> pos[m] - 1]
         IN  /\ next \in [1 .. Len(typed) + 1 -> Int] /\ next[Len(typed) + 1] = Len(tty')
             /\ SentAt(next)'
<1>1. /\ typed \in Seq(Gestures) /\ Len(typed) \in Nat
      /\ tty \in Seq(AllBytes) /\ Len(tty) \in Nat /\ Len(tty) >= 1
      /\ Len(tty') = Len(tty) - 1 /\ \A x \in 1 .. Len(tty) - 1 : tty'[x] = tty[x + 1]
  BY DEF InputInv, InputTypeInv, InputTypeOK
<1>2. PICK next : next = [m \in 1 .. Len(typed) + 1 |-> pos[m] - 1]
  OBVIOUS
<1>3. /\ pos \in [1 .. Len(typed) + 1 -> Int] /\ pos[Len(typed) + 1] = Len(tty)
  BY DEF Reading
<1>4. next \in [1 .. Len(typed) + 1 -> Int] /\ next[Len(typed) + 1] = Len(tty')
  BY <1>1, <1>2, <1>3
<1>5. ASSUME NEW m \in 1 .. Len(typed)
      PROVE  /\ next[m + 1] = next[m] + Len(Bytes[typed[m]]) /\ next[m + 1] <= Len(tty')
             /\ \A i \in 1 .. Len(Bytes[typed[m]]) :
                  next[m] + i >= 1 => tty'[next[m] + i] = Bytes[typed[m]][i]
  <2>1. typed[m] \in Gestures
    BY <1>1
  <2> DEFINE b == Bytes[typed[m]]
  <2>2. Len(b) \in 1 .. 5
    BY <2>1, GesturesDecode DEF DecodesAs
  <2>3. /\ pos[m + 1] = pos[m] + Len(b) /\ pos[m + 1] <= Len(tty)
        /\ \A i \in 1 .. Len(b) : pos[m] + i >= 1 => tty[pos[m] + i] = b[i]
    BY DEF Reading, SentAt
  <2>4. m \in 1 .. Len(typed) + 1 /\ m + 1 \in 1 .. Len(typed) + 1
    BY <1>1
  <2>5. next[m] = pos[m] - 1 /\ next[m + 1] = pos[m + 1] - 1 /\ pos[m] \in Int
    BY <1>2, <1>3, <2>4
  <2>6. PICK p, q : p = pos[m] /\ q = pos[m + 1]
    OBVIOUS
  <2> HIDE DEF b
  <2>7. p \in Int /\ q = p + Len(b) /\ q <= Len(tty) /\ next[m] = p - 1 /\ next[m + 1] = q - 1
    BY <2>3, <2>5, <2>6
  <2>8. ASSUME NEW i \in 1 .. Len(b), next[m] + i >= 1 PROVE tty'[next[m] + i] = b[i]
    <3>1. p - 1 + i >= 1
      BY <2>7, <2>8
    <3>2. p - 1 + i \in 1 .. Len(tty) - 1 /\ p - 1 + i + 1 = p + i /\ p + i >= 1
      BY <1>1, <2>2, <2>7, <3>1
    <3>3. tty'[p - 1 + i] = tty[p + i]
      BY <1>1, <3>2
    <3>4. tty[p + i] = b[i]
      BY <2>3, <2>6, <3>2
    <3> QED
      BY <2>7, <3>3, <3>4
  <2>9. next[m + 1] = next[m] + Len(b) /\ next[m + 1] <= Len(tty')
    BY <1>1, <2>2, <2>7
  <2> QED
    BY <2>8, <2>9 DEF b
<1>6. SentAt(next)'
  BY <1>5 DEF SentAt
<1> QED
  BY <1>2, <1>4, <1>6

\* The reader after the next byte, within a gesture and at its end.
LEMMA NextState ==
  ASSUME NEW k \in 1 .. Len(typed), typed \in Seq(Gestures), RunsInv,
         NEW j \in 0 .. Len(Bytes[typed[k]]) - 1, NEW state, StateAt(state, k, j),
         state[1] # "send"
  PROVE  LET g == typed[k]
             next == Decoded(state, Bytes[g][j + 1])
         IN  /\ j + 1 < Len(Bytes[g]) => StateAt(next, k, j + 1) /\ next[1] # "send"
             /\ j + 1 = Len(Bytes[g]) =>
                  /\ StateAt(next, k + 1, 0)
                  /\ IF k \in Heard THEN next = <<"send", Meaning[g]>> ELSE next[1] # "send"
<1> DEFINE g == typed[k]
           b == Bytes[g]
           way == Way[g]
           next == Decoded(state, b[j + 1])
<1>1. g \in Gestures /\ j \in Nat /\ k \in DOMAIN typed
  OBVIOUS
<1>2. /\ Len(b) \in 1 .. 5
      /\ Decoded(<<"start", "none">>, b[1]) = way[1]
      /\ \A i \in 1 .. Len(b) - 1 : Decoded(way[i], b[i + 1]) = way[i + 1] /\ way[i][1] # "send"
      /\ way[Len(b)] = IF g = "escape" THEN <<"esc", "none">>
                       ELSE IF Meaning[g] = "none" THEN <<"start", "none">>
                       ELSE <<"send", Meaning[g]>>
      /\ Decoded(<<"esc", "none">>, b[1]) = <<"start", "none">>
      /\ \A i \in 2 .. Len(b) : Decoded(<<"start", "none">>, b[i]) = <<"start", "none">>
  BY <1>1, GesturesDecode DEF DecodesAs
<1>3. k \in Heard <=> Meaning[g] # "none" /\ ~Swallowed(k)
  BY <1>1 DEF Heard
<1>4. Swallowed(k + 1) <=> g = "escape" /\ ~Swallowed(k)
  BY SwallowedNext
<1>5. <<"start", "none">>[1] # "send" /\ <<"esc", "none">>[1] # "send"
      /\ <<"send", Meaning[g]>>[1] = "send"
  OBVIOUS
<1>6. Meaning["escape"] = "none"
  BY DEF Meaning
<1> HIDE DEF b, way
<1>7. CASE Swallowed(k)
  <2>1. next = <<"start", "none">>
    <3>1. CASE j = 0
      <4>1. state = <<"esc", "none">> /\ j + 1 = 1
        BY <1>7, <3>1 DEF StateAt
      <4> QED
        BY <1>2, <4>1
    <3>2. CASE j # 0
      <4>1. state = <<"start", "none">> /\ j + 1 \in 2 .. Len(b)
        BY <1>1, <1>2, <1>7, <3>2 DEF StateAt, b
      <4> QED
        BY <1>2, <4>1
    <3> QED
      BY <3>1, <3>2
  <2> QED
    BY <1>1, <1>3, <1>4, <1>5, <1>7, <2>1 DEF StateAt, b
<1>8. CASE ~Swallowed(k)
  <2>1. next = way[j + 1]
    <3>1. CASE j = 0
      <4>1. state = <<"start", "none">> /\ j + 1 = 1
        BY <1>8, <3>1 DEF StateAt
      <4> QED
        BY <1>2, <4>1
    <3>2. CASE j # 0
      <4>1. state = way[j] /\ j \in 1 .. Len(b) - 1
        BY <1>1, <1>2, <1>8, <3>2 DEF StateAt, way, b
      <4> QED
        BY <1>2, <4>1
    <3> QED
      BY <3>1, <3>2
  <2>2. CASE j + 1 < Len(b)
    <3>1. j + 1 \in 1 .. Len(b) - 1 /\ j + 1 # 0
      BY <1>1, <1>2, <2>2
    <3>2. next[1] # "send"
      BY <1>2, <2>1, <3>1
    <3>3. StateAt(next, k, j + 1)
      BY <1>8, <2>1, <3>1 DEF StateAt, way
    <3> QED
      BY <1>1, <1>2, <2>2, <3>2, <3>3 DEF b
  <2>3. CASE j + 1 = Len(b)
    <3>1. next = IF g = "escape" THEN <<"esc", "none">>
                 ELSE IF Meaning[g] = "none" THEN <<"start", "none">>
                 ELSE <<"send", Meaning[g]>>
      BY <1>2, <2>1, <2>3
    <3>2. StateAt(next, k + 1, 0)
      BY <1>4, <1>5, <1>8, <3>1 DEF StateAt
    <3>3. IF k \in Heard THEN next = <<"send", Meaning[g]>> ELSE next[1] # "send"
      BY <1>3, <1>5, <1>6, <1>8, <3>1
    <3> QED
      BY <1>1, <1>2, <2>3, <3>2, <3>3 DEF b
  <2> QED
    BY <1>1, <1>2, <2>2, <2>3 DEF b
<1> QED
  BY <1>7, <1>8

LEMMA DecodedPair ==
  ASSUME NEW state, NEW b
  PROVE  Decoded(state, b) = <<Decoded(state, b)[1], Decoded(state, b)[2]>>
BY DEF Decoded, Decode

LEMMA NotHeard ==
  ASSUME typed \in Seq(Gestures), NEW k \in Nat, k \notin Heard
  PROVE  UpTo(k) = UpTo(k - 1)
<1>1. \A i \in Heard : i \in Int
  BY HeardTypes, 0 \in Int
<1>2. \A i \in Heard : i <= k <=> i <= k - 1
  BY <1>1
<1> QED
  BY <1>2 DEF UpTo

LEMMA HeardMore ==
  ASSUME typed \in Seq(Gestures), NEW k \in Nat, k \in Heard
  PROVE  k \in UpTo(k) /\ UpTo(k - 1) \in SUBSET UpTo(k)
<1>1. \A i \in Heard : i \in Int
  BY HeardTypes, 0 \in Int
<1>2. k <= k /\ \A i \in Heard : i <= k - 1 => i <= k
  BY <1>1
<1> QED
  BY <1>2 DEF UpTo

LEMMA ReadByteReads ==
  ASSUME InputInv, InputTypeInv', ReadByte
  PROVE  \E k, pos : (Reading(k, pos))' /\ (Numbered(k - 1))'
<1>1. PICK k, pos : Reading(k, pos) /\ Numbered(k - 1)
  BY DEF InputInv
<1>2. /\ reader # "send" /\ reader # "closed" /\ tty # <<>> /\ tty' = Tail(tty)
      /\ typed' = typed /\ events' = events /\ handled' = handled
      /\ reader' = Decode(reader, holding, Head(tty))[1]
      /\ holding' = Decode(reader, holding, Head(tty))[2]
  BY DEF ReadByte
<1>3. typed \in Seq(Gestures) /\ Len(typed) \in Nat /\ InputTypeInv /\ RunsInv
  BY DEF InputInv, InputTypeInv, InputTypeOK
<1>4. PICK j : j = 0 - pos[k]
  OBVIOUS
<1>5. PICK g, b : g = typed[k] /\ b = Bytes[g]
  OBVIOUS
<1>6. /\ k \in 1 .. Len(typed) /\ g \in Gestures /\ j \in 0 .. Len(b) - 1
      /\ Head(tty) = b[j + 1] /\ pos[k + 1] = Len(b) - j
  BY <1>1, <1>2, <1>4, <1>5, NextByte
<1>7. PICK next : next = [m \in 1 .. Len(typed) + 1 |-> pos[m] - 1]
  OBVIOUS
<1>8. /\ next \in [1 .. Len(typed) + 1 -> Int] /\ next[Len(typed) + 1] = Len(tty')
      /\ SentAt(next)'
  BY <1>1, <1>2, <1>7, SentShifts
<1>9. Len(b) \in 1 .. 5
  BY <1>5, <1>6, GesturesDecode DEF DecodesAs
<1>10. PICK state : state = <<reader, holding>>
  OBVIOUS
<1>11. StateAt(state, k, j) /\ state[1] # "send"
  BY <1>1, <1>2, <1>4, <1>10 DEF Reading
<1>12. PICK after : after = Decoded(state, b[j + 1])
  OBVIOUS
<1>13. reader' = after[1] /\ holding' = after[2]
  BY <1>2, <1>6, <1>10, <1>12 DEF Decoded
<1>14. /\ j + 1 < Len(b) => StateAt(after, k, j + 1) /\ after[1] # "send"
       /\ j + 1 = Len(b) => /\ StateAt(after, k + 1, 0)
                            /\ IF k \in Heard THEN after = <<"send", Meaning[g]>>
                               ELSE after[1] # "send"
  BY <1>3, <1>5, <1>6, <1>11, <1>12, NextState
<1>15. after = <<reader', holding'>>
  BY <1>12, <1>13, DecodedPair
<1>16. /\ InFlight = handled \o events /\ InFlight \in Seq(Holds)
       /\ reader' # "send" => InFlight' = InFlight
       /\ reader' = "send" => InFlight' = Append(InFlight, holding')
  BY <1>2, <1>3, InFlightIs, InFlightNext
<1>17. /\ k \in Nat /\ k + 1 \in 1 .. Len(typed) + 1 /\ k \in 1 .. Len(typed) + 1
       /\ k <= Len(typed) /\ k + 1 - 1 = k
  BY <1>3, <1>6
<1>20. PICK p, q : p = pos[k] /\ q = pos[k + 1]
  OBVIOUS
<1>21. p \in Int /\ p <= 0 /\ j = 0 - p /\ q = Len(b) - j
  BY <1>1, <1>4, <1>6, <1>17, <1>20 DEF Reading
<1>22. next[k] = p - 1 /\ next[k + 1] = q - 1
  BY <1>7, <1>17, <1>20
<1>18. CASE j + 1 < Len(b)
  <2>1. next[k] <= 0 /\ next[k + 1] > 0 /\ 0 - next[k] = j + 1
    BY <1>9, <1>18, <1>21, <1>22
  <2>2. StateAt(<<reader, holding>>, k, j + 1)'
    BY <1>2, <1>14, <1>15, <1>18, SameTyped DEF StateAt
  <2>3. Reading(k, next)'
    BY <1>2, <1>8, <1>17, <2>1, <2>2 DEF Reading
  <2>4. InFlight' = InFlight
    BY <1>13, <1>14, <1>16, <1>18
  <2> QED
    BY <1>1, <1>2, <2>3, <2>4, SameFlight
<1>19. CASE j + 1 = Len(b)
  <2>1. next[k + 1] = 0
    BY <1>9, <1>19, <1>21, <1>22
  <2>2. k + 1 <= Len(typed) => next[k + 2] > 0
    <3>1. ASSUME k + 1 <= Len(typed) PROVE next[k + 2] > 0
      <4>1. k + 1 \in 1 .. Len(typed) /\ typed[k + 1] \in Gestures /\ k + 1 + 1 = k + 2
        BY <1>3, <1>17, <3>1
      <4>2. Len(Bytes[typed[k + 1]]) \in 1 .. 5
        BY <4>1, GesturesDecode DEF DecodesAs
      <4>3. next[k + 1 + 1] = next[k + 1] + Len(Bytes[typed[k + 1]])
        BY <1>2, <1>8, <4>1 DEF SentAt
      <4>4. PICK l \in 1 .. 5 : l = Len(Bytes[typed[k + 1]])
        BY <4>2
      <4>5. next[k + 1 + 1] = l
        BY <2>1, <4>3, <4>4
      <4>6. next[k + 2] = l /\ l > 0
        BY <4>1, <4>5
      <4> QED
        BY <4>6
    <3> QED
      BY <3>1
  <2>3. StateAt(<<reader, holding>>, k + 1, 0)'
    BY <1>2, <1>14, <1>15, <1>19, SameTyped DEF StateAt
  <2>4. Reading(k + 1, next)'
    <3>1. k + 1 + 1 = k + 2 /\ 0 - next[k + 1] = 0 /\ next[k + 1] <= 0
      BY <1>17, <2>1
    <3> QED
      BY <1>2, <1>8, <1>17, <2>2, <2>3, <3>1 DEF Reading
  <2>5. (Numbered(k))'
    <3>1. /\ \A i : (Count(i))' = Count(i) /\ (UpTo(i))' = UpTo(i)
      BY <1>2, SameTyped
    <3>2. Count(k) = IF k \in Heard THEN Count(k - 1) + 1 ELSE Count(k - 1)
      BY <1>3, <1>6, CountNext
    <3>3. CASE k \notin Heard
      <4>1. InFlight' = InFlight
        BY <1>13, <1>14, <1>16, <1>19, <3>3
      <4>2. UpTo(k) = UpTo(k - 1)
        BY <1>3, <1>17, <3>3, NotHeard
      <4> QED
        BY <1>1, <1>2, <3>1, <3>2, <3>3, <4>1, <4>2 DEF Numbered
    <3>4. CASE k \in Heard
      <4>1. reader' = "send" /\ holding' = Meaning[g]
        BY <1>13, <1>14, <1>19, <3>4
      <4>2. InFlight' = Append(InFlight, Meaning[g])
        BY <1>16, <4>1
      <4>3. Len(InFlight) \in Nat /\ Len(InFlight') = Len(InFlight) + 1
            /\ InFlight'[Len(InFlight) + 1] = Meaning[g]
            /\ \A n \in 1 .. Len(InFlight) : InFlight'[n] = InFlight[n]
        BY <1>16, <4>2
      <4>4. Len(InFlight) = Count(k - 1) /\ Len(InFlight') = Count(k)
        BY <1>1, <3>2, <3>4, <4>3 DEF Numbered
      <4>5. k \in UpTo(k) /\ UpTo(k - 1) \in SUBSET UpTo(k)
        BY <1>3, <1>17, <3>4, HeardMore
      <4>6. ASSUME NEW n \in 1 .. Len(InFlight')
            PROVE  \E h \in UpTo(k) : Count(h) = n /\ InFlight'[n] = Meaning[typed[h]]
        <5>1. CASE n \in 1 .. Len(InFlight)
          BY <1>1, <4>3, <4>5, <5>1 DEF Numbered
        <5>2. CASE n = Len(InFlight) + 1
          BY <1>5, <4>3, <4>4, <4>5, <5>2
        <5> QED
          BY <4>3, <5>1, <5>2
      <4> QED
        BY <1>2, <3>1, <4>4, <4>6 DEF Numbered
    <3> QED
      BY <3>3, <3>4
  <2> QED
    BY <1>17, <2>4, <2>5
<1> QED
  BY <1>6, <1>9, <1>18, <1>19

LEMMA TypeReads ==
  ASSUME InputInv, Type
  PROVE  \E k, pos : (Reading(k, pos))' /\ (Numbered(k - 1))'
<1>1. PICK k, pos : Reading(k, pos) /\ Numbered(k - 1)
  BY DEF InputInv
<1>2. PICK g \in Gestures : typed' = Append(typed, g) /\ tty' = tty \o Bytes[g]
  BY DEF Type
<1>3. /\ reader' = reader /\ holding' = holding /\ events' = events /\ handled' = handled
      /\ reader # "closed"
  BY DEF Type, InputInv
<1>4. PICK n, l, b : n = Len(typed) /\ l = Len(tty) /\ b = Bytes[g]
  OBVIOUS
<1>5. /\ typed \in Seq(Gestures) /\ n \in Nat /\ Len(typed') = n + 1
      /\ typed'[n + 1] = g /\ \A i \in 1 .. n : typed'[i] = typed[i]
      /\ tty \in Seq(AllBytes) /\ l \in Nat /\ RunsInv
  BY <1>2, <1>4 DEF InputInv, InputTypeInv, InputTypeOK
<1>6. b \in Seq(AllBytes) /\ Len(b) \in 1 .. 5
  BY <1>2, <1>4, BytesTypes, GesturesDecode DEF DecodesAs
<1>7. /\ Len(tty') = l + Len(b) /\ \A i \in 1 .. l : tty'[i] = tty[i]
      /\ \A i \in 1 .. Len(b) : tty'[l + i] = b[i]
  BY <1>2, <1>4, <1>5, <1>6
<1>8. PICK next : next = [m \in 1 .. n + 2 |-> IF m = n + 2 THEN l + Len(b) ELSE pos[m]]
  OBVIOUS
<1>9. /\ k \in 1 .. n + 1 /\ pos \in [1 .. n + 1 -> Int] /\ pos[n + 1] = l
      /\ pos[k] <= 0 /\ (k <= n => pos[k + 1] > 0)
      /\ StateAt(<<reader, holding>>, k, 0 - pos[k])
  BY <1>1, <1>3, <1>4 DEF Reading
<1>10. /\ next \in [1 .. n + 1 + 1 -> Int] /\ next[n + 1 + 1] = l + Len(b)
       /\ \A m \in 1 .. n + 1 : next[m] = pos[m]
  BY <1>5, <1>6, <1>8, <1>9
<1>11. SentAt(next)'
  <2>1. ASSUME NEW m \in 1 .. n + 1
        PROVE  /\ next[m + 1] = next[m] + Len(Bytes[typed'[m]]) /\ next[m + 1] <= Len(tty')
               /\ \A i \in 1 .. Len(Bytes[typed'[m]]) :
                    next[m] + i >= 1 => tty'[next[m] + i] = Bytes[typed'[m]][i]
    <3>1. CASE m = n + 1
      <4>1. Bytes[typed'[m]] = b /\ next[m] = l /\ next[m + 1] = l + Len(b)
        BY <1>4, <1>5, <1>9, <1>10, <3>1
      <4> QED
        BY <1>5, <1>6, <1>7, <4>1
    <3>2. CASE m \in 1 .. n
      <4>1. PICK c, p, q : c = Bytes[typed[m]] /\ p = pos[m] /\ q = pos[m + 1]
        OBVIOUS
      <4>0. typed'[m] = typed[m] /\ typed[m] \in Gestures
        BY <1>4, <1>5, <3>2
      <4>2. typed'[m] = typed[m] /\ Len(c) \in 1 .. 5
        BY <4>0, <4>1, GesturesDecode DEF DecodesAs
      <4>3. /\ q = p + Len(c) /\ q <= l
            /\ \A i \in 1 .. Len(c) : p + i >= 1 => tty[p + i] = c[i]
        BY <1>1, <1>4, <3>2, <4>1 DEF Reading, SentAt
      <4>4. m \in 1 .. n + 1 /\ m + 1 \in 1 .. n + 1
        BY <1>5, <3>2
      <4>5. next[m] = p /\ next[m + 1] = q /\ p \in Int
        BY <1>9, <1>10, <4>1, <4>4
      <4>6. ASSUME NEW i \in 1 .. Len(c), p + i >= 1 PROVE tty'[p + i] = c[i]
        <5>1. p + i \in 1 .. l
          BY <1>5, <4>2, <4>3, <4>5, <4>6
        <5> QED
          BY <1>7, <4>3, <4>6, <5>1
      <4>7. q <= Len(tty')
        BY <1>5, <1>6, <1>7, <4>2, <4>3, <4>5
      <4> QED
        BY <4>1, <4>2, <4>3, <4>5, <4>6, <4>7
    <3> QED
      BY <1>5, <3>1, <3>2
  <2> QED
    BY <1>5, <2>1 DEF SentAt
<1>12. /\ (Swallowed(k))' <=> Swallowed(k)
       /\ pos[k] # 0 => k \in 1 .. n
  <2>1. k \in 1 .. Len(typed) + 1
    BY <1>4, <1>9
  <2>2. (Swallowed(k))' <=> Swallowed(k)
    BY <1>2, <1>5, <2>1, SwallowedStays
  <2>3. pos[k] # 0 => k \in 1 .. n
    BY <1>5, <1>9
  <2> QED
    BY <2>2, <2>3
<1>13. StateAt(<<reader, holding>>, k, 0 - pos[k])'
  <2>1. CASE pos[k] = 0
    BY <1>3, <1>9, <1>12, <2>1 DEF StateAt
  <2>2. CASE pos[k] # 0
    <3>1. typed'[k] = typed[k] /\ 0 - pos[k] # 0
      BY <1>5, <1>9, <1>12, <2>2
    <3> QED
      BY <1>3, <1>9, <1>12, <3>1 DEF StateAt
  <2> QED
    BY <2>1, <2>2
<1>14. Reading(k, next)'
  <2>1. k \in 1 .. n + 1 + 1 /\ next[k] = pos[k] /\ next[k] <= 0
    BY <1>5, <1>9, <1>10
  <2>2. k <= n + 1 => next[k + 1] > 0
    <3>1. CASE k <= n
      <4>1. k + 1 \in 1 .. n + 1
        BY <1>5, <1>9, <3>1
      <4> QED
        BY <1>9, <1>10, <3>1, <4>1
    <3>2. CASE k = n + 1
      <4>0. PICK c \in 1 .. 5 : c = Len(b)
        BY <1>6
      <4>1. l \in Nat /\ c \in Nat /\ c > 0
        BY <1>5
      <4>2. l + c > 0
        BY ONLY <4>1
      <4>3. next[k + 1] = l + c
        BY <1>10, <3>2, <4>0
      <4> QED
        BY <4>2, <4>3
    <3> QED
      BY <1>5, <1>9, <3>1, <3>2
  <2> QED
    BY <1>5, <1>7, <1>10, <1>11, <1>13, <2>1, <2>2 DEF Reading
<1>15. InFlight' = InFlight
  BY <1>3 DEF InFlight
<1>16. (Numbered(k - 1))'
  <2>1. PICK d : d = k - 1
    OBVIOUS
  <2>2. d \in 0 .. Len(typed)
    BY <1>4, <1>5, <1>9, <2>1
  <2>3. UpTo(d)' = UpTo(d) /\ Heard \in SUBSET (Heard')
    BY <1>2, <1>5, <2>2, HeardStays
  <2>4. \A h \in UpTo(d) : h \in 1 .. n /\ Count(h)' = Count(h) /\ typed'[h] = typed[h]
    <3>1. ASSUME NEW h \in UpTo(d)
          PROVE  h \in 1 .. n /\ Count(h)' = Count(h) /\ typed'[h] = typed[h]
      <4>1. h \in 1 .. n /\ h \in 0 .. Len(typed)
        BY <1>4, <1>5 DEF UpTo, Heard
      <4>2. UpTo(h)' = UpTo(h)
        BY <1>2, <1>5, <4>1, HeardStays
      <4> QED
        BY <1>5, <4>1, <4>2 DEF Count
    <3> QED
      BY <3>1
  <2>5. Count(d)' = Count(d)
    BY <2>3 DEF Count
  <2>6. Numbered(d)
    BY <1>1, <2>1
  <2>7. Numbered(d)'
    BY <1>15, <2>3, <2>4, <2>5, <2>6 DEF Numbered
  <2> QED
    BY <2>1, <2>7
<1> QED
  BY <1>14, <1>16

\* An event is ready only between two gestures.
LEMMA SendAtStart ==
  ASSUME InputInv, reader = "send", NEW k, NEW pos, Reading(k, pos)
  PROVE  pos[k] = 0 /\ ~Swallowed(k)
<1>1. typed \in Seq(Gestures) /\ Len(typed) \in Nat /\ Len(tty) \in Nat
  BY DEF InputInv, InputTypeInv, InputTypeOK
<1>2. PICK p, q : p = pos[k] /\ q = pos[k + 1]
  OBVIOUS
<1>3. /\ k \in 1 .. Len(typed) + 1 /\ p \in Int /\ p <= 0
      /\ StateAt(<<reader, holding>>, k, 0 - p)
  BY <1>2 DEF Reading
<1>4. <<"start", "none">>[1] = "start" /\ <<"esc", "none">>[1] = "esc"
      /\ <<reader, holding>>[1] = "send"
  OBVIOUS
<1>5. ASSUME p # 0 PROVE FALSE
  <2>1. k # Len(typed) + 1
    BY <1>1, <1>2, <1>3, <1>5 DEF Reading
  <2>2. k \in 1 .. Len(typed) /\ typed[k] \in Gestures
    BY <1>1, <1>3, <2>1
  <2>3. PICK b, way : b = Bytes[typed[k]] /\ way = Way[typed[k]]
    OBVIOUS
  <2>4. Len(b) \in 1 .. 5 /\ \A i \in 1 .. Len(b) - 1 : way[i][1] # "send"
    BY <2>2, <2>3, GesturesDecode DEF DecodesAs
  <2>5. q > 0 /\ q = p + Len(b)
    BY <1>1, <1>2, <2>2, <2>3 DEF Reading, SentAt
  <2>6. 0 - p \in 1 .. Len(b) - 1 /\ 0 - p # 0
    BY <1>3, <1>5, <2>4, <2>5
  <2> QED
    BY <1>3, <1>4, <2>3, <2>4, <2>6 DEF StateAt
<1>6. p = 0 /\ 0 - p = 0
  BY <1>3, <1>5
<1> QED
  BY <1>2, <1>3, <1>4, <1>6 DEF StateAt

\* An event that moves on stays in flight.
LEMMA Emitted ==
  ASSUME NEW h \in Seq(Holds), NEW e \in Seq(Holds), NEW x \in Holds
  PROVE  h \o Append(e, x) = Append(h \o e, x)
OBVIOUS

LEMMA Received ==
  ASSUME NEW h \in Seq(Holds), NEW e \in Seq(Holds), e # <<>>
  PROVE  Append(h, Head(e)) \o Tail(e) = h \o e
OBVIOUS

LEMMA InputStep == InputInv /\ [InputNext]_inputVars => InputInv'
<1> SUFFICES ASSUME InputInv, [InputNext]_inputVars PROVE InputInv'
  OBVIOUS
<1>1. InputTypeInv' /\ RunsInv' /\ InputTypeInv
  BY InputTypeStep, RunsStep DEF InputInv
<1>2. reader' = "closed" => hungUp'
  <2>1. CASE ReadByte
    <3>1. Decode(reader, holding, Head(tty))[1] \in Places
      BY <2>1, DecodeTypes DEF ReadByte, InputInv, InputTypeInv, InputTypeOK, Holds
    <3> QED
      BY <2>1, <3>1 DEF ReadByte, Places
  <2> QED
    BY <2>1 DEF InputInv, InputNext, Type, HangUp, ReadEnds, EmitInput, Receive, inputVars
<1>3. PICK k, pos : Reading(k, pos) /\ Numbered(k - 1)
  BY DEF InputInv
<1>4. ASSUME UNCHANGED <<typed, tty>>, reader' = "closed" \/ UNCHANGED <<reader, holding>>
             \/ (reader = "send" /\ reader' = "start" /\ holding' = "none")
      PROVE  Reading(k, pos)'
  <2>1. /\ (Swallowed(k))' <=> Swallowed(k)
        /\ SentAt(pos)' <=> SentAt(pos)
    BY <1>4, SameTyped DEF SentAt
  <2>2. reader' # "closed" => StateAt(<<reader, holding>>, k, 0 - pos[k])'
    <3>1. CASE UNCHANGED <<reader, holding>>
      BY <1>3, <1>4, <2>1, <3>1 DEF Reading, StateAt
    <3>2. CASE reader = "send" /\ reader' = "start" /\ holding' = "none"
      <4>1. pos[k] = 0 /\ ~Swallowed(k)
        BY <1>3, <3>2, SendAtStart
      <4>2. ~(Swallowed(k))' /\ 0 - pos[k] = 0
        BY ONLY <2>1, <4>1
      <4> QED
        BY ONLY <3>2, <4>2 DEF StateAt
    <3> QED
      BY <1>4, <3>1, <3>2
  <2> QED
    BY <1>3, <1>4, <2>1, <2>2 DEF Reading
<1>5. ASSUME InFlight' = InFlight, typed' = typed PROVE (Numbered(k - 1))'
  <2>1. PICK d : d = k - 1
    OBVIOUS
  <2> QED
    BY <1>3, <1>5, <2>1, SameFlight
<1>6. ASSUME \E k2, pos2 : (Reading(k2, pos2))' /\ (Numbered(k2 - 1))' PROVE InputInv'
  BY <1>1, <1>2, <1>6 DEF InputInv
<1>7. CASE Type
  BY <1>6, <1>7, TypeReads
<1>8. CASE ReadByte
  BY <1>1, <1>6, <1>8, ReadByteReads
<1>9. CASE HangUp
  <2>1. InFlight' = InFlight
    BY <1>9 DEF HangUp, InFlight
  <2> QED
    BY <1>4, <1>5, <1>6, <1>9, <2>1 DEF HangUp
<1>10. CASE ReadEnds
  <2>1. InFlight' = InFlight
    BY <1>10 DEF ReadEnds, InFlight
  <2> QED
    BY <1>4, <1>5, <1>6, <1>10, <2>1 DEF ReadEnds
<1>11. CASE EmitInput
  <2>1. InFlight' = InFlight
    <3>1. /\ reader = "send" /\ events' = Append(events, holding) /\ handled' = handled
          /\ reader' = "start"
      BY <1>11 DEF EmitInput
    <3>2. InFlight' = handled \o Append(events, holding)
      BY <1>1, <3>1, InFlightNext
    <3>3. InFlight = Append(handled \o events, holding)
      BY <1>1, <3>1, InFlightIs
    <3> QED
      BY <1>1, <3>2, <3>3, Emitted DEF InputTypeInv, InputTypeOK, Holds
  <2> QED
    BY <1>4, <1>5, <1>6, <1>11, <2>1 DEF EmitInput
<1>12. CASE Receive
  <2>1. InFlight' = InFlight
    <3>1. CASE /\ events # <<>> /\ events' = Tail(events)
               /\ handled' = Append(handled, Head(events))
      <4>1. handled' \o events' = handled \o events
        BY <1>1, <3>1, Received DEF InputTypeInv
      <4> QED
        BY <1>12, <4>1 DEF Receive, InFlight
    <3>2. CASE UNCHANGED <<events, handled>>
      BY <1>12, <3>2 DEF Receive, InFlight
    <3> QED
      BY <1>12, <3>1, <3>2 DEF Receive
  <2> QED
    BY <1>4, <1>5, <1>6, <1>12, <2>1 DEF Receive
<1>13. CASE UNCHANGED inputVars
  <2>1. InFlight' = InFlight
    BY <1>13 DEF inputVars, InFlight
  <2> QED
    BY <1>4, <1>5, <1>6, <1>13, <2>1 DEF inputVars
<1> QED
  BY <1>7, <1>8, <1>9, <1>10, <1>11, <1>12, <1>13 DEF InputNext

\* What the loop has received, what is in the channel and what the reader sends
\* are the first events that are due, in order, each once: the decoder loses
\* its place in no sequence, and the channel nothing.
THEOREM EventsAreInOrder == InputSpec => []EventsInOrder
<1>1. InputInit => InputInv
  <2> SUFFICES ASSUME InputInit PROVE InputInv
    OBVIOUS
  <2>1. /\ typed = <<>> /\ tty = <<>> /\ reader = "start" /\ holding = "none"
        /\ events = <<>> /\ handled = <<>> /\ Len(typed) = 0 /\ Len(tty) = 0
        /\ typed \in Seq(Gestures)
    BY DEF InputInit
  <2>2. InputTypeInv
    BY InputTypeStart
  <2>3. RunsInv
    <3>1. EscapesBefore(1, 0)
      BY <2>1 DEF EscapesBefore
    <3> QED
      BY <2>1, <3>1 DEF RunsInv
  <2>4. PICK pos : pos = [m \in 1 .. 1 |-> 0]
    OBVIOUS
  <2>5. Reading(1, pos)
    <3>1. pos \in [1 .. 1 -> Int] /\ pos[1] = 0
      BY <2>4
    <3>2. SentAt(pos)
      BY <2>1 DEF SentAt
    <3>3. StateAt(<<reader, holding>>, 1, 0)
      BY <2>1, FirstNotSwallowed DEF StateAt
    <3> QED
      BY <2>1, <3>1, <3>2, <3>3 DEF Reading
  <2>6. Numbered(1 - 1)
    <3>1. InFlight = <<>>
      BY <2>1 DEF InFlight
    <3>2. UpTo(0) = {}
      BY <2>1 DEF UpTo, Heard
    <3>3. Count(0) = 0
      BY <3>2, FS_EmptySet DEF Count
    <3>4. Numbered(0)
      BY <3>1, <3>3 DEF Numbered
    <3> QED
      BY <3>4
  <2> QED
    BY <2>1, <2>2, <2>3, <2>5, <2>6 DEF InputInv
<1>2. InputInv => EventsInOrder
  <2> SUFFICES ASSUME InputInv PROVE EventsInOrder
    OBVIOUS
  <2>1. PICK k, pos : Reading(k, pos) /\ Numbered(k - 1)
    BY DEF InputInv
  <2>2. typed \in Seq(Gestures) /\ InputTypeInv
    BY DEF InputInv, InputTypeInv, InputTypeOK
  <2>3. PICK d \in Int : d = k - 1
    BY <2>1 DEF Reading
  <2>4. InFlight \in Seq(Holds)
    BY <2>2, InFlightIs
  <2>5. Len(InFlight) <= Cardinality(Heard)
    BY <2>1, <2>2, <2>3, HeardTypes DEF Numbered
  <2>6. ASSUME NEW n \in DOMAIN InFlight PROVE InFlight[n] = Due(n)
    <3>1. n \in 1 .. Len(InFlight)
      BY <2>4
    <3>2. PICK h \in UpTo(d) : Count(h) = n /\ InFlight[n] = Meaning[typed[h]]
      BY <2>1, <2>3, <3>1 DEF Numbered
    <3>3. h \in Heard
      BY <3>2 DEF UpTo
    <3>4. PICK c : c = CHOOSE i \in Heard : Count(i) = n
      OBVIOUS
    <3>5. c \in Heard /\ Count(c) = n
      BY <3>2, <3>3, <3>4, Zenon
    <3>6. c = h
      BY <2>2, <3>2, <3>3, <3>5, CountsDiffer
    <3>7. Due(n) = Meaning[typed[c]]
      BY <3>4 DEF Due, Count, UpTo
    <3> QED
      BY <3>2, <3>6, <3>7
  <2> QED
    BY <2>5, <2>6 DEF EventsInOrder
<1> QED
  BY <1>1, <1>2, InputStep, PTL DEF InputSpec

-----------------------------------------------------------------------------
(* Status: ages *)

Age == Int \cup {Never}

\* The age above which none are told apart is more than four intervals.
LEMMA OldestIsStale == Oldest \in Int /\ Oldest > 4 * Interval
<1>1. ClockBy * MaxSet \in Nat
  BY StatusAssumption
<1>2. 2 * ClockBy * MaxSet = 2 * (ClockBy * MaxSet)
  BY StatusAssumption
<1> QED
  BY <1>1, <1>2, StatusAssumption DEF Oldest

\* What becomes of an age when it is shifted.
Aged(t, u, by) ==
  /\ u = Never <=> t = Never
  /\ t # Never => t \in Int /\ u = IF t + by > Oldest THEN Oldest ELSE t + by

\* A shifted age.
LEMMA ShiftedAge ==
  ASSUME NEW t \in Age, NEW by \in Int
  PROVE Shift(t, by) \in Age /\ Aged(t, Shift(t, by), by)
BY OldestIsStale, StatusAssumption DEF Shift, Age, Aged

-----------------------------------------------------------------------------
(* Status: the invariant *)

\* The age of a success whose clock was not set back covers the run after it.
SuccessBeforeRun ==
  "back" \notin status.set /\ status.success # Never =>
    status.success >= 0 /\ (ranFor > 0 => status.success >= 1)

\* A failure is younger than the success before it, or that one is stale.
FailureAfterSuccess(s) ==
  s.ran = "failure" =>
    /\ s.enabled /\ s.attempt # Never
    /\ "back" \notin s.set /\ s.success # Never =>
         s.attempt < s.success \/ s.success > 4 * Interval

\* A success is no older than this.
SuccessWithin(s, limit) ==
  s.ran = "success" =>
    /\ s.enabled /\ s.attempt = s.success /\ s.success # Never
    /\ "forward" \notin s.set => s.success <= limit

\* A copy that is off has no times.
OffWithout(s) == s.ran = "off" => ~s.enabled

\* What is said of every copy.
CopyInv(s, limit) ==
  CopyTypeOK(s) /\ FailureAfterSuccess(s) /\ SuccessWithin(s, limit) /\ OffWithout(s)

\* In the store a success is as old as the time to the next tick and of the run
\* after it allows; in the file and in the client the time is added for which the
\* copy has been behind.
StoreLimit == IF run = "none" THEN Interval - nextTick ELSE Interval + ranFor

FileLimit == Interval + RunMax + behind

ClientLimit == Interval + RunMax + PublishMax + unread

\* The copies that are not the newest ones wait no longer than they may.
Waiting ==
  /\ published # status => recordedFor <= behind
  /\ published = status /\ display # published => recordedFor <= PublishMax + unread

StatusInv ==
  /\ StatusTypeOK
  /\ SuccessBeforeRun
  /\ CopyInv(status, StoreLimit)
  /\ published = status \/ CopyInv(published, FileLimit)
  /\ display = published \/ CopyInv(display, ClientLimit)
  /\ Waiting

\* What the types say of the numbers.
LEMMA StatusNumbers ==
  ASSUME StatusTypeOK
  PROVE /\ Interval \in Nat \ {0} /\ RunMax \in Nat \ {0} /\ PublishMax \in Nat \ {0}
        /\ ReadMax \in Nat \ {0} /\ nextTick \in 0 .. Interval /\ ranFor \in 0 .. RunMax
        /\ behind \in 0 .. PublishMax /\ unread \in 0 .. ReadMax
        /\ recordedFor \in 0 .. PublishMax + ReadMax + 1
        /\ StoreLimit \in Int /\ FileLimit \in Int /\ ClientLimit \in Int
        /\ StoreLimit <= Interval + RunMax
BY StatusAssumption DEF StatusTypeOK, StoreLimit, FileLimit, ClientLimit

\* A copy within a limit is one within a larger limit.
LEMMA LaterLimit ==
  ASSUME NEW s, NEW a \in Int, NEW b \in Int, a <= b, CopyInv(s, a)
  PROVE CopyInv(s, b)
<1>1. s.success \in Int \cup {Never}
  BY DEF CopyInv, CopyTypeOK
<1> QED
  BY <1>1 DEF CopyInv, SuccessWithin

\* The file's copy and the client's stay within their limits also when they are new.
LEMMA EveryCopy ==
  ASSUME StatusInv
  PROVE CopyInv(published, FileLimit) /\ CopyInv(display, ClientLimit)
<1>1. /\ StoreLimit \in Int /\ FileLimit \in Int /\ ClientLimit \in Int
      /\ StoreLimit <= FileLimit /\ FileLimit <= ClientLimit
  BY StatusNumbers DEF StatusInv, FileLimit, ClientLimit
<1>2. CopyInv(published, FileLimit)
  BY <1>1, LaterLimit DEF StatusInv
<1>3. CopyInv(published, ClientLimit)
  BY <1>1, <1>2, LaterLimit
<1> QED
  BY <1>2, <1>3 DEF StatusInv

\* What a shift of a copy does, by the clock's hand or by time.
LEMMA ShiftStep ==
  ASSUME NEW s, CopyTypeOK(s), NEW by \in Int
  PROVE /\ CopyTypeOK(Shifted(s, by))
        /\ Shifted(s, by).enabled = s.enabled
        /\ Shifted(s, by).ran = s.ran /\ Shifted(s, by).set = s.set
        /\ Shifted(s, by).attempt = Shift(s.attempt, by)
        /\ Shifted(s, by).success = Shift(s.success, by)
        /\ Aged(s.attempt, Shift(s.attempt, by), by)
        /\ Aged(s.success, Shift(s.success, by), by)
<1>1. /\ s \in [enabled : BOOLEAN, attempt : Age, success : Age,
               ran : {"none", "off", "success", "failure"}, set : SUBSET {"back", "forward"}]
      /\ s.attempt \in Age /\ s.success \in Age
      /\ ~s.enabled => s.attempt = Never /\ s.success = Never
  BY DEF CopyTypeOK, Age
<1>2. Shifted(s, by) = [s EXCEPT !.attempt = Shift(s.attempt, by),
                                 !.success = Shift(s.success, by)]
  BY <1>1 DEF Shifted
<1>3. /\ Shift(s.attempt, by) \in Age /\ Shift(s.success, by) \in Age
      /\ Aged(s.attempt, Shift(s.attempt, by), by)
      /\ Aged(s.success, Shift(s.success, by), by)
  BY <1>1, ShiftedAge
<1>4. s.enabled \/ (Shift(s.attempt, by) = Never /\ Shift(s.success, by) = Never)
  BY <1>1, <1>3 DEF Aged
<1> QED
  BY <1>1, <1>2, <1>3, <1>4 DEF CopyTypeOK, Age

\* Time leaves a copy within a limit that grows with it.
LEMMA CopyAges ==
  ASSUME NEW s, NEW limit \in Int, CopyInv(s, limit)
  PROVE CopyInv(Shifted(s, 1), limit + 1)
<1>1. /\ CopyTypeOK(s) /\ CopyTypeOK(Shifted(s, 1))
      /\ Shifted(s, 1).enabled = s.enabled
      /\ Shifted(s, 1).ran = s.ran /\ Shifted(s, 1).set = s.set
      /\ Shifted(s, 1).attempt = Shift(s.attempt, 1)
      /\ Shifted(s, 1).success = Shift(s.success, 1)
      /\ Aged(s.attempt, Shift(s.attempt, 1), 1)
      /\ Aged(s.success, Shift(s.success, 1), 1)
  BY ShiftStep DEF CopyInv
<1>2. Oldest \in Int /\ Oldest > 4 * Interval /\ Interval \in Nat \ {0}
  BY OldestIsStale, StatusAssumption
<1>3. FailureAfterSuccess(Shifted(s, 1))
  BY <1>1, <1>2 DEF CopyInv, FailureAfterSuccess, Aged
<1>4. SuccessWithin(Shifted(s, 1), limit + 1)
  BY <1>1, <1>2 DEF CopyInv, SuccessWithin, Aged
<1> QED
  BY <1>1, <1>3, <1>4 DEF CopyInv, OffWithout

\* The clock is set: a copy stays within its limit, unless it was set forward.
LEMMA CopySet ==
  ASSUME NEW s, NEW limit \in Int, CopyInv(s, limit), NEW by \in Int
  PROVE /\ CopyInv(Set(s, by), limit)
        /\ Set(s, by).set = s.set \cup {IF by < 0 THEN "back" ELSE "forward"}
        /\ Set(s, by).success = Shift(s.success, by)
        /\ Aged(s.success, Shift(s.success, by), by)
<1>0. Set(s, by) = [Shifted(s, by) EXCEPT
                      !.set = s.set \cup {IF by < 0 THEN "back" ELSE "forward"}]
  BY ShiftStep DEF Set, CopyInv, CopyTypeOK
<1>1. /\ CopyTypeOK(s) /\ CopyTypeOK(Set(s, by))
      /\ Set(s, by).enabled = s.enabled
      /\ Set(s, by).ran = s.ran
      /\ Set(s, by).set = s.set \cup {IF by < 0 THEN "back" ELSE "forward"}
      /\ Set(s, by).attempt = Shift(s.attempt, by)
      /\ Set(s, by).success = Shift(s.success, by)
      /\ Aged(s.attempt, Shift(s.attempt, by), by)
      /\ Aged(s.success, Shift(s.success, by), by)
  BY <1>0, ShiftStep DEF CopyInv, CopyTypeOK
<1>2. Oldest \in Int /\ Oldest > 4 * Interval /\ Interval \in Nat \ {0}
  BY OldestIsStale, StatusAssumption
<1>3. FailureAfterSuccess(Set(s, by))
  BY <1>1, <1>2 DEF CopyInv, FailureAfterSuccess, Aged
<1>4. SuccessWithin(Set(s, by), limit)
  BY <1>1, <1>2 DEF CopyInv, SuccessWithin, Aged
<1> QED
  BY <1>1, <1>3, <1>4 DEF CopyInv, OffWithout

\* The first state.
LEMMA StatusStart == StatusInit => StatusInv
<1> SUFFICES ASSUME StatusInit PROVE StatusInv
  OBVIOUS
<1>1. /\ present \in BOOLEAN /\ working \in BOOLEAN
      /\ status = [enabled |-> FALSE, attempt |-> Never, success |-> Never,
                   ran |-> "none", set |-> {}]
      /\ published = status /\ display = status /\ behind = 0 /\ unread = 0
      /\ nextTick = 0 /\ run = "none" /\ ranFor = 0 /\ clockSet = 0 /\ recordedFor = 0
  BY DEF StatusInit, With, Off
<1>2. StatusTypeOK
  BY <1>1, StatusAssumption DEF StatusTypeOK, CopyTypeOK
<1>3. CopyInv(status, StoreLimit)
  BY <1>1, <1>2 DEF StatusTypeOK, CopyInv, FailureAfterSuccess, SuccessWithin, OffWithout
<1> QED
  BY <1>1, <1>2, <1>3 DEF StatusInv, SuccessBeforeRun, Waiting

\* Time passes.
LEMMA PassStep == StatusInv /\ TimePasses => StatusInv'
<1> SUFFICES ASSUME StatusInv, TimePasses PROVE StatusInv'
  OBVIOUS
<1>1. /\ IF run = "none" THEN nextTick > 0 ELSE ranFor < RunMax
      /\ published # status => behind < PublishMax
      /\ display # published => unread < ReadMax
      /\ status' = Shifted(status, 1) /\ published' = Shifted(published, 1)
      /\ display' = Shifted(display, 1)
      /\ behind' = IF published = status THEN 0 ELSE behind + 1
      /\ unread' = IF display = published THEN 0 ELSE unread + 1
      /\ recordedFor' = IF recordedFor > PublishMax + ReadMax THEN recordedFor
                        ELSE recordedFor + 1
      /\ nextTick' = IF nextTick > 0 THEN nextTick - 1 ELSE 0
      /\ ranFor' = IF run = "none" THEN 0 ELSE ranFor + 1
      /\ UNCHANGED <<present, working, run, clockSet>>
  BY DEF TimePasses
<1>2. StatusTypeOK /\ CopyTypeOK(status) /\ CopyTypeOK(published) /\ CopyTypeOK(display)
  BY DEF StatusInv, StatusTypeOK
<1>3. CopyTypeOK(status') /\ CopyTypeOK(published') /\ CopyTypeOK(display')
  BY <1>1, <1>2, ShiftStep
<1>4. StatusTypeOK'
  BY <1>1, <1>2, <1>3, StatusNumbers DEF StatusTypeOK
<1>5. SuccessBeforeRun'
  <2>0. /\ Shifted(status, 1).set = status.set
        /\ Shifted(status, 1).success = Shift(status.success, 1)
        /\ Aged(status.success, Shift(status.success, 1), 1)
    BY <1>2, ShiftStep
  <2>1. /\ status'.set = status.set /\ status'.success = Shift(status.success, 1)
        /\ Aged(status.success, Shift(status.success, 1), 1)
    BY <1>1, <2>0
  <2>2. Oldest \in Int /\ Oldest > 4 * Interval /\ Interval \in Nat \ {0}
    BY OldestIsStale, StatusAssumption
  <2> QED
    BY <1>1, <1>2, <2>1, <2>2, StatusNumbers DEF StatusInv, SuccessBeforeRun, Aged
<1>6. CopyInv(status, StoreLimit)'
  <2>1. CopyInv(status', StoreLimit + 1)
    BY <1>1, <1>2, CopyAges, StatusNumbers DEF StatusInv
  <2>2. StoreLimit' = StoreLimit + 1
    BY <1>1, <1>2, StatusNumbers DEF StoreLimit
  <2> QED
    BY <2>1, <2>2
<1>7. (published = status \/ CopyInv(published, FileLimit))'
  <2>1. CASE published = status
    BY <1>1, <2>1
  <2>2. CASE published # status
    <3>1. CopyInv(published', FileLimit + 1)
      BY <1>1, <1>2, CopyAges, EveryCopy, StatusNumbers
    <3>2. FileLimit' = FileLimit + 1
      BY <1>1, <1>2, <2>2, StatusNumbers DEF FileLimit
    <3> QED
      BY <3>1, <3>2
  <2> QED
    BY <2>1, <2>2
<1>8. (display = published \/ CopyInv(display, ClientLimit))'
  <2>1. CASE display = published
    BY <1>1, <2>1
  <2>2. CASE display # published
    <3>1. CopyInv(display', ClientLimit + 1)
      BY <1>1, <1>2, CopyAges, EveryCopy, StatusNumbers
    <3>2. ClientLimit' = ClientLimit + 1
      BY <1>1, <1>2, <2>2, StatusNumbers DEF ClientLimit
    <3> QED
      BY <3>1, <3>2
  <2> QED
    BY <2>1, <2>2
<1>9. Waiting'
  <2>1. (published' # status' => published # status)
          /\ (display' # published' => display # published)
    BY <1>1
  <2>2. CASE published # status
    BY <1>1, <1>2, <2>1, <2>2, StatusNumbers DEF StatusInv, Waiting
  <2>3. CASE published = status
    BY <1>1, <1>2, <2>1, <2>3, StatusNumbers DEF StatusInv, Waiting
  <2> QED
    BY <2>2, <2>3
<1> QED
  BY <1>4, <1>5, <1>6, <1>7, <1>8, <1>9 DEF StatusInv

\* The clock is set.
LEMMA ClockStep ==
  ASSUME StatusInv, NEW by \in Int, SetClock(by)
  PROVE StatusInv'
<1>1. /\ clockSet < MaxSet /\ clockSet' = clockSet + 1
      /\ status' = Set(status, by) /\ published' = Set(published, by)
      /\ display' = Set(display, by)
      /\ UNCHANGED <<present, working, behind, unread, nextTick, run, ranFor, recordedFor>>
  BY DEF SetClock, runVars
<1>2. StatusTypeOK /\ MaxSet \in Nat /\ CopyTypeOK(status)
  BY StatusAssumption DEF StatusInv, StatusTypeOK
<1>3. /\ CopyInv(status', StoreLimit) /\ CopyInv(published', FileLimit)
      /\ CopyInv(display', ClientLimit)
      /\ status'.set = status.set \cup {IF by < 0 THEN "back" ELSE "forward"}
      /\ Aged(status.success, status'.success, by)
  <2>1. /\ CopyInv(status, StoreLimit) /\ CopyInv(published, FileLimit)
        /\ CopyInv(display, ClientLimit)
        /\ StoreLimit \in Int /\ FileLimit \in Int /\ ClientLimit \in Int
    BY <1>2, EveryCopy, StatusNumbers DEF StatusInv
  <2>2. /\ CopyInv(Set(status, by), StoreLimit) /\ CopyInv(Set(published, by), FileLimit)
        /\ CopyInv(Set(display, by), ClientLimit)
    BY <2>1, CopySet
  <2>3. /\ Set(status, by).set = status.set \cup {IF by < 0 THEN "back" ELSE "forward"}
        /\ Set(status, by).success = Shift(status.success, by)
        /\ Aged(status.success, Shift(status.success, by), by)
    BY <2>1, CopySet
  <2> QED
    BY <1>1, <2>2, <2>3
<1>4. /\ StoreLimit' = StoreLimit /\ FileLimit' = FileLimit /\ ClientLimit' = ClientLimit
  BY <1>1 DEF StoreLimit, FileLimit, ClientLimit
<1>5. StatusTypeOK'
  BY <1>1, <1>2, <1>3 DEF StatusTypeOK, CopyInv
<1>6. SuccessBeforeRun'
  <2>1. Oldest \in Int /\ Oldest > 4 * Interval /\ Interval \in Nat \ {0}
    BY OldestIsStale, StatusAssumption
  <2> QED
    BY <1>1, <1>2, <1>3, <2>1, StatusNumbers DEF StatusInv, SuccessBeforeRun, Aged
<1>7. Waiting'
  <2>1. published = status => published' = status'
    BY <1>1
  <2>2. display = published => display' = published'
    BY <1>1
  <2>3. recordedFor' = recordedFor /\ behind' = behind /\ unread' = unread
    BY <1>1
  <2>4. Waiting
    BY DEF StatusInv
  <2> QED
    BY <1>2, <2>1, <2>2, <2>3, <2>4, StatusNumbers DEF Waiting
<1> QED
  BY <1>3, <1>4, <1>5, <1>6, <1>7 DEF StatusInv

\* A run begins.
LEMMA BeginStep == StatusInv /\ BeginRun => StatusInv'
<1> SUFFICES ASSUME StatusInv, BeginRun PROVE StatusInv'
  OBVIOUS
<1>1. /\ run = "none" /\ nextTick = 0 /\ run' \in {"off", "success", "failure"}
      /\ nextTick' = Interval /\ ranFor' = 0
      /\ UNCHANGED <<present, working, status, published, display, behind, unread,
                     clockSet, recordedFor>>
  BY DEF BeginRun, copyVars
<1>2. StatusTypeOK /\ StatusTypeOK'
  BY <1>1, StatusAssumption DEF StatusInv, StatusTypeOK
<1>3. StoreLimit' = StoreLimit /\ FileLimit' = FileLimit /\ ClientLimit' = ClientLimit
  BY <1>1, <1>2, StatusNumbers DEF StoreLimit, FileLimit, ClientLimit
<1>4. SuccessBeforeRun'
  BY <1>1 DEF StatusInv, SuccessBeforeRun
<1>5. Waiting'
  BY <1>1 DEF StatusInv, Waiting
<1> QED
  BY <1>1, <1>2, <1>3, <1>4, <1>5 DEF StatusInv

\* A run is recorded.
LEMMA RecordStep == StatusInv /\ RecordCollector => StatusInv'
<1> SUFFICES ASSUME StatusInv, RecordCollector PROVE StatusInv'
  OBVIOUS
<1>1. /\ run \in {"off", "success", "failure"} /\ ranFor > 0
      /\ status' = [enabled |-> Recorded.enabled, attempt |-> Recorded.attempt,
                    success |-> Recorded.success, ran |-> run,
                    set |-> IF run = "failure" THEN status.set ELSE {}]
      /\ behind' = IF published = status THEN 0 ELSE behind
      /\ recordedFor' = 0 /\ run' = "none" /\ ranFor' = 0
      /\ UNCHANGED <<present, working, published, display, unread, nextTick, clockSet>>
  BY DEF RecordCollector, With, StatusInv, StatusTypeOK
<1>2. /\ StatusTypeOK /\ CopyTypeOK(status)
      /\ status.success \in Int \cup {Never} /\ status.set \subseteq {"back", "forward"}
      /\ nextTick \in 0 .. Interval /\ Interval \in Nat \ {0} /\ Never \notin Int
  BY StatusAssumption DEF StatusInv, StatusTypeOK, CopyTypeOK
<1>3. StoreLimit' = Interval - nextTick /\ ClientLimit' = ClientLimit
  BY <1>1 DEF StoreLimit, ClientLimit
<1>4. CopyInv(status', Interval - nextTick) /\ SuccessBeforeRun'
  <2>1. CASE run = "off"
    <3>1. status' = [enabled |-> FALSE, attempt |-> Never, success |-> Never,
                     ran |-> "off", set |-> {}]
      BY <1>1, <2>1 DEF Recorded, Off
    <3>2. CopyTypeOK(status')
      BY <1>2, <3>1 DEF CopyTypeOK
    <3>3. /\ FailureAfterSuccess(status') /\ SuccessWithin(status', Interval - nextTick)
          /\ OffWithout(status')
      BY <1>2, <3>1 DEF FailureAfterSuccess, SuccessWithin, OffWithout
    <3>4. SuccessBeforeRun'
      BY <1>1, <1>2, <3>1 DEF SuccessBeforeRun
    <3> QED
      BY <3>2, <3>3, <3>4 DEF CopyInv
  <2>2. CASE run = "success"
    <3>1. status' = [enabled |-> TRUE, attempt |-> 0, success |-> 0,
                     ran |-> "success", set |-> {}]
      BY <1>1, <2>2 DEF Recorded
    <3>2. CopyTypeOK(status')
      BY <1>2, <3>1 DEF CopyTypeOK
    <3>3. /\ FailureAfterSuccess(status') /\ SuccessWithin(status', Interval - nextTick)
          /\ OffWithout(status')
      BY <1>2, <3>1 DEF FailureAfterSuccess, SuccessWithin, OffWithout
    <3>4. SuccessBeforeRun'
      BY <1>1, <1>2, <3>1 DEF SuccessBeforeRun
    <3> QED
      BY <3>2, <3>3, <3>4 DEF CopyInv
  <2>3. CASE run = "failure"
    <3>1. status' = [enabled |-> TRUE, attempt |-> 0, success |-> status.success,
                     ran |-> "failure", set |-> status.set]
      BY <1>1, <2>3 DEF Recorded
    <3>2. "back" \notin status.set /\ status.success # Never => status.success >= 1
      BY <1>1, <1>2 DEF StatusInv, SuccessBeforeRun
    <3>3. CopyTypeOK(status')
      BY <1>2, <3>1 DEF CopyTypeOK
    <3>4. /\ FailureAfterSuccess(status') /\ SuccessWithin(status', Interval - nextTick)
          /\ OffWithout(status')
      BY <1>2, <3>1, <3>2 DEF FailureAfterSuccess, SuccessWithin, OffWithout
    <3>5. SuccessBeforeRun'
      BY <1>1, <1>2, <3>1, <3>2 DEF SuccessBeforeRun
    <3> QED
      BY <3>3, <3>4, <3>5 DEF CopyInv
  <2> QED
    BY <1>1, <2>1, <2>2, <2>3
<1>5. StatusTypeOK'
  BY <1>1, <1>2, <1>4, StatusNumbers DEF StatusTypeOK, CopyInv
<1>6. CopyInv(published, FileLimit')
  <2>1. CASE published = status
    <3>1. /\ StoreLimit \in Int /\ FileLimit' \in Int /\ StoreLimit <= FileLimit'
      BY <1>1, <1>2, <2>1, StatusNumbers DEF FileLimit
    <3> QED
      BY <2>1, <3>1, LaterLimit DEF StatusInv
  <2>2. CASE published # status
    BY <1>1, <2>2, EveryCopy DEF FileLimit
  <2> QED
    BY <2>1, <2>2
<1>7. CopyInv(display, ClientLimit')
  BY <1>3, EveryCopy
<1>8. Waiting'
  BY <1>1, <1>2, StatusNumbers DEF Waiting
<1> QED
  BY <1>1, <1>3, <1>4, <1>5, <1>6, <1>7, <1>8 DEF StatusInv

\* The file is written.
LEMMA PublishStep == StatusInv /\ PublishStatus => StatusInv'
<1> SUFFICES ASSUME StatusInv, PublishStatus PROVE StatusInv'
  OBVIOUS
<1>1. /\ published # status /\ published' = status /\ behind' = 0
      /\ unread' = IF display = published THEN 0 ELSE unread
      /\ UNCHANGED <<present, working, status, display, nextTick, run, ranFor,
                     clockSet, recordedFor>>
  BY DEF PublishStatus, runVars
<1>2. StatusTypeOK /\ StatusTypeOK'
  BY <1>1, StatusAssumption DEF StatusInv, StatusTypeOK
<1>3. StoreLimit' = StoreLimit
  BY <1>1 DEF StoreLimit
<1>4. SuccessBeforeRun'
  BY <1>1 DEF StatusInv, SuccessBeforeRun
<1>5. CopyInv(display, ClientLimit')
  <2>1. CASE display = published
    <3>1. FileLimit \in Int /\ ClientLimit' \in Int /\ FileLimit <= ClientLimit'
      BY <1>1, <1>2, <2>1, StatusNumbers DEF FileLimit, ClientLimit
    <3> QED
      BY <2>1, <3>1, EveryCopy, LaterLimit
  <2>2. CASE display # published
    BY <1>1, <2>2, EveryCopy DEF ClientLimit
  <2> QED
    BY <2>1, <2>2
<1>6. Waiting'
  BY <1>1, <1>2, StatusNumbers DEF StatusInv, Waiting
<1> QED
  BY <1>1, <1>2, <1>3, <1>4, <1>5, <1>6 DEF StatusInv

\* The client reads the file.
LEMMA ReadStep == StatusInv /\ ReadStatus => StatusInv'
<1> SUFFICES ASSUME StatusInv, ReadStatus PROVE StatusInv'
  OBVIOUS
<1>1. /\ display # published /\ display' = published /\ unread' = 0
      /\ UNCHANGED <<present, working, status, published, behind, nextTick, run, ranFor,
                     clockSet, recordedFor>>
  BY DEF ReadStatus, runVars
<1>2. StatusTypeOK /\ StatusTypeOK'
  BY <1>1, StatusAssumption DEF StatusInv, StatusTypeOK
<1>3. StoreLimit' = StoreLimit /\ FileLimit' = FileLimit
  BY <1>1 DEF StoreLimit, FileLimit
<1>4. SuccessBeforeRun' /\ Waiting'
  BY <1>1 DEF StatusInv, SuccessBeforeRun, Waiting
<1> QED
  BY <1>1, <1>2, <1>3, <1>4 DEF StatusInv

\* The invariant of all of them.
LEMMA StatusInvariant == StatusSpec => []StatusInv
<1>1. StatusInv /\ [StatusNext]_statusVars => StatusInv'
  <2> SUFFICES ASSUME StatusInv, [StatusNext]_statusVars PROVE StatusInv'
    OBVIOUS
  <2>1. CASE World \/ UNCHANGED statusVars
    <3>0. UNCHANGED <<status, published, display, behind, unread, nextTick, run, ranFor,
                      clockSet, recordedFor>>
      BY <2>1 DEF World, statusVars, copyVars, runVars
    <3>1. SuccessBeforeRun' /\ Waiting'
      BY <3>0 DEF StatusInv, SuccessBeforeRun, Waiting
    <3>2. present' \in BOOLEAN /\ working' \in BOOLEAN
      BY <2>1, Zenon DEF World, statusVars, StatusInv, StatusTypeOK
    <3>3. StatusTypeOK'
      BY <3>0, <3>2 DEF StatusInv, StatusTypeOK
    <3>4. /\ StoreLimit' = StoreLimit /\ FileLimit' = FileLimit
          /\ ClientLimit' = ClientLimit
      BY <3>0 DEF StoreLimit, FileLimit, ClientLimit
    <3> QED
      BY <3>0, <3>1, <3>3, <3>4 DEF StatusInv
  <2>2. ClockBy \in Int /\ -ClockBy \in Int
    BY StatusAssumption
  <2> QED
    BY <2>1, <2>2, PassStep, ClockStep, BeginStep, RecordStep, PublishStep, ReadStep
       DEF StatusNext
<1> QED
  BY <1>1, StatusStart, PTL DEF StatusSpec

-----------------------------------------------------------------------------
(* Status: theorems *)

\* What a client shows of a collector is how its last run ended, once that has
\* been published and read, whatever the intervals, however long runs, writes and
\* reads take and however often the clock was set.
THEOREM IssueIsOfLastRun == StatusSpec => []IssueOfLastRun
<1>1. StatusInv => IssueOfLastRun
  <2> SUFFICES ASSUME StatusInv PROVE IssueOfLastRun
    OBVIOUS
  <2>1. /\ StatusTypeOK /\ CopyInv(display, ClientLimit)
        /\ display.success \in Int \cup {Never} /\ display.attempt \in Int \cup {Never}
        /\ Never \notin Int
    BY EveryCopy, StatusAssumption DEF StatusInv, CopyInv, CopyTypeOK
  <2>2. recordedFor > PublishMax + ReadMax => display = status
    BY <2>1, StatusNumbers DEF StatusInv, Waiting
  <2>3. display.ran = "failure" /\ "back" \notin display.set => Issue(display) # "none"
    BY <2>1, StatusNumbers DEF CopyInv, FailureAfterSuccess, Issue
  <2>4. ASSUME display.ran = "success", "forward" \notin display.set, Prompt
        PROVE Issue(display) = "none"
    <3>1. /\ display.attempt = display.success /\ display.success \in Int
          /\ display.success <= ClientLimit
      BY <2>1, <2>4 DEF CopyInv, SuccessWithin
    <3>2. display.success <= 4 * Interval
      BY <2>1, <2>4, <3>1, StatusNumbers DEF ClientLimit, Prompt
    <3> QED
      BY <2>1, <3>1, <3>2, StatusNumbers DEF Issue
  <2>5. display.ran = "off" => Issue(display) = "none"
    BY <2>1 DEF CopyInv, OffWithout, Issue
  <2> QED
    BY <2>2, <2>3, <2>4, <2>5 DEF IssueOfLastRun
<1> QED
  BY <1>1, StatusInvariant, PTL

-----------------------------------------------------------------------------
(* Config: durations *)

\* Multiplied with wrap-around, a number of seconds is still an integer.
LEMMA SecondsInt == ASSUME NEW n \in Int PROVE Seconds(n) \in Int
<1>1. n * Second + Half \in Int /\ 2 * Half \in Nat \ {0}
  BY ConfigAssumption
<1>2. (n * Second + Half) % (2 * Half) \in Int
  BY <1>1
<1> QED
  BY <1>2, ConfigAssumption DEF Seconds

\* A positive number of seconds in range stays positive.
LEMMA SecondsPositive ==
  ASSUME NEW n \in Nat \ {0}, InRange(n)
  PROVE Seconds(n) > 0
<1> DEFINE x == n * Second
<1>1. x \in Int /\ x > 0 /\ x < Half
  BY ConfigAssumption DEF InRange
<1> HIDE DEF x
<1>2. (x + Half) % (2 * Half) = x + Half
  BY <1>1, ConfigAssumption
<1> QED
  BY <1>1, <1>2, ConfigAssumption DEF Seconds, x

\* What is in range stays in range when it is made smaller.
LEMMA SmallerInRange ==
  ASSUME NEW n \in Nat, NEW m \in Nat, n <= m, InRange(m)
  PROVE InRange(n)
<1>1. n * Second <= m * Second
  BY ConfigAssumption
<1> QED
  BY <1>1, ConfigAssumption DEF InRange

\* The defaults are durations.
LEMMA DefaultPositive ==
  ASSUME NEW k \in Durations
  PROVE Seconds(Default[k]) \in Int /\ Seconds(Default[k]) > 0
<1>1. Default[k] \in Nat \ {0} /\ k \in ConfigKeys
  BY DEF Default, Durations, ConfigKeys
<1>2. InRange(Default[k])
  BY <1>1, ConfigAssumption
<1> QED
  BY <1>1, <1>2, SecondsInt, SecondsPositive

-----------------------------------------------------------------------------
(* Config: configurations *)

\* A text that is looked up is one that was written, or empty.
LEMMA LookedUp ==
  ASSUME NEW env \in [ConfigKeys -> Texts], NEW values \in [ConfigKeys -> Texts],
         NEW k \in ConfigKeys
  PROVE /\ Lookup(env, values, k) \in Numbers \cup {Empty, Garbage}
        /\ Lookup(env, values, k) \in Numbers => Lookup(env, values, k) \in {env[k], values[k]}
<1>1. Empty \notin Numbers /\ env[k] \in Texts /\ values[k] \in Texts
  BY ConfigAssumption
<1> QED
  BY <1>1 DEF Lookup, Texts

\* A duration that is read is positive, or out of range.
LEMMA DurationRead ==
  ASSUME NEW k \in Durations, NEW text \in Numbers \cup {Empty, Garbage}
  PROVE /\ EnvDuration(text, k) \in Int
        /\ EnvDuration(text, k) <= 0 => text \in Numbers /\ ~InRange(text)
<1>1. Seconds(Default[k]) \in Int /\ Seconds(Default[k]) > 0
  BY DefaultPositive
<1>2. CASE text \in {Empty, Garbage}
  BY <1>1, <1>2 DEF EnvDuration
<1>3. CASE text \notin {Empty, Garbage}
  <2>1. text \in Numbers /\ text \in Int
    BY <1>3, ConfigAssumption
  <2>2. Seconds(text) \in Int /\ (text >= 1 /\ InRange(text) => Seconds(text) > 0)
    BY <2>1, SecondsInt, SecondsPositive
  <2> QED
    BY <1>1, <1>3, <2>1, <2>2 DEF EnvDuration
<1> QED
  BY <1>2, <1>3

\* A configuration that is read: its durations are integers, positive but for
\* a number of the file or the environment that is out of range.
LEMMA ConfigRead ==
  ASSUME NEW env \in [ConfigKeys -> Texts], NEW values \in [ConfigKeys -> Texts]
  PROVE /\ FromLookup(env, values) \in [ConfigKeys -> Int \cup {Absent, Empty, Garbage}]
        /\ \A k \in Durations :
             /\ FromLookup(env, values)[k] \in Int
             /\ FromLookup(env, values)[k] <= 0 =>
                  \E n \in {env[k], values[k]} : n \in Numbers /\ ~InRange(n)
<1>1. ASSUME NEW k \in ConfigKeys
      PROVE FromLookup(env, values)[k] \in Int \cup {Absent, Empty, Garbage}
  <2>1. Lookup(env, values, k) \in Numbers \cup {Empty, Garbage}
    BY <1>1, LookedUp
  <2>2. CASE k \in Durations
    <3>1. EnvDuration(Lookup(env, values, k), k) \in Int
      BY <2>1, <2>2, DurationRead
    <3> QED
      BY <2>2, <3>1 DEF FromLookup
  <2>3. CASE k \notin Durations
    <3>1. Default[k] \in Int /\ Numbers \subseteq Int
      BY ConfigAssumption DEF Default, ConfigKeys, Durations
    <3> QED
      BY <2>1, <2>3, <3>1 DEF FromLookup
  <2> QED
    BY <2>2, <2>3
<1>2. FromLookup(env, values) \in [ConfigKeys -> Int \cup {Absent, Empty, Garbage}]
  BY <1>1 DEF FromLookup
<1>3. ASSUME NEW k \in Durations
      PROVE /\ FromLookup(env, values)[k] \in Int
            /\ FromLookup(env, values)[k] <= 0 =>
                 \E n \in {env[k], values[k]} : n \in Numbers /\ ~InRange(n)
  <2> DEFINE text == Lookup(env, values, k)
  <2>1. k \in ConfigKeys
    BY DEF ConfigKeys
  <2>2. FromLookup(env, values)[k] = EnvDuration(text, k)
    BY <2>1 DEF FromLookup
  <2>3. text \in Numbers \cup {Empty, Garbage} /\ (text \in Numbers => text \in {env[k], values[k]})
    BY <2>1, LookedUp
  <2> HIDE DEF text
  <2>4. /\ EnvDuration(text, k) \in Int
        /\ EnvDuration(text, k) <= 0 => text \in Numbers /\ ~InRange(text)
    BY <2>3, DurationRead
  <2> QED
    BY <2>2, <2>3, <2>4
<1> QED
  BY <1>2, <1>3

\* What the environment leaves alone is as the file alone has it, and what
\* systemd has put there from the file as the code reads it changes nothing.
LEMMA SameLookup ==
  ASSUME NEW env \in [ConfigKeys -> Texts], NEW values \in [ConfigKeys -> Texts],
         NEW k \in ConfigKeys, env[k] = Absent \/ env[k] = values[k]
  PROVE FromLookup(env, values)[k] = FromLookup(Unset, values)[k]
<1>1. Unset[k] = Absent
  BY DEF Unset
<1>2. Lookup(env, values, k) = Lookup(Unset, values, k)
  BY <1>1 DEF Lookup
<1> QED
  BY <1>2 DEF FromLookup

-----------------------------------------------------------------------------
(* Config: the invariant *)

\* The configuration with the file alone.
FileAlone == FromLookup(Unset, envFile)

\* What each process has since the last edit of the file it has from that file.
ConfigInv ==
  /\ envFile = Damaged \/ envFile \in [ConfigKeys -> Texts]
  /\ systemdFile \in [ConfigKeys -> Texts]
  /\ environment = NoEnvironment \/ environment \in [ConfigKeys -> Texts]
  /\ environment # NoEnvironment => "daemon" \notin sinceEdit
  /\ "environment" \in sinceEdit => environment = systemdFile
  /\ "daemon" \in sinceEdit => daemonHas = Ticking(LoadConfig(systemdFile))
  /\ "client" \in sinceEdit =>
       /\ envFile = Damaged => clientHas = Failed
       /\ Runs(clientHas) =>
            \A k \in ConfigKeys \ overrides :
              k # "MAIN_INTERVAL" \/ "argument" \notin overrides => clientHas[k] = FileAlone[k]
  /\ clientHas = Panicked => "argument" \notin overrides

\* A configuration that is loaded fails if and only if the file is damaged.
LEMMA Loads ==
  ASSUME ConfigInv, NEW env \in [ConfigKeys -> Texts]
  PROVE /\ envFile = Damaged => LoadConfig(env) = Failed
        /\ envFile # Damaged =>
             /\ envFile \in [ConfigKeys -> Texts]
             /\ LoadConfig(env) = FromLookup(env, envFile)
             /\ LoadConfig(env) \in [ConfigKeys -> Int \cup {Absent, Empty, Garbage}]
             /\ LoadConfig(env) \notin {Failed, Panicked}
<1>1. CASE envFile = Damaged
  BY <1>1 DEF LoadConfig, ParseEnvFile
<1>2. CASE envFile # Damaged
  <2>1. envFile \in [ConfigKeys -> Texts]
    BY <1>2 DEF ConfigInv
  <2>2. Texts \subseteq Int \cup {Absent, Empty, Garbage}
    BY ConfigAssumption DEF Texts
  <2>3. envFile \in [ConfigKeys -> Int \cup {Absent, Empty, Garbage}]
    BY <2>1, <2>2
  <2>4. envFile # Failed
    BY <2>3, ConfigAssumption
  <2>5. LoadConfig(env) = FromLookup(env, envFile)
    BY <1>2, <2>4 DEF LoadConfig, ParseEnvFile
  <2>6. FromLookup(env, envFile) \in [ConfigKeys -> Int \cup {Absent, Empty, Garbage}]
    BY <2>1, ConfigRead
  <2>7. FromLookup(env, envFile) \notin {Failed, Panicked}
    BY <2>6, ConfigAssumption
  <2> QED
    BY <1>2, <2>1, <2>5, <2>6, <2>7
<1> QED
  BY <1>1, <1>2

\* An environment without any of the values.
LEMMA UnsetText == Unset \in [ConfigKeys -> Texts]
BY DEF Unset, Texts

\* An argument that is accepted is a configuration with a positive interval.
LEMMA ArgumentTicks ==
  ASSUME NEW cfg \in [ConfigKeys -> Int \cup {Absent, Empty, Garbage}],
         NEW n \in Numbers, n >= 1
  PROVE LET with == [cfg EXCEPT !.MAIN_INTERVAL =
                                  Seconds(IF n > MaxArgument THEN MaxArgument ELSE n)]
        IN /\ with \in [ConfigKeys -> Int \cup {Absent, Empty, Garbage}]
           /\ with["MAIN_INTERVAL"] \in Int /\ with["MAIN_INTERVAL"] > 0
<1> DEFINE m == IF n > MaxArgument THEN MaxArgument ELSE n
<1>1. n \in Int /\ MaxArgument \in Nat \ {0} /\ InRange(MaxArgument)
  BY ConfigAssumption
<1>2. m \in Nat \ {0} /\ m <= MaxArgument
  BY <1>1
<1> HIDE DEF m
<1>3. InRange(m)
  BY <1>1, <1>2, SmallerInRange
<1>4. Seconds(m) \in Int /\ Seconds(m) > 0
  BY <1>2, <1>3, SecondsInt, SecondsPositive
<1>5. "MAIN_INTERVAL" \in ConfigKeys
  BY DEF ConfigKeys, Durations
<1> QED
  BY <1>4, <1>5 DEF m

\* The first state.
LEMMA ConfigStart == ConfigInit => ConfigInv
BY UnsetText DEF ConfigInit, ConfigInv

\* A reading is a pair of texts.
LEMMA ReadingsAreTexts == ASSUME NEW t \in Readings PROVE t[1] \in Texts /\ t[2] \in Texts
BY DEF Readings, Texts

\* An edit of the file makes everything older than it.
LEMMA EditStep == ConfigInv /\ Edit => ConfigInv'
<1> SUFFICES ASSUME ConfigInv, Edit PROVE ConfigInv'
  OBVIOUS
<1>1. /\ envFile' = Damaged \/ envFile' \in [ConfigKeys -> Texts]
      /\ systemdFile' \in [ConfigKeys -> Texts]
  <2>1. CASE envFile' = Damaged /\ systemdFile' = Unset
    BY <2>1, UnsetText
  <2>2. ASSUME NEW k \in ConfigKeys, NEW t \in Readings,
               envFile' = [IF envFile = Damaged THEN Unset ELSE envFile EXCEPT ![k] = t[1]],
               systemdFile' = [systemdFile EXCEPT ![k] = t[2]]
        PROVE envFile' \in [ConfigKeys -> Texts] /\ systemdFile' \in [ConfigKeys -> Texts]
    <3>1. /\ (IF envFile = Damaged THEN Unset ELSE envFile) \in [ConfigKeys -> Texts]
          /\ systemdFile \in [ConfigKeys -> Texts]
      BY UnsetText DEF ConfigInv
    <3>2. t[1] \in Texts /\ t[2] \in Texts
      BY ReadingsAreTexts
    <3> QED
      BY <2>2, <3>1, <3>2
  <2> QED
    BY <2>1, <2>2 DEF Edit
<1>2. sinceEdit' = {} /\ UNCHANGED <<environment, daemonHas, clientHas, overrides>>
  BY DEF Edit
<1> QED
  BY <1>1, <1>2 DEF ConfigInv

\* systemd reads the file.
LEMMA SystemdStep == ConfigInv /\ SystemdStarts => ConfigInv'
<1> SUFFICES ASSUME ConfigInv, SystemdStarts PROVE ConfigInv'
  OBVIOUS
<1>1. /\ environment' = systemdFile /\ daemonHas' = Down
      /\ sinceEdit' = (sinceEdit \cup {"environment"}) \ {"daemon"}
      /\ UNCHANGED <<envFile, systemdFile, clientHas, overrides>>
  BY DEF SystemdStarts, fileVars
<1>2. FileAlone' = FileAlone
  BY <1>1 DEF FileAlone
<1> QED
  BY <1>1, <1>2 DEF ConfigInv

\* The daemon loads what systemd has read, and the file.
LEMMA DaemonStep == ConfigInv /\ DaemonLoads => ConfigInv'
<1> SUFFICES ASSUME ConfigInv, DaemonLoads PROVE ConfigInv'
  OBVIOUS
<1>1. /\ environment # NoEnvironment /\ environment' = NoEnvironment
      /\ daemonHas' = Ticking(LoadConfig(environment))
      /\ sinceEdit' = IF "environment" \in sinceEdit
                      THEN (sinceEdit \ {"environment"}) \cup {"daemon"} ELSE sinceEdit
      /\ UNCHANGED <<envFile, systemdFile, clientHas, overrides>>
  BY DEF DaemonLoads, fileVars
<1>2. FileAlone' = FileAlone /\ LoadConfig(systemdFile)' = LoadConfig(systemdFile)
  BY <1>1 DEF FileAlone, LoadConfig, ParseEnvFile
<1>3. "daemon" \in sinceEdit' =>
        daemonHas' = Ticking(LoadConfig(systemdFile)) /\ "environment" \notin sinceEdit'
  BY <1>1 DEF ConfigInv
<1>4. "environment" \notin sinceEdit'
  BY <1>1
<1>5. "client" \in sinceEdit' <=> "client" \in sinceEdit
  BY <1>1
<1> QED
  BY <1>1, <1>2, <1>3, <1>4, <1>5 DEF ConfigInv

\* A client loads the file beside what its shell sets and its argument.
LEMMA ClientStep == ConfigInv /\ ClientStarts => ConfigInv'
<1> SUFFICES ASSUME ConfigInv, NEW k \in ConfigKeys, NEW t \in Texts, ClientStarts,
                    LET env == [Unset EXCEPT ![k] = t]
                        set == IF t = Absent THEN {} ELSE {k}
                    IN \/ /\ clientHas' = Ticking(LoadConfig(env))
                          /\ overrides' = set
                       \/ \E n \in Numbers :
                            /\ clientHas' = Ticking(WithArgument(LoadConfig(env), n))
                            /\ overrides' = set \cup {"argument"}
             PROVE ConfigInv'
  BY DEF ClientStarts
<1> DEFINE env == [Unset EXCEPT ![k] = t]
           set == IF t = Absent THEN {} ELSE {k}
           cfg == LoadConfig(env)
<1>1. /\ sinceEdit' = sinceEdit \cup {"client"}
      /\ UNCHANGED <<envFile, systemdFile, environment, daemonHas>>
  BY DEF ClientStarts, fileVars
<1>2. FileAlone' = FileAlone /\ LoadConfig(systemdFile)' = LoadConfig(systemdFile)
  BY <1>1 DEF FileAlone, LoadConfig, ParseEnvFile
<1>3. /\ env \in [ConfigKeys -> Texts]
      /\ \A j \in ConfigKeys \ set : env[j] = Absent
      /\ "argument" \notin set
  BY UnsetText DEF Unset, ConfigKeys, Durations
<1>4. CASE /\ clientHas' = Ticking(cfg)
           /\ overrides' = set
  <2>1. envFile = Damaged => clientHas' = Failed
    BY <1>3, <1>4, Loads DEF Ticking
  <2>2. ASSUME clientHas' \notin {Down, Failed, Panicked}, NEW j \in ConfigKeys \ set
        PROVE clientHas'[j] = FileAlone[j]
    <3>1. envFile # Damaged /\ clientHas' = cfg
      BY <1>4, <2>1, <2>2 DEF Ticking
    <3>2. envFile \in [ConfigKeys -> Texts] /\ cfg = FromLookup(env, envFile)
      BY <1>3, <3>1, Loads
    <3>3. env[j] = Absent /\ j \in ConfigKeys
      BY <1>3, <2>2
    <3> HIDE DEF env, set, cfg
    <3> QED
      BY <1>3, <3>1, <3>2, <3>3, SameLookup DEF FileAlone
  <2>3. "argument" \notin overrides'
    BY <1>3, <1>4
  <2> HIDE DEF env, set, cfg
  <2> QED
    BY <1>1, <1>2, <1>4, <2>1, <2>2, <2>3 DEF ConfigInv, Runs
<1>5. ASSUME NEW n \in Numbers,
             clientHas' = Ticking(WithArgument(cfg, n)),
             overrides' = set \cup {"argument"}
      PROVE ConfigInv'
  <2>1. envFile = Damaged \/ n < 1 => clientHas' = Failed
    BY <1>3, <1>5, Loads DEF Ticking, WithArgument
  <2>2. ASSUME envFile # Damaged, n >= 1
        PROVE /\ clientHas' # Panicked
              /\ \A j \in ConfigKeys \ (set \cup {"MAIN_INTERVAL"}) :
                   clientHas'[j] = FileAlone[j]
    <3> DEFINE with == [cfg EXCEPT !.MAIN_INTERVAL =
                                     Seconds(IF n > MaxArgument THEN MaxArgument ELSE n)]
    <3>1. /\ envFile \in [ConfigKeys -> Texts] /\ cfg = FromLookup(env, envFile)
          /\ cfg \in [ConfigKeys -> Int \cup {Absent, Empty, Garbage}] /\ cfg # Failed
      BY <1>3, <2>2, Loads
    <3> HIDE DEF cfg, env, set
    <3>2. /\ with \in [ConfigKeys -> Int \cup {Absent, Empty, Garbage}]
          /\ with["MAIN_INTERVAL"] \in Int /\ with["MAIN_INTERVAL"] > 0
      BY <2>2, <3>1, ArgumentTicks
    <3>3. \A j \in ConfigKeys \ {"MAIN_INTERVAL"} : with[j] = cfg[j]
      BY <3>1
    <3>4. n \in Int
      BY ConfigAssumption
    <3>5. WithArgument(cfg, n) = with
      BY <2>2, <3>1, <3>4 DEF WithArgument
    <3> HIDE DEF with
    <3>6. with \notin {Failed, Panicked}
      BY <3>2, ConfigAssumption
    <3>7. clientHas' = with
      BY <1>5, <3>2, <3>5, <3>6 DEF Ticking
    <3>8. \A j \in ConfigKeys \ set : cfg[j] = FileAlone[j]
      BY <1>3, <3>1, SameLookup DEF FileAlone, set
    <3> QED
      BY <3>3, <3>6, <3>7, <3>8
  <2>3. n \in Int /\ Failed # Panicked
    BY ConfigAssumption
  <2>4. clientHas' # Panicked
    BY <2>1, <2>2, <2>3
  <2>5. ASSUME clientHas' \notin {Down, Failed, Panicked}, NEW j \in ConfigKeys \ overrides',
               j # "MAIN_INTERVAL" \/ "argument" \notin overrides'
        PROVE clientHas'[j] = FileAlone[j]
    <3>1. envFile # Damaged /\ n >= 1
      BY <2>1, <2>3, <2>5
    <3>2. j \in ConfigKeys \ (set \cup {"MAIN_INTERVAL"})
      BY <1>5, <2>5
    <3> QED
      BY <2>2, <3>1, <3>2
  <2> HIDE DEF env, set, cfg
  <2> QED
    BY <1>1, <1>2, <2>1, <2>4, <2>5 DEF ConfigInv, Runs
<1> QED
  BY <1>4, <1>5

\* The invariant of all of them.
LEMMA ConfigInvariant == ConfigSpec => []ConfigInv
<1>1. ConfigInv /\ [ConfigNext]_configVars => ConfigInv'
  <2> SUFFICES ASSUME ConfigInv, [ConfigNext]_configVars PROVE ConfigInv'
    OBVIOUS
  <2>1. CASE UNCHANGED configVars
    <3>1. /\ UNCHANGED <<envFile, systemdFile, environment, daemonHas, clientHas, overrides,
                        sinceEdit>>
          /\ FileAlone' = FileAlone /\ LoadConfig(systemdFile)' = LoadConfig(systemdFile)
      BY <2>1 DEF configVars, fileVars, FileAlone, LoadConfig, ParseEnvFile
    <3> QED
      BY <3>1 DEF ConfigInv
  <2> QED
    BY <2>1, EditStep, SystemdStep, DaemonStep, ClientStep DEF ConfigNext
<1> QED
  BY <1>1, ConfigStart, PTL DEF ConfigSpec

-----------------------------------------------------------------------------
(* Config: theorems *)

\* What the daemon that was started after the last edit has.
LEMMA DaemonHas ==
  ASSUME ConfigInv, "daemon" \in sinceEdit
  PROVE /\ envFile = Damaged => daemonHas = Failed
        /\ envFile # Damaged =>
             /\ envFile \in [ConfigKeys -> Texts] /\ daemonHas # Failed
             /\ Runs(daemonHas) => daemonHas = FromLookup(systemdFile, envFile)
             /\ daemonHas = Panicked => FromLookup(systemdFile, envFile)["MAIN_INTERVAL"] <= 0
<1>1. systemdFile \in [ConfigKeys -> Texts] /\ daemonHas = Ticking(LoadConfig(systemdFile))
  BY DEF ConfigInv
<1>2. CASE envFile = Damaged
  BY <1>1, <1>2, Loads DEF Ticking
<1>3. CASE envFile # Damaged
  <2>1. /\ envFile \in [ConfigKeys -> Texts]
        /\ LoadConfig(systemdFile) = FromLookup(systemdFile, envFile)
        /\ LoadConfig(systemdFile) \notin {Failed, Panicked}
    BY <1>1, <1>3, Loads
  <2> QED
    BY <1>1, <1>3, <2>1, ConfigAssumption DEF Ticking, Runs
<1> QED
  BY <1>2, <1>3

\* A daemon and a client that were started after the last edit of the file have
\* the same configuration, but for what the client's shell or argument says and
\* the lines that systemd reads in another way than the code, whatever was
\* written and however edits and starts follow each other.
THEOREM ConfigurationsAgree == ConfigSpec => []SameConfiguration
<1>1. ConfigInv => SameConfiguration
  <2> SUFFICES ASSUME ConfigInv, "daemon" \in sinceEdit, "client" \in sinceEdit
               PROVE /\ Runs(daemonHas) /\ Runs(clientHas) =>
                          \A k \in Shared :
                            systemdFile[k] \in {Absent, envFile[k]} =>
                              clientHas[k] = daemonHas[k]
                     /\ daemonHas = Failed => clientHas = Failed
    BY DEF SameConfiguration
  <2>1. CASE envFile = Damaged
    BY <2>1, DaemonHas DEF ConfigInv, Runs
  <2>2. CASE envFile # Damaged
    <3>1. /\ envFile \in [ConfigKeys -> Texts] /\ systemdFile \in [ConfigKeys -> Texts]
          /\ daemonHas # Failed
          /\ Runs(daemonHas) => daemonHas = FromLookup(systemdFile, envFile)
      BY <2>2, DaemonHas DEF ConfigInv
    <3>2. ASSUME NEW k \in Shared, systemdFile[k] \in {Absent, envFile[k]},
                 Runs(daemonHas), Runs(clientHas)
          PROVE clientHas[k] = daemonHas[k]
      <4>1. k \in ConfigKeys \ overrides /\ (k # "MAIN_INTERVAL" \/ "argument" \notin overrides)
        BY DEF Shared
      <4>2. FromLookup(systemdFile, envFile)[k] = FileAlone[k]
        BY <3>1, <3>2, <4>1, SameLookup DEF FileAlone
      <4>3. clientHas[k] = FileAlone[k]
        BY <3>2, <4>1 DEF ConfigInv
      <4> QED
        BY <3>1, <3>2, <4>2, <4>3
    <3> QED
      BY <3>1, <3>2
  <2> QED
    BY <2>1, <2>2
<1> QED
  BY <1>1, ConfigInvariant, PTL

\* Whatever the width of a duration, only a number for MAIN_INTERVAL that does not
\* fit into one makes the daemon's tickers panic, and no argument makes the client's.
THEOREM PanicsOnlyOutOfRange == ConfigSpec => []PanicsOutOfRange
<1>1. ConfigInv => PanicsOutOfRange
  <2> SUFFICES ASSUME ConfigInv, "daemon" \in sinceEdit, daemonHas = Panicked
               PROVE \E n \in {envFile["MAIN_INTERVAL"], systemdFile["MAIN_INTERVAL"]} :
                       n \in Int /\ ~InRange(n)
    BY DEF ConfigInv, PanicsOutOfRange
  <2>1. Failed # Panicked /\ Numbers \subseteq Int
    BY ConfigAssumption
  <2>2. /\ envFile \in [ConfigKeys -> Texts] /\ systemdFile \in [ConfigKeys -> Texts]
        /\ FromLookup(systemdFile, envFile)["MAIN_INTERVAL"] <= 0
    BY <2>1, DaemonHas DEF ConfigInv
  <2>3. "MAIN_INTERVAL" \in Durations
    BY DEF Durations
  <2>4. \E n \in {systemdFile["MAIN_INTERVAL"], envFile["MAIN_INTERVAL"]} :
          n \in Numbers /\ ~InRange(n)
    BY <2>2, <2>3, ConfigRead
  <2> QED
    BY <2>1, <2>4
<1> QED
  BY <1>1, ConfigInvariant, PTL

-----------------------------------------------------------------------------
(* Config: types *)

\* Whatever is read is a configuration.
LEMMA ReadIsLoaded ==
  ASSUME NEW env \in [ConfigKeys -> Texts], NEW values \in [ConfigKeys -> Texts]
  PROVE FromLookup(env, values) \in Loaded
<1> DEFINE cfg == FromLookup(env, values)
<1>1. cfg["MAIN_INTERVAL"] \in Int /\ cfg["STATE_INTERVAL"] \in Int
  BY ConfigRead DEF Durations
<1>2. cfg["NAS_STATE_FILE"] \in Numbers \cup {Garbage, 1}
  <2>1. "NAS_STATE_FILE" \in ConfigKeys /\ "NAS_STATE_FILE" \notin Durations
    BY DEF ConfigKeys, Durations
  <2>2. Lookup(env, values, "NAS_STATE_FILE") \in Numbers \cup {Empty, Garbage}
    BY <2>1, LookedUp
  <2>3. Default["NAS_STATE_FILE"] = 1
    BY DEF Default
  <2> QED
    BY <2>1, <2>2, <2>3 DEF FromLookup
<1>3. cfg = [k \in {"MAIN_INTERVAL", "STATE_INTERVAL", "NAS_STATE_FILE"} |-> cfg[k]]
  BY DEF FromLookup, ConfigKeys, Durations
<1> HIDE DEF cfg
<1>4. cfg = [MAIN_INTERVAL |-> cfg["MAIN_INTERVAL"], STATE_INTERVAL |-> cfg["STATE_INTERVAL"],
             NAS_STATE_FILE |-> cfg["NAS_STATE_FILE"]]
  BY <1>3
<1> QED
  BY <1>1, <1>2, <1>4 DEF Loaded, cfg

\* Who runs has read a configuration, with a positive interval.
Running(cfg) == Runs(cfg) => cfg \in Loaded /\ cfg.MAIN_INTERVAL > 0

LEMMA TickingRuns ==
  ASSUME NEW cfg, cfg = Failed \/ cfg \in Loaded
  PROVE  Running(Ticking(cfg))
<1>1. CASE cfg = Failed
  BY <1>1 DEF Ticking, Running, Runs
<1>2. CASE cfg # Failed
  <2>1. cfg.MAIN_INTERVAL \in Int
    BY <1>2 DEF Loaded
  <2> QED
    BY <1>2, <2>1 DEF Ticking, Running, Runs
<1> QED
  BY <1>1, <1>2

LEMMA LoadIsLoaded ==
  ASSUME ConfigInv, NEW env \in [ConfigKeys -> Texts]
  PROVE  LoadConfig(env) = Failed \/ LoadConfig(env) \in Loaded
BY Loads, ReadIsLoaded

LEMMA ArgumentIsLoaded ==
  ASSUME NEW cfg, cfg = Failed \/ cfg \in Loaded, NEW n \in Numbers
  PROVE  WithArgument(cfg, n) = Failed \/ WithArgument(cfg, n) \in Loaded
<1> DEFINE s == Seconds(IF n > MaxArgument THEN MaxArgument ELSE n)
<1>1. CASE cfg = Failed \/ n < 1
  BY <1>1 DEF WithArgument
<1>2. CASE ~(cfg = Failed \/ n < 1)
  <2>1. s \in Int
    BY ConfigAssumption, SecondsInt
  <2>2. WithArgument(cfg, n) = [cfg EXCEPT !.MAIN_INTERVAL = s]
    BY <1>2 DEF WithArgument
  <2> HIDE DEF s
  <2>3. cfg \in Loaded
    BY <1>2
  <2>4. [cfg EXCEPT !.MAIN_INTERVAL = s] \in Loaded
    BY <2>1, <2>3 DEF Loaded
  <2> QED
    BY <2>2, <2>4
<1> QED
  BY <1>1, <1>2

\* What the types say of the daemon and of the client.
LEMMA ConfigTypesAre ==
  ConfigTypeOK <=>
    /\ envFile = Damaged \/ envFile \in [ConfigKeys -> Texts]
    /\ systemdFile \in [ConfigKeys -> Texts]
    /\ environment = NoEnvironment \/ environment \in [ConfigKeys -> Texts]
    /\ Running(daemonHas) /\ Running(clientHas)
    /\ overrides \subseteq ConfigKeys \cup {"argument"} /\ edits \in 0 .. MaxEdit
    /\ sinceEdit \subseteq {"environment", "daemon", "client"}
BY DEF ConfigTypeOK, Running, Durations

LEMMA ConfigTypeStep ==
  ASSUME ConfigInv, ConfigInv', ConfigTypeOK, [ConfigNext]_configVars PROVE ConfigTypeOK'
<1>1. /\ envFile' = Damaged \/ envFile' \in [ConfigKeys -> Texts]
      /\ systemdFile' \in [ConfigKeys -> Texts]
      /\ environment' = NoEnvironment \/ environment' \in [ConfigKeys -> Texts]
  BY DEF ConfigInv
<1>2. /\ Running(daemonHas) /\ Running(clientHas)
      /\ overrides \subseteq ConfigKeys \cup {"argument"} /\ edits \in 0 .. MaxEdit
      /\ sinceEdit \subseteq {"environment", "daemon", "client"}
  BY ConfigTypesAre
<1>3. /\ sinceEdit' \subseteq {"environment", "daemon", "client"}
      /\ edits' \in 0 .. MaxEdit
  <2>1. sinceEdit' \subseteq {"environment", "daemon", "client"}
    BY <1>2 DEF ConfigNext, Edit, SystemdStarts, DaemonLoads, ClientStarts, configVars
  <2>2. edits' = edits \/ (edits < MaxEdit /\ edits' = edits + 1)
    BY DEF ConfigNext, Edit, SystemdStarts, DaemonLoads, ClientStarts, configVars
  <2> QED
    BY <1>2, <2>1, <2>2, ConfigAssumption
<1>4. Running(daemonHas')
  <2>1. CASE daemonHas' = daemonHas
    BY <1>2, <2>1
  <2>2. CASE daemonHas' = Down
    BY <2>2 DEF Running, Runs
  <2>3. CASE DaemonLoads
    <3>1. environment \in [ConfigKeys -> Texts]
      BY <2>3 DEF DaemonLoads, ConfigInv
    <3>2. daemonHas' = Ticking(LoadConfig(environment))
      BY <2>3 DEF DaemonLoads
    <3>3. LoadConfig(environment) = Failed \/ LoadConfig(environment) \in Loaded
      BY <3>1, LoadIsLoaded
    <3> QED
      BY <3>2, <3>3, TickingRuns
  <2> QED
    BY <2>1, <2>2, <2>3 DEF ConfigNext, Edit, SystemdStarts, ClientStarts, configVars
<1>5. Running(clientHas') /\ overrides' \subseteq ConfigKeys \cup {"argument"}
  <2>1. CASE UNCHANGED <<clientHas, overrides>>
    BY <1>2, <2>1
  <2>2. CASE ClientStarts
    <3>1. PICK k \in ConfigKeys, t \in Texts :
            LET env == [Unset EXCEPT ![k] = t]
                set == IF t = Absent THEN {} ELSE {k}
            IN \/ /\ clientHas' = Ticking(LoadConfig(env))
                  /\ overrides' = set
               \/ \E n \in Numbers :
                    /\ clientHas' = Ticking(WithArgument(LoadConfig(env), n))
                    /\ overrides' = set \cup {"argument"}
      BY <2>2 DEF ClientStarts
    <3> DEFINE cfg == LoadConfig([Unset EXCEPT ![k] = t])
    <3>2. [Unset EXCEPT ![k] = t] \in [ConfigKeys -> Texts]
      BY UnsetText
    <3>3. cfg = Failed \/ cfg \in Loaded
      BY <3>2, LoadIsLoaded
    <3> HIDE DEF cfg
    <3>4. /\ Running(Ticking(cfg))
          /\ \A n \in Numbers :
               Running(Ticking(WithArgument(cfg, n)))
      BY <3>3, ArgumentIsLoaded, TickingRuns
    <3> QED
      BY <3>1, <3>4 DEF cfg
  <2> QED
    BY <2>1, <2>2 DEF ConfigNext, Edit, SystemdStarts, DaemonLoads, configVars
<1> QED
  BY <1>1, <1>3, <1>4, <1>5 DEF ConfigTypeOK, Running, Runs, Durations

\* Whoever runs has integers for intervals, and those it waits for are positive.
THEOREM ConfigTypes == ConfigSpec => []ConfigTypeOK
<1>1. ConfigInit => ConfigTypeOK
  BY UnsetText, ConfigAssumption DEF ConfigInit, ConfigTypeOK, Runs
<1>2. ConfigInv /\ ConfigInv' /\ ConfigTypeOK /\ [ConfigNext]_configVars => ConfigTypeOK'
  BY ConfigTypeStep
<1> QED
  BY <1>1, <1>2, ConfigInvariant, PTL DEF ConfigSpec

-----------------------------------------------------------------------------
(* The parts together *)

\* What the client's run does is, in each part, a behaviour of that part.
THEOREM PartsOfClient ==
  ClientSpec => Spec /\ ViewSpec /\ InputSpec /\ StatusSpec /\ ConfigSpec
<1>1. ClientInit => Init /\ ViewInit /\ InputInit /\ StatusInit /\ ConfigInit
  BY DEF ClientInit
<1>2. [ClientNext]_clientVars =>
        /\ [Next]_vars /\ [ViewNext]_viewVars /\ [InputNext]_inputVars
        /\ [StatusNext]_statusVars /\ [ConfigNext]_configVars
  BY DEF ClientNext, clientVars, ageVars
<1> QED
  BY <1>1, <1>2, PTL DEF ClientSpec, Spec, ViewSpec, InputSpec, StatusSpec, ConfigSpec

\* All variables of the run keep their types.
THEOREM ClientTyped == ClientSpec => []ClientTypes
<1>1. StatusSpec => []StatusTypeOK
  <2>1. StatusInv => StatusTypeOK
    BY DEF StatusInv
  <2> QED
    BY <2>1, StatusInvariant, PTL
<1>2. TypeOK /\ ViewTypeOK /\ InputTypeOK /\ StatusTypeOK /\ ConfigTypeOK => ClientTypes
  BY DEF ClientTypes
<1> QED
  BY <1>1, <1>2, PartsOfClient, AgeTypes, ViewTypes, InputTypes, ConfigTypes, PTL
=============================================================================
