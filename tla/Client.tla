------------------------------- MODULE Client -------------------------------
(***************************************************************************)
(* How a client comes by a snapshot and judges its age: the wait for a     *)
(* first file, a read on every tick, the indicator on every frame; against *)
(* a daemon that publishes, stops, crashes and starts again, and a wall    *)
(* clock that is set forward and back.                                     *)
(*                                                                         *)
(* Stamps are kept as ages, that is relative to the wall clock: a Tick     *)
(* makes every age larger, a Jump shifts them all.  Timers do not jump.    *)
(***************************************************************************)
EXTENDS Integers

CONSTANTS
    DaemonMain,     \* MAIN_INTERVAL of the daemon
    StateInterval,  \* STATE_INTERVAL, the same file for daemon and client
    ClientMain,     \* MainInterval of the client, maybe from its arguments
    RetryEvery,     \* 100 milliseconds
    StartupWait,    \* three seconds
    Late,           \* bound: how late a timer is served
    JumpBy,         \* how far the wall clock is set
    MaxStop,        \* bound: ends of the daemon
    MaxFailure,     \* bound: publications and reads that fail
    MaxJump         \* bound: jumps of the clock

ASSUME ConstAssumption ==
    /\ {DaemonMain, StateInterval, ClientMain, RetryEvery, StartupWait} \subseteq Nat \ {0}
    /\ {Late, JumpBy, MaxStop, MaxFailure, MaxJump} \subseteq Nat

VARIABLES
    daemon,    \* "new", "up" or "down"
    mainDue,   \* time to the next run of the main collector
    flushDue,  \* time to the next tick of publishUpdates
    dirty,     \* publishUpdates' flag, or a ping it will find
    file,      \* the state file: whether it is there, and its age
    had,       \* history: for how long it has been there since a try to read it failed
    client,    \* "off", "starting", "running" or "exited"
    due,       \* time to the client's next retry or tick
    waited,    \* time since it began to wait
    seen,      \* age of lastWrittenAt
    screen,    \* the indicator on the last frame
    stops, failures, jumps

server == <<daemon, mainDue, flushDue, dirty>>
disk == <<file, had>>
viewer == <<client, due, waited, seen, screen>>
counts == <<stops, failures, jumps>>
vars == <<server, disk, viewer, counts>>

\* Faulty variant: the client's own interval is all that counts.
OwnInterval == ClientMain

\* runClient's freshnessInterval
FreshnessInterval == IF StateInterval > ClientMain THEN StateInterval ELSE ClientMain

\* Ages above this are not told apart; no jumps can make them fresh.
Cap == 4 * FreshnessInterval + 4 * DaemonMain + 1 + JumpBy * MaxJump

Older(a) == IF a < Cap THEN a + 1 ELSE a

Init ==
    /\ daemon = "new" /\ mainDue = 0 /\ flushDue = 0 /\ dirty = FALSE
    /\ file = [there |-> FALSE, age |-> 0] /\ had = 0
    /\ client = "off" /\ due = 0 /\ waited = 0 /\ seen = 0 /\ screen = "none"
    /\ stops = 0 /\ failures = 0 /\ jumps = 0

-----------------------------------------------------------------------------
(* Time *)

\* Time passes, but not beyond what a timer may be late.
Tick ==
    /\ daemon = "up" => mainDue > -Late /\ flushDue > -Late
    /\ client \in {"starting", "running"} => due > -Late
    /\ client = "starting" => waited < StartupWait + Late
    /\ IF daemon = "up"
       THEN mainDue' = mainDue - 1 /\ flushDue' = flushDue - 1
       ELSE UNCHANGED <<mainDue, flushDue>>
    /\ file' = IF file.there THEN [file EXCEPT !.age = Older(@)] ELSE file
    /\ had' = IF file.there /\ had < StartupWait THEN had + 1 ELSE had
    /\ due' = IF client \in {"starting", "running"} THEN due - 1 ELSE due
    /\ waited' = IF client = "starting" THEN waited + 1 ELSE waited
    /\ seen' = IF client = "running" THEN Older(seen) ELSE seen
    /\ UNCHANGED <<daemon, dirty, client, screen, counts>>

\* The wall clock is set.
Jump(by) ==
    /\ jumps < MaxJump
    /\ jumps' = jumps + 1
    /\ file' = IF file.there THEN [file EXCEPT !.age = @ + by] ELSE file
    /\ seen' = IF client = "running" THEN seen + by ELSE seen
    /\ UNCHANGED <<server, had, client, due, waited, screen, stops, failures>>

-----------------------------------------------------------------------------
(* The daemon *)

Written == [there |-> TRUE, age |-> 0]

\* main up to publishUpdates: two writes.
Start ==
    /\ daemon # "up"
    /\ daemon' = "up"
    /\ mainDue' = DaemonMain /\ flushDue' = StateInterval /\ dirty' = FALSE
    /\ file' = Written
    /\ UNCHANGED <<had, viewer, counts>>

\* The main collector runs and pings.
Collect ==
    /\ daemon = "up"
    /\ mainDue <= 0
    /\ mainDue' = mainDue + DaemonMain
    /\ dirty' = TRUE
    /\ UNCHANGED <<daemon, flushDue, disk, viewer, counts>>

\* A tick of publishUpdates: what is dirty is published.
Flush ==
    /\ daemon = "up"
    /\ flushDue <= 0
    /\ flushDue' = flushDue + StateInterval
    /\ file' = IF dirty THEN Written ELSE file
    /\ dirty' = FALSE
    /\ UNCHANGED <<daemon, mainDue, had, viewer, counts>>

\* The same with an error: the state stays dirty.
FlushFails ==
    /\ daemon = "up"
    /\ flushDue <= 0
    /\ dirty
    /\ failures < MaxFailure
    /\ failures' = failures + 1
    /\ flushDue' = flushDue + StateInterval
    /\ UNCHANGED <<daemon, mainDue, dirty, disk, viewer, stops, jumps>>

End ==
    /\ daemon = "up"
    /\ stops < MaxStop
    /\ stops' = stops + 1
    /\ daemon' = "down" /\ mainDue' = 0 /\ flushDue' = 0 /\ dirty' = FALSE
    /\ UNCHANGED <<viewer, failures, jumps>>

\* After a signal the state file is removed.
Stop == End /\ file' = [there |-> FALSE, age |-> 0] /\ had' = 0

\* A crash leaves it.
Crash == End /\ UNCHANGED disk

-----------------------------------------------------------------------------
(* The client *)

\* Faulty variant: the mark is set but never cleared.
DrawSticky(age) == screen' = IF screen = "stale" \/ age > 4 * FreshnessInterval
                             THEN "stale" ELSE "fresh"

\* draw, with applyStateFreshness: an age below zero counts as zero.
Draw(age) == screen' = IF age > 4 * FreshnessInterval THEN "stale" ELSE "fresh"

\* A first file has been read: the first frame, and the ticker.
Begin ==
    /\ client' = "running"
    /\ due' = ClientMain
    /\ waited' = 0
    /\ seen' = file.age
    /\ Draw(file.age)

\* ReadState fails: there is no file, or it is not opened or decoded.
Unreadable ==
    /\ file.there => failures < MaxFailure
    /\ failures' = IF file.there THEN failures + 1 ELSE failures

\* readInitialState's first try.
Open ==
    /\ client = "off"
    /\ \/ file.there /\ Begin /\ UNCHANGED <<had, failures>>
       \/ /\ Unreadable
          /\ client' = "starting" /\ due' = RetryEvery /\ had' = 0
          /\ UNCHANGED <<waited, seen, screen>>
    /\ UNCHANGED <<server, file, stops, jumps>>

\* Faulty variant: the file is looked for at the start only.
RetryBlind ==
    /\ client = "starting"
    /\ due <= 0
    /\ due' = due + RetryEvery
    /\ UNCHANGED <<client, waited, seen, screen>>
    /\ UNCHANGED <<server, disk, counts>>

\* readInitialState's ticker.
Retry ==
    /\ client = "starting"
    /\ due <= 0
    /\ \/ file.there /\ Begin /\ UNCHANGED <<had, failures>>
       \/ /\ Unreadable
          /\ due' = due + RetryEvery /\ had' = 0
          /\ UNCHANGED <<client, waited, seen, screen>>
    /\ UNCHANGED <<server, file, stops, jumps>>

\* readInitialState's timer, which select may prefer to the ticker.
GiveUp ==
    /\ client = "starting"
    /\ waited >= StartupWait
    /\ client' = "exited" /\ due' = 0 /\ waited' = 0
    /\ UNCHANGED <<seen, screen, server, disk, counts>>

\* A tick of the client: a new file replaces the snapshot.
ReadState ==
    /\ client = "running"
    /\ due <= 0
    /\ file.there
    /\ due' = due + ClientMain
    /\ seen' = file.age
    /\ Draw(seen')
    /\ UNCHANGED <<client, waited, server, disk, counts>>

\* Without one the old snapshot is drawn again.
ReadFails ==
    /\ client = "running"
    /\ due <= 0
    /\ Unreadable
    /\ due' = due + ClientMain
    /\ Draw(seen)
    /\ UNCHANGED <<client, waited, seen, server, disk, stops, jumps>>

\* A key or a change of the terminal's size: a frame between two ticks.
Redraw ==
    /\ client = "running"
    /\ Draw(seen)
    /\ UNCHANGED <<client, due, waited, seen, server, disk, counts>>

-----------------------------------------------------------------------------

Clock == Tick \/ Jump(JumpBy) \/ Jump(-JumpBy)

Publish == Collect \/ Flush \/ FlushFails

Daemon == Start \/ Publish \/ Stop \/ Crash

Wait == Retry \/ GiveUp

Refresh == ReadState \/ ReadFails

Viewer == Open \/ Wait \/ Refresh \/ Redraw

Next == Clock \/ Daemon \/ Viewer

Spec == Init /\ [][Next]_vars

\* Time passes; timers that have fired are served.  Nothing makes a daemon
\* start or end, or a client be opened.
FairSpec == /\ Spec
            /\ WF_vars(Tick) /\ WF_vars(Wait) /\ WF_vars(Refresh)
            /\ WF_vars(Collect) /\ WF_vars(Flush)

-----------------------------------------------------------------------------
(* Properties *)

\* The types of the variables.
TypeOK ==
    /\ daemon \in {"new", "up", "down"}
    /\ mainDue \in Int /\ flushDue \in Int /\ dirty \in BOOLEAN
    /\ file \in [there : BOOLEAN, age : Int] /\ had \in 0 .. StartupWait
    /\ client \in {"off", "starting", "running", "exited"}
    /\ due \in Int /\ waited \in Nat /\ seen \in Int
    /\ screen \in {"none", "fresh", "stale"}
    /\ stops \in Nat /\ failures \in Nat /\ jumps \in Nat
    /\ client = "running" <=> screen # "none"
    /\ waited > 0 => client = "starting"

\* The state on which doctor warns that the file is stale.
DoctorStale == file.there /\ file.age > 4 * DaemonMain

\* A daemon that lives and publishes as it should is never shown as stale,
\* whenever the client reads and redraws, although it publishes in its own
\* time and a publication may fail.  Nor does doctor (README: it checks
\* "freshness/readability of the daemon state file") call its file stale, as
\* long as StateInterval is so small that an update that misses one tick, and
\* timers that are late, fit into four main intervals.
LivingNotStale ==
    stops = 0 /\ jumps = 0 =>
        /\ screen # "stale"
        /\ failures = 0 /\ StateInterval + DaemonMain + 2 * Late <= 4 * DaemonMain =>
               ~ DoctorStale

\* A client that gives up has had no file to read, but for the time between
\* its last try, which may have failed with the file there, and the end of its
\* wait.
GivesUpWithoutFile ==
    [][client = "starting" /\ client' = "exited" => had <= RetryEvery + Late]_vars

\* A daemon that is gone comes to be shown as stale, whether its file is left
\* or removed and however the clock was set, and stays so; one that stays up
\* comes to be shown as fresh, whatever was before.
IndicatorTrue ==
    /\ <>[](daemon = "down") => <>[](client = "running" => screen = "stale")
    /\ <>[](daemon = "up") => <>[](client = "running" => screen = "fresh")
=============================================================================
