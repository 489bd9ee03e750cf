------------------------------- MODULE Status -------------------------------
(***************************************************************************)
(* What is shown of a collector that fails (recordCollector, collectDiskTemps, *)
(* collectorIssue): the times of its last attempt and last success go from *)
(* the store to the state file with the daemon's next publication, and from *)
(* there to a client with its next read; the client judges its copy, which *)
(* is older than the store, by the wall clock.                             *)
(*                                                                         *)
(* Times are kept as ages by that clock: when time passes they grow, and   *)
(* when the clock is set they shift, in every copy.                        *)
(***************************************************************************)
EXTENDS Integers

CONSTANTS
  Interval,   \* of the collector
  RunMax,     \* bound: how long a run takes
  PublishMax, \* bound: how long an update waits for the file, failed writes included
  ReadMax,    \* bound: how long a file waits for the client, failed reads included
  ClockBy,    \* how far the clock is set
  MaxSet,     \* bound: how often
  Never       \* the zero time

ASSUME StatusAssumption ==
  /\ Interval \in Nat \ {0} /\ RunMax \in Nat \ {0}
  /\ PublishMax \in Nat \ {0} /\ ReadMax \in Nat \ {0}
  /\ ClockBy \in Nat /\ MaxSet \in Nat
  /\ Never \notin Int

VARIABLES
  present,   \* there are devices; for the other collectors: a helper, always
  working,   \* commands succeed
  status,    \* the CollectorStatus in the store; .ran and .set are history: how the
             \* last run ended, how the clock was set since the last success
  published, \* the one in the state file
  display,   \* the one the client judges
  behind,    \* how long ago the first update was that the file does not have
  unread,    \* how long ago the first write was that the client has not read
  nextTick,  \* of the ticker
  run,       \* "none", or what it has found: "off", "success", "failure"
  ranFor,
  clockSet,  \* how often the clock was set
  recordedFor  \* history: how long ago the last run was recorded

runVars == <<nextTick, run, ranFor>>
copyVars == <<published, display, behind, unread>>
statusVars == <<present, working, status, copyVars, runVars, clockSet, recordedFor>>

Off == [enabled |-> FALSE, attempt |-> Never, success |-> Never]

With(s, ran, set) ==
  [enabled |-> s.enabled, attempt |-> s.attempt, success |-> s.success, ran |-> ran, set |-> set]

StatusInit ==
  /\ present \in BOOLEAN /\ working \in BOOLEAN
  /\ status = With(Off, "none", {}) /\ published = status /\ display = status
  /\ behind = 0 /\ unread = 0
  /\ nextTick = 0 /\ run = "none" /\ ranFor = 0
  /\ clockSet = 0 /\ recordedFor = 0

\* Ages above this are not told apart, nor can jumps make them so.
Oldest == 4 * Interval + 1 + 2 * ClockBy * MaxSet

Shift(t, by) == IF t = Never THEN Never ELSE IF t + by > Oldest THEN Oldest ELSE t + by

Shifted(s, by) == [s EXCEPT !.attempt = Shift(@, by), !.success = Shift(@, by)]

\* A copy when the clock is set.
Set(s, by) ==
  [Shifted(s, by) EXCEPT !.set = @ \cup {IF by < 0 THEN "back" ELSE "forward"}]

\* Disks are mounted and unmounted; commands begin to fail, or to succeed.
World ==
  /\ \/ present' = ~present /\ UNCHANGED working
     \/ working' = ~working /\ UNCHANGED present
  /\ UNCHANGED <<status, copyVars, runVars, clockSet, recordedFor>>

TimePasses ==
  /\ IF run = "none" THEN nextTick > 0 ELSE ranFor < RunMax
  /\ published # status => behind < PublishMax
  /\ display # published => unread < ReadMax
  /\ status' = Shifted(status, 1)
  /\ published' = Shifted(published, 1)
  /\ display' = Shifted(display, 1)
  /\ behind' = IF published = status THEN 0 ELSE behind + 1
  /\ unread' = IF display = published THEN 0 ELSE unread + 1
  /\ recordedFor' = IF recordedFor > PublishMax + ReadMax THEN recordedFor ELSE recordedFor + 1
  /\ nextTick' = IF nextTick > 0 THEN nextTick - 1 ELSE 0
  /\ ranFor' = IF run = "none" THEN 0 ELSE ranFor + 1
  /\ UNCHANGED <<present, working, run, clockSet>>

SetClock(by) ==
  /\ clockSet < MaxSet
  /\ clockSet' = clockSet + 1
  /\ status' = Set(status, by) /\ published' = Set(published, by) /\ display' = Set(display, by)
  /\ UNCHANGED <<present, working, behind, unread, runVars, recordedFor>>

\* collectDiskTemps, collectSMART, collectGPU up to the end of their
\* commands.  Of the ticks that pass in a run, one is kept.
BeginRun ==
  /\ run = "none" /\ nextTick = 0
  /\ run' = IF ~present THEN "off" ELSE IF working THEN "success" ELSE "failure"
  /\ nextTick' = Interval /\ ranFor' = 0
  /\ UNCHANGED <<present, working, status, copyVars, clockSet, recordedFor>>

\* Faulty variant: without devices there is nothing to record.
RecordEnabled ==
  IF run = "off" THEN status
  ELSE [enabled |-> TRUE, attempt |-> 0,
        success |-> IF run = "success" THEN 0 ELSE status.success]

\* Faulty variant: what failed is not recorded.
RecordSuccess ==
  CASE run = "off" -> Off
    [] run = "success" -> [enabled |-> TRUE, attempt |-> 0, success |-> 0]
    [] OTHER -> [status EXCEPT !.enabled = TRUE]

\* recordCollector's update
Recorded ==
  IF run = "off" THEN Off
  ELSE [enabled |-> TRUE, attempt |-> 0,
        success |-> IF run = "success" THEN 0 ELSE status.success]

RecordCollector ==
  /\ run # "none" /\ ranFor > 0
  /\ status' = With(Recorded, run, IF run = "failure" THEN status.set ELSE {})
  /\ behind' = IF published = status THEN 0 ELSE behind
  /\ recordedFor' = 0
  /\ run' = "none" /\ ranFor' = 0
  /\ UNCHANGED <<present, working, published, display, unread, nextTick, clockSet>>

\* publishUpdates: a tick that finds the store updated writes the file.
PublishStatus ==
  /\ published # status
  /\ published' = status /\ behind' = 0
  /\ unread' = IF display = published THEN 0 ELSE unread
  /\ UNCHANGED <<present, working, status, display, runVars, clockSet, recordedFor>>

\* A tick of runClient: the file is read and drawn.
ReadStatus ==
  /\ display # published
  /\ display' = published /\ unread' = 0
  /\ UNCHANGED <<present, working, status, published, behind, runVars, clockSet, recordedFor>>

\* collectorIssue
Issue(s) ==
  IF ~s.enabled \/ s.attempt = Never THEN "none"
  ELSE IF s.success = Never THEN "unavailable"
  ELSE IF s.success > 4 * Interval THEN "stale"
  ELSE IF s.attempt < s.success THEN "error"
  ELSE "none"

StatusNext ==
  \/ World \/ TimePasses \/ SetClock(ClockBy) \/ SetClock(-ClockBy)
  \/ BeginRun \/ RecordCollector \/ PublishStatus \/ ReadStatus

StatusSpec == StatusInit /\ [][StatusNext]_statusVars

\* Time passes, tickers fire, and runs end: commands have a timeout.  Not every
\* write of the file and not every read of it fails.
FairStatusSpec ==
  /\ StatusSpec
  /\ WF_statusVars(TimePasses) /\ WF_statusVars(BeginRun) /\ WF_statusVars(RecordCollector)
  /\ WF_statusVars(PublishStatus) /\ WF_statusVars(ReadStatus)

-----------------------------------------------------------------------------
(* Properties *)

CopyTypeOK(s) ==
  /\ s \in [enabled : BOOLEAN, attempt : Int \cup {Never}, success : Int \cup {Never},
             ran : {"none", "off", "success", "failure"}, set : SUBSET {"back", "forward"}]
  /\ ~s.enabled => s.attempt = Never /\ s.success = Never

\* The types of the variables; a collector that is off has no times.
StatusTypeOK ==
  /\ present \in BOOLEAN /\ working \in BOOLEAN
  /\ CopyTypeOK(status) /\ CopyTypeOK(published) /\ CopyTypeOK(display)
  /\ behind \in 0 .. PublishMax /\ unread \in 0 .. ReadMax
  /\ nextTick \in 0 .. Interval /\ run \in {"none", "off", "success", "failure"}
  /\ ranFor \in 0 .. RunMax /\ clockSet \in 0 .. MaxSet
  /\ recordedFor \in 0 .. PublishMax + ReadMax + 1

\* Four intervals are enough for the time to the next tick, its run, the
\* publication and the read.
Prompt == Interval + RunMax + PublishMax + ReadMax <= 4 * Interval

\* What is shown is how a run ended, and the last one unless it was recorded so
\* lately that the daemon has still to publish it or the client to read it: a
\* failure as an issue, unless the clock was set back since the last success, which
\* hides it for a while; a success as none, unless the clock was set forward or the
\* way to the screen takes too long for four intervals.
IssueOfLastRun ==
  /\ recordedFor > PublishMax + ReadMax => display = status
  /\ display.ran = "failure" /\ "back" \notin display.set => Issue(display) # "none"
  /\ display.ran = "success" /\ "forward" \notin display.set /\ Prompt =>
       Issue(display) = "none"
  /\ display.ran = "off" => Issue(display) = "none"

\* A collector that goes on failing comes to be shown as stale or unavailable
\* however the clock was set, and stays so; one that works again, or has nothing
\* to do any more, comes to be shown without an issue.
IssueComesTrue ==
  /\ <>[](present /\ ~working) => <>[](Issue(display) \in {"stale", "unavailable"})
  /\ Prompt /\ <>[](present /\ working) => <>[](Issue(display) = "none")
  /\ <>[]~present => <>[](Issue(display) = "none")
=============================================================================
