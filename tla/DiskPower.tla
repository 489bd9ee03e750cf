----------------------------- MODULE DiskPower -----------------------------
(***************************************************************************)
(* How hdparm and smartctl are run for a disk: directly, then through sudo,*)
(* smartctl once more with "-d sat" behind a USB bridge, each command with *)
(* a timeout, and hdparm with a pause after sudo has been refused.         *)
(*                                                                         *)
(* What a command prints is a word for how the code takes it: "ok" a power *)
(* state or a report, "denied" no permission, "refused" no sudo, "bridge"  *)
(* a request for -d sat, "error" anything else.                            *)
(***************************************************************************)
EXTENDS Integers

CONSTANTS
  PowerDisks,   \* the rotational disks
  Bridged,      \* those behind a USB bridge that wants -d sat
  NoDisk,
  Timeout,      \* externalCommandTimeout
  PollEvery,    \* the collectors' interval
  Backoff,      \* diskPowerSudoBackoff
  MaxChange,    \* bound: changes of permissions
  MaxError      \* bound: commands that fail or hang

ASSUME PowerAssumption ==
  /\ Bridged \subseteq PowerDisks /\ NoDisk \notin PowerDisks
  /\ Timeout \in Nat \ {0} /\ PollEvery \in Nat \ {0} /\ Backoff \in Nat
  /\ MaxChange \in Nat /\ MaxError \in Nat

VARIABLES
  rights,     \* what works: "direct" access, "sudo", or "none"
  asleep,     \* the disks in standby
  poll,       \* time to the next run
  tool,       \* of the run: "hdparm" or "smartctl", which take turns here
  todo, disk, \* the disks still to ask, the one being asked
  stage,      \* its command: "direct", "sudo", "sat", "satSudo", or "idle"
  spent,      \* how long it runs
  orphan,     \* it was killed, and a child of it holds the pipe
  pause,      \* diskPowerRetryAfter, from now; -1: past or not set
  read,       \* the power states of this run
  sleeping,   \* what mergePowerHealth has stored
  reported,   \* disks whose last smartctl run gave a report
  changes, errors,
  refusedAt,  \* history: time since sudo was last refused to hdparm
  took        \* history: time spent on this disk without orphans

machineVars == <<rights, asleep, changes>>
command == <<stage, spent, orphan>>
powerVars == <<machineVars, poll, tool, todo, disk, command, pause, read, sleeping,
               reported, errors, refusedAt, took>>

PowerInit ==
  /\ rights \in {"direct", "sudo", "none"} /\ asleep = {}
  /\ poll = 0 /\ tool \in {"hdparm", "smartctl"} /\ todo = {} /\ disk = NoDisk
  /\ stage = "idle" /\ spent = 0 /\ orphan = FALSE
  /\ pause = [d \in PowerDisks |-> -1]
  /\ read = <<>> /\ sleeping = <<>> /\ reported = {}
  /\ changes = 0 /\ errors = 0
  /\ refusedAt = [d \in PowerDisks |-> Backoff + 1] /\ took = 0

-----------------------------------------------------------------------------
(* The machine *)

\* sudoers or group memberships are edited, a disk goes to sleep or wakes up.
Alter ==
  /\ changes < MaxChange
  /\ changes' = changes + 1
  /\ \/ rights' \in {"direct", "sudo", "none"} \ {rights} /\ UNCHANGED asleep
     \/ /\ \E d \in PowerDisks : asleep' \in {asleep \cup {d}, asleep \ {d}}
        /\ UNCHANGED rights
  /\ UNCHANGED <<poll, tool, todo, disk, command, pause, read, sleeping, reported, errors,
                 refusedAt, took>>

\* What the command of a stage prints.
Output(s, d) ==
  IF s \in {"direct", "sat"} /\ rights # "direct" THEN "denied"
  ELSE IF s \in {"sudo", "satSudo"} /\ rights = "none" THEN "refused"
  ELSE IF tool = "smartctl" /\ d \in Bridged /\ s \in {"direct", "sudo"} THEN "bridge"
  ELSE "ok"

\* A command is killed when its time is up.
MayPass == stage # "idle" => spent < Timeout \/ orphan

Pass ==
  /\ MayPass
  /\ stage = "idle" => poll > 0
  /\ poll' = IF poll > 0 THEN poll - 1 ELSE 0
  /\ pause' = [d \in PowerDisks |-> IF pause[d] >= 0 THEN pause[d] - 1 ELSE -1]
  /\ refusedAt' = [d \in PowerDisks |->
                     IF refusedAt[d] <= Backoff THEN refusedAt[d] + 1 ELSE refusedAt[d]]
  /\ spent' = IF stage # "idle" /\ ~orphan THEN spent + 1 ELSE spent
  /\ took' = IF stage # "idle" /\ ~orphan THEN took + 1 ELSE took
  /\ UNCHANGED <<machineVars, tool, todo, disk, stage, orphan, read, sleeping, reported,
                 errors>>

-----------------------------------------------------------------------------
(* The collectors *)

\* A ticker: all disks are asked, one after the other.
StartRun ==
  /\ poll = 0 /\ stage = "idle" /\ todo = {}
  /\ todo' = PowerDisks /\ poll' = PollEvery
  /\ tool' = IF tool = "hdparm" THEN "smartctl" ELSE "hdparm"
  /\ UNCHANGED <<machineVars, disk, command, pause, read, sleeping, reported, errors,
                 refusedAt, took>>

Ask(d) ==
  /\ stage = "idle" /\ d \in todo
  /\ todo' = todo \ {d} /\ disk' = d /\ stage' = "direct" /\ spent' = 0
  /\ UNCHANGED <<machineVars, poll, tool, orphan, pause, read, sleeping, reported, errors,
                 refusedAt, took>>

\* diskPowerRetryAllowed
RetryAllowed(d) == pause[d] < 0

\* Faulty variant: -d sat is not tried through sudo.
NextCommandNoSatSudo(out) ==
  IF stage = "direct" /\ out = "denied" /\ (tool = "hdparm" => RetryAllowed(disk)) THEN "sudo"
  ELSE IF tool = "smartctl" /\ stage \in {"direct", "sudo"} /\ out = "bridge" THEN "sat"
  ELSE "idle"

\* diskPowerState, and smartctl over runSmartctl: the command that follows.
NextCommand(out) ==
  IF stage = "direct" /\ out = "denied" /\ (tool = "hdparm" => RetryAllowed(disk)) THEN "sudo"
  ELSE IF stage = "sat" /\ out = "denied" THEN "satSudo"
  ELSE IF tool = "smartctl" /\ stage \in {"direct", "sudo"} /\ out = "bridge" THEN "sat"
  ELSE "idle"

\* Faulty variant: every try but a refused one ends it.
PauseCleared(out) ==
  IF tool = "hdparm" THEN [pause EXCEPT ![disk] = IF out = "refused" THEN Backoff ELSE -1]
  ELSE pause

\* setDiskPowerRetryBackoff and clearDiskPowerRetryBackoff
NextPause(out) ==
  IF stage = "sudo" /\ tool = "hdparm" /\ out \in {"refused", "ok"}
  THEN [pause EXCEPT ![disk] = IF out = "refused" THEN Backoff ELSE -1]
  ELSE pause

\* The command has ended and printed out: the next one, or the disk's result;
\* after the last disk the updates are merged.
Take(out) ==
  LET got == IF tool = "hdparm" /\ out = "ok"
             THEN [d \in DOMAIN read \cup {disk} |->
                     IF d = disk THEN disk \in asleep ELSE read[d]]
             ELSE read
      next == NextCommand(out)
      last == next = "idle" /\ todo = {}
  IN /\ stage' = next /\ spent' = 0 /\ orphan' = FALSE
     /\ disk' = IF next = "idle" THEN NoDisk ELSE disk
     /\ pause' = NextPause(out)
     /\ refusedAt' = IF stage = "sudo" /\ tool = "hdparm" /\ out = "refused"
                     THEN [refusedAt EXCEPT ![disk] = 0] ELSE refusedAt
     /\ read' = IF last THEN <<>> ELSE got
     /\ sleeping' = IF last
                    THEN [d \in DOMAIN got \cup DOMAIN sleeping |->
                            IF d \in DOMAIN got THEN got[d] ELSE sleeping[d]]
                    ELSE sleeping
     /\ reported' = IF tool = "smartctl" /\ next = "idle"
                    THEN IF out = "ok" THEN reported \cup {disk} ELSE reported \ {disk}
                    ELSE reported
     /\ took' = IF next = "idle" THEN 0 ELSE took
     /\ UNCHANGED <<machineVars, poll, tool, todo>>

Answer ==
  /\ stage # "idle" /\ ~orphan
  /\ Take(Output(stage, disk))
  /\ UNCHANGED errors

\* It fails in another way, or is killed at its timeout and leaves nothing.
Fail ==
  /\ stage # "idle" /\ ~orphan
  /\ errors < MaxError
  /\ errors' = errors + 1
  /\ Take("error")

\* Killed, but a child of it (sudo's, for example) still has the pipe open:
\* CombinedOutput waits for it.
Kill ==
  /\ stage # "idle" /\ ~orphan /\ spent = Timeout
  /\ errors < MaxError
  /\ errors' = errors + 1
  /\ orphan' = TRUE
  /\ UNCHANGED <<machineVars, poll, tool, todo, disk, stage, spent, pause, read, sleeping,
                 reported, refusedAt, took>>

OrphanEnds ==
  /\ orphan
  /\ Take("error")
  /\ UNCHANGED errors

PowerNext ==
  \/ Alter \/ Pass \/ StartRun \/ (\E d \in PowerDisks : Ask(d))
  \/ Answer \/ Fail \/ Kill \/ OrphanEnds

PowerSpec == PowerInit /\ [][PowerNext]_powerVars

\* Time passes, tickers fire, and a command ends: by itself, or because it is
\* killed; a child that holds the pipe ends too, some day.
FairPowerSpec ==
  /\ PowerSpec
  /\ WF_powerVars(Pass) /\ WF_powerVars(StartRun)
  /\ WF_powerVars(\E d \in PowerDisks : Ask(d))
  /\ WF_powerVars(Answer \/ Fail) /\ WF_powerVars(OrphanEnds)

-----------------------------------------------------------------------------
(* Properties *)

\* The types of the variables.
PowerTypeOK ==
  /\ rights \in {"direct", "sudo", "none"} /\ asleep \subseteq PowerDisks
  /\ poll \in 0 .. PollEvery /\ tool \in {"hdparm", "smartctl"}
  /\ todo \subseteq PowerDisks /\ disk \in PowerDisks \cup {NoDisk}
  /\ stage \in {"idle", "direct", "sudo", "sat", "satSudo"}
  /\ disk = NoDisk <=> stage = "idle"
  /\ spent \in Nat /\ took \in Nat /\ orphan \in BOOLEAN
  /\ pause \in [PowerDisks -> -1 .. Backoff]
  /\ DOMAIN read \subseteq PowerDisks /\ DOMAIN sleeping \subseteq PowerDisks
  /\ reported \subseteq PowerDisks

\* A disk keeps its collector for four commands at most (two of hdparm), each
\* no longer than the timeout, not counting what a killed one's child takes; and
\* (README.md:233) "further sudo attempts for that device are suppressed for 10
\* minutes before retrying", whatever other disks and runs did meanwhile.
TimesKept ==
  /\ [](took <= (IF tool = "hdparm" THEN 2 ELSE 4) * Timeout)
  /\ [][tool = "hdparm" /\ stage # "sudo" /\ stage' = "sudo" =>
           refusedAt[disk] > Backoff]_powerVars

\* Permissions that come back are found out: with direct access or sudo every
\* disk's power state comes to be shown as it is, and smartctl to give a report
\* on every disk, also behind a bridge; and it stays so.
ReportsReturn ==
  <>[](rights # "none" =>
         /\ DOMAIN sleeping = PowerDisks
         /\ \A d \in PowerDisks : sleeping[d] = (d \in asleep)
         /\ reported = PowerDisks)
=============================================================================
