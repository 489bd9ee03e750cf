---------------------------- MODULE DiskActivity ----------------------------
(***************************************************************************)
(* Disk throughput and quiet disks (internal/collect/diskstats_combined.go,*)
(* shouldPollDisk): one sample of /proc/diskstats per main interval feeds  *)
(* both, while mounts come and go and reads fail.                          *)
(*                                                                         *)
(* Times are relative to now; read and written sectors are one counter.    *)
(* The baseline of the throughput is kept with the devices it is a sum     *)
(* over, of which the code knows only the sum.                             *)
(***************************************************************************)
EXTENDS Integers, FiniteSets

CONSTANTS
  Disks,        \* rotational disks
  Removable,    \* those that are plugged in and out
  NoDisks,      \* no run, no baseline
  Period,       \* MainInterval
  QuietWindow,  \* DISK_QUIET_WINDOW
  MaxIO,        \* bound: I/O of all disks together
  MaxPlug,      \* bound: disks plugged in or out
  MaxMissed     \* bound: samples that fail

ASSUME ActAssumption ==
  /\ IsFiniteSet(Disks) /\ Removable \subseteq Disks
  /\ \A S \in SUBSET Disks : S # NoDisks
  /\ {Period, QuietWindow} \subseteq Nat \ {0} /\ MaxIO \in Nat /\ MaxPlug \in Nat
  /\ MaxMissed \in Nat

VARIABLES
  inStats,     \* the disks in /proc/diskstats
  sectors,     \* their counters, 0 for the others
  devices,     \* DiskCollector.devices
  sampling,    \* the main collector's copy of it, in a run
  baseline,    \* whose sum is prevRead + prevWrite; NoDisks: prevAt is zero
  activity,    \* diskActivity: [sectors, age], for the disks it has
  nextRun,     \* time to the next run
  missed,      \* samples that failed
  moved,       \* history: sectors moved since the last sample or restart
  plugs,       \* disks plugged in or out so far
  idle,        \* history: time since each disk's last I/O, 0 if it is not there
  listed,      \* history: how long it has been there and on the list
  restarted    \* history: disks that have been away since their entry changed

actMachine == <<inStats, sectors, moved, plugs>>
actState == <<devices, sampling, baseline, activity, nextRun, missed>>
actVars == <<actMachine, actState, idle, listed, restarted>>

\* How late the end of the quiet window is noticed at most.
Lag == Period * (1 + MaxMissed)

Aged(t) == IF t < QuietWindow + Lag THEN t + 1 ELSE t

ActInit ==
  /\ \E present \in SUBSET Removable : inStats = (Disks \ Removable) \cup present
  /\ devices \in SUBSET inStats
  /\ sectors = [d \in Disks |-> 0] /\ moved = [d \in Disks |-> 0]
  /\ sampling = NoDisks /\ baseline = NoDisks /\ activity = <<>>
  /\ nextRun = 0 /\ missed = 0 /\ idle = [d \in Disks |-> 0] /\ listed = [d \in Disks |-> 0]
  /\ restarted = {} /\ plugs = 0

\* The sectors of a sample, one by one.
SectorsOf(sample) == UNION {{d} \X (1 .. sample[d]) : d \in DOMAIN sample}

SumOf(sample) == Cardinality(SectorsOf(sample))

-----------------------------------------------------------------------------
(* The machine *)

IO(d) ==
  /\ d \in inStats /\ SumOf(sectors) < MaxIO
  /\ sectors' = [sectors EXCEPT ![d] = @ + 1]
  /\ moved' = [moved EXCEPT ![d] = @ + 1]
  /\ idle' = [idle EXCEPT ![d] = 0]
  /\ UNCHANGED <<inStats, plugs, actState, listed, restarted>>

\* A disk is pulled out, and its counters are gone.
Pull(d) ==
  /\ d \in inStats /\ plugs < MaxPlug
  /\ plugs' = plugs + 1
  /\ inStats' = inStats \ {d}
  /\ sectors' = [sectors EXCEPT ![d] = 0] /\ moved' = [moved EXCEPT ![d] = 0]
  /\ idle' = [idle EXCEPT ![d] = 0] /\ listed' = [listed EXCEPT ![d] = 0]
  /\ restarted' = restarted \cup {d}
  /\ UNCHANGED actState

\* One is plugged in, perhaps again: the kernel counts from zero, and reads it.
Plug(d) ==
  /\ d \notin inStats /\ plugs < MaxPlug /\ SumOf(sectors) < MaxIO
  /\ plugs' = plugs + 1
  /\ inStats' = inStats \cup {d}
  /\ sectors' = [sectors EXCEPT ![d] = @ + 1] /\ moved' = [moved EXCEPT ![d] = @ + 1]
  /\ UNCHANGED <<actState, idle, listed, restarted>>

\* Time passes between runs; a run is on time.
Elapse ==
  /\ nextRun > 0 /\ sampling = NoDisks
  /\ nextRun' = nextRun - 1
  /\ activity' = [d \in DOMAIN activity |-> [activity[d] EXCEPT !.age = Aged(@)]]
  /\ idle' = [d \in Disks |-> IF d \in inStats THEN Aged(idle[d]) ELSE 0]
  /\ listed' = [d \in Disks |->
                  IF d \in devices \cap inStats THEN Aged(listed[d]) ELSE 0]
  /\ UNCHANGED <<actMachine, devices, sampling, baseline, missed, restarted>>

-----------------------------------------------------------------------------
(* The collectors *)

\* CollectUsage, in the disk goroutine, puts another list in place.
StoreDevices ==
  /\ devices' \in SUBSET inStats
  /\ listed' = [d \in Disks |-> IF d \in devices' THEN listed[d] ELSE 0]
  /\ UNCHANGED <<actMachine, idle, restarted, sampling, baseline, activity, nextRun, missed>>

\* Faulty variant: it goes on without devices.
TakeAnyway ==
  /\ nextRun = 0 /\ sampling = NoDisks
  /\ sampling' = devices /\ nextRun' = Period
  /\ UNCHANGED <<actMachine, devices, baseline, activity, missed, idle, listed, restarted>>

\* CollectIOAndActivity copies the list; without devices it returns.
TakeDevices ==
  /\ nextRun = 0 /\ sampling = NoDisks
  /\ sampling' = IF devices = {} THEN NoDisks ELSE devices
  /\ nextRun' = Period
  /\ UNCHANGED <<actMachine, devices, baseline, activity, missed, idle, listed, restarted>>

\* readDiskSectorCounters
Current(devs) == [d \in devs \cap inStats |-> sectors[d]]

\* The sectors in updateIOFromCounters' rates: never less than none.
Rate(sample) ==
  IF SumOf(sample) > SumOf(baseline) THEN SumOf(sample) - SumOf(baseline) ELSE 0

\* Faulty variant: nothing but growth moves the baseline.
BaselineGrows(sample) ==
  IF baseline # NoDisks /\ SumOf(sample) <= SumOf(baseline) THEN baseline ELSE sample

NextBaseline(sample) == sample

\* updateDiskActivityFromCounters: a new disk counts as active; one that has
\* no counters keeps its entry, one that is not on the list loses it.
Seen(devs, sample) ==
  [d \in DOMAIN sample \cup (DOMAIN activity \cap devs) |->
     IF d \notin DOMAIN sample THEN activity[d]
     ELSE IF d \in DOMAIN activity /\ activity[d].sectors = sample[d] THEN activity[d]
     ELSE [sectors |-> sample[d], age |-> 0]]

Sample ==
  /\ sampling # NoDisks
  /\ LET sample == Current(sampling) IN
       /\ baseline' = NextBaseline(sample)
       /\ activity' = Seen(sampling, sample)
  /\ sampling' = NoDisks
  /\ moved' = [d \in Disks |-> 0]
  /\ restarted' = {d \in restarted \cap DOMAIN activity :
                     d \in DOMAIN activity' /\ activity'[d] = activity[d]}
  /\ UNCHANGED <<inStats, sectors, plugs, devices, nextRun, missed, idle, listed>>

\* /proc/diskstats cannot be read: both baselines stay.
SampleFails ==
  /\ sampling # NoDisks
  /\ missed < MaxMissed
  /\ missed' = missed + 1
  /\ sampling' = NoDisks
  /\ UNCHANGED <<actMachine, devices, baseline, activity, nextRun, idle, listed, restarted>>

\* Faulty variant: a window ends a tick early.
PollShort(d) == d \in DOMAIN activity => activity[d].age < QuietWindow - 1

\* shouldPollDisk of a rotational disk.
ShouldPollDisk(d) == d \in DOMAIN activity => activity[d].age < QuietWindow

ActNext ==
  \/ \E d \in Disks : IO(d)
  \/ \E d \in Removable : Pull(d) \/ Plug(d)
  \/ Elapse \/ StoreDevices \/ TakeDevices \/ Sample \/ SampleFails

ActSpec == ActInit /\ [][ActNext]_actVars

-----------------------------------------------------------------------------
(* Properties *)

\* The types of the variables.
ActTypeOK ==
  /\ inStats \subseteq Disks /\ devices \subseteq Disks
  /\ sectors \in [Disks -> 0 .. MaxIO] /\ moved \in [Disks -> 0 .. MaxIO]
  /\ sampling = NoDisks \/ sampling \in (SUBSET Disks) \ {{}}
  /\ baseline # NoDisks =>
       /\ DOMAIN baseline \subseteq Disks
       /\ \A d \in DOMAIN baseline : baseline[d] \in 0 .. MaxIO
  /\ DOMAIN activity \subseteq Disks
  /\ \A d \in DOMAIN activity : activity[d].age \in Nat /\ activity[d].sectors \in Nat
  /\ nextRun \in 0 .. Period /\ missed \in 0 .. MaxMissed
  /\ idle \in [Disks -> Nat] /\ listed \in [Disks -> Nat] /\ restarted \subseteq Disks
  /\ plugs \in 0 .. MaxPlug

\* README.md:225 "the last real block I/O before SMART/temperature polling is
\* suppressed": a disk whose last I/O is not longer ago than the window is
\* polled, whatever mounts, failed samples and other disks did in between; only
\* I/O that no sample has seen yet does not count, nor that of a disk plugged in
\* again as long as its new counters happen to be the old ones.  And a disk that
\* has stayed on the list without I/O for the window, and for the samples it
\* takes to notice, is left alone until it has I/O again.
PolledWhileActive ==
  /\ \A d \in inStats \ restarted :
       /\ idle[d] < QuietWindow
       /\ d \in DOMAIN activity => activity[d].sectors = sectors[d]
       => ShouldPollDisk(d)
  /\ \A d \in devices \cap inStats :
       /\ idle[d] >= QuietWindow + Lag /\ listed[d] >= QuietWindow + Lag
       => ~ShouldPollDisk(d)

\* The rate shown is what the disks have moved since the last sample, failed
\* ones in between included, if it is of the same disks; a change of the list
\* falsifies it for that one sample only.  A disk plugged in again in between,
\* whose counters restart below the baseline, can only make it too low.
RateTrue ==
  sampling # NoDisks /\ baseline # NoDisks =>
    LET sample == Current(sampling)
        sum == SumOf([d \in DOMAIN sample |-> moved[d]]) IN
      DOMAIN sample = DOMAIN baseline =>
        /\ Rate(sample) <= sum
        /\ DOMAIN sample \cap restarted = {} => Rate(sample) = sum
=============================================================================
