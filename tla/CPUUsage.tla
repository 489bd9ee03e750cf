------------------------------ MODULE CPUUsage ------------------------------
(***************************************************************************)
(* The CPU's usage and iowait in percent (internal/collect/system.go),     *)
(* from counters that are unsigned, of which iowait may go back            *)
(* (proc_stat(5)), and samples that may fail.                              *)
(***************************************************************************)
EXTENDS Integers

CONSTANTS
  Width,       \* bits of a counter
  MaxTicks,    \* bound: ticks between two samples
  MaxCount,    \* bound: of the counters
  MaxLost      \* bound: samples that fail

\* Counters are in 0 .. 2 * Half - 1.
Half == 2 ^ (Width - 1)

ASSUME CPUAssumption ==
  /\ {Width, Half, MaxTicks, MaxCount} \subseteq Nat \ {0} /\ MaxLost \in Nat
  /\ 100 * (MaxCount + 1) < Half

VARIABLES
  busy, idleTime, iowait,   \* the kernel's counters; busy is the sum of the others
  initialized, prevTotal, prevIdle, prevIOWait,
  usage, ioPct,         \* of the snapshot
  lost,                 \* samples that failed
  since                 \* history: what the machine did since the last sample

counters == <<busy, idleTime, iowait>>
prev == <<prevTotal, prevIdle, prevIOWait>>
cpuVars == <<counters, initialized, prev, usage, ioPct, lost, since>>

Nothing == [busy |-> 0, idle |-> 0, iowait |-> 0, back |-> FALSE]

CPUInit ==
  /\ busy = 0 /\ idleTime = 0 /\ iowait = 0
  /\ initialized = FALSE /\ prevTotal = 0 /\ prevIdle = 0 /\ prevIOWait = 0
  /\ usage = 0 /\ ioPct = 0 /\ lost = 0 /\ since = Nothing

\* A tick of the machine is counted.
RunTick(b, i, w) ==
  /\ since.busy + since.idle + since.iowait < MaxTicks
  /\ busy + idleTime + iowait < MaxCount
  /\ busy' = busy + b /\ idleTime' = idleTime + i /\ iowait' = iowait + w
  /\ since' = [since EXCEPT !.busy = @ + b, !.idle = @ + i, !.iowait = @ + w]
  /\ UNCHANGED <<initialized, prev, usage, ioPct, lost>>

\* The kernel corrects iowait.
GoBack ==
  /\ iowait > 0
  /\ iowait' = iowait - 1
  /\ since' = [since EXCEPT !.back = TRUE]
  /\ UNCHANGED <<busy, idleTime, initialized, prev, usage, ioPct, lost>>

Unsigned(x) == x % (2 * Half)

\* int(x)
Signed(x) == IF x < Half THEN x ELSE x - 2 * Half

\* n * 100 / td, of unsigned operands
Share(n, td) == Signed(Unsigned(Unsigned(n) * 100) \div td)

Percent(x) == IF x < 0 THEN 0 ELSE IF x > 100 THEN 100 ELSE x

\* Faulty variant: a baseline never goes back.
BaselineGrowing(total, idleAll) ==
  /\ prevTotal' = IF total > prevTotal THEN total ELSE prevTotal
  /\ prevIdle' = IF total > prevTotal THEN idleAll ELSE prevIdle
  /\ prevIOWait' = IF total > prevTotal THEN iowait ELSE prevIOWait

SetBaseline(total, idleAll) ==
  prevTotal' = total /\ prevIdle' = idleAll /\ prevIOWait' = iowait

\* CPUCollector.Collect
CollectCPU ==
  LET total == Unsigned(busy + idleTime + iowait)
      idleAll == Unsigned(idleTime + iowait)
      td == total - prevTotal
      grown == initialized /\ td > 0
  IN /\ usage' = IF grown THEN Percent(100 - Share(idleAll - prevIdle, td)) ELSE 0
     /\ ioPct' = IF grown THEN Percent(Share(iowait - prevIOWait, td)) ELSE 0
     /\ initialized' = TRUE
     /\ SetBaseline(total, idleAll)
     /\ since' = Nothing
     /\ UNCHANGED <<counters, lost>>

\* /proc/stat cannot be read, or its first line is not the CPU's.
CollectCPUFails ==
  /\ lost < MaxLost
  /\ lost' = lost + 1
  /\ UNCHANGED <<counters, initialized, prev, usage, ioPct, since>>

CPUNext ==
  \/ RunTick(1, 0, 0) \/ RunTick(0, 1, 0) \/ RunTick(0, 0, 1) \/ GoBack
  \/ CollectCPU \/ CollectCPUFails

CPUSpec == CPUInit /\ [][CPUNext]_cpuVars

-----------------------------------------------------------------------------
(* Properties *)

\* The types of the variables; what is shown is a percentage, also after a
\* difference has wrapped round.
CPUTypeOK ==
  /\ {busy, idleTime, iowait, prevTotal, prevIdle, prevIOWait} \subseteq 0 .. 2 * Half - 1
  /\ initialized \in BOOLEAN /\ usage \in 0 .. 100 /\ ioPct \in 0 .. 100
  /\ lost \in 0 .. MaxLost
  /\ since \in [busy : Nat, idle : Nat, iowait : Nat, back : BOOLEAN]

\* A sample shows what the machine has done since the sample before, to a
\* percent: usage rounded up, iowait rounded down, so that together they are
\* never more than 100.  A counter that went back, so that a difference wraps,
\* falsifies one sample only.
CPUExact ==
  [][LET n == since.busy + since.idle + since.iowait IN
       since' = Nothing /\ initialized /\ n > 0 /\ ~since.back =>
         /\ 100 * since.busy <= usage' * n /\ usage' * n < 100 * since.busy + n
         /\ ioPct' * n <= 100 * since.iowait /\ 100 * since.iowait < ioPct' * n + n
         /\ usage' + ioPct' <= 100]_cpuVars
=============================================================================
