---------------------------- MODULE MCCollectors ----------------------------
(***************************************************************************)
(* Three parts of the collectors that share no variable: what keeps disks  *)
(* quiet and counts their sectors, how their commands are run, the CPU's   *)
(* counters.  In each behaviour one of them runs; the others rest in one   *)
(* of their initial states, in which their properties hold.                *)
(***************************************************************************)
EXTENDS DiskActivity, DiskPower, CPUUsage

VARIABLE part

collectorVars == <<part, actVars, powerVars, cpuVars>>

CollectorsInit ==
  /\ part \in {"activity", "power", "cpu"}
  /\ IF part = "activity" THEN TRUE ELSE inStats = Disks \ Removable /\ devices = {}
  /\ IF part = "power" THEN TRUE ELSE rights = "none" /\ tool = "hdparm"
  /\ ActInit /\ PowerInit /\ CPUInit

CollectorsNext ==
  \/ part = "activity" /\ ActNext /\ UNCHANGED <<part, powerVars, cpuVars>>
  \/ part = "power" /\ PowerNext /\ UNCHANGED <<part, actVars, cpuVars>>
  \/ part = "cpu" /\ CPUNext /\ UNCHANGED <<part, actVars, powerVars>>

\* FairPowerSpec's fairness; the others have none.
CollectorsSpec ==
  /\ CollectorsInit /\ [][CollectorsNext]_collectorVars
  /\ WF_powerVars(part = "power" /\ Pass) /\ WF_powerVars(part = "power" /\ StartRun)
  /\ WF_powerVars(part = "power" /\ \E d \in PowerDisks : Ask(d))
  /\ WF_powerVars(part = "power" /\ (Answer \/ Fail))
  /\ WF_powerVars(part = "power" /\ OrphanEnds)

\* The types of the three modules' variables.
CollectorTypes == ActTypeOK /\ PowerTypeOK /\ CPUTypeOK
=============================================================================
