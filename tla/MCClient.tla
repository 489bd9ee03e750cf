------------------------------ MODULE MCClient ------------------------------
(***************************************************************************)
(* The parts of a client that share no variable: its file and clock, its   *)
(* screen, its keys, its view of the collectors' status, its configuration *)
(* beside the daemon's.  In each behaviour one of them runs; the others    *)
(* rest in one of their initial states, in which their properties hold.    *)
(***************************************************************************)
EXTENDS Client, Viewport, TerminalInput, Status, Config

Container(id, name, exact, ram) == [id |-> id, name |-> name, exact |-> exact, ram |-> ram]

\* Two names that differ in case only, and ties in memory.
Three == <<Container(1, 2, 1, 2), Container(2, 1, 2, 1), Container(3, 1, 1, 2)>>

Ten == Three \o [i \in 1 .. 7 |-> Container(i + 3, (i * 3) % 7, 1, i % 3)]

SomeSnapshots == {[list |-> <<>>, zram |-> 0, usage |-> 1, health |-> 1],
                  [list |-> Three, zram |-> 1, usage |-> 4, health |-> 2],
                  [list |-> Ten, zram |-> 0, usage |-> 1, health |-> 1]}

\* Each layout with rows enough for all, for some and for none.
SomeSizes == {[rows |-> r, cols |-> 100] : r \in {4, 7, 18, 22, 31, 37}}
               \cup {[rows |-> 8, cols |-> 40]}

VARIABLE part

ageVars == vars

clientVars == <<part, ageVars, viewVars, inputVars, statusVars, configVars>>

ClientInit ==
  /\ part \in {"age", "screen", "keys", "status", "config"}
  /\ IF part = "screen" THEN TRUE
     ELSE size = (CHOOSE z \in Sizes : TRUE) /\ snap = (CHOOSE s \in Snapshots : TRUE)
  /\ IF part = "status" THEN TRUE ELSE present = FALSE /\ working = FALSE
  /\ Init /\ ViewInit /\ InputInit /\ StatusInit /\ ConfigInit

ClientNext ==
  \/ part = "age" /\ Next
       /\ UNCHANGED <<part, viewVars, inputVars, statusVars, configVars>>
  \/ part = "screen" /\ ViewNext
       /\ UNCHANGED <<part, ageVars, inputVars, statusVars, configVars>>
  \/ part = "keys" /\ InputNext
       /\ UNCHANGED <<part, ageVars, viewVars, statusVars, configVars>>
  \/ part = "status" /\ StatusNext
       /\ UNCHANGED <<part, ageVars, viewVars, inputVars, configVars>>
  \/ part = "config" /\ ConfigNext
       /\ UNCHANGED <<part, ageVars, viewVars, inputVars, statusVars>>
  \/ part = "keys" /\ ~listening /\ UNCHANGED clientVars  \* the terminal is gone

\* The fairness of FairSpec, FairViewSpec, FairInputSpec and FairStatusSpec.
ClientSpec ==
  /\ ClientInit /\ [][ClientNext]_clientVars
  /\ WF_vars(part = "age" /\ Tick) /\ WF_vars(part = "age" /\ Wait)
  /\ WF_vars(part = "age" /\ Refresh)
  /\ WF_vars(part = "age" /\ Collect) /\ WF_vars(part = "age" /\ Flush)
  /\ WF_viewVars(part = "screen" /\ Winch)
  /\ WF_inputVars(part = "keys" /\ (ReadByte \/ ReadEnds))
  /\ WF_inputVars(part = "keys" /\ EmitInput) /\ WF_inputVars(part = "keys" /\ Receive)
  /\ WF_statusVars(part = "status" /\ TimePasses)
  /\ WF_statusVars(part = "status" /\ BeginRun)
  /\ WF_statusVars(part = "status" /\ RecordCollector)
  /\ WF_statusVars(part = "status" /\ PublishStatus)
  /\ WF_statusVars(part = "status" /\ ReadStatus)

\* The types of the five modules' variables.
ClientTypes == TypeOK /\ ViewTypeOK /\ InputTypeOK /\ StatusTypeOK /\ ConfigTypeOK
=============================================================================
