------------------------------- MODULE Docker -------------------------------
(***************************************************************************)
(* CollectDocker: one request for the list of containers, then one worker  *)
(* per container that inspects it and, if it was listed as running, samples *)
(* its memory; at most Pool workers at a time.  Successful one-shot jobs   *)
(* are left out of what is stored.                                         *)
(*                                                                         *)
(* The engine, which is external, runs containers meanwhile.               *)
(***************************************************************************)
EXTENDS Naturals, FiniteSets

CONSTANTS
    Container,     \* the containers
    Labelled,      \* those labelled as one-shot jobs
    DependsOn,     \* <<a, c>>: a waits for c to complete successfully
    Pool,          \* capacity of the semaphore
    ShowOneShot,   \* DOCKER_SHOW_ONESHOT
    Restartable,   \* those that are started again after an exit
    MaxChange,     \* bound: changes of the engine
    MaxFailure     \* bound: requests that fail

ASSUME ConstAssumption ==
    /\ IsFiniteSet(Container)
    /\ Labelled \subseteq Container
    /\ DependsOn \subseteq Container \X Container
    /\ Pool \in Nat \ {0}
    /\ Restartable \subseteq Container
    /\ ShowOneShot \in BOOLEAN
    /\ MaxChange \in Nat /\ MaxFailure \in Nat

VARIABLES
    engine,    \* the state of each container
    succeeded, \* history: containers that have exited with status 0
    changes, failures,
    pc,        \* CollectDocker: "idle", or "wait" for its workers
    listed,    \* the state each container was listed with
    worker,    \* the worker of each container
    passed,    \* containers inspected with success, and with exit status 0
    shown      \* Snapshot.Containers: the state each container is shown with

world == <<engine, succeeded, changes>>
locals == <<pc, listed, worker, passed>>
vars == <<world, failures, locals, shown>>

\* A container's life.  "done" and "failed" are the engine's "exited", with
\* status 0 or another.
State == {"new", "running", "done", "failed", "gone"}

Absent == "absent"

\* What the list says of a state.
Listed(s) == IF s \in {"done", "failed"} THEN "exited"
             ELSE IF s = "running" THEN s ELSE Absent

Init ==
    /\ engine \in [Container -> State]
    /\ succeeded = {c \in Container : engine[c] = "done"}
    /\ changes = 0 /\ failures = 0
    /\ pc = "idle"
    /\ listed = [c \in Container |-> Absent]
    /\ worker = [c \in Container |-> "none"]
    /\ passed = [inspected |-> {}, zero |-> {}]
    /\ shown = [c \in Container |-> Absent]

-----------------------------------------------------------------------------
(* The engine *)

\* c is created, exits, is removed, or is started again.
Change(c) ==
    /\ changes < MaxChange
    /\ changes' = changes + 1
    /\ \E s \in State :
          /\ \/ engine[c] = "new" /\ s = "running"
             \/ engine[c] = "running" /\ s \in {"done", "failed"}
             \/ engine[c] \in {"done", "failed"} /\ s = "gone"
             \/ engine[c] \in {"done", "failed"} /\ s = "running" /\ c \in Restartable
          /\ engine' = [engine EXCEPT ![c] = s]
          /\ succeeded' = IF s = "done" THEN succeeded \cup {c} ELSE succeeded
    /\ UNCHANGED <<failures, locals, shown>>

-----------------------------------------------------------------------------
(* The run *)

Existing == {c \in Container : listed[c] # Absent}

\* dockerIsOneShot: by a label, or because a listed container depends on it.
IsOneShot(c) == c \in Labelled \/ \E a \in Existing : <<a, c>> \in DependsOn

\* Faulty variant: an inspection that failed counts as one that found 0.
HideUninspected(c) ==
    /\ ~ ShowOneShot
    /\ IsOneShot(c)
    /\ listed[c] = "exited"
    /\ c \notin passed.inspected \/ c \in passed.zero

\* shouldHideDockerContainer
Hide(c) ==
    /\ ~ ShowOneShot
    /\ IsOneShot(c)
    /\ listed[c] = "exited"
    /\ c \in passed.inspected
    /\ c \in passed.zero

\* The list arrives; a goroutine is started for each item.
List ==
    /\ pc = "idle"
    /\ pc' = "wait"
    /\ listed' = [c \in Container |-> Listed(engine[c])]
    /\ worker' = [c \in Container |-> IF Listed(engine[c]) = Absent THEN "none"
                                   ELSE "queued"]
    /\ passed' = [inspected |-> {}, zero |-> {}]
    /\ UNCHANGED <<world, failures, shown>>

\* The list cannot be had: the containers on display stay.
ListFails ==
    /\ pc = "idle"
    /\ failures < MaxFailure
    /\ failures' = failures + 1
    /\ UNCHANGED <<world, locals, shown>>

\* The workers that hold a place in the pool.
Busy == {c \in Container : worker[c] \in {"inspect", "memory"}}

\* sem <- struct{}{}
Acquire(c) ==
    /\ worker[c] = "queued"
    /\ Cardinality(Busy) < Pool
    /\ worker' = [worker EXCEPT ![c] = "inspect"]
    /\ UNCHANGED <<world, failures, pc, listed, passed, shown>>

\* After the inspection: the memory of what was listed as running.
AfterInspect(c) == IF listed[c] = "running" THEN "memory" ELSE "finished"

\* Inspection of c.  A running container's exit status is 0.
Inspect(c) ==
    /\ worker[c] = "inspect"
    /\ Listed(engine[c]) # Absent
    /\ passed' = [inspected |-> passed.inspected \cup {c},
                  zero |-> IF engine[c] = "failed" THEN passed.zero
                           ELSE passed.zero \cup {c}]
    /\ worker' = [worker EXCEPT ![c] = AfterInspect(c)]
    /\ UNCHANGED <<world, failures, pc, listed, shown>>

\* Faulty variant: a worker whose request fails keeps its place.
InspectFailsLeaks(c) ==
    /\ worker[c] = "inspect"
    /\ engine[c] = "gone" \/ failures < MaxFailure
    /\ failures' = IF engine[c] = "gone" THEN failures ELSE failures + 1
    /\ UNCHANGED <<world, locals, shown>>

\* The container is gone, or the request fails.
InspectFails(c) ==
    /\ worker[c] = "inspect"
    /\ engine[c] = "gone" \/ failures < MaxFailure
    /\ failures' = IF engine[c] = "gone" THEN failures ELSE failures + 1
    /\ worker' = [worker EXCEPT ![c] = AfterInspect(c)]
    /\ UNCHANGED <<world, pc, listed, passed, shown>>

\* The memory sample, or its failure, which is not reported.
Memory(c) ==
    /\ worker[c] = "memory"
    /\ worker' = [worker EXCEPT ![c] = "finished"]
    /\ UNCHANGED <<world, failures, pc, listed, passed, shown>>

\* Faulty variant: the first worker to finish is enough.
StoreEarly ==
    /\ pc = "wait"
    /\ Existing = {} \/ \E c \in Container : worker[c] = "finished"
    /\ shown' = [c \in Container |-> IF Hide(c) THEN Absent ELSE listed[c]]
    /\ pc' = "idle"
    /\ UNCHANGED <<world, failures, listed, worker, passed>>

\* wg.Wait has returned: what is not hidden is stored.
Store ==
    /\ pc = "wait"
    /\ \A c \in Container : worker[c] \in {"none", "finished"}
    /\ shown' = [c \in Container |-> IF Hide(c) THEN Absent ELSE listed[c]]
    /\ pc' = "idle"
    /\ UNCHANGED <<world, failures, listed, worker, passed>>

Work(c) == Acquire(c) \/ Inspect(c) \/ InspectFails(c) \/ Memory(c)

Run == List \/ Store

Next == Run \/ ListFails \/ \E c \in Container : Change(c) \/ Work(c)

Spec == Init /\ [][Next]_vars

\* Runs are started by a ticker; requests end, if only by their timeout; a
\* goroutine that waits for the semaphore is not passed over forever.
FairSpec == /\ Spec
            /\ WF_vars(Run)
            /\ \A c \in Container : SF_vars(Acquire(c)) /\ WF_vars(Work(c))

-----------------------------------------------------------------------------
(* Properties *)

\* The types of the variables.
TypeOK ==
    /\ engine \in [Container -> State]
    /\ succeeded \subseteq Container
    /\ changes \in Nat /\ failures \in Nat
    /\ pc \in {"idle", "wait"}
    /\ listed \in [Container -> {Absent, "running", "exited"}]
    /\ worker \in [Container -> {"none", "queued", "inspect", "memory", "finished"}]
    /\ passed \in [inspected : SUBSET Container, zero : SUBSET Container]
    /\ shown \in [Container -> {Absent, "running", "exited"}]

\* The comment on the pool: never more requests at once than it has places;
\* and no worker outlives the run that started it, to write into a result
\* that has been stored already.
BoundedWork ==
    /\ Cardinality(Busy) <= Pool
    /\ pc = "idle" => \A c \in Container : worker[c] \in {"none", "finished"}

\* README: "Running jobs and jobs that exit with a non-zero status remain
\* visible".  A listed container that is left out has exited with status 0,
\* unless it may have been started again between the list and its inspection.
HiddenSucceeded ==
    [][pc = "wait" /\ pc' = "idle" =>
          \A c \in Existing \ Restartable : shown'[c] = Absent => c \in succeeded]_vars

\* A finished job, judged by the containers there are.
Finished(c) ==
    /\ engine[c] = "done"
    /\ \/ c \in Labelled
       \/ \E a \in Container : <<a, c>> \in DependsOn /\ Listed(engine[a]) # Absent

\* Once the engine is quiet, what is shown comes to be what there is, without
\* the jobs that succeeded: no failed request blocks the runs, and nothing a
\* run has mistaken stays.
EventuallyRight ==
    <>[](\A c \in Container :
            shown[c] = IF Finished(c) /\ ~ ShowOneShot THEN Absent
                       ELSE Listed(engine[c]))
=============================================================================
