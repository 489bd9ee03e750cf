---------------------------- MODULE Docker_proof ----------------------------
(* Theorems about Docker, for every set of containers and every pool. *)
EXTENDS Docker, FiniteSetTheorems, TLAPS

LEMMA InitType == Init => TypeOK
BY DEF Init, TypeOK

LEMMA TypeStep == TypeOK /\ [Next]_vars => TypeOK'
<1> SUFFICES ASSUME TypeOK, [Next]_vars PROVE TypeOK'
  OBVIOUS
<1> USE DEF TypeOK, world, locals
<1>1. ASSUME NEW c \in Container, Change(c) PROVE TypeOK'
  BY <1>1 DEF Change
<1>2. CASE List
  BY <1>2 DEF List, Listed, Absent
<1>3. CASE ListFails
  BY <1>3 DEF ListFails
<1>4. ASSUME NEW c \in Container, Acquire(c) PROVE TypeOK'
  BY <1>4 DEF Acquire
<1>5. ASSUME NEW c \in Container, Inspect(c) PROVE TypeOK'
  BY <1>5 DEF Inspect, AfterInspect
<1>6. ASSUME NEW c \in Container, InspectFails(c) PROVE TypeOK'
  BY <1>6 DEF InspectFails, AfterInspect
<1>7. ASSUME NEW c \in Container, Memory(c) PROVE TypeOK'
  BY <1>7 DEF Memory
<1>8. CASE Store
  BY <1>8 DEF Store
<1>9. CASE UNCHANGED vars
  BY <1>9 DEF vars
<1> QED
  BY <1>1, <1>2, <1>3, <1>4, <1>5, <1>6, <1>7, <1>8, <1>9 DEF Next, Run, Work

\* Every state has the types.
THEOREM TypeCorrect == Spec => []TypeOK
BY InitType, TypeStep, PTL DEF Spec

-----------------------------------------------------------------------------
(* The pool. *)

\* Taking the workers of a run out of a set of containers leaves it finite.
LEMMA BusyFinite == IsFiniteSet(Busy) /\ Cardinality(Busy) \in Nat
BY ConstAssumption, FS_Subset, FS_CardinalityType DEF Busy

\* If nobody new is at work, the pool is not fuller than it was.
LEMMA BusyShrinks ==
    ASSUME NEW S, NEW T, IsFiniteSet(T), S \subseteq T, Cardinality(T) <= Pool
    PROVE  Cardinality(S) <= Pool
<1>1. IsFiniteSet(S) /\ Cardinality(S) <= Cardinality(T)
  BY FS_Subset
<1>2. Cardinality(S) \in Nat /\ Cardinality(T) \in Nat /\ Pool \in Nat
  BY <1>1, FS_CardinalityType, ConstAssumption
<1> QED
  BY <1>1, <1>2

LEMMA BoundStep == TypeOK /\ BoundedWork /\ [Next]_vars => BoundedWork'
<1> SUFFICES ASSUME TypeOK, BoundedWork, [Next]_vars PROVE BoundedWork'
  OBVIOUS
<1>0. ASSUME Busy' \subseteq Busy,
             pc' = "idle" => \A c \in Container : worker'[c] \in {"none", "finished"}
      PROVE  BoundedWork'
  BY <1>0, BusyFinite, BusyShrinks DEF BoundedWork
<1>1. ASSUME NEW c \in Container, Acquire(c) PROVE BoundedWork'
  <2>1. pc' = "wait"
    BY <1>1 DEF Acquire, BoundedWork, TypeOK
  <2>2. Busy' = Busy \cup {c} /\ c \notin Busy
    BY <1>1 DEF Acquire, Busy, TypeOK
  <2>3. Cardinality(Busy') = Cardinality(Busy) + 1
    BY <2>2, BusyFinite, FS_AddElement
  <2>4. Cardinality(Busy) < Pool /\ Pool \in Nat
    BY <1>1, ConstAssumption DEF Acquire
  <2> QED
    BY <2>1, <2>3, <2>4, BusyFinite DEF BoundedWork
<1>2. CASE List
  <2>1. pc' = "wait" /\ Busy' = {}
    BY <1>2 DEF List, Busy
  <2> QED
    BY <1>0, <2>1
<1>3. ASSUME NEW c \in Container, Inspect(c) \/ InspectFails(c) \/ Memory(c)
      PROVE  BoundedWork'
  <2>1. worker[c] \in {"inspect", "memory"} /\ UNCHANGED pc
        /\ worker' \in {[worker EXCEPT ![c] = AfterInspect(c)],
                        [worker EXCEPT ![c] = "finished"]}
    BY <1>3 DEF Inspect, InspectFails, Memory
  <2>2. Busy' \subseteq Busy /\ pc' = "wait"
    BY <2>1 DEF Busy, BoundedWork, TypeOK, AfterInspect
  <2> QED
    BY <1>0, <2>2
<1>4. CASE Store
  <2>1. UNCHANGED worker /\ \A c \in Container : worker[c] \in {"none", "finished"}
    BY <1>4 DEF Store
  <2> QED
    BY <1>0, <2>1 DEF Busy
<1>5. CASE UNCHANGED <<pc, worker>>
  BY <1>0, <1>5 DEF Busy, BoundedWork
<1> QED
  BY <1>1, <1>2, <1>3, <1>4, <1>5
     DEF Next, Run, Work, ListFails, Change, vars, locals

\* At most Pool requests at once, and none when a run has ended.
THEOREM WorkIsBounded == Spec => []BoundedWork
<1>1. Init => BoundedWork
  <2> SUFFICES ASSUME Init PROVE BoundedWork
    OBVIOUS
  <2>1. Busy = {}
    BY DEF Init, Busy
  <2> QED
    BY <2>1, FS_EmptySet, ConstAssumption DEF BoundedWork, Init
<1> QED
  BY <1>1, TypeCorrect, BoundStep, PTL DEF Spec

-----------------------------------------------------------------------------
(* Hidden jobs. *)

\* What is not started again stays exited, and if it was found to have status
\* 0 after it was listed as exited, it has succeeded.
SucceededInv ==
    /\ \A c \in Container : engine[c] = "done" => c \in succeeded
    /\ \A c \in Container \ Restartable :
          listed[c] = "exited" => engine[c] \in {"done", "failed", "gone"}
    /\ \A c \in passed.zero \ Restartable : listed[c] = "exited" => c \in succeeded

LEMMA SucceededStep ==
    ASSUME TypeOK, SucceededInv, [Next]_vars
    PROVE  SucceededInv'
<1> USE DEF TypeOK, SucceededInv, world, locals
<1>1. ASSUME NEW c \in Container, Change(c) PROVE SucceededInv'
  BY <1>1 DEF Change
<1>2. CASE List
  BY <1>2 DEF List, Listed, Absent
<1>3. ASSUME NEW c \in Container, Inspect(c) PROVE SucceededInv'
  BY <1>3 DEF Inspect, Listed, Absent
<1>4. ASSUME NEW c \in Container, Acquire(c) \/ InspectFails(c) \/ Memory(c)
      PROVE  SucceededInv'
  BY <1>4 DEF Acquire, InspectFails, Memory
<1>5. CASE Store \/ ListFails \/ UNCHANGED vars
  BY <1>5 DEF Store, ListFails, vars
<1> QED
  BY <1>1, <1>2, <1>3, <1>4, <1>5 DEF Next, Run, Work

\* Only a run's last step has it end.
LEMMA EndsByStore ==
    ASSUME [Next]_vars, pc = "wait", pc' = "idle"
    PROVE  Store
BY DEF Next, Run, Work, List, ListFails, Acquire, Inspect, InspectFails, Memory,
       Change, world, locals, vars

\* A container that is left out, and is not one that is started again, has
\* exited with status 0.
THEOREM HiddenHaveSucceeded == Spec => HiddenSucceeded
<1>1. Init => SucceededInv
  BY DEF Init, SucceededInv, Absent
<1>2. TypeOK /\ SucceededInv /\ [Next]_vars =>
         [pc = "wait" /\ pc' = "idle" =>
            \A c \in Existing \ Restartable : shown'[c] = Absent => c \in succeeded]_vars
  <2> SUFFICES ASSUME TypeOK, SucceededInv, [Next]_vars, pc = "wait", pc' = "idle",
                      NEW c \in Existing \ Restartable, shown'[c] = Absent
               PROVE  c \in succeeded
    OBVIOUS
  <2>1. Store
    BY EndsByStore
  <2>2. c \in Container /\ listed[c] # Absent
    BY DEF Existing
  <2>3. Hide(c)
    BY <2>1, <2>2 DEF Store
  <2> QED
    BY <2>2, <2>3 DEF Hide, SucceededInv
<1> QED
  BY <1>1, <1>2, TypeCorrect, SucceededStep, PTL DEF Spec, HiddenSucceeded
=============================================================================
