-------------------------- MODULE StateFile_proof --------------------------
(* Theorems about StateFile, for every value of its constants. *)
EXTENDS StateFile, FiniteSetTheorems, TLAPS

\* Every step keeps every variable in its type.
THEOREM TypeCorrect == Spec => []TypeOK
<1>1. Init => TypeOK
  BY ConstAssumption DEF Init, TypeOK, PCs, Live, Locked, Writing
<1>2. TypeOK /\ [Next]_vars => TypeOK'
  <2> SUFFICES ASSUME TypeOK, [Next]_vars PROVE TypeOK'
    OBVIOUS
  <2> USE ConstAssumption DEF TypeOK, PCs, Live, Locked, Writing, dirVars,
        procVars, readVars, countVars, Fault, NoFault, Keep
  <2>1. ASSUME NEW d \in Daemons, Start(d) PROVE TypeOK'
    BY <2>1 DEF Start
  <2>2. ASSUME NEW d \in Daemons, Flock(d) PROVE TypeOK'
    BY <2>2 DEF Flock
  <2>3. ASSUME NEW d \in Daemons, Crash(d) PROVE TypeOK'
    BY <2>3 DEF Crash, Unlocked
  <2>4. ASSUME NEW d \in Daemons, Reap(d) PROVE TypeOK'
    BY <2>4 DEF Reap
  <2>5. ASSUME NEW d \in Daemons, CreateTemp(d) PROVE TypeOK'
    BY <2>5 DEF CreateTemp
  <2>6. ASSUME NEW d \in Daemons, CreateTempFails(d) PROVE TypeOK'
    BY <2>6 DEF CreateTempFails, Return, Unlocked
  <2>7. ASSUME NEW d \in Daemons, Encode(d) PROVE TypeOK'
    <3>1. content' \in [Files -> Nat] /\ clock' \in Nat
      <4>1. content' = [f \in Files |-> IF f = tmp[d] THEN clock + 1 ELSE content[f]]
        BY <2>7, Zenon DEF Encode
      <4> QED
        BY <4>1, <2>7 DEF Encode
    <3>2. /\ wr' \in [Daemons -> {"none", "encode", "rename", "unlink"}]
          /\ UNCHANGED <<dirVars, lock, pc, ok, fd, tmp, last, readVars, crashes, errors, kept>>
      BY <2>7 DEF Encode
    <3> QED
      BY <3>1, <3>2
  <2>8. ASSUME NEW d \in Daemons, EncodeFails(d) PROVE TypeOK'
    BY <2>8 DEF EncodeFails
  <2>9. ASSUME NEW d \in Daemons, Rename(d) PROVE TypeOK'
    BY <2>9 DEF Rename
  <2>10. ASSUME NEW d \in Daemons, RenameFails(d) PROVE TypeOK'
    BY <2>10 DEF RenameFails
  <2>11. ASSUME NEW d \in Daemons, Unlink(d) PROVE TypeOK'
    BY <2>11 DEF Unlink, Return, Unlocked
  <2>12. ASSUME NEW d \in Daemons, Flush(d) PROVE TypeOK'
    BY <2>12 DEF Flush
  <2>13. ASSUME NEW d \in Daemons, Stop(d) PROVE TypeOK'
    BY <2>13 DEF Stop
  <2>14. ASSUME NEW d \in Daemons, RemoveState(d) PROVE TypeOK'
    BY <2>14 DEF RemoveState
  <2>15. ASSUME NEW d \in Daemons, CloseLock(d) PROVE TypeOK'
    BY <2>15 DEF CloseLock, Unlocked
  <2>16. ASSUME NEW r \in Readers, Open(r) PROVE TypeOK'
    BY <2>16 DEF Open
  <2>17. ASSUME NEW r \in Readers, Decode(r) PROVE TypeOK'
    BY <2>17 DEF Decode
  <2>18. ASSUME NEW d \in Daemons, UnlinkFails(d) PROVE TypeOK'
    BY <2>18 DEF UnlinkFails, Return, Unlocked
  <2>19. ASSUME NEW d \in Daemons, RemoveStateFails(d) PROVE TypeOK'
    BY <2>19 DEF RemoveStateFails
  <2>20. CASE UNCHANGED vars
    BY <2>20 DEF vars
  <2> QED
    BY <2>1, <2>2, <2>3, <2>4, <2>5, <2>6, <2>7, <2>8, <2>9, <2>10, <2>11,
       <2>12, <2>13, <2>14, <2>15, <2>16, <2>17, <2>18, <2>19, <2>20
       DEF Next, WriteStep, LifeStep
<1> QED
  BY <1>1, <1>2, PTL DEF Spec

----------------------------------------------------------------------------
(* The control of one process. *)

\* WriteAtomic runs only where main calls it.
CallInv == \A d \in Daemons : wr[d] # "none" => pc[d] \in Writing

LEMMA CallStep == TypeOK /\ CallInv /\ [Next]_vars => CallInv'
<1> SUFFICES ASSUME TypeOK, CallInv, [Next]_vars PROVE CallInv'
  OBVIOUS
<1> USE DEF TypeOK, CallInv, Writing
<1>1. ASSUME NEW d \in Daemons, CreateTemp(d) \/ CreateTempFails(d) PROVE CallInv'
  BY <1>1 DEF CreateTemp, CreateTempFails, Return
<1>2. ASSUME NEW d \in Daemons,
             Encode(d) \/ EncodeFails(d) \/ Rename(d) \/ RenameFails(d)
      PROVE CallInv'
  BY <1>2 DEF Encode, EncodeFails, Rename, RenameFails
<1>3. ASSUME NEW d \in Daemons, Unlink(d) \/ UnlinkFails(d) PROVE CallInv'
  BY <1>3 DEF Unlink, UnlinkFails, Return
<1>4. ASSUME NEW d \in Daemons, Crash(d) PROVE CallInv'
  BY <1>4 DEF Crash
<1>5. ASSUME NEW d \in Daemons,
             \/ Start(d) \/ Flock(d) \/ Reap(d) \/ Flush(d) \/ Stop(d)
             \/ RemoveState(d) \/ RemoveStateFails(d) \/ CloseLock(d)
      PROVE CallInv'
  BY <1>5 DEF Start, Flock, Reap, Flush, Stop, RemoveState, RemoveStateFails, CloseLock
<1>6. ASSUME NEW r \in Readers, Open(r) \/ Decode(r) PROVE CallInv'
  BY <1>6 DEF Open, Decode, procVars
<1>7. CASE UNCHANGED vars
  BY <1>7 DEF vars, procVars
<1> QED
  BY <1>1, <1>2, <1>3, <1>4, <1>5, <1>6, <1>7 DEF Next, WriteStep, LifeStep

LEMMA CallCorrect == Spec => []CallInv
<1>1. Init => CallInv
  BY DEF Init, CallInv
<1> QED
  BY <1>1, TypeCorrect, CallStep, PTL DEF Spec

----------------------------------------------------------------------------
(* The writer lock. *)

\* A daemon past AcquireWriterLock is the recorded holder of its lock file.
LockInv == \A d \in Daemons : Writer(d) => lock[fd[d]] = d

LEMMA LockExclusive == TypeOK /\ LockInv => ExclusiveInDir
  BY DEF LockInv, ExclusiveInDir

LEMMA LockStep == TypeOK /\ CallInv /\ LockInv /\ [Next]_vars => LockInv'
<1> SUFFICES ASSUME TypeOK, CallInv, LockInv, [Next]_vars,
                    NEW e \in Daemons, Writer(e)'
             PROVE (lock[fd[e]] = e)'
  BY DEF LockInv
<1> USE ConstAssumption DEF TypeOK, CallInv, LockInv, Writer, PCs, Live, Locked, Writing
<1>1. ASSUME NEW d \in Daemons, Start(d) PROVE (lock[fd[e]] = e)'
  BY <1>1 DEF Start
<1>2. ASSUME NEW d \in Daemons, Flock(d) PROVE (lock[fd[e]] = e)'
  <2>1. CASE e = d
    <3>1. lock[fd[d]] = NoOne
      BY <1>2, <2>1 DEF Flock
    <3> QED
      BY <1>2, <2>1, <3>1 DEF Flock
  <2>2. CASE e # d
    <3>1. Writer(e) /\ fd'[e] = fd[e] /\ lock[fd[e]] = e
      BY <1>2, <2>2 DEF Flock
    <3> QED
      BY <1>2, <2>2, <3>1 DEF Flock
  <2> QED
    BY <2>1, <2>2
<1>3. ASSUME NEW d \in Daemons, Crash(d) PROVE (lock[fd[e]] = e)'
  BY <1>3 DEF Crash, Unlocked
<1>4. ASSUME NEW d \in Daemons, Reap(d) PROVE (lock[fd[e]] = e)'
  BY <1>4 DEF Reap
<1>5. ASSUME NEW d \in Daemons, CreateTempFails(d) PROVE (lock[fd[e]] = e)'
  BY <1>5 DEF CreateTempFails, Return, Unlocked
<1>6. ASSUME NEW d \in Daemons, Unlink(d) \/ UnlinkFails(d) PROVE (lock[fd[e]] = e)'
  BY <1>6 DEF Unlink, UnlinkFails, Return, Unlocked
<1>7. ASSUME NEW d \in Daemons,
             Flush(d) \/ Stop(d) \/ RemoveState(d) \/ RemoveStateFails(d)
      PROVE (lock[fd[e]] = e)'
  BY <1>7 DEF Flush, Stop, RemoveState, RemoveStateFails
<1>8. ASSUME NEW d \in Daemons, CloseLock(d) PROVE (lock[fd[e]] = e)'
  BY <1>8 DEF CloseLock, Unlocked
<1>9. CASE UNCHANGED <<lock, fd, pc>>
  BY <1>9
<1>10. ASSUME NEW d \in Daemons,
              \/ CreateTemp(d) \/ Encode(d) \/ EncodeFails(d)
              \/ Rename(d) \/ RenameFails(d)
       PROVE UNCHANGED <<lock, fd, pc>>
  BY <1>10 DEF CreateTemp, Encode, EncodeFails, Rename, RenameFails
<1>11. ASSUME NEW r \in Readers, Open(r) \/ Decode(r)
       PROVE UNCHANGED <<lock, fd, pc>>
  BY <1>11 DEF Open, Decode, procVars
<1>12. UNCHANGED vars => UNCHANGED <<lock, fd, pc>>
  BY DEF vars, procVars
<1> QED
  BY <1>1, <1>2, <1>3, <1>4, <1>5, <1>6, <1>7, <1>8, <1>9, <1>10, <1>11, <1>12
     DEF Next, WriteStep, LifeStep

\* flock excludes: in one directory there is at most one daemon past
\* AcquireWriterLock, for any number of daemons, crashes and errors, also
\* when systemd replaces the directory.
THEOREM LockCorrect == Spec => []ExclusiveInDir
<1>1. Init => LockInv
  BY DEF Init, LockInv, Writer, Locked, Writing
<1> QED
  BY <1>1, TypeCorrect, CallCorrect, LockStep, LockExclusive, PTL DEF Spec

----------------------------------------------------------------------------
(* One directory. *)

\* No unit owns the directory: nothing ever removes it.
Stable == ~DirIsRuntime \/ Units = {}

SameDir == \A d \in Daemons : fd[d] = gen

LEMMA SameDirStep ==
  ASSUME Stable, TypeOK, SameDir, [Next]_vars PROVE SameDir'
<1> USE DEF TypeOK, SameDir
<1>1. ASSUME NEW d \in Daemons, Start(d) PROVE SameDir'
  BY <1>1 DEF Start, dirVars
<1>2. ASSUME NEW d \in Daemons, Reap(d) PROVE UNCHANGED <<gen, fd>>
  BY <1>2 DEF Reap, dirVars, Stable
<1>3. ASSUME NEW d \in Daemons,
             \/ Flock(d) \/ Crash(d) \/ Flush(d) \/ Stop(d)
             \/ RemoveState(d) \/ RemoveStateFails(d) \/ CloseLock(d)
      PROVE UNCHANGED <<gen, fd>>
  BY <1>3 DEF Flock, Crash, Flush, Stop, RemoveState, RemoveStateFails, CloseLock, dirVars
<1>4. ASSUME NEW d \in Daemons, WriteStep(d) PROVE UNCHANGED <<gen, fd>>
  BY <1>4 DEF WriteStep, CreateTemp, CreateTempFails, Encode, EncodeFails,
       Rename, RenameFails, Unlink, UnlinkFails, dirVars
<1>5. ASSUME NEW r \in Readers, Open(r) \/ Decode(r) PROVE UNCHANGED <<gen, fd>>
  BY <1>5 DEF Open, Decode, procVars, dirVars
<1>6. UNCHANGED vars => UNCHANGED <<gen, fd>>
  BY DEF vars, procVars, dirVars
<1> QED
  BY <1>1, <1>2, <1>3, <1>4, <1>5, <1>6 DEF Next, LifeStep

\* Where the directory is not a unit's RuntimeDirectory, nasmond has a single
\* writer: a second one exits.
THEOREM OneWriter == ASSUME Stable PROVE Spec => []AtMostOneWriter
<1>1. Init => SameDir
  BY DEF Init, SameDir
<1>2. ExclusiveInDir /\ SameDir => AtMostOneWriter
  BY DEF ExclusiveInDir, SameDir, AtMostOneWriter
<1>3. TypeOK /\ SameDir /\ [Next]_vars => SameDir'
  BY SameDirStep
<1> QED
  BY <1>1, <1>2, <1>3, TypeCorrect, LockCorrect, PTL DEF Spec

----------------------------------------------------------------------------
(* Temporary files. *)

\* Entries no call of WriteAtomic will remove.
Orphans == temps \ {tmp[d] : d \in Daemons}

InCall == {d \in Daemons : wr[d] # "none"}

\* Only a kill or a failing removal makes an orphan, and one at most; a call
\* has no temporary file before it and none after it.
TempInv ==
  /\ IsFiniteSet(temps)
  /\ Cardinality(Orphans) <= crashes + kept
  /\ \A d \in Daemons : wr[d] = "none" => tmp[d] = NoFile

\* A step that makes no orphan, and at most one more entry.
LEMMA NoNewOrphan ==
  ASSUME TypeOK, TempInv, Orphans' \subseteq Orphans, UNCHANGED <<crashes, kept>>,
         NEW f, temps' \subseteq temps \cup {f}
  PROVE  IsFiniteSet(temps)' /\ (Cardinality(Orphans) <= crashes + kept)'
<1>1. IsFiniteSet(temps')
  <2>1. IsFiniteSet(temps \cup {f})
    BY FS_AddElement DEF TempInv
  <2> QED
    BY <2>1, FS_Subset
<1>2. IsFiniteSet(Orphans) /\ Orphans' \in SUBSET Orphans
  BY FS_Difference DEF TempInv, Orphans
<1>3. Cardinality(Orphans') <= Cardinality(Orphans)
  BY <1>2, FS_Subset
<1>4. Cardinality(Orphans') \in Nat /\ Cardinality(Orphans) \in Nat
  BY <1>2, FS_Subset, FS_CardinalityType
<1> QED
  BY <1>1, <1>3, <1>4 DEF TempInv, TypeOK

\* A step after which the call of d is over and its entry may stay.
LEMMA OneOrphan ==
  ASSUME TypeOK, TempInv, NEW d \in Daemons, temps' = temps,
         tmp' = [tmp EXCEPT ![d] = NoFile], wr' = [wr EXCEPT ![d] = "none"],
         \/ crashes' = crashes + 1 /\ kept' = kept
         \/ crashes' = crashes /\ kept' = kept + 1
  PROVE  TempInv'
<1>1. Orphans' \subseteq Orphans \cup {tmp[d]}
  BY DEF Orphans, TypeOK
<1>2. IsFiniteSet(Orphans) /\ IsFiniteSet(temps)
  BY FS_Difference DEF TempInv, Orphans
<1>3. /\ IsFiniteSet(Orphans \cup {tmp[d]})
      /\ Cardinality(Orphans \cup {tmp[d]}) <= Cardinality(Orphans) + 1
  <2>1. Cardinality(Orphans) \in Nat
    BY <1>2, FS_CardinalityType
  <2>2. /\ IsFiniteSet(Orphans \cup {tmp[d]})
        /\ Cardinality(Orphans \cup {tmp[d]}) =
             IF tmp[d] \in Orphans THEN Cardinality(Orphans) ELSE Cardinality(Orphans) + 1
    BY ONLY <1>2, FS_AddElement
  <2> QED
    BY <2>1, <2>2
<1>4. Cardinality(Orphans') <= Cardinality(Orphans \cup {tmp[d]})
  BY <1>1, <1>3, FS_Subset
<1>5. /\ Cardinality(Orphans) \in Nat /\ Cardinality(Orphans') \in Nat
      /\ Cardinality(Orphans \cup {tmp[d]}) \in Nat
  BY <1>1, <1>2, <1>3, FS_Subset, FS_CardinalityType
<1>6. Cardinality(Orphans') <= crashes' + kept'
  BY <1>3, <1>4, <1>5 DEF TempInv, TypeOK
<1>7. \A e \in Daemons : wr'[e] = "none" => tmp'[e] = NoFile
  BY DEF TempInv, TypeOK
<1> QED
  BY <1>2, <1>6, <1>7 DEF TempInv

LEMMA TempStep == TypeOK /\ TempInv /\ [Next]_vars => TempInv'
<1> SUFFICES ASSUME TypeOK, TempInv, [Next]_vars PROVE TempInv'
  OBVIOUS
<1> DEFINE Idle == \A d \in Daemons : wr[d] = "none" => tmp[d] = NoFile
<1>0. Idle /\ temps \subseteq Files /\ NoFile \notin temps
  BY ConstAssumption DEF TempInv, TypeOK
<1>1. ASSUME NEW d \in Daemons, CreateTemp(d) PROVE TempInv'
  <2>1. PICK f \in Files \ InUse :
          temps' = temps \cup {f} /\ tmp' = [tmp EXCEPT ![d] = f]
    BY <1>1 DEF CreateTemp
  <2>2. /\ wr' = [wr EXCEPT ![d] = "encode"] /\ tmp[d] = NoFile
        /\ UNCHANGED <<crashes, kept>>
    BY <1>0, <1>1 DEF CreateTemp, NoFault
  <2>3. Orphans' \subseteq Orphans
    BY <1>0, <2>1, <2>2 DEF Orphans, TypeOK
  <2>4. Idle'
    BY <1>0, <2>1, <2>2 DEF TypeOK
  <2> QED
    BY <2>1, <2>2, <2>3, <2>4, NoNewOrphan DEF TempInv
<1>2. ASSUME NEW d \in Daemons, Rename(d) PROVE TempInv'
  <2>1. /\ temps' = temps \ {tmp[d]} /\ tmp' = tmp /\ UNCHANGED <<crashes, kept>>
        /\ wr' = [wr EXCEPT ![d] = "unlink"]
    BY <1>2 DEF Rename, NoFault
  <2>2. Orphans' \subseteq Orphans /\ temps' \subseteq temps \cup {NoFile}
    BY <2>1 DEF Orphans
  <2>3. Idle'
    BY <1>0, <2>1 DEF TypeOK
  <2> QED
    BY <2>1, <2>2, <2>3, NoNewOrphan DEF TempInv
<1>3. ASSUME NEW d \in Daemons, Unlink(d) PROVE TempInv'
  <2>1. /\ temps' = temps \ {tmp[d]} /\ tmp' = [tmp EXCEPT ![d] = NoFile]
        /\ wr' = [wr EXCEPT ![d] = "none"] /\ UNCHANGED <<crashes, kept>>
    BY <1>3 DEF Unlink, countVars
  <2>2. Orphans' \subseteq Orphans /\ temps' \subseteq temps \cup {NoFile}
    BY <2>1 DEF Orphans, TypeOK
  <2>3. Idle'
    BY <1>0, <2>1 DEF TypeOK
  <2> QED
    BY <2>1, <2>2, <2>3, NoNewOrphan DEF TempInv
<1>4. ASSUME NEW d \in Daemons, Crash(d) \/ UnlinkFails(d) PROVE TempInv'
  BY <1>4, OneOrphan DEF Crash, UnlinkFails, Keep, dirVars
<1>5. ASSUME NEW d \in Daemons, Reap(d) PROVE TempInv'
  <2>1. /\ temps' \in {temps, {}} /\ tmp' = tmp /\ wr' = wr
        /\ UNCHANGED <<crashes, kept>>
    BY <1>5 DEF Reap, dirVars, countVars
  <2>2. Orphans' \subseteq Orphans /\ temps' \subseteq temps \cup {NoFile}
    BY <2>1 DEF Orphans
  <2> QED
    BY <1>0, <2>1, <2>2, NoNewOrphan DEF TempInv
<1>6. ASSUME temps' = temps, tmp' = tmp, crashes' = crashes, kept' \in {kept, kept + 1},
             \A d \in Daemons : wr'[d] = "none" => wr[d] = "none"
      PROVE  TempInv'
  <2>1. Orphans' = Orphans /\ Cardinality(Orphans) \in Nat
    BY <1>6, FS_Difference, FS_CardinalityType DEF TempInv, Orphans
  <2>2. Cardinality(Orphans') = Cardinality(Orphans)
    BY <2>1, Zenon
  <2>3. Cardinality(Orphans) <= crashes + kept /\ crashes \in Nat /\ kept \in Nat
    BY DEF TempInv, TypeOK
  <2>4. Cardinality(Orphans) <= crashes' + kept'
    BY <1>6, <2>1, <2>3
  <2> QED
    BY <1>0, <1>6, <2>2, <2>4 DEF TempInv
<1>7. ASSUME NEW d \in Daemons, Encode(d) \/ EncodeFails(d) \/ RenameFails(d)
      PROVE  TempInv'
  BY <1>6, <1>7 DEF Encode, EncodeFails, RenameFails, Fault, NoFault, dirVars, TypeOK
<1>8. ASSUME NEW d \in Daemons,
             \/ CreateTempFails(d) \/ Start(d) \/ Flock(d) \/ Flush(d)
             \/ Stop(d) \/ RemoveState(d) \/ RemoveStateFails(d) \/ CloseLock(d)
      PROVE  TempInv'
  <2>1. temps' = temps /\ tmp' = tmp /\ wr' = wr
    BY <1>8 DEF CreateTempFails, Start, Flock, Flush, Stop, RemoveState,
         RemoveStateFails, CloseLock, dirVars
  <2>2. crashes' = crashes /\ (kept' = kept \/ kept' = kept + 1)
    BY <1>8 DEF CreateTempFails, Start, Flock, Flush, Stop, RemoveState,
         RemoveStateFails, CloseLock, Fault, Keep, countVars
  <2> QED
    BY <1>6, <2>1, <2>2 DEF TypeOK
<1>9. ASSUME NEW r \in Readers, Open(r) \/ Decode(r) PROVE TempInv'
  BY <1>6, <1>9 DEF Open, Decode, dirVars, procVars, countVars, TypeOK
<1>10. CASE UNCHANGED vars
  BY <1>6, <1>10 DEF vars, dirVars, procVars, countVars, TypeOK
<1> QED
  BY <1>1, <1>2, <1>3, <1>4, <1>5, <1>7, <1>8, <1>9, <1>10
     DEF Next, WriteStep, LifeStep

\* Every entry is an orphan or the file of one of the calls in progress.
LEMMA EntriesOwned == TypeOK /\ TempInv => NoTempLeftBehind
<1> SUFFICES ASSUME TypeOK, TempInv PROVE NoTempLeftBehind
  OBVIOUS
<1> DEFINE Owned == temps \cap {tmp[d] : d \in Daemons}
           Owners == {d \in InCall : tmp[d] \in temps}
           F == [d \in Owners |-> tmp[d]]
<1>1. IsFiniteSet(InCall) /\ IsFiniteSet(Owners) /\ Cardinality(Owners) <= Cardinality(InCall)
  <2>1. IsFiniteSet(InCall)
    BY ConstAssumption, FS_Subset DEF InCall
  <2> QED
    BY <2>1, FS_Subset
<1>2. F \in Surjection(Owners, Owned)
  <2>1. F \in [Owners -> Owned]
    BY DEF InCall
  <2>2. ASSUME NEW f \in Owned PROVE \E d \in Owners : F[d] = f
    <3>1. PICK d \in Daemons : tmp[d] = f
      OBVIOUS
    <3>2. wr[d] # "none"
      BY <3>1, ConstAssumption DEF TempInv, TypeOK
    <3> QED
      BY <3>1, <3>2 DEF InCall
  <2> QED
    BY <2>1, <2>2 DEF Surjection
<1>3. IsFiniteSet(Owned) /\ Cardinality(Owned) <= Cardinality(Owners)
  BY <1>1, <1>2, FS_Surjection
<1>4. IsFiniteSet(Orphans) /\ temps = Orphans \cup Owned /\ Orphans \cap Owned = {}
  BY FS_Difference DEF TempInv, Orphans
<1>5. Cardinality(temps) = Cardinality(Orphans) + Cardinality(Owned) - 0
  BY <1>3, <1>4, FS_Union, FS_EmptySet
<1>6. /\ Cardinality(Orphans) \in Nat /\ Cardinality(Owned) \in Nat
      /\ Cardinality(Owners) \in Nat /\ Cardinality(InCall) \in Nat
  BY <1>1, <1>3, <1>4, FS_CardinalityType
<1>7. Cardinality(Orphans) <= crashes + kept /\ crashes \in Nat /\ kept \in Nat
  BY DEF TempInv, TypeOK
<1> HIDE DEF Owned, Owners, F
<1> QED
  BY <1>1, <1>3, <1>5, <1>6, <1>7 DEF NoTempLeftBehind, InCall

\* WriteAtomic cleans up: a .state-*.tmp entry belongs to a call in progress or
\* was left by a kill or by a removal that failed, one for each at most, for any
\* number of daemons, failing system calls and changes of the directory.
THEOREM TempsAreOwned == Spec => []NoTempLeftBehind
<1>1. Init => TempInv
  <2> SUFFICES ASSUME Init PROVE TempInv
    OBVIOUS
  <2>1. temps = {} /\ Orphans = {} /\ crashes = 0 /\ kept = 0
    BY DEF Init, Orphans
  <2>2. IsFiniteSet({}) /\ Cardinality({}) = 0
    BY FS_EmptySet
  <2> QED
    BY <2>1, <2>2 DEF Init, TempInv
<1> QED
  BY <1>1, TypeCorrect, TempStep, EntriesOwned, PTL DEF Spec

----------------------------------------------------------------------------
(* Complete files. *)

\* What is about to be renamed is complete, and CreateTemp's inode is free.
FileInv ==
  /\ NeverPartial
  /\ \A d \in Daemons :
       /\ wr[d] \in {"encode", "rename"} => tmp[d] \in Files
       /\ wr[d] = "rename" => content[tmp[d]] # 0

LEMMA FileStep == TypeOK /\ FileInv /\ [Next]_vars => FileInv'
<1> SUFFICES ASSUME TypeOK, FileInv, [Next]_vars PROVE FileInv'
  OBVIOUS
<1> USE ConstAssumption DEF TypeOK, FileInv, NeverPartial
<1>1. ASSUME NEW d \in Daemons, CreateTemp(d) PROVE FileInv'
  <2>1. PICK f \in Files \ InUse :
          /\ content' = [content EXCEPT ![f] = 0]
          /\ tmp' = [tmp EXCEPT ![d] = f]
    BY <1>1 DEF CreateTemp
  <2>2. /\ wr' = [wr EXCEPT ![d] = "encode"]
        /\ public' = public /\ rfile' = rfile
    BY <1>1 DEF CreateTemp, readVars
  <2>3. /\ public # f
        /\ \A r \in Readers : rfile[r] # f
        /\ \A e \in Daemons : tmp[e] # f
    BY <2>1 DEF InUse
  <2> QED
    BY <2>1, <2>2, <2>3
<1>2. ASSUME NEW d \in Daemons, Encode(d) PROVE FileInv'
  <2>1. /\ tmp[d] \in Files /\ clock + 1 # 0
        /\ content' = [content EXCEPT ![tmp[d]] = clock + 1]
        /\ wr' = [wr EXCEPT ![d] = "rename"]
        /\ public' = public /\ rfile' = rfile /\ tmp' = tmp
    BY <1>2 DEF Encode, dirVars, readVars
  <2> QED
    BY <2>1
<1>3. ASSUME NEW d \in Daemons, Rename(d) PROVE FileInv'
  BY <1>3 DEF Rename, readVars
<1>4. ASSUME NEW d \in Daemons, EncodeFails(d) \/ RenameFails(d) PROVE FileInv'
  BY <1>4 DEF EncodeFails, RenameFails, dirVars, readVars
<1>5. ASSUME NEW d \in Daemons, Unlink(d) \/ UnlinkFails(d) PROVE FileInv'
  BY <1>5 DEF Unlink, UnlinkFails, dirVars, readVars
<1>6. ASSUME NEW d \in Daemons, Crash(d) PROVE FileInv'
  BY <1>6 DEF Crash, dirVars, readVars
<1>7. ASSUME NEW d \in Daemons,
             \/ CreateTempFails(d) \/ Start(d) \/ Flock(d) \/ Reap(d)
             \/ Flush(d) \/ Stop(d) \/ RemoveState(d) \/ RemoveStateFails(d)
             \/ CloseLock(d)
      PROVE FileInv'
  BY <1>7 DEF CreateTempFails, Start, Flock, Reap, Flush, Stop, RemoveState,
              RemoveStateFails, CloseLock, dirVars, readVars
<1>8. ASSUME NEW r \in Readers, Open(r) \/ Decode(r) PROVE FileInv'
  BY <1>8 DEF Open, Decode, procVars, dirVars
<1>9. CASE UNCHANGED vars
  BY <1>9 DEF vars, procVars, dirVars, readVars
<1> QED
  BY <1>1, <1>2, <1>3, <1>4, <1>5, <1>6, <1>7, <1>8, <1>9
     DEF Next, WriteStep, LifeStep

\* The public state file and every file a reader has open are complete, for
\* any number of writers, readers, crashes and errors.
THEOREM CompleteFiles == Spec => []NeverPartial
<1>1. Init => FileInv
  BY ConstAssumption DEF Init, FileInv, NeverPartial
<1>2. FileInv => NeverPartial
  BY DEF FileInv
<1> QED
  BY <1>1, <1>2, TypeCorrect, FileStep, PTL DEF Spec

----------------------------------------------------------------------------
(* The writer's own snapshot. *)

\* d has published in this life and has not begun to shut down.
Standing(d) ==
  \/ pc[d] \in {"initial", "serve", "flush", "final", "remove"}
  \/ pc[d] = "startup" /\ wr[d] = "unlink" /\ ok[d]

\* PublishedStands from the moment of the first rename on; a file being
\* written is not the public one.
StandInv ==
  \A d \in Daemons :
    /\ Standing(d) => public # NoFile /\ content[public] = last[d]
    /\ pc[d] = "close" =>
         public = NoFile \/ (kept > 0 /\ content[public] = last[d])
    /\ wr[d] \in {"encode", "rename"} => tmp[d] # public

LEMMA StandStep ==
  ASSUME Stable, TypeOK, CallInv, AtMostOneWriter, FileInv, StandInv, [Next]_vars
  PROVE  StandInv'
<1> USE ConstAssumption
    DEF TypeOK, CallInv, StandInv, Standing, Writer, Locked, Writing,
        Fault, NoFault, countVars
<1>1. ASSUME NEW d \in Daemons, CreateTemp(d) PROVE StandInv'
  <2>1. PICK f \in Files \ InUse :
          /\ content' = [content EXCEPT ![f] = 0]
          /\ tmp' = [tmp EXCEPT ![d] = f]
    BY <1>1 DEF CreateTemp
  <2>2. /\ wr' = [wr EXCEPT ![d] = "encode"]
        /\ public' = public /\ pc' = pc /\ ok' = ok /\ last' = last /\ kept' = kept
        /\ wr[d] = "none"
    BY <1>1 DEF CreateTemp
  <2>3. public # f
    BY <2>1 DEF InUse
  <2>4. public # NoFile => content'[public'] = content[public]
    BY <2>1, <2>2, <2>3
  <2> QED
    BY <2>1, <2>2, <2>3, <2>4
<1>2. ASSUME NEW d \in Daemons, Encode(d) PROVE StandInv'
  <2>1. /\ tmp[d] \in Files /\ tmp[d] # public
        /\ content' = [content EXCEPT ![tmp[d]] = clock + 1]
        /\ wr' = [wr EXCEPT ![d] = "rename"] /\ wr[d] = "encode"
        /\ public' = public /\ pc' = pc /\ ok' = ok /\ last' = last /\ tmp' = tmp
        /\ kept' = kept
    BY <1>2 DEF Encode, dirVars, FileInv
  <2>2. public # NoFile => content'[public'] = content[public]
    BY <2>1
  <2> QED
    BY <2>1, <2>2
<1>3. ASSUME NEW d \in Daemons, Rename(d) PROVE StandInv'
  <2>1. /\ tmp[d] \in Files /\ public' = tmp[d]
        /\ last' = [last EXCEPT ![d] = content[tmp[d]]]
        /\ wr' = [wr EXCEPT ![d] = "unlink"] /\ wr[d] = "rename"
        /\ ok' = [ok EXCEPT ![d] = TRUE]
        /\ content' = content /\ pc' = pc /\ tmp' = tmp
    BY <1>3 DEF Rename, FileInv
  <2>2. pc[d] \in Writing /\ \A e \in Daemons : Writer(e) => e = d
    BY <2>1 DEF AtMostOneWriter
  <2> QED
    BY <2>1, <2>2
<1>4. ASSUME NEW d \in Daemons, EncodeFails(d) \/ RenameFails(d) PROVE StandInv'
  BY <1>4 DEF EncodeFails, RenameFails, dirVars
<1>5. ASSUME NEW d \in Daemons, Unlink(d) \/ UnlinkFails(d) PROVE StandInv'
  BY <1>5 DEF Unlink, UnlinkFails, Keep, Return, dirVars
<1>6. ASSUME NEW d \in Daemons, CreateTempFails(d) PROVE StandInv'
  BY <1>6 DEF CreateTempFails, Return, dirVars
<1>7. ASSUME NEW d \in Daemons, Start(d) \/ Flock(d) \/ Crash(d) PROVE StandInv'
  BY <1>7 DEF Start, Flock, Crash, dirVars
<1>8. ASSUME NEW d \in Daemons, Reap(d) PROVE StandInv'
  BY <1>8 DEF Reap, dirVars, Stable
<1>9. ASSUME NEW d \in Daemons, Flush(d) \/ Stop(d) \/ CloseLock(d) PROVE StandInv'
  BY <1>9 DEF Flush, Stop, CloseLock, dirVars
<1>10. ASSUME NEW d \in Daemons, RemoveState(d) \/ RemoveStateFails(d) PROVE StandInv'
  BY <1>10 DEF RemoveState, RemoveStateFails, Keep, dirVars, AtMostOneWriter
<1>11. ASSUME NEW r \in Readers, Open(r) \/ Decode(r) PROVE StandInv'
  BY <1>11 DEF Open, Decode, procVars, dirVars
<1>12. CASE UNCHANGED vars
  BY <1>12 DEF vars, procVars, dirVars
<1> QED
  BY <1>1, <1>2, <1>3, <1>4, <1>5, <1>6, <1>7, <1>8, <1>9, <1>10, <1>11, <1>12
     DEF Next, WriteStep, LifeStep

\* Where the directory is nobody's RuntimeDirectory, a writer finds its own
\* last snapshot at the state path until it removes it itself, and gives the
\* lock back only afterwards.
THEOREM OwnSnapshotStands == ASSUME Stable PROVE Spec => []PublishedStands
<1>1. Init => StandInv /\ FileInv
  BY ConstAssumption DEF Init, StandInv, Standing, FileInv, NeverPartial
<1>2. StandInv => PublishedStands
  BY DEF StandInv, Standing, PublishedStands
<1>3. /\ TypeOK /\ CallInv /\ AtMostOneWriter /\ FileInv /\ StandInv
      /\ [Next]_vars
      => StandInv'
  BY StandStep, Stable
<1> QED
  BY <1>1, <1>2, <1>3, TypeCorrect, CallCorrect, OneWriter, FileStep, Stable,
     PTL DEF Spec

----------------------------------------------------------------------------
(* The order of snapshots, and the abstract register. *)

\* Stamps grow from what a reader has seen to what it has open, to the public
\* file, to what is about to replace it; and nobody reads a file being written.
OrderInv ==
  /\ \A f \in Files : content[f] <= clock
  /\ \A r \in Readers :
       /\ seen[r] <= clock
       /\ rfile[r] # NoFile => seen[r] <= content[rfile[r]]
       /\ public # NoFile =>
            /\ seen[r] <= content[public]
            /\ rfile[r] # NoFile => content[rfile[r]] <= content[public]
  /\ \A d \in Daemons :
       /\ wr[d] \in {"encode", "rename"} => \A r \in Readers : rfile[r] # tmp[d]
       /\ wr[d] = "rename" =>
            /\ public # NoFile => content[public] < content[tmp[d]]
            /\ \A r \in Readers :
                 /\ seen[r] < content[tmp[d]]
                 /\ rfile[r] # NoFile => content[rfile[r]] < content[tmp[d]]

\* All that the order rests on, for one directory.
RegisterInv ==
  TypeOK /\ CallInv /\ AtMostOneWriter /\ FileInv /\ StandInv /\ OrderInv

\* What a step leaves alone when it touches no file that is in use.
LEMMA OrderKept ==
  ASSUME OrderInv,
         UNCHANGED <<public, content, clock, rfile, seen>>,
         \A d \in Daemons : wr'[d] \in {"encode", "rename"} =>
                                wr'[d] = wr[d] /\ tmp'[d] = tmp[d]
  PROVE  OrderInv'
BY DEF OrderInv

LEMMA OrderStep == ASSUME Stable, RegisterInv, [Next]_vars PROVE OrderInv'
<1> USE ConstAssumption DEF RegisterInv, TypeOK
<1>1. ASSUME NEW d \in Daemons, CreateTemp(d) PROVE OrderInv'
  <2>1. PICK f \in Files \ InUse :
          /\ content' = [content EXCEPT ![f] = 0]
          /\ tmp' = [tmp EXCEPT ![d] = f]
    BY <1>1 DEF CreateTemp
  <2>2. /\ wr' = [wr EXCEPT ![d] = "encode"]
        /\ public' = public /\ rfile' = rfile /\ seen' = seen /\ clock' = clock
    BY <1>1 DEF CreateTemp, readVars
  <2>3. /\ public # f
        /\ \A r \in Readers : rfile[r] # f
        /\ \A e \in Daemons : tmp[e] # f
    BY <2>1 DEF InUse
  <2>4. \A g \in Files : content'[g] = IF g = f THEN 0 ELSE content[g]
    BY <2>1
  <2>5. \A e \in Daemons : wr[e] = "rename" => tmp[e] \in Files
    BY DEF FileInv
  <2> QED
    BY <2>1, <2>2, <2>3, <2>4, <2>5 DEF OrderInv
<1>2. ASSUME NEW d \in Daemons, Encode(d) PROVE OrderInv'
  <2>1. /\ tmp[d] \in Files /\ tmp[d] # public
        /\ content' = [content EXCEPT ![tmp[d]] = clock + 1]
        /\ wr' = [wr EXCEPT ![d] = "rename"] /\ wr[d] = "encode"
        /\ public' = public /\ tmp' = tmp /\ clock' = clock + 1
        /\ rfile' = rfile /\ seen' = seen
    BY <1>2 DEF Encode, dirVars, readVars, FileInv, StandInv
  <2>2. \A e \in Daemons : wr[e] # "none" => e = d
    BY <2>1 DEF AtMostOneWriter, CallInv, Writer, Locked
  <2>3. \A g \in Files : content'[g] = IF g = tmp[d] THEN clock + 1 ELSE content[g]
    BY <2>1
  <2>4. \A r \in Readers : rfile[r] # tmp[d]
    BY <2>1 DEF OrderInv
  <2> QED
    BY <2>1, <2>2, <2>3, <2>4 DEF OrderInv
<1>3. ASSUME NEW d \in Daemons, Rename(d) PROVE OrderInv'
  <2>1. /\ tmp[d] \in Files /\ public' = tmp[d]
        /\ wr' = [wr EXCEPT ![d] = "unlink"] /\ wr[d] = "rename"
        /\ UNCHANGED <<content, clock, rfile, seen, tmp>>
    BY <1>3 DEF Rename, FileInv, readVars
  <2>2. \A e \in Daemons : wr[e] # "none" => e = d
    BY <2>1 DEF AtMostOneWriter, CallInv, Writer, Locked
  <2> QED
    BY <2>1, <2>2 DEF OrderInv
<1>4. ASSUME NEW d \in Daemons, RemoveState(d) PROVE OrderInv'
  BY <1>4 DEF RemoveState, readVars, countVars, OrderInv
<1>5. ASSUME NEW r \in Readers, Open(r) PROVE OrderInv'
  BY <1>5 DEF Open, dirVars, procVars, countVars, OrderInv, StandInv
<1>6. ASSUME NEW r \in Readers, Decode(r) PROVE OrderInv'
  <2>1. /\ UNCHANGED <<public, content, clock, wr, tmp>>
        /\ rfile[r] \in Files
    BY <1>6 DEF Decode, dirVars, procVars, countVars
  <2>2. \A q \in Readers : rfile'[q] = IF q = r THEN NoFile ELSE rfile[q]
    BY <1>6 DEF Decode
  <2>3. \A q \in Readers :
          seen'[q] = seen[q] \/ (q = r /\ seen'[q] = content[rfile[r]])
    BY <1>6 DEF Decode
  <2>4. ASSUME NEW q \in Readers
        PROVE  /\ seen'[q] <= clock
               /\ rfile'[q] # NoFile => seen'[q] <= content[rfile'[q]]
               /\ public # NoFile =>
                    /\ seen'[q] <= content[public]
                    /\ rfile'[q] # NoFile => content[rfile'[q]] <= content[public]
    BY <2>1, <2>2, <2>3 DEF OrderInv
  <2>5. ASSUME NEW d \in Daemons, NEW q \in Readers
        PROVE  /\ wr[d] \in {"encode", "rename"} => rfile'[q] # tmp[d]
               /\ wr[d] = "rename" =>
                    /\ seen'[q] < content[tmp[d]]
                    /\ rfile'[q] # NoFile => content[rfile'[q]] < content[tmp[d]]
    BY <2>1, <2>2, <2>3 DEF OrderInv, FileInv
  <2> QED
    BY <2>1, <2>4, <2>5 DEF OrderInv
<1>7. ASSUME NEW d \in Daemons,
             \/ CreateTempFails(d) \/ EncodeFails(d) \/ RenameFails(d)
             \/ Start(d) \/ Flock(d) \/ Flush(d) \/ Stop(d) \/ CloseLock(d)
      PROVE OrderInv'
  BY <1>7, OrderKept
     DEF CreateTempFails, EncodeFails, RenameFails, Start, Flock, Flush, Stop,
         CloseLock, dirVars, readVars, countVars
<1>8. ASSUME NEW d \in Daemons,
             \/ Unlink(d) \/ UnlinkFails(d) \/ RemoveStateFails(d)
             \/ Crash(d) \/ Reap(d)
      PROVE OrderInv'
  BY <1>8, OrderKept
     DEF Unlink, UnlinkFails, RemoveStateFails, Crash, Reap, Stable, dirVars, readVars,
         countVars
<1>9. CASE UNCHANGED vars
  BY <1>9, OrderKept DEF vars, dirVars, procVars, readVars, countVars
<1> QED
  BY <1>1, <1>2, <1>3, <1>4, <1>5, <1>6, <1>7, <1>8, <1>9
     DEF Next, WriteStep, LifeStep

LEMMA RegisterCorrect == ASSUME Stable PROVE Spec => []RegisterInv
<1>1. Init => CallInv /\ FileInv /\ StandInv /\ OrderInv
  BY ConstAssumption
     DEF Init, CallInv, StandInv, Standing, FileInv, NeverPartial, OrderInv
<1>2. TypeOK /\ CallInv /\ AtMostOneWriter /\ FileInv /\ StandInv /\ [Next]_vars
        => StandInv'
  BY StandStep, Stable
<1>3. RegisterInv /\ [Next]_vars => OrderInv'
  BY OrderStep, Stable
<1>4. RegisterInv <=>
        TypeOK /\ CallInv /\ AtMostOneWriter /\ FileInv /\ StandInv /\ OrderInv
  BY DEF RegisterInv
<1> QED
  BY <1>1, <1>2, <1>3, <1>4, TypeCorrect, CallCorrect, OneWriter, FileStep,
     Stable, PTL DEF Spec

\* In one directory no client ever goes back to an older snapshot.
THEOREM ReadsAreMonotonic == ASSUME Stable PROVE Spec => MonotonicReads
<1>1. RegisterInv /\ [Next]_vars => [\A r \in Readers : seen'[r] >= seen[r]]_vars
  <2> SUFFICES ASSUME RegisterInv, [Next]_vars
               PROVE \A r \in Readers : seen'[r] >= seen[r]
    OBVIOUS
  <2> USE DEF RegisterInv, TypeOK
  <2>1. ASSUME NEW r \in Readers, Decode(r) PROVE \A q \in Readers : seen'[q] >= seen[q]
    BY <2>1 DEF Decode, OrderInv
  <2>2. ASSUME NEW r \in Readers, Open(r) PROVE seen' = seen
    BY <2>2 DEF Open
  <2>3. ASSUME NEW d \in Daemons, WriteStep(d) \/ LifeStep(d) PROVE seen' = seen
    BY <2>3 DEF WriteStep, CreateTemp, CreateTempFails, Encode, EncodeFails,
         Rename, RenameFails, Unlink, UnlinkFails, LifeStep, Start, Flock, Crash,
         Reap, Flush, Stop, RemoveState, RemoveStateFails, CloseLock, readVars
  <2>4. CASE UNCHANGED vars
    BY <2>4 DEF vars, readVars
  <2> QED
    BY <2>1, <2>2, <2>3, <2>4 DEF Next
<1> QED
  BY <1>1, RegisterCorrect, Stable, PTL DEF Spec, MonotonicReads

\* The abstract register's variables, under names of their own.
RValue == IF public = NoFile THEN 0 ELSE content[public]
RGot == [r \in Readers |-> IF rfile[r] = NoFile THEN seen[r] ELSE content[rfile[r]]]

LEMMA RegisterStep ==
  ASSUME Stable, RegisterInv, [Next]_vars
  PROVE  Register!Next \/ UNCHANGED <<RValue, RGot>>
<1> USE ConstAssumption DEF RegisterInv, TypeOK, RValue, RGot
<1>1. ASSUME UNCHANGED <<public, content, rfile, seen>>
      PROVE  UNCHANGED <<RValue, RGot>>
  BY <1>1
<1>2. ASSUME NEW d \in Daemons, CreateTemp(d) PROVE UNCHANGED <<RValue, RGot>>
  <2>1. PICK f \in Files \ InUse : content' = [content EXCEPT ![f] = 0]
    BY <1>2 DEF CreateTemp
  <2>2. UNCHANGED <<public, rfile, seen>>
    BY <1>2 DEF CreateTemp, readVars
  <2>3. public # f /\ \A r \in Readers : rfile[r] # f
    BY <2>1 DEF InUse
  <2> QED
    BY <2>1, <2>2, <2>3
<1>3. ASSUME NEW d \in Daemons, Encode(d) PROVE UNCHANGED <<RValue, RGot>>
  <2>1. /\ tmp[d] # public
        /\ \A r \in Readers : rfile[r] # tmp[d]
    BY <1>3 DEF Encode, StandInv, OrderInv
  <2>2. /\ content' = [content EXCEPT ![tmp[d]] = clock + 1]
        /\ UNCHANGED <<public, rfile, seen>>
    BY <1>3 DEF Encode, dirVars, readVars
  <2>3. tmp[d] \in Files
    BY <1>3 DEF Encode, FileInv
  <2>4. \A f \in Files : f # tmp[d] => content'[f] = content[f]
    BY <2>2, <2>3
  <2> QED
    BY <2>1, <2>2, <2>4
<1>4. ASSUME NEW d \in Daemons, Rename(d) PROVE Register!Publish
  <2>1. /\ public' = tmp[d] /\ tmp[d] \in Files /\ wr[d] = "rename"
        /\ UNCHANGED <<content, rfile, seen>>
    BY <1>4 DEF Rename, FileInv, readVars
  <2>2. content[tmp[d]] \in Nat /\ content[tmp[d]] > 0
    BY <2>1 DEF FileInv
  <2>3. RValue' = content[tmp[d]] /\ RGot' = RGot
    BY <2>1
  <2>4. content[tmp[d]] > RValue
    BY <2>1, <2>2 DEF OrderInv
  <2>5. \A r \in Readers : content[tmp[d]] > RGot[r]
    BY <2>1, <2>2 DEF OrderInv
  <2> QED
    BY <2>2, <2>3, <2>4, <2>5 DEF Register!Publish
<1>5. ASSUME NEW d \in Daemons, RemoveState(d) PROVE Register!Withdraw
  BY <1>5 DEF RemoveState, readVars, Register!Withdraw, Register!NoState
<1>6. ASSUME NEW r \in Readers, Open(r) PROVE Register!Read(r)
  <2>1. /\ public # NoFile /\ rfile[r] = NoFile
        /\ rfile' = [rfile EXCEPT ![r] = public]
        /\ UNCHANGED <<public, content, seen>>
    BY <1>6 DEF Open, dirVars
  <2>2. RValue = content[public] /\ RValue # 0 /\ RValue' = RValue
    BY <2>1 DEF FileInv, NeverPartial
  <2>3. RGot' = [RGot EXCEPT ![r] = RValue]
    BY <2>1
  <2> QED
    BY <2>2, <2>3 DEF Register!Read, Register!NoState
<1>7. ASSUME NEW r \in Readers, Decode(r) PROVE UNCHANGED <<RValue, RGot>>
  <2>1. /\ rfile[r] # NoFile /\ content[rfile[r]] # 0
        /\ rfile' = [rfile EXCEPT ![r] = NoFile]
        /\ seen' = [seen EXCEPT ![r] = content[rfile[r]]]
        /\ UNCHANGED <<public, content>>
    BY <1>7 DEF Decode, dirVars, FileInv, NeverPartial
  <2> QED
    BY <2>1
<1>8. ASSUME NEW d \in Daemons,
             \/ CreateTempFails(d) \/ EncodeFails(d) \/ RenameFails(d)
             \/ Unlink(d) \/ UnlinkFails(d) \/ RemoveStateFails(d)
             \/ Start(d) \/ Flock(d) \/ Crash(d) \/ Reap(d)
             \/ Flush(d) \/ Stop(d) \/ CloseLock(d)
      PROVE UNCHANGED <<public, content, rfile, seen>>
  BY <1>8 DEF CreateTempFails, EncodeFails, RenameFails, Unlink, UnlinkFails,
       RemoveStateFails, Start, Flock, Crash, Reap, Flush, Stop, CloseLock, Stable,
       dirVars, readVars
<1>9. UNCHANGED vars => UNCHANGED <<public, content, rfile, seen>>
  BY DEF vars, dirVars, readVars
<1> QED
  BY <1>1, <1>2, <1>3, <1>4, <1>5, <1>6, <1>7, <1>8, <1>9
     DEF Next, WriteStep, LifeStep, Register!Next

\* In one directory the state file is an atomic register: every behaviour of
\* the writers and readers, system call by system call, is one in which
\* snapshots are published, withdrawn and read as a whole.
THEOREM StateFileImplementsRegister == ASSUME Stable PROVE Spec => ImplementsRegister
<1>1. Init => Register!Init
  BY DEF Init, Register!Init, Register!NoState
<1>2. RegisterInv /\ [Next]_vars => [Register!Next]_Register!avars
  BY RegisterStep, Stable DEF Register!avars, RValue, RGot
<1> QED
  BY <1>1, <1>2, RegisterCorrect, Stable, PTL
     DEF Spec, ImplementsRegister, Register!Spec
=============================================================================
