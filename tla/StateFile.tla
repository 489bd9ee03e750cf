----------------------------- MODULE StateFile -----------------------------
(***************************************************************************)
(* The state file: nasmond processes that take the writer lock, publish    *)
(* snapshots with WriteAtomic and withdraw the file when they stop, and    *)
(* the clients that read it (internal/statefile, cmd/nasmond/main.go).     *)
(*                                                                         *)
(* The directory is what the code names in it: the lock file, the public   *)
(* file and the temporary files, as entries that point at inodes.  A step  *)
(* is one system call, or several between which nobody else can see a      *)
(* difference.  Every one may fail, and a process may be killed between    *)
(* any two.                                                                *)
(***************************************************************************)
EXTENDS Naturals, FiniteSets

CONSTANTS
  Daemons,      \* the nasmond processes, each a series of lives
  Readers,      \* the processes that read the state file
  Units,        \* the daemons systemd restarts (Restart=on-failure)
  DirIsRuntime, \* the directory is the unit's RuntimeDirectory
  Gens,         \* generations of the directory, hence of the lock file's inode
  Files,        \* inodes of state files, temporary or public
  NoOne, NoFile,
  MaxStamp,     \* bound: no optional flush or manual start after this stamp
  MaxCrashes,   \* bound: in all, kills and failing removals, which leave a file
  MaxErrors     \* bound: other failing system calls in all

ASSUME ConstAssumption ==
  /\ IsFiniteSet(Daemons)
  /\ NoOne \notin Daemons
  /\ NoFile \notin Files
  /\ Units \subseteq Daemons
  /\ DirIsRuntime \in BOOLEAN
  /\ Gens # {}
  /\ MaxStamp \in Nat /\ MaxCrashes \in Nat /\ MaxErrors \in Nat

VARIABLES
  gen,      \* the generation of the directory that the path now names
  lock,     \* who holds the flock on each generation's nasmond.lock
  public,   \* the inode the state path names, or NoFile
  temps,    \* the inodes that have a .state-*.tmp entry
  content,  \* the stamp of the snapshot in each inode, 0 while incomplete
  pc,       \* where each daemon's main is
  wr,       \* where its WriteAtomic is
  ok,       \* what WriteAtomic is going to return
  fd,       \* the generation of the lock file it opened
  tmp,      \* the inode of its temporary file
  last,     \* the stamp of its last successful rename in this life
  rfile,    \* the inode each reader has open, or NoFile
  seen,     \* the stamp of the last snapshot each reader decoded
  clock,    \* the last stamp given: a count of encodings, in time order
  crashes, errors,
  kept      \* removals that failed

dirVars == <<gen, public, temps>>
procVars == <<pc, wr, ok, fd, tmp, last>>
readVars == <<rfile, seen>>
countVars == <<clock, crashes, errors, kept>>
vars == <<dirVars, lock, content, procVars, readVars, countVars>>

Writing == {"startup", "initial", "flush", "final"}  \* main calls WriteAtomic
Locked == Writing \cup {"serve", "remove", "close"}  \* main holds the lock
Live == Locked \cup {"flock"}
PCs == Live \cup {"off", "stopped", "failed", "restart"}

TypeOK ==
  /\ gen \in Gens
  /\ lock \in [Gens -> Daemons \cup {NoOne}]
  /\ public \in Files \cup {NoFile}
  /\ temps \subseteq Files
  /\ content \in [Files -> Nat]
  /\ pc \in [Daemons -> PCs]
  /\ wr \in [Daemons -> {"none", "encode", "rename", "unlink"}]
  /\ ok \in [Daemons -> BOOLEAN]
  /\ fd \in [Daemons -> Gens]
  /\ tmp \in [Daemons -> Files \cup {NoFile}]
  /\ last \in [Daemons -> Nat]
  /\ rfile \in [Readers -> Files \cup {NoFile}]
  /\ seen \in [Readers -> Nat]
  /\ clock \in Nat /\ crashes \in Nat /\ errors \in Nat /\ kept \in Nat

Init ==
  /\ gen \in Gens
  /\ lock = [g \in Gens |-> NoOne]
  /\ public = NoFile
  /\ temps = {}
  /\ content = [f \in Files |-> 0]
  /\ pc = [d \in Daemons |-> "off"]
  /\ wr = [d \in Daemons |-> "none"]
  /\ ok = [d \in Daemons |-> FALSE]
  /\ fd = [d \in Daemons |-> gen]
  /\ tmp = [d \in Daemons |-> NoFile]
  /\ last = [d \in Daemons |-> 0]
  /\ rfile = [r \in Readers |-> NoFile]
  /\ seen = [r \in Readers |-> 0]
  /\ clock = 0 /\ crashes = 0 /\ errors = 0 /\ kept = 0

\* A system call of daemon d fails: the error is counted, for the bound.
Fault == errors < MaxErrors /\ errors' = errors + 1 /\ kept' = kept
NoFault == UNCHANGED <<errors, kept>>

\* os.Remove fails, and its error is ignored.
Keep == crashes + kept < MaxCrashes /\ kept' = kept + 1 /\ errors' = errors

----------------------------------------------------------------------------
(* The life of a process. *)

\* AcquireWriterLock up to the open: the directory is made if need be, and
\* nasmond.lock created in it or opened.  After a clean exit somebody starts
\* the daemon by hand; after a failure systemd does it for a unit.
Start(d) ==
  /\ \/ pc[d] = "off" /\ clock < MaxStamp
     \/ pc[d] = "restart"
  /\ pc' = [pc EXCEPT ![d] = "flock"]
  /\ fd' = [fd EXCEPT ![d] = gen]
  /\ last' = [last EXCEPT ![d] = 0]
  /\ UNCHANGED <<dirVars, lock, content, wr, ok, tmp, readVars, countVars>>

\* Faulty variant: the lock is shared, so that every daemon gets it.
FlockShared(d) ==
  /\ pc[d] = "flock"
  /\ lock' = [lock EXCEPT ![fd[d]] = d]
  /\ pc' = [pc EXCEPT ![d] = "startup"]
  /\ UNCHANGED <<dirVars, content, wr, ok, fd, tmp, last, readVars, countVars>>

\* flock(LOCK_EX|LOCK_NB): taken if the inode's lock is free; else main
\* reports "another nasmond is already using" and exits with status 1.
Flock(d) ==
  /\ pc[d] = "flock"
  /\ IF lock[fd[d]] = NoOne
       THEN /\ lock' = [lock EXCEPT ![fd[d]] = d]
            /\ pc' = [pc EXCEPT ![d] = "startup"]
       ELSE /\ lock' = lock
            /\ pc' = [pc EXCEPT ![d] = "failed"]
  /\ UNCHANGED <<dirVars, content, wr, ok, fd, tmp, last, readVars, countVars>>

\* The kernel drops a process's flock when the process is gone.
Unlocked(d) ==
  [g \in Gens |-> IF lock[g] = d /\ fd[d] = g THEN NoOne ELSE lock[g]]

\* Faulty variant: the lock is a file that outlives its owner.
CrashKeepsLock(d) ==
  /\ crashes + kept < MaxCrashes
  /\ pc[d] \in Live
  /\ crashes' = crashes + 1
  /\ pc' = [pc EXCEPT ![d] = "failed"]
  /\ wr' = [wr EXCEPT ![d] = "none"]
  /\ tmp' = [tmp EXCEPT ![d] = NoFile]
  /\ UNCHANGED <<dirVars, lock, content, ok, fd, last, readVars, clock, errors, kept>>

\* SIGKILL, the OOM killer, a panic in a collector: no deferred call runs,
\* and a temporary file that exists stays.
Crash(d) ==
  /\ crashes + kept < MaxCrashes
  /\ pc[d] \in Live
  /\ crashes' = crashes + 1
  /\ pc' = [pc EXCEPT ![d] = "failed"]
  /\ wr' = [wr EXCEPT ![d] = "none"]
  /\ tmp' = [tmp EXCEPT ![d] = NoFile]
  /\ lock' = Unlocked(d)
  /\ UNCHANGED <<dirVars, content, ok, fd, last, readVars, clock, errors, kept>>

\* systemd sees a unit's process gone: it removes the unit's RuntimeDirectory
\* with all that is in it, and schedules a restart after a failure.  The path
\* then names another directory, whose nasmond.lock will be another inode.
Reap(d) ==
  /\ pc[d] \in {"stopped", "failed"}
  /\ pc' = [pc EXCEPT ![d] =
              IF d \in Units /\ pc[d] = "failed" THEN "restart" ELSE "off"]
  /\ IF d \in Units /\ DirIsRuntime
       THEN /\ gen' \in Gens \ ({gen} \cup {fd[e] : e \in {x \in Daemons : pc[x] \in Live}})
            /\ public' = NoFile
            /\ temps' = {}
       ELSE UNCHANGED dirVars
  /\ UNCHANGED <<lock, content, wr, ok, fd, tmp, last, readVars, countVars>>

----------------------------------------------------------------------------
(* WriteAtomic, called by main when pc[d] \in Writing. *)

\* What main does with the value WriteAtomic returns: os.Exit(1) at startup,
\* a report and another try at the next tick while serving.
Return(d, success) ==
  /\ pc' = [pc EXCEPT ![d] =
              CASE pc[d] = "startup" -> IF success THEN "initial" ELSE "failed"
                [] pc[d] = "initial" -> IF success THEN "serve" ELSE "failed"
                [] pc[d] = "flush" -> "serve"
                [] OTHER -> "remove"]
  /\ lock' = IF pc[d] \in {"startup", "initial"} /\ ~success
               THEN Unlocked(d) ELSE lock

InUse == {public} \cup temps \cup {tmp[d] : d \in Daemons}
           \cup {rfile[r] : r \in Readers}

\* Faulty variant: the public file is truncated and written in place.
WriteInPlace(d) ==
  /\ pc[d] \in Writing /\ wr[d] = "none"
  /\ NoFault
  /\ \E f \in IF public # NoFile THEN {public} ELSE Files \ InUse :
       /\ temps' = temps \cup {f}
       /\ content' = [content EXCEPT ![f] = 0]
       /\ tmp' = [tmp EXCEPT ![d] = f]
  /\ wr' = [wr EXCEPT ![d] = "encode"]
  /\ UNCHANGED <<gen, public, lock, pc, ok, fd, last, readVars, clock, crashes>>

\* ensureDir and CreateTemp: an empty file that no one else has open.
CreateTemp(d) ==
  /\ pc[d] \in Writing /\ wr[d] = "none"
  /\ NoFault
  /\ \E f \in Files \ InUse :
       /\ temps' = temps \cup {f}
       /\ content' = [content EXCEPT ![f] = 0]
       /\ tmp' = [tmp EXCEPT ![d] = f]
  /\ wr' = [wr EXCEPT ![d] = "encode"]
  /\ UNCHANGED <<gen, public, lock, pc, ok, fd, last, readVars, clock, crashes>>

CreateTempFails(d) ==
  /\ pc[d] \in Writing /\ wr[d] = "none"
  /\ Fault
  /\ Return(d, FALSE)
  /\ UNCHANGED <<dirVars, content, wr, ok, fd, tmp, last, readVars, clock, crashes>>

\* Chmod, Encode and Close: the snapshot is complete in the temporary file.
Encode(d) ==
  /\ wr[d] = "encode"
  /\ NoFault
  /\ clock' = clock + 1
  /\ content' = [content EXCEPT ![tmp[d]] = clock + 1]
  /\ wr' = [wr EXCEPT ![d] = "rename"]
  /\ UNCHANGED <<dirVars, lock, pc, ok, fd, tmp, last, readVars, crashes>>

\* Faulty variant: Encode's error is ignored.
EncodeErrorIgnored(d) ==
  /\ wr[d] = "encode"
  /\ Fault
  /\ wr' = [wr EXCEPT ![d] = "rename"]
  /\ UNCHANGED <<dirVars, lock, content, pc, ok, fd, tmp, last, readVars, clock, crashes>>

\* Faulty variant: the removal of the temporary file is not deferred.
EncodeErrorLeaks(d) ==
  /\ wr[d] = "encode"
  /\ Fault
  /\ wr' = [wr EXCEPT ![d] = "none"]
  /\ tmp' = [tmp EXCEPT ![d] = NoFile]
  /\ Return(d, FALSE)
  /\ UNCHANGED <<dirVars, content, ok, fd, last, readVars, clock, crashes>>

\* A full disk stops Encode half-way; the deferred Remove is next.
EncodeFails(d) ==
  /\ wr[d] = "encode"
  /\ Fault
  /\ wr' = [wr EXCEPT ![d] = "unlink"]
  /\ ok' = [ok EXCEPT ![d] = FALSE]
  /\ UNCHANGED <<dirVars, lock, content, pc, fd, tmp, last, readVars, clock, crashes>>

\* rename(2) replaces the public entry in one step.
Rename(d) ==
  /\ wr[d] = "rename"
  /\ NoFault
  /\ tmp[d] \in temps
  /\ public' = tmp[d]
  /\ temps' = temps \ {tmp[d]}
  /\ last' = [last EXCEPT ![d] = content[tmp[d]]]
  /\ wr' = [wr EXCEPT ![d] = "unlink"]
  /\ ok' = [ok EXCEPT ![d] = TRUE]
  /\ UNCHANGED <<gen, lock, content, pc, fd, tmp, readVars, clock, crashes>>

\* Faulty variant: the old file is removed before the new one is renamed.
RenameFailsAfterRemove(d) ==
  /\ wr[d] = "rename"
  /\ IF tmp[d] \in temps THEN Fault ELSE NoFault
  /\ public' = NoFile
  /\ wr' = [wr EXCEPT ![d] = "unlink"]
  /\ ok' = [ok EXCEPT ![d] = FALSE]
  /\ UNCHANGED <<gen, temps, lock, content, pc, fd, tmp, last, readVars, clock, crashes>>

\* rename(2) fails, always when the temporary name is gone.
RenameFails(d) ==
  /\ wr[d] = "rename"
  /\ IF tmp[d] \in temps THEN Fault ELSE NoFault
  /\ wr' = [wr EXCEPT ![d] = "unlink"]
  /\ ok' = [ok EXCEPT ![d] = FALSE]
  /\ UNCHANGED <<dirVars, lock, content, pc, fd, tmp, last, readVars, clock, crashes>>

\* The deferred os.Remove(tmpName), a no-op after a rename; then the return.
Unlink(d) ==
  /\ wr[d] = "unlink"
  /\ temps' = temps \ {tmp[d]}
  /\ tmp' = [tmp EXCEPT ![d] = NoFile]
  /\ wr' = [wr EXCEPT ![d] = "none"]
  /\ ok' = [ok EXCEPT ![d] = FALSE]
  /\ Return(d, ok[d])
  /\ UNCHANGED <<gen, public, content, fd, last, readVars, countVars>>

\* The same, but the file stays.
UnlinkFails(d) ==
  /\ wr[d] = "unlink" /\ tmp[d] \in temps
  /\ Keep
  /\ tmp' = [tmp EXCEPT ![d] = NoFile]
  /\ wr' = [wr EXCEPT ![d] = "none"]
  /\ ok' = [ok EXCEPT ![d] = FALSE]
  /\ Return(d, ok[d])
  /\ UNCHANGED <<dirVars, content, fd, last, readVars, clock, crashes>>

----------------------------------------------------------------------------
(* Serving and stopping.  When the loop flushes is Publisher's subject. *)

Flush(d) ==
  /\ pc[d] = "serve"
  /\ clock < MaxStamp
  /\ pc' = [pc EXCEPT ![d] = "flush"]
  /\ UNCHANGED <<dirVars, lock, content, wr, ok, fd, tmp, last, readVars, countVars>>

\* SIGTERM or SIGINT: publishUpdates returns, after a last flush if dirty.
Stop(d) ==
  /\ pc[d] = "serve"
  /\ \/ pc' = [pc EXCEPT ![d] = "final"]
     \/ pc' = [pc EXCEPT ![d] = "remove"]
  /\ UNCHANGED <<dirVars, lock, content, wr, ok, fd, tmp, last, readVars, countVars>>

\* Deferred calls run last to first: os.Remove(cfg.StateFile), lock.Close().
RemoveState(d) ==
  /\ pc[d] = "remove"
  /\ public' = NoFile
  /\ pc' = [pc EXCEPT ![d] = "close"]
  /\ UNCHANGED <<gen, temps, lock, content, wr, ok, fd, tmp, last, readVars, countVars>>

RemoveStateFails(d) ==
  /\ pc[d] = "remove"
  /\ Keep
  /\ pc' = [pc EXCEPT ![d] = "close"]
  /\ UNCHANGED <<dirVars, lock, content, wr, ok, fd, tmp, last, readVars, clock, crashes>>

CloseLock(d) ==
  /\ pc[d] = "close"
  /\ lock' = Unlocked(d)
  /\ pc' = [pc EXCEPT ![d] = "stopped"]
  /\ UNCHANGED <<dirVars, content, wr, ok, fd, tmp, last, readVars, countVars>>

----------------------------------------------------------------------------
(* ReadState: open, then decode what the open file holds. *)

Open(r) ==
  /\ rfile[r] = NoFile
  /\ public # NoFile
  /\ rfile' = [rfile EXCEPT ![r] = public]
  /\ UNCHANGED <<dirVars, lock, content, procVars, seen, countVars>>

\* A file that is not a complete document is an error, and the caller keeps
\* the snapshot it had.
Decode(r) ==
  /\ rfile[r] # NoFile
  /\ rfile' = [rfile EXCEPT ![r] = NoFile]
  /\ seen' = IF content[rfile[r]] # 0
               THEN [seen EXCEPT ![r] = content[rfile[r]]] ELSE seen
  /\ UNCHANGED <<dirVars, lock, content, procVars, countVars>>

----------------------------------------------------------------------------
WriteStep(d) ==
  \/ CreateTemp(d) \/ CreateTempFails(d)
  \/ Encode(d) \/ EncodeFails(d)
  \/ Rename(d) \/ RenameFails(d)
  \/ Unlink(d) \/ UnlinkFails(d)

LifeStep(d) ==
  \/ Start(d) \/ Flock(d) \/ Crash(d) \/ Reap(d)
  \/ Flush(d) \/ Stop(d) \/ RemoveState(d) \/ RemoveStateFails(d) \/ CloseLock(d)

Next ==
  \/ \E d \in Daemons : WriteStep(d) \/ LifeStep(d)
  \/ \E r \in Readers : Open(r) \/ Decode(r)

Spec == Init /\ [][Next]_vars

\* A process that can run does run, the kernel answers its calls, and systemd
\* restarts a failed unit.  Nobody has to flush, to stop, to crash, to start
\* by hand, or to read.
Progress(d) ==
  \/ Flock(d) \/ WriteStep(d) \/ RemoveState(d) \/ RemoveStateFails(d) \/ CloseLock(d)
  \/ Reap(d)
  \/ pc[d] = "restart" /\ Start(d)

FairSpec == Spec /\ \A d \in Daemons : WF_vars(Progress(d))

----------------------------------------------------------------------------
(* Properties. *)

Writer(d) == pc[d] \in Locked

\* README.md:41 "a second nasmond exits instead of creating duplicate
\* collectors": no two daemons are past AcquireWriterLock at once.
AtMostOneWriter ==
  \A d, e \in Daemons : Writer(d) /\ Writer(e) => d = e

\* The same for one directory: whatever happens to the path, two daemons
\* never hold the lock of one lock file.
ExclusiveInDir ==
  \A d, e \in Daemons : Writer(d) /\ Writer(e) /\ fd[d] = fd[e] => d = e

\* README.md:41 "readers see either the complete previous snapshot or the
\* complete new snapshot": the public entry, and any file a reader still has
\* open, is complete, whatever write, failure or crash is going on.
NeverPartial ==
  /\ public # NoFile => content[public] # 0
  /\ \A r \in Readers : rfile[r] # NoFile => content[rfile[r]] # 0

\* Between its startup write and its removal of the file the writer finds its
\* own last snapshot at the public path, and it lets go of the lock only when
\* the path is empty, or a removal failed and the path still has that snapshot:
\* the order of main's two deferred calls.
PublishedStands ==
  \A d \in Daemons :
    /\ pc[d] \in {"initial", "serve", "flush", "final", "remove"} =>
         public # NoFile /\ content[public] = last[d]
    /\ pc[d] = "close" =>
         public = NoFile \/ (kept > 0 /\ content[public] = last[d])

\* A .state-*.tmp entry belongs to a WriteAtomic in progress or was left by a
\* killed process or by a removal that failed: WriteAtomic removes it on every
\* path, those on which it fails and main then calls os.Exit included.
NoTempLeftBehind ==
  Cardinality(temps) <= Cardinality({d \in Daemons : wr[d] # "none"}) + crashes + kept

\* A client never goes back to an older snapshot, across flushes, restarts
\* and a change of daemon.
MonotonicReads == [][\A r \in Readers : seen'[r] >= seen[r]]_vars

\* The state file implements an atomic register: a read takes effect when the
\* file is opened.
Register == INSTANCE AtomicState WITH
  value <- IF public = NoFile THEN 0 ELSE content[public],
  got <- [r \in Readers |->
            IF rfile[r] = NoFile THEN seen[r] ELSE content[rfile[r]]]

ImplementsRegister == Register!Spec

\* After a unit fails, by a crash, an error at startup or a lock that was
\* taken, some daemon is again serving a state file.
FailedUnitRecovers ==
  \A u \in Units :
    pc[u] = "failed" ~> \E d \in Daemons : pc[d] = "serve" /\ public # NoFile
=============================================================================
