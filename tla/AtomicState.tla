---------------------------- MODULE AtomicState ----------------------------
(***************************************************************************)
(* What the state file promises to a client: one register, written whole.  *)
(*                                                                         *)
(* The README of the program puts it so: readers see either the complete   *)
(* previous snapshot or the complete new snapshot.  Here a snapshot is     *)
(* known by its stamp, a positive number that grows with every encoding; 0 *)
(* stands for "no state file".  got[r] is the last snapshot reader r was   *)
(* handed, 0 before the first one.                                         *)
(***************************************************************************)
EXTENDS Naturals

CONSTANT Readers

VARIABLES value, got

avars == <<value, got>>

NoState == 0

Init == value = NoState /\ got = [r \in Readers |-> NoState]

\* A writer replaces the snapshot by one newer than anything ever handed out.
Publish ==
  /\ value' \in Nat
  /\ value' > value
  /\ \A r \in Readers : value' > got[r]
  /\ got' = got

\* The file is gone: a clean shutdown, or its directory was removed.
Withdraw == value' = NoState /\ got' = got

\* A read returns the register's value as a whole; there is no other way for
\* a reader to learn anything.
Read(r) ==
  /\ value # NoState
  /\ got' = [got EXCEPT ![r] = value]
  /\ value' = value

Next == Publish \/ Withdraw \/ \E r \in Readers : Read(r)

Spec == Init /\ [][Next]_avars
=============================================================================
