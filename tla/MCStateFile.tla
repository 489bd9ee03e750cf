---------------------------- MODULE MCStateFile ----------------------------
(* Small instances of StateFile for TLC. *)
EXTENDS StateFile, TLC

\* Inodes are interchangeable, and so are readers.
Symm == Permutations(Readers) \cup Permutations(Files)
SymmGens == Symm \cup Permutations(Gens)

\* What no action and no property looks at is left out of a state's identity:
\* the bytes of an inode that nothing refers to, and what a dead process knew.
View ==
  << gen, lock, public, temps, pc, wr, ok, tmp, readVars, countVars,
     [f \in Files |-> IF f \in InUse THEN content[f] ELSE 0],
     [d \in Daemons |-> IF pc[d] \in Live THEN <<fd[d], last[d]>> ELSE <<>>] >>
=============================================================================
