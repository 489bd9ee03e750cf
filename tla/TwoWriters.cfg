CONSTANTS
  Daemons = {d1, d2}
  Readers = {r1}
  Units = {d1}
  DirIsRuntime = TRUE
  Gens = {g1, g2, g3}
  Files = {f1, f2, f3}
  NoOne = NoOne
  NoFile = NoFile
  MaxStamp = 3
  MaxCrashes = 0
  MaxErrors = 0
SYMMETRY SymmGens
VIEW View
SPECIFICATION Spec
INVARIANTS AtMostOneWriter
CHECK_DEADLOCK FALSE
