CONSTANTS
  Daemons = {d1, d2}
  Readers = {r1}
  Units = {d1}
  DirIsRuntime = FALSE
  Gens = {g1}
  Files = {f1, f2, f3, f4}
  NoOne = NoOne
  NoFile = NoFile
  MaxStamp = 4
  MaxCrashes = 1
  MaxErrors = 1
SYMMETRY Symm
VIEW View
SPECIFICATION Spec
CHECK_DEADLOCK FALSE
INVARIANTS AtMostOneWriter NeverPartial PublishedStands NoTempLeftBehind
PROPERTY ImplementsRegister
