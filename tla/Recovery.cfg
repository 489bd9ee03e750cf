CONSTANTS
  Daemons = {d1, d2}
  Readers = {}
  Units = {d1}
  DirIsRuntime = FALSE
  Gens = {g1}
  Files = {f1, f2, f3}
  NoOne = NoOne
  NoFile = NoFile
  MaxStamp = 3
  MaxCrashes = 1
  MaxErrors = 1
VIEW View
SPECIFICATION FairSpec
PROPERTIES FailedUnitRecovers
CHECK_DEADLOCK FALSE
