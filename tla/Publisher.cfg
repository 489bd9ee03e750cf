CONSTANTS
  Collectors = {main, docker}
  Immediate = {docker}
  MaxVersion = 3
  MaxErrors = 2
SPECIFICATION FairSpec
INVARIANTS NoLostUpdate ShutdownFlushed
PROPERTIES EveryUpdatePublished LoopStops
CHECK_DEADLOCK FALSE
