SPECIFICATION FairSpec
CHECK_DEADLOCK FALSE
CONSTANTS
  Thread <- PairThreads
  Root = 1
  Parent <- PairParent
  Below <- PairBelow
  Spawned <- PairSpawned
  Calls = {"message", "wait"}
  WaitModes = {"any"}
  Timers = {"none"}
  Faults = {}
  Outcomes = {"completed", "interrupted"}
  MaxTurns <- PerThread31
  MaxRequests = 2
  MaxWaits <- PerThread10
PROPERTIES WaitEnds FinalArrives
