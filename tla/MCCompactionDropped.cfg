SPECIFICATION Spec
CHECK_DEADLOCK FALSE
CONSTANTS
  Thread <- PairThreads
  Root = 1
  Parent <- PairParent
  Below <- PairBelow
  Spawned <- PairSpawned
  Calls = {"compact", "human", "provider"}
  WaitModes = {"any"}
  Timers = {"none"}
  Faults = {"uncertain"}
  Outcomes = {"completed"}
  MaxTurns <- PerThread21
  MaxRequests = 2
  MaxWaits <- PerThread20
PROPERTIES UncertainCompactionKept
