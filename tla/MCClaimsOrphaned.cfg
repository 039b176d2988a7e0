SPECIFICATION Spec
CHECK_DEADLOCK FALSE
CONSTANTS
  Thread <- PairThreads
  Root = 1
  Parent <- PairParent
  Below <- PairBelow
  Spawned <- PairSpawned
  Calls = {"wait", "human", "message"}
  WaitModes = {"any"}
  Timers = {"none"}
  Faults = {"pause"}
  Outcomes = {"completed"}
  MaxTurns <- PerThread21
  MaxRequests = 3
  MaxWaits <- PerThread10
INVARIANTS ClaimsReleased
