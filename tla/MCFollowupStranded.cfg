SPECIFICATION Spec
CHECK_DEADLOCK FALSE
CONSTANTS
  Thread <- PairThreads
  Root = 1
  Parent <- PairParent
  Below <- PairBelow
  Spawned <- PairSpawned
  Calls = {"followup"}
  WaitModes = {"any"}
  Timers = {"none"}
  Faults = {}
  Outcomes = {"completed"}
  MaxTurns <- PerThread11
  MaxRequests = 2
  MaxWaits <- PerThread10
INVARIANTS FollowupDeliverable
