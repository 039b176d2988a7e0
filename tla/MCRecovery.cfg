SPECIFICATION Spec
CHECK_DEADLOCK FALSE
CONSTANTS
  Thread <- PairThreads
  Root = 1
  Parent <- PairParent
  Below <- PairBelow
  Spawned <- PairSpawned
  Calls = {"compact", "unarmed", "stop", "provider", "human", "wait"}
  WaitModes = {"any"}
  Timers = {"armed","due"}
  Faults = {}
  Outcomes = {"completed", "recoverable", "checkpoint"}
  MaxTurns <- PerThread21
  MaxRequests = 2
  MaxWaits <- PerThread10
INVARIANTS TypeOK RecoveryQueued StopRetained WaitingHasWake CheckpointAlone
