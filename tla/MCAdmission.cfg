SPECIFICATION Spec
CHECK_DEADLOCK FALSE
CONSTANTS
  Thread <- TrioThreads
  Root = 1
  Parent <- ChainParent
  Below <- ChainBelow
  Spawned <- PairSpawned
  Calls = {"interrupt", "spawn", "wait", "followup"}
  WaitModes = {"all"}
  Timers = {"none"}
  Faults = {"refuse", "uncertain", "pause"}
  Outcomes = {"completed"}
  MaxTurns <- PerThread111
  MaxRequests = 2
  MaxWaits <- PerThread010
INVARIANTS OneFinalPerGeneration
PROPERTIES HandedOnce CompletionGuard WaitAllComplete
