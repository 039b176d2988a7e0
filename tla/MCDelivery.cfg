SPECIFICATION Spec
CHECK_DEADLOCK FALSE
CONSTANTS
  Thread <- TrioThreads
  Root = 1
  Parent <- FlatParent
  Below <- FlatBelow
  Spawned <- TrioSpawned
  Calls = {"message", "wait", "consume"}
  WaitModes = {"any","all"}
  Timers = {"none"}
  Faults = {"uncertain"}
  Outcomes = {"completed"}
  MaxTurns <- PerThread111
  MaxRequests = 3
  MaxWaits <- PerThread100
INVARIANTS ArrivalOrder
PROPERTIES WaitAllComplete NotificationOnce
