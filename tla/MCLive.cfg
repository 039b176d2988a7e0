SPECIFICATION LiveSpec
CHECK_DEADLOCK FALSE
CONSTANTS
  Process = {p}
  Thread = {s}
  Record = {call, snapshot}
  call = call
  snapshot = snapshot
  Deps <- CallDeps
  Indexed = {call}
  Legacy = {}
  Capacity = 2
  Touches = {FALSE}
  Batch = 1
  MaxWrites = 3
  MaxReads = 1
  MaxFailures = 1
  Session = {main, fork}
  Entry = {1}
  Demand = {d}
  Buffer = 2
  MaxFrames = 2
  MaxEffects = 0
  Client = {c1, c2}
  Server = {p1, p2, p3}
  Nothing = nothing
  Stale = stale
  MaxDeaths = 2
  Subscription = {s1}
  Page = {g1}
  Nobody = nobody
  MaxVersions = 2
INVARIANTS SocketKept StartedOnce StreamsWhole ReleasedAtRest
PROPERTIES PressureServed FeedDelivered ServerReached CreditReturns
