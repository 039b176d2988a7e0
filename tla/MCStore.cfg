SPECIFICATION Spec
CONSTANTS
  Process = {p, q}
  Thread = {s, t}
  Record = {call, snapshot}
  call = call
  snapshot = snapshot
  Deps <- CallDeps
  Indexed = {call}
  Legacy = {}
  Capacity = 6
  Touches = {FALSE}
  Batch = 2
  MaxWrites = 3
  MaxReads = 1
  MaxFailures = 1
SYMMETRY Renamings
VIEW Reduced
INVARIANTS ActiveKept CacheCoherent NoDangling IndexRepairable
