SPECIFICATION Spec
CONSTANTS
  Process = {p, q}
  Thread = {s, t}
  Record = {call, snapshot}
  call = call
  snapshot = snapshot
  Deps <- CallDeps
  Indexed = {call}
  Legacy = {}
  Capacity = 6
  Touches = {FALSE}
  Batch = 1
  MaxWrites = 4
  MaxReads = 1
  MaxFailures = 0
SYMMETRY Renamings
VIEW Reduced
INVARIANTS ActiveKept
