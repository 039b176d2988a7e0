SPECIFICATION PartsSpec
CHECK_DEADLOCK FALSE
CONSTANTS
  Session = {main, fork}
  Entry = {1, 2}
  Demand = {d}
  Buffer = 2
  MaxFrames = 3
  MaxEffects = 2
  Request = {r1, r2, r3}
  NoRequest = none
  CallSession = {s1, s2, s3}
  CallThread = {t1, t2}
  r1 = r1 r2 = r2 r3 = r3
  s1 = s1 s2 = s2 s3 = s3
  t1 = t1 t2 = t2
  Call = {x, y, z}
  x = x y = y z = z
  ThreadOf <- SessionThreads
  CallSize <- CallSizes
  MaxCalls = 2
  MaxCallBytes = 2
  MaxSessions = 2
  MaxBytes = 3
  Item = {a, b}
  Hello = {h1, h2}
  Script = {script}
  script = script
  ItemScript <- ItemScripts
  HelloScript <- HelloScripts
  Window = {w1, w2}
  Nobody = nobody
  h1 = h1 h2 = h2
  w1 = w1 w2 = w2
  Runtime = {m1, m2, m3}
  m1 = m1 m2 = m2 m3 = m3
  HubThread = {t1, t2}
  NoThread = none
  NoRuntime = nobody
INVARIANTS CaughtUp OutputAccounted EffectsApplied LeaseAccounted HandoffKept SoleEvidence ThreadOwnedOnce JoinedLast
PROPERTIES ShowsPublished FactsKept
