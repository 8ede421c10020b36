CONSTANTS
  p1 = p1
  p2 = p2
  c1 = c1
  c2 = c2
  Procs = {p1, p2}
  Configs = {c1, c2}
  TTL = 1
  MaxTime = 3
  MaxFaults = 2
SPECIFICATION Spec
INVARIANTS TypeOK CachedClientHealthy
PROPERTIES OnlyMissesReplace KeepsServing Recovers
