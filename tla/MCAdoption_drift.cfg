CONSTANTS
  u1 = u1
  u2 = u2
  u3 = u3
  u4 = u4
  Uuids = {u1, u2, u3, u4}
  Sentinel = Sentinel
  Cluster = prod
  SpecName = analyst
  K8sName = analyst
  Kinds = {"database", "role"}
  ObserveFirst = FALSE
  PinForms = {"none", "name", "uuid", "prefixed", "dangling"}
  Drift = TRUE
  MaxFaults = 3
SPECIFICATION Spec
SYMMETRY Symmetric
INVARIANT SentinelNeverSaved
