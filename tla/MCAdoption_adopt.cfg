CONSTANTS
  u1 = u1
  u2 = u2
  u3 = u3
  Uuids = {u1, u2, u3}
  Sentinel = Sentinel
  Cluster = prod
  SpecName = analyst
  K8sName = analyst
  Kinds = {"database", "role"}
  ObserveFirst = TRUE
  PinForms = {"none", "name", "uuid"}
  Drift = FALSE
  MaxFaults = 2
SPECIFICATION Spec
INVARIANTS TypeOK RecordedIdentity NeverCreatesOverExisting NoOrphan IDNamesRecorded
PROPERTIES KeepsOwnership Converges
