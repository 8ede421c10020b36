CONSTANTS
  u1 = u1
  u2 = u2
  Uuids = {u1, u2}
  Sentinel = Sentinel
  Cluster = "no cluster"
  SpecName = analyst
  K8sName = analyst
  Kinds = {"role"}
  ObserveFirst = FALSE
  PinForms = {"none"}
  Drift = TRUE
  MaxFaults = 2
SPECIFICATION Spec
PROPERTY RestoredIsAdopted
