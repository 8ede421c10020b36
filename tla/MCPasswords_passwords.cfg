CONSTANTS
  u1 = u1
  u2 = u2
  Users = {u1, u2}
  Methods = {"byop", "generate"}
  SecretKey = "password"
  Namespaced = FALSE
  Foreign = TRUE
  MaxEdits = 2
  MaxFaults = 1
SPECIFICATION Spec
INVARIANTS TypeOK PlaintextKept ObservedUntouched
PROPERTIES NoRollback KeepsRollout PasswordSettles
