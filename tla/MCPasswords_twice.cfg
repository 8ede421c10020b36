CONSTANTS
  u1 = u1
  Users = {u1}
  Methods = {"generate"}
  SecretKey = "password"
  Namespaced = TRUE
  Foreign = FALSE
  MaxEdits = 0
  MaxFaults = 0
SPECIFICATION Spec
PROPERTY GeneratedOnce
