CONSTANTS
  Givens = {"unset"}
  MaxFaults = 0
SPECIFICATION Spec
INVARIANT GranteeIsName
