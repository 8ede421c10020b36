CONSTANTS
  Givens = {"name", "unset"}
  MaxFaults = 3
SPECIFICATION Spec
INVARIANTS TypeOK ReadHasGrantee NotReplaced
PROPERTY GrantSettles
