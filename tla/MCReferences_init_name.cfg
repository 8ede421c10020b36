SPECIFICATION Spec
CONSTANTS
  Sites <- MCInitProvider
  MaxEvents = 2
PROPERTIES
  AdmittedIsMade
\* A controller whose Setup failed, or whose CRD never comes, waits for good.
CHECK_DEADLOCK FALSE
