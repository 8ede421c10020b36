SPECIFICATION Spec
CONSTANTS
  Sites <- MCSites
  MaxEvents = 2
INVARIANTS
  TypeOK
  OnlyEstablished
  MadeWithIdentity
  AllOrNone
  SaysWhatWasMade
PROPERTIES
  KeepsResolved
  KeepsLinkage
  Starts
  EndsMade
  Follows
  DeletesUnaided
\* A controller whose Setup failed, or whose CRD never comes, waits for good.
CHECK_DEADLOCK FALSE
