CONSTANTS
  Namespaces = {"a", "b"}
  MRs = {"a", "cluster scope"}
  Protocols = {"native"}
  Forms = {"number"}
  Tenths = {90000, 745365}
  MaxEvents = 2
SPECIFICATION Spec
INVARIANTS TypeOK DialsGivenPort
PROPERTIES UsedStays Connects DeletionFinishes ConfigGoes
