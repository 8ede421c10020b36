CONSTANTS
  Namespaces = {"a"}
  MRs = {"a"}
  Protocols = {"https"}
  Forms = {"string"}
  Tenths = {84430}
  MaxEvents = 0
SPECIFICATION Spec
PROPERTY Connects
