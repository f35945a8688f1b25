SPECIFICATION Spec
CONSTANTS
  Null = Null
  Known <- SmallBoards
  Device <- AnalogInputs
  Target = 512
  Docs <- AnalogDocs
INVARIANT
  SameDocumentSameDevice
