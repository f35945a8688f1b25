SPECIFICATION Spec
CONSTANTS
  Null = Null
  Known <- SmallBoards
  Device <- TwoOutputs
  Target = 512
  Docs <- SmallDocs
INVARIANTS
  SameDocumentSameDevice
  SimulatorAgrees
  SelfContainedDefines
PROPERTY
  OnlyNamedFieldsWritten
