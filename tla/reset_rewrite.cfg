SPECIFICATION Spec
CONSTANTS
  CycleMs = 2
  MaxAge = 4
  Settings <- SmallSettings
INVARIANTS
  SameCount
  HeldOff
