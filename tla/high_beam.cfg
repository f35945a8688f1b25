SPECIFICATION Spec
CONSTANTS
  CycleMs = 2
  MaxAge = 4
  Debounce = 0
  Timeout = 2
  TxInterval = 2
  Pairs <- HighBeams
  Bus <- StartBits
INVARIANT
  Equivalent
