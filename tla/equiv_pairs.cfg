SPECIFICATION Spec
CONSTANTS
  CycleMs = 2
  MaxAge = 4
  Debounce = 0
  Timeout = 2
  TxInterval = 2
  Pairs <- AllPairs
  Bus <- StartBits
INVARIANTS
  Equivalent
  RelayLags
