SPECIFICATION Spec
CONSTANTS
  CycleMs = 2
  MaxAge = 4
  Debounce = 0
  Timeout = 2
  TxInterval = 2
  Configs <- BlocksAndEngine
  Bus <- StartBits
INVARIANTS
  TypeOK
  CountersInRange
  StablePinsRead
  CanInputsFollowBus
  FramesOnTime
  FramesCarrySamples
  CrankIsSilent
PROPERTIES
  OutputsLagLogic
  BouncesFiltered
  FlashersBlink
  FollowsGesture
  ReleaseStarts
  HeaterHeldOff
  SilentBusStopsCranking
