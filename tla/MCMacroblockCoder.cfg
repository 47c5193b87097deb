SPECIFICATION Spec
CONSTANTS
  START_BITS_COUNT = 2
  EXTENSION_BITS_COUNT = 1
  MESSAGE_SIZE_BITS_COUNT = 2
  BYTE = 2
  INT_MAX = 7
  Width = 2
  Height = 2
  Bodies <- MCBodies
  MaxMacroblocks = 4
  MaxReencodes = 1
INVARIANTS
  TypeOK
  ModesCarryBits
  BothCountAlike
  CarriedInOrder
  OnlyRowsAreLost
  CounterIsCapacity
PROPERTIES
  ImplementsChannel
CHECK_DEADLOCK FALSE
