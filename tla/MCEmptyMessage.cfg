SPECIFICATION Spec
CONSTANTS
  START_BITS_COUNT = 2
  EXTENSION_BITS_COUNT = 1
  MESSAGE_SIZE_BITS_COUNT = 2
  BYTE = 2
  INT_MAX = 7
  Key <- MCOneKey
  startBit <- MCStartBit1
  File <- MCEmptyFile
  EmbedChoices = {TRUE}
  MaxCarriers = 8
  MaxCounted = 0
INVARIANTS
  UncompleteMeansTruncated
