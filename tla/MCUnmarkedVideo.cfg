SPECIFICATION Spec
CONSTANTS
  START_BITS_COUNT = 3
  EXTENSION_BITS_COUNT = 1
  MESSAGE_SIZE_BITS_COUNT = 2
  BYTE = 2
  INT_MAX = 7
  Key <- MCKey
  startBit <- MCStartBit3
  File <- MCOneFile
  EmbedChoices = {TRUE, FALSE}
  MaxCarriers = 10
  MaxCounted = 54
INVARIANTS
  StartFoundIffSeen
  CarriersHoldMessage
  AcceptedFits
PROPERTIES
  CompleteStaysComplete
