SPECIFICATION Spec
CONSTANTS
  START_BITS_COUNT = 3
  EXTENSION_BITS_COUNT = 2
  MESSAGE_SIZE_BITS_COUNT = 3
  BYTE = 2
  INT_MAX = 7
  Key <- MCKey
  startBit <- MCStartBit3
  File <- MCFile
  EmbedChoices = {TRUE}
  MaxCarriers = 17
  MaxCounted = 0
INVARIANTS
  TypeOK
  ExactDelivery
  RetrievedIffCarried
  SuccessIsRetrievable
  CarriersHoldMessage
  DecoderInStep
  WritesInBuffer
PROPERTIES
  ExtractionEnds
  ImplementsTransfer
