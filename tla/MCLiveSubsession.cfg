SPECIFICATION LiveSpec
CONSTANTS
  c1 = c1
  c2 = c2
  c3 = c3
  Live = Live
  NoClient = NoClient
  SetupFrom = {"described"}
  Client = {c1, c2, c3}
  Source = {c1, c2, c3, Live}
  Listener = {c1, c2, c3}
  length = 2
  SYNCING_FRAMES = 2
  KEYINT = 2
  Pictures = 2
  Carriers <- MCOneCarrier
  fMaxSize = 2
  UINT_MAX = 5
  Measured = {FALSE}
INVARIANTS
  LiveTypeOK
  UnitsIntact
  OneReader
  SourcesInUse
  PlayersAreServed
PROPERTIES
  PlayersKeepInStep
  DescriptionAnswered
  PlayerReceivesAll
