SPECIFICATION StreamSpec
CONSTANTS
  s1 = s1
  s2 = s2
  Source = {s1, s2}
  Listener = {s1, s2}
  length = 3
  SYNCING_FRAMES = 3
  KEYINT = 2
  Pictures = 2
  Carriers <- MCCarriers
  fMaxSize = 2
  UINT_MAX = 9
  Measured = {TRUE}
INVARIANT StoredUnitsAreDelivered
