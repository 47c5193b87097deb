SPECIFICATION Spec
CONSTANTS
  large = large
  small = small
  sound = sound
  nowhere = nowhere
  short = short
  long = long
  k1 = k1
  k2 = k2
  p1 = p1
  p2 = p2
  Video = {large, small, sound, nowhere}
  File = {short, long}
  Key = {k1, k2}
  Path = {p1, p2}
  Derived <- MCDerived
  Kind <- MCKind
  Size <- MCSize
  Counted <- MCCounted
  CarriersIn <- MCCarriersIn
  Length <- MCLength
  Garbage = {FALSE}
  MaxCalls = 2
INVARIANT TooLargeMeansTooLarge
CHECK_DEADLOCK FALSE
