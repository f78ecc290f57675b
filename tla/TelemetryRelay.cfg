SPECIFICATION RelaySpec
CONSTANTS
  SIZE = 2
  Stuffed = {1}
  CHUNK = 2
  SLOTS = 2
  OwnSlots = {0}
  MISSES = 1
  MAX_PKTX = 3
  USER_MAX_BYTES = 2
INVARIANT RelayInvariant
PROPERTY RelayedWhole
PROPERTY SportKeepsRelaying
PROPERTY RelayedOnce
