SPECIFICATION FairSpec
CONSTANTS
  SLOTS = 6
  SPACE = 3
  FrameSizes = {2, 5}
  Modes = {0, 1}
  MaxByte = 12
  Content <- SomeBytes
INVARIANT BashInvariant
PROPERTY BashQueue
PROPERTY WireRight
PROPERTY BashLeaves
