SPECIFICATION Spec
CONSTANTS
  SLOTS = 4
  SPACE = 2
  FrameSizes = {1}
  Modes = {1}
  MaxByte = 2
  Content <- SomeBytes
INVARIANT ResumeEnables
