SPECIFICATION LoopSpec
CONSTANTS
  PERIOD = 64
  WAIT = 4
  LEAVE = 1
  Protocols = {1, 2}
  Timings <- SomeTimings
  UpdateTimes = {0, 3}
  InitTimes = {5, 20, 63}
  TXBUFFER_SIZE = 5
  SPACE = 3
  FrameSizes = {2, 4}
  Modes = {0, 1}
  MaxByte = 8
  MaxResets = 2
INVARIANT SchedulerInvariant
INVARIANT OnTime
INVARIANT NeverEarly
INVARIANT CallsAProtocol
INVARIANT RingInvariant
PROPERTY LoopServesBoth
PROPERTY QueueSpec
PROPERTY EverythingLeaves
