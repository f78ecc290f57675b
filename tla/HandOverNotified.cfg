SPECIFICATION InputSpec
CONSTANTS
  RXBUFFER_SIZE = 3
  CONTROL_BYTES = 1
  UdrValues = {0, 5}
  MaxFrames = 3
  NUM_CHN = 2
  SENT = 3
  SEEN = 1
  PERIOD = 131
  SHORT = 2
  LONG = 9
  Pulses = {7}
  Gaps = {20}
  Dropouts = {135}
  NoiseAt = {1, 3, 6, 12}
  NESTED = 1
  NOISE = 2
  REVERSE = 0
INVARIANT HandOverNotified
