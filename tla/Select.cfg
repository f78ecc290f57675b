SPECIFICATION FairSpec
CONSTANTS
  plain = plain
  always = always
  foreign = foreign
  no_model = no_model
  Models = {plain, foreign}
  Known = {plain}
  AlwaysBind = {}
  NeverBind = {}
  None = no_model
  Seen <- SomeSticks
  Modes = {"serial", "ppm"}
  Buttons <- HeldOrNot
  TIMEOUT = 1
  RESET = 1
  GAP = 1
INVARIANT SelectInvariant
INVARIANT SelectedProtocolRuns
INVARIANT BindsAsAsked
INVARIANT TransmitsFreshSticks
PROPERTY InsistedModelTransmits
