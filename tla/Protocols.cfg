SPECIFICATION FairSpec
CONSTANTS
  Laps = 1
  Journeys <- MCJourneys
INVARIANT ProtocolsInvariant
INVARIANT StartsAfresh
INVARIANT OneStray
INVARIANT EvenlyUsed
INVARIANT PacketsFit
PROPERTY BindIsOver
PROPERTY KeepsPace
PROPERTY BindEnds
