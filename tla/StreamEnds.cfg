SPECIFICATION FairRelaySpec
CONSTANTS
  Capacity = 2
  MaxPieces = 6
CHECK_DEADLOCK FALSE
INVARIANTS RelayTypeOK ChargedForAll
PROPERTIES ListenerReturns HeardOutSettles
