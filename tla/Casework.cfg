SPECIFICATION Spec
CONSTANTS
  Requests = {r1, r2}
  NoRequest = NoRequest
  MaxRounds = 1
  MaxTurns = 1
  MaxCrashes = 1
  MaxFaults = 2
INVARIANTS TypeOK RecordSound NoLostUpdate
PROPERTY Settles
CHECK_DEADLOCK FALSE
