SPECIFICATION Spec
CONSTANTS
  Calls = {c1, c2}
  NoCall = NoCall
  Mode = "quick"
  Requests = {"start", "start_cross_exam", "direct_verdict"}
  MaxConcurrent = 4
  OtherTrials = 0
  MaxEvidence = 0
  MaxCrashes = 0
  MaxFaults = 0
CHECK_DEADLOCK FALSE
PROPERTY VerdictNotUndone
