SPECIFICATION InsistentSpec
CONSTANTS
  Calls = {c1}
  NoCall = NoCall
  Mode = "quick"
  Requests = {"start", "direct_verdict"}
  MaxConcurrent = 4
  OtherTrials = 0
  MaxEvidence = 0
  MaxCrashes = 1
  MaxFaults = 0
CHECK_DEADLOCK FALSE
PROPERTY DeliberationResumes
