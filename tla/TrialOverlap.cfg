SPECIFICATION Spec
CONSTANTS
  Calls = {c1, c2}
  NoCall = NoCall
  Mode = "quick"
  Requests = {"start", "force_skip_opening", "continue_cross_exam", "direct_verdict", "interrupt"}
  MaxConcurrent = 3
  OtherTrials = 1
  MaxEvidence = 0
  MaxCrashes = 1
  MaxFaults = 0
INVARIANTS NoSpeechTwice DefenderAnswers VerdictBacked SlotsAccounted RegisteredCallRuns LockNotReentered
SYMMETRY Symmetry
CHECK_DEADLOCK FALSE
