SPECIFICATION FairSpec
CONSTANTS
  Calls = {c1}
  NoCall = NoCall
  Mode = "standard"
  Requests = {"start", "restart_opening", "force_skip_opening", "start_cross_exam", "continue_cross_exam", "skip_agent", "direct_verdict", "reopen_trial", "interrupt", "submit_evidence", "dispatch_investigator"}
  MaxConcurrent = 2
  OtherTrials = 2
  MaxEvidence = 2
  MaxCrashes = 1
  MaxFaults = 1
INVARIANTS TypeOK CompletedMeansVerdict
PROPERTIES ImplementsLifecycle DirectVerdictDelivers
