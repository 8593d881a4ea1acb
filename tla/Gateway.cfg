SPECIFICATION FairSpec
CONSTANTS
  Calls = {c1, c2}
  Sessions = {"s1"}
  Prompts = {"p1", "p2"}
  Limit = 2
  MaxUsage = 2
  MinRequests = 2
  MaxProbes = 1
  MaxRetries = 1
  CacheSize = 1
  MaxCounted = 3
  MaxCancels = 1
CHECK_DEADLOCK FALSE
INVARIANTS TypeOK BudgetOvershoot CacheConsistent ProbesLimited
PROPERTIES CallReturns BreakerRecovers
