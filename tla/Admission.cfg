SPECIFICATION Spec
CONSTANTS
  Mine = {s1}
  Foreign = {f1}
  Requests = {r1, r2}
  None = None
  Limit = 2
  TokenAge = 1
  CookieAge = 3
  Day = 2
  Week = 3
  MaxTime = 3
  MaxLosses = 1
INVARIANTS TypeOK AdmissionSound
PROPERTY WritesHeal
CHECK_DEADLOCK FALSE
