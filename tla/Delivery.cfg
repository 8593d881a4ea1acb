SPECIFICATION FairSpec
CONSTANTS
  Tabs = {t1, t2}
  Sockets = {s1, s2}
  None = None
  Begun = 3
  Until = 5
  MaxFaults = 1
  MaxVisits = 1
CHECK_DEADLOCK FALSE
INVARIANTS TypeOK EveryoneHears OneConnection ViewFollows
PROPERTIES BroadcastEnds StaysConnected
