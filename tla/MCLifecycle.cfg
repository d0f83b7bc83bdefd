SPECIFICATION FairSpec
CONSTANTS
  Requests = {r1, r2}
  Settings <- MCSettings
  DefaultAttempts = 3
  Delay = 2
  Grace = 3
  Providers = {traces, metrics}
  FlushLimit = 2
  MaxAge = 5
INVARIANTS
  TypeOK
  GivesUpLate
  CutOnlyLate
  StopsInTime
PROPERTIES
  Terminates
CHECK_DEADLOCK FALSE
