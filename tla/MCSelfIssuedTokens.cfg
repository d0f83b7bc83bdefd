SPECIFICATION Spec
CONSTANTS
  Logins = {a, b}
  NotYet = NotYet
  Configs <- MCConfigs
  DefaultTTL = 2
  DefaultMaxTTL = 5
  MaxTime = 7
  MaxAccess = 3
INVARIANTS
  TypeOK
  WithinWindow
  ExpiryAgrees
PROPERTIES
  RefreshNeverExtends
  FreshTokenUsable
  WindowSpec
