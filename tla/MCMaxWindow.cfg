\* token_ttl above token_max_ttl, as in the README's sample environment.
SPECIFICATION Spec
CONSTANTS
  Logins = {a}
  NotYet = NotYet
  Configs <- MCConfigs
  DefaultTTL = 2
  DefaultMaxTTL = 5
  MaxTime = 7
  MaxAccess = 2
INVARIANT MaxWindowFromLogin
