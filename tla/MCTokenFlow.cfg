SPECIFICATION FairSpec
CONSTANTS
  Logins = {a}
  Requests = {r1, r2}
  Clients <- MCClients
  Behaviors = {"proxy", "self_issued"}
  SiConfig <- MCSiConfig
  Leeway = 1
  Lifetimes <- MCLifetimes
  RefreshLifetimes <- MCRefreshLifetimes
  NoPair = NoPair
  DefaultTTL = 2
  DefaultMaxTTL = 4
  MaxTime = 3
  MaxGen = 2
INVARIANTS
  TypeOK
  AnswersCarryLiveToken
  StrandedOnlyByLoss
  ServedOnlyValidated
PROPERTIES
  IssuedTokenResolves
  Answered
