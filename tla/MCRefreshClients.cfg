\* A public client, identified by its metadata URL, that redeemed a code.
SPECIFICATION Spec
CONSTANTS
  Logins = {a}
  Requests = {r1}
  Clients <- MCPublicClients
  Behaviors = {"proxy"}
  SiConfig <- MCSiConfig
  Leeway = 0
  Lifetimes <- MCLifetimes
  RefreshLifetimes <- MCRefreshLifetimes
  NoPair = NoPair
  DefaultTTL = 2
  DefaultMaxTTL = 4
  MaxTime = 1
  MaxGen = 1
INVARIANT RedeemerMayRefresh
