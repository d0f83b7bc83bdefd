SPECIFICATION Spec
CONSTANTS
  Users <- MCUsers
  Claims <- MCClaims
  Headers <- MCHeaders
  Authorization = "Authorization"
  Stripped <- MCStripped
  Bearer = "bearer"
  Own = "own"
  Deployments <- MCDeployments
  None = None
  MaxParts = 2
INVARIANTS
  UpstreamErrorTold
