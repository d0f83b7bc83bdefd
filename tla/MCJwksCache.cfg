SPECIFICATION FairSpec
CONSTANTS
  Requests = {r1, r2}
  Keys <- MCKeys
  Usable <- MCUsable
  KeySets <- MCKeySets
  TornReads = TRUE
  MaxVersions = 3
INVARIANTS
  TypeOK
  MissHasCause
  WithdrawnKeys
PROPERTIES
  Answered
  Settles
  LookupSpec
