\* One assertion sent twice around the instant of its expiry.
SPECIFICATION Spec
CONSTANTS
  Assertions <- MCAssertions
  Jtis = {"j1", "j2"}
  Requests = {r1, r2}
  MaxTime = 4
  MaxUses = 3
INVARIANT NeverTwice
