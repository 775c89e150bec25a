SPECIFICATION Spec
CONSTANTS
  h1 = h1
  b1 = b1
  b2 = b2
  k1 = k1
  k2 = k2
  Hosts = {h1}
  Buckets = {b1, b2}
  Keys = {k1, k2}
  UserValues <- TwoBuckets
  MaxChanges = 3
  MaxFaults = 0
INVARIANTS StrippedIsApplied
