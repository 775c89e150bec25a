SPECIFICATION FairSpec
CONSTANTS
  h1 = h1
  b1 = b1
  b2 = b2
  k1 = k1
  k2 = k2
  Hosts = {h1}
  Buckets = {b1, b2}
  Keys = {k1, k2}
  UserValues <- Mixed
  MaxChanges = 3
  MaxFaults = 2
INVARIANTS TypeOK NoLostKeys NoSilentFailure
PROPERTIES TargetSettles
