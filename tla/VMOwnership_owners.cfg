SPECIFICATION FairSpec
CONSTANTS
  v1 = v1
  v2 = v2
  c1 = c1
  VMs <- TwoVMs
  Claims <- OneClaim
  Changes <- All
  MaxChanges = 3
INVARIANTS
  TypeOK
  OwnedIsListed
PROPERTIES
  NoTakeover
  UsedIsOwned
  UnusedIsReleased
