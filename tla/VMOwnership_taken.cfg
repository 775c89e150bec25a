SPECIFICATION Spec
CONSTANTS
  v1 = v1
  v2 = v2
  c1 = c1
  VMs <- TwoVMs
  Claims <- OneClaim
  Changes <- Moves
  MaxChanges = 3
PROPERTIES
  OwnerKept
