SPECIFICATION FairSpec
CONSTANTS
  NumVolumes = 1
  Calls <- OneCall
  Requests <- Elsewhere
  Strategies <- Manual
  OldClaims <- Live
  Disturbances <- Faults
  MaxDisturbances = 1
INVARIANTS TypeOK
PROPERTIES RestoreCompletes
