SPECIFICATION FairSpec
CONSTANTS
  NumVolumes = 1
  Calls <- OneCall
  Requests <- InPlace
  Strategies <- Manual
  OldClaims <- Live
  Disturbances <- Nothing
  MaxDisturbances = 0
PROPERTIES CleanUpCompletes
