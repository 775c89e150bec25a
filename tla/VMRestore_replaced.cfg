SPECIFICATION Spec
CONSTANTS
  NumVolumes = 1
  Calls <- OneCall
  Requests <- FromSnapshot
  Strategies <- Manual
  OldClaims <- LiveOrGone
  Disturbances <- UsersAndCalls
  MaxDisturbances = 1
PROPERTIES SafeReplacement EditsKept
