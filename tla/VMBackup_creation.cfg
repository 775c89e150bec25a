SPECIFICATION FairSpec
CONSTANTS
  NumVolumes = 1
  Targets = {t1}
  Kind = "backup"
  Start = "empty"
  StartSettings = {t1}
  StartSources = {"both"}
  Controllers <- ForNewBackups
  Disturbances <- Mishaps
  MaxDisturbances = 1
  MaxIncarnations = 1
INVARIANTS NothingLeftUndone
PROPERTIES NoLostLonghornName EventuallyRestorable
