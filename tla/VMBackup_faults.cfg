SPECIFICATION Spec
CONSTANTS
  NumVolumes = 1
  Targets = {t1}
  Kind = "backup"
  Start = "remote"
  StartSettings = {t1}
  StartSources = {"none"}
  Controllers <- All
  Disturbances <- Faults
  MaxDisturbances = 2
  MaxIncarnations = 2
INVARIANTS ReadyIsComplete StaleCopiesAgree NothingLeftUndone
PROPERTIES ReadyNeverLost LivesAsPromised
