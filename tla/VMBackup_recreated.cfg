SPECIFICATION FairSpec
CONSTANTS
  NumVolumes = 1
  Targets = {t1, t2}
  Kind = "backup"
  Start = "legacy"
  StartSettings = {t1}
  StartSources = {"both"}
  Controllers <- SnapshotsOnly
  Disturbances <- Deletion
  MaxDisturbances = 2
  MaxIncarnations = 2
INVARIANTS TypeOK ReadyIsComplete StaleCopiesAgree NothingLeftUndone
PROPERTIES ReadyNeverLost LivesAsPromised MigrationCompletes DeletionCompletes
