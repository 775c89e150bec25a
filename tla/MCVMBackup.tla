----------------------------- MODULE MCVMBackup -----------------------------
(***************************************************************************)
(* Instances of VMBackup for TLC: which controllers are served and which   *)
(* disturbances may happen in each run.                                    *)
(***************************************************************************)
EXTENDS VMBackup

All == {"backup", "snapshot", "lh", "meta"}
ForNewBackups == {"backup", "snapshot", "lh"}
SnapshotsOnly == {"backup", "snapshot"}

Mishaps == {"initFailure", "snapshotError"}
Faults == {"crash", "failure", "delete"}
Deletion == Faults \cup {"recreate", "retarget", "deleteSnapshot", "loseSource"}
=============================================================================
