------------------------ MODULE VMBackupLife_proofs ------------------------
(***************************************************************************)
(* The proof that VMBackup implements BackupLife, for any number of disks, *)
(* any targets and any bounds.                                             *)
(*                                                                         *)
(* The argument.  A step that stores the object does so from a copy with   *)
(* the stored version, so it is enough to know why the handler that makes  *)
(* it is where it is: one that computes a status has begun for a backup    *)
(* that was not being deleted (WorkInv); one that writes metadata for one  *)
(* that was ready (FinishInv); one that removes metadata for one that was  *)
(* being deleted (RemoveInv).  The last two hold of a copy that may be     *)
(* old; they are true of what is stored as long as no other backup of the  *)
(* name has been created, since ready and marked are for good.  That they  *)
(* are for good is what BackupLife says of the step, and so each step is   *)
(* first shown to be one of BackupLife and then to keep the invariant.     *)
(***************************************************************************)
EXTENDS VMBackup_proofs

Working == {"init", "statusError", "snapshots", "created", "conditions"}
Finishing == {"csi", "csiGet", "target", "targetGet", "upload"}
Removing == {"delete", "removed", "forceDelete"}

WorkInv(a) == pc[a] \in Working => loc[a].uid # 0 /\ ~loc[a].deleting
FinishInv(a) ==
  /\ pc[a] \in Finishing => inc >= 1
  /\ pc[a] \in Finishing /\ inc = 1 => /\ loc[a].ready
                                       /\ cache.uid # 0 => cache.ready
                                       /\ obj.uid # 0 => obj.ready
RemoveInv(a) ==
  /\ pc[a] \in Removing => inc >= 1
  /\ pc[a] \in Removing /\ inc = 1 => obj.uid = 0 \/ obj.deleting
ReasonInv(a) == WorkInv(a) /\ FinishInv(a) /\ RemoveInv(a)

\* The mark of a copy is true; a backup with a source is kept somewhere, unless an
\* older release took it; the Metadata controller has a file of some target.
MarkInv ==
  /\ obj.deleting => obj.uid # 0
  /\ cache.deleting => cache.uid # 0 /\ (cache.uid = obj.uid => obj.deleting)
HomeInv ==
  Kind = "backup" /\ obj.src /\ ~isBackupTargetOnAnnotation(obj) => obj.target # "none"
SyncInv == msync = Idle \/ msync.target \in Targets

LifeInv == MarkInv /\ HomeInv /\ SyncInv /\ \A a \in Actors : ReasonInv(a)

----------------------------------------------------------------------------
(* Writes of the object, as steps of BackupLife                            *)

LifeStep == Life!Next \/ UNCHANGED Life!vars
Lives == LifeStep /\ HomeInv'

\* A step that stores nothing; one that stores what BackupLife does not see.
LEMMA Unwritten ==
  ASSUME HomeInv, UNCHANGED <<obj, inc, remote>>
  PROVE  Lives
  BY DEF Lives, LifeStep, Life!vars, HomeInv, isBackupTargetOnAnnotation
LEMMA Unnoticed ==
  ASSUME HomeInv, UNCHANGED <<inc, remote>>,
         obj'.uid = obj.uid, obj'.ready = obj.ready, obj'.target = obj.target,
         obj'.deleting = obj.deleting, obj'.src = obj.src
  PROVE  Lives
  BY DEF Lives, LifeStep, Life!vars, HomeInv, isBackupTargetOnAnnotation

\* A status computed for a backup that is neither ready nor being deleted.
LEMMA Prepares ==
  ASSUME obj \in VMBackup, obj' \in VMBackup, UNCHANGED <<inc, remote>>,
         obj.uid # 0, ~obj.ready, ~obj.deleting,
         obj'.uid = obj.uid, ~obj'.ready, ~obj'.deleting
  PROVE  LifeStep
<1>1. obj'.ready = obj.ready /\ obj'.deleting = obj.deleting
  BY DEF VMBackup
<1>2. obj'.target \in (Targets \cup {"default"}) \cup {"none"}
  BY DEF VMBackup, Recorded
<1>3. Life!Prepare
  BY <1>1, <1>2 DEF Life!Prepare, Life!Unfinished
<1> QED BY <1>3 DEF LifeStep, Life!Next

\* What a handler at work may take for granted when its copy is the stored object.
LEMMA AtWork ==
  ASSUME IndInv, LifeInv, NEW a \in Actors, a \in current, pc[a] \in Working
  PROVE  loc[a] = obj /\ obj \in VMBackup /\ obj.uid # 0 /\ ~obj.ready /\ ~obj.deleting
<1>1. loc[a] = obj
  BY DEF IndInv, CurrentInv
<1>2. ~loc[a].ready
  BY DEF IndInv, HandlerInv, Working
<1>3. loc[a].uid # 0 /\ ~loc[a].deleting
  BY DEF LifeInv, ReasonInv, WorkInv
<1> QED BY <1>1, <1>2, <1>3 DEF IndInv, TypeOK, ApiOK

\* setStatusError, called or on the way to a panic.
LEMMA StatusErrorLives ==
  ASSUME IndInv, LifeInv, NEW a \in Actors, a \in current, pc[a] \in Working,
         obj' = StatusError(loc[a]), UNCHANGED <<inc, remote>>
  PROVE  Lives
<1>1. loc[a] = obj /\ obj \in VMBackup /\ obj.uid # 0 /\ ~obj.ready /\ ~obj.deleting
  BY AtWork
<1>2. obj' \in VMBackup /\ obj'.uid = obj.uid
  BY <1>1, StatusTypes
<1>3. ~obj'.ready /\ ~obj'.deleting /\ ~obj'.src
  BY <1>1 DEF StatusError, Blank
<1> QED BY <1>1, <1>2, <1>3, Prepares DEF Lives, HomeInv

\* A panic restarts the manager, with or without the error stored.
LEMMA PanicLives ==
  ASSUME IndInv, LifeInv, NEW a \in Actors, pc[a] \in Working, PanicOnError(a),
         UNCHANGED <<inc, remote>>
  PROVE  Lives
  BY Unwritten, StatusErrorLives DEF PanicOnError, LifeInv

\* initBackup records the target that is configured, which is one.
LEMMA InitBackupLives ==
  ASSUME IndInv, LifeInv, NEW a \in Workers, initBackup(a)
  PROVE  Lives
<1>1. a \in Actors /\ UNCHANGED <<inc, remote>>
  BY DEF Actors, initBackup, store, bounds
<1>2. CASE obj' = obj
  BY <1>1, <1>2, Unwritten DEF LifeInv
<1>3. CASE /\ ~(Kind = "backup" /\ setting = "unset") /\ a \in current
           /\ obj' = NewStatus(loc[a])
  <2>1. loc[a] = obj /\ obj \in VMBackup /\ obj.uid # 0 /\ ~obj.ready /\ ~obj.deleting
    BY <1>1, <1>3, AtWork DEF initBackup, Working
  <2>2. /\ obj'.uid = obj.uid /\ ~obj'.ready /\ ~obj'.deleting
        /\ obj'.target = IF Kind = "backup" THEN setting ELSE "none"
    BY <1>3, <2>1 DEF NewStatus, Blank
  <2>3. setting \in Settings /\ "none" \notin Settings
    BY TargetsAssumption DEF IndInv, TypeOK, ClusterOK, Settings
  <2>4. Life!Prepare
    <3>1. obj'.ready = obj.ready /\ obj'.deleting = obj.deleting
      BY <1>3, <2>1 DEF NewStatus, Blank, VMBackup
    <3>2. obj'.target \in (Targets \cup {"default"}) \cup {"none"}
      BY <1>3, <2>2, <2>3 DEF Settings
    <3> QED BY <1>1, <2>1, <2>2, <3>1, <3>2 DEF Life!Prepare, Life!Unfinished
  <2>5. HomeInv'
    BY <2>2, <2>3 DEF HomeInv
  <2> QED BY <2>4, <2>5 DEF Lives, LifeStep, Life!Next
<1> QED BY <1>2, <1>3 DEF initBackup

\* updateConditions leaves the backup as it is or completes it, where it is kept.
LEMMA UpdateConditionsLives ==
  ASSUME IndInv, LifeInv, NEW a \in Workers, updateConditions(a)
  PROVE  Lives
<1>1. a \in Actors /\ UNCHANGED <<inc, remote>>
  BY DEF Actors, updateConditions, store, bounds
<1>2. CASE obj' = obj
  BY <1>1, <1>2, Unwritten DEF LifeInv
<1>3. CASE a \in current /\ obj' = NewConditions(loc[a])
  <2>1. pc[a] \in {"snapshots", "conditions"}
    BY DEF updateConditions
  <2>2. loc[a] = obj /\ obj \in VMBackup /\ obj.uid # 0 /\ ~obj.ready /\ ~obj.deleting
    BY <1>1, <1>3, <2>1, AtWork DEF Working
  <2>3. obj.src
    BY <1>1, <2>1, <2>2 DEF IndInv, HandlerInv
  <2>4. obj' \in VMBackup /\ obj'.uid = obj.uid
    BY <1>3, <2>2, StatusTypes
  <2>5. obj'.target = obj.target /\ obj'.deleting = obj.deleting /\ obj'.src = obj.src
    BY <1>3, <2>2 DEF NewConditions, VMBackup
  <2>6. HomeInv'
    BY <2>4, <2>5 DEF LifeInv, HomeInv, isBackupTargetOnAnnotation
  <2>7. Kind = "backup" => obj.target # "none"
    BY <2>2, <2>3 DEF LifeInv, HomeInv, IndInv, LegacyInv
  <2>8. CASE obj'.ready = TRUE
    <3>1. Life!Complete
      BY <1>1, <2>2, <2>4, <2>5, <2>7, <2>8 DEF Life!Complete, Life!Unfinished
    <3> QED BY <2>6, <3>1 DEF Lives, LifeStep, Life!Next
  <2>9. CASE ~obj'.ready
    BY <1>1, <2>2, <2>4, <2>5, <2>6, <2>9, Prepares DEF Lives
  <2> QED BY <2>4, <2>8, <2>9 DEF VMBackup
<1> QED BY <1>2, <1>3 DEF updateConditions

\* A field that BackupLife does not see, set in the stored object: the volumes'
\* statuses, the Longhorn names, the snapshot classes, the finalizer.
LEMMA FieldLives ==
  ASSUME IndInv, LifeInv, UNCHANGED <<inc, remote>>,
         \/ \E vols \in Vols : obj' = [obj EXCEPT !.vols = vols]
         \/ obj' = [obj EXCEPT !.csi = TRUE]
         \/ \E f \in BOOLEAN : obj' = [obj EXCEPT !.fin = f]
  PROVE  Lives
<1>1. obj \in VMBackup
  BY DEF IndInv, TypeOK, ApiOK
<1>2. /\ obj'.uid = obj.uid /\ obj'.ready = obj.ready /\ obj'.target = obj.target
      /\ obj'.deleting = obj.deleting /\ obj'.src = obj.src
  BY <1>1 DEF VMBackup
<1> QED BY <1>2, Unnoticed DEF LifeInv

\* reconcileVolumeSnapshots saves the statuses it has copied.
LEMMA UpdateVolumeBackupsLives ==
  ASSUME IndInv, LifeInv, NEW a \in Workers, UpdateVolumeBackups(a)
  PROVE  Lives
<1>1. a \in Actors /\ UNCHANGED <<inc, remote>> /\ pc[a] \in Working
  BY DEF Actors, UpdateVolumeBackups, bounds, Working
<1>2. CASE PanicOnError(a)
  BY <1>1, <1>2, PanicLives
<1>3. CASE a \in current /\ obj' = [loc[a] EXCEPT !.vols = cpy[a]]
  <2>1. loc[a] = obj /\ cpy[a] \in Vols
    BY <1>1, <1>3 DEF IndInv, CurrentInv, TypeOK, LocalsOK, Vols
  <2> QED BY <1>1, <1>3, <2>1, FieldLives
<1> QED BY <1>2, <1>3 DEF UpdateVolumeBackups

\* OnLHBackupChanged records the Longhorn Backup of one volume.
LEMMA UpdateLonghornBackupNameLives ==
  ASSUME IndInv, LifeInv, UpdateLonghornBackupName
  PROVE  Lives
<1>1. "lh" \in Actors /\ UNCHANGED <<inc, remote>> /\ pc["lh"] = "lhUpdate"
  BY DEF Actors, UpdateLonghornBackupName, store, bounds
<1>2. CASE obj' = obj
  BY <1>1, <1>2, Unwritten DEF LifeInv
<1>3. CASE /\ "lh" \in current
           /\ obj' = IF loc["lh"].src THEN [loc["lh"] EXCEPT !.vols[idx["lh"]].lh = TRUE]
                                      ELSE loc["lh"]
  <2>1. loc["lh"] = obj /\ obj \in VMBackup
    BY <1>1, <1>3 DEF IndInv, CurrentInv, TypeOK, ApiOK
  <2>2. CASE ~obj.src
    BY <1>1, <1>3, <2>1, <2>2, Unwritten DEF LifeInv
  <2>3. CASE obj.src
    <3>1. obj' = [obj EXCEPT !.vols[idx["lh"]].lh = TRUE]
      BY <1>3, <2>1, <2>3
    <3>2. /\ obj'.uid = obj.uid /\ obj'.ready = obj.ready /\ obj'.target = obj.target
          /\ obj'.deleting = obj.deleting /\ obj'.src = obj.src
      BY <2>1, <3>1 DEF VMBackup
    <3> QED BY <1>1, <3>2, Unnoticed DEF LifeInv
  <2> QED BY <2>2, <2>3
<1> QED BY <1>2, <1>3 DEF UpdateLonghornBackupName

\* The finalizer is put on and taken off the object as the cache has it; taken off
\* one that is being deleted, the object is gone.
LEMMA FinalizerLives ==
  ASSUME IndInv, LifeInv, NEW a \in Workers, AddFinalizer(a) \/ DeleteFinalizer(a)
  PROVE  Lives
<1>1. UNCHANGED <<inc, remote>>
  BY DEF AddFinalizer, DeleteFinalizer, store, bounds
<1>2. CASE obj' = obj
  BY <1>1, <1>2, Unwritten DEF LifeInv
<1>3. ASSUME NEW f \in BOOLEAN, "cache" \in current, obj' = [cache EXCEPT !.fin = f]
      PROVE  Lives
  BY <1>1, <1>3, FieldLives DEF IndInv, CurrentInv
<1>4. CASE "cache" \in current /\ cache.uid # 0 /\ obj' = Absent
  <2>1. obj.uid # 0
    BY <1>4 DEF IndInv, CurrentInv
  <2>2. /\ obj'.uid = 0 /\ obj'.ready = FALSE /\ obj'.deleting = FALSE
        /\ obj'.target = "none" /\ ~obj'.src
    BY <1>4 DEF Absent, Blank
  <2>3. Life!Vanish
    BY <1>1, <2>1, <2>2 DEF Life!Vanish
  <2> QED BY <2>2, <2>3 DEF Lives, LifeStep, Life!Next, HomeInv
<1> QED BY <1>2, <1>3, <1>4 DEF AddFinalizer, DeleteFinalizer

\* The migration gives a backup of an older release its snapshot classes,
LEMMA ConfigureCSILives ==
  ASSUME IndInv, LifeInv, NEW a \in Workers, configureCSIDriverVolumeSnapshotClassNames(a)
  PROVE  Lives
<1>1. a \in Actors /\ UNCHANGED <<inc, remote>>
  BY DEF Actors, configureCSIDriverVolumeSnapshotClassNames, store
<1>2. CASE obj' = obj
  BY <1>1, <1>2, Unwritten DEF LifeInv
<1>3. CASE a \in current /\ obj' = [loc[a] EXCEPT !.csi = TRUE]
  BY <1>1, <1>3, FieldLives DEF IndInv, CurrentInv
<1> QED BY <1>2, <1>3 DEF configureCSIDriverVolumeSnapshotClassNames

\* and its target, the one in its annotations.
LEMMA ConfigureBackupTargetLives ==
  ASSUME IndInv, LifeInv, NEW a \in Workers, configureBackupTargetOnStatus(a)
  PROVE  Lives
<1>1. a \in Actors /\ UNCHANGED <<inc, remote>> /\ pc[a] = "target"
  BY DEF Actors, configureBackupTargetOnStatus, store, bounds
<1>2. CASE obj' = obj
  BY <1>1, <1>2, Unwritten DEF LifeInv
<1>3. CASE Kind = "backup" /\ a \in current /\ obj' = [loc[a] EXCEPT !.target = AnnotatedTarget]
  <2>1. loc[a] = obj /\ obj \in VMBackup
    BY <1>1, <1>3 DEF IndInv, CurrentInv, TypeOK, ApiOK
  <2>2. obj.ready /\ obj.target \in {"none", AnnotatedTarget} /\ isBackupTargetOnAnnotation(obj)
    BY <1>1, <1>3, <2>1 DEF IndInv, HandlerInv, LegacyInv
  <2>3. AnnotatedTarget \in Targets
    BY ConstantTypes
  <2>4. /\ obj'.uid = obj.uid /\ obj'.ready = obj.ready /\ obj'.target = AnnotatedTarget
        /\ obj'.deleting = obj.deleting /\ obj'.src = obj.src
    BY <1>3, <2>1 DEF VMBackup
  <2>5. CASE obj.target = AnnotatedTarget
    BY <1>1, <2>4, <2>5, Unnoticed DEF LifeInv
  <2>6. CASE obj.target = "none"
    <3>1. Life!Settle
      BY <1>1, <2>2, <2>3, <2>4, <2>6 DEF Life!Settle
    <3>2. HomeInv'
      BY <2>2, <2>4 DEF HomeInv, isBackupTargetOnAnnotation
    <3> QED BY <3>1, <3>2 DEF Lives, LifeStep, Life!Next
  <2> QED BY <2>2, <2>5, <2>6
<1> QED BY <1>2, <1>3 DEF configureBackupTargetOnStatus

\* A new backup, made by a user or by the Metadata controller from a file.
LEMMA CreateLives ==
  ASSUME IndInv, LifeInv, CreateBackup \/ createVMBackupIfNotExist
  PROVE  Lives
<1>1. UNCHANGED remote
  BY DEF CreateBackup, createVMBackupIfNotExist, store
<1>2. CASE UNCHANGED <<obj, inc>>
  BY <1>1, <1>2, Unwritten DEF LifeInv
<1>3. CASE /\ obj.uid = 0 /\ inc' = inc + 1
           /\ \/ obj' = Blank(inc + 1, FALSE)
              \/ obj' = FromMetadata(inc + 1, msync.target, msync.meta) /\ msync # Idle
  <2>1. /\ obj'.uid = inc + 1 /\ obj'.ready = FALSE /\ obj'.deleting = FALSE
        /\ \/ obj'.target = "none" /\ ~obj'.src
           \/ obj'.target = msync.target /\ msync # Idle
    <3>1. CASE obj' = Blank(inc + 1, FALSE)
      BY <3>1 DEF Blank
    <3>2. CASE obj' = FromMetadata(inc + 1, msync.target, msync.meta) /\ msync # Idle
      BY <3>2 DEF Blank, FromMetadata
    <3> QED BY <1>3, <3>1, <3>2
  <2>2. msync # Idle => msync.target \in Targets /\ msync.target # "none"
    BY TargetsAssumption DEF LifeInv, SyncInv
  <2>3. Life!Create
    BY <1>1, <1>3, <2>1, <2>2 DEF Life!Create
  <2>4. HomeInv'
    BY <2>1, <2>2 DEF HomeInv
  <2> QED BY <2>3, <2>4 DEF Lives, LifeStep, Life!Next
<1> QED BY <1>2, <1>3 DEF CreateBackup, createVMBackupIfNotExist

\* A user deletes the backup, which marks it or makes it go.
LEMMA DeleteBackupLives ==
  ASSUME IndInv, LifeInv, DeleteBackup
  PROVE  Lives
<1>1. obj.uid # 0 /\ obj \in VMBackup /\ UNCHANGED <<inc, remote>>
  BY DEF DeleteBackup, store, IndInv, TypeOK, ApiOK
<1>2. CASE obj' = [obj EXCEPT !.deleting = TRUE]
  <2>1. /\ obj'.uid = obj.uid /\ obj'.ready = obj.ready /\ obj'.target = obj.target
        /\ obj'.deleting = TRUE /\ obj'.src = obj.src
    BY <1>1, <1>2 DEF VMBackup
  <2>2. Life!Delete
    BY <1>1, <2>1 DEF Life!Delete
  <2> QED BY <2>1, <2>2 DEF Lives, LifeStep, Life!Next, LifeInv, HomeInv, isBackupTargetOnAnnotation
<1>3. CASE obj' = Absent
  <2>1. /\ obj'.uid = 0 /\ obj'.ready = FALSE /\ obj'.deleting = FALSE
        /\ obj'.target = "none" /\ ~obj'.src
    BY <1>3 DEF Absent, Blank
  <2>2. Life!Vanish
    BY <1>1, <2>1 DEF Life!Vanish
  <2> QED BY <2>1, <2>2 DEF Lives, LifeStep, Life!Next, HomeInv
<1> QED BY <1>2, <1>3 DEF DeleteBackup

----------------------------------------------------------------------------
(* Writes of the metadata file, as steps of BackupLife                     *)

\* A file put on a target or taken off it is in, or out of, the set of files.
LEMMA FilesChange ==
  ASSUME TypeOK, NEW t \in Targets, NEW m, remote' = [remote EXCEPT ![t] = m]
  PROVE  /\ m.file => {u \in Targets : remote'[u].file} = {u \in Targets : remote[u].file} \cup {t}
         /\ ~m.file => {u \in Targets : remote'[u].file} = {u \in Targets : remote[u].file} \ {t}
  BY DEF TypeOK, StoreOK

\* Publishing on a target and withdrawing from one are steps of BackupLife.
LEMMA FileStep ==
  ASSUME NEW t \in Targets, Life!Publish(t) \/ Life!Withdraw(t)
  PROVE  LifeStep
<1>1. t \in Targets \cup {"default"}
  OBVIOUS
<1> QED BY <1>1, Zenon DEF LifeStep, Life!Next

\* uploadVMBackupMetadata, run from a copy: if no other backup has been there, the
\* copy is of the stored object, which is ready and kept where the file goes.
LEMMA UploadLives ==
  ASSUME IndInv, LifeInv, NEW a \in Workers, uploadVMBackupMetadata(a)
  PROVE  Lives
<1>1. a \in Actors /\ UNCHANGED <<obj, inc>> /\ pc[a] = "upload"
  BY DEF Actors, uploadVMBackupMetadata
<1>2. CASE remote' = remote
  BY <1>1, <1>2, Unwritten DEF LifeInv
<1>3. CASE /\ setting \in Targets /\ loc[a].target = setting
           /\ remote' = [remote EXCEPT ![setting] = MetadataOf(loc[a])]
  <2>1. {t \in Targets : remote'[t].file} = {t \in Targets : remote[t].file} \cup {setting}
    <3>1. MetadataOf(loc[a]).file = TRUE
      BY DEF MetadataOf
    <3> QED BY <1>3, <3>1, FilesChange DEF IndInv
  <2>2. inc >= 1 /\ (inc = 1 => loc[a].ready)
    BY <1>1 DEF LifeInv, ReasonInv, FinishInv, Finishing
  <2>3. inc \in Nat
    BY BoundsAssumption DEF IndInv, TypeOK, BoundsOK
  <2>4. ASSUME obj.uid = 1, inc = 1 PROVE obj.ready /\ obj.target = setting
    <3>1. loc[a].ready /\ loc[a] \in VMBackup /\ loc[a].uid # 0 /\ loc[a].uid <= inc
      BY <1>1, <2>2, <2>4 DEF IndInv, TypeOK, LocalsOK, SaneInv, Sane, Complete, UidInv
    <3>2. loc[a].uid = obj.uid
      BY <2>4, <3>1 DEF VMBackup, Uids
    <3>3. setting # "none"
      BY <1>3, TargetsAssumption
    <3> QED BY <1>1, <1>3, <3>1, <3>2, <3>3 DEF IndInv, StaleCopiesAgree, StillTrue
  <2>5. inc > 0
    BY <2>2, <2>3
  <2>6. PICK t \in Targets : t = setting
    BY <1>3
  <2>7. Life!Publish(t)
    BY <1>1, <2>1, <2>4, <2>5, <2>6 DEF Life!Publish, Life!Sole
  <2>8. HomeInv'
    BY <1>1 DEF LifeInv, HomeInv, isBackupTargetOnAnnotation
  <2>9. LifeStep
    BY <2>7, FileStep
  <2> QED BY <2>8, <2>9 DEF Lives
<1> QED BY <1>2, <1>3 DEF uploadVMBackupMetadata, IsBackupTargetSame

\* OnBackupRemove: if no other backup has been there, the one that is has been
\* marked or is gone.
LEMMA OnBackupRemoveLives ==
  ASSUME IndInv, LifeInv, NEW a \in Workers, OnBackupRemove(a)
  PROVE  Lives
<1>1. a \in Actors /\ UNCHANGED <<obj, inc>> /\ pc[a] = "removed"
  BY DEF Actors, OnBackupRemove
<1>2. CASE remote' = remote
  BY <1>1, <1>2, Unwritten DEF LifeInv
<1>3. CASE setting \in Targets /\ remote' = [remote EXCEPT ![setting] = NoMetadata]
  <2>1. {t \in Targets : remote'[t].file} = {t \in Targets : remote[t].file} \ {setting}
    <3>1. NoMetadata.file = FALSE
      BY DEF NoMetadata
    <3> QED BY <1>3, <3>1, FilesChange DEF IndInv
  <2>2. inc >= 1 /\ (inc = 1 => obj.uid = 0 \/ obj.deleting)
    BY <1>1 DEF LifeInv, ReasonInv, RemoveInv, Removing
  <2>3. inc \in Nat
    BY BoundsAssumption DEF IndInv, TypeOK, BoundsOK
  <2>4. inc > 0
    BY <2>2, <2>3
  <2>5. PICK t \in Targets : t = setting
    BY <1>3
  <2>6. Life!Withdraw(t)
    BY <1>1, <2>1, <2>2, <2>4, <2>5 DEF Life!Withdraw, Life!Sole
  <2>7. HomeInv'
    BY <1>1 DEF LifeInv, HomeInv, isBackupTargetOnAnnotation
  <2>8. LifeStep
    BY <2>6, FileStep
  <2> QED BY <2>7, <2>8 DEF Lives
<1> QED BY <1>2, <1>3 DEF OnBackupRemove

----------------------------------------------------------------------------
(* Every step is a step of BackupLife                                      *)

\* A step of a worker.
LEMMA WorkerStepLives ==
  ASSUME IndInv, LifeInv, NEW a \in Workers, WorkerStep(a)
  PROVE  Lives
<1>1. a \in Actors
  BY DEF Actors
<1>2. CASE \/ MountFails(a) \/ NoSnapshotClass(a) \/ MissingSecret(a) \/ CopySnapshotStatus(a)
           \/ SnapshotBeingDeleted(a) \/ GetUpdated(a) \/ NoStatusToUpload(a)
           \/ forceDeleteVolumeSnapshotAndContent(a)
  <2>1. UNCHANGED <<obj, inc, remote>>
    BY <1>2
    DEF MountFails, NoSnapshotClass, MissingSecret, CopySnapshotStatus, SnapshotBeingDeleted,
        GetUpdated, NoStatusToUpload, forceDeleteVolumeSnapshotAndContent, GiveUp, api, store,
        bounds
  <2> QED BY <2>1, Unwritten DEF LifeInv
<1>3. CASE setStatusError(a)
  <2>1. UNCHANGED <<inc, remote>> /\ pc[a] \in Working
    BY <1>3 DEF setStatusError, store, bounds, Working
  <2> QED BY <1>1, <1>3, <2>1, Unwritten, StatusErrorLives DEF setStatusError, LifeInv
<1>4. CASE createVolumeSnapshot(a) \/ GetCreatedSnapshot(a)
  <2>1. UNCHANGED <<inc, remote>> /\ pc[a] \in Working
    BY <1>4 DEF createVolumeSnapshot, GetCreatedSnapshot, bounds, Working
  <2>2. PanicOnError(a) \/ UNCHANGED obj
    BY <1>4 DEF createVolumeSnapshot, GetCreatedSnapshot, api
  <2> QED BY <1>1, <2>1, <2>2, Unwritten, PanicLives DEF LifeInv
<1>5. CASE initBackup(a) \/ UpdateVolumeBackups(a) \/ updateConditions(a)
  BY <1>5, InitBackupLives, UpdateVolumeBackupsLives, UpdateConditionsLives
<1>6. CASE AddFinalizer(a) \/ DeleteFinalizer(a)
  BY <1>6, FinalizerLives
<1>7. CASE configureCSIDriverVolumeSnapshotClassNames(a) \/ configureBackupTargetOnStatus(a)
  BY <1>7, ConfigureCSILives, ConfigureBackupTargetLives
<1>8. CASE uploadVMBackupMetadata(a) \/ OnBackupRemove(a)
  BY <1>8, UploadLives, OnBackupRemoveLives
<1> QED BY <1>2, <1>3, <1>4, <1>5, <1>6, <1>7, <1>8 DEF WorkerStep

\* Any step.
LEMMA NextLives ==
  ASSUME IndInv, LifeInv, [Next]_vars
  PROVE  Lives
<1>1. CASE \E a \in Workers : WorkerStep(a)
  BY <1>1, WorkerStepLives
<1>2. CASE UpdateLonghornBackupName \/ createVMBackupIfNotExist \/ CreateBackup \/ DeleteBackup
  BY <1>2, UpdateLonghornBackupNameLives, CreateLives, DeleteBackupLives
<1>3. CASE UNCHANGED <<obj, inc, remote>>
  BY <1>3, Unwritten DEF LifeInv
<1>4. CASE \/ Reconcile \/ \E v \in Volumes : updateVolumeSnapshotChanged(v) \/ OnLHBackupChanged(v)
           \/ syncVMBackup \/ BackupWatch \/ Resync \/ Crash
  BY <1>3, <1>4
  DEF Reconcile, updateVolumeSnapshotChanged, OnLHBackupChanged, syncVMBackup, BackupWatch,
      Resync, Crash, api, store, bounds
<1>5. CASE \/ LoseSource \/ \E t \in Settings : SetBackupTarget(t)
           \/ \E v \in Volumes : \/ SnapshotWatch(v) \/ SnapshotDone(v) \/ SnapshotError(v)
                                  \/ SnapshotGone(v) \/ DeleteSnapshot(v)
                                  \/ CollectContent(v) \/ LonghornBackupEvent(v)
  BY <1>3, <1>5
  DEF LoseSource, SetBackupTarget, SnapshotWatch, SnapshotDone, SnapshotError, SnapshotGone,
      DeleteSnapshot, CollectContent, LonghornBackupEvent, api, store, bounds
<1>6. CASE UNCHANGED vars
  BY <1>3, <1>6 DEF vars, api, store, bounds
<1> QED BY <1>1, <1>2, <1>4, <1>5, <1>6, Zenon DEF Next

----------------------------------------------------------------------------
(* Why a handler is where it is                                            *)

\* What a step does to the reasons of a handler: it has none left; it is as it
\* was; it has read the object again; or it has begun, with the object in the cache.
Leaves(a) == pc'[a] \notin Working \cup Finishing \cup Removing
GoesOn(a) ==
  /\ loc'[a] = loc[a]
  /\ pc'[a] \in Working => pc[a] \in Working
  /\ pc'[a] \in Finishing => pc[a] \in Finishing
  /\ pc'[a] \in Removing => pc[a] \in Removing
Rereads(a) == pc[a] \in Finishing /\ pc'[a] \in Finishing /\ loc'[a] = cache /\ cache.uid # 0
Begins(a) ==
  /\ cache.uid # 0
  /\ pc'[a] \in Working => loc'[a] = cache /\ ~cache.deleting
  /\ pc'[a] \in Finishing => loc'[a] = cache /\ cache.ready
  /\ pc'[a] \in Removing => cache.deleting
Reasons(a) == Leaves(a) \/ GoesOn(a) \/ Rereads(a) \/ Begins(a)

\* A step of BackupLife keeps a mark, and makes none on another backup.
LEMMA MarksStay ==
  ASSUME LifeStep, MarkInv
  PROVE  /\ obj'.uid = obj.uid /\ obj.deleting => obj'.deleting
         /\ obj'.uid # obj.uid => ~obj'.deleting
         /\ obj'.deleting => obj'.uid # 0
<1>1. CASE Life!Create
  BY <1>1 DEF Life!Create, MarkInv
<1>2. CASE Life!Prepare \/ Life!Complete \/ Life!Settle
  BY <1>2 DEF Life!Prepare, Life!Complete, Life!Settle, MarkInv
<1>3. CASE Life!Delete
  BY <1>3 DEF Life!Delete, MarkInv
<1>4. CASE Life!Vanish
  BY <1>4 DEF Life!Vanish, MarkInv
<1>5. CASE \E t \in Targets \cup {"default"} : Life!Publish(t) \/ Life!Withdraw(t)
  BY <1>5 DEF Life!Publish, Life!Withdraw, MarkInv
<1>6. CASE UNCHANGED Life!vars
  BY <1>6 DEF Life!vars, MarkInv
<1> QED BY <1>1, <1>2, <1>3, <1>4, <1>5, <1>6, Zenon DEF LifeStep, Life!Next

\* The counter of backups, and the identity of what is stored.
LEMMA Numbers ==
  ASSUME IndInv, Preserved
  PROVE  /\ inc \in Nat /\ inc' \in Nat /\ obj.uid \in Nat /\ cache.uid \in Nat
         /\ inc <= inc' /\ obj.uid <= inc /\ cache.uid <= inc
         /\ inc' = inc => obj'.uid = obj.uid \/ obj'.uid = 0
         /\ inc' # inc => inc' = inc + 1 /\ obj'.uid = inc'
<1>1. inc \in Nat /\ inc' \in Nat
  BY BoundsAssumption DEF IndInv, Preserved, TypeOK, BoundsOK
<1>2. obj.uid \in Nat /\ cache.uid \in Nat /\ obj.uid <= inc /\ cache.uid <= inc
  BY BoundsAssumption DEF IndInv, TypeOK, ApiOK, VMBackup, Uids, UidInv
<1>3. Absent.uid = 0
  BY DEF Absent, Blank
<1> QED BY <1>1, <1>2, <1>3 DEF Preserved, ObjStep

\* The mark of the cached copy stays true.
LEMMA MarkKept ==
  ASSUME IndInv, LifeInv, Preserved, LifeStep
  PROVE  MarkInv'
<1>1. MarkInv
  BY DEF LifeInv
<1>2. /\ obj'.uid = obj.uid /\ obj.deleting => obj'.deleting
      /\ obj'.deleting => obj'.uid # 0
  BY <1>1, MarksStay
<1>3. CASE cache' = obj'
  BY <1>2, <1>3 DEF MarkInv
<1>4. CASE cache' = cache
  <2>1. ASSUME cache.deleting, cache.uid = obj'.uid PROVE obj'.deleting
    <3>1. cache.uid # 0 /\ (cache.uid = obj.uid => obj.deleting)
      BY <1>1, <2>1 DEF MarkInv
    <3>2. obj'.uid = obj.uid
      BY <2>1, <3>1, Numbers
    <3> QED BY <1>2, <2>1, <3>1, <3>2
  <2> QED BY <1>1, <1>2, <1>4, <2>1 DEF MarkInv
<1> QED BY <1>3, <1>4 DEF Preserved, CopyStep

\* A handler that has begun for a backup to be finished, as long as no other
\* backup of the name comes: what it goes by is true of the copies and of the
\* stored object, and stays so.
LEMMA FinishKept ==
  ASSUME IndInv, LifeInv, Preserved, LifeStep, NEW a \in Actors, Reasons(a)
  PROVE  FinishInv(a)'
<1> SUFFICES ASSUME pc'[a] \in Finishing
             PROVE  /\ inc' >= 1
                    /\ inc' = 1 => /\ loc'[a].ready
                                   /\ cache'.uid # 0 => cache'.ready
                                   /\ obj'.uid # 0 => obj'.ready
  BY DEF FinishInv
<1>1. FinishInv(a)
  BY DEF LifeInv, ReasonInv
<1>2. inc >= 1
  BY <1>1, Numbers DEF FinishInv, Reasons, Leaves, GoesOn, Rereads, Begins
<1>3. inc' >= 1 /\ (inc' = 1 => inc = 1)
  BY <1>2, Numbers
<1>4. ASSUME inc' = 1
      PROVE  /\ loc'[a].ready
             /\ cache'.uid # 0 => cache'.ready
             /\ obj'.uid # 0 => obj'.ready
  <2>1. inc = 1 /\ (obj'.uid # 0 => obj'.uid = obj.uid)
    BY <1>3, <1>4, Numbers
  <2>2. /\ loc'[a].ready
        /\ cache.uid # 0 => cache.ready
        /\ obj.uid # 0 => obj.ready
    <3>1. CASE GoesOn(a) \/ Rereads(a)
      BY <1>1, <2>1, <3>1 DEF FinishInv, GoesOn, Rereads
    <3>2. CASE Begins(a)
      <4>1. loc'[a] = cache /\ cache.ready /\ cache.uid # 0
        BY <3>2 DEF Begins
      <4>2. obj.uid # 0 => cache.uid = obj.uid
        BY <2>1, <4>1, Numbers
      <4> QED BY <4>1, <4>2 DEF IndInv, StaleCopiesAgree, StillTrue
    <3> QED BY <3>1, <3>2 DEF Reasons, Leaves
  <2>3. obj'.uid # 0 => obj'.ready
    BY <2>1, <2>2 DEF Preserved, ObjStep, ReadyStays
  <2> QED BY <2>2, <2>3 DEF Preserved, CopyStep
<1> QED BY <1>3, <1>4

\* The same for one that has begun for a backup that is being deleted.
LEMMA RemoveKept ==
  ASSUME IndInv, LifeInv, Preserved, LifeStep, NEW a \in Actors, Reasons(a)
  PROVE  RemoveInv(a)'
<1> SUFFICES ASSUME pc'[a] \in Removing
             PROVE  inc' >= 1 /\ (inc' = 1 => obj'.uid = 0 \/ obj'.deleting)
  BY DEF RemoveInv
<1>1. RemoveInv(a) /\ MarkInv
  BY DEF LifeInv, ReasonInv
<1>2. ~Rereads(a) /\ ~Leaves(a)
  BY DEF Rereads, Leaves, Finishing, Removing
<1>3. inc >= 1
  BY <1>1, <1>2, Numbers DEF RemoveInv, Reasons, GoesOn, Begins
<1>4. inc' >= 1 /\ (inc' = 1 => inc = 1)
  BY <1>3, Numbers
<1>5. ASSUME inc' = 1 PROVE obj'.uid = 0 \/ obj'.deleting
  <2>1. inc = 1 /\ (obj'.uid # 0 => obj'.uid = obj.uid)
    BY <1>4, <1>5, Numbers
  <2>2. obj.uid = 0 \/ obj.deleting
    <3>1. CASE GoesOn(a)
      BY <1>1, <2>1, <3>1 DEF RemoveInv, GoesOn
    <3>2. CASE Begins(a)
      <4>1. cache.deleting /\ cache.uid # 0
        BY <3>2 DEF Begins
      <4>2. obj.uid # 0 => cache.uid = obj.uid
        BY <2>1, <4>1, Numbers
      <4> QED BY <1>1, <4>1, <4>2 DEF MarkInv
    <3> QED BY <1>2, <3>1, <3>2 DEF Reasons
  <2> QED BY <1>1, <2>1, <2>2, MarksStay
<1> QED BY <1>4, <1>5

\* All of a handler's reasons.
LEMMA ReasonsKept ==
  ASSUME IndInv, LifeInv, Preserved, LifeStep, NEW a \in Actors, Reasons(a)
  PROVE  ReasonInv(a)'
<1>1. WorkInv(a)'
  <2>1. WorkInv(a) /\ Working \cap Finishing = {}
    BY DEF LifeInv, ReasonInv, Working, Finishing
  <2>2. pc'[a] \in Working => loc'[a].uid # 0 /\ ~loc'[a].deleting
    BY <2>1 DEF WorkInv, Reasons, Leaves, GoesOn, Rereads, Begins
  <2> QED BY <2>2 DEF WorkInv
<1> QED BY <1>1, FinishKept, RemoveKept DEF ReasonInv

----------------------------------------------------------------------------
(* How the handlers move                                                   *)

Moves == \A b \in Actors : Reasons(b)

\* The handlers are left alone; only one of them is not.
LEMMA NoneMoves ==
  ASSUME UNCHANGED <<pc, loc>>
  PROVE  Moves
  BY DEF Moves, Reasons, GoesOn
LEMMA OneMoves ==
  ASSUME NEW a \in Actors, Reasons(a),
         \A b \in Actors \ {a} : pc'[b] = pc[b] /\ loc'[b] = loc[b]
  PROVE  Moves
<1> SUFFICES ASSUME NEW b \in Actors, b # a PROVE Reasons(b)
  BY DEF Moves
<1> QED BY DEF Reasons, GoesOn

\* A handler that returns, or goes on to the finalizer, has no reasons.
LEMMA ForgetReasons ==
  ASSUME TypeOK, NEW a \in Actors, NEW where \in {"idle", "finalizer"}, NEW holders,
         Forget(a, where, holders)
  PROVE  Moves
<1>1. pc'[a] = where /\ \A b \in Actors \ {a} : pc'[b] = pc[b] /\ loc'[b] = loc[b]
  BY DEF Forget, TypeOK, LocalsOK
<1>2. Leaves(a)
  BY <1>1 DEF Leaves, Working, Finishing, Removing
<1> QED BY <1>1, <1>2, OneMoves DEF Reasons
LEMMA ReturnReasons ==
  ASSUME TypeOK, NEW a \in Actors, NEW holders,
         Return(a, holders) \/ Fail(a, holders) \/ AfterChange(a, holders)
  PROVE  Moves
<1>1. Forget(a, "idle", holders) \/ Forget(a, "finalizer", holders)
  BY DEF Return, Fail, AfterChange
<1> QED BY <1>1, ForgetReasons

\* So has every handler after a restart.
LEMMA RestartReasons ==
  ASSUME Restart
  PROVE  Moves
<1>1. \A b \in Actors : Leaves(b)
  BY DEF Restart, Leaves, Working, Finishing, Removing
<1> QED BY <1>1 DEF Moves, Reasons

\* A handler that moves on with its object, for the same reason.
LEMMA GoOnReasons ==
  ASSUME TypeOK, NEW a \in Actors, NEW where, pc' = [pc EXCEPT ![a] = where], UNCHANGED loc,
         \/ where \in Working /\ pc[a] \in Working
         \/ where \in Finishing /\ pc[a] \in Finishing
         \/ where \in Removing /\ pc[a] \in Removing
  PROVE  Moves
<1>1. pc'[a] = where /\ loc'[a] = loc[a]
  BY DEF TypeOK, LocalsOK
<1>2. \A b \in Actors \ {a} : pc'[b] = pc[b] /\ loc'[b] = loc[b]
  BY DEF TypeOK, LocalsOK
<1>3. GoesOn(a)
  BY <1>1 DEF GoesOn, Working, Finishing, Removing
<1> QED BY <1>2, <1>3, OneMoves DEF Reasons

\* Route sends a handler where the object it read is a reason to go.
LEMMA RouteReasons ==
  ASSUME NEW o \in VMBackup
  PROVE  /\ Route(o) \in Working => ~o.deleting
         /\ Route(o) \in Finishing => o.ready
         /\ Route(o) \in Removing => o.deleting
         /\ Route(o) # "delete" => ~o.deleting
<1>1. CASE o.deleting
  <2>1. Route(o) = "delete"
    BY <1>1 DEF Route
  <2> QED BY <1>1, <2>1 DEF Working, Finishing, Removing
<1>2. CASE ~o.deleting /\ o.ready
  <2>1. Route(o) = ReadyRoute(o)
    BY <1>2 DEF Route, IsBackupReady
  <2>2. ReadyRoute(o) \in {"csi", "target", "upload"}
    BY DEF ReadyRoute, VMBackup
  <2> QED BY <1>2, <2>1, <2>2 DEF Working, Finishing, Removing
<1>3. CASE ~o.deleting /\ ~o.ready
  <2>1. Route(o) \in {"init", "statusError", "snapshots"}
    BY <1>3 DEF Route, IsBackupReady, isBackupMissingStatus, getBackupSource, VMBackup
  <2> QED BY <1>3, <2>1 DEF Working, Finishing, Removing
<1> QED BY <1>1, <1>2, <1>3

\* A handler that begins.
LEMMA EnterReasons ==
  ASSUME TypeOK, NEW a \in Actors, cache.uid # 0, NEW where, Enter(a, where),
         where = Route(cache) \/ where = "lhUpdate"
  PROVE  Moves
<1>1. /\ pc'[a] = where
      /\ loc'[a] = IF where = "delete" THEN Absent ELSE cache
      /\ \A b \in Actors \ {a} : pc'[b] = pc[b] /\ loc'[b] = loc[b]
  BY DEF Enter, TypeOK, LocalsOK
<1>2. CASE where = "lhUpdate"
  BY <1>1, <1>2, OneMoves DEF Reasons, Leaves, Working, Finishing, Removing
<1>3. CASE where = Route(cache)
  <2>1. /\ Route(cache) \in Working => ~cache.deleting
        /\ Route(cache) \in Finishing => cache.ready
        /\ Route(cache) \in Removing => cache.deleting
    BY RouteReasons DEF TypeOK, ApiOK
  <2>2. pc'[a] \in Working \cup Finishing => loc'[a] = cache
    BY <1>1 DEF Working, Finishing
  <2>3. Begins(a)
    BY <1>1, <1>3, <2>1, <2>2 DEF Begins
  <2> QED BY <1>1, <2>3, OneMoves DEF Reasons
<1> QED BY <1>2, <1>3

\* configureCSIDriverVolumeSnapshotClassNames and configureBackupTargetOnStatus
\* read the object again.
LEMMA GetUpdatedReasons ==
  ASSUME TypeOK, NEW a \in Actors, GetUpdated(a)
  PROVE  Moves
<1>1. CASE Fail(a, current)
  BY <1>1, ReturnReasons
<1>2. CASE cache.uid # 0 /\ ~Fail(a, current)
  <2>1. pc[a] \in {"csiGet", "targetGet"} /\ loc' = [loc EXCEPT ![a] = cache]
    BY <1>2 DEF GetUpdated
  <2>2. \/ pc' = [pc EXCEPT ![a] = "target"]
        \/ pc' = [pc EXCEPT ![a] = "upload"]
    BY <1>2 DEF GetUpdated
  <2>3. /\ pc'[a] \in {"target", "upload"} /\ loc'[a] = cache
        /\ \A b \in Actors \ {a} : pc'[b] = pc[b] /\ loc'[b] = loc[b]
    BY <2>1, <2>2 DEF TypeOK, LocalsOK
  <2>4. Rereads(a)
    BY <1>2, <2>1, <2>3 DEF Rereads, Finishing
  <2> QED BY <2>3, <2>4, OneMoves DEF Reasons
<1> QED BY <1>1, <1>2 DEF GetUpdated

\* Every step of a worker.
LEMMA WorkerReasons ==
  ASSUME TypeOK, NEW a \in Workers, WorkerStep(a)
  PROVE  Moves
<1>1. a \in Actors
  BY DEF Actors
<1>2. CASE MountFails(a) \/ NoSnapshotClass(a)
  <2>1. pc' = [pc EXCEPT ![a] = "statusError"] /\ UNCHANGED loc /\ pc[a] \in Working
    BY <1>2 DEF MountFails, NoSnapshotClass, GiveUp, Working
  <2> QED BY <1>1, <2>1, GoOnReasons DEF Working
<1>3. CASE setStatusError(a) \/ initBackup(a) \/ MissingSecret(a) \/ updateConditions(a)
           \/ AddFinalizer(a)
  BY <1>1, <1>3, ReturnReasons
  DEF setStatusError, initBackup, MissingSecret, updateConditions, AddFinalizer
<1>4. CASE CopySnapshotStatus(a)
  <2>1. pc' = [pc EXCEPT ![a] = "snapshots"] /\ UNCHANGED loc /\ pc[a] = "snapshots"
    BY <1>4 DEF CopySnapshotStatus, NextVolume
  <2> QED BY <1>1, <2>1, GoOnReasons DEF Working
<1>5. CASE SnapshotBeingDeleted(a) \/ NoStatusToUpload(a)
  BY <1>5, RestartReasons DEF SnapshotBeingDeleted, NoStatusToUpload
<1>6. CASE createVolumeSnapshot(a) \/ GetCreatedSnapshot(a)
  <2>1. pc[a] \in Working
    BY <1>6 DEF createVolumeSnapshot, GetCreatedSnapshot, Working
  <2>2. \/ Restart
        \/ /\ UNCHANGED loc
           /\ pc' = [pc EXCEPT ![a] = "created"] \/ pc' = [pc EXCEPT ![a] = "snapshots"]
    BY <1>6
    DEF createVolumeSnapshot, GetCreatedSnapshot, PanicOnError, NextVolume, Goto
  <2> QED BY <1>1, <2>1, <2>2, RestartReasons, GoOnReasons DEF Working
<1>7. CASE UpdateVolumeBackups(a)
  <2>1. pc[a] \in Working
    BY <1>7 DEF UpdateVolumeBackups, Working
  <2>2. Restart \/ (UNCHANGED loc /\ pc' = [pc EXCEPT ![a] = "conditions"])
    BY <1>7 DEF UpdateVolumeBackups, PanicOnError
  <2> QED BY <1>1, <2>1, <2>2, RestartReasons, GoOnReasons DEF Working
<1>8. CASE configureCSIDriverVolumeSnapshotClassNames(a) \/ configureBackupTargetOnStatus(a)
  <2>1. pc[a] \in Finishing
    BY <1>8 DEF configureCSIDriverVolumeSnapshotClassNames, configureBackupTargetOnStatus,
                Finishing
  <2>2. \/ Fail(a, current) \/ AfterChange(a, current)
        \/ /\ UNCHANGED loc
           /\ pc' = [pc EXCEPT ![a] = "csiGet"] \/ pc' = [pc EXCEPT ![a] = "targetGet"]
    BY <1>8 DEF configureCSIDriverVolumeSnapshotClassNames, configureBackupTargetOnStatus, Goto
  <2> QED BY <1>1, <2>1, <2>2, ReturnReasons, GoOnReasons DEF Finishing
<1>9. CASE GetUpdated(a)
  BY <1>1, <1>9, GetUpdatedReasons
<1>10. CASE uploadVMBackupMetadata(a)
  BY <1>1, <1>10, ReturnReasons DEF uploadVMBackupMetadata
<1>11. CASE DeleteFinalizer(a) \/ OnBackupRemove(a)
  <2>1. pc[a] \in Removing
    BY <1>11 DEF DeleteFinalizer, OnBackupRemove, Removing
  <2>2. \/ Fail(a, current) \/ Return(a, current)
        \/ /\ UNCHANGED loc
           /\ pc' = [pc EXCEPT ![a] = "removed"] \/ pc' = [pc EXCEPT ![a] = "forceDelete"]
    BY <1>11 DEF DeleteFinalizer, OnBackupRemove, Goto
  <2> QED BY <1>1, <2>1, <2>2, ReturnReasons, GoOnReasons DEF Removing
<1>12. CASE forceDeleteVolumeSnapshotAndContent(a)
  BY <1>1, <1>12, ReturnReasons, NoneMoves DEF forceDeleteVolumeSnapshotAndContent
<1> QED BY <1>2, <1>3, <1>4, <1>5, <1>6, <1>7, <1>8, <1>9, <1>10, <1>11, <1>12 DEF WorkerStep

\* Every step.
LEMMA NextReasons ==
  ASSUME TypeOK, [Next]_vars
  PROVE  Moves
<1>1. CASE \E a \in Workers : WorkerStep(a)
  BY <1>1, WorkerReasons
<1>2. CASE Reconcile
  BY <1>2, EnterReasons, NoneMoves DEF Reconcile, locals, Actors, Workers
<1>3. CASE \E v \in Volumes : updateVolumeSnapshotChanged(v)
  BY <1>3, EnterReasons, NoneMoves
  DEF updateVolumeSnapshotChanged, resolveVolSnapshotRef, locals, Actors, Workers
<1>4. CASE \E v \in Volumes : OnLHBackupChanged(v)
  BY <1>4, EnterReasons, NoneMoves
  DEF OnLHBackupChanged, resolveVolSnapshotRef, locals, Actors
<1>5. CASE UpdateLonghornBackupName
  BY <1>5, ReturnReasons DEF UpdateLonghornBackupName, Actors
<1>6. CASE Crash
  BY <1>6, RestartReasons DEF Crash
<1>7. CASE \/ syncVMBackup \/ createVMBackupIfNotExist \/ BackupWatch \/ Resync
           \/ CreateBackup \/ DeleteBackup \/ LoseSource
           \/ \E t \in Settings : SetBackupTarget(t)
           \/ \E v \in Volumes : \/ SnapshotWatch(v) \/ SnapshotDone(v) \/ SnapshotError(v)
                                  \/ SnapshotGone(v) \/ DeleteSnapshot(v)
                                  \/ CollectContent(v) \/ LonghornBackupEvent(v)
           \/ UNCHANGED vars
  BY <1>7, NoneMoves
  DEF syncVMBackup, createVMBackupIfNotExist, BackupWatch, Resync, CreateBackup, DeleteBackup,
      LoseSource, SetBackupTarget, SnapshotWatch, SnapshotDone, SnapshotError, SnapshotGone,
      DeleteSnapshot, CollectContent, LonghornBackupEvent, locals, vars
<1> QED BY <1>1, <1>2, <1>3, <1>4, <1>5, <1>6, <1>7, Zenon DEF Next

\* The Metadata controller reads from the target that is configured.
LEMMA NextSync ==
  ASSUME SyncInv, [Next]_vars
  PROVE  SyncInv'
<1>1. CASE UNCHANGED msync
  BY <1>1 DEF SyncInv, Idle, NoMetadata
<1>2. CASE msync' = Idle
  BY <1>2 DEF SyncInv, Idle, NoMetadata
<1>3. CASE \E a \in Workers : WorkerStep(a)
  BY <1>1, <1>2, <1>3
  DEF WorkerStep, MountFails, NoSnapshotClass, GiveUp, setStatusError, initBackup,
      MissingSecret, CopySnapshotStatus, SnapshotBeingDeleted, createVolumeSnapshot,
      GetCreatedSnapshot, UpdateVolumeBackups, updateConditions, AddFinalizer,
      configureCSIDriverVolumeSnapshotClassNames, configureBackupTargetOnStatus, GetUpdated,
      NoStatusToUpload, uploadVMBackupMetadata, DeleteFinalizer, OnBackupRemove,
      forceDeleteVolumeSnapshotAndContent, PanicOnError, Restart, store
<1>4. CASE syncVMBackup
  BY <1>1, <1>4 DEF syncVMBackup, SyncInv
<1>5. CASE createVMBackupIfNotExist \/ Crash
  BY <1>2, <1>5 DEF createVMBackupIfNotExist, Crash, Restart
<1>6. CASE \/ Reconcile \/ UpdateLonghornBackupName \/ BackupWatch \/ Resync
           \/ CreateBackup \/ DeleteBackup \/ LoseSource
           \/ \E t \in Settings : SetBackupTarget(t)
           \/ \E v \in Volumes : \/ updateVolumeSnapshotChanged(v) \/ OnLHBackupChanged(v)
                                  \/ SnapshotWatch(v) \/ SnapshotDone(v) \/ SnapshotError(v)
                                  \/ SnapshotGone(v) \/ DeleteSnapshot(v)
                                  \/ CollectContent(v) \/ LonghornBackupEvent(v)
           \/ UNCHANGED vars
  BY <1>1, <1>6
  DEF Reconcile, UpdateLonghornBackupName, BackupWatch, Resync, CreateBackup, DeleteBackup,
      LoseSource, SetBackupTarget, updateVolumeSnapshotChanged, OnLHBackupChanged,
      SnapshotWatch, SnapshotDone, SnapshotError, SnapshotGone, DeleteSnapshot,
      CollectContent, LonghornBackupEvent, store, vars
<1> QED BY <1>3, <1>4, <1>5, <1>6, Zenon DEF Next

----------------------------------------------------------------------------
\* The invariant holds at first.
LEMMA InitLife == Init => LifeInv
<1> SUFFICES ASSUME Init PROVE LifeInv
  OBVIOUS
<1>1. obj.deleting = FALSE /\ cache = obj
  BY DEF Init, LegacyBackup, Absent, Blank
<1>2. HomeInv
  <2>1. CASE Start = "legacy"
    BY <2>1 DEF Init, HomeInv, isBackupTargetOnAnnotation, LegacyBackup, Blank
  <2>2. CASE Start # "legacy"
    BY <2>2 DEF Init, HomeInv, Absent, Blank
  <2> QED BY <2>1, <2>2
<1>3. \A a \in Actors : ReasonInv(a)
  BY DEF Init, ReasonInv, WorkInv, FinishInv, RemoveInv, Working, Finishing, Removing
<1> QED BY <1>1, <1>2, <1>3 DEF Init, LifeInv, MarkInv, SyncInv

\* Every step keeps it.
LEMMA NextLifeInv ==
  ASSUME IndInv, LifeInv, [Next]_vars
  PROVE  LifeInv'
<1>1. Preserved /\ LifeStep /\ HomeInv'
  BY NextPreserves, NextLives DEF Lives
<1>2. MarkInv'
  BY <1>1, MarkKept
<1>3. SyncInv'
  BY NextSync DEF LifeInv
<1>4. ASSUME NEW a \in Actors PROVE ReasonInv(a)'
  BY <1>1, NextReasons, ReasonsKept DEF Moves, IndInv
<1> QED BY <1>1, <1>2, <1>3, <1>4 DEF LifeInv

\* Every handler of a backup's object has the reason for what it does that Route
\* found in the cache: it computes a status for a backup that was not being
\* deleted, and, as long as no other backup of the name has been created, it
\* uploads metadata of one that is ready or gone and removes metadata of one that
\* is being deleted or gone (OnBackupChange, handleBackupReady, OnBackupRemove).
THEOREM LifeInvariance == Spec => []LifeInv
<1>1. IndInv /\ LifeInv /\ [Next]_vars => LifeInv'
  BY NextLifeInv
<1> QED BY InitLife, Invariance, <1>1, PTL DEF Spec

\* The backup lives as BackupLife promises, whatever the controllers do from
\* copies of any age and whenever the manager crashes (Reconcile, OnBackupChange,
\* updateConditions, uploadVMBackupMetadata, OnBackupRemove, syncVMBackup).
THEOREM LivesUpToPromise == Spec => LivesAsPromised
<1>1. Init => Life!Init
  <2> SUFFICES ASSUME Init PROVE Life!Init
    OBVIOUS
  <2>1. /\ obj.deleting = FALSE /\ obj.target = "none"
        /\ \/ obj.uid = 0 /\ inc = 0 /\ obj.ready = FALSE
           \/ obj.uid = 1 /\ inc = 1 /\ obj.ready = TRUE
    BY DEF Init, LegacyBackup, Absent, Blank
  <2>2. {t \in Targets : remote[t].file} \in SUBSET (Targets \cup {"default"})
    OBVIOUS
  <2> QED BY <2>1, <2>2 DEF Life!Init
<1>2. IndInv /\ LifeInv /\ [Next]_vars => [Life!Next]_(Life!vars)
  BY NextLives DEF Lives, LifeStep
<1> QED BY <1>1, <1>2, Invariance, LifeInvariance, PTL DEF Spec, LivesAsPromised, Life!Spec
=============================================================================
