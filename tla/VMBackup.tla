------------------------------ MODULE VMBackup ------------------------------
(***************************************************************************)
(* The life of one VirtualMachineBackup: the VirtualMachineBackup          *)
(* controller, the VolumeSnapshot and LonghornBackup controllers that call *)
(* into it, the metadata file it keeps on the backup target and the        *)
(* Metadata controller that recreates backups from such files.             *)
(*                                                                         *)
(* All of them run in one manager process, one worker each.  They read     *)
(* through the manager's informer cache, which lags the API server, and    *)
(* write with optimistic concurrency: an Update made from a copy whose     *)
(* resourceVersion is not the stored one is refused.  Resource versions    *)
(* are compared for equality only, so the model keeps, in current, the     *)
(* holders whose copy carries the stored version.                          *)
(*                                                                         *)
(* Abstractions.  One backup name; its disks are 1..NumVolumes in slice    *)
(* order.  A nil status and an empty one are the same record, since every  *)
(* reader treats them alike; SourceSpec and VolumeBackups are one flag,    *)
(* src, since they are always written together.  ReadyToUse nil is false.  *)
(* Times, messages and secrets are left out.  VolumeSnapshots have a cache *)
(* of their own; the Setting, the source VM, its claims and the Longhorn   *)
(* objects are read as they are.                                           *)
(***************************************************************************)
EXTENDS Integers

CONSTANTS
  NumVolumes,       \* disks of the source VM that are claims
  Targets,          \* backup targets (S3 or NFS endpoints) a user may configure
  Kind,             \* spec.type of the backup: "backup" or "snapshot"
  Start,            \* how the run begins, see Init
  StartSettings,    \* possible first values of the backup-target setting
  StartSources,     \* what may be left of the source VM at the start, see vm
  Controllers,      \* bound: the controllers that take part in the run
  Disturbances,     \* kinds of user actions and failures that may happen
  MaxDisturbances,  \* bound: how many of them happen in a behaviour
  MaxIncarnations   \* bound: how often an object of this name is created

Volumes == 1..NumVolumes
Uids == 0..MaxIncarnations
Settings == Targets \cup {"default", "unset"}
Recorded == Targets \cup {"default", "none"}
Phases == {"none", "pending", "ready", "failed", "deleting"}

ASSUME VolumesAssumption == NumVolumes \in Nat \ {0}
ASSUME BoundsAssumption == MaxIncarnations \in Nat \ {0} /\ MaxDisturbances \in Nat
ASSUME TargetsAssumption ==
  /\ Targets # {}
  /\ "default" \notin Targets /\ "unset" \notin Targets /\ "none" \notin Targets
  /\ StartSettings \subseteq Settings
ASSUME ChoicesAssumption ==
  /\ Kind \in {"backup", "snapshot"}
  /\ Start \in {"empty", "legacy", "remote"}
  /\ StartSources \subseteq {"both", "disks", "none"}

VARIABLES
  obj,      \* the VirtualMachineBackup in the API server; uid 0: none
  cache,    \* the informer's copy of it
  current,  \* holders ("cache", actors) whose copy has the stored version
  queue,    \* items in the work queues of the four controllers
  pc,       \* per actor: where its handler is
  loc,      \* per actor: the object its handler works on
  cpy,      \* per actor: the VolumeBackups of the copy being changed
  idx,      \* per actor: the volume its loop is at
  hadFin,   \* actors whose first Get found the finalizer
  vs,       \* per volume: the VolumeSnapshot <backup>-volume-<pvc>
  vsCache,  \* the informer's copy of the VolumeSnapshots
  vsc,      \* per volume: owner uid of VolumeSnapshotContent <name>-vsc, 0: none
  lhb,      \* volumes whose snapshot has a Longhorn Backup object
  vm,       \* what is left of the source: "both" VM and disks, "disks", "none"
  setting,  \* value of the backup-target setting
  remote,   \* per target: the metadata file of this backup
  msync,    \* the file the Metadata controller has read and not yet handled
  inc,      \* objects of this name created so far
  budget    \* disturbances still allowed

api == <<obj, cache, current>>
locals == <<pc, loc, cpy, idx, hadFin>>
cluster == <<vs, vsCache, vsc, lhb, vm, setting>>
store == <<remote, msync>>
bounds == <<inc, budget>>
vars == <<api, queue, locals, cluster, store, bounds>>

Workers == {"backup", "snapshot"}   \* both run the backup's Reconcile
Actors == Workers \cup {"lh"}
PCs == {"idle", "init", "statusError", "snapshots", "created",
        "conditions", "csi", "csiGet", "target", "targetGet", "upload",
        "finalizer", "delete", "removed", "forceDelete", "lhUpdate"}
Items == ({"backup", "meta"} \X {0}) \cup ({"snapshot", "lh"} \X Volumes)

VolumeBackup == [ready : BOOLEAN, err : BOOLEAN, lh : BOOLEAN]
OpError == NumVolumes + 1           \* Status.Error set by setStatusError
VMBackup ==
  [uid : Uids, deleting : BOOLEAN, fin : BOOLEAN,
   src : BOOLEAN, vols : [Volumes -> VolumeBackup], target : Recorded,
   csi : BOOLEAN, ready : BOOLEAN, error : 0..OpError,
   cond : {"none", "progressing", "ready", "error"}]
Snapshot == [phase : Phases, uid : Uids, src : {"none", "pvc", "content", "empty"}]
Metadata == [file : BOOLEAN, lh : [Volumes -> BOOLEAN]]

NoVols == [v \in Volumes |-> [ready |-> FALSE, err |-> FALSE, lh |-> FALSE]]
Blank(uid, fin) ==
  [uid |-> uid, deleting |-> FALSE, fin |-> fin, src |-> FALSE, vols |-> NoVols,
   target |-> "none", csi |-> FALSE, ready |-> FALSE, error |-> 0, cond |-> "none"]
Absent == Blank(0, FALSE)
NoSnapshot == [phase |-> "none", uid |-> 0, src |-> "none"]
NoMetadata == [file |-> FALSE, lh |-> [v \in Volumes |-> FALSE]]
Idle == [target |-> "none", meta |-> NoMetadata]   \* msync between two files

----------------------------------------------------------------------------
(* Status of a backup                                                      *)

\* Mutation: OnBackupChange does not return early for a ready backup.
NeverSeenReady(o) == FALSE
IsBackupReady(o) == o.ready

isBackupMissingStatus(o) == ~o.src

\* Status # nil: initBackup and setStatusError make one.
HasStatus(o) == o.src \/ o.cond # "none"

IsBackupProgressing(o) == o.error = 0 /\ ~o.ready

\* Mutation: the recorded target is not compared with the configured one.
AnyTargetIsSame(o, t) == TRUE
IsBackupTargetSame(o, t) == o.target = t

\* A backup written by v0.3.0 carries its target in annotations.
\* Mutation: the annotations are not looked at.
NeverOnAnnotation(o) == FALSE
isBackupTargetOnAnnotation(o) == Start = "legacy" /\ o.uid = 1
\* Mutation: the configured target is recorded in place of the annotated one.
ConfiguredTarget == IF setting \in Targets THEN setting ELSE CHOOSE t \in Targets : TRUE
AnnotatedTarget == CHOOSE t \in Targets : TRUE

\* setStatusError: the status is replaced by an empty one with the error.
StatusError(o) == [Blank(o.uid, o.fin) EXCEPT !.deleting = o.deleting,
                                              !.error = OpError, !.cond = "error"]

\* translateError and the copy of ReadyToUse out of a VolumeSnapshot's status: what
\* may become of the volume's entry.  A snapshot that is pending may have no status
\* yet, which leaves the entry alone; one that is being deleted may have any.  The
\* snapshotter reports a snapshot as ready or failed, never as both.
CopyStatus(vb, s) ==
  LET as(phase) == [vb EXCEPT !.ready = (phase = "ready"), !.err = (phase = "failed")]
  IN CASE s.phase = "pending" -> {vb, as("pending")}
       [] s.phase \in {"ready", "failed"} -> {as(s.phase)}
       [] OTHER -> {vb, as("pending"), as("ready"), as("failed")}

\* The first volume in error ends the loop over the volumes.
IsFirstError(o, v) == o.vols[v].err /\ \A u \in 1..(v - 1) : ~o.vols[u].err
FirstError(o) ==
  IF \E v \in Volumes : IsFirstError(o, v)
    THEN CHOOSE v \in Volumes : IsFirstError(o, v)
    ELSE 0
\* Mutation: no error is taken for ready.
NoErrorIsReady(o) == FirstError(o) = 0
VolumesReady(o) ==
  \A v \in Volumes : (FirstError(o) = 0 \/ v <= FirstError(o)) => o.vols[v].ready

\* updateConditions: the status it computes from the object it was given.
NewConditions(o) ==
  LET e == FirstError(o)
      rdy == VolumesReady(o)
      turned == rdy /\ ~o.ready
      failing == e # 0 /\ (turned \/ o.error # e)
  IN [o EXCEPT !.ready = rdy,
               !.error = IF failing THEN e ELSE IF turned THEN 0 ELSE @,
               !.cond = CASE failing -> "error"
                          [] ~failing /\ turned -> "ready"
                          [] ~failing /\ ~turned /\ IsBackupProgressing(o) -> "progressing"
                          [] OTHER -> @]

\* Mutation: initBackup does not record the target.
NewStatusNoTarget(o) ==
  [Blank(o.uid, o.fin) EXCEPT !.src = TRUE, !.csi = TRUE, !.deleting = o.deleting]
\* initBackup: the status of a backup taken from the VM that exists now.
NewStatus(o) ==
  [Blank(o.uid, o.fin) EXCEPT !.src = TRUE, !.csi = TRUE, !.deleting = o.deleting,
                              !.target = IF Kind = "backup" THEN setting ELSE "none"]

\* createVMBackupIfNotExist: the object built from a metadata file.
FromMetadata(uid, t, m) ==
  [Blank(uid, FALSE) EXCEPT !.src = TRUE, !.target = t,
                            !.vols = [v \in Volumes |-> [NoVols[v] EXCEPT !.lh = m.lh[v]]]]

\* uploadVMBackupMetadata with sanitizeVolumeBackups: what the file says.
MetadataOf(o) == [file |-> TRUE, lh |-> [v \in Volumes |-> o.vols[v].lh]]

\* Reconcile, OnBackupChange and handleBackupReady: where a handler goes with
\* the object it read.  getBackupSource decides whether there is a VM to back up.
ReadyRoute(o) == CASE ~o.csi -> "csi"
                   [] o.csi /\ (Kind = "snapshot" \/ isBackupTargetOnAnnotation(o)) -> "target"
                   [] OTHER -> "upload"
getBackupSource == IF vm = "both" THEN "init" ELSE "statusError"
\* Mutation: a ready backup is handled even when it is being deleted.
ReadyBeforeDeleting(o) == CASE IsBackupReady(o) -> ReadyRoute(o)
                            [] ~IsBackupReady(o) /\ o.deleting -> "delete"
                            [] OTHER -> "snapshots"
\* Mutation: a backup that is being deleted is still worked on until it is ready.
UnfinishedBeforeDeleting(o) == CASE ~IsBackupReady(o) /\ isBackupMissingStatus(o) -> getBackupSource
                                 [] ~IsBackupReady(o) /\ ~isBackupMissingStatus(o) -> "snapshots"
                                 [] IsBackupReady(o) /\ o.deleting -> "delete"
                                 [] OTHER -> ReadyRoute(o)
Route(o) == CASE o.deleting -> "delete"
              [] ~o.deleting /\ IsBackupReady(o) -> ReadyRoute(o)
              [] ~o.deleting /\ ~IsBackupReady(o) /\ isBackupMissingStatus(o) -> getBackupSource
              [] OTHER -> "snapshots"

----------------------------------------------------------------------------
(* API server, cache and process                                           *)

\* A user action or a failure, drawn from the bounded budget.
Disturb(kind) == kind \in Disturbances /\ budget > 0 /\ budget' = budget - 1

\* Holders that are current once new is stored: an Update that changes nothing
\* is not a write.
Holders(new) == IF new = obj THEN current ELSE {}

\* Mutation: the resource version of what was read is not sent back.
ReadUnversioned(a) == current \cup {a}
\* Get through the cache: a's copy is as old as the cache's.
ReadBy(a) == IF "cache" \in current THEN current \cup {a} ELSE current \ {a}

Goto(a, where) == pc' = [pc EXCEPT ![a] = where] /\ UNCHANGED <<loc, cpy, idx, hadFin>>

\* The handler goes on to where without the object it has read.
Forget(a, where, holders) ==
  /\ pc' = [pc EXCEPT ![a] = where]
  /\ loc' = [loc EXCEPT ![a] = Absent]
  /\ cpy' = [cpy EXCEPT ![a] = NoVols]
  /\ idx' = [idx EXCEPT ![a] = 1]
  /\ current' = holders \ {a}

\* The handler returns nil; or an error, which puts the item back, except that
\* updateVolumeSnapshotChanged drops what the backup's Reconcile returned.
Return(a, holders) == /\ Forget(a, "idle", holders)
                      /\ hadFin' = hadFin \ {a}
                      /\ UNCHANGED queue
\* Mutation: every error is dropped.
FailDropped(a, holders) == Return(a, holders)
Fail(a, holders) == /\ Forget(a, "idle", holders)
                    /\ hadFin' = hadFin \ {a}
                    /\ queue' = CASE a = "backup" -> queue \cup {<<"backup", 0>>}
                                  [] a = "lh" -> queue \cup {<<"lh", idx[a]>>}
                                  [] OTHER -> queue

\* Mutation: Reconcile returns with OnBackupChange.
AfterChangeReturns(a, holders) == Return(a, holders)
\* OnBackupChange returned nil: Reconcile goes on to the finalizer.
AfterChange(a, holders) ==
  IF a \in hadFin THEN Return(a, holders)
                  ELSE Forget(a, "finalizer", holders) /\ UNCHANGED <<hadFin, queue>>

\* An event queues the object for the controllers that take part.
Queued(items) == queue \cup {i \in items : i[1] \in Controllers}

\* The items of the objects that exist.  An item whose object is gone, or a
\* snapshot's that is being deleted, is left out: its handler does nothing.
Listed(o, snaps, lhs) ==
  LET present(i) == /\ i[1] = "backup" => o.uid # 0
                    /\ i[1] = "snapshot" => snaps[i[2]].phase \notin {"none", "deleting"}
                    /\ i[1] = "lh" => i[2] \in lhs
  IN {i \in Items : i[1] \in Controllers /\ present(i)}

\* The manager starts (again): caches are filled by a list, which queues
\* every object; whatever the workers were doing is lost.
Restart == /\ cache' = obj' /\ vsCache' = vs' /\ current' = {"cache"}
           /\ queue' = Listed(obj', vs', lhb)
           /\ pc' = [a \in Actors |-> "idle"]
           /\ loc' = [a \in Actors |-> Absent]
           /\ cpy' = [a \in Actors |-> NoVols]
           /\ idx' = [a \in Actors |-> 1]
           /\ hadFin' = {}
           /\ msync' = Idle

\* reconcileVolumeSnapshots returned an error: "return *result, setStatusError"
\* dereferences a nil result.  Go does not order the dereference and the call,
\* so the panic comes before or after the status is replaced (which a stale
\* copy cannot do).
PanicOnError(a) ==
  /\ \/ obj' = obj
     \/ a \in current /\ obj' = StatusError(loc[a])
  /\ UNCHANGED vs
  /\ Restart

----------------------------------------------------------------------------
(* Reconcile of the backup, run by its own worker and by the VolumeSnapshot *)
(* controller's                                                            *)

\* An actor takes an item and works on the object in the cache.
Enter(a, where) == /\ pc' = [pc EXCEPT ![a] = where]
                   /\ loc' = [loc EXCEPT ![a] = IF where = "delete" THEN Absent ELSE cache]
                   /\ cpy' = [cpy EXCEPT ![a] = IF where = "snapshots" THEN cache.vols ELSE NoVols]
                   /\ hadFin' = IF cache.fin THEN hadFin \cup {a} ELSE hadFin
                   /\ current' = IF where = "delete" THEN current \ {a} ELSE ReadBy(a)

Reconcile ==
  /\ pc["backup"] = "idle" /\ <<"backup", 0>> \in queue
  /\ queue' = queue \ {<<"backup", 0>>}
  /\ \/ cache.uid = 0 /\ UNCHANGED <<locals, current>>
     \/ cache.uid # 0 /\ Enter("backup", Route(cache)) /\ UNCHANGED idx
  /\ UNCHANGED <<obj, cache, cluster, store, bounds>>

\* resolveVolSnapshotRef: the cached backup is the one that owns the snapshot.
resolveVolSnapshotRef(s) == cache.uid # 0 /\ cache.uid = s.uid

\* Through the VolumeSnapshot controller; its errors are dropped, see Fail.
updateVolumeSnapshotChanged(v) ==
  LET s == vsCache[v]
      resolved == s.phase \notin {"none", "deleting"} /\ resolveVolSnapshotRef(s)
  IN /\ pc["snapshot"] = "idle" /\ <<"snapshot", v>> \in queue
     /\ queue' = queue \ {<<"snapshot", v>>}
     /\ \/ ~resolved /\ UNCHANGED <<locals, current>>
        \/ resolved /\ Enter("snapshot", Route(cache)) /\ UNCHANGED idx
     /\ UNCHANGED <<obj, cache, cluster, store, bounds>>

\* A failure whose error setStatusError is to record.
GiveUp(a, kind) ==
  /\ Disturb(kind)
  /\ pc' = [pc EXCEPT ![a] = "statusError"]
  /\ cpy' = [cpy EXCEPT ![a] = NoVols]
  /\ UNCHANGED <<api, loc, idx, hadFin, queue, cluster, store, inc>>
\* mountLonghornVolumes fails, for a VM that is not running.
MountFails(a) == pc[a] = "init" /\ GiveUp(a, "initFailure")
\* getCSIDriverMap finds a driver without snapshot class.
NoSnapshotClass(a) == pc[a] = "snapshots" /\ idx[a] = 1 /\ GiveUp(a, "failure")

\* The error's time is new in every call, so this is always a write.
setStatusError(a) ==
  /\ pc[a] = "statusError"
  /\ \/ a \in current /\ obj' = StatusError(loc[a]) /\ Fail(a, {})
     \/ a \notin current /\ obj' = obj /\ Fail(a, current)
  /\ UNCHANGED <<cache, cluster, store, bounds>>

\* getVolumeBackups reads every claim of the VM and its volume.
getVolumeBackups == vm # "none"
initBackup(a) ==
  LET ok == getVolumeBackups /\ ~(Kind = "backup" /\ setting = "unset")
      new == NewStatus(loc[a])
  IN /\ pc[a] = "init"
     /\ \/ (~ok \/ a \notin current) /\ obj' = obj /\ Fail(a, current)
        \/ ok /\ a \in current /\ obj' = new /\ AfterChange(a, Holders(new))
     /\ UNCHANGED <<cache, cluster, store, bounds>>
\* getSecretBackups does not find a secret of the VM: initBackup fails without
\* recording why.
MissingSecret(a) ==
  /\ pc[a] = "init"
  /\ Disturb("initFailure") /\ Fail(a, current)
  /\ UNCHANGED <<obj, cache, cluster, store, inc>>

\* Mutation: the loop skips a volume.
NextVolumeSkips(a, vb) ==
  /\ cpy' = [cpy EXCEPT ![a][idx[a]] = vb]
  /\ idx' = [idx EXCEPT ![a] = @ + 2]
  /\ pc' = [pc EXCEPT ![a] = "snapshots"]
  /\ UNCHANGED <<loc, hadFin>>
\* One turn of reconcileVolumeSnapshots' loop ends: the next volume.
NextVolume(a, vb) ==
  /\ cpy' = [cpy EXCEPT ![a][idx[a]] = vb]
  /\ idx' = [idx EXCEPT ![a] = @ + 1]
  /\ pc' = [pc EXCEPT ![a] = "snapshots"]
  /\ UNCHANGED <<loc, hadFin>>

\* The snapshot is there: its status is copied.
CopySnapshotStatus(a) ==
  LET v == idx[a]
  IN /\ pc[a] = "snapshots" /\ v \in Volumes
     /\ vsCache[v].phase \notin {"none", "deleting"}
     /\ \E vb \in CopyStatus(cpy[a][v], vsCache[v]) : NextVolume(a, vb)
     /\ UNCHANGED <<api, queue, cluster, store, bounds>>

\* The snapshot is being deleted: the loop returns a result and no error, and
\* "return *result, setStatusError(vmBackup, nil)" calls Error() on nil.
SnapshotBeingDeleted(a) ==
  /\ pc[a] = "snapshots" /\ idx[a] \in Volumes
  /\ vsCache[idx[a]].phase = "deleting"
  /\ UNCHANGED <<obj, vs>>
  /\ Restart
  /\ UNCHANGED <<vsc, lhb, vm, setting, remote, bounds>>

\* createVolumeSnapshotContent returns the content it found; having created
\* one, it returns the empty object its Get left behind.
SnapshotSource(vb, v) == IF ~vb.lh THEN "pvc"
                         ELSE IF vsc[v] # 0 THEN "content" ELSE "empty"
createVolumeSnapshotContent(vb, v, uid) ==
  vsc' = IF vb.lh /\ vsc[v] = 0 THEN [vsc EXCEPT ![v] = uid] ELSE vsc

createVolumeSnapshot(a) ==
  LET v == idx[a]
      vb == cpy[a][v]
      noSource == ~vb.lh /\ vm = "none"
  IN /\ pc[a] = "snapshots" /\ v \in Volumes
     /\ vsCache[v].phase = "none"
     /\ \/ /\ noSource                             \* the claim is gone
           /\ PanicOnError(a) /\ UNCHANGED <<vsc, budget>>
        \/ /\ vb.lh /\ vsc[v] = 0 /\ Disturb("failure")   \* no Longhorn Backup
           /\ PanicOnError(a) /\ UNCHANGED vsc
        \/ /\ ~noSource /\ vs[v].phase # "none"    \* AlreadyExists
           /\ createVolumeSnapshotContent(vb, v, loc[a].uid)
           /\ PanicOnError(a) /\ UNCHANGED budget
        \/ /\ ~noSource /\ vs[v].phase = "none"
           /\ createVolumeSnapshotContent(vb, v, loc[a].uid)
           /\ vs' = [vs EXCEPT ![v] = [phase |-> "pending", uid |-> loc[a].uid,
                                       src |-> SnapshotSource(vb, v)]]
           /\ Goto(a, "created")
           /\ UNCHANGED <<api, queue, vsCache, msync, budget>>
     /\ UNCHANGED <<lhb, vm, setting, remote, inc>>

\* createVolumeSnapshot ends with a Get of what it created, from the cache.
GetCreatedSnapshot(a) ==
  LET v == idx[a]
  IN /\ pc[a] = "created"
     /\ \/ vsCache[v].phase = "none" /\ PanicOnError(a)
        \/ /\ vsCache[v].phase # "none"
           /\ \E vb \in CopyStatus(cpy[a][v], vsCache[v]) : NextVolume(a, vb)
           /\ UNCHANGED <<api, queue, vs, vsCache, msync>>
     /\ UNCHANGED <<vsc, lhb, vm, setting, remote, bounds>>

\* The loop is over: reconcileVolumeSnapshots saves the copied statuses if they
\* differ; a Conflict is one more error that ends in the panic.
UpdateVolumeBackups(a) ==
  /\ pc[a] = "snapshots" /\ idx[a] = NumVolumes + 1 /\ cpy[a] # loc[a].vols
  /\ \/ /\ a \in current
        /\ obj' = [loc[a] EXCEPT !.vols = cpy[a]] /\ current' = {}
        /\ pc' = [pc EXCEPT ![a] = "conditions"]
        /\ cpy' = [cpy EXCEPT ![a] = NoVols]
        /\ idx' = [idx EXCEPT ![a] = 1]
        /\ UNCHANGED <<cache, queue, loc, hadFin, vs, vsCache, msync>>
     \/ a \notin current /\ PanicOnError(a)
  /\ UNCHANGED <<vsc, lhb, vm, setting, remote, bounds>>

\* updateConditions works on the object read at the start, not on the copy
\* that was just saved.
updateConditions(a) ==
  LET new == NewConditions(loc[a])
  IN /\ \/ pc[a] = "conditions"
        \/ pc[a] = "snapshots" /\ idx[a] = NumVolumes + 1 /\ cpy[a] = loc[a].vols
     /\ \/ new = loc[a] /\ obj' = obj /\ AfterChange(a, current)
        \/ new # loc[a] /\ a \in current /\ obj' = new /\ AfterChange(a, {})
        \/ new # loc[a] /\ a \notin current /\ obj' = obj /\ Fail(a, current)
     /\ UNCHANGED <<cache, cluster, store, bounds>>

\* Reconcile adds its finalizer to the object as the cache has it by then.
AddFinalizer(a) ==
  LET new == [cache EXCEPT !.fin = TRUE]
  IN /\ pc[a] = "finalizer"
     /\ \/ cache.uid = 0 /\ obj' = obj /\ Return(a, current)
        \/ /\ cache.uid # 0 /\ "cache" \in current
           /\ obj' = new /\ Return(a, Holders(new))
        \/ cache.uid # 0 /\ "cache" \notin current /\ obj' = obj /\ Fail(a, current)
     /\ UNCHANGED <<cache, cluster, store, bounds>>

----------------------------------------------------------------------------
(* A ready backup: its metadata on the backup target                       *)

configureCSIDriverVolumeSnapshotClassNames(a) ==
  /\ pc[a] = "csi"
  /\ \/ /\ a \in current
        /\ obj' = [loc[a] EXCEPT !.csi = TRUE] /\ current' = {}
        /\ Goto(a, "csiGet") /\ UNCHANGED <<queue, budget>>
     \/ a \notin current /\ obj' = obj /\ Fail(a, current) /\ UNCHANGED budget
     \/ Disturb("failure") /\ obj' = obj /\ Fail(a, current)
  /\ UNCHANGED <<cache, cluster, store, inc>>

\* Only a backup kept on a backup target has metadata there.
configureBackupTargetOnStatus(a) ==
  LET new == [loc[a] EXCEPT !.target = AnnotatedTarget]
  IN /\ pc[a] = "target"
     /\ \/ Kind = "snapshot" /\ obj' = obj /\ AfterChange(a, current)
        \/ /\ Kind = "backup" /\ a \in current
           /\ obj' = new /\ current' = Holders(new)
           /\ Goto(a, "targetGet") /\ UNCHANGED queue
        \/ Kind = "backup" /\ a \notin current /\ obj' = obj /\ Fail(a, current)
     /\ UNCHANGED <<cache, cluster, store, bounds>>

\* Both end with a Get from the cache, which may not have the update yet.
GetUpdated(a) ==
  /\ pc[a] \in {"csiGet", "targetGet"}
  /\ \/ cache.uid = 0 /\ Fail(a, current)
     \/ /\ cache.uid # 0
        /\ pc' = [pc EXCEPT ![a] =
                     IF pc[a] = "csiGet" /\ (Kind = "snapshot" \/ isBackupTargetOnAnnotation(cache))
                       THEN "target" ELSE "upload"]
        /\ loc' = [loc EXCEPT ![a] = cache]
        /\ current' = ReadBy(a)
        /\ UNCHANGED <<cpy, idx, hadFin, queue>>
  /\ UNCHANGED <<obj, cache, cluster, store, bounds>>

\* What the Get found is a new backup of the name, and its nil Status is read.
NoStatusToUpload(a) ==
  /\ pc[a] = "upload" /\ ~HasStatus(loc[a])
  /\ UNCHANGED <<obj, vs>>
  /\ Restart
  /\ UNCHANGED <<vsc, lhb, vm, setting, remote, bounds>>

uploadVMBackupMetadata(a) ==
  LET o == loc[a]
      broken == o.target = "none" \/ setting = "unset"
      here == setting \in Targets /\ IsBackupTargetSame(o, setting)
  IN /\ pc[a] = "upload" /\ HasStatus(o)
     /\ \/ broken /\ Fail(a, current) /\ UNCHANGED <<remote, budget>>
        \/ ~broken /\ ~here /\ AfterChange(a, current) /\ UNCHANGED <<remote, budget>>
        \/ /\ ~broken /\ here
           /\ remote' = [remote EXCEPT ![setting] = MetadataOf(o)]
           /\ AfterChange(a, current) /\ UNCHANGED budget
        \/ ~broken /\ here /\ Disturb("failure") /\ Fail(a, current) /\ UNCHANGED remote
     /\ UNCHANGED <<obj, cache, cluster, msync, inc>>

----------------------------------------------------------------------------
(* A backup that is being deleted                                          *)

\* Reconcile takes its finalizer off, and the API server drops the object,
\* before the clean-up the finalizer is there for.
DeleteFinalizer(a) ==
  LET new == IF cache.deleting THEN Absent ELSE [cache EXCEPT !.fin = FALSE]
  IN /\ pc[a] = "delete"
     /\ \/ (a \notin hadFin \/ cache.uid = 0) /\ obj' = obj /\ Return(a, current)
        \/ /\ a \in hadFin /\ cache.uid # 0 /\ "cache" \in current
           /\ obj' = new /\ current' = Holders(new)
           /\ Goto(a, "removed") /\ UNCHANGED queue
        \/ /\ a \in hadFin /\ cache.uid # 0 /\ "cache" \notin current
           /\ obj' = obj /\ Fail(a, current)
     /\ UNCHANGED <<cache, cluster, store, bounds>>

\* OnBackupRemove and deleteVMBackupMetadata, on what the cache still holds.
OnBackupRemove(a) ==
  LET o == cache
      nothing == o.uid = 0 \/ o.target = "none"
      broken == ~nothing /\ setting = "unset"
      same == ~nothing /\ IsBackupTargetSame(o, setting)
  IN /\ pc[a] = "removed"
     /\ \/ nothing /\ Return(a, current) /\ UNCHANGED <<remote, budget>>
        \/ broken /\ Fail(a, current) /\ UNCHANGED <<remote, budget>>
        \/ /\ same
           /\ remote' = IF setting \in Targets
                          THEN [remote EXCEPT ![setting] = NoMetadata] ELSE remote
           /\ Return(a, current) /\ UNCHANGED budget
        \/ /\ same /\ setting \in Targets /\ Disturb("failure")
           /\ Fail(a, current) /\ UNCHANGED remote
        \/ /\ ~nothing /\ ~broken /\ ~same
           /\ IF o.src THEN Goto(a, "forceDelete") /\ UNCHANGED <<queue, current>>
                       ELSE Return(a, current)
           /\ UNCHANGED <<remote, budget>>
     /\ UNCHANGED <<obj, cache, cluster, msync, inc>>

\* One turn of forceDeleteVolumeSnapshotAndContent's loop: the finalizers are
\* cleared on the wrong copy, so the snapshot is left deleting.
forceDeleteVolumeSnapshotAndContent(a) ==
  LET v == idx[a]
      found == v \in Volumes /\ vsCache[v].phase # "none" /\ vsCache[v] = vs[v]
  IN /\ pc[a] = "forceDelete"
     /\ \/ v \in Volumes /\ ~found /\ Fail(a, current) /\ UNCHANGED <<vs, vsc>>
        \/ /\ found
           /\ vs' = [vs EXCEPT ![v].phase = "deleting"]
           /\ vsc' = IF vs[v].src = "content" THEN [vsc EXCEPT ![v] = 0] ELSE vsc
           /\ idx' = [idx EXCEPT ![a] = @ + 1]
           /\ UNCHANGED <<pc, loc, cpy, hadFin, queue, current>>
        \/ v = NumVolumes + 1 /\ Return(a, current) /\ UNCHANGED <<vs, vsc>>
     /\ UNCHANGED <<obj, cache, vsCache, lhb, vm, setting, store, bounds>>

----------------------------------------------------------------------------
(* The LonghornBackup controller                                           *)

\* OnLHBackupChanged up to its copy: the content of a snapshot taken from a
\* claim leads to the snapshot, the snapshot's owner to the backup.
OnLHBackupChanged(v) ==
  LET bound == v \in lhb /\ vs[v].phase # "none" /\ vs[v].src = "pvc"
      s == vsCache[v]
      known == resolveVolSnapshotRef(s) /\ cache.target # "none"
  IN /\ pc["lh"] = "idle" /\ <<"lh", v>> \in queue
     /\ \/ /\ ~bound \/ (s.phase # "none" /\ ~known)
           /\ queue' = queue \ {<<"lh", v>>}
           /\ UNCHANGED <<locals, current>>
        \/ /\ bound /\ s.phase = "none"            \* NotFound: tried again
           /\ UNCHANGED <<queue, locals, current>>
        \/ /\ bound /\ s.phase # "none" /\ known
           /\ queue' = queue \ {<<"lh", v>>}
           /\ Enter("lh", "lhUpdate")
           /\ idx' = [idx EXCEPT !["lh"] = v]
     /\ UNCHANGED <<obj, cache, cluster, store, bounds>>

\* ... and its Update.
UpdateLonghornBackupName ==
  LET o == loc["lh"]
      new == IF o.src THEN [o EXCEPT !.vols[idx["lh"]].lh = TRUE] ELSE o
  IN /\ pc["lh"] = "lhUpdate"
     /\ \/ new = o /\ obj' = obj /\ Return("lh", current)
        \/ new # o /\ "lh" \in current /\ obj' = new /\ Return("lh", {})
        \/ new # o /\ "lh" \notin current /\ obj' = obj /\ Fail("lh", current)
     /\ UNCHANGED <<cache, cluster, store, bounds>>

----------------------------------------------------------------------------
(* The Metadata controller                                                 *)

\* OnBackupTargetChange and syncVMBackup up to the file of this backup.
syncVMBackup ==
  LET found == setting \in Targets /\ remote[setting].file
  IN /\ msync = Idle /\ <<"meta", 0>> \in queue
     /\ \/ /\ found
           /\ msync' = [target |-> setting, meta |-> remote[setting]]
           /\ queue' = queue \ {<<"meta", 0>>} /\ UNCHANGED budget
        \/ /\ ~found
           /\ queue' = queue \ {<<"meta", 0>>} /\ UNCHANGED <<msync, budget>>
        \/ /\ setting \in Targets /\ Disturb("failure")   \* requeued after 5s
           /\ UNCHANGED <<msync, queue>>
     /\ UNCHANGED <<api, locals, cluster, remote, inc>>

createVMBackupIfNotExist ==
  /\ msync # Idle
  /\ \/ /\ cache.uid # 0
        /\ UNCHANGED <<obj, current, queue, inc>>
     \/ /\ cache.uid = 0                              \* AlreadyExists; or, at the
        /\ obj.uid # 0 \/ inc = MaxIncarnations       \* bound, the Create call fails
        /\ queue' = queue \cup {<<"meta", 0>>}
        /\ UNCHANGED <<obj, current, inc>>
     \/ /\ cache.uid = 0 /\ obj.uid = 0 /\ inc < MaxIncarnations
        /\ inc' = inc + 1
        /\ obj' = FromMetadata(inc + 1, msync.target, msync.meta)
        /\ current' = {} /\ UNCHANGED queue
  /\ msync' = Idle
  /\ UNCHANGED <<cache, locals, cluster, remote, budget>>

----------------------------------------------------------------------------
(* Informers and the manager process                                       *)

\* The watch on VirtualMachineBackups catches up and queues the backup.
BackupWatch ==
  /\ "cache" \notin current
  /\ cache' = obj /\ current' = current \cup {"cache"}
  /\ queue' = IF obj.uid = 0 THEN queue ELSE Queued({<<"backup", 0>>})
  /\ UNCHANGED <<obj, locals, cluster, store, bounds>>

\* The watch on VolumeSnapshots catches up and queues the snapshot.
SnapshotWatch(v) ==
  /\ vsCache[v] # vs[v]
  /\ vsCache' = [vsCache EXCEPT ![v] = vs[v]]
  /\ queue' = IF vs[v].phase \in {"none", "deleting"} THEN queue
                                                     ELSE Queued({<<"snapshot", v>>})
  /\ UNCHANGED <<api, locals, vs, vsc, lhb, vm, setting, store, bounds>>

\* Nothing is queued, running or unseen by the informers.
Quiet == /\ \A a \in Actors : pc[a] = "idle"
         /\ msync = Idle /\ queue = {} /\ "cache" \in current /\ vsCache = vs

\* The informers' periodic resync queues everything the caches hold.  Its
\* period, ten hours, outlasts whatever was going on.
Resync ==
  /\ Quiet
  /\ queue' = Listed(cache, vsCache, lhb)
  /\ UNCHANGED <<api, locals, cluster, store, bounds>>

Crash ==
  /\ Disturb("crash")
  /\ UNCHANGED <<obj, vs>>
  /\ Restart
  /\ UNCHANGED <<vsc, lhb, vm, setting, remote, inc>>

----------------------------------------------------------------------------
(* Users, and the controllers of other products                            *)

CreateBackup ==
  /\ obj.uid = 0 /\ inc < MaxIncarnations
  /\ IF inc = 0 THEN UNCHANGED budget ELSE Disturb("recreate")
  /\ inc' = inc + 1
  /\ obj' = Blank(inc + 1, FALSE) /\ current' = {}
  /\ UNCHANGED <<cache, queue, locals, cluster, store>>

DeleteBackup ==
  /\ obj.uid # 0 /\ ~obj.deleting
  /\ Disturb("delete")
  /\ obj' = IF obj.fin THEN [obj EXCEPT !.deleting = TRUE] ELSE Absent
  /\ current' = {}
  /\ UNCHANGED <<cache, queue, locals, cluster, store, inc>>

LoseSource ==
  /\ Disturb("loseSource")
  /\ \/ vm = "both" /\ vm' \in {"disks", "none"}
     \/ vm = "disks" /\ vm' = "none"
  /\ UNCHANGED <<api, queue, locals, vs, vsCache, vsc, lhb, setting, store, inc>>

SetBackupTarget(t) ==
  /\ t # setting /\ Disturb("retarget")
  /\ setting' = t
  /\ queue' = Queued({<<"meta", 0>>})
  /\ UNCHANGED <<api, locals, vs, vsCache, vsc, lhb, vm, store, inc>>

\* The CSI snapshotter finishes a snapshot, reports an error it may recover
\* from, and drops a deleted snapshot with its content and Longhorn Backup.
SnapshotDone(v) ==
  /\ vs[v].phase \in {"pending", "failed"} /\ vs[v].src # "empty"
  /\ vs' = [vs EXCEPT ![v].phase = "ready"]
  /\ UNCHANGED <<api, queue, locals, vsCache, vsc, lhb, vm, setting, store, bounds>>
SnapshotError(v) ==
  /\ vs[v].phase = "pending" /\ Disturb("snapshotError")
  /\ vs' = [vs EXCEPT ![v].phase = "failed"]
  /\ UNCHANGED <<api, queue, locals, vsCache, vsc, lhb, vm, setting, store, inc>>
SnapshotGone(v) ==
  /\ vs[v].phase = "deleting"
  /\ vs' = [vs EXCEPT ![v] = NoSnapshot]
  /\ vsc' = IF vs[v].src = "content" THEN [vsc EXCEPT ![v] = 0] ELSE vsc
  /\ lhb' = lhb \ {v}
  /\ UNCHANGED <<api, queue, locals, vsCache, vm, setting, store, bounds>>

\* Snapshots go when a user deletes them, or when the garbage collector finds
\* that the backup that owns them is gone; so do contents.
DeleteSnapshot(v) ==
  /\ vs[v].phase \notin {"none", "deleting"}
  /\ IF vs[v].uid # obj.uid THEN UNCHANGED budget ELSE Disturb("deleteSnapshot")
  /\ vs' = [vs EXCEPT ![v].phase = "deleting"]
  /\ UNCHANGED <<api, queue, locals, vsCache, vsc, lhb, vm, setting, store, inc>>
CollectContent(v) ==
  /\ vsc[v] \notin {0, obj.uid}
  /\ vsc' = [vsc EXCEPT ![v] = 0]
  /\ UNCHANGED <<api, queue, locals, vs, vsCache, lhb, vm, setting, store, bounds>>

\* Longhorn makes a Backup for a snapshot of a claim and reports on it while
\* the snapshot is pending.
LonghornBackupEvent(v) ==
  /\ Kind = "backup" /\ vs[v].src = "pvc"
  /\ vs[v].phase = "pending" \/ (vs[v].phase = "ready" /\ v \notin lhb)
  /\ lhb' = lhb \cup {v}
  /\ queue' = Queued({<<"lh", v>>})
  /\ UNCHANGED <<api, locals, vs, vsCache, vsc, vm, setting, store, bounds>>

----------------------------------------------------------------------------
LegacyBackup == [Blank(1, TRUE) EXCEPT !.src = TRUE, !.ready = TRUE, !.cond = "ready",
                   !.vols = [v \in Volumes |-> [NoVols[v] EXCEPT !.ready = TRUE]]]

\* "empty": a new cluster; "legacy": a ready backup kept by v0.3.0 with its
\* snapshots; "remote": a target that holds the metadata of another cluster.
Init ==
  /\ obj = IF Start = "legacy" THEN LegacyBackup ELSE Absent
  /\ cache = obj /\ current = {"cache"}
  /\ pc = [a \in Actors |-> "idle"]
  /\ loc = [a \in Actors |-> Absent]
  /\ cpy = [a \in Actors |-> NoVols]
  /\ idx = [a \in Actors |-> 1]
  /\ hadFin = {}
  /\ vs = [v \in Volumes |->
             IF Start = "legacy" THEN [phase |-> "ready", uid |-> 1, src |-> "pvc"]
                                 ELSE NoSnapshot]
  /\ vsCache = vs
  /\ vsc = [v \in Volumes |-> 0]
  /\ lhb = {}
  /\ queue = Listed(obj, vs, lhb)
  /\ vm \in StartSources
  /\ setting \in StartSettings
  /\ remote = [t \in Targets |->
                 IF Start = "remote" THEN [file |-> TRUE, lh |-> [v \in Volumes |-> TRUE]]
                                     ELSE NoMetadata]
  /\ msync = Idle
  /\ inc = IF Start = "legacy" THEN 1 ELSE 0
  /\ budget = MaxDisturbances

WorkerStep(a) ==
  \/ MountFails(a)
  \/ NoSnapshotClass(a)
  \/ setStatusError(a)
  \/ initBackup(a)
  \/ MissingSecret(a)
  \/ CopySnapshotStatus(a)
  \/ SnapshotBeingDeleted(a)
  \/ createVolumeSnapshot(a)
  \/ GetCreatedSnapshot(a)
  \/ UpdateVolumeBackups(a)
  \/ updateConditions(a)
  \/ AddFinalizer(a)
  \/ configureCSIDriverVolumeSnapshotClassNames(a)
  \/ configureBackupTargetOnStatus(a)
  \/ GetUpdated(a)
  \/ NoStatusToUpload(a)
  \/ uploadVMBackupMetadata(a)
  \/ DeleteFinalizer(a)
  \/ OnBackupRemove(a)
  \/ forceDeleteVolumeSnapshotAndContent(a)

BackupStep == Reconcile \/ WorkerStep("backup")
SnapshotStep == (\E v \in Volumes : updateVolumeSnapshotChanged(v)) \/ WorkerStep("snapshot")
LonghornStep == (\E v \in Volumes : OnLHBackupChanged(v)) \/ UpdateLonghornBackupName
MetadataStep == syncVMBackup \/ createVMBackupIfNotExist

Next ==
  \/ Reconcile
  \/ \E a \in Workers : WorkerStep(a)
  \/ \E v \in Volumes : updateVolumeSnapshotChanged(v)
  \/ \E v \in Volumes : OnLHBackupChanged(v)
  \/ UpdateLonghornBackupName
  \/ syncVMBackup
  \/ createVMBackupIfNotExist
  \/ BackupWatch
  \/ \E v \in Volumes : SnapshotWatch(v)
  \/ Resync
  \/ Crash
  \/ CreateBackup
  \/ DeleteBackup
  \/ LoseSource
  \/ \E t \in Settings : SetBackupTarget(t)
  \/ \E v \in Volumes : SnapshotDone(v)
  \/ \E v \in Volumes : SnapshotError(v)
  \/ \E v \in Volumes : SnapshotGone(v)
  \/ \E v \in Volumes : DeleteSnapshot(v)
  \/ \E v \in Volumes : CollectContent(v)
  \/ \E v \in Volumes : LonghornBackupEvent(v)

Spec == Init /\ [][Next]_vars

\* Every worker goes on as long as it has something to do, watches deliver, the
\* resync comes round, and the CSI snapshotter, Longhorn and the garbage
\* collector finish what they were asked.  Users owe nothing.
Fairness ==
  /\ WF_vars(BackupStep) /\ WF_vars(SnapshotStep)
  /\ WF_vars(LonghornStep) /\ WF_vars(MetadataStep)
  /\ WF_vars(BackupWatch) /\ WF_vars(Resync)
  /\ \A v \in Volumes : /\ WF_vars(SnapshotWatch(v)) /\ WF_vars(SnapshotDone(v))
                         /\ WF_vars(SnapshotGone(v)) /\ WF_vars(LonghornBackupEvent(v))
FairSpec == Spec /\ Fairness

----------------------------------------------------------------------------
ApiOK == /\ obj \in VMBackup /\ cache \in VMBackup
         /\ current \subseteq Actors \cup {"cache"}
LocalsOK == /\ pc \in [Actors -> PCs]
            /\ loc \in [Actors -> VMBackup]
            /\ cpy \in [Actors -> [Volumes -> VolumeBackup]]
            /\ idx \in [Actors -> 1..(NumVolumes + 1)]
            /\ hadFin \subseteq Actors
ClusterOK == /\ vs \in [Volumes -> Snapshot] /\ vsCache \in [Volumes -> Snapshot]
             /\ vsc \in [Volumes -> Uids]
             /\ lhb \subseteq Volumes
             /\ vm \in {"both", "disks", "none"}
             /\ setting \in Settings
StoreOK == /\ remote \in [Targets -> Metadata]
           /\ msync \in [target : Targets \cup {"none"}, meta : Metadata]
BoundsOK == inc \in 0..MaxIncarnations /\ budget \in 0..MaxDisturbances
\* Every variable holds a value of its kind; a loop's index stays within the
\* volumes and the one past them.
TypeOK == ApiOK /\ queue \subseteq Items /\ LocalsOK /\ ClusterOK /\ StoreOK /\ BoundsOK

----------------------------------------------------------------------------
\* A backup that claims to be ready to use is: its volumes have been initialised,
\* every volume backup of it is ready and none is in error, and its Error and
\* conditions say the same (updateConditions, against the three writers that
\* save copies of the object computed from older reads).
ReadyIsComplete ==
  obj.ready => /\ obj.src /\ obj.error = 0 /\ obj.cond = "ready"
               /\ \A v \in Volumes : obj.vols[v].ready /\ ~obj.vols[v].err

\* A ready backup stays ready, keeps its source and volumes and the target it is
\* recorded at, until its object is gone: setStatusError, which replaces the
\* whole status, and initBackup, which computes a new one, never reach it.
ReadyStays == /\ obj'.ready /\ obj'.src
              /\ obj.target # "none" => obj'.target = obj.target
ReadyNeverLost == [][obj.ready /\ obj'.uid = obj.uid => ReadyStays]_vars

\* While a backup keeps its status, no writer overwrites a LonghornBackupName
\* that OnLHBackupChanged has recorded.
LonghornNamesStay == \A v \in Volumes : obj.vols[v].lh => obj'.vols[v].lh
NoLostLonghornName ==
  [][obj.src /\ obj'.src /\ obj'.uid = obj.uid => LonghornNamesStay]_vars

\* However old the copy of a ready backup that the cache or a handler holds, what
\* it acts on is still so: the stored object, if it is the same one, is ready and
\* recorded at the same target.  So metadata computed from a stale copy still
\* goes to the target the backup is recorded at.
StillTrue(o) == o.ready /\ o.uid = obj.uid =>
                  obj.ready /\ (o.target # "none" => obj.target = o.target)
StaleCopiesAgree == StillTrue(cache) /\ \A a \in Actors : StillTrue(loc[a])

\* The backup lives as module BackupLife promises: none of the four controllers,
\* from copies of any age, takes a finished backup back or moves it, finishes one
\* that is being deleted, brings one back that is gone, or publishes the metadata
\* of the only backup of its name before it is ready, elsewhere than it is kept, or
\* removes it before the backup is deleted.
Life == INSTANCE BackupLife WITH
  Homes <- Targets \cup {"default"}, Nowhere <- "none", Kept <- Kind = "backup",
  uid <- obj.uid, last <- inc, ready <- obj.ready, home <- obj.target,
  deleting <- obj.deleting, files <- {t \in Targets : remote[t].file}
LivesAsPromised == Life!Spec

\* No wake-up of the backup's worker is lost: when nothing is going on, a backup has
\* its finalizer and its status and is not being deleted; if ready, its migration is
\* done; if not, its Ready and Error say what its volumes say.  Its handlers are
\* refused, panic or end on what they read long ago (updateConditions), and the
\* VolumeSnapshot controller, which runs the same Reconcile, drops its errors.
Orderly(o) ==
  /\ o.src /\ ~o.deleting
  /\ IF o.ready THEN o.csi /\ (Kind = "backup" => o.target # "none")
                ELSE ~VolumesReady(o) /\ FirstError(o) \in {0, o.error}
NothingLeftUndone ==
  Quiet /\ "backup" \in Controllers /\ obj.uid # 0 => obj.fin /\ Orderly(obj)

\* Under fairness, a backup of a VM that stays, which nobody deletes, becomes ready
\* and can in the end be restored elsewhere: its target holds a metadata file that
\* names the Longhorn Backup of every volume.  Neither the dropped errors of the
\* VolumeSnapshot controller, nor the conflicts, nor the panics keep it from getting
\* there.  Without the periodic resync this is false: a stale upload may be the last
\* one, and setStatusError may drop a name that is not reported again.
Restorable == /\ obj.ready /\ \A v \in Volumes : obj.vols[v].lh
              /\ obj.target \in Targets /\ remote[obj.target] = MetadataOf(obj)
EventuallyRestorable == <>[](obj.uid # 0 => Restorable)

\* Under fairness, a backup written by v0.3.0 ends up with its target and its
\* snapshot classes in the status and its metadata on that target, as long as it
\* is not deleted (configureCSIDriverVolumeSnapshotClassNames,
\* configureBackupTargetOnStatus, each followed by a Get that may be stale).
Migrated == obj.csi /\ obj.target = AnnotatedTarget /\ remote[AnnotatedTarget].file
MigrationCompletes == <>[](obj.uid = 1 /\ setting = AnnotatedTarget => Migrated)

\* Under fairness, a backup that is being deleted goes away.
DeletionCompletes == obj.deleting ~> ~obj.deleting
=============================================================================
