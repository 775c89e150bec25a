# TLA+ models of hci-controller-manager

hci-controller-manager is a Kubernetes controller manager for a hyper-converged
product: it keeps backups, restores, images, disks and settings of virtual machines
by driving KubeVirt, the CSI snapshotter and Longhorn. This directory holds TLA+
models of its controllers, TLC configurations that check them on small instances, and
TLAPS proofs of the safety properties for instances of any size.

`PROJECT.json` lists components, runs, mutants, findings, hazards and theorems, and
maps every definition that models code to the lines it models.

## 1. The system

All controllers run in one manager process (`src/main.go`). Each has its own work queue
and one worker; all share one client that **reads from informer caches** and **writes
to the API server**. Three facts about that client shape every model:

* a `Get` may return an old version of an object, also right after the caller's own
  `Create` or `Update`;
* an `Update` is accepted only if it carries the stored `resourceVersion`;
* a handler that returns an error is called again; one that returns nil is not, until
  the next event of its object or the informers' periodic resync.

A panic in a handler ends the process; on restart every object is listed and queued.

| component (source under `src/`) | state | operations | interacts with |
|---|---|---|---|
| VirtualMachineBackup controller (`controllers/hci/virtualmachinebackup_controller.go`, `backup_status.go`, `util.go`) | the VirtualMachineBackup: status, volume backups, conditions, finalizer | initialise from the VM; create snapshots; copy their status; conditions; migrate old backups; upload and remove metadata | VolumeSnapshots, contents, Longhorn, backup target |
| VolumeSnapshot controller (`snapshot_controller.go`) | none | finds the backup that owns a snapshot and runs its `Reconcile` **in its own goroutine**, dropping the error | the backup controller |
| LonghornBackup controller (`longhorn_controller.go`) | none | records the name of a Longhorn Backup in the volume backup | the VirtualMachineBackup |
| Metadata controller (`backup_metadata.go`) | none | on a change of the target, recreates backups from its metadata files | the VirtualMachineBackup |
| Backup-target setting controller (`backup_target.go`) | the Setting `backup-target`: value and condition | carries the target to Longhorn, stores the S3 keys in a Secret, strips them from the Setting | Longhorn settings and Secret |
| VMImage and BackingImage controllers (`virtualmachineimage_controller.go`, `backingimage_controller.go`) | image status, AppliedURL, finalizer | create BackingImage and StorageClass, HEAD the URL, copy progress | Longhorn |
| VMRestore controller (`virtualmachinerestore_controller.go`) | restore status, volume restores, deleted volumes | create claims from snapshots, create or update the VM, start it, delete old claims | a ready backup, KubeVirt, PVC and VM controllers |
| VM and PVC controllers (`vm_controller.go`, `pvc_controller.go`, `pkg/indexer`, `pkg/ref`) | owner annotations of claims, a private index | set and unset the owner of claims; call the restore controller | each other, VMRestore |
| KeyPair controller (`keypair_controller.go`) | fingerprint of a key | compute it | none |
| settings, conditions, finalizers (`pkg/settings`, `pkg/condition`, `pkg/util`) | none | decode a target, set a condition, add and remove a finalizer | all |

What is hard here: two workers run the same handler on the same object; every write is
computed from an old copy; errors are dropped or stored instead of returned; a handler
makes several writes with a crash, a conflict or a user's change possible between any
two; objects are deleted and recreated under the same name. The `hazards` of
`PROJECT.json` list these line by line.

What makes each component correct:

* backup: a backup that says it is ready is complete, stays so, and can in the end be
  restored from its target; a deleted one goes away with its metadata;
* setting: the keys are never lost and each submitted target is carried out;
* image: what is made for an image goes with it, the outcome of its import is reported
  and final, and what is imported is the URL asked for;
* restore: no old claim is deleted before every disk is restored and the VM refers to
  the restored ones; the restore completes; it undoes nothing a user does afterwards;
* ownership: a claim never changes hands without being released; one in use comes to be
  owned by its VM, one no longer in use comes to be released, and by its own VM.

## 2. The modules

### VMBackup and BackupLife

One VirtualMachineBackup name with `NumVolumes` disks, the four controllers around it
and what they rely on. `obj` is the stored object, `cache` the informer's copy. As
resource versions are only ever compared for equality, the model does not number them:
`current` is the set of holders (`"cache"` and actors) whose copy carries the stored
version, and every write empties it. `uid` tells apart the objects created one after
another under the name.

The actors `"backup"` and `"snapshot"` both run the backup's `Reconcile`: `Enter` and
`Route` stand for the first `Get` and the early returns of `OnBackupChange`; `pc[a]`
names the next API call of the handler, and each action is the code from one API call
up to the next. `loc[a]` is the object read, `cpy[a]` the deep copy on which
`reconcileVolumeSnapshots` works, `idx[a]` its loop index, `hadFin` what the first `Get`
said about the finalizer. `"lh"` is the LonghornBackup worker and `msync` the Metadata
worker. `Fail` and `Return` are the two ways a handler ends; `Fail` queues the item
again except for the snapshot worker, whose errors are dropped.

Around them: `BackupWatch` and `SnapshotWatch` (informers catch up), `Resync`, `Crash`,
users (`CreateBackup`, `DeleteBackup`, `LoseSource`, `SetBackupTarget`,
`DeleteSnapshot`), and the CSI snapshotter, Longhorn and the garbage collector. These
are external: they do what `src/` relies on and no more.

`return *result, h.setStatusError(vmBackup, err)` deserves a word: on an error `result`
is nil, and on a result `err` is nil, so the statement panics on every path. Go leaves
the order of the dereference and the call open, so `PanicOnError` restarts the manager
with or without the status replaced; `SnapshotBeingDeleted` (the nil error) restarts it.

Abstractions: a nil and an empty status are told apart only where the code dereferences it
(`HasStatus`: `NoStatusToUpload` is the panic of an upload that reads back a recreated
backup); a pending snapshot may or may not have a status, and is never reported as both
ready and failed; the two `Get`s of `updateVolumeSnapshotChanged` and of the `Reconcile` it
calls are one read of the cache, the second one's; `SourceSpec` and `VolumeBackups` are
the flag `src`, as they are written together; times, messages, events and secrets are
left out, except that `setStatusError` is always a write since its time is new. The
Setting, the VM, its claims and Longhorn's objects are read as they are; only the
backup and the snapshots are read through a lagging cache. Which calls may fail is
given by `Disturbances`: a failing call is drawn from a bounded budget.

`BackupLife` is what a backup promises and says nothing of handlers, caches or
controllers: it is created, given a place, completed, deleted and gone; it is not completed
once it is being deleted, and ready and placed are for good; its metadata file appears for
a ready backup at the place it is kept and goes with one that is being deleted. `VMBackup`
implements it under the mapping `Life`. The promises about the file are made only to the
sole backup of a name, and TLC shows that this is all the code keeps: with `Sole` replaced
by `uid # 0` it is refuted by a handler of a deleted backup that uploads or removes the file
after another backup of the name was created (run `recreated`), and by an `OnBackupRemove`
that finds in the cache a newer backup, made by the Metadata controller, and removes its file
(run `faults`).

### BackupTarget

The Setting, its cached copy and the worker of `BackupSettingReconciler`, one action per
API call of `OnChange`. `objs` holds, for each of Longhorn's target setting, the Secret
and the credential setting, what is stored, what the cache shows and whether the two
are the same version; `WriteError` gives the outcome of a `Create` or `Update` from that
(AlreadyExists, NotFound, Conflict). `given` is a history variable, the value a user
last submitted. A target keeps its type, endpoint, bucket (name with region) and keys
(both together); the certificate and proxies in the Secret are left out. An object that is
created and deleted before the cache has seen it counts as known to be absent; the informer
would show it for a moment.

### VMImage

One image name with the VirtualMachineImage and BackingImage workers, one action per API
call. `img`, `cache` and `current` are as in `VMBackup`; `bi`, `biCache` and `biFresh` are
the BackingImage, the informer's copy and whether it is the stored version; `sc` says
whether the StorageClass exists. A BackingImage that is deleted stays, marked, until
Longhorn's `BackingGone`, while a StorageClass goes at once. The HEAD request has either
outcome. `AlreadyExists` and `NotFound` are no errors, as in the code. Progress is none,
some or all; all before the file is ready is shown as 99 percent and counts as some. A
BackingImage is "unseen" before it has a file and "copied" while it has several
(`BackingCopied`, `BackingCleaned`); the controller passes over both. A missing claim of an exported volume is a failed call.

### VMRestore and Replacement

One VirtualMachineRestore, its target VM and the claims of both. The handlers `"worker"`
(the controller's own) and `Calls` (the goroutines that the VM and the PVC controller start,
one for each event of theirs, whose errors are dropped) run the same `Reconcile`; `job[h]` holds
the place, the restore and the VM the handler has read, its loop index, whether the
claims seen so far are ready, and the error to be recorded. Each action is the code up to
the next API call. `res`/`resCache`/`resCur` and `vm`/`vmCache`/`vmCur` are the stored
object, the informer's copy and the holders of the stored version, as in `VMBackup`.
`claim`, `snapshot` and `content` are what the restore makes per volume, `source` the
backup volume a claim was made from, `old` the claims the backup was made of, `vmi` the
running instance and the disks it is on. `plan` is fixed: what was asked for, and the order
in which the backup's volumes were recorded (they come from iterating over a map).

`Replacement` is what a restore promises and says nothing of handlers, caches or calls:
volumes are copied, the VM is switched to the copies, and only then are originals removed
and the restore declared done. `VMRestore` implements it under the mapping `Promise`;
`copies` counts only claims with the data of their own disk.

Abstractions: the target VM is not deleted; contents of secrets, labels, MAC addresses and
sizes are left out; conditions keep the kind of error. A restored claim is spared by the
garbage collector while a VM runs on it. `reconcileSecrets` is one step, in which a conflict
with another handler is one of the failed calls. A ready backup across namespaces has its
Longhorn names recorded (line 618 dereferences them). TLC's instances have one goroutine in
`Calls`; the proofs have any number.

### VMOwnership

VMs and claims of one namespace, the VM controller's worker (`job`) and the claim
controller's (`PVCReconcile`, one step, as it calls nothing). The private index is modelled
as it is implemented: `entries` are the lists per VM, `stored` what the index's own object
of each claim says. `SetOwnerOfPVCs` deletes the owner from that very object (`Erase`), and
`Add` works out from the object, as it is by then, which list to take the claim off. `held`
among the holders of a version is an object the worker still points to after another has
taken its place. `SetOwner` on a claim without annotations writes into a nil map, which
ends the process (`Restart`). The removed-PVCs annotation, which may list no claim (`marked`), leads to `UnsetOwner` for
every claim of the VM; the `Delete` of a listed one is a call of its own (`DeletePVC`). A
`volumeClaimTemplates` annotation that does not parse is left out.

### How they relate

The image controllers share no object with the others. `VMBackup` sees the setting only as
the target it names: its endpoint and bucket, which are what `IsBackupTargetSame` compares
and what stripping leaves alone. `VMRestore` starts from a backup that is ready or becomes
so and stays so, which is `ReadyIsComplete` and `ReadyNeverLost` of `VMBackup`. The VM and
PVC controllers appear twice: the first part of their handlers is `VMOwnership`, the tail
(the call of the restore's `Reconcile`) is in `VMRestore`; the two parts share only the
annotations of a claim, of which each writes its own.

## 3. Runs

Bounds are the CONSTANTS that a `.cfg` sets. `Controllers` restricts which workers take
part, to keep an instance small where the others add nothing to the question asked.

| run | question | bounds and why they are enough |
|---|---|---|
| creation | does a new backup become ready and in the end restorable (`EventuallyRestorable`), with no Longhorn name overwritten on the way (`NoLostLonghornName`) and nothing left undone at rest (`NothingLeftUndone`)? | the controllers that write such a backup (the Metadata controller finds it there already), one disk, one failed mount, missing secret or failing snapshot; stale reads, conflicts, panics and dropped errors occur without any disturbance |
| recreated | do readiness and target survive deletion and recreation under one name, does the backup live as promised (`LivesAsPromised`), is nothing left undone for it at rest (`NothingLeftUndone`), does the migration from v0.3.0 finish (`MigrationCompletes`) and does a deleted backup go (`DeletionCompletes`)? | the controllers that run the backup's Reconcile, two incarnations, two targets, two disturbances of any kind: delete and recreate, switch the target and back, lose a snapshot and crash |
| faults | the same, except for the migration and the going away, for a backup made from the target's metadata file, on a cluster without the VM | all four controllers, two incarnations, two crashes, failed calls or deletions: a fault while the second incarnation is made. With the VM there as well the state space is out of reach; that case, and the loop over several disks, are proved |
| settles | are keys kept (`NoLostKeys`), does the Setting at rest tell how its target fared (`NoSilentFailure`) and does every target come to its end (`TargetSettles`)? | seven values (S3 with two key pairs and without keys, NFS, default, not JSON, unknown type), three changes, two faults: an A-B-A change with a fault in each half |
| life | does an image that is gone leave nothing behind (`NothingLeftBehind`) and one at rest nothing undone (`NothingLeftUndone`), is the outcome of its import reported (`OutcomeReported`, unless the BackingImage is deleted or copied to a second disk first) and final (`OutcomeIsFinal`), is it initialised with the URL it has (`ImageSettles`)? | two URLs, two incarnations; deletions at any time and one URL change, recreation, crash, failed call or failed import: each alone meets every place of both handlers |
| replaced | does a restore over the VM itself replace volumes as promised (`SafeReplacement`) and keep a user's edits (`EditsKept`)? | the worker and one goroutine, one disk, old claims there or gone, a `Manual` VM (whose start can be refused), one start, edit, deletion of the restore or failed call |
| completes | does a restore that keeps the old claims complete (`RestoreCompletes`)? | the worker and one goroutine, a new VM in another namespace, the path with most objects; a backup that is not ready yet, a crash or a lost claim. Withdrawing such a restore is out of TLC's reach (what `replaced` does in place) and left to the proofs |
| owners | is the index complete (`OwnedIsListed`), does no claim change hands without release (`NoTakeover`), are claims in use owned (`UsedIsOwned`) and others released (`UnusedIsReleased`)? | two VMs, one claim (claims do not interact), three changes: attach, detach, attach elsewhere; each with faults in place of one |
| cleanup, taken, stripped, url | what a comment says and the code does not do | the least instance that shows it |

Every passing property has a mutant in `PROJECT.json`, a plausible slip in the code
that makes TLC refute it.

**Fairness.** `FairSpec` is weak fairness of each worker (controller-runtime calls a
queued item), of each watch, of the resync, and of the CSI snapshotter, Longhorn, its
import and deletion of BackingImages, and the snapshot deletion. Users, crashes and failures have none. `main.go` sets no
`SyncPeriod`, so controller-runtime's default of about ten hours applies; `Resync` is
enabled only when everything has come to rest. Liveness rests on it:
`EventuallyRestorable`, `TargetSettles` and `OutcomeReported` do not hold without it, as the
module comments say. In `VMRestore` no resync is assumed: `RestoreCompletes` holds on
events alone, and would need the resync only if an API call of a goroutine failed. In
`VMOwnership` the worker's queue hands out every key (strong fairness of `Reconcile(v)`,
which is enabled only while the worker is idle), and the resync is what takes up a release
or an owner whose write was refused; the volume controller annotates every claim.

## 4. Disagreements between code and comments

* **stripped**: keys "are stripped after S3 backup target has been verified"
  (`backup_target.go:78`). A stale read makes the controller skip the update and strip
  the keys all the same, after which it never tries again.
* **url**: "URL is changed, recreate the storageclass and backingimage"
  (`virtualmachineimage_controller.go:94`). A change while the first `initialize` runs
  meets the BackingImage of the old URL, whose AlreadyExists is ignored.
* **cleanup**: "clean up existing pvc" (`virtualmachinerestore_controller.go:720`). `vol` is
  never nil, so a claim that is gone is deleted without a name; a conflict of the last
  `Update` is enough to bring that about.
* **taken**: "get all the volumes attached to this virtual machine"
  (`vm_controller.go:116`). The map that line 131 deletes from is the index's own, the list
  of the old VM keeps the claim, and its next event releases what another VM owns.

Further disagreements, met while modelling, whose behaviour is in the models but for which
no run is kept:

* `virtualmachinebackup_controller.go:165`, "A VMBackup without status is a new VMBackup":
  `setStatusError` empties the status of a backup under way, which is then taken again
  from the VM as it is by then.
* `:200`, "OnBackupRemove remove remote vm backup metadata": the finalizer goes first; a
  cache that is up to date then hides the object from the clean-up, and the file stays.
* `:322`, "we create volume snapshot from volume snapshot content": the empty object is
  returned in place of the content just created.
* `:321`, "we create volume snapshot from pvc": a recreated backup takes over the old one's
  snapshots, which are about to be collected.
* `vm_controller.go:165`, "erases the target VirtualMachine from the owner":
  `UnsetOwnerOfPVCs` erases whichever owner a claim has, and deletes listed claims of other
  VMs too.
* `virtualmachinerestore_controller.go:151`, "OnResotreRemove remove remote vm restore": a
  restore has no finalizer, so this runs only for a foreground deletion that something
  holds up, and the contents of a restore across namespaces stay.

## 5. Proofs

The proof modules hold for every number of disks and of goroutines, every set of targets, hosts, buckets,
keys, URLs and submitted values, and every bound, from the named assumptions of the modules
(there is a disk; bounds are naturals; special values are no targets or keys; a default
target is all empty; `Kind` and `Start` are among those listed). TLC evaluates these
assumptions in every run.

`VMBackup_proofs`: `TypeCorrect`, `ReadyComplete`, `CopiesAgree`, `ReadyKept`,
`LonghornNamesKept`. None of the properties is inductive: they speak of the stored
object, and each write comes from a copy. `IndInv` adds

* `SaneInv`: the stored object, the cached one and every handler's copy have statuses
  whose parts agree, and no volume is both ready and in error;
* `CurrentInv`: a holder in `current` has exactly the stored object;
* `HandlerInv(a)`: what a handler knows at each place: it computes a status only for a
  backup that was not ready when read, so an accepted write cannot undo readiness, and
  its working copy has the same Longhorn names;
* `UidInv`: no copy is of an object yet to be created, so a copy never matches a
  recreated object by accident;
* `LegacyInv`: an annotated backup is recorded nowhere or where its annotations say.

The argument has two halves. `PreservedIsEnough`: if a step changes the stored object
only in ways that keep what stale copies rely on (`ObjStep`), and copies are only taken
from the cache (`CopyStep`), then `IndInv` is kept. Then there is one lemma per action
showing it is such a step. `ReadyNeverLost` and `NoLostLonghornName` follow from `ObjStep`.

`VMBackupLife_proofs`: `LifeInvariance`, `LivesUpToPromise` (the refinement of
`BackupLife`). A write of the object is accepted only from the stored version, so for those
it is enough to know why the handler is where it is (`WorkInv`: it began for a backup that
was not being deleted). A write of the file is not guarded by any version, so for those the
reason must still be true: `FinishInv` and `RemoveInv` say that, as long as no other backup
of the name has been created, what the handler read on its way in (ready, being deleted) is
so of the cached and of the stored object. That these stay true is what `BackupLife` says
of a step; so each step is shown to be one of `BackupLife` from the invariant
(`NextLives`), and then to keep the invariant (`NextLifeInv`). How handlers move is a third
group of lemmas (`Reasons`): each returns, goes on for its reason, reads again, or begins
where `Route` sends it. `LifeInv` was checked with TLC on the instances of `creation`,
`recreated` and `faults` first.

`VMBackupRest_proofs`: `RestInvariance`, `NothingUndone`. `NothingLeftUndone` speaks of the
state at rest and is not inductive: it has to be known why a handler that returned nil had
nothing left to do, although it decided on copies. `RestInv` says that, as long as the
worker is not `Due` (queued, or with an event under way to it because the cache lags), the
cache shows the stored backup and has shown it since the handler under way began; so what
the handler read is still so of the stored backup (`Suits`, place by place), and places that
follow a write are not reached without the worker being due. A handler that returns nil
without a write then leaves nothing to be done; `Fail` queues the item. The VolumeSnapshot
worker, which drops errors, cannot spoil this: what it writes makes the cache lag, and what
it fails to do was not owed by it. `IdleInv` and `FinInv` tell the handler's record of the
finalizer and that only a backup with the finalizer is marked. `RestInv` too was checked
with TLC on the three instances first.

`BackupTarget_proofs`: `TypeCorrect`, `KeysKept`, `NothingSilent`. `IndInv` says which copies of the Setting
may still be written (`CurrentInv`), which place is reached for which target
(`RouteInv`), that from the write of the Secret on it holds the keys of the worker's copy
(`SecretInv`), and that once the keys are stripped no copy of an older submission is
left that could bring back other keys (`StripInv`). For `NoSilentFailure` it is needed what
has been done by each place (`PlaceInv`: on the way to the final condition the Secret and
the credential setting are gone, or the keys stripped), that a handler whose copy was
overtaken is called again (`WakeInv`), and that a true condition carries no error
(`CondInv`); `setConfiguredCondition` returns nil without a write only when the very
condition, error included, is stored already. What Longhorn has is left out of the
property, as that is false (finding `stripped`).

`VMImage_proofs`: `TypeCorrect`, `NothingLeft`, `OutcomeFinal`, `NothingUndone`. Alone, `NothingLeftBehind` is not inductive,
as a handler creates from a copy of an image that might be gone. `IndInv` says that what
exists is held by an image with the finalizer (`OwnedInv`); that a copy which has the
finalizer and is not marked is right about the finalizer, however old it is (`LiveCopy`);
that the cache knows every image with the finalizer and is right about the mark
(`SeenInv`); and that `onRemove` runs only when neither the stored nor the cached image is
live (`HandlerInv`), so that no copy taken later is used to create anything. For
`OutcomeIsFinal`, `OutcomeInv` adds that an image which was never initialised has no outcome
(`Untried`), that a handler at work on the initialisation read an image not initialised, or
initialised with another URL (`Open`), and that a report under way was computed for one whose
import was unknown (`Pending`); an accepted write is then made from the stored object and is an `OutcomeStep`. For
`NothingLeftUndone`, `AwakeInv` says that once the worker is idle, not queued and its cache
up to date, `Route` has nothing to do for the stored image.

`VMRestore_proofs`: `TypeCorrect`, `Replaces` (the refinement of `Replacement`), `KeepsEdits`.
A handler decides on what it found out several calls ago, about claims, the VM and the old
claims. `IndInv` says for each place what its handler has found out (`JobInv`): the claims
before the loop index are bound, the VM is switched, the originals before the index are on
their way. This stays true while the restore is wanted, whatever the other handlers, the
informers, the cluster and users do, since claims only go forward, the VM never returns to
its old spec and originals do not come back (`Onward`). So each action has one lemma about
its own handler, and one frame lemma serves the others. The refinement then maps each step
to a step of `Replacement` or a stutter; edits are kept because an update of the VM needs a
current copy without the restore's mark, and a VM that was restored has the mark.

`VMOwnership_proofs`: `TypeCorrect`, `IndexComplete`, `NeverTakenOver`. `NoTakeover` is not
inductive, as the owner is read from the cache; `CacheInv` adds that a current copy is what
is stored, so an accepted write was decided on the true owner. `OwnedIsListed` is inductive
with the types: `Add` takes only entries of the claim it adds.

Only model-checked: the liveness properties (`EventuallyRestorable`,
`MigrationCompletes`, `DeletionCompletes`, `TargetSettles`, `OutcomeReported`,
`ImageSettles`, `RestoreCompletes`, `UsedIsOwned`, `UnusedIsReleased`), as fairness is out
of TLAPS's reach, and the four refuted statements. Every safety property that a run checks
is proved.

`NothingLeftUndone` and `NoSilentFailure` are the safety half of the liveness properties of
their modules: coming to rest, which takes fairness, is left to TLC; that a system at rest
is where it should be, without the resync of hours later, is proved. For `VMOwnership` no
such statement holds: its handlers log a refused write and return nil, so only the resync
makes up for it.

## 6. Plan

Done: `VMBackup` with `BackupLife`, `BackupTarget`, `VMImage`, `VMRestore` with `Replacement`, and
`VMOwnership`, with their runs and proofs. What could follow:

1. a second namespace in `VMImage`, which shares the StorageClass;
2. a target VM that is deleted during its restore, which the handlers create again.

Behaviours worth knowing that the models have and no property speaks of: a BackingImage
copied to a second disk before its import was reported is passed over for as long as it has
several files (`backingimage_controller.go:61`), which `OutcomeReported` excepts; a failed
HEAD request is never tried again, and leaves an image that `ImageSettles` counts as settled
(`virtualmachineimage_controller.go:151`); restored claims are owned by the restore and are
collected with it (`virtualmachinerestore_controller.go:577`); a VM deleted before its
removed-PVCs annotation was processed keeps its claims for ever (`vm_controller.go:45`); an
S3 target submitted without keys is taken for one whose keys were stripped
(`backup_target.go:81`). Outside the models: images of one name in two namespaces share a
StorageClass (`pkg/util/image.go:16`).

## 7. Not modelled

KeyPair (one worker, one hash), the empty Setting controller, names, slices and
constants (formatting), generated deep copies and CRDs (generated), the reflection in
`pkg/condition`, the schema owners in `pkg/ref` (called from nowhere), leader election (off
by default), RBAC, and everything the plan lists. A restore of a snapshot into another
namespace is excluded by assumption: it dereferences a Longhorn name that is not there
(`virtualmachinerestore_controller.go:618`). The same line panics for a ready backup whose
Longhorn name the LonghornBackup controller has yet to record; that case is left out too.
A VM without disks is excluded by assumption: its backup is initialised again at every
call and never becomes ready (`util.go:34`).
