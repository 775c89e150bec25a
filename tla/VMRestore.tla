------------------------------ MODULE VMRestore ------------------------------
(***************************************************************************)
(* One VirtualMachineRestore: its controller makes claims from a backup,   *)
(* points the target VM (or a new one) at them, starts it, deletes the     *)
(* claims the backup was made of and declares the restore complete.        *)
(*                                                                         *)
(* The controller's worker runs Reconcile on events of the restore only.   *)
(* The VM and PVC controllers run the same Reconcile in a goroutine, five  *)
(* seconds after an event of theirs, and drop its errors; Calls are such   *)
(* goroutines, of which several may run at once.  Restore, VM, claims,     *)
(* snapshots and contents are read through the informer caches; an Update  *)
(* from a copy that is not the stored version is refused.                  *)
(*                                                                         *)
(* Abstractions.  One restore; its target VM is there or not at the start  *)
(* and is not deleted.  The VM's spec is the one before the restore, the   *)
(* backup's or one that a user changed after it.  Backup, secrets, old     *)
(* claims and the running instance are read as they are; what the secrets  *)
(* hold is left out.  Conditions keep the kind of an error, not its text.  *)
(* Sizes, labels, SSH keys and MAC addresses are left out.                 *)
(***************************************************************************)
EXTENDS Integers

CONSTANTS
  NumVolumes,      \* claims in the backup
  Requests,        \* the restores that users ask for
  Strategies,      \* run strategies that the VM may have in the backup
  Calls,           \* goroutines of the VM and PVC controllers that may run at once
  OldClaims,       \* whether the backup's claims exist at the start: "live", "gone"
  Disturbances,    \* kinds of user actions and failures that may happen
  MaxDisturbances  \* bound: how many of them happen in a behaviour

Volumes == 1..NumVolumes
Request == [newVM : BOOLEAN, retain : BOOLEAN, foreign : BOOLEAN, kind : {"backup", "snapshot"}]
RunStrategies == {"Always", "Manual", "Halted"}   \* RerunOnFailure is as Always here

ASSUME VolumesAssumption == NumVolumes \in Nat \ {0}
ASSUME CallsAssumption == Calls # {} /\ Calls \cap {"worker", "cache"} = {}
ASSUME BoundAssumption == MaxDisturbances \in Nat
\* A snapshot has no Longhorn backup to restore from in another namespace.
ASSUME RequestsAssumption ==
  Requests \subseteq Request /\ \A q \in Requests : q.foreign => q.kind = "backup"
ASSUME StartAssumption ==
  Strategies \subseteq RunStrategies /\ OldClaims \subseteq {"live", "gone"}

VARIABLES
  plan,       \* fixed: the restore's spec, and the backup's disks and run strategy
  backup,     \* whether the backup is ready
  res,        \* the VirtualMachineRestore in the API server
  resCache,   \* the informer's copy of it
  resCur,     \* holders ("cache", handlers) whose copy has the stored version
  vm,         \* the target VM
  vmCache,    \* the informer's copy of it
  vmCur,      \* holders of its stored version
  vmi,        \* its instance: "off", "asked" to start, up on "old" or "new" claims
  claim,      \* per volume: phase of the restored claim
  claimSeen,  \* per volume: the phase that the informer has
  source,     \* per volume: the backup volume that its claim is made from, 0: none
  snapshot,   \* per backup volume: VolumeSnapshot of a restore across namespaces
  content,    \* per backup volume: its VolumeSnapshotContent
  old,        \* per volume: the claim that the backup was made of
  pend,       \* handlers that are due
  job,        \* per handler: what it is doing
  budget      \* disturbances still allowed

restore == <<res, resCache, resCur>>
machine == <<vm, vmCache, vmCur>>
claims == <<claim, claimSeen, source, snapshot, content>>
vars == <<plan, backup, restore, machine, vmi, claims, old, pend, job, budget>>

Handlers == {"worker"} \cup Calls
Orders == {f \in [Volumes -> Volumes] : \A v \in Volumes : \E i \in Volumes : f[i] = v}
NoOrder == [i \in Volumes |-> 0]
Plan == [newVM : BOOLEAN, retain : BOOLEAN, foreign : BOOLEAN, kind : {"backup", "snapshot"},
         order : Orders, strategy : RunStrategies]

Errors == {"backup", "mount", "claim", "vm", "secret", "start", "cleanup"}
Restore ==
  [there : BOOLEAN, deleting : BOOLEAN, status : BOOLEAN, vols : Orders \cup {NoOrder},
   owner : BOOLEAN, complete : BOOLEAN,
   cond : {"none", "init", "creating", "waiting", "done"} \cup Errors]
NewRestore == [there |-> TRUE, deleting |-> FALSE, status |-> FALSE, vols |-> NoOrder,
               owner |-> FALSE, complete |-> FALSE, cond |-> "none"]
NoRestore == [NewRestore EXCEPT !.there = FALSE]

VirtualMachine == [there : BOOLEAN, spec : {"old", "restored", "edited"}, last : BOOLEAN,
                   strategy : RunStrategies, ready : BOOLEAN]
\* The target at the start: none, or stopped.
NoVM == [there |-> FALSE, spec |-> "old", last |-> FALSE, strategy |-> "Halted", ready |-> FALSE]
StoppedVM == [NoVM EXCEPT !.there = TRUE]

Job == [pc : {"idle", "remove", "initStatus", "mount", "initVolumes", "claims", "getSnapshot",
              "createContent", "createSnapshot", "createClaim",
              "getVM", "createVM", "updateVM", "readVM", "secrets", "owner", "creating",
              "start", "waiting", "cleanup", "complete", "error"},
        res : Restore, vm : VirtualMachine, i : Volumes, ready : BOOLEAN, err : Errors]
Idle == [pc |-> "idle", res |-> NoRestore, vm |-> NoVM, i |-> 1, ready |-> TRUE, err |-> "backup"]

----------------------------------------------------------------------------
(* What the handlers compute                                               *)

isVMRestoreProgressing(r) == ~r.complete

isNewVMOrHasRetainPolicy == plan.newVM \/ plan.retain

\* VolumeRestores and DeletedVolumes are recorded together.
isVMRestoreMissingVolumes(r) == r.vols = NoOrder

getVolumeRestores == plan.order

\* DeletedVolumes: the claims the backup was made of.
DeletedVolumes == IF isNewVMOrHasRetainPolicy THEN {} ELSE Volumes

\* The VM as the backup has it, on the restored claims and marked with the restore.
\* Mutation: the mark is forgotten.
UnmarkedVM(v) == [v EXCEPT !.there = TRUE, !.spec = "restored", !.strategy = plan.strategy]
RestoredVM(v) ==
  [v EXCEPT !.there = TRUE, !.spec = "restored", !.last = TRUE, !.strategy = plan.strategy]

\* Reconcile, OnRestoreChange and OnRestoreRemove up to their first call.
Route(r) ==
  CASE ~r.there -> "idle"
    [] r.there /\ r.deleting -> IF r.status /\ backup THEN "remove" ELSE "idle"
    [] r.there /\ ~r.deleting /\ ~isVMRestoreProgressing(r) -> "idle"
    [] r.there /\ ~r.deleting /\ isVMRestoreProgressing(r) ->
         IF ~r.status THEN "initStatus"
         ELSE IF ~backup THEN "error"
         ELSE IF isVMRestoreMissingVolumes(r) THEN IF plan.kind = "snapshot" THEN "mount" ELSE "initVolumes"
         ELSE "claims"

----------------------------------------------------------------------------
(* Steps of a handler                                                      *)

Disturb(kind) == kind \in Disturbances /\ budget > 0 /\ budget' = budget - 1

Goto(h, where) == job' = [job EXCEPT ![h].pc = where] /\ UNCHANGED pend

\* The handler returns.  Only the worker's errors are retried.
Return(h, err) ==
  /\ job' = [job EXCEPT ![h] = Idle]
  /\ pend' = IF err /\ h = "worker" THEN pend \cup {h} ELSE pend

\* An error on the way: updateStatusError comes next.
Fail(h, err) ==
  /\ job' = [job EXCEPT ![h] = [Idle EXCEPT !.pc = "error", !.err = err, !.res = job[h].res]]
  /\ UNCHANGED pend

\* Update of the restore, the last call of a handler.
UpdateRestore(h, new, err) ==
  /\ \/ h \in resCur /\ res' = new /\ resCur' = {} /\ Return(h, err)
     \/ h \notin resCur /\ Return(h, TRUE) /\ UNCHANGED <<res, resCur>>
  /\ UNCHANGED <<plan, backup, resCache, machine, vmi, claims, old, budget>>
\* The same, left out when nothing changes.
UpdateChanged(h, new, err) ==
  \/ new # job[h].res /\ UpdateRestore(h, new, err)
  \/ /\ new = job[h].res /\ Return(h, err) /\ resCur' = resCur \ {h}
     /\ UNCHANGED <<plan, backup, res, resCache, machine, vmi, claims, old, budget>>

\* What a call that concerns the claims leaves alone, and one that only reads.
OnlyClaims == UNCHANGED <<plan, backup, restore, machine, vmi, claimSeen, old, budget>>
OnlyReads == OnlyClaims /\ UNCHANGED <<claim, source, snapshot, content>>

Reconcile(h) ==
  /\ job[h].pc = "idle" /\ h \in pend
  /\ LET there == Route(resCache)
         writes == there \notin {"idle", "remove"}
         again == resCache.there /\ resCache.deleting /\ resCache.status /\ ~backup
     IN /\ job' = [job EXCEPT ![h] = [Idle EXCEPT !.pc = there,
                                       !.res = IF writes THEN resCache ELSE NoRestore]]
        /\ pend' = IF again /\ h = "worker" THEN pend ELSE pend \ {h}
        /\ resCur' = IF writes /\ "cache" \in resCur THEN resCur \cup {h} ELSE resCur \ {h}
  /\ UNCHANGED <<plan, backup, res, resCache, machine, vmi, claims, old, budget>>

initStatus(h) ==
  /\ job[h].pc = "initStatus"
  /\ UpdateRestore(h, [job[h].res EXCEPT !.status = TRUE, !.cond = "init"], FALSE)

\* Only snapshots need their volumes attached; that takes the claims.
mountLonghornVolumes(h) ==
  /\ job[h].pc = "mount"
  /\ \/ (\E v \in Volumes : old[v] = "gone") /\ Fail(h, "mount")
     \/ (\A v \in Volumes : old[v] # "gone") /\ Goto(h, "initVolumes")
  /\ OnlyReads

initVolumesStatus(h) ==
  /\ job[h].pc = "initVolumes"
  /\ UpdateRestore(h, [job[h].res EXCEPT !.vols = getVolumeRestores], FALSE)

\* The loop goes on to the next volume, or to the VM.  Mutation: one volume too many.
OneTooMany(h, ready) ==
  /\ job' = [job EXCEPT ![h].ready = ready,
                        ![h].pc = IF job[h].i <= NumVolumes THEN "claims" ELSE "getVM",
                        ![h].i = @ + 1]
  /\ UNCHANGED pend
NextVolume(h, ready) ==
  /\ job' = [job EXCEPT ![h].ready = ready,
                        ![h].pc = IF job[h].i < NumVolumes THEN "claims" ELSE "getVM",
                        ![h].i = IF job[h].i < NumVolumes THEN @ + 1 ELSE 1]
  /\ UNCHANGED pend
VolumeOf(h) == job[h].res.vols[job[h].i]
BackupOf(h) == plan.order[job[h].i]        \* paired by index

\* Mutation: a claim that is not bound yet passes for ready.
StillReady(h, phase) == job[h].ready
ReadyWith(h, phase) == job[h].ready /\ phase = "Bound"

reconcileVolumeRestores(h) ==
  /\ job[h].pc = "claims"
  /\ LET phase == claimSeen[VolumeOf(h)]
     IN \/ phase = "none" /\ Goto(h, IF plan.foreign THEN "getSnapshot" ELSE "createClaim")
        \/ phase \in {"Pending", "Bound"} /\ NextVolume(h, ReadyWith(h, phase))
        \/ phase = "Lost" /\ Fail(h, "claim")
  /\ OnlyReads

createRestoredPVC(h) ==
  /\ job[h].pc = "createClaim"
  /\ LET v == VolumeOf(h)
     IN \/ /\ claim[v] = "none"
           /\ claim' = [claim EXCEPT ![v] = "Pending"]
           /\ source' = [source EXCEPT ![v] = BackupOf(h)]
           /\ NextVolume(h, FALSE)
        \/ claim[v] # "none" /\ Fail(h, "claim") /\ UNCHANGED <<claim, source>>
  /\ UNCHANGED <<snapshot, content>> /\ OnlyClaims

\* In another namespace: a content and a snapshot, each read back from the cache.
getOrCreateVolumeSnapshot(h) ==
  /\ job[h].pc = "getSnapshot"
  /\ LET b == BackupOf(h)
     IN Goto(h, IF snapshot[b] = "seen" THEN "createClaim"
                ELSE IF content[b] = "seen" THEN "createSnapshot" ELSE "createContent")
  /\ OnlyReads
\* Create, and the Get that follows: the cache has the new object by then or not.
createContent(h) ==
  /\ job[h].pc = "createContent"
  /\ LET b == BackupOf(h)
     IN \/ /\ content[b] = "none"
           /\ \/ content' = [content EXCEPT ![b] = "seen"] /\ Goto(h, "createSnapshot")
              \/ content' = [content EXCEPT ![b] = "new"] /\ Fail(h, "claim")
        \/ content[b] # "none" /\ Fail(h, "claim") /\ UNCHANGED content
  /\ UNCHANGED <<claim, source, snapshot>> /\ OnlyClaims
createSnapshot(h) ==
  /\ job[h].pc = "createSnapshot"
  /\ LET b == BackupOf(h)
     IN \/ /\ snapshot[b] = "none"
           /\ \/ snapshot' = [snapshot EXCEPT ![b] = "seen"] /\ Goto(h, "createClaim")
              \/ snapshot' = [snapshot EXCEPT ![b] = "new"] /\ Fail(h, "claim")
        \/ snapshot[b] # "none" /\ Fail(h, "claim") /\ UNCHANGED snapshot
  /\ UNCHANGED <<claim, source, content>> /\ OnlyClaims

\* reconcileVM: the VM comes from the cache, and again after it was written.
getVM(h) ==
  /\ job[h].pc = "getVM"
  /\ job' = [job EXCEPT ![h].vm = vmCache,
                        ![h].pc = IF ~vmCache.there THEN "createVM"
                                  ELSE IF vmCache.last THEN "secrets" ELSE "updateVM"]
  /\ vmCur' = IF "cache" \in vmCur /\ vmCache.there /\ ~vmCache.last THEN vmCur \cup {h} ELSE vmCur \ {h}
  /\ UNCHANGED <<plan, backup, restore, vm, vmCache, vmi, claims, old, pend, budget>>
WriteVM(h, allowed, new) ==
  /\ \/ allowed /\ vm' = new /\ vmCur' = {} /\ Goto(h, "readVM")
     \/ ~allowed /\ Fail(h, "vm") /\ UNCHANGED <<vm, vmCur>>
  /\ UNCHANGED <<plan, backup, restore, vmCache, vmi, claims, old, budget>>
createNewVM(h) == job[h].pc = "createVM" /\ WriteVM(h, ~vm.there, RestoredVM(NoVM))
updateVM(h) == job[h].pc = "updateVM" /\ WriteVM(h, h \in vmCur, RestoredVM(job[h].vm))
readVM(h) ==
  /\ job[h].pc = "readVM"
  /\ \/ /\ vmCache.there
        /\ job' = [job EXCEPT ![h].vm = vmCache, ![h].pc = "secrets"] /\ UNCHANGED pend
     \/ ~vmCache.there /\ Fail(h, "vm")
  /\ OnlyReads

\* What OnRestoreChange and updateStatus do next.
AfterSecrets(j) == IF ~j.res.owner THEN "owner" ELSE IF ~j.ready THEN "creating" ELSE "start"
reconcileSecretBackups(h) ==
  /\ job[h].pc = "secrets"
  /\ LET there == AfterSecrets(job[h])
     IN job' = [job EXCEPT ![h].pc = there, ![h].ready = TRUE,
                           ![h].vm = IF there = "start" THEN @ ELSE NoVM]
  /\ UNCHANGED pend
  /\ UNCHANGED <<plan, backup, restore, machine, vmi, claims, old, budget>>

updateOwnerRefAndTargetUID(h) ==
  job[h].pc = "owner" /\ UpdateRestore(h, [job[h].res EXCEPT !.owner = TRUE], FALSE)

\* updateStatus while the claims, or the VM, are not ready.
WaitFor(h, what) == job[h].pc = what /\ UpdateChanged(h, [job[h].res EXCEPT !.cond = what], FALSE)

\* The start subresource of the VM; it refuses a VM that is up or always on.
CanStart == vm.strategy = "Halted" \/ (vm.strategy = "Manual" /\ vmi = "off")
AskToStart == IF vm.strategy = "Halted"
                THEN vm' = [vm EXCEPT !.strategy = "Always"] /\ vmCur' = {} /\ UNCHANGED vmi
                ELSE vmi' = "asked" /\ UNCHANGED <<vm, vmCur>>
NeedsStart(v) == v.strategy = "Halted" \/ (v.strategy = "Manual" /\ vmi \notin {"old", "new"})

AfterStart(j) == IF ~j.vm.ready THEN "waiting" ELSE IF DeletedVolumes = {} THEN "complete" ELSE "cleanup"
startVM(h) ==
  /\ job[h].pc = "start"
  /\ LET asks == NeedsStart(job[h].vm)
         next == job' = [job EXCEPT ![h].pc = AfterStart(job[h]), ![h].vm = NoVM] /\ UNCHANGED pend
     IN \/ ~asks /\ next /\ UNCHANGED <<vm, vmCur, vmi>>
        \/ asks /\ CanStart /\ AskToStart /\ next
        \/ asks /\ ~CanStart /\ Fail(h, "start") /\ UNCHANGED <<vm, vmCur, vmi>>
  /\ UNCHANGED <<plan, backup, restore, vmCache, claims, old, budget>>

\* A claim that is gone is deleted without a name, which is an error.
deleteOldPVC(h) ==
  /\ job[h].pc = "cleanup"
  /\ LET v == job[h].i
     IN \/ /\ old[v] # "gone"
           /\ old' = [old EXCEPT ![v] = "deleting"]
           /\ job' = [job EXCEPT ![h].pc = IF v < NumVolumes THEN "cleanup" ELSE "complete",
                                 ![h].i = IF v < NumVolumes THEN v + 1 ELSE 1]
           /\ UNCHANGED pend
        \/ old[v] = "gone" /\ Fail(h, "cleanup") /\ UNCHANGED old
  /\ UNCHANGED <<plan, backup, restore, machine, vmi, claims, budget>>

Complete(h) ==
  /\ job[h].pc = "complete"
  /\ UpdateRestore(h, [job[h].res EXCEPT !.complete = TRUE, !.cond = "done"], FALSE)

updateStatusError(h) ==
  job[h].pc = "error" /\ UpdateChanged(h, [job[h].res EXCEPT !.cond = job[h].err], TRUE)

\* OnRestoreRemove, for a restore that something keeps while it is deleted.
OnRestoreRemove(h) ==
  /\ job[h].pc = "remove"
  /\ LET i == job[h].i
         b == plan.order[i]
     IN /\ content' = [content EXCEPT ![b] = IF @ = "seen" THEN "none" ELSE @]
        /\ \/ /\ i < NumVolumes
              /\ job' = [job EXCEPT ![h].i = i + 1] /\ UNCHANGED pend
           \/ i = NumVolumes /\ Return(h, FALSE)
  /\ UNCHANGED <<claim, source, snapshot>> /\ OnlyClaims

\* The API call that a handler is about to make fails.
ErrorAt == [mount |-> "mount", claims |-> "claim", createContent |-> "claim",
            createSnapshot |-> "claim", createClaim |-> "claim", createVM |-> "vm",
            updateVM |-> "vm", secrets |-> "secret", start |-> "start", cleanup |-> "cleanup"]
CallFails(h) ==
  /\ job[h].pc # "idle" /\ Disturb("failure")
  /\ \/ job[h].pc \in DOMAIN ErrorAt /\ Fail(h, ErrorAt[job[h].pc])
     \/ job[h].pc \notin DOMAIN ErrorAt /\ Return(h, TRUE)
  /\ UNCHANGED <<plan, backup, restore, machine, vmi, claims, old>>

Handle(h) ==
  \/ Reconcile(h) \/ initStatus(h) \/ mountLonghornVolumes(h) \/ initVolumesStatus(h)
  \/ reconcileVolumeRestores(h) \/ createRestoredPVC(h)
  \/ getOrCreateVolumeSnapshot(h) \/ createContent(h) \/ createSnapshot(h)
  \/ getVM(h) \/ createNewVM(h) \/ updateVM(h) \/ readVM(h) \/ reconcileSecretBackups(h)
  \/ updateOwnerRefAndTargetUID(h) \/ WaitFor(h, "creating") \/ WaitFor(h, "waiting")
  \/ startVM(h) \/ deleteOldPVC(h) \/ Complete(h)
  \/ updateStatusError(h) \/ OnRestoreRemove(h)

----------------------------------------------------------------------------
(* Informers, and the VM and PVC controllers that call Reconcile           *)

RestoreWatch ==
  /\ "cache" \notin resCur
  /\ resCache' = res /\ resCur' = resCur \cup {"cache"} /\ pend' = pend \cup {"worker"}
  /\ UNCHANGED <<plan, backup, res, machine, vmi, claims, old, job, budget>>

\* Mutation: the VM controller does not call the restore.
CallsNothing(v) == {{}}
CalledFor(v) == IF v.last THEN {{g} : g \in Calls} ELSE {{}}
\* A VM that carries the restore's name: Reconcile of the restore, later.
VMReconcile ==
  /\ "cache" \notin vmCur
  /\ vmCache' = vm /\ vmCur' = vmCur \cup {"cache"}
  /\ \E called \in CalledFor(vm) : pend' = pend \cup called
  /\ UNCHANGED <<plan, backup, restore, vm, vmi, claims, old, job, budget>>
PVCReconcile(v) ==
  /\ claimSeen[v] # claim[v]
  /\ claimSeen' = [claimSeen EXCEPT ![v] = claim[v]]
  /\ IF claim[v] = "none" THEN UNCHANGED pend ELSE \E g \in Calls : pend' = pend \cup {g}
  /\ UNCHANGED <<plan, backup, restore, machine, vmi, claim, source, snapshot, content,
                 old, job, budget>>
SnapshotWatch(b) ==
  /\ \/ snapshot[b] = "new" /\ snapshot' = [snapshot EXCEPT ![b] = "seen"] /\ UNCHANGED content
     \/ content[b] = "new" /\ content' = [content EXCEPT ![b] = "seen"] /\ UNCHANGED snapshot
  /\ UNCHANGED <<plan, backup, restore, machine, vmi, claim, claimSeen, source,
                 old, pend, job, budget>>

Quiet ==
  /\ \A h \in Handlers : job[h].pc = "idle"
  /\ pend = {} /\ "cache" \in resCur /\ "cache" \in vmCur /\ claimSeen = claim
\* The periodic resync of the informers, every ten hours.
Resync ==
  /\ Quiet /\ pend' = Handlers
  /\ UNCHANGED <<plan, backup, restore, machine, vmi, claims, old, job, budget>>

\* The manager restarts: caches are filled anew, every object gives an event.
Crash ==
  /\ Disturb("crash")
  /\ job' = [h \in Handlers |-> Idle] /\ pend' = Handlers
  /\ resCache' = res /\ resCur' = {"cache"} /\ vmCache' = vm /\ vmCur' = {"cache"}
  /\ claimSeen' = claim
  /\ snapshot' = [b \in Volumes |-> IF snapshot[b] = "new" THEN "seen" ELSE snapshot[b]]
  /\ content' = [b \in Volumes |-> IF content[b] = "new" THEN "seen" ELSE content[b]]
  /\ UNCHANGED <<plan, backup, res, vm, vmi, claim, source, old>>

----------------------------------------------------------------------------
(* Backup, storage, KubeVirt, garbage collector and users                  *)

BackupReady ==
  /\ ~backup /\ backup' = TRUE
  /\ UNCHANGED <<plan, restore, machine, vmi, claims, old, pend, job, budget>>

ClaimChange(v, phase) ==
  /\ claim' = [claim EXCEPT ![v] = phase]
  /\ UNCHANGED <<plan, backup, restore, machine, vmi, claimSeen, source, snapshot, content,
                 old, pend, job>>
ClaimBound(v) == claim[v] = "Pending" /\ ClaimChange(v, "Bound") /\ UNCHANGED budget
ClaimLost(v) == claim[v] = "Bound" /\ Disturb("lose") /\ ClaimChange(v, "Lost")

Withdrawn == ~res.there \/ res.deleting
\* The garbage collector follows owner references, in any order; a claim in use is
\* spared.
Collect(v) ==
  /\ Withdrawn
  /\ \E c \in {claim[v], "none"}, s \in {snapshot[v], "none"} :
       /\ c # claim[v] \/ s # snapshot[v]
       /\ vmi = "new" => c = claim[v]
       /\ claim' = [claim EXCEPT ![v] = c] /\ snapshot' = [snapshot EXCEPT ![v] = s]
  /\ UNCHANGED <<plan, backup, restore, machine, vmi, claimSeen, source, content,
                 old, pend, job, budget>>
OldClaimGone(v) ==
  /\ old[v] = "deleting" /\ vmi # "old" /\ old' = [old EXCEPT ![v] = "gone"]
  /\ UNCHANGED <<plan, backup, restore, machine, vmi, claims, pend, job, budget>>

\* KubeVirt starts the VM on the claims of its spec, and reports it ready.
KubeVirtStart ==
  /\ vm.there /\ (vmi = "asked" \/ (vmi = "off" /\ vm.strategy = "Always"))
  /\ vmi' = IF vm.spec = "old" THEN "old" ELSE "new"
  /\ IF vm.spec = "old" THEN \A v \in Volumes : old[v] = "live" ELSE \A v \in Volumes : claim[v] = "Bound"
  /\ UNCHANGED <<plan, backup, restore, machine, claims, old, pend, job, budget>>
KubeVirtStatus ==
  /\ vm.there /\ vm.ready # (vmi \in {"old", "new"})
  /\ vm' = [vm EXCEPT !.ready = ~@] /\ vmCur' = {}
  /\ UNCHANGED <<plan, backup, restore, vmCache, vmi, claims, old, pend, job, budget>>

StartByUser ==
  /\ vm.there /\ vmi = "off" /\ CanStart /\ Disturb("start") /\ AskToStart
  /\ UNCHANGED <<plan, backup, restore, vmCache, claims, old, pend, job>>
EditVM ==
  /\ vm.spec = "restored" /\ Disturb("edit")
  /\ vm' = [vm EXCEPT !.spec = "edited"] /\ vmCur' = {}
  /\ UNCHANGED <<plan, backup, restore, vmCache, vmi, claims, old, pend, job>>
\* Foreground deletion waits for the dependents, background deletion does not.
DeleteRestore(foreground) ==
  /\ res.there /\ ~res.deleting /\ Disturb(IF foreground THEN "foreground" ELSE "delete")
  /\ res' = IF foreground THEN [res EXCEPT !.deleting = TRUE] ELSE NoRestore
  /\ resCur' = {}
  /\ UNCHANGED <<plan, backup, resCache, machine, vmi, claims, old, pend, job>>
CollectRestore ==
  /\ res.there /\ res.deleting
  /\ \A v \in Volumes : claim[v] = "none" /\ snapshot[v] = "none"
  /\ res' = NoRestore /\ resCur' = {}
  /\ UNCHANGED <<plan, backup, resCache, machine, vmi, claims, old, pend, job, budget>>

Init ==
  /\ \E q \in Requests, o \in Orders, s \in Strategies :
       plan = [newVM |-> q.newVM, retain |-> q.retain, foreign |-> q.foreign, kind |-> q.kind,
               order |-> o, strategy |-> s]
  /\ \/ backup = TRUE /\ budget = MaxDisturbances
     \/ backup = FALSE /\ "unready" \in Disturbances /\ MaxDisturbances > 0 /\ budget = MaxDisturbances - 1
  /\ res = NewRestore /\ resCache = NoRestore /\ resCur = {}
  /\ vm \in IF plan.newVM THEN {NoVM} ELSE {NoVM, StoppedVM}
  /\ vmCache = vm /\ vmCur = {"cache"} /\ vmi = "off"
  /\ claim = [v \in Volumes |-> "none"] /\ claimSeen = claim
  /\ source = [v \in Volumes |-> 0]
  /\ snapshot = [b \in Volumes |-> "none"] /\ content = snapshot
  /\ \E s \in OldClaims : old = [v \in Volumes |-> s]
  /\ pend = {} /\ job = [h \in Handlers |-> Idle]

Informers == RestoreWatch \/ VMReconcile \/ \E v \in Volumes : PVCReconcile(v) \/ SnapshotWatch(v)
Cluster == BackupReady \/ KubeVirtStart \/ KubeVirtStatus \/ CollectRestore
           \/ \E v \in Volumes : ClaimBound(v) \/ Collect(v) \/ OldClaimGone(v)
ByUsers == StartByUser \/ EditVM \/ \E f \in BOOLEAN : DeleteRestore(f)

Next ==
  \/ \E h \in Handlers : Handle(h) \/ CallFails(h)
  \/ Informers \/ Resync \/ Crash \/ Cluster
  \/ \E v \in Volumes : ClaimLost(v)
  \/ ByUsers

Spec == Init /\ [][Next]_vars

\* Handlers go on, watches deliver, the cluster works; no resync is counted on.
Fairness ==
  /\ \A h \in Handlers : WF_vars(Handle(h))
  /\ WF_vars(RestoreWatch) /\ WF_vars(VMReconcile)
  /\ \A v \in Volumes : WF_vars(PVCReconcile(v)) /\ WF_vars(SnapshotWatch(v))
  /\ WF_vars(BackupReady) /\ WF_vars(KubeVirtStart) /\ WF_vars(KubeVirtStatus)
  /\ \A v \in Volumes : WF_vars(ClaimBound(v)) /\ WF_vars(OldClaimGone(v))
FairSpec == Spec /\ Fairness

----------------------------------------------------------------------------
\* Every variable holds a value of its kind.
TypeOK ==
  /\ plan \in Plan /\ backup \in BOOLEAN
  /\ res \in Restore /\ resCache \in Restore /\ resCur \subseteq Handlers \cup {"cache"}
  /\ vm \in VirtualMachine /\ vmCache \in VirtualMachine /\ vmCur \subseteq Handlers \cup {"cache"}
  /\ vmi \in {"off", "asked", "old", "new"}
  /\ claim \in [Volumes -> {"none", "Pending", "Bound", "Lost"}]
  /\ claimSeen \in [Volumes -> {"none", "Pending", "Bound", "Lost"}]
  /\ source \in [Volumes -> 0..NumVolumes]
  /\ snapshot \in [Volumes -> {"none", "new", "seen"}]
  /\ content \in [Volumes -> {"none", "new", "seen"}]
  /\ old \in [Volumes -> {"live", "deleting", "gone"}]
  /\ pend \subseteq Handlers /\ job \in [Handlers -> Job] /\ budget \in 0..MaxDisturbances

\* The restore replaces volumes as module Replacement promises: handlers with
\* copies of any age never have an original deleted, or the restore complete, before
\* every claim is bound with the data of its own disk and the VM refers to them
\* (reconcileVolumeRestores, reconcileVM, updateStatus, deleteOldPVC).
Promise == INSTANCE Replacement WITH
  keep <- isNewVMOrHasRetainPolicy,
  copies <- {v \in Volumes : claim[v] \in {"Bound", "Lost"} /\ source[v] = v},
  switched <- vm.spec # "old",
  removed <- {v \in Volumes : old[v] # "live"},
  done <- res.complete,
  open <- ~Withdrawn
SafeReplacement == Promise!Spec

\* What a user changes in the VM after it was restored is not undone by a handler
\* that has an old copy of the VM or of the restore (reconcileVM).
EditsKept == [][vm.spec = "edited" => vm'.spec = "edited"]_vars

\* Under fairness, a restore that keeps the old claims completes, and without waiting
\* for the resync: what a goroutine's dropped error, a stale VM or a restart leaves
\* undone, an event of the restore, a claim or the VM takes up, unless a goroutine's
\* API call fails (the goroutines of the VM and PVC controllers).
Over == res.complete \/ Withdrawn \/ \E v \in Volumes : claim[v] = "Lost"
RestoreCompletes == isNewVMOrHasRetainPolicy ~> Over

\* Under fairness, a restore that deletes the old claims completes as well ("clean up
\* existing pvc", deleteOldPVC).
CleanUpCompletes == ~isNewVMOrHasRetainPolicy ~> Over
=============================================================================
