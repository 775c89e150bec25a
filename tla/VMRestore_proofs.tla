-------------------------- MODULE VMRestore_proofs --------------------------
(***************************************************************************)
(* Proofs about VMRestore, for any number of disks, any requests, run      *)
(* strategies and disturbances: the type invariant, that a restore         *)
(* replaces volumes as Replacement promises, and that a user's change to   *)
(* the restored VM is kept.                                                *)
(*                                                                         *)
(* The argument.  What a handler has found out on its way (the first i     *)
(* claims are bound, the VM is switched, the first i originals are gone)   *)
(* stays true while the restore is wanted, whatever the others do: claims  *)
(* only go forward, the VM never goes back to its old spec, and originals  *)
(* do not return (Onward).  So it is enough that each step is right about  *)
(* its own handler (JobInv) and moves the rest onward.                     *)
(***************************************************************************)
EXTENDS VMRestore, TLAPS

Keep == isNewVMOrHasRetainPolicy
Copied(v) == claim[v] \in {"Bound", "Lost"}
AllCopied == \A v \in Volumes : Copied(v)
AllRemoved == \A v \in Volumes : old[v] # "live"
Lists == {NoOrder, plan.order}

Loop == {"claims", "getSnapshot", "createContent", "createSnapshot", "createClaim"}
OnVM == {"getVM", "createVM", "updateVM", "readVM", "secrets"}
AfterVM == {"readVM", "secrets", "owner", "creating", "start", "waiting", "cleanup", "complete"}
AfterClaims == {"start", "waiting", "cleanup", "complete"}
Places == {"idle", "remove", "initStatus", "mount", "initVolumes", "owner", "creating", "error"}
          \cup Loop \cup OnVM \cup AfterVM

\* A holder of the stored restore has it; the lists of volumes are the backup's.
StoreInv ==
  /\ "cache" \in resCur => resCache = res
  /\ res.vols \in Lists /\ resCache.vols \in Lists
\* The VM is marked once it is switched, and the cache does not run ahead.
MachineInv ==
  /\ "cache" \in vmCur => vmCache = vm
  /\ vm.last <=> vm.spec # "old"
  /\ ~vm.there => vm.spec = "old"
  /\ vmCache.last => vm.spec # "old"
\* A claim has the data of its disk; a claim seen bound was bound.
ClaimInv ==
  /\ \A v \in Volumes : claim[v] # "none" => source[v] = v
  /\ ~Withdrawn => \A v \in Volumes : claimSeen[v] \in {"Bound", "Lost"} => Copied(v)
\* What a handler has found out.
Found(h) ==
  /\ job[h].pc \in Loop /\ job[h].ready =>
       \A k \in Volumes : k < job[h].i => Copied(plan.order[k])
  /\ job[h].pc \in OnVM /\ job[h].ready => AllCopied
  /\ job[h].pc \in AfterClaims => AllCopied
JobInv(h) ==
  /\ job[h].res.vols \in Lists
  /\ h \in resCur /\ job[h].pc \notin {"idle", "remove"} => job[h].res = res
  /\ job[h].pc \in Loop => job[h].res.vols = plan.order
  /\ job[h].pc = "updateVM" => ~job[h].vm.last /\ (h \in vmCur => job[h].vm = vm)
  /\ job[h].pc \in AfterVM => vm.spec # "old"
  /\ ~Withdrawn => Found(h)
  /\ job[h].pc = "cleanup" => ~Keep /\ \A v \in Volumes : v < job[h].i => old[v] # "live"
  /\ job[h].pc = "complete" => Keep \/ AllRemoved
  /\ job[h].pc \in OnVM \cup {"start"} => job[h].i = 1
IndInv == TypeOK /\ StoreInv /\ MachineInv /\ ClaimInv /\ \A h \in Handlers : JobInv(h)

\* What no step undoes, and what a step leaves of a handler that does not take it.
Onward ==
  /\ plan' = plan
  /\ vm.spec # "old" => vm'.spec # "old"
  /\ Withdrawn => Withdrawn'
  /\ ~Withdrawn' => \A v \in Volumes : Copied(v) => Copied(v)'
  /\ \A v \in Volumes : old[v] # "live" => old'[v] # "live"
Spared(g) ==
  /\ job'[g] = job[g]
  /\ g \in resCur' => g \in resCur /\ res' = res
  /\ g \in vmCur' => g \in vmCur /\ vm' = vm

----------------------------------------------------------------------------
(* Types                                                                   *)

\* A list of volumes has every volume.
LEMMA OrderFacts ==
  ASSUME NEW o \in Orders
  PROVE  /\ o \in [Volumes -> Volumes]
         /\ \A v \in Volumes : \E i \in Volumes : o[i] = v
  BY DEF Orders

\* The values that stand for nothing are of their kinds.
LEMMA NoneTypes ==
  /\ NoRestore \in Restore /\ NewRestore \in Restore /\ NoVM \in VirtualMachine
  /\ StoppedVM \in VirtualMachine /\ Idle \in Job
  /\ NoRestore.vols = NoOrder /\ NewRestore.vols = NoOrder
  /\ Idle.pc = "idle" /\ Idle.res = NoRestore
  /\ NoVM.spec = "old" /\ ~NoVM.last /\ StoppedVM.spec = "old" /\ ~StoppedVM.last
<1>1. NewRestore \in Restore /\ NewRestore.vols = NoOrder
  BY DEF NewRestore, Restore
<1>2. NoRestore \in Restore /\ NoRestore.vols = NoOrder
  BY <1>1 DEF NoRestore, Restore, NewRestore
<1>3. NoVM \in VirtualMachine /\ StoppedVM \in VirtualMachine
  BY DEF NoVM, StoppedVM, VirtualMachine, RunStrategies
<1>4. 1 \in Volumes
  BY VolumesAssumption DEF Volumes
<1>5. Idle \in Job
  BY <1>2, <1>3, <1>4 DEF Idle, Job, Errors
<1>6. NoVM.spec = "old" /\ ~NoVM.last /\ StoppedVM.spec = "old" /\ ~StoppedVM.last
  BY DEF NoVM, StoppedVM
<1>7. Idle.pc = "idle" /\ Idle.res = NoRestore
  BY DEF Idle
<1> QED BY <1>1, <1>2, <1>3, <1>5, <1>6, <1>7

\* What a handler may change in its state keeps it of its kind.
LEMMA JobTypes ==
  ASSUME NEW j \in Job
  PROVE  /\ j.res \in Restore /\ j.vm \in VirtualMachine /\ j.i \in Volumes
         /\ j.ready \in BOOLEAN /\ j.err \in Errors
  BY DEF Job

\* What the operators make of a restore or a VM is one, with its list of volumes.
LEMMA RestoreTypes ==
  ASSUME NEW r \in Restore
  PROVE  /\ r.there \in BOOLEAN /\ r.deleting \in BOOLEAN /\ r.owner \in BOOLEAN
         /\ [r EXCEPT !.status = TRUE, !.cond = "init"] \in Restore
         /\ [r EXCEPT !.owner = TRUE] \in Restore
         /\ [r EXCEPT !.deleting = TRUE] \in Restore
         /\ [r EXCEPT !.complete = TRUE, !.cond = "done"] \in Restore
         /\ \A c \in {"creating", "waiting"} \cup Errors : [r EXCEPT !.cond = c] \in Restore
  BY DEF Restore, Errors

\* What the operators make of a VM is a VM.
LEMMA MachineTypes ==
  ASSUME NEW v \in VirtualMachine, plan \in Plan
  PROVE  /\ RestoredVM(v) \in VirtualMachine
         /\ RestoredVM(v).spec = "restored" /\ RestoredVM(v).last /\ RestoredVM(v).there
         /\ v.there \in BOOLEAN /\ v.last \in BOOLEAN /\ v.ready \in BOOLEAN
         /\ [v EXCEPT !.strategy = "Always"] \in VirtualMachine
         /\ [v EXCEPT !.ready = ~@] \in VirtualMachine
         /\ [v EXCEPT !.spec = "edited"] \in VirtualMachine
<1>1. plan.strategy \in RunStrategies
  BY DEF Plan
<1>2. RestoredVM(v) \in VirtualMachine
  BY <1>1 DEF RestoredVM, VirtualMachine
<1>3. RestoredVM(v).spec = "restored" /\ RestoredVM(v).last /\ RestoredVM(v).there
  BY DEF RestoredVM, VirtualMachine
<1>4. v.there \in BOOLEAN /\ v.last \in BOOLEAN /\ v.ready \in BOOLEAN
  BY DEF VirtualMachine
<1>5. [v EXCEPT !.strategy = "Always"] \in VirtualMachine /\ [v EXCEPT !.spec = "edited"] \in VirtualMachine
  BY DEF VirtualMachine, RunStrategies
<1>6. [v EXCEPT !.ready = ~@] \in VirtualMachine
  BY <1>4 DEF VirtualMachine
<1> QED BY <1>2, <1>3, <1>4, <1>5, <1>6

\* A handler that a step spares, and that goes on as everything does, stays right.
LEMMA SparedInv ==
  ASSUME NEW g \in Handlers, JobInv(g), Onward, Spared(g), plan \in Plan
  PROVE  JobInv(g)'
<1>1. Keep' = Keep /\ Lists' = Lists
  BY DEF Onward, Keep, isNewVMOrHasRetainPolicy, Lists
<1>2. ~Withdrawn' => ~Withdrawn
  BY DEF Onward
<1>3. \A k \in Volumes : plan.order[k] \in Volumes
  BY OrderFacts DEF Plan
<1>4. ~Withdrawn' => Found(g)'
  <2> SUFFICES ASSUME ~Withdrawn' PROVE Found(g)'
    OBVIOUS
  <2>1. Found(g)
    BY <1>2 DEF JobInv
  <2>2. AllCopied => AllCopied'
    BY DEF Onward, AllCopied
  <2>3. \A k \in Volumes : Copied(plan.order[k]) => Copied(plan.order[k])'
    BY <1>3 DEF Onward, Copied
  <2> QED BY <2>1, <2>2, <2>3 DEF Found, Spared, Onward
<1>5. AllRemoved => AllRemoved'
  BY DEF Onward, AllRemoved
<1> QED BY <1>1, <1>4, <1>5 DEF JobInv, Spared, Onward

----------------------------------------------------------------------------
(* A step of one handler                                                   *)

\* Other handlers keep their state; the one that takes the step gets a new one.
Moves(h) ==
  /\ job' \in [Handlers -> Job] /\ pend' \subseteq Handlers
  /\ \A g \in Handlers : g # h => job'[g] = job[g]
Holds(g) ==
  /\ g \in resCur' => g \in resCur /\ res' = res
  /\ g \in vmCur' => g \in vmCur /\ vm' = vm

\* A handler that returns is idle; one that fails keeps its copy of the restore.
LEMMA ReturnFacts ==
  ASSUME TypeOK, NEW h \in Handlers, NEW err, Return(h, err)
  PROVE  Moves(h) /\ job'[h] = Idle
<1>1. job' \in [Handlers -> Job] /\ job'[h] = Idle /\ \A g \in Handlers : g # h => job'[g] = job[g]
  BY NoneTypes DEF Return, TypeOK
<1>2. pend' \subseteq Handlers
  BY DEF Return, TypeOK
<1> QED BY <1>1, <1>2 DEF Moves

\* A failing handler goes to its error report.
LEMMA FailFacts ==
  ASSUME TypeOK, NEW h \in Handlers, NEW err \in Errors, Fail(h, err)
  PROVE  Moves(h) /\ job'[h].pc = "error" /\ job'[h].res = job[h].res
<1> DEFINE j == [Idle EXCEPT !.pc = "error", !.err = err, !.res = job[h].res]
<1>1. job[h].res \in Restore
  BY JobTypes DEF TypeOK
<1>2. j \in Job /\ j.pc = "error" /\ j.res = job[h].res
  BY <1>1, NoneTypes DEF Job, Idle
<1>3. job' = [job EXCEPT ![h] = j] /\ pend' = pend
  BY DEF Fail
<1> HIDE DEF j
<1>4. job' \in [Handlers -> Job] /\ job'[h] = j /\ \A g \in Handlers : g # h => job'[g] = job[g]
  BY <1>2, <1>3 DEF TypeOK
<1> QED BY <1>2, <1>3, <1>4 DEF Moves, TypeOK

\* A handler at rest knows nothing; one that reports an error, only its copy.
LEMMA IdleInv ==
  ASSUME NEW h \in Handlers, job'[h] = Idle
  PROVE  JobInv(h)'
  BY NoneTypes DEF JobInv, Found, Lists, Loop, OnVM, AfterVM, AfterClaims
\* A handler that reports an error.
LEMMA ErrorInv ==
  ASSUME NEW h \in Handlers, JobInv(h), plan' = plan, job[h].pc \notin {"idle", "remove"},
         job'[h].pc = "error", job'[h].res = job[h].res,
         h \in resCur' => h \in resCur /\ res' = res
  PROVE  JobInv(h)'
  BY DEF JobInv, Found, Lists, Loop, OnVM, AfterVM, AfterClaims

\* What is left to show of a step of h when the shared state is seen to.
LEMMA StepInv ==
  ASSUME IndInv, NEW h \in Handlers, Onward, Moves(h),
         \A g \in Handlers : g # h => Holds(g),
         TypeOK', StoreInv', MachineInv', ClaimInv', JobInv(h)'
  PROVE  IndInv'
<1>1. ASSUME NEW g \in Handlers, g # h PROVE JobInv(g)'
  <2>1. Spared(g)
    BY <1>1 DEF Spared, Moves, Holds
  <2> QED BY <1>1, <2>1, SparedInv DEF IndInv, TypeOK
<1> QED BY <1>1 DEF IndInv

\* A step that changes nothing but the handler.
LEMMA ReadInv ==
  ASSUME IndInv, NEW h \in Handlers, Moves(h), OnlyReads, JobInv(h)'
  PROVE  IndInv' /\ Onward
<1> USE DEF OnlyReads, OnlyClaims, restore, machine
<1>1. Withdrawn' = Withdrawn /\ \A v \in Volumes : Copied(v)' = Copied(v)
  BY DEF Withdrawn, Copied
<1>2. Onward
  BY <1>1 DEF Onward
<1>3. \A g \in Handlers : g # h => Holds(g)
  BY DEF Holds
<1>4. TypeOK'
  BY DEF IndInv, TypeOK, Moves
<1>5. StoreInv' /\ MachineInv'
  BY DEF IndInv, StoreInv, MachineInv, Lists
<1>6. ClaimInv'
  BY <1>1 DEF IndInv, ClaimInv
<1> QED BY <1>2, <1>3, <1>4, <1>5, <1>6, StepInv

\* Update of the restore: only the stored version can be written over, and what is
\* written neither revives nor withdraws it.
LEMMA UpdateInv ==
  ASSUME IndInv, NEW h \in Handlers, NEW new \in Restore, NEW err,
         job[h].pc \notin {"idle", "remove"}, new.vols \in Lists,
         new.there = job[h].res.there, new.deleting = job[h].res.deleting,
         UpdateRestore(h, new, err)
  PROVE  IndInv' /\ Onward
<1> USE DEF machine, claims
<1>1. Moves(h) /\ job'[h] = Idle
  BY ReturnFacts DEF UpdateRestore, IndInv
<1>2. JobInv(h)'
  BY <1>1, IdleInv
<1>3. \/ h \in resCur /\ res' = new /\ resCur' = {}
      \/ res' = res /\ resCur' = resCur
  BY DEF UpdateRestore
<1>4. h \in resCur => job[h].res = res
  BY DEF IndInv, JobInv
<1>5. res' \in Restore /\ res'.vols \in Lists /\ resCur' \subseteq resCur
      /\ res'.there = res.there /\ res'.deleting = res.deleting
  BY <1>3, <1>4 DEF IndInv, TypeOK, StoreInv
<1>6. Withdrawn' = Withdrawn /\ \A v \in Volumes : Copied(v)' = Copied(v)
  BY <1>5 DEF Withdrawn, Copied, UpdateRestore
<1>7. Onward
  BY <1>6 DEF Onward, UpdateRestore
<1>8. \A g \in Handlers : g # h => Holds(g)
  BY <1>3 DEF Holds, UpdateRestore
<1>9. TypeOK'
  BY <1>1, <1>5 DEF IndInv, TypeOK, Moves, UpdateRestore
<1>10. StoreInv' /\ MachineInv'
  BY <1>3, <1>5 DEF IndInv, StoreInv, MachineInv, Lists, UpdateRestore
<1>11. ClaimInv'
  BY <1>6 DEF IndInv, ClaimInv, UpdateRestore
<1> QED BY <1>1, <1>2, <1>7, <1>8, <1>9, <1>10, <1>11, StepInv

\* The same, left out when nothing changes.
LEMMA UpdateChangedInv ==
  ASSUME IndInv, NEW h \in Handlers, NEW new \in Restore, NEW err,
         job[h].pc \notin {"idle", "remove"}, new.vols \in Lists,
         new.there = job[h].res.there, new.deleting = job[h].res.deleting,
         UpdateChanged(h, new, err)
  PROVE  IndInv' /\ Onward
<1>1. CASE UpdateRestore(h, new, err)
  BY <1>1, UpdateInv
<1>2. CASE /\ Return(h, err) /\ resCur' = resCur \ {h}
           /\ UNCHANGED <<plan, backup, res, resCache, machine, vmi, claims, old, budget>>
  <2> USE <1>2 DEF machine, claims
  <2>1. Moves(h) /\ JobInv(h)'
    BY ReturnFacts, IdleInv DEF IndInv
  <2>2. Withdrawn' = Withdrawn /\ \A v \in Volumes : Copied(v)' = Copied(v)
    BY DEF Withdrawn, Copied
  <2>3. Onward
    BY <2>2 DEF Onward
  <2>4. \A g \in Handlers : g # h => Holds(g)
    BY DEF Holds
  <2>5. TypeOK'
    BY <2>1 DEF IndInv, TypeOK, Moves
  <2>6. StoreInv' /\ MachineInv'
    BY DEF IndInv, StoreInv, MachineInv, Lists
  <2>7. ClaimInv'
    BY <2>2 DEF IndInv, ClaimInv
  <2> QED BY <2>1, <2>3, <2>4, <2>5, <2>6, <2>7, StepInv
<1> QED BY <1>1, <1>2 DEF UpdateChanged

----------------------------------------------------------------------------
(* The handlers' steps                                                     *)

\* A handler that goes elsewhere, with its copy and its findings.
LEMMA GotoFacts ==
  ASSUME TypeOK, NEW h \in Handlers, NEW where \in Places, Goto(h, where)
  PROVE  /\ Moves(h)
         /\ job'[h].pc = where /\ job'[h].res = job[h].res /\ job'[h].vm = job[h].vm
         /\ job'[h].i = job[h].i /\ job'[h].ready = job[h].ready
<1> DEFINE j == [job[h] EXCEPT !.pc = where]
<1>1. job[h] \in Job
  BY DEF TypeOK
<1>2. j \in Job /\ j.pc = where /\ j.res = job[h].res /\ j.vm = job[h].vm /\ j.i = job[h].i
      /\ j.ready = job[h].ready
  BY <1>1 DEF Job, Places, Loop, OnVM, AfterVM
<1>3. job' = [job EXCEPT ![h] = j] /\ pend' = pend
  BY DEF Goto
<1> HIDE DEF j
<1>4. job' \in [Handlers -> Job] /\ job'[h] = j /\ \A g \in Handlers : g # h => job'[g] = job[g]
  BY <1>2, <1>3 DEF TypeOK
<1> QED BY <1>2, <1>3, <1>4 DEF Moves, TypeOK

\* The loop goes on with what it knows of the volumes so far.
LEMMA NextVolumeFacts ==
  ASSUME TypeOK, NEW h \in Handlers, NEW ready \in BOOLEAN, NextVolume(h, ready)
  PROVE  /\ Moves(h)
         /\ job'[h].res = job[h].res /\ job'[h].ready = ready
         /\ \/ job[h].i < NumVolumes /\ job'[h].i = job[h].i + 1 /\ job'[h].pc = "claims"
            \/ job[h].i = NumVolumes /\ job'[h].pc = "getVM" /\ job'[h].i = 1
<1> DEFINE j == [job[h] EXCEPT !.ready = ready,
                               !.pc = IF job[h].i < NumVolumes THEN "claims" ELSE "getVM",
                               !.i = IF job[h].i < NumVolumes THEN @ + 1 ELSE 1]
<1>1. job[h] \in Job /\ job[h].i \in Volumes /\ 1 \in Volumes
  BY JobTypes, VolumesAssumption DEF TypeOK, Volumes
<1>2. job[h].i < NumVolumes => job[h].i + 1 \in Volumes
  BY <1>1, VolumesAssumption DEF Volumes
<1>3. ~(job[h].i < NumVolumes) => job[h].i = NumVolumes
  BY <1>1, VolumesAssumption DEF Volumes
<1>4. j \in Job /\ j.res = job[h].res /\ j.ready = ready
  BY <1>1, <1>2 DEF Job
<1>5. \/ job[h].i < NumVolumes /\ j.i = job[h].i + 1 /\ j.pc = "claims"
      \/ job[h].i = NumVolumes /\ j.pc = "getVM" /\ j.i = 1
  BY <1>1, <1>3 DEF Job
<1>6. job' = [job EXCEPT ![h] = j] /\ pend' = pend
  BY DEF NextVolume
<1> HIDE DEF j
<1>7. job' \in [Handlers -> Job] /\ job'[h] = j /\ \A g \in Handlers : g # h => job'[g] = job[g]
  BY <1>4, <1>6 DEF TypeOK
<1> QED BY <1>4, <1>5, <1>6, <1>7 DEF Moves, TypeOK

\* Where Reconcile sends a handler.
LEMMA RouteFacts ==
  ASSUME NEW r \in Restore
  PROVE  /\ Route(r) \in {"idle", "remove", "initStatus", "error", "mount", "initVolumes", "claims"}
         /\ Route(r) = "claims" => r.vols # NoOrder
<1>1. r.there \in BOOLEAN /\ r.deleting \in BOOLEAN
  BY RestoreTypes
<1> QED BY <1>1 DEF Route, isVMRestoreProgressing, isVMRestoreMissingVolumes

\* Reconcile takes the cached restore, or stays idle.
LEMMA ReconcileInv ==
  ASSUME IndInv, NEW h \in Handlers, Reconcile(h)
  PROVE  IndInv' /\ Onward
<1> DEFINE there == Route(resCache)
           writes == there \notin {"idle", "remove"}
           j == [Idle EXCEPT !.pc = there, !.res = IF writes THEN resCache ELSE NoRestore]
<1> USE DEF machine, claims
<1>1. /\ there \in {"idle", "remove", "initStatus", "error", "mount", "initVolumes", "claims"}
      /\ there = "claims" => resCache.vols # NoOrder
      /\ resCache \in Restore
  BY RouteFacts DEF IndInv, TypeOK
<1>2. j \in Job /\ j.pc = there /\ j.i = 1 /\ (writes => j.res = resCache)
      /\ j.res \in {resCache, NoRestore}
  BY <1>1, NoneTypes DEF Job, Idle
<1>3. /\ job' = [job EXCEPT ![h] = j] /\ pend' \subseteq Handlers
      /\ resCur' = IF writes /\ "cache" \in resCur THEN resCur \cup {h} ELSE resCur \ {h}
      /\ UNCHANGED <<plan, backup, res, resCache, machine, vmi, claims, old, budget>>
  BY DEF Reconcile, IndInv, TypeOK
<1> HIDE DEF there, j
<1>4. Moves(h) /\ job'[h] = j
  BY <1>2, <1>3 DEF IndInv, TypeOK, Moves
<1>5. Withdrawn' = Withdrawn /\ \A v \in Volumes : Copied(v)' = Copied(v)
  BY <1>3 DEF Withdrawn, Copied
<1>6. Onward
  BY <1>3, <1>5 DEF Onward
<1>7. \A g \in Handlers : g # h => Holds(g)
  BY <1>3 DEF Holds
<1>8. TypeOK'
  BY <1>3, <1>4 DEF IndInv, TypeOK, Moves
<1>9. StoreInv' /\ MachineInv'
  <2>1. "cache" # h
    BY CallsAssumption DEF Handlers
  <2> QED BY <1>3, <2>1 DEF IndInv, StoreInv, MachineInv, Lists
<1>10. ClaimInv'
  BY <1>3, <1>5 DEF IndInv, ClaimInv
<1>11. JobInv(h)'
  <2>1. j.res.vols \in Lists' /\ Lists' = Lists
    BY <1>2, <1>3, NoneTypes DEF IndInv, StoreInv, Lists
  <2>2. h \in resCur' /\ j.pc \notin {"idle", "remove"} => j.res = res'
    BY <1>2, <1>3 DEF IndInv, StoreInv
  <2>3. j.pc = "claims" => j.res.vols = plan'.order
    BY <1>1, <1>2, <1>3 DEF IndInv, StoreInv, Lists
  <2>4. \A k \in Volumes : ~(k < j.i)
    BY <1>2, VolumesAssumption DEF Volumes
  <2>5. Found(h)'
    BY <1>1, <1>2, <1>4, <2>4 DEF Found, Loop, OnVM, AfterClaims
  <2> QED BY <1>1, <1>2, <1>4, <2>1, <2>2, <2>3, <2>5 DEF JobInv, Loop, AfterVM
<1> QED BY <1>4, <1>6, <1>7, <1>8, <1>9, <1>10, <1>11, StepInv

\* The handlers that end with an Update of the restore.
LEMMA StatusInv ==
  ASSUME IndInv, NEW h \in Handlers,
         \/ initStatus(h) \/ initVolumesStatus(h) \/ updateOwnerRefAndTargetUID(h)
         \/ WaitFor(h, "creating") \/ WaitFor(h, "waiting") \/ Complete(h) \/ updateStatusError(h)
  PROVE  IndInv' /\ Onward
<1> DEFINE r == job[h].res
<1>1. r \in Restore /\ r.vols \in Lists /\ plan.order \in Orders /\ job[h].err \in Errors
  BY JobTypes DEF IndInv, JobInv, TypeOK, Plan
<1> HIDE DEF r
<1>2. CASE initStatus(h)
  <2> DEFINE n == [r EXCEPT !.status = TRUE, !.cond = "init"]
  <2>1. n \in Restore /\ n.vols = r.vols /\ n.there = r.there /\ n.deleting = r.deleting
    BY <1>1, RestoreTypes DEF Restore
  <2> HIDE DEF n
  <2>2. UpdateRestore(h, n, FALSE) /\ job[h].pc \notin {"idle", "remove"}
    BY <1>2 DEF initStatus, n, r
  <2> QED BY <1>1, <2>1, <2>2, UpdateInv DEF r
<1>3. CASE initVolumesStatus(h)
  <2> DEFINE n == [r EXCEPT !.vols = plan.order]
  <2>1. n \in Restore /\ n.vols \in Lists /\ n.there = r.there /\ n.deleting = r.deleting
    BY <1>1 DEF Restore, Lists
  <2> HIDE DEF n
  <2>2. UpdateRestore(h, n, FALSE) /\ job[h].pc \notin {"idle", "remove"}
    BY <1>3 DEF initVolumesStatus, n, r, getVolumeRestores
  <2> QED BY <2>1, <2>2, UpdateInv DEF r
<1>4. CASE updateOwnerRefAndTargetUID(h)
  <2> DEFINE n == [r EXCEPT !.owner = TRUE]
  <2>1. n \in Restore /\ n.vols = r.vols /\ n.there = r.there /\ n.deleting = r.deleting
    BY <1>1, RestoreTypes DEF Restore
  <2> HIDE DEF n
  <2>2. UpdateRestore(h, n, FALSE) /\ job[h].pc \notin {"idle", "remove"}
    BY <1>4 DEF updateOwnerRefAndTargetUID, n, r
  <2> QED BY <1>1, <2>1, <2>2, UpdateInv DEF r
<1>5. ASSUME NEW c \in {"creating", "waiting"} \cup Errors, NEW err,
             job[h].pc \notin {"idle", "remove"},
             UpdateChanged(h, [job[h].res EXCEPT !.cond = c], err)
      PROVE  IndInv' /\ Onward
  <2> DEFINE n == [r EXCEPT !.cond = c]
  <2>1. n \in Restore /\ n.vols = r.vols /\ n.there = r.there /\ n.deleting = r.deleting
    BY <1>1, RestoreTypes DEF Restore
  <2>2. UpdateChanged(h, n, err)
    BY <1>5 DEF r
  <2> HIDE DEF n
  <2> QED BY <1>1, <1>5, <2>1, <2>2, UpdateChangedInv DEF r
<1>6. CASE WaitFor(h, "creating")
  <2>1. job[h].pc \notin {"idle", "remove"} /\ UpdateChanged(h, [job[h].res EXCEPT !.cond = "creating"], FALSE)
    BY <1>6 DEF WaitFor
  <2> QED BY <1>5, <2>1
<1>7. CASE WaitFor(h, "waiting")
  <2>1. job[h].pc \notin {"idle", "remove"} /\ UpdateChanged(h, [job[h].res EXCEPT !.cond = "waiting"], FALSE)
    BY <1>7 DEF WaitFor
  <2> QED BY <1>5, <2>1
<1>8. CASE Complete(h)
  <2> DEFINE n == [r EXCEPT !.complete = TRUE, !.cond = "done"]
  <2>1. n \in Restore /\ n.vols = r.vols /\ n.there = r.there /\ n.deleting = r.deleting
    BY <1>1, RestoreTypes DEF Restore
  <2> HIDE DEF n
  <2>2. UpdateRestore(h, n, FALSE) /\ job[h].pc \notin {"idle", "remove"}
    BY <1>8 DEF Complete, n, r
  <2> QED BY <1>1, <2>1, <2>2, UpdateInv DEF r
<1>9. CASE updateStatusError(h)
  <2>1. job[h].pc \notin {"idle", "remove"} /\ UpdateChanged(h, [job[h].res EXCEPT !.cond = job[h].err], TRUE)
    BY <1>9 DEF updateStatusError
  <2> QED BY <1>1, <1>5, <2>1
<1> QED BY <1>2, <1>3, <1>4, <1>6, <1>7, <1>8, <1>9

\* A handler that fails, whatever else the step leaves alone.
LEMMA FailInv ==
  ASSUME IndInv, NEW h \in Handlers, NEW err \in Errors, Fail(h, err),
         job[h].pc \notin {"idle", "remove"}, OnlyReads
  PROVE  IndInv' /\ Onward
<1>1. Moves(h) /\ job'[h].pc = "error" /\ job'[h].res = job[h].res
  BY FailFacts DEF IndInv
<1>2. JobInv(h)'
  BY <1>1, ErrorInv DEF IndInv, OnlyReads, OnlyClaims, restore
<1> QED BY <1>1, <1>2, ReadInv

\* Within the loop, a handler keeps what it knows.
LEMMA LoopInv ==
  ASSUME IndInv, NEW h \in Handlers, NEW where \in Loop, Goto(h, where), job[h].pc \in Loop,
         UNCHANGED <<plan, restore, claim>>
  PROVE  Moves(h) /\ JobInv(h)'
<1>1. where \in Places
  BY DEF Places
<1>2. /\ Moves(h) /\ job'[h].pc = where /\ job'[h].res = job[h].res
      /\ job'[h].i = job[h].i /\ job'[h].ready = job[h].ready
  BY <1>1, GotoFacts DEF IndInv
<1>3. Withdrawn' = Withdrawn /\ \A v : Copied(v)' = Copied(v)
  BY DEF Withdrawn, Copied, restore
<1>4. ~Withdrawn' => Found(h)'
  BY <1>2, <1>3 DEF IndInv, JobInv, Found, Loop, OnVM, AfterClaims
<1>5. where # "idle" /\ where # "remove" /\ job[h].pc # "idle" /\ job[h].pc # "remove"
  BY DEF Loop
<1> QED BY <1>2, <1>4, <1>5 DEF IndInv, JobInv, Lists, Loop, OnVM, AfterVM, restore

\* The next volume: a handler that still calls the claims ready has seen this one bound.
LEMMA NextVolumeInv ==
  ASSUME IndInv, NEW h \in Handlers, NEW ready \in BOOLEAN, NextVolume(h, ready),
         job[h].pc \in Loop, UNCHANGED <<plan, restore>>,
         ~Withdrawn => \A v \in Volumes : Copied(v) => Copied(v)',
         ready => job[h].ready /\ (~Withdrawn => Copied(plan.order[job[h].i]))
  PROVE  Moves(h) /\ JobInv(h)'
<1>1. /\ Moves(h) /\ job'[h].res = job[h].res /\ job'[h].ready = ready
      /\ \/ job[h].i < NumVolumes /\ job'[h].i = job[h].i + 1 /\ job'[h].pc = "claims"
         \/ job[h].i = NumVolumes /\ job'[h].pc = "getVM" /\ job'[h].i = 1
  BY NextVolumeFacts DEF IndInv
<1>2. Withdrawn' = Withdrawn
  BY DEF Withdrawn, restore
<1>3. plan.order \in [Volumes -> Volumes] /\ \A v \in Volumes : \E k \in Volumes : plan.order[k] = v
  BY OrderFacts DEF IndInv, TypeOK, Plan
<1>4. job[h].i \in Volumes
  BY JobTypes DEF IndInv, TypeOK
<1>5. ASSUME ~Withdrawn, ready, NEW k \in Volumes, k <= job[h].i PROVE Copied(plan.order[k])'
  <2>1. \A m \in Volumes : m < job[h].i => Copied(plan.order[m])
    BY <1>5 DEF IndInv, JobInv, Found
  <2>2. k < job[h].i \/ k = job[h].i
    BY <1>4, <1>5 DEF Volumes
  <2>3. Copied(plan.order[k])
    BY <1>5, <2>1, <2>2
  <2>4. plan.order[k] \in Volumes
    BY <1>3
  <2>5. Copied(plan.order[k]) => claim'[plan.order[k]] \in {"Bound", "Lost"}
    BY <1>5, <2>4 DEF Copied
  <2> QED BY <2>3, <2>5 DEF Copied
<1>6. ~Withdrawn' => Found(h)'
  <2> SUFFICES ASSUME ~Withdrawn, job'[h].ready PROVE Found(h)'
    BY <1>1, <1>2 DEF Found, Loop, OnVM, AfterClaims
  <2>1. CASE job'[h].pc = "claims"
    <3>1. \A k \in Volumes : k < job'[h].i => k <= job[h].i
      BY <1>1, <1>4, <2>1 DEF Volumes
    <3>2. \A k \in Volumes : k < job'[h].i => Copied(plan.order[k])'
      BY <1>1, <1>5, <3>1
    <3> QED BY <2>1, <3>2 DEF Found, Copied, OnVM, AfterClaims
  <2>2. CASE job'[h].pc = "getVM"
    <3>1. \A k \in Volumes : k <= job[h].i
      BY <1>1, <2>2, VolumesAssumption DEF Volumes
    <3>2. \A k \in Volumes : Copied(plan.order[k])'
      BY <1>1, <1>5, <3>1
    <3>3. AllCopied'
      BY <1>3, <3>2 DEF AllCopied, Copied
    <3> QED BY <2>2, <3>3 DEF Found, Loop, AfterClaims
  <2> QED BY <1>1, <2>1, <2>2
<1>7. job[h].pc # "idle" /\ job[h].pc # "remove"
  BY DEF Loop
<1>8. job[h].res.vols = plan.order
  BY DEF IndInv, JobInv
<1> QED BY <1>1, <1>6, <1>7, <1>8 DEF IndInv, JobInv, Lists, Loop, OnVM, AfterVM, restore

\* Attaching the volumes: on, or an error.
LEMMA MountInv ==
  ASSUME IndInv, NEW h \in Handlers, mountLonghornVolumes(h)
  PROVE  IndInv' /\ Onward
<1>1. CASE Fail(h, "mount")
  BY <1>1, FailInv DEF mountLonghornVolumes, Errors
<1>2. CASE Goto(h, "initVolumes")
  <2>1. Moves(h) /\ job'[h].pc = "initVolumes" /\ job'[h].res = job[h].res
    BY <1>2, GotoFacts DEF IndInv, Places
  <2>2. JobInv(h)'
    BY <2>1 DEF IndInv, JobInv, Found, Lists, Loop, OnVM, AfterVM, AfterClaims,
                mountLonghornVolumes, OnlyReads, OnlyClaims, restore
  <2> QED BY <2>1, <2>2, ReadInv DEF mountLonghornVolumes
<1> QED BY <1>1, <1>2 DEF mountLonghornVolumes

\* In the loop the restore's volume and the backup's are the same disk.
LEMMA VolumeFacts ==
  ASSUME IndInv, NEW h \in Handlers, job[h].pc \in Loop
  PROVE  VolumeOf(h) \in Volumes /\ BackupOf(h) = VolumeOf(h) /\ job[h].i \in Volumes
         /\ VolumeOf(h) = plan.order[job[h].i]
<1>1. job[h].res.vols = plan.order /\ job[h].i \in Volumes
  BY JobTypes DEF IndInv, JobInv, TypeOK
<1>2. plan.order \in [Volumes -> Volumes]
  BY OrderFacts DEF IndInv, TypeOK, Plan
<1> QED BY <1>1, <1>2 DEF VolumeOf, BackupOf

\* A claim that is in the cache, missing or lost.
LEMMA VolumeRestoresInv ==
  ASSUME IndInv, NEW h \in Handlers, reconcileVolumeRestores(h)
  PROVE  IndInv' /\ Onward
<1> DEFINE phase == claimSeen[VolumeOf(h)]
<1>1. job[h].pc \in Loop /\ OnlyReads /\ UNCHANGED <<plan, restore, claim>>
  BY DEF reconcileVolumeRestores, OnlyReads, OnlyClaims, Loop
<1>2. CASE Fail(h, "claim")
  BY <1>1, <1>2, FailInv DEF Loop, Errors
<1>3. CASE Goto(h, IF plan.foreign THEN "getSnapshot" ELSE "createClaim")
  BY <1>1, <1>3, LoopInv, ReadInv DEF Loop
<1>4. CASE NextVolume(h, ReadyWith(h, phase))
  <2> DEFINE ready == ReadyWith(h, phase)
  <2>1. ready \in BOOLEAN
    BY Zenon DEF ReadyWith
  <2>2. ready => job[h].ready /\ phase = "Bound"
    BY DEF ReadyWith
  <2>3. ready => job[h].ready /\ (~Withdrawn => Copied(plan.order[job[h].i]))
    BY <1>1, <2>2, VolumeFacts DEF IndInv, ClaimInv
  <2>4. \A v \in Volumes : Copied(v) => Copied(v)'
    BY <1>1 DEF Copied
  <2> HIDE DEF ready
  <2>5. NextVolume(h, ready)
    BY <1>4 DEF ready
  <2> QED BY <1>1, <2>1, <2>3, <2>4, <2>5, NextVolumeInv, ReadInv
<1> QED BY <1>2, <1>3, <1>4 DEF reconcileVolumeRestores

\* A new claim: it has the data of its disk, and no claim goes back.
LEMMA CreateClaimInv ==
  ASSUME IndInv, NEW h \in Handlers, createRestoredPVC(h)
  PROVE  IndInv' /\ Onward
<1> USE DEF createRestoredPVC, OnlyClaims, restore, machine
<1>1. job[h].pc \in Loop /\ job[h].pc \notin {"idle", "remove"}
  BY DEF Loop
<1>2. CASE Fail(h, "claim") /\ UNCHANGED <<claim, source>>
  BY <1>1, <1>2, FailInv DEF Errors, OnlyReads
<1>3. CASE /\ claim[VolumeOf(h)] = "none"
           /\ claim' = [claim EXCEPT ![VolumeOf(h)] = "Pending"]
           /\ source' = [source EXCEPT ![VolumeOf(h)] = BackupOf(h)]
           /\ NextVolume(h, FALSE)
  <2> DEFINE v == VolumeOf(h)
  <2>1. v \in Volumes /\ BackupOf(h) = v
    BY <1>1, VolumeFacts
  <2> HIDE DEF v
  <2>2. claim' = [claim EXCEPT ![v] = "Pending"] /\ source' = [source EXCEPT ![v] = v] /\ claim[v] = "none"
    BY <1>3, <2>1 DEF v
  <2>3. \A w \in Volumes : Copied(w) => Copied(w)'
    BY <2>1, <2>2 DEF Copied, IndInv, TypeOK
  <2>4. Withdrawn' = Withdrawn
    BY DEF Withdrawn
  <2>5. Onward
    BY <2>3, <2>4 DEF Onward
  <2>6. Moves(h) /\ JobInv(h)'
    BY <1>1, <1>3, <2>3, NextVolumeInv
  <2>7. \A g \in Handlers : g # h => Holds(g)
    BY DEF Holds
  <2>8. TypeOK'
    <3>1. v \in 0..NumVolumes
      BY <2>1, VolumesAssumption DEF Volumes
    <3>2. claim' \in [Volumes -> {"none", "Pending", "Bound", "Lost"}] /\ source' \in [Volumes -> 0..NumVolumes]
      BY <2>1, <2>2, <3>1 DEF IndInv, TypeOK
    <3> QED BY <2>6, <3>2 DEF IndInv, TypeOK, Moves
  <2>9. StoreInv' /\ MachineInv'
    BY DEF IndInv, StoreInv, MachineInv, Lists
  <2>10. ClaimInv'
    <3>1. \A w \in Volumes : claim'[w] # "none" => source'[w] = w
      BY <2>1, <2>2 DEF IndInv, TypeOK, ClaimInv
    <3> QED BY <2>3, <2>4, <3>1 DEF IndInv, ClaimInv
  <2> QED BY <2>5, <2>6, <2>7, <2>8, <2>9, <2>10, StepInv
<1> QED BY <1>2, <1>3

\* Contents and snapshots: nothing depends on them but where the loop goes.
LEMMA ContentStepInv ==
  ASSUME IndInv, NEW h \in Handlers, Moves(h), JobInv(h)', OnlyClaims, UNCHANGED <<claim, source>>,
         snapshot' \in [Volumes -> {"none", "new", "seen"}],
         content' \in [Volumes -> {"none", "new", "seen"}]
  PROVE  IndInv' /\ Onward
<1> USE DEF OnlyClaims, restore, machine
<1>1. Withdrawn' = Withdrawn /\ \A v \in Volumes : Copied(v)' = Copied(v)
  BY DEF Withdrawn, Copied
<1>2. Onward
  BY <1>1 DEF Onward
<1>3. \A g \in Handlers : g # h => Holds(g)
  BY DEF Holds
<1>4. TypeOK'
  BY DEF IndInv, TypeOK, Moves
<1>5. StoreInv' /\ MachineInv'
  BY DEF IndInv, StoreInv, MachineInv, Lists
<1>6. ClaimInv'
  BY <1>1 DEF IndInv, ClaimInv
<1> QED BY <1>2, <1>3, <1>4, <1>5, <1>6, StepInv

\* The loop's detour in another namespace.
LEMMA ContentInv ==
  ASSUME IndInv, NEW h \in Handlers,
         getOrCreateVolumeSnapshot(h) \/ createContent(h) \/ createSnapshot(h)
  PROVE  IndInv' /\ Onward
<1>1. job[h].pc \in Loop /\ job[h].pc \notin {"idle", "remove"} /\ OnlyClaims /\ UNCHANGED <<claim, source>>
  BY DEF getOrCreateVolumeSnapshot, createContent, createSnapshot, OnlyReads, Loop
<1>2. UNCHANGED <<plan, restore, claim>>
  BY <1>1 DEF OnlyClaims
<1>3. \E where \in Loop : Fail(h, "claim") \/ Goto(h, where)
  BY DEF getOrCreateVolumeSnapshot, createContent, createSnapshot, Loop
<1>4. Moves(h) /\ JobInv(h)'
  <2>1. CASE Fail(h, "claim")
    <3>1. Moves(h) /\ job'[h].pc = "error" /\ job'[h].res = job[h].res
      BY <2>1, FailFacts DEF IndInv, Errors
    <3> QED BY <1>1, <1>2, <3>1, ErrorInv DEF IndInv, restore
  <2>2. CASE \E where \in Loop : Goto(h, where)
    BY <1>1, <1>2, <2>2, LoopInv
  <2> QED BY <1>3, <2>1, <2>2
<1>5. /\ snapshot' \in [Volumes -> {"none", "new", "seen"}]
      /\ content' \in [Volumes -> {"none", "new", "seen"}]
  BY DEF getOrCreateVolumeSnapshot, createContent, createSnapshot, OnlyReads, IndInv, TypeOK
<1> QED BY <1>1, <1>4, <1>5, ContentStepInv

\* Contents are deleted one by one.
LEMMA RemoveInv ==
  ASSUME IndInv, NEW h \in Handlers, OnRestoreRemove(h)
  PROVE  IndInv' /\ Onward
<1>1. OnlyClaims /\ UNCHANGED <<claim, source, snapshot>>
  BY DEF OnRestoreRemove
<1>2. content' \in [Volumes -> {"none", "new", "seen"}]
  <2> DEFINE b == plan.order[job[h].i]
  <2>1. job[h].i \in Volumes /\ plan.order \in [Volumes -> Volumes]
    BY JobTypes, OrderFacts DEF IndInv, TypeOK, Plan
  <2>2. b \in Volumes
    BY <2>1
  <2>3. content' = [content EXCEPT ![b] = IF @ = "seen" THEN "none" ELSE @]
    BY DEF OnRestoreRemove
  <2> HIDE DEF b
  <2> QED BY <2>2, <2>3 DEF IndInv, TypeOK
<1>3. CASE Return(h, FALSE)
  <2>1. Moves(h) /\ JobInv(h)'
    BY <1>3, ReturnFacts, IdleInv DEF IndInv
  <2> QED BY <1>1, <1>2, <2>1, ContentStepInv DEF IndInv, TypeOK
<1>4. CASE job[h].i < NumVolumes /\ job' = [job EXCEPT ![h].i = job[h].i + 1] /\ pend' = pend
  <2> DEFINE j == [job[h] EXCEPT !.i = job[h].i + 1]
  <2>1. job[h] \in Job /\ job[h].i \in Volumes
    BY JobTypes DEF IndInv, TypeOK
  <2>2. job[h].i + 1 \in Volumes
    BY <1>4, <2>1, VolumesAssumption DEF Volumes
  <2>3. j \in Job /\ j.pc = job[h].pc /\ j.res = job[h].res
    BY <2>1, <2>2 DEF Job
  <2>4. job' = [job EXCEPT ![h] = j]
    BY <1>4
  <2> HIDE DEF j
  <2>5. Moves(h) /\ job'[h] = j
    BY <1>4, <2>3, <2>4 DEF IndInv, TypeOK, Moves
  <2>6. JobInv(h)'
    <3>1. j.pc = "remove" /\ j.res.vols \in Lists' /\ plan' = plan
      BY <1>1, <2>3 DEF OnRestoreRemove, OnlyClaims, IndInv, JobInv, Lists
    <3> QED BY <2>5, <3>1 DEF JobInv, Found, Loop, OnVM, AfterVM, AfterClaims
  <2> QED BY <1>1, <1>2, <2>5, <2>6, ContentStepInv DEF IndInv, TypeOK
<1> QED BY <1>3, <1>4 DEF OnRestoreRemove

----------------------------------------------------------------------------
(* The VM                                                                  *)

\* A step that leaves restore, claims and originals alone, and does not take the VM back.
MachineStep ==
  /\ UNCHANGED <<plan, backup, restore, claims, old>>
  /\ vm' \in VirtualMachine /\ vmCache' \in VirtualMachine
  /\ vmi' \in {"off", "asked", "old", "new"} /\ budget' \in 0..MaxDisturbances
  /\ vmCur' \subseteq Handlers \cup {"cache"}
  /\ vm.spec # "old" => vm'.spec # "old"
\* Such a step keeps the rest.
LEMMA MachineStepInv ==
  ASSUME IndInv, NEW h \in Handlers, MachineStep, Moves(h), MachineInv', JobInv(h)',
         \A g \in Handlers : g # h => (g \in vmCur' => g \in vmCur /\ vm' = vm)
  PROVE  IndInv' /\ Onward
<1> USE DEF MachineStep, restore, claims
<1>1. Withdrawn' = Withdrawn /\ \A v \in Volumes : Copied(v)' = Copied(v)
  BY DEF Withdrawn, Copied
<1>2. Onward
  BY <1>1 DEF Onward
<1>3. \A g \in Handlers : g # h => Holds(g)
  BY DEF Holds
<1>4. TypeOK'
  BY DEF IndInv, TypeOK, Moves
<1>5. StoreInv'
  BY DEF IndInv, StoreInv, Lists
<1>6. ClaimInv'
  BY <1>1 DEF IndInv, ClaimInv
<1> QED BY <1>2, <1>3, <1>4, <1>5, <1>6, StepInv

\* The VM is read: absent, to be updated or already switched.
LEMMA GetVMInv ==
  ASSUME IndInv, NEW h \in Handlers, getVM(h)
  PROVE  IndInv' /\ Onward
<1> USE DEF restore, claims
<1> DEFINE where == IF ~vmCache.there THEN "createVM" ELSE IF vmCache.last THEN "secrets" ELSE "updateVM"
           j == [job[h] EXCEPT !.vm = vmCache, !.pc = where]
<1>1. job[h] \in Job /\ vmCache \in VirtualMachine
  BY DEF IndInv, TypeOK
<1>2. j \in Job /\ j.pc = where /\ j.vm = vmCache /\ j.res = job[h].res /\ j.ready = job[h].ready
      /\ j.i = job[h].i
  BY <1>1 DEF Job
<1>3. /\ job' = [job EXCEPT ![h] = j] /\ pend' = pend
      /\ UNCHANGED <<plan, backup, restore, vm, vmCache, vmi, claims, old, budget>>
  BY DEF getVM
<1> HIDE DEF j
<1>4. Moves(h) /\ job'[h] = j
  BY <1>2, <1>3 DEF IndInv, TypeOK, Moves
<1>5. /\ h \in vmCur' => "cache" \in vmCur
      /\ "cache" \in vmCur' <=> "cache" \in vmCur
      /\ \A g \in Handlers : g # h => (g \in vmCur' => g \in vmCur)
      /\ vmCur' \subseteq Handlers \cup {"cache"}
  BY CallsAssumption DEF getVM, Handlers, IndInv, TypeOK
<1>6. MachineStep /\ MachineInv'
  BY <1>3, <1>5 DEF IndInv, TypeOK, MachineStep, MachineInv
<1>7. JobInv(h)'
  <2>1. Withdrawn' = Withdrawn /\ AllCopied' = AllCopied
    BY <1>3 DEF Withdrawn, Copied, AllCopied
  <2>2. ~Withdrawn' => Found(h)'
    BY <1>2, <1>4, <2>1 DEF getVM, IndInv, JobInv, Found, OnVM, Loop, AfterClaims
  <2>3. j.pc = "updateVM" => ~j.vm.last /\ (h \in vmCur' => j.vm = vm')
    BY <1>2, <1>3, <1>5 DEF IndInv, MachineInv
  <2>4. j.pc \in AfterVM => vm'.spec # "old"
    BY <1>2, <1>3 DEF IndInv, MachineInv, AfterVM
  <2>5. j.pc \notin {"cleanup", "complete", "idle", "remove"} /\ j.pc \notin Loop
    BY <1>2 DEF Loop
  <2>6. j.res.vols \in Lists' /\ (h \in resCur' => j.res = res') /\ j.i = 1
    BY <1>2, <1>3 DEF getVM, IndInv, JobInv, Lists, OnVM
  <2> QED BY <1>4, <2>2, <2>3, <2>4, <2>5, <2>6 DEF JobInv
<1> QED BY <1>3, <1>4, <1>5, <1>6, <1>7, MachineStepInv

\* Create and Update of the VM: it is marked with the restore and is not taken back.
LEMMA WriteVMInv ==
  ASSUME IndInv, NEW h \in Handlers, NEW allowed, NEW new \in VirtualMachine,
         WriteVM(h, allowed, new), job[h].pc \in {"createVM", "updateVM"},
         new.spec = "restored", new.last, new.there
  PROVE  IndInv' /\ Onward
<1> USE DEF WriteVM, restore, claims
<1>1. CASE Fail(h, "vm") /\ UNCHANGED <<vm, vmCur>>
  <2>1. OnlyReads
    BY <1>1 DEF OnlyReads, OnlyClaims, machine
  <2> QED BY <1>1, <2>1, FailInv DEF Errors
<1>2. CASE vm' = new /\ vmCur' = {} /\ Goto(h, "readVM")
  <2>1. /\ Moves(h) /\ job'[h].pc = "readVM" /\ job'[h].res = job[h].res
        /\ job'[h].ready = job[h].ready /\ job'[h].i = job[h].i
    BY <1>2, GotoFacts DEF IndInv, Places, OnVM
  <2>2. MachineStep /\ MachineInv'
    BY <1>2 DEF IndInv, TypeOK, MachineStep, MachineInv
  <2>3. JobInv(h)'
    <3>1. Withdrawn' = Withdrawn /\ AllCopied' = AllCopied
      BY DEF Withdrawn, Copied, AllCopied
    <3>2. ~Withdrawn' => Found(h)'
      BY <2>1, <3>1 DEF IndInv, JobInv, Found, OnVM, Loop, AfterClaims
    <3> QED BY <1>2, <2>1, <3>2 DEF IndInv, JobInv, Lists, Loop, OnVM
  <2> QED BY <1>2, <2>1, <2>2, <2>3, MachineStepInv
<1> QED BY <1>1, <1>2

\* Both writes of the VM are such writes.
LEMMA CreateOrUpdateInv ==
  ASSUME IndInv, NEW h \in Handlers, createNewVM(h) \/ updateVM(h)
  PROVE  IndInv' /\ Onward
<1>1. NoVM \in VirtualMachine /\ job[h].vm \in VirtualMachine /\ plan \in Plan
  BY NoneTypes, JobTypes DEF IndInv, TypeOK
<1>2. CASE createNewVM(h)
  <2> DEFINE n == RestoredVM(NoVM)
  <2>1. n \in VirtualMachine /\ n.spec = "restored" /\ n.last /\ n.there
    BY <1>1, MachineTypes
  <2>2. WriteVM(h, ~vm.there, n) /\ job[h].pc = "createVM"
    BY <1>2 DEF createNewVM
  <2> HIDE DEF n
  <2> QED BY <2>1, <2>2, WriteVMInv
<1>3. CASE updateVM(h)
  <2> DEFINE n == RestoredVM(job[h].vm)
  <2>1. n \in VirtualMachine /\ n.spec = "restored" /\ n.last /\ n.there
    BY <1>1, MachineTypes
  <2>2. WriteVM(h, h \in vmCur, n) /\ job[h].pc = "updateVM"
    BY <1>3 DEF updateVM
  <2> HIDE DEF n
  <2> QED BY <2>1, <2>2, WriteVMInv
<1> QED BY <1>2, <1>3

\* The VM is read again after it was written.
LEMMA ReadVMInv ==
  ASSUME IndInv, NEW h \in Handlers, readVM(h)
  PROVE  IndInv' /\ Onward
<1>1. CASE Fail(h, "vm")
  BY <1>1, FailInv DEF readVM, Errors
<1>2. CASE job' = [job EXCEPT ![h].vm = vmCache, ![h].pc = "secrets"] /\ UNCHANGED pend
  <2> DEFINE j == [job[h] EXCEPT !.vm = vmCache, !.pc = "secrets"]
  <2>1. job[h] \in Job /\ vmCache \in VirtualMachine
    BY DEF IndInv, TypeOK
  <2>2. j \in Job /\ j.pc = "secrets" /\ j.res = job[h].res /\ j.ready = job[h].ready
        /\ j.i = job[h].i
    BY <2>1 DEF Job
  <2>3. job' = [job EXCEPT ![h] = j] /\ pend' = pend
    BY <1>2
  <2> HIDE DEF j
  <2>4. Moves(h) /\ job'[h] = j
    BY <2>2, <2>3 DEF IndInv, TypeOK, Moves
  <2>5. JobInv(h)'
    <3> USE DEF readVM, OnlyReads, OnlyClaims, restore, machine
    <3>1. Withdrawn' = Withdrawn /\ AllCopied' = AllCopied
      BY DEF Withdrawn, Copied, AllCopied
    <3>2. ~Withdrawn' => Found(h)'
      BY <2>2, <2>4, <3>1 DEF IndInv, JobInv, Found, OnVM, Loop, AfterClaims
    <3>3. vm'.spec # "old"
      BY DEF IndInv, JobInv, AfterVM
    <3> QED BY <2>2, <2>4, <3>2, <3>3 DEF IndInv, JobInv, Lists, Loop, OnVM
  <2> QED BY <2>4, <2>5, ReadInv DEF readVM
<1> QED BY <1>1, <1>2 DEF readVM

\* From the secrets on, only a handler that found all claims bound goes to the start.
LEMMA SecretsInv ==
  ASSUME IndInv, NEW h \in Handlers, reconcileSecretBackups(h)
  PROVE  IndInv' /\ Onward
<1> DEFINE where == AfterSecrets(job[h])
           j == [job[h] EXCEPT !.pc = where, !.ready = TRUE, !.vm = IF where = "start" THEN @ ELSE NoVM]
<1>1. job[h] \in Job
  BY DEF IndInv, TypeOK
<1>2. where \in {"owner", "creating", "start"} /\ (where = "start" => job[h].ready)
  BY DEF AfterSecrets
<1>3. j \in Job /\ j.pc = where /\ j.res = job[h].res /\ j.i = job[h].i
  BY <1>1, <1>2, NoneTypes DEF Job
<1>4. job' = [job EXCEPT ![h] = j] /\ pend' = pend /\ OnlyReads /\ job[h].pc = "secrets"
  BY DEF reconcileSecretBackups, OnlyReads, OnlyClaims, claims
<1> HIDE DEF j, where
<1>5. Moves(h) /\ job'[h] = j
  BY <1>3, <1>4 DEF IndInv, TypeOK, Moves
<1>6. JobInv(h)'
  <2> USE <1>4 DEF OnlyReads, OnlyClaims, restore, machine
  <2>1. Withdrawn' = Withdrawn /\ AllCopied' = AllCopied
    BY DEF Withdrawn, Copied, AllCopied
  <2>2. ~Withdrawn' => Found(h)'
    BY <1>2, <1>3, <1>5, <2>1 DEF IndInv, JobInv, Found, OnVM, Loop, AfterClaims
  <2>3. vm'.spec # "old" /\ j.res.vols \in Lists' /\ (h \in resCur' => j.res = res') /\ j.i = 1
    BY <1>3 DEF IndInv, JobInv, AfterVM, Lists, OnVM
  <2> QED BY <1>2, <1>3, <1>5, <2>2, <2>3 DEF JobInv, Loop, OnVM
<1> QED BY <1>4, <1>5, <1>6, ReadInv

\* Asking KubeVirt to start the VM does not take it back.
LEMMA AskToStartFacts ==
  ASSUME IndInv, AskToStart
  PROVE  /\ vm' \in VirtualMachine /\ vmi' \in {"off", "asked", "old", "new"}
         /\ vm'.spec = vm.spec /\ vm'.last = vm.last /\ vm'.there = vm.there
         /\ vmCur' = {} \/ (vmCur' = vmCur /\ vm' = vm)
<1>1. vm \in VirtualMachine /\ plan \in Plan /\ vmi \in {"off", "asked", "old", "new"}
  BY DEF IndInv, TypeOK
<1>2. CASE vm' = [vm EXCEPT !.strategy = "Always"] /\ vmCur' = {} /\ UNCHANGED vmi
  <2>1. vm' \in VirtualMachine
    BY <1>1, <1>2, MachineTypes
  <2>2. vm'.spec = vm.spec /\ vm'.last = vm.last /\ vm'.there = vm.there
    BY <1>1, <1>2 DEF VirtualMachine
  <2> QED BY <1>1, <1>2, <2>1, <2>2
<1>3. CASE vmi' = "asked" /\ UNCHANGED <<vm, vmCur>>
  BY <1>1, <1>3
<1> QED BY <1>2, <1>3 DEF AskToStart

\* Starting the VM, and what comes next.
LEMMA StartInv ==
  ASSUME IndInv, NEW h \in Handlers, startVM(h)
  PROVE  IndInv' /\ Onward
<1> USE DEF restore, claims
<1> DEFINE where == AfterStart(job[h])
           j == [job[h] EXCEPT !.pc = where, !.vm = NoVM]
<1>0. /\ UNCHANGED <<plan, backup, restore, vmCache, claims, old, budget>> /\ job[h].pc = "start"
      /\ \/ job' = [job EXCEPT ![h] = j] /\ pend' = pend /\ UNCHANGED <<vm, vmCur, vmi>>
         \/ job' = [job EXCEPT ![h] = j] /\ pend' = pend /\ AskToStart
         \/ Fail(h, "start") /\ UNCHANGED <<vm, vmCur, vmi>>
  BY DEF startVM
<1>1. CASE Fail(h, "start") /\ UNCHANGED <<vm, vmCur, vmi>>
  <2>1. OnlyReads
    BY <1>0, <1>1 DEF OnlyReads, OnlyClaims, machine
  <2> QED BY <1>0, <1>1, <2>1, FailInv DEF Errors
<1>2. CASE job' = [job EXCEPT ![h] = j] /\ pend' = pend /\ (UNCHANGED <<vm, vmCur, vmi>> \/ AskToStart)
  <2>1. job[h] \in Job /\ job[h].i \in Volumes
    BY JobTypes DEF IndInv, TypeOK
  <2>2. /\ where \in {"waiting", "complete", "cleanup"}
        /\ where = "complete" => Keep
        /\ where = "cleanup" => ~Keep
    <3>1. 1 \in Volumes
      BY VolumesAssumption DEF Volumes
    <3> QED BY <3>1 DEF AfterStart, DeletedVolumes, Keep
  <2>3. j \in Job /\ j.pc = where /\ j.res = job[h].res /\ j.i = job[h].i
    BY <2>1, <2>2, NoneTypes DEF Job
  <2> HIDE DEF j, where
  <2>4. Moves(h) /\ job'[h] = j
    BY <1>2, <2>3 DEF IndInv, TypeOK, Moves
  <2>5. /\ vm' \in VirtualMachine /\ vmi' \in {"off", "asked", "old", "new"}
        /\ vm'.spec = vm.spec /\ vm'.last = vm.last /\ vm'.there = vm.there
        /\ vmCur' = {} \/ (vmCur' = vmCur /\ vm' = vm)
    BY <1>2, AskToStartFacts DEF IndInv, TypeOK
  <2>6. MachineStep /\ MachineInv'
    <3>1. MachineStep
      BY <1>0, <2>5 DEF IndInv, TypeOK, MachineStep
    <3> QED BY <1>0, <2>5, <3>1 DEF IndInv, MachineInv
  <2>7. JobInv(h)'
    <3>1. Withdrawn' = Withdrawn /\ AllCopied' = AllCopied
      BY <1>0 DEF Withdrawn, Copied, AllCopied
    <3>2. ~Withdrawn' => Found(h)'
      BY <1>0, <2>2, <2>3, <2>4, <3>1 DEF IndInv, JobInv, Found, OnVM, Loop, AfterClaims
    <3>3. vm'.spec # "old" /\ j.res.vols \in Lists' /\ (h \in resCur' => j.res = res')
      BY <1>0, <2>3, <2>5 DEF IndInv, JobInv, AfterVM, Lists
    <3>4. Keep' = Keep /\ old' = old
      BY <1>0 DEF Keep, isNewVMOrHasRetainPolicy
    <3>5. \A v \in Volumes : ~(v < j.i)
      BY <1>0, <2>3, VolumesAssumption DEF IndInv, JobInv, Volumes
    <3> QED BY <2>2, <2>3, <2>4, <3>2, <3>3, <3>4, <3>5 DEF JobInv, Loop, OnVM
  <2>8. \A g \in Handlers : g # h => (g \in vmCur' => g \in vmCur /\ vm' = vm)
    BY <2>5
  <2> QED BY <2>4, <2>6, <2>7, <2>8, MachineStepInv
<1> QED BY <1>0, <1>1, <1>2

\* The clean-up has the originals before its index gone or going.
LEMMA CleanUpInv ==
  ASSUME IndInv, NEW h \in Handlers, deleteOldPVC(h)
  PROVE  IndInv' /\ Onward
<1> USE DEF restore, machine, claims
<1> DEFINE v == job[h].i
           j == [job[h] EXCEPT !.pc = IF v < NumVolumes THEN "cleanup" ELSE "complete",
                               !.i = IF v < NumVolumes THEN v + 1 ELSE 1]
<1>0. /\ job[h].pc = "cleanup" /\ UNCHANGED <<plan, backup, restore, machine, vmi, claims, budget>>
      /\ \/ /\ old' = [old EXCEPT ![v] = "deleting"]
            /\ job' = [job EXCEPT ![h] = j] /\ pend' = pend
         \/ Fail(h, "cleanup") /\ old' = old
  BY DEF deleteOldPVC
<1>1. CASE Fail(h, "cleanup") /\ old' = old
  <2>1. OnlyReads
    BY <1>0, <1>1 DEF OnlyReads, OnlyClaims
  <2> QED BY <1>0, <1>1, <2>1, FailInv DEF Errors
<1>2. CASE /\ old' = [old EXCEPT ![v] = "deleting"]
           /\ job' = [job EXCEPT ![h] = j] /\ pend' = pend
  <2>1. job[h] \in Job /\ v \in Volumes /\ 1 \in Volumes
    BY JobTypes, VolumesAssumption DEF IndInv, TypeOK, Volumes
  <2>2. (v < NumVolumes => v + 1 \in Volumes) /\ (~(v < NumVolumes) => v = NumVolumes)
    BY <2>1, VolumesAssumption DEF Volumes
  <2>3. j \in Job /\ j.res = job[h].res
    BY <2>1, <2>2 DEF Job
  <2>4. \/ v < NumVolumes /\ j.i = v + 1 /\ j.pc = "cleanup"
        \/ v = NumVolumes /\ j.pc = "complete"
    BY <2>1, <2>2 DEF Job
  <2> HIDE DEF j, v
  <2>5. Moves(h) /\ job'[h] = j
    BY <1>2, <2>3 DEF IndInv, TypeOK, Moves
  <2>6. \A w \in Volumes : old[w] # "live" \/ w = v => old'[w] # "live"
    BY <1>2, <2>1 DEF IndInv, TypeOK
  <2>7. Withdrawn' = Withdrawn /\ AllCopied' = AllCopied /\ \A w \in Volumes : Copied(w)' = Copied(w)
    BY <1>0 DEF Withdrawn, Copied, AllCopied
  <2>8. Onward
    BY <1>0, <2>6, <2>7 DEF Onward
  <2>9. \A g \in Handlers : g # h => Holds(g)
    BY <1>0 DEF Holds
  <2>10. TypeOK'
    <3>1. old' \in [Volumes -> {"live", "deleting", "gone"}]
      BY <1>2, <2>1 DEF IndInv, TypeOK
    <3> QED BY <1>0, <2>5, <3>1 DEF IndInv, TypeOK, Moves
  <2>11. StoreInv' /\ MachineInv'
    BY <1>0 DEF IndInv, StoreInv, MachineInv, Lists
  <2>12. ClaimInv'
    BY <1>0, <2>7 DEF IndInv, ClaimInv
  <2>13. JobInv(h)'
    <3>1. ~Keep /\ \A w \in Volumes : w < v => old[w] # "live"
      BY <1>0 DEF IndInv, JobInv, v
    <3>2. j.pc = "cleanup" => ~Keep' /\ \A w \in Volumes : w < j.i => old'[w] # "live"
      <4>1. j.pc = "cleanup" => \A w \in Volumes : w < j.i => w < v \/ w = v
        BY <2>1, <2>4 DEF Volumes
      <4> QED BY <1>0, <2>6, <3>1, <4>1 DEF Keep, isNewVMOrHasRetainPolicy
    <3>3. j.pc = "complete" => AllRemoved'
      <4>1. v = NumVolumes => \A w \in Volumes : w < v \/ w = v
        BY VolumesAssumption DEF Volumes
      <4> QED BY <2>4, <2>6, <3>1, <4>1 DEF AllRemoved
    <3>4. ~Withdrawn' => Found(h)'
      BY <1>0, <2>4, <2>5, <2>7 DEF IndInv, JobInv, Found, OnVM, Loop, AfterClaims
    <3>5. vm'.spec # "old" /\ j.res.vols \in Lists' /\ (h \in resCur' => j.res = res')
      BY <1>0, <2>3 DEF IndInv, JobInv, AfterVM, Lists
    <3> QED BY <2>4, <2>5, <3>2, <3>3, <3>4, <3>5 DEF JobInv, Loop, OnVM
  <2> QED BY <2>5, <2>8, <2>9, <2>10, <2>11, <2>12, <2>13, StepInv
<1> QED BY <1>0, <1>1, <1>2

----------------------------------------------------------------------------
(* The others                                                              *)

\* A step of no handler.
LEMMA OutsideInv ==
  ASSUME IndInv, Onward, \A g \in Handlers : Spared(g), TypeOK', StoreInv', MachineInv', ClaimInv'
  PROVE  IndInv'
  BY SparedInv DEF IndInv, TypeOK

\* A disturbance uses up one of those allowed.
LEMMA DisturbFacts ==
  ASSUME TypeOK, NEW kind, Disturb(kind)
  PROVE  budget' \in 0..MaxDisturbances
  BY BoundAssumption DEF TypeOK, Disturb

\* A call that fails leaves only the handler changed.
LEMMA CallFailsInv ==
  ASSUME IndInv, NEW h \in Handlers, CallFails(h)
  PROVE  IndInv' /\ Onward
<1> USE DEF restore, machine, claims
<1>1. /\ UNCHANGED <<plan, backup, restore, machine, vmi, claims, old>> /\ job[h].pc # "idle"
      /\ budget' \in 0..MaxDisturbances
  BY DisturbFacts DEF CallFails, IndInv
<1>2. Moves(h) /\ JobInv(h)'
  <2>1. CASE job[h].pc \in DOMAIN ErrorAt /\ Fail(h, ErrorAt[job[h].pc])
    <3>1. ErrorAt[job[h].pc] \in Errors /\ job[h].pc \notin {"idle", "remove"}
      BY <2>1 DEF ErrorAt, Errors
    <3>2. Moves(h) /\ job'[h].pc = "error" /\ job'[h].res = job[h].res
      BY <2>1, <3>1, FailFacts DEF IndInv
    <3> QED BY <1>1, <3>1, <3>2, ErrorInv DEF IndInv
  <2>2. CASE Return(h, TRUE)
    BY <2>2, ReturnFacts, IdleInv DEF IndInv
  <2> QED BY <2>1, <2>2 DEF CallFails
<1>3. MachineStep /\ MachineInv'
  BY <1>1 DEF IndInv, TypeOK, MachineStep, MachineInv
<1> QED BY <1>1, <1>2, <1>3, MachineStepInv

\* Every step of a handler.
LEMMA HandlerInv ==
  ASSUME IndInv, NEW h \in Handlers, Handle(h) \/ CallFails(h)
  PROVE  IndInv' /\ Onward
  BY ReconcileInv, StatusInv, MountInv, VolumeRestoresInv, CreateClaimInv, ContentInv, GetVMInv,
     CreateOrUpdateInv, ReadVMInv, SecretsInv, StartInv, CleanUpInv, RemoveInv, CallFailsInv
  DEF Handle

\* Caches catch up and handlers become due.
LEMMA InformersInv ==
  ASSUME IndInv, Informers \/ Resync
  PROVE  IndInv' /\ Onward
<1> USE DEF restore, machine, claims
<1>1. ASSUME UNCHANGED <<plan, backup, res, vm, vmi, claim, source, old, job, budget>>,
             pend' \subseteq Handlers, TypeOK', StoreInv', MachineInv', ClaimInv',
             resCur' \subseteq resCur \cup {"cache"}, vmCur' \subseteq vmCur \cup {"cache"}
      PROVE  IndInv' /\ Onward
  <2>1. Withdrawn' = Withdrawn /\ \A v \in Volumes : Copied(v)' = Copied(v)
    BY <1>1 DEF Withdrawn, Copied
  <2>2. Onward
    BY <1>1, <2>1 DEF Onward
  <2>3. \A g \in Handlers : Spared(g)
    BY <1>1, CallsAssumption DEF Spared, Handlers
  <2> QED BY <1>1, <2>2, <2>3, OutsideInv
<1>2. CASE RestoreWatch
  <2>1. TypeOK' /\ pend' \subseteq Handlers
    BY <1>2 DEF IndInv, TypeOK, RestoreWatch, Handlers
  <2>2. StoreInv' /\ MachineInv' /\ ClaimInv'
    BY <1>2 DEF IndInv, StoreInv, MachineInv, ClaimInv, RestoreWatch, Lists, Withdrawn, Copied
  <2> QED BY <1>1, <1>2, <2>1, <2>2 DEF RestoreWatch
<1>3. CASE VMReconcile
  <2>1. PICK called \in CalledFor(vm) : pend' = pend \cup called
    BY <1>3 DEF VMReconcile
  <2>2. called \subseteq Handlers
    BY <2>1 DEF CalledFor, Handlers
  <2>3. TypeOK' /\ pend' \subseteq Handlers
    BY <1>3, <2>1, <2>2 DEF IndInv, TypeOK, VMReconcile
  <2>4. StoreInv' /\ ClaimInv'
    BY <1>3 DEF IndInv, StoreInv, ClaimInv, VMReconcile, Lists, Withdrawn, Copied
  <2>5. MachineInv'
    BY <1>3 DEF IndInv, MachineInv, VMReconcile
  <2> QED BY <1>1, <1>3, <2>3, <2>4, <2>5 DEF VMReconcile
<1>4. ASSUME NEW v \in Volumes, PVCReconcile(v) PROVE IndInv' /\ Onward
  <2>1. TypeOK' /\ pend' \subseteq Handlers
    BY <1>4 DEF IndInv, TypeOK, PVCReconcile, Handlers
  <2>2. StoreInv' /\ MachineInv'
    BY <1>4 DEF IndInv, StoreInv, MachineInv, PVCReconcile, Lists
  <2>3. ClaimInv'
    BY <1>4 DEF IndInv, TypeOK, ClaimInv, PVCReconcile, Withdrawn, Copied
  <2> QED BY <1>1, <1>4, <2>1, <2>2, <2>3 DEF PVCReconcile
<1>5. ASSUME NEW v \in Volumes, SnapshotWatch(v) PROVE IndInv' /\ Onward
  <2>1. TypeOK' /\ pend' \subseteq Handlers
    BY <1>5 DEF IndInv, TypeOK, SnapshotWatch
  <2>2. StoreInv' /\ MachineInv' /\ ClaimInv'
    BY <1>5 DEF IndInv, StoreInv, MachineInv, ClaimInv, SnapshotWatch, Lists, Withdrawn, Copied
  <2> QED BY <1>1, <1>5, <2>1, <2>2 DEF SnapshotWatch
<1>6. CASE Resync
  <2>1. TypeOK' /\ pend' \subseteq Handlers
    BY <1>6 DEF IndInv, TypeOK, Resync
  <2>2. StoreInv' /\ MachineInv' /\ ClaimInv'
    BY <1>6 DEF IndInv, StoreInv, MachineInv, ClaimInv, Resync, Lists, Withdrawn, Copied
  <2> QED BY <1>1, <1>6, <2>1, <2>2 DEF Resync
<1> QED BY <1>2, <1>3, <1>4, <1>5, <1>6 DEF Informers

\* After a restart the handlers know nothing and the caches everything.
LEMMA CrashInv ==
  ASSUME IndInv, Crash
  PROVE  IndInv' /\ Onward
<1>1. /\ job' = [h \in Handlers |-> Idle] /\ pend' = Handlers
      /\ resCache' = res /\ resCur' = {"cache"} /\ vmCache' = vm /\ vmCur' = {"cache"}
      /\ claimSeen' = claim
      /\ UNCHANGED <<plan, backup, res, vm, vmi, claim, source, old>>
  BY DEF Crash
<1>2. Withdrawn' = Withdrawn /\ \A v \in Volumes : Copied(v)' = Copied(v)
  BY <1>1 DEF Withdrawn, Copied
<1>3. Onward
  BY <1>1, <1>2 DEF Onward
<1>4. \A h \in Handlers : JobInv(h)'
  BY <1>1, IdleInv
<1>5. TypeOK'
  <2>1. snapshot' \in [Volumes -> {"none", "new", "seen"}] /\ content' \in [Volumes -> {"none", "new", "seen"}]
    BY DEF Crash, IndInv, TypeOK
  <2>2. budget' \in 0..MaxDisturbances
    BY DisturbFacts DEF Crash, IndInv
  <2> QED BY <1>1, <2>1, <2>2, NoneTypes DEF IndInv, TypeOK
<1>6. StoreInv' /\ MachineInv'
  BY <1>1 DEF IndInv, StoreInv, MachineInv, Lists
<1>7. ClaimInv'
  BY <1>1, <1>2 DEF IndInv, ClaimInv, Copied
<1> QED BY <1>3, <1>4, <1>5, <1>6, <1>7 DEF IndInv

\* Claims and snapshots change: forward while the restore is wanted.
LEMMA ClusterClaimsInv ==
  ASSUME IndInv, NEW v \in Volumes,
         ClaimBound(v) \/ ClaimLost(v) \/ Collect(v) \/ OldClaimGone(v)
  PROVE  IndInv' /\ Onward
<1> USE DEF restore, machine, claims
<1>1. /\ UNCHANGED <<plan, backup, restore, machine, vmi, source, job, pend, claimSeen>>
      /\ budget' \in 0..MaxDisturbances
  BY DisturbFacts DEF ClaimBound, ClaimLost, Collect, OldClaimGone, ClaimChange,
                      IndInv, TypeOK
<1>2. /\ claim' \in [Volumes -> {"none", "Pending", "Bound", "Lost"}]
      /\ snapshot' \in [Volumes -> {"none", "new", "seen"}] /\ content' = content
      /\ old' \in [Volumes -> {"live", "deleting", "gone"}]
  BY DEF ClaimBound, ClaimLost, Collect, OldClaimGone, ClaimChange, IndInv, TypeOK
<1>3. Withdrawn' = Withdrawn
  BY <1>1 DEF Withdrawn
<1>4. ~Withdrawn => \A w \in Volumes : Copied(w) => Copied(w)'
  BY DEF ClaimBound, ClaimLost, Collect, OldClaimGone, ClaimChange, IndInv, TypeOK, Copied
<1>5. \A w \in Volumes : (old[w] # "live" => old'[w] # "live") /\ (claim'[w] # "none" => claim[w] # "none")
  BY DEF ClaimBound, ClaimLost, Collect, OldClaimGone, ClaimChange, IndInv, TypeOK
<1>6. Onward
  BY <1>1, <1>3, <1>4, <1>5 DEF Onward
<1>7. \A g \in Handlers : Spared(g)
  BY <1>1 DEF Spared
<1>8. TypeOK'
  BY <1>1, <1>2 DEF IndInv, TypeOK
<1>9. StoreInv' /\ MachineInv'
  BY <1>1 DEF IndInv, StoreInv, MachineInv, Lists
<1>10. ClaimInv'
  BY <1>1, <1>3, <1>4, <1>5 DEF IndInv, ClaimInv
<1> QED BY <1>6, <1>7, <1>8, <1>9, <1>10, OutsideInv

\* KubeVirt and users change the VM.
LEMMA ClusterMachineInv ==
  ASSUME IndInv, BackupReady \/ KubeVirtStart \/ KubeVirtStatus \/ StartByUser \/ EditVM
  PROVE  IndInv' /\ Onward
<1> USE DEF restore, machine, claims
<1>1. /\ UNCHANGED <<plan, restore, vmCache, claims, old, pend, job>>
      /\ backup' \in BOOLEAN
  BY DEF BackupReady, KubeVirtStart, KubeVirtStatus, StartByUser, EditVM, IndInv, TypeOK
<1>2. budget' \in 0..MaxDisturbances
  BY DisturbFacts DEF BackupReady, KubeVirtStart, KubeVirtStatus, StartByUser, EditVM, IndInv, TypeOK
<1>3. /\ vm' \in VirtualMachine /\ vmi' \in {"off", "asked", "old", "new"}
      /\ vm'.last = vm.last /\ vm'.there = vm.there /\ (vm'.spec = "old" <=> vm.spec = "old")
      /\ vmCur' = {} \/ (vmCur' = vmCur /\ vm' = vm)
  <2>1. vm \in VirtualMachine /\ plan \in Plan /\ vmi \in {"off", "asked", "old", "new"}
    BY DEF IndInv, TypeOK
  <2>2. CASE BackupReady \/ KubeVirtStart
    BY <2>1, <2>2 DEF BackupReady, KubeVirtStart
  <2>3. CASE KubeVirtStatus
    <3>1. vm' = [vm EXCEPT !.ready = ~@] /\ vmCur' = {} /\ vmi' = vmi
      BY <2>3 DEF KubeVirtStatus
    <3>2. vm' \in VirtualMachine
      BY <2>1, <3>1, MachineTypes
    <3>3. vm'.last = vm.last /\ vm'.there = vm.there /\ vm'.spec = vm.spec
      BY <2>1, <3>1 DEF VirtualMachine
    <3> QED BY <2>1, <3>1, <3>2, <3>3
  <2>4. CASE StartByUser
    BY <2>4, AskToStartFacts DEF StartByUser
  <2>5. CASE EditVM
    <3>1. vm' = [vm EXCEPT !.spec = "edited"] /\ vmCur' = {} /\ vmi' = vmi /\ vm.spec = "restored"
      BY <2>5 DEF EditVM
    <3>2. vm' \in VirtualMachine
      BY <2>1, <3>1, MachineTypes
    <3>3. vm'.last = vm.last /\ vm'.there = vm.there /\ vm'.spec = "edited"
      BY <2>1, <3>1 DEF VirtualMachine
    <3> QED BY <2>1, <3>1, <3>2, <3>3
  <2> QED BY <2>2, <2>3, <2>4, <2>5
<1>4. Withdrawn' = Withdrawn /\ \A v \in Volumes : Copied(v)' = Copied(v)
  BY <1>1 DEF Withdrawn, Copied
<1>5. Onward
  BY <1>1, <1>3, <1>4 DEF Onward
<1>6. \A g \in Handlers : Spared(g)
  BY <1>1, <1>3 DEF Spared
<1>7. TypeOK'
  <2>1. vmCur' \subseteq Handlers \cup {"cache"}
    BY <1>3 DEF IndInv, TypeOK
  <2> QED BY <1>1, <1>2, <1>3, <2>1 DEF IndInv, TypeOK
<1>8. StoreInv' /\ ClaimInv'
  BY <1>1, <1>4 DEF IndInv, StoreInv, ClaimInv, Lists
<1>9. MachineInv'
  BY <1>1, <1>3 DEF IndInv, MachineInv
<1> QED BY <1>5, <1>6, <1>7, <1>8, <1>9, OutsideInv

\* The restore is deleted, and goes.
LEMMA WithdrawInv ==
  ASSUME IndInv, CollectRestore \/ \E f \in BOOLEAN : DeleteRestore(f)
  PROVE  IndInv' /\ Onward /\ Withdrawn'
<1> USE DEF machine, claims
<1>1. /\ UNCHANGED <<plan, backup, resCache, machine, vmi, claims, old, pend, job>> /\ resCur' = {}
      /\ res' = NoRestore \/ res' = [res EXCEPT !.deleting = TRUE]
  BY DEF CollectRestore, DeleteRestore
<1>2. budget' \in 0..MaxDisturbances
  BY DisturbFacts DEF CollectRestore, DeleteRestore, IndInv, TypeOK
<1>3. res' \in Restore /\ res'.vols \in Lists /\ (~res'.there \/ res'.deleting)
  <2>1. CASE res' = NoRestore
    BY <2>1, NoneTypes DEF Lists, NoRestore, NewRestore
  <2>2. CASE res' = [res EXCEPT !.deleting = TRUE]
    <3>1. res \in Restore /\ res.vols \in Lists
      BY DEF IndInv, TypeOK, StoreInv
    <3>2. res' \in Restore
      BY <2>2, <3>1, RestoreTypes
    <3>3. res'.vols = res.vols /\ res'.deleting
      BY <2>2, <3>1 DEF Restore
    <3> QED BY <3>1, <3>2, <3>3
  <2> QED BY <1>1, <2>1, <2>2
<1>4. Withdrawn'
  BY <1>3 DEF Withdrawn
<1>5. Onward
  BY <1>1, <1>4 DEF Onward
<1>6. \A g \in Handlers : Spared(g)
  BY <1>1 DEF Spared
<1>7. TypeOK'
  BY <1>1, <1>2, <1>3 DEF IndInv, TypeOK
<1>8. StoreInv' /\ MachineInv'
  BY <1>1, <1>3 DEF IndInv, StoreInv, MachineInv, Lists
<1>9. ClaimInv'
  BY <1>1, <1>4 DEF IndInv, ClaimInv
<1> QED BY <1>4, <1>5, <1>6, <1>7, <1>8, <1>9, OutsideInv

\* Every step.
LEMMA NextInv ==
  ASSUME IndInv, Next
  PROVE  IndInv' /\ Onward
  BY HandlerInv, InformersInv, CrashInv, ClusterClaimsInv, ClusterMachineInv, WithdrawInv
  DEF Next, Cluster, ByUsers

\* The initial states.
LEMMA InitInv == Init => IndInv
<1> SUFFICES ASSUME Init PROVE IndInv
  OBVIOUS
<1>1. PICK q \in Requests, o \in Orders, s \in Strategies :
        plan = [newVM |-> q.newVM, retain |-> q.retain, foreign |-> q.foreign, kind |-> q.kind,
                order |-> o, strategy |-> s]
  BY DEF Init
<1>2. plan \in Plan
  <2>1. q \in Request /\ s \in RunStrategies
    BY RequestsAssumption, StartAssumption
  <2>2. q.newVM \in BOOLEAN /\ q.retain \in BOOLEAN /\ q.foreign \in BOOLEAN /\ q.kind \in {"backup", "snapshot"}
    BY <2>1 DEF Request
  <2> QED BY <1>1, <2>1, <2>2 DEF Plan
<1>3. /\ res = NewRestore /\ resCache = NoRestore /\ resCur = {}
      /\ vm \in {NoVM, StoppedVM} /\ vmCache = vm /\ vmCur = {"cache"} /\ vmi = "off"
      /\ claim = [v \in Volumes |-> "none"] /\ claimSeen = claim
      /\ source = [v \in Volumes |-> 0]
      /\ snapshot = [b \in Volumes |-> "none"] /\ content = snapshot
      /\ pend = {} /\ job = [h \in Handlers |-> Idle]
  BY DEF Init
<1>4. old \in [Volumes -> {"live", "deleting", "gone"}]
  BY StartAssumption DEF Init
<1>5. budget \in 0..MaxDisturbances /\ backup \in BOOLEAN
  <2>1. backup \in BOOLEAN
    BY Zenon DEF Init
  <2>2. budget = MaxDisturbances \/ (MaxDisturbances > 0 /\ budget = MaxDisturbances - 1)
    BY Zenon DEF Init
  <2> QED BY <2>1, <2>2, BoundAssumption
<1>6. TypeOK
  <2>1. 0 \in 0..NumVolumes
    BY VolumesAssumption
  <2> QED BY <1>2, <1>3, <1>4, <1>5, <2>1, NoneTypes DEF TypeOK
<1>7. StoreInv /\ MachineInv /\ ClaimInv
  BY <1>3, NoneTypes DEF StoreInv, MachineInv, ClaimInv, Lists, NoVM, StoppedVM
<1>8. \A h \in Handlers : JobInv(h)
  BY <1>3, NoneTypes DEF JobInv, Found, Lists, Loop, OnVM, AfterVM, AfterClaims
<1> QED BY <1>6, <1>7, <1>8 DEF IndInv

----------------------------------------------------------------------------
(* The theorems                                                            *)

\* Everything above holds in every reachable state.
THEOREM Invariance == Spec => []IndInv
<1>1. Init => IndInv
  BY InitInv
<1>2. IndInv /\ [Next]_vars => IndInv'
  <2>1. ASSUME IndInv, UNCHANGED vars PROVE IndInv'
    <3> USE <2>1 DEF vars, restore, machine, claims
    <3>1. Withdrawn' = Withdrawn /\ \A v \in Volumes : Copied(v)' = Copied(v)
      BY DEF Withdrawn, Copied
    <3>2. Onward
      BY <3>1 DEF Onward
    <3>3. \A g \in Handlers : Spared(g)
      BY DEF Spared
    <3>4. TypeOK'
      BY DEF IndInv, TypeOK
    <3>5. StoreInv' /\ MachineInv' /\ ClaimInv'
      BY <3>1 DEF IndInv, StoreInv, MachineInv, ClaimInv, Lists
    <3> QED BY <3>2, <3>3, <3>4, <3>5, OutsideInv
  <2> QED BY <2>1, NextInv
<1> QED BY <1>1, <1>2, PTL DEF Spec

\* Every variable keeps its type, whatever the disks, requests and disturbances.
THEOREM TypeCorrect == Spec => []TypeOK
<1>1. IndInv => TypeOK
  BY DEF IndInv
<1> QED BY <1>1, Invariance, PTL

\* A step that the promise does not notice.
Unnoticed ==
  /\ plan' = plan /\ Withdrawn' = Withdrawn /\ res'.complete = res.complete
  /\ vm'.spec = "old" <=> vm.spec = "old"
  /\ \A v \in Volumes : (Copied(v)' <=> Copied(v)) /\ (old'[v] = "live" <=> old[v] = "live")

Copies == {v \in Volumes : claim[v] \in {"Bound", "Lost"} /\ source[v] = v}
Removed == {v \in Volumes : old[v] # "live"}
\* A claim that counts has the data of its disk anyway.
LEMMA CopiesAre ==
  ASSUME IndInv
  PROVE  Copies = {v \in Volumes : Copied(v)}
  BY DEF Copies, Copied, IndInv, ClaimInv

\* Such a step is a stuttering step of the promise.
LEMMA UnnoticedStutters ==
  ASSUME IndInv, IndInv', Unnoticed
  PROVE  UNCHANGED Promise!vars
<1>1. Copies = {v \in Volumes : Copied(v)} /\ Copies' = {v \in Volumes : Copied(v)'}
  BY DEF Copies, Copied, IndInv, ClaimInv
<1>2. Copies' = Copies
  BY <1>1 DEF Unnoticed
<1>3. Removed' = Removed
  BY DEF Removed, Unnoticed
<1>4. isNewVMOrHasRetainPolicy' = isNewVMOrHasRetainPolicy
  BY DEF Unnoticed, isNewVMOrHasRetainPolicy
<1>5. (vm.spec # "old")' = (vm.spec # "old")
  BY DEF Unnoticed
<1>6. res'.complete = res.complete /\ (~Withdrawn)' = ~Withdrawn
  BY DEF Unnoticed
<1> QED BY <1>2, <1>3, <1>4, <1>5, <1>6 DEF Promise!vars, Copies, Removed

\* Steps that leave restore, claims, originals and what the VM refers to alone.
LEMMA AloneUnnoticed ==
  ASSUME UNCHANGED <<plan, res, claim, old>>, vm'.spec = "old" <=> vm.spec = "old"
  PROVE  Unnoticed
  BY DEF Unnoticed, Withdrawn, Copied

\* Steps of a handler that write nothing the promise speaks of.
LEMMA ReadsUnnoticed ==
  ASSUME IndInv, NEW h \in Handlers,
         \/ Reconcile(h) \/ mountLonghornVolumes(h) \/ reconcileVolumeRestores(h)
         \/ getOrCreateVolumeSnapshot(h) \/ createContent(h) \/ createSnapshot(h)
         \/ getVM(h) \/ readVM(h) \/ reconcileSecretBackups(h) \/ OnRestoreRemove(h) \/ CallFails(h)
         \/ startVM(h)
  PROVE  Unnoticed
<1> USE DEF restore, machine, claims, OnlyReads, OnlyClaims
<1>1. UNCHANGED <<plan, res, claim, old>>
  BY DEF Reconcile, mountLonghornVolumes, reconcileVolumeRestores, getOrCreateVolumeSnapshot,
         createContent, createSnapshot, getVM, readVM, reconcileSecretBackups, OnRestoreRemove,
         CallFails, startVM
<1>2. vm'.spec = vm.spec
  <2>1. CASE startVM(h)
    BY <2>1, AskToStartFacts DEF startVM
  <2>2. CASE ~startVM(h)
    BY <2>2 DEF Reconcile, mountLonghornVolumes, reconcileVolumeRestores, getOrCreateVolumeSnapshot,
                createContent, createSnapshot, getVM, readVM, reconcileSecretBackups, OnRestoreRemove,
                CallFails
  <2> QED BY <2>1, <2>2
<1> QED BY <1>1, <1>2, AloneUnnoticed

\* Steps of informers, KubeVirt and users that it does not notice.
LEMMA OthersUnnoticed ==
  ASSUME IndInv,
         \/ Informers \/ Resync \/ Crash \/ BackupReady \/ KubeVirtStart \/ KubeVirtStatus
         \/ StartByUser \/ EditVM
  PROVE  Unnoticed
<1> USE DEF restore, machine, claims
<1>1. UNCHANGED <<plan, res, claim, old>>
  BY DEF Informers, RestoreWatch, VMReconcile, PVCReconcile, SnapshotWatch, Resync, Crash, BackupReady,
         KubeVirtStart, KubeVirtStatus, StartByUser, EditVM
<1>2. vm'.spec = "old" <=> vm.spec = "old"
  <2>1. CASE StartByUser
    BY <2>1, AskToStartFacts DEF StartByUser
  <2>2. CASE KubeVirtStatus \/ EditVM
    BY <2>2 DEF KubeVirtStatus, EditVM, IndInv, TypeOK, VirtualMachine
  <2>3. CASE Informers \/ Resync \/ Crash \/ BackupReady \/ KubeVirtStart
    BY <2>3 DEF Informers, RestoreWatch, VMReconcile, PVCReconcile, SnapshotWatch, Resync, Crash,
                BackupReady, KubeVirtStart
  <2> QED BY <2>1, <2>2, <2>3
<1> QED BY <1>1, <1>2, AloneUnnoticed

\* A claim that is made, or lost after it was bound, is none that counts; an
\* original counts from the moment it is deleted.
LEMMA ClaimsUnnoticed ==
  ASSUME IndInv, ~Withdrawn,
         \/ \E h \in Handlers : createRestoredPVC(h)
         \/ \E v \in Volumes : ClaimLost(v) \/ Collect(v) \/ OldClaimGone(v)
  PROVE  Unnoticed
<1> USE DEF restore, machine, claims, OnlyClaims
<1>1. UNCHANGED <<plan, res, vm>>
  BY DEF createRestoredPVC, ClaimLost, Collect, OldClaimGone, ClaimChange
<1>2. \A w \in Volumes : old'[w] = "live" <=> old[w] = "live"
  <2>1. ASSUME NEW v \in Volumes, OldClaimGone(v) PROVE \A w \in Volumes : old'[w] = "live" <=> old[w] = "live"
    BY <2>1 DEF OldClaimGone, IndInv, TypeOK
  <2>2. old' = old \/ \E v \in Volumes : OldClaimGone(v)
    BY DEF createRestoredPVC, ClaimLost, Collect, ClaimChange
  <2> QED BY <2>1, <2>2
<1>3. \A w \in Volumes : Copied(w)' <=> Copied(w)
  <2>1. CASE \E h \in Handlers : createRestoredPVC(h)
    <3>1. PICK h \in Handlers : createRestoredPVC(h)
      BY <2>1
    <3>2. VolumeOf(h) \in Volumes
      BY <3>1, VolumeFacts DEF createRestoredPVC, Loop
    <3> QED BY <3>1, <3>2 DEF createRestoredPVC, IndInv, TypeOK, Copied
  <2>2. CASE \E v \in Volumes : ClaimLost(v) \/ Collect(v) \/ OldClaimGone(v)
    BY <2>2 DEF ClaimLost, Collect, OldClaimGone, ClaimChange, IndInv, TypeOK, Copied
  <2> QED BY <2>1, <2>2
<1> QED BY <1>1, <1>2, <1>3 DEF Unnoticed, Withdrawn

\* Of the Updates of the restore, only the last is noticed.
LEMMA UpdateUnnoticed ==
  ASSUME IndInv, NEW h \in Handlers, NEW n, NEW err, job[h].pc \notin {"idle", "remove"},
         n.complete = job[h].res.complete, n.there = job[h].res.there,
         n.deleting = job[h].res.deleting, UpdateRestore(h, n, err) \/ UpdateChanged(h, n, err)
  PROVE  Unnoticed
<1> USE DEF machine, claims
<1>1. UNCHANGED <<plan, claim, old, vm>> /\ (res' = res \/ (h \in resCur /\ res' = n))
  BY DEF UpdateChanged, UpdateRestore
<1>2. res'.complete = res.complete /\ res'.there = res.there /\ res'.deleting = res.deleting
  BY <1>1 DEF IndInv, JobInv
<1> QED BY <1>1, <1>2 DEF Unnoticed, Withdrawn, Copied

\* The Updates before the last.
LEMMA UpdatesUnnoticed ==
  ASSUME IndInv, NEW h \in Handlers,
         \/ initStatus(h) \/ initVolumesStatus(h) \/ updateOwnerRefAndTargetUID(h)
         \/ WaitFor(h, "creating") \/ WaitFor(h, "waiting") \/ updateStatusError(h)
  PROVE  Unnoticed
<1> DEFINE r == job[h].res
<1>1. r \in Restore
  BY JobTypes DEF IndInv, TypeOK
<1>2. \A n \in {[r EXCEPT !.status = TRUE, !.cond = "init"], [r EXCEPT !.vols = getVolumeRestores],
                [r EXCEPT !.owner = TRUE], [r EXCEPT !.cond = "creating"],
                [r EXCEPT !.cond = "waiting"], [r EXCEPT !.cond = job[h].err]} :
        n.complete = r.complete /\ n.there = r.there /\ n.deleting = r.deleting
  BY <1>1 DEF Restore
<1>3. CASE initStatus(h)
  BY <1>2, <1>3, UpdateUnnoticed DEF initStatus
<1>4. CASE initVolumesStatus(h)
  BY <1>2, <1>4, UpdateUnnoticed DEF initVolumesStatus
<1>5. CASE updateOwnerRefAndTargetUID(h)
  BY <1>2, <1>5, UpdateUnnoticed DEF updateOwnerRefAndTargetUID
<1>6. CASE WaitFor(h, "creating") \/ WaitFor(h, "waiting")
  BY <1>2, <1>6, UpdateUnnoticed DEF WaitFor
<1>7. CASE updateStatusError(h)
  BY <1>2, <1>7, UpdateUnnoticed DEF updateStatusError
<1> QED BY <1>3, <1>4, <1>5, <1>6, <1>7

\* What the promise's predicates say here.
LEMMA ReplacedIs ==
  ASSUME IndInv, AllCopied, vm.spec # "old"
  PROVE  Promise!Replaced
<1>1. Copies = Volumes
  BY CopiesAre DEF AllCopied
<1> QED BY <1>1 DEF Promise!Replaced, Copies

\* The steps that the promise notices are steps it allows.
LEMMA NoticedAllowed ==
  ASSUME IndInv, IndInv', ~Withdrawn,
         \/ \E h \in Handlers : createNewVM(h) \/ updateVM(h) \/ deleteOldPVC(h) \/ Complete(h)
         \/ \E v \in Volumes : ClaimBound(v)
         \/ \E f \in BOOLEAN : DeleteRestore(f)
  PROVE  Promise!Next \/ UNCHANGED Promise!vars
<1> USE DEF restore, machine, claims
<1>1. ASSUME NEW v \in Volumes, ClaimBound(v) PROVE Promise!Copy(v)
  <2>1. /\ claim' = [claim EXCEPT ![v] = "Bound"] /\ claim[v] = "Pending"
        /\ UNCHANGED <<plan, restore, machine, source, old>>
    BY <1>1 DEF ClaimBound, ClaimChange
  <2>2. source[v] = v
    BY <2>1 DEF IndInv, ClaimInv
  <2>3. Copies' = Copies \cup {v}
    BY <2>1, <2>2 DEF Copies, IndInv, TypeOK
  <2>4. UNCHANGED <<isNewVMOrHasRetainPolicy, vm.spec # "old", Removed, res.complete, ~Withdrawn>>
    BY <2>1 DEF isNewVMOrHasRetainPolicy, Removed, Withdrawn
  <2> QED BY <2>3, <2>4 DEF Promise!Copy, Copies, Removed
<1>2. ASSUME NEW f \in BOOLEAN, DeleteRestore(f) PROVE Promise!Withdraw
  <2>1. UNCHANGED <<plan, claim, source, vm, old>>
    BY <1>2 DEF DeleteRestore
  <2>2. Withdrawn'
    BY <1>2, WithdrawInv
  <2>3. UNCHANGED <<isNewVMOrHasRetainPolicy, Copies, vm.spec # "old", Removed>>
    BY <2>1 DEF isNewVMOrHasRetainPolicy, Removed, Copies
  <2> QED BY <2>2, <2>3 DEF Promise!Withdraw, Copies, Removed
<1>3. ASSUME NEW h \in Handlers, createNewVM(h) \/ updateVM(h) PROVE Promise!Switch \/ Unnoticed
  <2>1. UNCHANGED <<plan, res, claim, source, old>>
    BY <1>3 DEF createNewVM, updateVM, WriteVM
  <2>2. vm'.spec = "restored" \/ vm'.spec = vm.spec
    <3>1. \A m \in VirtualMachine : RestoredVM(m).spec = "restored"
      BY MachineTypes DEF IndInv, TypeOK
    <3>2. NoVM \in VirtualMachine /\ job[h].vm \in VirtualMachine
      BY NoneTypes, JobTypes DEF IndInv, TypeOK
    <3> QED BY <1>3, <3>1, <3>2 DEF createNewVM, updateVM, WriteVM
  <2>3. CASE vm'.spec = "old" <=> vm.spec = "old"
    BY <2>1, <2>3, AloneUnnoticed
  <2>4. CASE vm.spec = "old" /\ vm'.spec = "restored"
    <3>1. UNCHANGED <<isNewVMOrHasRetainPolicy, Copies, Removed, res.complete, ~Withdrawn>>
      BY <2>1 DEF isNewVMOrHasRetainPolicy, Removed, Withdrawn, Copies
    <3>2. ~(vm.spec # "old") /\ (vm.spec # "old")' = TRUE
      BY <2>4
    <3> QED BY <3>1, <3>2 DEF Promise!Switch, Copies, Removed
  <2> QED BY <2>2, <2>3, <2>4
<1>4. ASSUME NEW h \in Handlers, deleteOldPVC(h)
      PROVE  Unnoticed \/ \E v \in Volumes : Promise!Remove(v)
  <2>1. job[h].pc = "cleanup" /\ UNCHANGED <<plan, res, claim, source, vm>>
    BY <1>4 DEF deleteOldPVC
  <2>2. PICK v \in Volumes : v = job[h].i
    BY JobTypes DEF IndInv, TypeOK
  <2>3. CASE old' = old
    BY <2>1, <2>3, AloneUnnoticed
  <2>4. CASE old' = [old EXCEPT ![v] = "deleting"]
    <3>1. ~Keep /\ AllCopied /\ vm.spec # "old"
      BY <2>1 DEF IndInv, JobInv, Found, AfterClaims, AfterVM
    <3>2. Removed' = Removed \cup {v}
      BY <2>2, <2>4 DEF Removed, IndInv, TypeOK
    <3>3. UNCHANGED <<isNewVMOrHasRetainPolicy, Copies, vm.spec # "old", res.complete, ~Withdrawn>>
      BY <2>1 DEF isNewVMOrHasRetainPolicy, Withdrawn, Copies
    <3>4. Promise!Replaced
      BY <3>1, ReplacedIs
    <3>5. Promise!Remove(v)
      BY <3>1, <3>2, <3>3, <3>4 DEF Promise!Remove, Copies, Removed, Keep
    <3> QED BY <3>5
  <2> QED BY <1>4, <2>2, <2>3, <2>4 DEF deleteOldPVC
<1>5. ASSUME NEW h \in Handlers, Complete(h) PROVE Unnoticed \/ Promise!Finish
  <2> DEFINE n == [job[h].res EXCEPT !.complete = TRUE, !.cond = "done"]
  <2>1. /\ job[h].pc = "complete" /\ UNCHANGED <<plan, claim, source, vm, old>>
        /\ res' = res \/ (h \in resCur /\ res' = n)
    BY <1>5 DEF Complete, UpdateRestore
  <2>2. CASE res' = res
    BY <2>1, <2>2, AloneUnnoticed
  <2>3. CASE h \in resCur /\ res' = n
    <3>1. job[h].res = res /\ res \in Restore
      BY <2>1, <2>3 DEF IndInv, JobInv, TypeOK
    <3>2. res'.complete = TRUE /\ res'.there = res.there /\ res'.deleting = res.deleting
      BY <2>3, <3>1 DEF Restore
    <3>3. (Keep \/ AllRemoved) /\ AllCopied /\ vm.spec # "old"
      BY <2>1 DEF IndInv, JobInv, Found, AfterClaims, AfterVM
    <3>4. Keep \/ Removed = Volumes
      BY <3>3 DEF Removed, AllRemoved
    <3>5. UNCHANGED <<isNewVMOrHasRetainPolicy, Copies, vm.spec # "old", Removed, ~Withdrawn>>
      BY <2>1, <3>2 DEF isNewVMOrHasRetainPolicy, Withdrawn, Copies, Removed
    <3>6. Promise!Replaced
      BY <3>3, ReplacedIs
    <3> QED BY <3>2, <3>4, <3>5, <3>6 DEF Promise!Finish, Copies, Removed, Keep
  <2> QED BY <2>1, <2>2, <2>3
<1> QED BY <1>1, <1>2, <1>3, <1>4, <1>5, UnnoticedStutters DEF Promise!Next

\* Every step is one that the promise allows, or a stutter.
LEMMA StepAllowed ==
  ASSUME IndInv, [Next]_vars
  PROVE  Promise!Next \/ UNCHANGED Promise!vars
<1>1. CASE UNCHANGED vars
  BY <1>1 DEF vars, restore, claims, machine, Promise!vars, isNewVMOrHasRetainPolicy, Withdrawn
<1>2. CASE Next
  <2>1. IndInv' /\ Onward
    BY <1>2, NextInv
  <2>2. CASE Withdrawn
    <3>1. Withdrawn'
      BY <2>1, <2>2 DEF Onward
    <3> QED BY <2>2, <3>1 DEF Promise!Next, Promise!Withdrawn
  <2>3. CASE ~Withdrawn
    <3>1. \/ \E h \in Handlers : Handle(h) \/ CallFails(h)
          \/ Informers \/ Resync \/ Crash \/ BackupReady \/ KubeVirtStart \/ KubeVirtStatus
          \/ StartByUser \/ EditVM
          \/ \E v \in Volumes : \/ ClaimLost(v) \/ Collect(v)
                                \/ OldClaimGone(v) \/ ClaimBound(v)
          \/ \E f \in BOOLEAN : DeleteRestore(f)
      BY <1>2, <2>3 DEF Next, Cluster, ByUsers, CollectRestore, Withdrawn
    <3>2. ASSUME NEW h \in Handlers, Handle(h) \/ CallFails(h)
          PROVE  Unnoticed \/ createNewVM(h) \/ updateVM(h) \/ deleteOldPVC(h) \/ Complete(h)
      BY <2>3, <3>2, ReadsUnnoticed, UpdatesUnnoticed, ClaimsUnnoticed DEF Handle
    <3> QED BY <2>1, <2>3, <3>1, <3>2, OthersUnnoticed, ClaimsUnnoticed, UnnoticedStutters, NoticedAllowed
  <2> QED BY <2>2, <2>3
<1> QED BY <1>1, <1>2

\* A restore replaces volumes as Replacement promises, for any number of disks: no
\* original is deleted, and the restore not complete, before every claim is bound
\* with the data of its own disk and the VM refers to the claims.
THEOREM Replaces == Spec => SafeReplacement
<1>1. Init => Promise!Init
  <2> SUFFICES ASSUME Init PROVE Promise!Init
    OBVIOUS
  <2>1. IndInv
    BY InitInv
  <2>2. Copies = {}
    BY CopiesAre, <2>1 DEF Init, Copied
  <2>3. vm.spec = "old" /\ ~res.complete /\ ~Withdrawn /\ res.complete = FALSE
    BY NoneTypes DEF Init, NewRestore, Withdrawn
  <2>4. isNewVMOrHasRetainPolicy \in BOOLEAN /\ Removed \in SUBSET Volumes
    BY DEF isNewVMOrHasRetainPolicy, Removed
  <2> QED BY <2>2, <2>3, <2>4 DEF Promise!Init, Copies, Removed
<1>2. IndInv /\ [Next]_vars => [Promise!Next]_Promise!vars
  BY StepAllowed
<1> QED BY <1>1, <1>2, Invariance, PTL DEF Spec, SafeReplacement, Promise!Spec

\* A user's change to the restored VM is not undone by a handler, however old its
\* copies are.
THEOREM KeepsEdits == Spec => EditsKept
<1>1. ASSUME IndInv, Next, vm.spec = "edited" PROVE vm'.spec = "edited"
  <2> USE DEF restore, machine, claims
  <2>1. vm.last /\ vm.there
    BY <1>1 DEF IndInv, MachineInv, TypeOK, VirtualMachine
  <2>2. ASSUME NEW h \in Handlers, createNewVM(h) \/ updateVM(h) PROVE vm' = vm
    <3>1. ~(createNewVM(h) /\ ~vm.there) /\ ~(updateVM(h) /\ h \in vmCur)
      BY <1>1, <2>1 DEF updateVM, IndInv, JobInv
    <3> QED BY <2>2, <3>1 DEF createNewVM, updateVM, WriteVM
  <2>3. ASSUME NEW h \in Handlers, Handle(h) \/ CallFails(h) PROVE vm'.spec = vm.spec
    <3>1. CASE startVM(h)
      BY <1>1, <3>1, AskToStartFacts DEF startVM
    <3>2. CASE createNewVM(h) \/ updateVM(h)
      BY <2>2, <3>2
    <3>3. CASE /\ ~startVM(h) /\ ~createNewVM(h) /\ ~updateVM(h)
      BY <2>3, <3>3
      DEF Handle, CallFails, Reconcile, initStatus, mountLonghornVolumes, initVolumesStatus,
          reconcileVolumeRestores, createRestoredPVC, getOrCreateVolumeSnapshot, createContent,
          createSnapshot, getVM, readVM, reconcileSecretBackups, updateOwnerRefAndTargetUID, WaitFor,
          deleteOldPVC, Complete, updateStatusError, OnRestoreRemove, UpdateRestore, UpdateChanged,
          OnlyReads, OnlyClaims
    <3> QED BY <3>1, <3>2, <3>3
  <2>4. CASE StartByUser
    BY <1>1, <2>4, AskToStartFacts DEF StartByUser
  <2>5. CASE KubeVirtStatus \/ EditVM
    BY <1>1, <2>5 DEF KubeVirtStatus, EditVM, IndInv, TypeOK, VirtualMachine
  <2>6. CASE \/ Informers \/ Resync \/ Crash \/ BackupReady \/ KubeVirtStart \/ CollectRestore
             \/ \E v \in Volumes : \/ ClaimLost(v) \/ Collect(v)
                                   \/ OldClaimGone(v) \/ ClaimBound(v)
             \/ \E f \in BOOLEAN : DeleteRestore(f)
    BY <1>1, <2>6
    DEF Informers, RestoreWatch, VMReconcile, PVCReconcile, SnapshotWatch, Resync, Crash, BackupReady,
        KubeVirtStart, CollectRestore, ClaimLost, Collect, OldClaimGone,
        ClaimBound, ClaimChange, DeleteRestore
  <2> QED BY <1>1, <2>3, <2>4, <2>5, <2>6 DEF Next, Cluster, ByUsers
<1>2. IndInv /\ [Next]_vars => [vm.spec = "edited" => vm'.spec = "edited"]_vars
  BY <1>1
<1> QED BY <1>2, Invariance, PTL DEF Spec, EditsKept
=============================================================================
