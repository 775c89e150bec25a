------------------------- MODULE VMOwnership_proofs -------------------------
(***************************************************************************)
(* Proofs about VMOwnership, for any machines, claims and changes: the     *)
(* type invariant, that the index lists every owned claim for its owner,   *)
(* and that no claim passes from one machine to another in one step.       *)
(*                                                                         *)
(* The argument.  A decision of the VM worker rests on the informer's copy *)
(* of a claim, which may be old.  But a copy that is "current" is the claim *)
(* stored (CacheInv), and a write from any other copy is refused; so what  *)
(* the worker read of the owner is true at the moment of the write.        *)
(***************************************************************************)
EXTENDS VMOwnership, TLAPS

Types ==
  /\ vm \in [VMs -> Machine]
  /\ vmSeen \in [VMs -> Machine]
  /\ claim \in [Claims -> Claim]
  /\ cache \in [Claims -> Claim]
  /\ current \in [Claims -> SUBSET {"cache", "index", "held"}]
  /\ stored \in [Claims -> VMs \cup {None, "absent"}]
  /\ entries \subseteq VMs \X Claims
  /\ pendVM \subseteq VMs
  /\ pendClaim \subseteq Claims
JobType ==
  /\ job \in Job
  /\ job.pc # "idle" => job.vm \in VMs
  /\ job.same \subseteq job.todo /\ job.doomed \subseteq job.todo
BudgetType == budget \in 0..MaxChanges

\* A copy of the stored version has what is stored.
CacheInv == \A c \in Claims : "cache" \in current[c] => cache[c] = claim[c]
IndInv == TypeOK /\ CacheInv /\ OwnedIsListed

-----------------------------------------------------------------------------
(* The parts of a step.                                                    *)

LEMMA WriteStep ==
  ASSUME claim \in [Claims -> Claim], CacheInv,
         current \in [Claims -> SUBSET {"cache", "index", "held"}],
         NEW c \in Claims, NEW new \in Claim, Write(c, new)
  PROVE  /\ claim' \in [Claims -> Claim]
         /\ current' \in [Claims -> SUBSET {"cache", "index", "held"}]
         /\ \A d \in Claims : "cache" \in current'[d] => cache[d] = claim'[d]
         /\ claim'[c] = new
         /\ \A d \in Claims \ {c} : claim'[d] = claim[d]
  BY DEF Write, CacheInv

LEMMA UpdateStep ==
  ASSUME claim \in [Claims -> Claim], CacheInv,
         current \in [Claims -> SUBSET {"cache", "index", "held"}],
         NEW c \in Claims, NEW holder, NEW owner \in VMs \cup {None},
         Update(c, holder, owner)
  PROVE  /\ claim' \in [Claims -> Claim]
         /\ current' \in [Claims -> SUBSET {"cache", "index", "held"}]
         /\ \A d \in Claims : "cache" \in current'[d] => cache[d] = claim'[d]
         /\ \A d \in Claims \ {c} : claim'[d] = claim[d]
         /\ claim'[c].owner # claim[c].owner =>
              holder \in current[c] /\ claim'[c].owner = owner
  <1>1. CASE holder \in current[c] /\ claim[c].state # "none"
    <2> DEFINE new == [claim[c] EXCEPT !.owner = owner]
    <2>1. Write(c, new)
      BY <1>1 DEF Update
    <2>2. new \in Claim /\ new.owner = owner
      BY DEF Claim
    <2> QED
      BY <1>1, <2>1, <2>2, WriteStep
  <1>2. CASE ~(holder \in current[c] /\ claim[c].state # "none")
    BY <1>2 DEF Update, CacheInv
  <1> QED
    BY <1>1, <1>2

LEMMA DoneStep ==
  ASSUME JobType, NEW c, Done(c)
  PROVE  JobType' /\ job'.pc = job.pc
  BY DEF JobType, Done, Job

LEMMA RevokedStep ==
  ASSUME JobType, NEW c \in Claims, c \in job.todo, Revoked(c)
  PROVE  JobType'
  BY DoneStep DEF JobType, Revoked, Job

LEMMA IdleJob == /\ Idle \in Job /\ Idle.pc = "idle"
                 /\ Idle.same \subseteq Idle.todo /\ Idle.doomed \subseteq Idle.todo
  BY DEF Idle, Job, Unused, Machine

LEMMA GiveUpStep ==
  ASSUME JobType, Types, job.pc # "idle", GiveUp
  PROVE  JobType' /\ pendVM' \subseteq VMs
  BY IdleJob DEF JobType, Types, GiveUp

LEMMA SpendStep ==
  ASSUME BudgetType, NEW kind, Spend(kind)
  PROVE  BudgetType'
  BY BoundAssumption DEF BudgetType, Spend

LEMMA Split == TypeOK <=> Types /\ JobType /\ BudgetType
  BY DEF TypeOK, Types, JobType, BudgetType

\* A restarted process lists the claims anew and has them all to process.
LEMMA RestartStep ==
  ASSUME Types, Restart, UNCHANGED <<vm, claim>>
  PROVE  Types' /\ JobType' /\ CacheInv' /\ OwnedIsListed'
  <1>1. Types' /\ CacheInv'
    BY DEF Types, Restart, CacheInv
  <1>2. JobType'
    BY IdleJob DEF JobType, Restart
  <1>3. OwnedIsListed'
    BY DEF OwnedIsListed, ToBeAdded, Restart, Types, Claim
  <1> QED
    BY <1>1, <1>2, <1>3

-----------------------------------------------------------------------------
(* What a step does to claims: it keeps them typed, keeps current copies   *)
(* true and hands no claim over.                                           *)

ClaimsKept ==
  /\ claim' \in [Claims -> Claim]
  /\ current' \in [Claims -> SUBSET {"cache", "index", "held"}]
  /\ CacheInv'
Handover ==
  \E c \in Claims : /\ claim[c].owner \in VMs
                    /\ claim'[c].owner \in VMs
                    /\ claim'[c].owner # claim[c].owner

LEMMA ClaimsAlone ==
  ASSUME TypeOK, CacheInv, UNCHANGED <<claim, cache, current>>
  PROVE  ClaimsKept /\ ~Handover
  BY DEF TypeOK, CacheInv, ClaimsKept, Handover

LEMMA ClaimWritten ==
  ASSUME TypeOK, CacheInv, UNCHANGED cache, NEW c \in Claims, NEW new \in Claim,
         Write(c, new), new.owner \in {None, claim[c].owner}
  PROVE  ClaimsKept /\ ~Handover
  BY WriteStep, NamesAssumption DEF TypeOK, CacheInv, ClaimsKept, Handover

LEMMA Creates ==
  ASSUME TypeOK, CacheInv, NEW c \in Claims, createPVCsFromAnnotation(c)
  PROVE  ClaimsKept /\ ~Handover
  <1>1. CASE UNCHANGED <<claim, current>>
    BY <1>1, ClaimsAlone DEF createPVCsFromAnnotation
  <1>2. CASE ~UNCHANGED <<claim, current>>
    <2>1. PICK state \in {"bare", "live"} : Write(c, [NoClaim EXCEPT !.state = state])
      BY <1>2 DEF createPVCsFromAnnotation
    <2>2. /\ [NoClaim EXCEPT !.state = state] \in Claim
          /\ [NoClaim EXCEPT !.state = state].owner = None
      BY DEF NoClaim, Claim
    <2> QED
      BY <2>1, <2>2, ClaimWritten DEF createPVCsFromAnnotation
  <1> QED
    BY <1>1, <1>2

LEMMA Releases ==
  ASSUME TypeOK, CacheInv, NEW c \in Claims, Release(c)
  PROVE  ClaimsKept /\ ~Handover
  <1>1. PICK holder : Update(c, holder, None)
    BY DEF Release
  <1> QED
    BY <1>1, UpdateStep, NamesAssumption DEF Release, TypeOK, CacheInv, ClaimsKept, Handover

LEMMA Owns ==
  ASSUME TypeOK, CacheInv, NEW c \in Claims, SetOwner(c)
  PROVE  ClaimsKept /\ ~Handover
  <1>1. CASE Restart /\ UNCHANGED claim
    BY <1>1, RestartStep DEF SetOwner, TypeOK, Types, ClaimsKept, Handover
  <1>2. CASE UNCHANGED <<claim, current, cache>>
    BY <1>2, ClaimsAlone
  <1>3. CASE Ownable(c, job.vm) /\ Update(c, "cache", job.vm) /\ UNCHANGED cache
    <2>1. job.vm \in VMs
      BY DEF SetOwner, TypeOK
    <2>2. claim'[c].owner # claim[c].owner =>
            claim[c].owner \in {None, job.vm} /\ claim'[c].owner = job.vm
      BY <1>3, <2>1, UpdateStep DEF TypeOK, CacheInv, Ownable
    <2> QED
      BY <1>3, <2>1, <2>2, UpdateStep, NamesAssumption
      DEF TypeOK, CacheInv, ClaimsKept, Handover
  <1> QED
    BY <1>1, <1>2, <1>3 DEF SetOwner

LEMMA Unsets ==
  ASSUME TypeOK, CacheInv, NEW c \in Claims, UnsetOwner(c)
  PROVE  ClaimsKept /\ ~Handover
  <1>1. CASE UNCHANGED <<claim, current>>
    BY <1>1, ClaimsAlone DEF UnsetOwner
  <1>2. CASE ~UNCHANGED <<claim, current>>
    <2>1. Update(c, "cache", None)
      BY <1>2 DEF UnsetOwner, UnsetBoundedPVCReference
    <2> QED
      BY <2>1, UpdateStep, NamesAssumption
      DEF UnsetOwner, TypeOK, CacheInv, ClaimsKept, Handover
  <1> QED
    BY <1>1, <1>2

LEMMA Deletes ==
  ASSUME TypeOK, CacheInv, NEW c \in Claims, DeletePVC(c)
  PROVE  ClaimsKept /\ ~Handover
  <1>1. CASE UNCHANGED <<claim, current>>
    BY <1>1, ClaimsAlone DEF DeletePVC
  <1>2. CASE ~UNCHANGED <<claim, current>>
    <2> DEFINE new == [claim[c] EXCEPT !.state = "deleting"]
    <2>1. Write(c, new)
      BY <1>2 DEF DeletePVC
    <2>2. new \in Claim /\ new.owner = claim[c].owner
      BY DEF TypeOK, Claim
    <2> QED
      BY <2>1, <2>2, ClaimWritten DEF DeletePVC
  <1> QED
    BY <1>1, <1>2

LEMMA Indexed ==
  ASSUME TypeOK, CacheInv, NEW c \in Claims, PVCReconcile(c)
  PROVE  ClaimsKept /\ ~Handover
  BY DEF TypeOK, CacheInv, ClaimsKept, Handover, PVCReconcile, Superseded, api

LEMMA Watched ==
  ASSUME TypeOK, CacheInv, NEW c \in Claims, ClaimWatch(c)
  PROVE  ClaimsKept /\ ~Handover
  BY DEF TypeOK, CacheInv, ClaimsKept, Handover, ClaimWatch, api

LEMMA Stored ==
  ASSUME TypeOK, CacheInv, NEW c \in Claims,
         Bind(c) \/ ClaimGone(c) \/ DeleteClaim(c)
  PROVE  ClaimsKept /\ ~Handover
  <1>1. \E new \in Claim : Write(c, new) /\ new.owner \in {None, claim[c].owner}
    BY DEF Bind, ClaimGone, DeleteClaim, Claim, TypeOK, NoClaim
  <1> QED
    BY <1>1, ClaimWritten DEF Bind, ClaimGone, DeleteClaim

LEMMA Fails ==
  ASSUME TypeOK, CacheInv, NEW c \in Claims, CallFails(c)
  PROVE  ClaimsKept /\ ~Handover
  BY ClaimsAlone DEF CallFails

LEMMA ClaimsStep ==
  ASSUME TypeOK, CacheInv, [Next]_vars
  PROVE  ClaimsKept /\ ~Handover
  <1>1. CASE \E c \in Claims : \/ createPVCsFromAnnotation(c) \/ Release(c)
                               \/ SetOwner(c) \/ UnsetOwner(c) \/ DeletePVC(c)
    BY <1>1, Creates, Releases, Owns, Unsets, Deletes
  <1>2. CASE \E c \in Claims : \/ PVCReconcile(c) \/ ClaimWatch(c) \/ Bind(c)
                               \/ ClaimGone(c) \/ DeleteClaim(c) \/ CallFails(c)
    BY <1>2, Indexed, Watched, Stored, Fails
  <1>3. CASE Crash
    BY <1>3, RestartStep DEF Crash, TypeOK, Types, ClaimsKept, Handover, api
  <1>4. CASE \/ ListAttached \/ StartOwning \/ ReconcileDone \/ Resync \/ UNCHANGED vars
    BY <1>4, ClaimsAlone DEF ListAttached, StartOwning, ReconcileDone, Resync, vars, api
  <1>5. CASE \E v \in VMs : \/ Reconcile(v) \/ VMWatch(v) \/ MarkRemoved(v) \/ DeleteVM(v)
                            \/ \E c \in Claims : Attach(v, c) \/ Detach(v, c)
    BY <1>5, ClaimsAlone
    DEF Reconcile, VMWatch, MarkRemoved, DeleteVM, Attach, Detach, Edit, api
  <1> QED
    BY <1>1, <1>2, <1>3, <1>4, <1>5 DEF Next, VMWorker

-----------------------------------------------------------------------------
(* The other parts of the type invariant.                                  *)

Rest == /\ vm \in [VMs -> Machine] /\ vmSeen \in [VMs -> Machine]
        /\ cache \in [Claims -> Claim]
        /\ stored \in [Claims -> VMs \cup {None, "absent"}]
        /\ entries \subseteq VMs \X Claims
        /\ pendVM \subseteq VMs /\ pendClaim \subseteq Claims

\* The handlers of the VM worker.
LEMMA WorkerTypes ==
  ASSUME TypeOK,
         \/ VMWorker
         \/ \E v \in VMs : Reconcile(v)
         \/ \E c \in Claims : CallFails(c)
  PROVE  Rest' /\ JobType' /\ BudgetType'
  <1> USE Split
  <1>1. ASSUME NEW v \in VMs, Reconcile(v)
        PROVE  Rest' /\ JobType' /\ BudgetType'
    <2>1. Rest' /\ BudgetType'
      BY <1>1 DEF Reconcile, Types, Rest, BudgetType, api
    <2>2. vmSeen[v] \in Machine
      BY DEF Types
    <2>3. JobType'
      BY <1>1, <2>2, IdleJob
      DEF Reconcile, JobType, Job, Idle, Machine, getPVCNames, getRemovedPVCs
    <2> QED
      BY <2>1, <2>3
  <1>2. ASSUME NEW c \in Claims, createPVCsFromAnnotation(c)
        PROVE  Rest' /\ JobType' /\ BudgetType'
    <2>1. Rest' /\ BudgetType'
      BY <1>2, GiveUpStep DEF createPVCsFromAnnotation, Types, Rest, BudgetType
    <2>2. JobType'
      BY <1>2, GiveUpStep, DoneStep DEF createPVCsFromAnnotation
    <2> QED
      BY <2>1, <2>2
  <1>3. ASSUME ListAttached \/ StartOwning \/ ReconcileDone
        PROVE  Rest' /\ JobType' /\ BudgetType'
    <2>1. Rest' /\ BudgetType'
      BY <1>3 DEF ListAttached, StartOwning, ReconcileDone, Types, Rest, BudgetType, api
    <2>2. CASE ListAttached
      <3> DEFINE left == Detached(GetByIndex(job.vm), getPVCNames(job.spec))
      <3>1. left \subseteq Claims
        BY DEF Detached, GetByIndex
      <3>2. job' = [job EXCEPT !.pc = "release", !.todo = left, !.same = left]
        BY <2>2 DEF ListAttached
      <3> HIDE DEF left
      <3> QED
        BY <2>1, <2>2, <3>1, <3>2 DEF ListAttached, JobType, Job
    <2>3. CASE StartOwning
      BY <2>1, <2>3 DEF StartOwning, JobType, Job, getPVCNames, Machine
    <2>4. CASE ReconcileDone
      BY <2>1, <2>4, IdleJob DEF ReconcileDone, JobType
    <2> QED
      BY <1>3, <2>1, <2>2, <2>3, <2>4
  <1>4. ASSUME NEW c \in Claims, Release(c) \/ UnsetOwner(c) \/ DeletePVC(c)
        PROVE  Rest' /\ JobType' /\ BudgetType'
    <2>1. Rest' /\ BudgetType'
      BY <1>4 DEF Release, Erase, UnsetOwner, DeletePVC, Types, Rest, BudgetType
    <2>2. JobType'
      BY <1>4, DoneStep, RevokedStep DEF Release, UnsetOwner, DeletePVC
    <2> QED
      BY <2>1, <2>2
  <1>5. ASSUME NEW c \in Claims, SetOwner(c)
        PROVE  Rest' /\ JobType' /\ BudgetType'
    <2>1. CASE Restart /\ UNCHANGED claim
      BY <1>5, <2>1, RestartStep DEF SetOwner, Types, Rest, BudgetType
    <2>2. CASE ~(Restart /\ UNCHANGED claim)
      <3>1. Rest' /\ BudgetType'
        BY <1>5, <2>2 DEF SetOwner, Types, Rest, BudgetType
      <3>2. JobType'
        BY <1>5, <2>2, DoneStep DEF SetOwner
      <3> QED
        BY <3>1, <3>2
    <2> QED
      BY <2>1, <2>2
  <1>6. ASSUME NEW c \in Claims, CallFails(c)
        PROVE  Rest' /\ JobType' /\ BudgetType'
    <2>1. BudgetType'
      BY <1>6, SpendStep DEF CallFails
    <2>2. Rest'
      BY <1>6, GiveUpStep DEF CallFails, Erase, Types, Rest
    <2>3. JobType'
      BY <1>6, GiveUpStep, DoneStep, RevokedStep DEF CallFails
    <2> QED
      BY <2>1, <2>2, <2>3
  <1> QED
    BY <1>1, <1>2, <1>3, <1>4, <1>5, <1>6 DEF VMWorker

\* The claim controller and the informers.
LEMMA OtherTypes ==
  ASSUME TypeOK,
         \/ Resync \/ Crash \/ UNCHANGED vars
         \/ \E v \in VMs : VMWatch(v)
         \/ \E c \in Claims : PVCReconcile(c) \/ ClaimWatch(c)
  PROVE  Rest' /\ JobType' /\ BudgetType'
  <1> USE Split
  <1>1. ASSUME NEW c \in Claims, PVCReconcile(c)
        PROVE  Rest' /\ JobType' /\ BudgetType'
    <2>1. stored' \in [Claims -> VMs \cup {None, "absent"}] /\ entries' \subseteq VMs \X Claims
      BY <1>1 DEF PVCReconcile, Add, ToBeAdded, Types, Claim
    <2>2. JobType'
      BY <1>1 DEF PVCReconcile, JobType, Job
    <2> QED
      BY <1>1, <2>1, <2>2 DEF PVCReconcile, Types, Rest, BudgetType, api
  <1>2. ASSUME NEW c \in Claims, ClaimWatch(c)
        PROVE  Rest' /\ JobType' /\ BudgetType'
    BY <1>2 DEF ClaimWatch, Types, Rest, JobType, BudgetType, api
  <1>3. ASSUME Resync \/ UNCHANGED vars \/ \E v \in VMs : VMWatch(v)
        PROVE  Rest' /\ JobType' /\ BudgetType'
    BY <1>3 DEF Resync, vars, VMWatch, Types, Rest, JobType, BudgetType, api
  <1>4. ASSUME Crash
        PROVE  Rest' /\ JobType' /\ BudgetType'
    BY <1>4, RestartStep, SpendStep DEF Crash, Types, Rest, api
  <1> QED
    BY <1>1, <1>2, <1>3, <1>4

\* Users and the storage.
LEMMA UserTypes ==
  ASSUME TypeOK,
         \/ \E v \in VMs : \/ MarkRemoved(v) \/ DeleteVM(v)
                           \/ \E c \in Claims : Attach(v, c) \/ Detach(v, c)
         \/ \E c \in Claims : Bind(c) \/ ClaimGone(c) \/ DeleteClaim(c)
  PROVE  Rest' /\ JobType' /\ BudgetType'
  <1> USE Split
  <1>1. ASSUME NEW v \in VMs, NEW new \in Machine, Edit(v, new), BudgetType'
        PROVE  Rest' /\ JobType' /\ BudgetType'
    BY <1>1 DEF Edit, Types, Rest, JobType
  <1>2. ASSUME NEW v \in VMs, NEW c \in Claims, Attach(v, c)
        PROVE  Rest' /\ JobType' /\ BudgetType'
    <2>1. BudgetType'
      BY <1>2, SpendStep DEF Attach
    <2>2. PICK new \in SUBSET {c} :
            Edit(v, [vm[v] EXCEPT !.attached = @ \cup {c}, !.template = @ \cup new])
      BY <1>2 DEF Attach
    <2>3. vm[v] \in Machine
      BY DEF Types
    <2>4. [vm[v] EXCEPT !.attached = @ \cup {c}, !.template = @ \cup new] \in Machine
      BY <2>3 DEF Machine
    <2> QED
      BY <1>1, <2>1, <2>2, <2>4
  <1>3. ASSUME NEW v \in VMs, NEW c \in Claims, Detach(v, c)
        PROVE  Rest' /\ JobType' /\ BudgetType'
    <2>1. BudgetType'
      BY <1>3, SpendStep DEF Detach
    <2>2. vm[v] \in Machine
      BY DEF Types
    <2>3. [vm[v] EXCEPT !.attached = @ \ {c}, !.template = @ \ {c}] \in Machine
      BY <2>2 DEF Machine
    <2> QED
      BY <1>1, <1>3, <2>1, <2>3 DEF Detach
  <1>4. ASSUME NEW v \in VMs, MarkRemoved(v)
        PROVE  Rest' /\ JobType' /\ BudgetType'
    <2>1. BudgetType'
      BY <1>4, SpendStep DEF MarkRemoved
    <2>2. PICK S \in SUBSET vm[v].attached : Edit(v, [vm[v] EXCEPT !.marked = TRUE, !.removed = S])
      BY <1>4 DEF MarkRemoved
    <2>3. vm[v] \in Machine
      BY DEF Types
    <2>4. [vm[v] EXCEPT !.marked = TRUE, !.removed = S] \in Machine
      BY <2>3 DEF Machine
    <2> QED
      BY <1>1, <2>1, <2>2, <2>4
  <1>5. ASSUME NEW v \in VMs, DeleteVM(v)
        PROVE  Rest' /\ JobType' /\ BudgetType'
    <2>1. BudgetType'
      BY <1>5, SpendStep DEF DeleteVM
    <2>2. vm[v] \in Machine
      BY DEF Types
    <2>3. [vm[v] EXCEPT !.there = FALSE] \in Machine
      BY <2>2 DEF Machine
    <2> QED
      BY <1>1, <1>5, <2>1, <2>3 DEF DeleteVM
  <1>6. ASSUME NEW c \in Claims, Bind(c) \/ ClaimGone(c)
        PROVE  Rest' /\ JobType' /\ BudgetType'
    BY <1>6 DEF Bind, ClaimGone, Types, Rest, JobType, BudgetType
  <1>7. ASSUME NEW c \in Claims, DeleteClaim(c)
        PROVE  Rest' /\ JobType' /\ BudgetType'
    <2>1. BudgetType'
      BY <1>7, SpendStep DEF DeleteClaim
    <2> QED
      BY <1>7, <2>1 DEF DeleteClaim, Types, Rest, JobType
  <1> QED
    BY <1>2, <1>3, <1>4, <1>5, <1>6, <1>7

LEMMA TypeStep ==
  ASSUME TypeOK, CacheInv, [Next]_vars
  PROVE  TypeOK' /\ CacheInv'
  <1>1. ClaimsKept
    BY ClaimsStep
  <1>2. Rest' /\ JobType' /\ BudgetType'
    BY WorkerTypes, OtherTypes, UserTypes DEF Next
  <1> QED
    BY <1>1, <1>2 DEF TypeOK, Rest, JobType, BudgetType, ClaimsKept

-----------------------------------------------------------------------------
(* The index.                                                              *)

\* Releases change the index's objects and never its entries.
LEMMA IndexAlone ==
  ASSUME OwnedIsListed, UNCHANGED <<cache, entries>>, pendClaim \subseteq pendClaim'
  PROVE  OwnedIsListed'
  BY DEF OwnedIsListed, ToBeAdded

\* Adding a claim takes away entries of that claim alone, and what it shows
\* is listed afterwards.
LEMMA IndexAdded ==
  ASSUME TypeOK, OwnedIsListed, NEW c \in Claims, PVCReconcile(c)
  PROVE  OwnedIsListed'
  <1> SUFFICES ASSUME NEW d \in Claims, d \notin pendClaim', ToBeAdded(d)
               PROVE  <<cache[d].owner, d>> \in entries'
    BY DEF OwnedIsListed, ToBeAdded, PVCReconcile
  <1>1. CASE d = c
    BY <1>1 DEF PVCReconcile, Add
  <1>2. CASE d # c
    BY <1>2 DEF OwnedIsListed, ToBeAdded, PVCReconcile, Add
  <1> QED
    BY <1>1, <1>2

LEMMA IndexStep ==
  ASSUME TypeOK, OwnedIsListed, [Next]_vars
  PROVE  OwnedIsListed'
  <1>1. CASE \E c \in Claims : PVCReconcile(c)
    BY <1>1, IndexAdded
  <1>2. CASE \E c \in Claims : ClaimWatch(c)
    BY <1>2 DEF ClaimWatch, OwnedIsListed, ToBeAdded, TypeOK
  <1>3. CASE Crash \/ \E c \in Claims : SetOwner(c)
    <2>1. CASE Restart /\ UNCHANGED <<vm, claim>>
      BY <2>1, RestartStep, Split
    <2>2. CASE ~(Restart /\ UNCHANGED <<vm, claim>>)
      BY <1>3, <2>2, IndexAlone DEF Crash, SetOwner, api
    <2> QED
      BY <2>1, <2>2
  <1>4. CASE \/ ListAttached \/ StartOwning \/ ReconcileDone \/ Resync \/ UNCHANGED vars
             \/ \E c \in Claims : \/ createPVCsFromAnnotation(c) \/ Release(c)
                                  \/ UnsetOwner(c) \/ DeletePVC(c) \/ Bind(c) \/ ClaimGone(c)
                                  \/ DeleteClaim(c) \/ CallFails(c)
    <2>1. UNCHANGED <<cache, entries>> /\ pendClaim \subseteq pendClaim'
      BY <1>4 DEF ListAttached, StartOwning, ReconcileDone, Resync, vars, Release,
         createPVCsFromAnnotation, UnsetOwner, DeletePVC, Bind, ClaimGone, DeleteClaim, CallFails
    <2> QED
      BY <2>1, IndexAlone
  <1>5. CASE \E v \in VMs : \/ Reconcile(v) \/ VMWatch(v) \/ MarkRemoved(v) \/ DeleteVM(v)
                            \/ \E c \in Claims : Attach(v, c) \/ Detach(v, c)
    <2>1. UNCHANGED <<cache, entries>> /\ pendClaim \subseteq pendClaim'
      BY <1>5 DEF Reconcile, VMWatch, MarkRemoved, DeleteVM, Attach, Detach, Edit
    <2> QED
      BY <2>1, IndexAlone
  <1> QED
    BY <1>1, <1>2, <1>3, <1>4, <1>5 DEF Next, VMWorker

-----------------------------------------------------------------------------

LEMMA Initially == Init => IndInv
  <1> SUFFICES ASSUME Init PROVE IndInv
    OBVIOUS
  <1>1. Unused \in Machine /\ NoClaim \in Claim /\ [NoClaim EXCEPT !.state = "live"] \in Claim
    BY DEF Unused, Machine, NoClaim, Claim
  <1>2. Types
    BY <1>1 DEF Init, Types
  <1>3. JobType
    BY IdleJob DEF Init, JobType
  <1>4. BudgetType
    BY BoundAssumption DEF Init, BudgetType
  <1>5. CacheInv /\ OwnedIsListed
    BY DEF Init, CacheInv, OwnedIsListed, ToBeAdded, NoClaim
  <1> QED
    BY <1>2, <1>3, <1>4, <1>5, Split DEF IndInv

\* The strengthened invariant: the types, current copies that are true, and an
\* index that is complete for what the claim controller has processed.
THEOREM Invariance == Spec => []IndInv
  <1>1. IndInv /\ [Next]_vars => IndInv'
    BY TypeStep, IndexStep DEF IndInv
  <1> QED
    BY Initially, <1>1, PTL DEF Spec

\* Every variable of the ownership model has its type, in every instance.
THEOREM TypeCorrect == Spec => []TypeOK
  BY Invariance, PTL DEF IndInv

\* The index misses no owned claim (pvc_controller.go, Reconcile), although
\* SetOwnerOfPVCs changes the objects it holds.
THEOREM IndexComplete == Spec => []OwnedIsListed
  BY Invariance, PTL DEF IndInv

\* No claim passes from one machine to another in one step
\* (SetOwnerlessPVCReference): the owner read from the cache is true when the
\* write is accepted.
THEOREM NeverTakenOver == Spec => NoTakeover
  <1> DEFINE Kept == \A c \in Claims :
                       claim[c].owner \in VMs /\ claim'[c].owner \in VMs
                         => claim'[c].owner = claim[c].owner
  <1>1. IndInv /\ [Next]_vars => [Kept]_vars
    BY ClaimsStep DEF IndInv, Handover
  <1> QED
    BY <1>1, Invariance, PTL DEF Spec, NoTakeover
=============================================================================
