----------------------------- MODULE VMOwnership -----------------------------
(***************************************************************************)
(* Which virtual machine owns which volume claim.  The VirtualMachine      *)
(* controller writes the owner into the claim's "owned-by" annotation for  *)
(* the claims the machine uses, and takes it away from the claims an       *)
(* in-memory index lists for the machine and it no longer uses.  The claim *)
(* controller fills that index, in a goroutine of its own.                 *)
(*                                                                         *)
(* Both controllers read informer caches, and Kubernetes refuses an Update *)
(* of a copy that is not the stored version.  A claim's version is not a   *)
(* number here: current[c] is the set of holders whose copy is the version *)
(* stored, "cache" (the informer's), "index" (the index's object) and      *)
(* "held" (an object the VM worker still points to after the claim         *)
(* controller has put another one in its place in the index).              *)
(*                                                                         *)
(* The volumeClaimTemplates annotation is one that parses, and a machine   *)
(* has a template (KubeVirt requires it).  The tail of both handlers, the  *)
(* call of the restore handler, is in module VMRestore.                    *)
(***************************************************************************)
EXTENDS Naturals, FiniteSets

CONSTANTS
  VMs,          \* the virtual machines of a namespace
  Claims,       \* the names its claims can have
  Changes,      \* what users, the storage and faults do in this instance
  MaxChanges    \* how often, all together

None == "none"

ASSUME NamesAssumption == None \notin VMs
ASSUME BoundAssumption == MaxChanges \in Nat

VARIABLES
  vm,           \* the machines as stored
  vmSeen,       \* the machines as the informer shows them
  claim,        \* the claims as stored
  cache,        \* the claims as the informer shows them
  current,      \* per claim, who holds a copy of the stored version
  stored,       \* per claim, the owner the index's object names, or "absent"
  entries,      \* the index: pairs of a machine and a claim listed for it
  pendVM,       \* the VM controller's queue
  pendClaim,    \* the claim controller's queue
  job,          \* the VM controller's worker
  budget        \* changes left

api  == <<vm, claim>>
vars == <<vm, vmSeen, claim, cache, current, stored, entries, pendVM,
          pendClaim, job, budget>>

\* "marked": the removed-PVCs annotation is there, if only with an empty list.
Machine == [there : BOOLEAN, attached : SUBSET Claims, template : SUBSET Claims,
            marked : BOOLEAN, removed : SUBSET Claims]
\* A claim can be "bare": stored without a single annotation.
Claim   == [state : {"none", "bare", "live", "deleting"},
            owner : VMs \cup {None}]
Job     == [pc : {"idle", "create", "release", "own", "unset"},
            vm : VMs \cup {None}, spec : Machine,
            todo : SUBSET Claims, same : SUBSET Claims, doomed : SUBSET Claims]

Unused  == [there |-> TRUE, attached |-> {}, template |-> {},
            marked |-> FALSE, removed |-> {}]
NoClaim == [state |-> "none", owner |-> None]
Idle    == [pc |-> "idle", vm |-> None, spec |-> Unused,
            todo |-> {}, same |-> {}, doomed |-> {}]

Init ==
  /\ vm = [v \in VMs |-> Unused]
  /\ vmSeen = vm
  /\ claim \in [Claims -> {NoClaim, [NoClaim EXCEPT !.state = "live"]}]
  /\ cache = claim
  /\ current = [c \in Claims |-> {"cache"}]
  /\ stored = [c \in Claims |-> "absent"]
  /\ entries = {}
  /\ pendVM = {}
  /\ pendClaim = {}
  /\ job = Idle
  /\ budget = MaxChanges

-----------------------------------------------------------------------------
(* The API server (external): a write that changes nothing makes no new    *)
(* version.                                                                *)

Write(c, new) ==
  /\ claim' = [claim EXCEPT ![c] = new]
  /\ current' = IF new = claim[c] THEN current
                ELSE [current EXCEPT ![c] = {}]

\* An Update that gives the claim this owner, from a holder's copy.
Update(c, holder, owner) ==
  IF holder \in current[c] /\ claim[c].state # "none"
  THEN Write(c, [claim[c] EXCEPT !.owner = owner])
  ELSE UNCHANGED <<claim, current>>

-----------------------------------------------------------------------------
(* The index (cache.Indexer is external).  Add computes the place to take  *)
(* the old object from out of that object, as it is by then.               *)

GetByIndex(v) == {c \in Claims : <<v, c>> \in entries}

Add(c, owner) ==
  /\ stored' = [stored EXCEPT ![c] = owner]
  /\ entries' = (entries \ {<<stored[c], c>>}) \cup {<<owner, c>>}

-----------------------------------------------------------------------------
(* The VirtualMachine controller.                                          *)

TemplateNames(spec)  == spec.template
getPVCNames(spec)    == spec.attached
getRemovedPVCs(spec) == spec.removed

Reconcile(v) ==
  /\ job.pc = "idle"
  /\ v \in pendVM
  /\ pendVM' = pendVM \ {v}
  /\ job' = LET spec == vmSeen[v] IN
            CASE ~spec.there -> job
              [] spec.there /\ spec.marked ->
                   [Idle EXCEPT !.pc = "unset", !.vm = v, !.spec = spec,
                                !.todo = getPVCNames(spec)]
              [] OTHER ->
                   [Idle EXCEPT !.pc = "create", !.vm = v, !.spec = spec,
                                !.todo = spec.template]
  /\ UNCHANGED <<api, vmSeen, cache, current, stored, entries, pendClaim,
                 budget>>

Done(c)  == job' = [job EXCEPT !.todo = @ \ {c}, !.same = @ \ {c},
                               !.doomed = @ \ {c}]
GiveUp   == job' = Idle /\ pendVM' = pendVM \cup {job.vm}

\* Any error of Get leads to Create, and an error of Create to a retry: of
\* these AlreadyExists, while the cache is behind.
createPVCsFromAnnotation(c) ==
  /\ job.pc = "create"
  /\ c \in job.todo
  /\ \/ /\ cache[c].state # "none" \/ claim[c].state = "none"
        /\ IF cache[c].state # "none" THEN UNCHANGED <<claim, current>>
           ELSE \E state \in {"bare", "live"} :
                  Write(c, [NoClaim EXCEPT !.state = state])
        /\ Done(c)
        /\ UNCHANGED pendVM
     \/ /\ cache[c].state = "none" /\ claim[c].state # "none"
        /\ GiveUp
        /\ UNCHANGED <<claim, current>>
  /\ UNCHANGED <<vm, vmSeen, cache, stored, entries, pendClaim, budget>>

\* The listed claims that are not attached any more.
NothingDetached(listed, names) == {}
Detached(listed, names) == listed \ names

ListAttached ==
  /\ job.pc = "create"
  /\ job.todo = {}
  /\ LET left == Detached(GetByIndex(job.vm), getPVCNames(job.spec)) IN
     job' = [job EXCEPT !.pc = "release", !.todo = left, !.same = left]
  /\ UNCHANGED <<api, vmSeen, cache, current, stored, entries, pendVM,
                 pendClaim, budget>>

\* The annotation is deleted from the map of the object listed, which is the
\* index's own until the claim controller adds another.
Erase(c) ==
  stored' = IF c \in job.same THEN [stored EXCEPT ![c] = None] ELSE stored

Release(c) ==
  /\ job.pc = "release"
  /\ c \in job.todo
  /\ Erase(c)
  /\ Update(c, IF c \in job.same THEN "index" ELSE "held", None)
  /\ Done(c)
  /\ UNCHANGED <<vm, vmSeen, cache, entries, pendVM, pendClaim, budget>>

StartOwning ==
  /\ job.pc = "release"
  /\ job.todo = {}
  /\ job' = [job EXCEPT !.pc = "own", !.todo = getPVCNames(job.spec)]
  /\ UNCHANGED <<api, vmSeen, cache, current, stored, entries, pendVM,
                 pendClaim, budget>>

\* The process ends, of a crash or a panic, and another takes over: the index
\* is empty again, the caches are listed anew and every object is an event.
Restart ==
  /\ job' = Idle
  /\ entries' = {}
  /\ stored' = [c \in Claims |-> "absent"]
  /\ vmSeen' = vm
  /\ cache' = claim
  /\ current' = [c \in Claims |-> {"cache"}]
  /\ pendVM' = {v \in VMs : vm[v].there}
  /\ pendClaim' = {c \in Claims : claim[c].state # "none"}

\* SetOwnerlessPVCReference: a claim of nobody, or of this machine already.
AnyOwner(c, v) == TRUE
Ownable(c, v)  == cache[c].owner \in {None, v}

\* A claim without annotations has a nil map, and the write into it panics.
SetOwner(c) ==
  /\ job.pc = "own"
  /\ c \in job.todo
  /\ \/ /\ cache[c].state = "bare"
        /\ Restart
        /\ UNCHANGED claim
     \/ /\ cache[c].state # "bare"
        /\ IF cache[c].state = "live" /\ Ownable(c, job.vm)
           THEN Update(c, "cache", job.vm)
           ELSE UNCHANGED <<claim, current>>
        /\ Done(c)
        /\ UNCHANGED <<vmSeen, cache, stored, entries, pendVM, pendClaim>>
  /\ UNCHANGED <<vm, budget>>

\* Whoever owns the claim, unless it is gone or being deleted.
UnsetBoundedPVCReference(c) ==
  IF cache[c].state \in {"bare", "live"} THEN Update(c, "cache", None)
  ELSE UNCHANGED <<claim, current>>

\* After the owner was erased, or not: an error of that Update is only logged.  If
\* the annotation lists the claim, its Delete is the next call.
Revoked(c) ==
  IF cache[c].state # "none" /\ c \in getRemovedPVCs(job.spec)
  THEN job' = [job EXCEPT !.doomed = {c}]
  ELSE Done(c)

UnsetOwner(c) ==
  /\ job.pc = "unset"
  /\ c \in job.todo
  /\ job.doomed = {}
  /\ UnsetBoundedPVCReference(c)
  /\ Revoked(c)
  /\ UNCHANGED <<vm, vmSeen, cache, stored, entries, pendVM, pendClaim,
                 budget>>

\* Delete goes by the name: the claim may be of another machine, or a new one.
DeletePVC(c) ==
  /\ c \in job.doomed
  /\ IF claim[c].state # "none"
     THEN Write(c, [claim[c] EXCEPT !.state = "deleting"])
     ELSE UNCHANGED <<claim, current>>
  /\ Done(c)
  /\ UNCHANGED <<vm, vmSeen, cache, stored, entries, pendVM, pendClaim,
                 budget>>

ReconcileDone ==
  /\ job.pc \in {"own", "unset"}
  /\ job.todo = {}
  /\ job' = Idle
  /\ UNCHANGED <<api, vmSeen, cache, current, stored, entries, pendVM,
                 pendClaim, budget>>

-----------------------------------------------------------------------------
(* The PersistentVolumeClaim controller, a worker of its own.              *)

AddedOnce(c)   == /\ cache[c].state \in {"bare", "live"}
                  /\ cache[c].owner # None
                  /\ stored[c] = "absent"
AddedAlways(c) == cache[c].state \in {"bare", "live"}
ToBeAdded(c)   == cache[c].state \in {"bare", "live"} /\ cache[c].owner # None

\* An object that leaves the index while the VM worker points to it becomes
\* the held one.
Superseded(c) ==
  LET others == current[c] \ {"index", "held"}
      held   == IF c \in job.same THEN "index" ELSE "held"
  IN  others \cup (IF held \in current[c] THEN {"held"} ELSE {})
             \cup (IF "cache" \in current[c] THEN {"index"} ELSE {})

PVCReconcile(c) ==
  /\ c \in pendClaim
  /\ pendClaim' = pendClaim \ {c}
  /\ IF ToBeAdded(c)
     THEN /\ Add(c, cache[c].owner)
          /\ current' = [current EXCEPT ![c] = Superseded(c)]
          /\ job' = [job EXCEPT !.same = @ \ {c}]
     ELSE UNCHANGED <<stored, entries, current, job>>
  /\ UNCHANGED <<api, vmSeen, cache, pendVM, budget>>

-----------------------------------------------------------------------------
(* The informers (external).                                               *)

VMWatch(v) ==
  /\ vmSeen[v] # vm[v]
  /\ vmSeen' = [vmSeen EXCEPT ![v] = vm[v]]
  /\ pendVM' = pendVM \cup {v}
  /\ UNCHANGED <<api, cache, current, stored, entries, pendClaim, job,
                 budget>>

ClaimWatch(c) ==
  /\ "cache" \notin current[c]
  /\ cache' = [cache EXCEPT ![c] = claim[c]]
  /\ current' = [current EXCEPT ![c] = @ \cup {"cache"}]
  /\ pendClaim' = pendClaim \cup {c}
  /\ UNCHANGED <<api, vmSeen, stored, entries, pendVM, job, budget>>

Resync ==
  /\ pendVM' = {v \in VMs : vmSeen[v].there} \cup pendVM
  /\ pendClaim' = {c \in Claims : cache[c].state # "none"} \cup pendClaim
  /\ UNCHANGED <<api, vmSeen, cache, current, stored, entries, job, budget>>

-----------------------------------------------------------------------------
(* Users, the storage and faults.                                          *)

Spend(kind) == kind \in Changes /\ budget > 0 /\ budget' = budget - 1

\* The volume controller annotates every claim sooner or later.
Bind(c) ==
  /\ claim[c].state = "bare"
  /\ Write(c, [claim[c] EXCEPT !.state = "live"])
  /\ UNCHANGED <<vm, vmSeen, cache, stored, entries, pendVM, pendClaim, job,
                 budget>>

ClaimGone(c) ==
  /\ claim[c].state = "deleting"
  /\ Write(c, NoClaim)
  /\ UNCHANGED <<vm, vmSeen, cache, stored, entries, pendVM, pendClaim, job,
                 budget>>

Edit(v, new) ==
  /\ vm[v].there
  /\ vm' = [vm EXCEPT ![v] = new]
  /\ UNCHANGED <<vmSeen, claim, cache, current, stored, entries, pendVM,
                 pendClaim, job>>

Attach(v, c) ==
  /\ Spend("attach")
  /\ c \notin vm[v].attached
  /\ \E new \in SUBSET {c} :
       Edit(v, [vm[v] EXCEPT !.attached = @ \cup {c},
                             !.template = @ \cup new])

Detach(v, c) ==
  /\ Spend("detach")
  /\ c \in vm[v].attached
  /\ Edit(v, [vm[v] EXCEPT !.attached = @ \ {c}, !.template = @ \ {c}])

MarkRemoved(v) ==
  /\ Spend("remove")
  /\ \E S \in SUBSET vm[v].attached :
       Edit(v, [vm[v] EXCEPT !.marked = TRUE, !.removed = S])

DeleteVM(v) ==
  /\ Spend("deleteVM")
  /\ Edit(v, [vm[v] EXCEPT !.there = FALSE])

DeleteClaim(c) ==
  /\ Spend("deleteClaim")
  /\ claim[c].state \in {"bare", "live"}
  /\ Write(c, [claim[c] EXCEPT !.state = "deleting"])
  /\ UNCHANGED <<vm, vmSeen, cache, stored, entries, pendVM, pendClaim, job>>

\* A call of the API fails for another reason than a conflict.
CallFails(c) ==
  /\ Spend("failure")
  /\ c \in job.todo
  /\ \/ /\ job.pc = "create" /\ cache[c].state = "none"
        /\ GiveUp
        /\ UNCHANGED <<claim, current, stored>>
     \/ /\ job.pc = "release"
        /\ Erase(c)
        /\ Done(c)
        /\ UNCHANGED <<claim, current, pendVM>>
     \/ /\ job.pc = "own"
        /\ Done(c)
        /\ UNCHANGED <<claim, current, stored, pendVM>>
     \/ /\ job.pc = "unset"
        /\ IF c \in job.doomed THEN Done(c) ELSE job.doomed = {} /\ Revoked(c)
        /\ UNCHANGED <<claim, current, stored, pendVM>>
  /\ UNCHANGED <<vm, vmSeen, cache, entries, pendClaim>>

Crash ==
  /\ Spend("crash")
  /\ Restart
  /\ UNCHANGED api

-----------------------------------------------------------------------------

VMWorker ==
  \/ ListAttached \/ StartOwning \/ ReconcileDone
  \/ \E c \in Claims : \/ createPVCsFromAnnotation(c) \/ Release(c)
                       \/ SetOwner(c) \/ UnsetOwner(c) \/ DeletePVC(c)

Next ==
  \/ VMWorker
  \/ Resync \/ Crash
  \/ \E v \in VMs :
       \/ Reconcile(v) \/ VMWatch(v) \/ MarkRemoved(v) \/ DeleteVM(v)
       \/ \E c \in Claims : Attach(v, c) \/ Detach(v, c)
  \/ \E c \in Claims :
       \/ PVCReconcile(c) \/ ClaimWatch(c) \/ Bind(c) \/ ClaimGone(c)
       \/ DeleteClaim(c) \/ CallFails(c)

Spec == Init /\ [][Next]_vars

\* The workers and the informers run, the queue hands out every key, the
\* storage annotates claims and the informers resync (every ten hours).
Fairness ==
  /\ WF_vars(VMWorker)
  /\ WF_vars(Resync)
  /\ \A v \in VMs : SF_vars(Reconcile(v)) /\ WF_vars(VMWatch(v))
  /\ \A c \in Claims :
       WF_vars(PVCReconcile(c)) /\ WF_vars(ClaimWatch(c)) /\ WF_vars(Bind(c))

FairSpec == Spec /\ Fairness

-----------------------------------------------------------------------------
(* Properties.                                                             *)

\* Every variable has its type; an index entry names a machine, and the VM
\* worker points only to objects it has still to deal with.
TypeOK ==
  /\ vm \in [VMs -> Machine]
  /\ vmSeen \in [VMs -> Machine]
  /\ claim \in [Claims -> Claim]
  /\ cache \in [Claims -> Claim]
  /\ current \in [Claims -> SUBSET {"cache", "index", "held"}]
  /\ stored \in [Claims -> VMs \cup {None, "absent"}]
  /\ entries \subseteq VMs \X Claims
  /\ pendVM \subseteq VMs
  /\ pendClaim \subseteq Claims
  /\ job \in Job
  /\ job.pc # "idle" => job.vm \in VMs
  /\ job.same \subseteq job.todo /\ job.doomed \subseteq job.todo
  /\ budget \in 0..MaxChanges

\* When the claim controller has caught up with the cache, every claim that
\* shows an owner is listed for that owner, although releases change the
\* index's objects behind its back: no machine overlooks a claim of its own.
OwnedIsListed ==
  \A c \in Claims :
    /\ c \notin pendClaim
    /\ cache[c].state \in {"bare", "live"}
    /\ cache[c].owner # None
    => <<cache[c].owner, c>> \in entries

\* A claim is never handed over from one machine to another in one step: it
\* is released in between, whatever copies the two handlers decided on.
NoTakeover ==
  [][\A c \in Claims :
       claim[c].owner \in VMs /\ claim'[c].owner \in VMs
         => claim'[c].owner = claim[c].owner]_vars

InUse(v)        == vm[v].there /\ ~vm[v].marked
AloneUses(v, c) == /\ claim[c].state = "live"
                   /\ \A w \in VMs : InUse(w)
                                     /\ (c \in vm[w].attached <=> w = v)

\* A claim that one machine goes on using and no other does becomes that
\* machine's, again and again, although conflicts and missing claims are only
\* logged, and although a leftover index entry may take it away in between.
UsedIsOwned ==
  \A v \in VMs, c \in Claims :
    <>[]AloneUses(v, c) => []<>(claim[c].owner = v)

\* A claim that a machine stops using does not stay the machine's, although
\* the refused Update of a stale index copy is only logged.
UnusedIsReleased ==
  \A v \in VMs, c \in Claims :
    <>[](claim[c].state = "live" /\ InUse(v) /\ c \notin vm[v].attached)
      => <>[](claim[c].owner # v)

\* SetOwnerOfPVCs takes from the index "all the volumes attached to this
\* virtual machine": what it releases is never owned by another machine.
OwnerKept ==
  [][\A c \in Claims :
       job.pc = "release" /\ claim[c].owner \in VMs
         /\ claim'[c].owner = None => claim[c].owner = job.vm]_vars
=============================================================================
