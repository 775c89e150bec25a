-------------------------- MODULE VMBackup_proofs --------------------------
(***************************************************************************)
(* Proofs about VMBackup for any number of disks, any targets and any      *)
(* bounds.                                                                 *)
(***************************************************************************)
EXTENDS VMBackup, TLAPS

----------------------------------------------------------------------------
(* What the operators return                                               *)

Vols == [Volumes -> VolumeBackup]

\* The constants of the model are of their kinds.
LEMMA ConstantTypes ==
  /\ NumVolumes \in Nat /\ 1 \in Volumes /\ 1 \in 1..(NumVolumes + 1)
  /\ 0 \in Uids /\ 1 \in Uids
  /\ 0 \in 0..OpError /\ OpError \in 0..OpError
  /\ NoVols \in Vols
  /\ \A u \in Uids, f \in BOOLEAN : Blank(u, f) \in VMBackup
  /\ Absent \in VMBackup /\ NoSnapshot \in Snapshot /\ NoMetadata \in Metadata
  /\ Idle \in [target : Targets \cup {"none"}, meta : Metadata]
  /\ AnnotatedTarget \in Targets
<1>1. /\ NumVolumes \in Nat /\ 1 \in Volumes /\ 1 \in 1..(NumVolumes + 1)
      /\ 0 \in Uids /\ 1 \in Uids /\ 0 \in 0..OpError /\ OpError \in 0..OpError
  BY VolumesAssumption, BoundsAssumption DEF Uids, OpError, Volumes
<1>2. NoVols \in Vols
  BY DEF NoVols, VolumeBackup, Vols
<1>3. \A u \in Uids, f \in BOOLEAN : Blank(u, f) \in VMBackup
  BY <1>1, <1>2 DEF Blank, VMBackup, Recorded, Vols
<1>4. NoSnapshot \in Snapshot /\ NoMetadata \in Metadata
  BY <1>1 DEF NoSnapshot, Snapshot, NoMetadata, Metadata, Phases
<1>5. AnnotatedTarget \in Targets
  BY TargetsAssumption DEF AnnotatedTarget
<1>6. Absent \in VMBackup
  BY <1>1, <1>3 DEF Absent
<1> QED BY <1>1, <1>2, <1>3, <1>4, <1>5, <1>6 DEF Idle

\* The first volume in error is a volume, or 0.
LEMMA FirstErrorType ==
  ASSUME NEW o
  PROVE  /\ FirstError(o) \in 0..NumVolumes
         /\ FirstError(o) # 0 => FirstError(o) \in Volumes /\ o.vols[FirstError(o)].err
<1>1. CASE \E v \in Volumes : IsFirstError(o, v)
  <2>1. FirstError(o) \in Volumes /\ IsFirstError(o, FirstError(o))
    BY <1>1, Zenon DEF FirstError
  <2> QED BY <2>1, VolumesAssumption DEF IsFirstError, Volumes
<1>2. CASE ~\E v \in Volumes : IsFirstError(o, v)
  BY <1>2, VolumesAssumption DEF FirstError
<1> QED BY <1>1, <1>2

\* The operators on a backup's status make backups of backups, with the same uid.
LEMMA StatusTypes ==
  ASSUME NEW o \in VMBackup
  PROVE  /\ StatusError(o) \in VMBackup /\ StatusError(o).uid = o.uid
         /\ NewConditions(o) \in VMBackup /\ NewConditions(o).uid = o.uid
         /\ setting \in Settings /\ setting # "unset" =>
              NewStatus(o) \in VMBackup /\ NewStatus(o).uid = o.uid
<1>1. StatusError(o) \in VMBackup /\ StatusError(o).uid = o.uid
  <2>1. 0 \in 0..OpError /\ OpError \in 0..OpError /\ NoVols \in Vols
    BY ConstantTypes
  <2> QED BY <2>1 DEF StatusError, Blank, VMBackup, Recorded, Vols
<1>2. NewConditions(o) \in VMBackup /\ NewConditions(o).uid = o.uid
  <2>1. FirstError(o) \in 0..OpError
    BY ConstantTypes, FirstErrorType DEF OpError
  <2>2. VolumesReady(o) \in BOOLEAN
    BY DEF VolumesReady
  <2>3. 0 \in 0..OpError
    BY ConstantTypes
  <2> QED BY <2>1, <2>2, <2>3 DEF NewConditions, VMBackup
<1>3. ASSUME setting \in Settings, setting # "unset"
      PROVE  NewStatus(o) \in VMBackup /\ NewStatus(o).uid = o.uid
  <2>1. 0 \in 0..OpError /\ NoVols \in Vols
    BY ConstantTypes
  <2> QED BY <1>3, <2>1 DEF NewStatus, Blank, VMBackup, Recorded, Settings, Vols
<1> QED BY <1>1, <1>2, <1>3
----------------------------------------------------------------------------
(* The inductive invariant.  The properties are about what is stored, but   *)
(* every write is computed from a copy read earlier, so the invariant says *)
(* what the copies and the handlers' places are worth.                     *)

\* A status whose parts agree, stored or copied.
NotBoth(vols) == \A v \in Volumes : ~(vols[v].ready /\ vols[v].err)
Complete(o) == /\ o.uid # 0 /\ o.src /\ o.error = 0 /\ o.cond = "ready"
               /\ \A v \in Volumes : o.vols[v].ready
Sane(o) == (o.ready => Complete(o)) /\ NotBoth(o.vols)
SaneInv == Sane(obj) /\ Sane(cache) /\ \A a \in Actors : Sane(loc[a])

\* A copy with the stored resource version is what is stored.
CurrentInv == /\ "cache" \in current => cache = obj
              /\ \A a \in Actors : a \in current => loc[a] = obj

\* What a handler knows of the object it read, at the places where it matters:
\* it only computes a status for a backup that was not ready.
HandlerInv(a) ==
  /\ pc[a] \in {"init", "statusError", "snapshots", "created", "conditions"} => ~loc[a].ready
  /\ pc[a] = "init" => ~loc[a].src
  /\ pc[a] \in {"snapshots", "created", "conditions"} => loc[a].src /\ loc[a].uid # 0
  /\ pc[a] \in {"snapshots", "created"} =>
       \A v \in Volumes : cpy[a][v].lh = loc[a].vols[v].lh
  /\ NotBoth(cpy[a])
  /\ pc[a] \in {"created", "lhUpdate"} => idx[a] \in Volumes
  /\ pc[a] = "target" /\ Kind = "backup" => isBackupTargetOnAnnotation(loc[a])

\* No copy is of an object still to be created.
UidInv == /\ obj.uid <= inc /\ cache.uid <= inc
          /\ \A a \in Actors : loc[a].uid <= inc
          /\ Start = "legacy" => inc >= 1

\* A backup of v0.3.0 was ready, and is recorded nowhere or where its
\* annotations say.
LegacyInv == isBackupTargetOnAnnotation(obj) =>
               obj.ready /\ obj.target \in {"none", AnnotatedTarget}

IndInv == /\ TypeOK /\ SaneInv /\ CurrentInv /\ UidInv /\ LegacyInv
          /\ StaleCopiesAgree
          /\ \A a \in Actors : HandlerInv(a)

\* What a step may do to the stored object and to the copies of it.
ObjStep ==
  /\ Sane(obj') /\ LegacyInv'
  /\ \/ obj'.uid = obj.uid /\ inc' = inc
     \/ obj' = Absent /\ inc' = inc
     \/ obj'.uid = inc + 1 /\ inc' = inc + 1
  /\ obj.ready /\ obj'.uid = obj.uid => ReadyStays
  /\ obj.src /\ obj'.src /\ obj'.uid = obj.uid => LonghornNamesStay
CopyStep == /\ cache' \in {cache, obj'}
            /\ \A a \in Actors : loc'[a] \in {loc[a], cache, Absent}
            /\ CurrentInv'
Preserved == /\ TypeOK' /\ ObjStep /\ CopyStep
             /\ \A a \in Actors : HandlerInv(a)'

----------------------------------------------------------------------------
(* Steps that leave parts of the state alone                               *)

\* A part of the state that a step leaves alone keeps its type.
LEMMA Same ==
  ASSUME TypeOK
  PROVE  /\ UNCHANGED api => ApiOK'
         /\ UNCHANGED locals => LocalsOK'
         /\ UNCHANGED cluster => ClusterOK'
         /\ UNCHANGED store => StoreOK'
         /\ UNCHANGED bounds => BoundsOK'
<1>1. UNCHANGED api => ApiOK'
  BY DEF TypeOK, ApiOK, api
<1>2. UNCHANGED locals => LocalsOK'
  BY DEF TypeOK, LocalsOK, locals
<1>3. UNCHANGED cluster => ClusterOK'
  BY DEF TypeOK, ClusterOK, cluster
<1>4. UNCHANGED store => StoreOK'
  BY DEF TypeOK, StoreOK, store
<1>5. UNCHANGED bounds => BoundsOK'
  BY DEF TypeOK, BoundsOK, bounds
<1> QED BY <1>1, <1>2, <1>3, <1>4, <1>5

\* A disturbance stays within the budget.
LEMMA DisturbBounds ==
  ASSUME TypeOK, NEW kind, Disturb(kind), inc' = inc
  PROVE  BoundsOK'
BY BoundsAssumption DEF TypeOK, BoundsOK, Disturb

\* A step that does not touch the stored object.
LEMMA SameObject ==
  ASSUME IndInv, obj' = obj, inc' = inc
  PROVE  ObjStep
BY DEF IndInv, SaneInv, ObjStep, LegacyInv, isBackupTargetOnAnnotation, AnnotatedTarget,
       ReadyStays, LonghornNamesStay, Sane, Complete, NotBoth

\* A step that does not touch the handlers.
LEMMA SameHandlers ==
  ASSUME IndInv, UNCHANGED locals
  PROVE  \A a \in Actors : HandlerInv(a)' /\ loc'[a] = loc[a]
BY DEF IndInv, HandlerInv, NotBoth, locals, isBackupTargetOnAnnotation

\* The facts a step has to establish are enough for the invariant.
LEMMA PreservedIsEnough ==
  ASSUME IndInv, Preserved
  PROVE  IndInv'
<1> USE DEF IndInv, Preserved
<1>1. SaneInv'
  <2>1. Sane(Absent)
    BY DEF Sane, Complete, NotBoth, Absent, Blank, NoVols
  <2>2. Sane(cache)'
    <3>1. CASE cache' = cache
      BY <3>1 DEF SaneInv, Sane, Complete, NotBoth
    <3>2. CASE cache' = obj'
      BY <3>2 DEF ObjStep, Sane, Complete, NotBoth
    <3> QED BY <3>1, <3>2 DEF CopyStep
  <2>3. ASSUME NEW a \in Actors PROVE Sane(loc[a])'
    <3>1. CASE loc'[a] = loc[a]
      BY <3>1 DEF SaneInv, Sane, Complete, NotBoth
    <3>2. CASE loc'[a] = cache
      BY <3>2 DEF SaneInv, Sane, Complete, NotBoth
    <3>3. CASE loc'[a] = Absent
      BY <3>3, <2>1 DEF Sane, Complete, NotBoth
    <3> QED BY <3>1, <3>2, <3>3 DEF CopyStep
  <2> QED BY <2>2, <2>3 DEF SaneInv, ObjStep
<1>2. UidInv'
  <2>1. Absent.uid = 0
    BY DEF Absent, Blank
  <2>2. inc \in Nat /\ inc' \in Nat
    BY BoundsAssumption DEF TypeOK, BoundsOK
  <2>3. inc <= inc' /\ obj'.uid <= inc'
    BY <2>1, <2>2 DEF ObjStep, UidInv, TypeOK, ApiOK, VMBackup, Uids
  <2>4. \A o \in VMBackup : o.uid \in Int
    BY DEF VMBackup, Uids
  <2>5. cache \in VMBackup /\ \A a \in Actors : loc[a] \in VMBackup
    BY DEF TypeOK, ApiOK, LocalsOK
  <2>6. cache'.uid <= inc'
    BY <2>2, <2>3, <2>4, <2>5 DEF CopyStep, UidInv
  <2>7. ASSUME NEW a \in Actors PROVE loc'[a].uid <= inc'
    BY <2>1, <2>2, <2>3, <2>4, <2>5 DEF CopyStep, UidInv
  <2> QED BY <2>2, <2>3, <2>6, <2>7 DEF UidInv
<1>3. StaleCopiesAgree'
  <2>1. ASSUME NEW o \in VMBackup, StillTrue(o), Sane(o), o.uid <= inc
        PROVE  StillTrue(o)'
    <3>1. inc \in Nat /\ o.uid \in Int
      BY BoundsAssumption DEF TypeOK, BoundsOK, VMBackup, Uids
    <3>2. CASE obj'.uid = obj.uid
      BY <2>1, <3>2 DEF StillTrue, ObjStep, ReadyStays
    <3>3. CASE obj' = Absent
      BY <2>1, <3>3 DEF StillTrue, Sane, Complete, Absent, Blank
    <3>4. CASE obj'.uid = inc + 1
      BY <2>1, <3>1, <3>4 DEF StillTrue
    <3> QED BY <3>2, <3>3, <3>4 DEF ObjStep
  <2>2. StillTrue(cache)'
    <3>1. CASE cache' = cache
      BY <2>1, <3>1 DEF SaneInv, UidInv, StaleCopiesAgree, TypeOK, ApiOK, StillTrue
    <3>2. CASE cache' = obj'
      BY <3>2 DEF StillTrue
    <3> QED BY <3>1, <3>2 DEF CopyStep
  <2>3. ASSUME NEW a \in Actors PROVE StillTrue(loc[a])'
    <3>1. CASE loc'[a] = loc[a]
      BY <2>1, <3>1 DEF SaneInv, UidInv, StaleCopiesAgree, TypeOK, LocalsOK, StillTrue
    <3>2. CASE loc'[a] = cache
      BY <2>1, <3>2 DEF SaneInv, UidInv, StaleCopiesAgree, TypeOK, ApiOK, StillTrue
    <3>3. CASE loc'[a] = Absent
      BY <3>3 DEF StillTrue, Absent, Blank
    <3> QED BY <3>1, <3>2, <3>3 DEF CopyStep
  <2> QED BY <2>2, <2>3 DEF StaleCopiesAgree
<1> QED BY <1>1, <1>2, <1>3 DEF ObjStep, CopyStep

----------------------------------------------------------------------------
(* How a handler moves on                                                  *)

\* A step of a's after which the handlers are as the invariant says and those
\* that have the stored version are among holders.
Moved(holders) ==
  /\ LocalsOK' /\ queue' \subseteq Items
  /\ current' \subseteq holders
  /\ \A b \in Actors : /\ HandlerInv(b)'
                       /\ loc'[b] \in {loc[b], cache, Absent}
                       /\ b \in current' => loc'[b] = loc[b]

\* A handler that drops its object, for its finalizer or at its end.
LEMMA ForgetMoves ==
  ASSUME IndInv, NEW a \in Actors, NEW where \in {"idle", "finalizer", "delete"}, NEW holders,
         Forget(a, where, holders), hadFin' \subseteq Actors, queue' \subseteq Items
  PROVE  Moved(holders)
<1> USE DEF IndInv, Forget
<1>1. LocalsOK'
  BY ConstantTypes DEF TypeOK, LocalsOK, PCs, Vols
<1>2. ASSUME NEW b \in Actors
      PROVE  /\ HandlerInv(b)' /\ loc'[b] \in {loc[b], cache, Absent}
             /\ b \in current' => loc'[b] = loc[b]
  <2>1. CASE b = a
    <3>1. pc'[a] = where /\ loc'[a] = Absent /\ cpy'[a] = NoVols /\ a \notin current'
      BY DEF TypeOK, LocalsOK
    <3>2. NotBoth(NoVols) /\ where \notin {"init", "statusError", "snapshots", "created",
                                           "conditions", "lhUpdate", "target"}
      BY DEF NotBoth, NoVols
    <3>3. HandlerInv(a)'
      BY <3>1, <3>2 DEF HandlerInv, NotBoth
    <3> QED BY <2>1, <3>1, <3>3
  <2>2. CASE b # a
    <3>1. /\ pc'[b] = pc[b] /\ loc'[b] = loc[b] /\ cpy'[b] = cpy[b] /\ idx'[b] = idx[b]
      BY <2>2 DEF TypeOK, LocalsOK
    <3>2. HandlerInv(b)
      OBVIOUS
    <3> QED BY <3>1, <3>2 DEF HandlerInv, NotBoth, isBackupTargetOnAnnotation
  <2> QED BY <2>1, <2>2
<1> QED BY <1>1, <1>2 DEF Moved

\* A handler that returns nil.
LEMMA ReturnMoves ==
  ASSUME IndInv, NEW a \in Actors, NEW holders, Return(a, holders)
  PROVE  Moved(holders)
<1>1. Forget(a, "idle", holders) /\ hadFin' \subseteq Actors /\ queue' \subseteq Items
  BY DEF Return, IndInv, TypeOK, LocalsOK
<1> QED BY <1>1, ForgetMoves

\* A handler that returns an error, which queues its item again (or is dropped).
LEMMA FailMoves ==
  ASSUME IndInv, NEW a \in Actors, NEW holders, Fail(a, holders),
         a = "lh" => idx[a] \in Volumes
  PROVE  Moved(holders)
<1>1. Forget(a, "idle", holders) /\ hadFin' \subseteq Actors
  BY DEF Fail, IndInv, TypeOK, LocalsOK
<1>2. queue' \subseteq Items
  <2>1. queue \subseteq Items /\ <<"backup", 0>> \in Items
    BY DEF IndInv, TypeOK, Items
  <2>2. a = "lh" => <<"lh", idx[a]>> \in Items
    BY DEF Items
  <2> QED BY <2>1, <2>2 DEF Fail
<1> QED BY <1>1, <1>2, ForgetMoves

\* OnBackupChange returned nil: on to the finalizer, or the end.
LEMMA AfterChangeMoves ==
  ASSUME IndInv, NEW a \in Actors, NEW holders, AfterChange(a, holders)
  PROVE  Moved(holders)
<1>1. CASE a \in hadFin
  BY <1>1, ReturnMoves DEF AfterChange
<1>2. CASE a \notin hadFin
  <2>1. Forget(a, "finalizer", holders) /\ hadFin' \subseteq Actors /\ queue' \subseteq Items
    BY <1>2 DEF AfterChange, IndInv, TypeOK, LocalsOK
  <2> QED BY <2>1, ForgetMoves
<1> QED BY <1>1, <1>2

\* A handler that moves without reading or dropping its object.
LEMMA GotoMoves ==
  ASSUME IndInv, NEW a \in Actors, NEW where \in PCs \ {"target", "lhUpdate", "snapshots"},
         Goto(a, where), UNCHANGED queue, NEW holders, current' \subseteq holders,
         where \in {"init", "statusError", "created", "conditions"} => pc[a] = "snapshots",
         where = "created" => idx[a] \in Volumes,
         where # "init"
  PROVE  Moved(holders)
<1> USE DEF IndInv, Goto
<1>1. LocalsOK' /\ queue' \subseteq Items
  BY DEF TypeOK, LocalsOK
<1>2. ASSUME NEW b \in Actors
      PROVE  HandlerInv(b)' /\ loc'[b] = loc[b]
  <2>1. CASE b = a
    <3>1. pc'[a] = where
      BY DEF TypeOK, LocalsOK
    <3>2. HandlerInv(a)
      OBVIOUS
    <3> QED BY <2>1, <3>1, <3>2 DEF HandlerInv, NotBoth
  <2>2. CASE b # a
    <3>1. pc'[b] = pc[b]
      BY <2>2 DEF TypeOK, LocalsOK
    <3>2. HandlerInv(b)
      OBVIOUS
    <3> QED BY <3>1, <3>2 DEF HandlerInv, NotBoth, isBackupTargetOnAnnotation
  <2> QED BY <2>1, <2>2
<1> QED BY <1>1, <1>2 DEF Moved

\* A handler's step that writes the object, or leaves it alone.
LEMMA MovedPreserves ==
  ASSUME IndInv, NEW holders, Moved(holders), cache' = cache, ObjStep,
         obj' \in VMBackup, ClusterOK', StoreOK', BoundsOK',
         holders = {} \/ (obj' = obj /\ holders \subseteq current)
  PROVE  Preserved
<1>1. CurrentInv'
  BY DEF IndInv, CurrentInv, Moved
<1>2. current' \subseteq Actors \cup {"cache"}
  BY DEF IndInv, TypeOK, ApiOK, Moved
<1>3. TypeOK'
  BY <1>2 DEF IndInv, TypeOK, ApiOK, Moved
<1> QED BY <1>1, <1>3 DEF Preserved, CopyStep, Moved

\* A handler's step that leaves the stored object alone.
LEMMA UnwrittenPreserves ==
  ASSUME IndInv, Moved(current), obj' = obj, cache' = cache, inc' = inc,
         ClusterOK', StoreOK', BoundsOK'
  PROVE  Preserved
<1>1. ObjStep /\ obj' \in VMBackup
  BY SameObject DEF IndInv, TypeOK, ApiOK
<1> QED BY <1>1, MovedPreserves

\* A step in which neither the object nor the handlers move; and one in which
\* somebody else writes the object.
LEMMA QuietPreserves ==
  ASSUME IndInv, UNCHANGED <<api, locals>>, inc' = inc, queue' \subseteq Items,
         ClusterOK', StoreOK', BoundsOK'
  PROVE  Preserved
<1>1. ObjStep
  BY SameObject DEF api
<1>2. CopyStep
  BY SameHandlers DEF CopyStep, IndInv, CurrentInv, api
<1>3. TypeOK'
  BY Same DEF IndInv, TypeOK
<1> QED BY <1>1, <1>2, <1>3, SameHandlers DEF Preserved

\* A write by somebody other than the handlers.
LEMMA WritePreserves ==
  ASSUME IndInv, ObjStep, obj' \in VMBackup, cache' = cache, current' = {},
         UNCHANGED locals, queue' \subseteq Items, ClusterOK', StoreOK', BoundsOK'
  PROVE  Preserved
<1>1. CopyStep
  BY SameHandlers DEF CopyStep, CurrentInv
<1>2. TypeOK'
  BY Same DEF IndInv, TypeOK, ApiOK
<1> QED BY <1>1, <1>2, SameHandlers DEF Preserved

\* Where Route sends a handler fits the object it read.
Fits(where, o) ==
  /\ where \in PCs \ {"created", "conditions"}
  /\ where \in {"init", "statusError", "snapshots"} => ~o.ready
  /\ where = "init" => ~o.src
  /\ where = "snapshots" => o.src /\ o.uid # 0
  /\ where = "target" /\ Kind = "backup" => isBackupTargetOnAnnotation(o)

\* Route sends a handler only where its object fits.
LEMMA RouteFits ==
  ASSUME NEW o \in VMBackup, o.uid # 0
  PROVE  Fits(Route(o), o) /\ Route(o) # "lhUpdate"
<1>1. ReadyRoute(o) \in {"csi", "target", "upload"}
  BY DEF ReadyRoute, VMBackup
<1>2. ReadyRoute(o) = "target" => Kind = "snapshot" \/ isBackupTargetOnAnnotation(o)
  BY DEF ReadyRoute, VMBackup
<1>3. getBackupSource \in {"init", "statusError"}
  BY DEF getBackupSource
<1>4. CASE o.deleting
  BY <1>4 DEF Route, Fits, PCs
<1>5. CASE ~o.deleting /\ o.ready
  <2>1. Route(o) = ReadyRoute(o)
    BY <1>5 DEF Route, IsBackupReady
  <2> QED BY <1>1, <1>2, <2>1, ChoicesAssumption DEF Fits, PCs
<1>6. CASE ~o.deleting /\ ~o.ready /\ ~o.src
  <2>1. Route(o) = getBackupSource
    BY <1>6 DEF Route, IsBackupReady, isBackupMissingStatus
  <2> QED BY <1>3, <1>6, <2>1 DEF Fits, PCs
<1>7. CASE ~o.deleting /\ ~o.ready /\ o.src
  <2>1. Route(o) = "snapshots"
    BY <1>7 DEF Route, IsBackupReady, isBackupMissingStatus
  <2> QED BY <1>7, <2>1 DEF Fits, PCs
<1> QED BY <1>4, <1>5, <1>6, <1>7 DEF VMBackup

\* A handler that takes the object in the cache.
LEMMA EnterPreserves ==
  ASSUME IndInv, NEW a \in Actors, NEW where, Fits(where, cache), Enter(a, where),
         idx' \in [Actors -> 1..(NumVolumes + 1)],
         \A b \in Actors \ {a} : idx'[b] = idx[b],
         where = "lhUpdate" => idx'[a] \in Volumes,
         queue' \subseteq Items, UNCHANGED <<obj, cache, cluster, store, bounds>>
  PROVE  Preserved
<1> USE DEF IndInv
<1>1. LocalsOK'
  <2>1. cache \in VMBackup /\ cache.vols \in Vols
    BY DEF TypeOK, ApiOK, VMBackup, Vols
  <2> QED BY <2>1, ConstantTypes DEF TypeOK, LocalsOK, Enter, Fits, Vols
<1>2. /\ pc'[a] = where
      /\ loc'[a] = IF where = "delete" THEN Absent ELSE cache
      /\ cpy'[a] = IF where = "snapshots" THEN cache.vols ELSE NoVols
  BY DEF Enter, TypeOK, LocalsOK
<1>3. HandlerInv(a)'
  <2>1. NotBoth(NoVols) /\ NotBoth(cache.vols)
    BY DEF NotBoth, NoVols, SaneInv, Sane
  <2>2. NotBoth(cpy'[a])
    BY <1>2, <2>1
  <2> QED BY <1>2, <2>2 DEF HandlerInv, Fits, isBackupTargetOnAnnotation, NotBoth
<1>4. ASSUME NEW b \in Actors, b # a
      PROVE  HandlerInv(b)' /\ loc'[b] = loc[b]
  <2>1. pc'[b] = pc[b] /\ loc'[b] = loc[b] /\ cpy'[b] = cpy[b] /\ idx'[b] = idx[b]
    BY <1>4 DEF Enter, TypeOK, LocalsOK
  <2>2. HandlerInv(b)
    OBVIOUS
  <2> QED BY <2>1, <2>2 DEF HandlerInv, NotBoth, isBackupTargetOnAnnotation
<1>5. CurrentInv' /\ current' \subseteq Actors \cup {"cache"}
  <2>1. CASE where = "delete"
    BY <1>2, <1>4, <2>1 DEF Enter, CurrentInv, TypeOK, ApiOK, Actors, Workers
  <2>2. CASE where # "delete"
    BY <1>2, <1>4, <2>2 DEF Enter, ReadBy, CurrentInv, TypeOK, ApiOK, Actors, Workers
  <2> QED BY <2>1, <2>2
<1>6. ObjStep
  BY SameObject DEF bounds
<1>7. TypeOK'
  BY <1>1, <1>5, Same DEF TypeOK, ApiOK
<1> QED BY <1>2, <1>3, <1>4, <1>5, <1>6, <1>7 DEF Preserved, CopyStep

\* The manager starts again.
LEMMA RestartPreserves ==
  ASSUME IndInv, Restart, ObjStep, obj' \in VMBackup, vs' \in [Volumes -> Snapshot],
         vsc' \in [Volumes -> Uids], UNCHANGED <<lhb, vm, setting, remote>>, BoundsOK'
  PROVE  Preserved
<1> USE DEF IndInv
<1>1. TypeOK'
  <2>1. ApiOK' /\ ClusterOK' /\ StoreOK'
    BY ConstantTypes DEF Restart, TypeOK, ApiOK, ClusterOK, StoreOK
  <2>2. LocalsOK'
    BY ConstantTypes DEF Restart, LocalsOK, PCs, Vols
  <2>3. queue' \subseteq Items
    BY DEF Restart, Listed
  <2> QED BY <2>1, <2>2, <2>3 DEF TypeOK
<1>2. CopyStep
  BY DEF Restart, CopyStep, CurrentInv, Actors, Workers
<1>3. ASSUME NEW a \in Actors PROVE HandlerInv(a)'
  <2>1. pc'[a] = "idle" /\ cpy'[a] = NoVols
    BY DEF Restart
  <2>2. NotBoth(NoVols)
    BY DEF NotBoth, NoVols
  <2> QED BY <2>1, <2>2 DEF HandlerInv, NotBoth
<1> QED BY <1>1, <1>2, <1>3 DEF Preserved

----------------------------------------------------------------------------
(* What each writer does to the stored object                              *)

\* A write that keeps the uid of a backup that was not ready.
LEMMA NotReadyWrite ==
  ASSUME IndInv, ~obj.ready, obj'.uid = obj.uid, inc' = inc, Sane(obj'),
         obj.src /\ obj'.src => LonghornNamesStay
  PROVE  ObjStep
BY DEF IndInv, ObjStep, LegacyInv, isBackupTargetOnAnnotation

\* setStatusError wipes the status of a backup that was not ready.
LEMMA StatusErrorStep ==
  ASSUME IndInv, ~obj.ready, obj' = StatusError(obj), inc' = inc
  PROVE  ObjStep /\ obj' \in VMBackup
<1>1. obj' \in VMBackup /\ obj'.uid = obj.uid
  BY StatusTypes DEF IndInv, TypeOK, ApiOK
<1>2. ~obj'.ready /\ ~obj'.src /\ obj'.vols = NoVols
  BY DEF StatusError, Blank
<1>3. Sane(obj')
  BY <1>2 DEF Sane, NotBoth, NoVols
<1> QED BY <1>1, <1>2, <1>3, NotReadyWrite

\* initBackup computes a status for a backup that had none.
LEMMA NewStatusStep ==
  ASSUME IndInv, ~obj.ready, ~obj.src, obj' = NewStatus(obj), inc' = inc,
         Kind = "backup" => setting # "unset"
  PROVE  ObjStep /\ obj' \in VMBackup
<1>1. obj' \in VMBackup /\ obj'.uid = obj.uid
  <2>1. CASE setting # "unset"
    BY <2>1, StatusTypes DEF IndInv, TypeOK, ApiOK, ClusterOK
  <2>2. CASE Kind # "backup"
    <3>1. 0 \in 0..OpError /\ NoVols \in Vols
      BY ConstantTypes
    <3> QED BY <2>2, <3>1 DEF NewStatus, Blank, VMBackup, Recorded, Vols, IndInv, TypeOK, ApiOK
  <2> QED BY <2>1, <2>2
<1>2. ~obj'.ready /\ obj'.vols = NoVols
  BY DEF NewStatus, Blank
<1>3. Sane(obj')
  BY <1>2 DEF Sane, NotBoth, NoVols
<1> QED BY <1>1, <1>2, <1>3, NotReadyWrite

\* updateConditions never reports ready a backup whose volumes are not.
LEMMA NewConditionsStep ==
  ASSUME IndInv, ~obj.ready, obj.src, obj.uid # 0, obj' = NewConditions(obj), inc' = inc
  PROVE  ObjStep /\ obj' \in VMBackup
<1>1. obj' \in VMBackup /\ obj'.uid = obj.uid
  BY StatusTypes DEF IndInv, TypeOK, ApiOK
<1>2. obj \in VMBackup
  BY DEF IndInv, TypeOK, ApiOK
<1>3. obj'.src = obj.src /\ obj'.vols = obj.vols /\ obj'.ready = VolumesReady(obj)
  BY <1>2 DEF NewConditions, VMBackup
<1>4. NotBoth(obj.vols)
  BY DEF IndInv, SaneInv, Sane
<1>5. ASSUME VolumesReady(obj)
      PROVE  Complete(obj')
  <2>1. FirstError(obj) = 0
    <3>1. SUFFICES ASSUME FirstError(obj) # 0 PROVE FALSE
      OBVIOUS
    <3>2. FirstError(obj) \in Volumes /\ obj.vols[FirstError(obj)].err
      BY <3>1, FirstErrorType
    <3>3. obj.vols[FirstError(obj)].ready
      BY <1>5, <3>2 DEF VolumesReady, Volumes
    <3> QED BY <1>4, <3>2, <3>3 DEF NotBoth
  <2>2. \A v \in Volumes : obj.vols[v].ready
    BY <1>5, <2>1 DEF VolumesReady
  <2>3. obj'.error = 0 /\ obj'.cond = "ready"
    BY <1>2, <1>5, <2>1 DEF NewConditions, VMBackup
  <2> QED BY <1>1, <1>3, <2>2, <2>3 DEF Complete
<1>6. Sane(obj')
  BY <1>3, <1>4, <1>5 DEF Sane
<1>7. obj.src /\ obj'.src => LonghornNamesStay
  BY <1>3 DEF LonghornNamesStay
<1> QED BY <1>1, <1>6, <1>7, NotReadyWrite

\* A write that leaves the status alone but for the finalizer, the deletion
\* mark, the snapshot classes or Longhorn names that are added.
LEMMA MarkStep ==
  ASSUME IndInv, obj' \in VMBackup, obj'.uid = obj.uid, inc' = inc,
         obj'.src = obj.src, obj'.ready = obj.ready, obj'.error = obj.error,
         obj'.cond = obj.cond, obj'.target = obj.target,
         \A v \in Volumes : /\ obj'.vols[v].ready = obj.vols[v].ready
                            /\ obj'.vols[v].err = obj.vols[v].err
                            /\ obj.vols[v].lh => obj'.vols[v].lh
  PROVE  ObjStep
<1>1. Sane(obj')
  BY DEF IndInv, SaneInv, Sane, Complete, NotBoth
<1>2. LegacyInv'
  BY DEF IndInv, LegacyInv, isBackupTargetOnAnnotation, AnnotatedTarget
<1>3. obj.ready => ReadyStays
  BY DEF IndInv, SaneInv, Sane, Complete, ReadyStays
<1> QED BY <1>1, <1>2, <1>3 DEF ObjStep, LonghornNamesStay

\* The object goes, or a new one comes.
LEMMA GoneStep ==
  ASSUME IndInv, obj.uid # 0, obj' = Absent, inc' = inc
  PROVE  ObjStep
BY DEF ObjStep, LegacyInv, isBackupTargetOnAnnotation, Absent, Blank, Sane, NotBoth, NoVols

\* A new object comes, with a uid no copy has.
LEMMA NewStep ==
  ASSUME IndInv, obj'.uid = inc + 1, inc' = inc + 1, ~obj'.ready, NotBoth(obj'.vols)
  PROVE  ObjStep
<1>1. inc \in Nat /\ obj.uid \in Int /\ obj.uid <= inc /\ (Start = "legacy" => inc >= 1)
  BY BoundsAssumption DEF IndInv, UidInv, TypeOK, ApiOK, BoundsOK, VMBackup, Uids
<1>2. obj'.uid # obj.uid /\ (Start = "legacy" => obj'.uid # 1)
  BY <1>1
<1> QED BY <1>2 DEF ObjStep, LegacyInv, isBackupTargetOnAnnotation, Sane

\* An error of reconcileVolumeSnapshots: the status is lost, or not, and the
\* manager starts again.
LEMMA PanicPreserves ==
  ASSUME IndInv, NEW a \in Actors, ~loc[a].ready, PanicOnError(a), inc' = inc,
         vsc' \in [Volumes -> Uids], UNCHANGED <<lhb, vm, setting, remote>>, BoundsOK'
  PROVE  Preserved
<1>1. ObjStep /\ obj' \in VMBackup
  <2>1. CASE obj' = obj
    BY <2>1, SameObject DEF IndInv, TypeOK, ApiOK
  <2>2. CASE a \in current /\ obj' = StatusError(loc[a])
    <3>1. loc[a] = obj
      BY <2>2 DEF IndInv, CurrentInv
    <3> QED BY <2>2, <3>1, StatusErrorStep
  <2> QED BY <2>1, <2>2 DEF PanicOnError
<1>2. Restart /\ vs' \in [Volumes -> Snapshot]
  BY DEF PanicOnError, IndInv, TypeOK, ClusterOK
<1> QED BY <1>1, <1>2, RestartPreserves

----------------------------------------------------------------------------
(* One lemma per action                                                    *)

\* Reconcile: an item is dropped, or its object taken from the cache.
LEMMA ReconcilePreserves ==
  ASSUME IndInv, Reconcile
  PROVE  Preserved
<1>1. queue' \subseteq Items
  BY DEF Reconcile, IndInv, TypeOK
<1>2. CASE UNCHANGED <<locals, current>>
  <2>1. ObjStep
    BY SameObject DEF Reconcile, bounds
  <2>2. CopyStep
    BY <1>2, SameHandlers DEF Reconcile, CopyStep, CurrentInv, IndInv
  <2>3. TypeOK'
    BY <1>1, <1>2, Same DEF Reconcile, TypeOK, IndInv, ApiOK
  <2> QED BY <1>2, <2>1, <2>2, <2>3, SameHandlers DEF Preserved
<1>3. CASE cache.uid # 0 /\ Enter("backup", Route(cache)) /\ UNCHANGED idx
  <2>1. Fits(Route(cache), cache) /\ Route(cache) # "lhUpdate"
    BY <1>3, RouteFits DEF IndInv, TypeOK, ApiOK
  <2>2. idx' \in [Actors -> 1..(NumVolumes + 1)]
    BY <1>3 DEF IndInv, TypeOK, LocalsOK
  <2> QED BY <1>1, <1>3, <2>1, <2>2, EnterPreserves DEF Reconcile, Actors, Workers
<1> QED BY <1>2, <1>3 DEF Reconcile

\* updateVolumeSnapshotChanged: the same, by the VolumeSnapshot controller.
LEMMA UpdateVolumeSnapshotChangedPreserves ==
  ASSUME IndInv, NEW v \in Volumes, updateVolumeSnapshotChanged(v)
  PROVE  Preserved
<1>1. queue' \subseteq Items /\ UNCHANGED <<obj, cache, cluster, store, bounds>>
  BY DEF updateVolumeSnapshotChanged, IndInv, TypeOK
<1>2. CASE UNCHANGED <<locals, current>>
  <2>1. ObjStep
    BY <1>1, SameObject DEF bounds
  <2>2. CopyStep
    BY <1>1, <1>2, SameHandlers DEF CopyStep, CurrentInv, IndInv
  <2>3. TypeOK'
    BY <1>1, <1>2, Same DEF TypeOK, IndInv, ApiOK
  <2> QED BY <1>2, <2>1, <2>2, <2>3, SameHandlers DEF Preserved
<1>3. CASE cache.uid # 0 /\ Enter("snapshot", Route(cache)) /\ UNCHANGED idx
  <2>1. Fits(Route(cache), cache) /\ Route(cache) # "lhUpdate"
    BY <1>3, RouteFits DEF IndInv, TypeOK, ApiOK
  <2>2. idx' \in [Actors -> 1..(NumVolumes + 1)]
    BY <1>3 DEF IndInv, TypeOK, LocalsOK
  <2> QED BY <1>1, <1>3, <2>1, <2>2, EnterPreserves DEF Actors, Workers
<1> QED BY <1>2, <1>3 DEF updateVolumeSnapshotChanged, resolveVolSnapshotRef

\* MountFails and NoSnapshotClass lead to setStatusError.
LEMMA GiveUpPreserves ==
  ASSUME IndInv, NEW a \in Workers, pc[a] \in {"init", "snapshots"}, NEW kind,
         GiveUp(a, kind)
  PROVE  Preserved
<1> USE DEF GiveUp
<1>1. a \in Actors
  BY DEF Actors
<1>2. ObjStep
  BY SameObject DEF api
<1>3. LocalsOK'
  BY <1>1, ConstantTypes DEF IndInv, TypeOK, LocalsOK, PCs, Vols
<1>4. ASSUME NEW b \in Actors PROVE HandlerInv(b)' /\ loc'[b] = loc[b]
  <2>1. HandlerInv(b)
    BY DEF IndInv
  <2>2. NotBoth(NoVols)
    BY DEF NotBoth, NoVols
  <2>3. CASE b = a
    <3>1. pc'[b] = "statusError" /\ cpy'[b] = NoVols
      BY <2>3 DEF IndInv, TypeOK, LocalsOK
    <3> QED BY <2>1, <2>2, <2>3, <3>1 DEF HandlerInv, NotBoth
  <2>4. CASE b # a
    <3>1. pc'[b] = pc[b] /\ cpy'[b] = cpy[b]
      BY <2>4 DEF IndInv, TypeOK, LocalsOK
    <3> QED BY <2>1, <3>1 DEF HandlerInv, NotBoth, isBackupTargetOnAnnotation
  <2> QED BY <2>3, <2>4
<1>5. CopyStep
  BY <1>4 DEF CopyStep, IndInv, CurrentInv, api
<1>6. TypeOK'
  <2>1. BoundsOK'
    BY DisturbBounds DEF IndInv
  <2> QED BY <1>3, <2>1, Same DEF IndInv, TypeOK
<1> QED BY <1>2, <1>4, <1>5, <1>6 DEF Preserved

\* initBackup fails for want of a secret.
LEMMA MissingSecretPreserves ==
  ASSUME IndInv, NEW a \in Workers, MissingSecret(a)
  PROVE  Preserved
<1> USE DEF MissingSecret
<1>1. a \in Actors /\ a # "lh"
  BY DEF Actors, Workers
<1>2. UNCHANGED <<obj, cache>> /\ inc' = inc /\ ClusterOK' /\ StoreOK' /\ BoundsOK'
  BY Same, DisturbBounds DEF IndInv
<1> QED BY <1>1, <1>2, FailMoves, UnwrittenPreserves

\* setStatusError: only a current copy wipes the status, of a backup not ready.
LEMMA SetStatusErrorPreserves ==
  ASSUME IndInv, NEW a \in Workers, setStatusError(a)
  PROVE  Preserved
<1> USE DEF setStatusError
<1>1. a \in Actors /\ a # "lh"
  BY DEF Actors, Workers
<1>2. ~loc[a].ready
  BY <1>1 DEF IndInv, HandlerInv
<1>3. cache' = cache /\ inc' = inc /\ ClusterOK' /\ StoreOK' /\ BoundsOK'
  BY Same DEF IndInv, bounds
<1>4. CASE a \in current /\ obj' = StatusError(loc[a]) /\ Fail(a, {})
  <2>1. loc[a] = obj
    BY <1>1, <1>4 DEF IndInv, CurrentInv
  <2>2. ObjStep /\ obj' \in VMBackup
    BY <1>2, <1>3, <1>4, <2>1, StatusErrorStep
  <2>3. Moved({})
    BY <1>1, <1>4, FailMoves
  <2> QED BY <1>3, <2>2, <2>3, MovedPreserves
<1>5. CASE obj' = obj /\ Fail(a, current)
  BY <1>1, <1>3, <1>5, FailMoves, UnwrittenPreserves
<1> QED BY <1>4, <1>5

\* initBackup: only a current copy of a backup without source is written.
LEMMA InitBackupPreserves ==
  ASSUME IndInv, NEW a \in Workers, initBackup(a)
  PROVE  Preserved
<1> USE DEF initBackup
<1>1. a \in Actors /\ a # "lh"
  BY DEF Actors, Workers
<1>2. ~loc[a].ready /\ ~loc[a].src
  BY <1>1 DEF IndInv, HandlerInv
<1>3. cache' = cache /\ inc' = inc /\ ClusterOK' /\ StoreOK' /\ BoundsOK'
  BY Same DEF IndInv, bounds
<1>4. CASE obj' = obj /\ Fail(a, current)
  BY <1>1, <1>3, <1>4, FailMoves, UnwrittenPreserves
<1>5. CASE /\ a \in current /\ ~(Kind = "backup" /\ setting = "unset")
           /\ obj' = NewStatus(loc[a]) /\ AfterChange(a, Holders(NewStatus(loc[a])))
  <2>1. loc[a] = obj
    BY <1>1, <1>5 DEF IndInv, CurrentInv
  <2>2. ObjStep /\ obj' \in VMBackup
    BY <1>2, <1>3, <1>5, <2>1, NewStatusStep
  <2>3. Moved(Holders(obj'))
    BY <1>1, <1>5, AfterChangeMoves
  <2> QED BY <1>3, <2>2, <2>3, MovedPreserves DEF Holders
<1> QED BY <1>4, <1>5

\* The loop over the volumes moves on; its index stays within the volumes and
\* the one past them.
LEMMA NextVolumePreserves ==
  ASSUME IndInv, NEW a \in Actors, NEW vb \in VolumeBackup, pc[a] \in {"snapshots", "created"},
         idx[a] \in Volumes, NextVolume(a, vb), vb.lh = cpy[a][idx[a]].lh,
         ~(vb.ready /\ vb.err),
         UNCHANGED <<api, queue, cluster, store, bounds>>
  PROVE  Preserved
<1>1. ObjStep
  BY SameObject DEF api, bounds
<1>2. LocalsOK'
  BY VolumesAssumption DEF NextVolume, IndInv, TypeOK, LocalsOK, PCs, Volumes
<1>3. ASSUME NEW b \in Actors PROVE HandlerInv(b)' /\ loc'[b] = loc[b]
  <2>1. HandlerInv(b)
    BY DEF IndInv
  <2>2. CASE b = a
    <3>1. /\ pc'[a] = "snapshots" /\ loc'[a] = loc[a]
          /\ \A v \in Volumes : cpy'[a][v] = IF v = idx[a] THEN vb ELSE cpy[a][v]
      BY DEF NextVolume, IndInv, TypeOK, LocalsOK
    <3> QED BY <2>1, <2>2, <3>1 DEF HandlerInv, NotBoth
  <2>3. CASE b # a
    <3>1. pc'[b] = pc[b] /\ cpy'[b] = cpy[b] /\ loc'[b] = loc[b] /\ idx'[b] = idx[b]
      BY <2>3 DEF NextVolume, IndInv, TypeOK, LocalsOK
    <3> QED BY <2>1, <3>1 DEF HandlerInv, NotBoth, isBackupTargetOnAnnotation
  <2> QED BY <2>2, <2>3
<1>4. CopyStep
  BY <1>3 DEF CopyStep, IndInv, CurrentInv, api
<1>5. TypeOK'
  BY <1>2, Same DEF IndInv, TypeOK
<1> QED BY <1>1, <1>3, <1>4, <1>5 DEF Preserved

\* A copied status is ready or in error, not both.
LEMMA CopyStatusType ==
  ASSUME NEW vb \in VolumeBackup, NEW s, ~(vb.ready /\ vb.err), NEW new \in CopyStatus(vb, s)
  PROVE  new \in VolumeBackup /\ new.lh = vb.lh /\ ~(new.ready /\ new.err)
BY DEF CopyStatus, VolumeBackup

\* The snapshot's status is copied into the handler's own VolumeBackups.
LEMMA CopySnapshotStatusPreserves ==
  ASSUME IndInv, NEW a \in Workers, CopySnapshotStatus(a)
  PROVE  Preserved
<1> USE DEF CopySnapshotStatus
<1>1. a \in Actors /\ idx[a] \in Volumes
  BY DEF Actors
<1>2. cpy[a][idx[a]] \in VolumeBackup /\ ~(cpy[a][idx[a]].ready /\ cpy[a][idx[a]].err)
  BY <1>1 DEF IndInv, TypeOK, LocalsOK, HandlerInv, NotBoth
<1>3. PICK new \in CopyStatus(cpy[a][idx[a]], vsCache[idx[a]]) : NextVolume(a, new)
  OBVIOUS
<1>4. new \in VolumeBackup /\ new.lh = cpy[a][idx[a]].lh /\ ~(new.ready /\ new.err)
  BY <1>2, CopyStatusType
<1> QED BY <1>1, <1>3, <1>4, NextVolumePreserves

\* A snapshot being deleted, or a backup without status, restarts the manager.
LEMMA PanicsPreserve ==
  ASSUME IndInv, NEW a \in Workers, SnapshotBeingDeleted(a) \/ NoStatusToUpload(a)
  PROVE  Preserved
<1> USE DEF SnapshotBeingDeleted, NoStatusToUpload
<1>1. ObjStep /\ obj' \in VMBackup
  BY SameObject DEF bounds, IndInv, TypeOK, ApiOK
<1>2. vs' \in [Volumes -> Snapshot] /\ vsc' \in [Volumes -> Uids] /\ BoundsOK'
  BY Same DEF IndInv, TypeOK, ClusterOK
<1> QED BY <1>1, <1>2, RestartPreserves

\* createVolumeSnapshot: a new snapshot, or an error that ends in a panic.
LEMMA CreateVolumeSnapshotPreserves ==
  ASSUME IndInv, NEW a \in Workers, createVolumeSnapshot(a)
  PROVE  Preserved
<1> DEFINE v == idx[a]
           vb == cpy[a][v]
<1> USE DEF createVolumeSnapshot
<1>1. a \in Actors /\ v \in Volumes /\ ~loc[a].ready /\ inc' = inc
      /\ UNCHANGED <<lhb, vm, setting, remote>> /\ pc[a] = "snapshots"
  BY DEF Actors, IndInv, HandlerInv
<1>2. loc[a].uid \in Uids /\ loc[a] \in VMBackup /\ vsc \in [Volumes -> Uids]
  BY <1>1 DEF IndInv, TypeOK, LocalsOK, ClusterOK, VMBackup
<1>3. createVolumeSnapshotContent(vb, v, loc[a].uid) => vsc' \in [Volumes -> Uids]
  BY <1>1, <1>2 DEF createVolumeSnapshotContent
<1>4. UNCHANGED budget => BoundsOK'
  BY <1>1 DEF IndInv, TypeOK, BoundsOK
<1>5. Disturb("failure") => BoundsOK'
  BY <1>1, DisturbBounds DEF IndInv
<1>6. CASE PanicOnError(a) /\ UNCHANGED <<vsc, budget>>
  BY <1>1, <1>2, <1>4, <1>6, PanicPreserves
<1>7. CASE Disturb("failure") /\ PanicOnError(a) /\ UNCHANGED vsc
  BY <1>1, <1>2, <1>5, <1>7, PanicPreserves
<1>8. CASE createVolumeSnapshotContent(vb, v, loc[a].uid) /\ PanicOnError(a) /\ UNCHANGED budget
  BY <1>1, <1>3, <1>4, <1>8, PanicPreserves
<1>9. CASE /\ createVolumeSnapshotContent(vb, v, loc[a].uid)
           /\ vs' = [vs EXCEPT ![v] = [phase |-> "pending", uid |-> loc[a].uid,
                                       src |-> SnapshotSource(vb, v)]]
           /\ Goto(a, "created")
           /\ UNCHANGED <<api, queue, vsCache, msync, budget>>
  <2>1. vs' \in [Volumes -> Snapshot]
    BY <1>1, <1>2, <1>9 DEF SnapshotSource, Snapshot, Phases, IndInv, TypeOK, ClusterOK
  <2>2. ClusterOK' /\ StoreOK'
    BY <1>1, <1>3, <1>9, <2>1 DEF IndInv, TypeOK, ClusterOK, StoreOK
  <2>3. obj' = obj /\ cache' = cache /\ current' = current
    BY <1>9 DEF api
  <2>4. Moved(current)
    BY <1>1, <1>9, <2>3, GotoMoves DEF PCs
  <2> QED BY <1>1, <1>4, <1>9, <2>2, <2>3, <2>4, UnwrittenPreserves
<1> QED BY <1>6, <1>7, <1>8, <1>9

\* The Get after the Create: a panic, or a status to copy.
LEMMA GetCreatedSnapshotPreserves ==
  ASSUME IndInv, NEW a \in Workers, GetCreatedSnapshot(a)
  PROVE  Preserved
<1> USE DEF GetCreatedSnapshot
<1>1. a \in Actors /\ idx[a] \in Volumes /\ ~loc[a].ready
  BY DEF Actors, IndInv, HandlerInv
<1>2. cpy[a][idx[a]] \in VolumeBackup /\ ~(cpy[a][idx[a]].ready /\ cpy[a][idx[a]].err)
  BY <1>1 DEF IndInv, TypeOK, LocalsOK, HandlerInv, NotBoth
<1>3. CASE PanicOnError(a)
  <2>1. vsc' \in [Volumes -> Uids] /\ BoundsOK' /\ inc' = inc
    BY Same DEF IndInv, TypeOK, ClusterOK, bounds
  <2> QED BY <1>1, <1>3, <2>1, PanicPreserves
<1>4. CASE /\ \E new \in CopyStatus(cpy[a][idx[a]], vsCache[idx[a]]) : NextVolume(a, new)
           /\ UNCHANGED <<api, queue, vs, vsCache, msync>>
  <2>1. UNCHANGED <<api, queue, cluster, store, bounds>>
    BY <1>4 DEF cluster, store
  <2>2. PICK new \in CopyStatus(cpy[a][idx[a]], vsCache[idx[a]]) : NextVolume(a, new)
    BY <1>4
  <2>3. new \in VolumeBackup /\ new.lh = cpy[a][idx[a]].lh /\ ~(new.ready /\ new.err)
    BY <1>2, CopyStatusType
  <2> QED BY <1>1, <2>1, <2>2, <2>3, NextVolumePreserves
<1> QED BY <1>3, <1>4

\* The copied statuses are saved: they keep the Longhorn names of the copy.
LEMMA UpdateVolumeBackupsPreserves ==
  ASSUME IndInv, NEW a \in Workers, UpdateVolumeBackups(a)
  PROVE  Preserved
<1> USE DEF UpdateVolumeBackups
<1>1. a \in Actors /\ ~loc[a].ready /\ loc[a].src /\ inc' = inc
  BY DEF Actors, IndInv, HandlerInv, bounds
<1>2. vsc' \in [Volumes -> Uids] /\ BoundsOK'
  BY Same DEF IndInv, TypeOK, ClusterOK
<1>3. CASE PanicOnError(a)
  BY <1>1, <1>2, <1>3, PanicPreserves
<1>4. CASE /\ a \in current
           /\ obj' = [loc[a] EXCEPT !.vols = cpy[a]] /\ current' = {}
           /\ pc' = [pc EXCEPT ![a] = "conditions"]
           /\ cpy' = [cpy EXCEPT ![a] = NoVols]
           /\ idx' = [idx EXCEPT ![a] = 1]
           /\ UNCHANGED <<cache, queue, loc, hadFin, vs, vsCache, msync>>
  <2>1. loc[a] = obj /\ obj \in VMBackup /\ cpy[a] \in Vols
    BY <1>1, <1>4 DEF IndInv, CurrentInv, TypeOK, ApiOK, LocalsOK, Vols
  <2>2. /\ obj' \in VMBackup /\ obj'.uid = obj.uid /\ ~obj'.ready /\ obj'.vols = cpy[a]
    BY <1>1, <1>4, <2>1 DEF VMBackup, Vols
  <2>3. NotBoth(cpy[a]) /\ \A v \in Volumes : cpy[a][v].lh = obj.vols[v].lh
    BY <1>1, <2>1 DEF IndInv, HandlerInv
  <2>4. ObjStep
    BY <1>1, <2>1, <2>2, <2>3, NotReadyWrite DEF Sane, LonghornNamesStay
  <2>5. LocalsOK' /\ queue' \subseteq Items
    BY <1>1, <1>4, ConstantTypes DEF IndInv, TypeOK, LocalsOK, PCs, Vols
  <2>6. ASSUME NEW b \in Actors PROVE HandlerInv(b)'
    <3>1. HandlerInv(b) /\ NotBoth(NoVols)
      BY DEF IndInv, NotBoth, NoVols
    <3>2. CASE b = a
      <4>1. pc'[b] = "conditions" /\ cpy'[b] = NoVols /\ pc[b] = "snapshots"
        BY <1>4, <3>2 DEF IndInv, TypeOK, LocalsOK
      <4> QED BY <1>4, <3>1, <4>1 DEF HandlerInv, NotBoth
    <3>3. CASE b # a
      <4>1. pc'[b] = pc[b] /\ cpy'[b] = cpy[b] /\ idx'[b] = idx[b]
        BY <1>4, <3>3 DEF IndInv, TypeOK, LocalsOK
      <4> QED BY <1>4, <3>1, <4>1 DEF HandlerInv, NotBoth, isBackupTargetOnAnnotation
    <3> QED BY <3>2, <3>3
  <2>7. Moved({})
    BY <1>4, <2>5, <2>6 DEF Moved
  <2>8. ClusterOK' /\ StoreOK'
    BY <1>4, Same DEF IndInv, cluster, store
  <2> QED BY <1>2, <1>4, <2>2, <2>4, <2>7, <2>8, MovedPreserves
<1> QED BY <1>3, <1>4

\* updateConditions: only a current copy, not ready before, is written.
LEMMA UpdateConditionsPreserves ==
  ASSUME IndInv, NEW a \in Workers, updateConditions(a)
  PROVE  Preserved
<1> USE DEF updateConditions
<1>1. a \in Actors /\ a # "lh"
  BY DEF Actors, Workers
<1>2. ~loc[a].ready /\ loc[a].src /\ loc[a].uid # 0
  BY <1>1 DEF IndInv, HandlerInv
<1>3. cache' = cache /\ inc' = inc /\ ClusterOK' /\ StoreOK' /\ BoundsOK'
  BY Same DEF IndInv, bounds
<1>4. CASE obj' = obj /\ (AfterChange(a, current) \/ Fail(a, current))
  BY <1>1, <1>3, <1>4, FailMoves, AfterChangeMoves, UnwrittenPreserves
<1>5. CASE a \in current /\ obj' = NewConditions(loc[a]) /\ AfterChange(a, {})
  <2>1. loc[a] = obj
    BY <1>1, <1>5 DEF IndInv, CurrentInv
  <2>2. ObjStep /\ obj' \in VMBackup
    BY <1>2, <1>3, <1>5, <2>1, NewConditionsStep
  <2> QED BY <1>1, <1>3, <1>5, <2>2, AfterChangeMoves, MovedPreserves
<1> QED BY <1>4, <1>5

\* The finalizer is added to the object as the cache has it.
LEMMA AddFinalizerPreserves ==
  ASSUME IndInv, NEW a \in Workers, AddFinalizer(a)
  PROVE  Preserved
<1> USE DEF AddFinalizer
<1>1. a \in Actors /\ a # "lh"
  BY DEF Actors, Workers
<1>2. cache' = cache /\ inc' = inc /\ ClusterOK' /\ StoreOK' /\ BoundsOK'
  BY Same DEF IndInv, bounds
<1>3. CASE obj' = obj /\ (Return(a, current) \/ Fail(a, current))
  BY <1>1, <1>2, <1>3, FailMoves, ReturnMoves, UnwrittenPreserves
<1>4. CASE /\ "cache" \in current /\ obj' = [cache EXCEPT !.fin = TRUE]
           /\ Return(a, Holders([cache EXCEPT !.fin = TRUE]))
  <2>1. cache = obj /\ obj \in VMBackup
    BY <1>4 DEF IndInv, CurrentInv, TypeOK, ApiOK
  <2>2. obj' \in VMBackup
    BY <1>4, <2>1 DEF VMBackup
  <2>3. ObjStep
    BY <1>2, <1>4, <2>1, <2>2, MarkStep DEF VMBackup
  <2>4. Moved(Holders(obj'))
    BY <1>1, <1>4, ReturnMoves
  <2> QED BY <1>2, <2>2, <2>3, <2>4, MovedPreserves DEF Holders
<1> QED BY <1>3, <1>4

\* The snapshot classes are added to a current copy.
LEMMA ConfigureCSIPreserves ==
  ASSUME IndInv, NEW a \in Workers, configureCSIDriverVolumeSnapshotClassNames(a)
  PROVE  Preserved
<1> USE DEF configureCSIDriverVolumeSnapshotClassNames
<1>1. a \in Actors /\ a # "lh"
  BY DEF Actors, Workers
<1>2. cache' = cache /\ inc' = inc /\ ClusterOK' /\ StoreOK'
  BY Same DEF IndInv
<1>3. BoundsOK'
  BY <1>2, DisturbBounds DEF IndInv, TypeOK, BoundsOK
<1>4. CASE obj' = obj /\ Fail(a, current)
  BY <1>1, <1>2, <1>3, <1>4, FailMoves, UnwrittenPreserves
<1>5. CASE /\ a \in current
           /\ obj' = [loc[a] EXCEPT !.csi = TRUE] /\ current' = {}
           /\ Goto(a, "csiGet") /\ UNCHANGED <<queue, budget>>
  <2>1. loc[a] = obj /\ obj \in VMBackup
    BY <1>1, <1>5 DEF IndInv, CurrentInv, TypeOK, ApiOK
  <2>2. obj' \in VMBackup
    BY <1>5, <2>1 DEF VMBackup
  <2>3. ObjStep
    BY <1>2, <1>5, <2>1, <2>2, MarkStep DEF VMBackup
  <2>4. Moved({})
    BY <1>1, <1>5, GotoMoves DEF PCs
  <2> QED BY <1>2, <1>3, <2>2, <2>3, <2>4, MovedPreserves
<1> QED BY <1>4, <1>5

\* The target written is the annotated one, so a target already recorded stays.
LEMMA ConfigureBackupTargetPreserves ==
  ASSUME IndInv, NEW a \in Workers, configureBackupTargetOnStatus(a)
  PROVE  Preserved
<1> USE DEF configureBackupTargetOnStatus
<1>1. a \in Actors /\ a # "lh"
  BY DEF Actors, Workers
<1>2. cache' = cache /\ inc' = inc /\ ClusterOK' /\ StoreOK' /\ BoundsOK'
  BY Same DEF IndInv, bounds
<1>3. CASE obj' = obj /\ (AfterChange(a, current) \/ Fail(a, current))
  BY <1>1, <1>2, <1>3, FailMoves, AfterChangeMoves, UnwrittenPreserves
<1>4. CASE /\ Kind = "backup" /\ a \in current
           /\ obj' = [loc[a] EXCEPT !.target = AnnotatedTarget]
           /\ current' = Holders([loc[a] EXCEPT !.target = AnnotatedTarget])
           /\ Goto(a, "targetGet") /\ UNCHANGED queue
  <2>1. loc[a] = obj /\ obj \in VMBackup
    BY <1>1, <1>4 DEF IndInv, CurrentInv, TypeOK, ApiOK
  <2>2. obj' \in VMBackup /\ obj'.target = AnnotatedTarget
    BY <1>4, <2>1, ConstantTypes DEF VMBackup, Recorded
  <2>3. isBackupTargetOnAnnotation(obj)
    BY <1>1, <1>4, <2>1 DEF IndInv, HandlerInv
  <2>4. obj.ready /\ obj.target \in {"none", AnnotatedTarget}
    BY <2>3 DEF IndInv, LegacyInv
  <2>5. /\ obj'.uid = obj.uid /\ obj'.src = obj.src /\ obj'.ready = obj.ready
        /\ obj'.error = obj.error /\ obj'.cond = obj.cond /\ obj'.vols = obj.vols
    BY <1>4, <2>1 DEF VMBackup
  <2>6. Sane(obj') /\ obj'.src
    BY <2>4, <2>5 DEF IndInv, SaneInv, Sane, Complete
  <2>7. LegacyInv'
    BY <2>2, <2>4, <2>5 DEF LegacyInv, AnnotatedTarget
  <2>8. ReadyStays /\ LonghornNamesStay
    BY <2>2, <2>4, <2>5, <2>6 DEF ReadyStays, LonghornNamesStay
  <2>9. ObjStep
    BY <1>2, <2>5, <2>6, <2>7, <2>8 DEF ObjStep
  <2>10. Moved(Holders(obj'))
    BY <1>1, <1>4, GotoMoves DEF PCs
  <2> QED BY <1>2, <2>2, <2>9, <2>10, MovedPreserves DEF Holders
<1> QED BY <1>3, <1>4

\* The Get after an Update takes whatever the cache has.
LEMMA GetUpdatedPreserves ==
  ASSUME IndInv, NEW a \in Workers, GetUpdated(a)
  PROVE  Preserved
<1>1. a \in Actors /\ a # "lh"
  BY DEF Actors, Workers
<1>2. /\ UNCHANGED <<obj, cache>> /\ inc' = inc /\ ClusterOK' /\ StoreOK' /\ BoundsOK'
  BY Same DEF GetUpdated, IndInv, bounds
<1>3. CASE Fail(a, current)
  BY <1>1, <1>2, <1>3, FailMoves, UnwrittenPreserves
<1>4. CASE ~Fail(a, current)
  <2>1. PICK where \in {"target", "upload"} :
          /\ pc' = [pc EXCEPT ![a] = where]
          /\ where = "target" => Kind = "snapshot" \/ isBackupTargetOnAnnotation(cache)
    BY <1>4 DEF GetUpdated
  <2>2. /\ loc' = [loc EXCEPT ![a] = cache] /\ current' = ReadBy(a)
        /\ UNCHANGED <<cpy, idx, hadFin, queue>>
    BY <1>4 DEF GetUpdated
  <2>3. LocalsOK' /\ queue' \subseteq Items
    BY <1>1, <2>1, <2>2 DEF IndInv, TypeOK, ApiOK, LocalsOK, PCs
  <2>4. ASSUME NEW b \in Actors
        PROVE  HandlerInv(b)' /\ loc'[b] = IF b = a THEN cache ELSE loc[b]
    <3>1. HandlerInv(b)
      BY DEF IndInv
    <3>2. CASE b = a
      <4>1. pc'[b] = where /\ loc'[b] = cache
        BY <2>1, <2>2, <3>2 DEF IndInv, TypeOK, LocalsOK
      <4> QED BY <2>1, <2>2, <3>1, <3>2, <4>1, ChoicesAssumption
              DEF HandlerInv, NotBoth, isBackupTargetOnAnnotation
    <3>3. CASE b # a
      <4>1. pc'[b] = pc[b] /\ loc'[b] = loc[b]
        BY <2>1, <2>2, <3>3 DEF IndInv, TypeOK, LocalsOK
      <4> QED BY <2>2, <3>1, <3>3, <4>1 DEF HandlerInv, NotBoth, isBackupTargetOnAnnotation
    <3> QED BY <3>2, <3>3
  <2>5. CurrentInv' /\ current' \subseteq Actors \cup {"cache"}
    BY <1>1, <1>2, <2>2, <2>4 DEF ReadBy, CurrentInv, IndInv, TypeOK, ApiOK, Actors, Workers
  <2>6. ObjStep
    BY <1>2, SameObject
  <2>7. TypeOK'
    BY <1>2, <2>3, <2>5 DEF IndInv, TypeOK, ApiOK
  <2> QED BY <1>2, <2>4, <2>5, <2>6, <2>7 DEF Preserved, CopyStep
<1> QED BY <1>3, <1>4

\* uploadVMBackupMetadata touches the target only.
LEMMA UploadPreserves ==
  ASSUME IndInv, NEW a \in Workers, uploadVMBackupMetadata(a)
  PROVE  Preserved
<1> USE DEF uploadVMBackupMetadata
<1>1. a \in Actors /\ a # "lh"
  BY DEF Actors, Workers
<1>2. UNCHANGED <<obj, cache>> /\ inc' = inc /\ ClusterOK'
  BY Same DEF IndInv
<1>3. BoundsOK'
  BY <1>2, DisturbBounds DEF IndInv, TypeOK, BoundsOK
<1>4. StoreOK'
  <2>1. MetadataOf(loc[a]) \in Metadata
    BY <1>1 DEF MetadataOf, Metadata, IndInv, TypeOK, LocalsOK, VMBackup, VolumeBackup
  <2> QED BY <2>1 DEF IndInv, TypeOK, StoreOK
<1>5. Moved(current)
  BY <1>1, FailMoves, AfterChangeMoves
<1> QED BY <1>2, <1>3, <1>4, <1>5, UnwrittenPreserves

\* The finalizer is taken off, and a deleting object goes with it.
LEMMA DeleteFinalizerPreserves ==
  ASSUME IndInv, NEW a \in Workers, DeleteFinalizer(a)
  PROVE  Preserved
<1> DEFINE new == IF cache.deleting THEN Absent ELSE [cache EXCEPT !.fin = FALSE]
<1> USE DEF DeleteFinalizer
<1>1. a \in Actors /\ a # "lh"
  BY DEF Actors, Workers
<1>2. cache' = cache /\ inc' = inc /\ ClusterOK' /\ StoreOK' /\ BoundsOK'
  BY Same DEF IndInv, bounds
<1>3. CASE obj' = obj /\ (Return(a, current) \/ Fail(a, current))
  BY <1>1, <1>2, <1>3, FailMoves, ReturnMoves, UnwrittenPreserves
<1>4. CASE /\ "cache" \in current /\ cache.uid # 0
           /\ obj' = new /\ current' = Holders(new)
           /\ Goto(a, "removed") /\ UNCHANGED queue
  <2>1. cache = obj /\ obj \in VMBackup
    BY <1>4 DEF IndInv, CurrentInv, TypeOK, ApiOK
  <2>2. obj' \in VMBackup
    <3>1. Absent \in VMBackup /\ [cache EXCEPT !.fin = FALSE] \in VMBackup
      BY <2>1, ConstantTypes DEF VMBackup
    <3> QED BY <1>4, <3>1
  <2>3. ObjStep
    <3>1. CASE cache.deleting
      BY <1>2, <1>4, <2>1, <3>1, GoneStep
    <3>2. CASE ~cache.deleting
      BY <1>2, <1>4, <2>1, <2>2, <3>2, MarkStep DEF VMBackup
    <3> QED BY <3>1, <3>2
  <2>4. Moved(Holders(obj'))
    <3>1. current' = Holders(obj') /\ Goto(a, "removed") /\ UNCHANGED queue
      BY <1>4
    <3>2. "removed" \in PCs \ {"target", "lhUpdate", "snapshots"}
      BY DEF PCs
    <3> HIDE DEF DeleteFinalizer, new
    <3> QED BY <1>1, <3>1, <3>2, GotoMoves
  <2> QED BY <1>2, <2>2, <2>3, <2>4, MovedPreserves DEF Holders
<1> QED BY <1>3, <1>4

\* OnBackupRemove touches the target only.
LEMMA OnBackupRemovePreserves ==
  ASSUME IndInv, NEW a \in Workers, OnBackupRemove(a)
  PROVE  Preserved
<1> USE DEF OnBackupRemove
<1>1. a \in Actors /\ a # "lh"
  BY DEF Actors, Workers
<1>2. UNCHANGED <<obj, cache>> /\ inc' = inc /\ ClusterOK'
  BY Same DEF IndInv
<1>3. BoundsOK'
  BY <1>2, DisturbBounds DEF IndInv, TypeOK, BoundsOK
<1>4. StoreOK'
  BY ConstantTypes DEF IndInv, TypeOK, StoreOK
<1>5. Moved(current)
  BY <1>1, FailMoves, ReturnMoves, GotoMoves DEF PCs
<1> QED BY <1>2, <1>3, <1>4, <1>5, UnwrittenPreserves

\* forceDeleteVolumeSnapshotAndContent's loop stays within the volumes.
LEMMA ForceDeletePreserves ==
  ASSUME IndInv, NEW a \in Workers, forceDeleteVolumeSnapshotAndContent(a)
  PROVE  Preserved
<1> USE DEF forceDeleteVolumeSnapshotAndContent
<1>1. a \in Actors /\ a # "lh"
  BY DEF Actors, Workers
<1>2. UNCHANGED <<obj, cache>> /\ inc' = inc /\ StoreOK' /\ BoundsOK'
  BY Same DEF IndInv, bounds
<1>3. ClusterOK'
  <2>1. vs \in [Volumes -> Snapshot] /\ vsc \in [Volumes -> Uids] /\ 0 \in Uids
    BY ConstantTypes DEF IndInv, TypeOK, ClusterOK
  <2>2. vsc' \in [Volumes -> Uids]
    BY <2>1
  <2>3. vs' \in [Volumes -> Snapshot]
    BY <2>1 DEF Snapshot, Phases
  <2> QED BY <2>2, <2>3 DEF IndInv, TypeOK, ClusterOK
<1>4. CASE Fail(a, current) \/ Return(a, current)
  BY <1>1, <1>2, <1>3, <1>4, FailMoves, ReturnMoves, UnwrittenPreserves
<1>5. CASE /\ idx[a] \in Volumes /\ idx' = [idx EXCEPT ![a] = @ + 1]
           /\ UNCHANGED <<pc, loc, cpy, hadFin, queue, current>>
  <2>1. LocalsOK' /\ queue' \subseteq Items
    BY <1>1, <1>5, VolumesAssumption DEF IndInv, TypeOK, LocalsOK, Volumes
  <2>2. ASSUME NEW b \in Actors PROVE HandlerInv(b)'
    <3>1. HandlerInv(b)
      BY DEF IndInv
    <3>2. b = a \/ idx'[b] = idx[b]
      BY <1>1, <1>5 DEF IndInv, TypeOK, LocalsOK
    <3> QED BY <1>5, <3>1, <3>2 DEF HandlerInv, NotBoth, isBackupTargetOnAnnotation
  <2>3. Moved(current)
    BY <1>5, <2>1, <2>2 DEF Moved
  <2> QED BY <1>2, <1>3, <2>3, UnwrittenPreserves
<1> QED BY <1>4, <1>5

\* OnLHBackupChanged takes the backup from the cache.
LEMMA OnLHBackupChangedPreserves ==
  ASSUME IndInv, NEW v \in Volumes, OnLHBackupChanged(v)
  PROVE  Preserved
<1>1. queue' \subseteq Items /\ UNCHANGED <<obj, cache, cluster, store, bounds>>
  BY DEF OnLHBackupChanged, IndInv, TypeOK
<1>2. CASE UNCHANGED <<locals, current>>
  <2>1. ObjStep
    BY <1>1, SameObject DEF bounds
  <2>2. CopyStep
    BY <1>1, <1>2, SameHandlers DEF CopyStep, CurrentInv, IndInv
  <2>3. TypeOK'
    BY <1>1, <1>2, Same DEF TypeOK, IndInv, ApiOK
  <2> QED BY <1>2, <2>1, <2>2, <2>3, SameHandlers DEF Preserved
<1>3. CASE Enter("lh", "lhUpdate") /\ idx' = [idx EXCEPT !["lh"] = v]
  <2>1. Fits("lhUpdate", cache) /\ "lh" \in Actors
    BY DEF Fits, PCs, Actors
  <2>2. /\ idx' \in [Actors -> 1..(NumVolumes + 1)] /\ idx'["lh"] = v
        /\ \A b \in Actors \ {"lh"} : idx'[b] = idx[b]
    BY <1>3, <2>1, VolumesAssumption DEF IndInv, TypeOK, LocalsOK, Volumes
  <2> QED BY <1>1, <1>3, <2>1, <2>2, EnterPreserves
<1> QED BY <1>2, <1>3 DEF OnLHBackupChanged

\* OnLHBackupChanged adds a name to a current copy.
LEMMA UpdateLonghornBackupNamePreserves ==
  ASSUME IndInv, UpdateLonghornBackupName
  PROVE  Preserved
<1> USE DEF UpdateLonghornBackupName
<1>1. "lh" \in Actors /\ idx["lh"] \in Volumes
  BY DEF Actors, IndInv, HandlerInv
<1>2. cache' = cache /\ inc' = inc /\ ClusterOK' /\ StoreOK' /\ BoundsOK'
  BY Same DEF IndInv, bounds
<1>3. CASE obj' = obj /\ (Return("lh", current) \/ Fail("lh", current))
  BY <1>1, <1>2, <1>3, FailMoves, ReturnMoves, UnwrittenPreserves
<1>4. CASE /\ "lh" \in current /\ Return("lh", {})
           /\ obj' = [loc["lh"] EXCEPT !.vols[idx["lh"]].lh = TRUE]
  <2>1. loc["lh"] = obj /\ obj \in VMBackup
    BY <1>1, <1>4 DEF IndInv, CurrentInv, TypeOK, ApiOK
  <2>2. obj' \in VMBackup
    <3>1. [obj.vols EXCEPT ![idx["lh"]].lh = TRUE] \in Vols
      BY <1>1, <2>1 DEF VMBackup, VolumeBackup, Vols
    <3> QED BY <1>4, <2>1, <3>1 DEF VMBackup, Vols
  <2>3. /\ obj'.uid = obj.uid /\ obj'.src = obj.src /\ obj'.ready = obj.ready
        /\ obj'.error = obj.error /\ obj'.cond = obj.cond /\ obj'.target = obj.target
    BY <1>4, <2>1 DEF VMBackup
  <2>4. \A v \in Volumes : /\ obj'.vols[v].ready = obj.vols[v].ready
                           /\ obj'.vols[v].err = obj.vols[v].err
                           /\ obj.vols[v].lh => obj'.vols[v].lh
    BY <1>1, <1>4, <2>1 DEF VMBackup, VolumeBackup
  <2>5. ObjStep
    BY <1>2, <2>2, <2>3, <2>4, MarkStep
  <2> QED BY <1>1, <1>2, <1>4, <2>2, <2>5, ReturnMoves, MovedPreserves
<1> QED BY <1>3, <1>4

\* syncVMBackup reads a file of the target.
LEMMA SyncVMBackupPreserves ==
  ASSUME IndInv, syncVMBackup
  PROVE  Preserved
<1> USE DEF syncVMBackup
<1>1. StoreOK' /\ queue' \subseteq Items
  BY DEF IndInv, TypeOK, StoreOK
<1>2. BoundsOK'
  BY DisturbBounds DEF IndInv, TypeOK, BoundsOK
<1>3. ClusterOK'
  BY Same DEF IndInv
<1> QED BY <1>1, <1>2, <1>3, QuietPreserves

\* createVMBackupIfNotExist makes an object with a new uid, or none.
LEMMA CreateVMBackupIfNotExistPreserves ==
  ASSUME IndInv, createVMBackupIfNotExist
  PROVE  Preserved
<1> USE DEF createVMBackupIfNotExist
<1>1. /\ cache' = cache /\ UNCHANGED locals /\ LocalsOK' /\ ClusterOK' /\ StoreOK'
  BY ConstantTypes, Same DEF IndInv, TypeOK, StoreOK
<1>2. queue' \subseteq Items
  BY DEF IndInv, TypeOK, Items
<1>3. CASE UNCHANGED <<obj, current, inc>>
  <2>1. BoundsOK'
    BY <1>3 DEF IndInv, TypeOK, BoundsOK
  <2> QED BY <1>1, <1>2, <1>3, <2>1, QuietPreserves DEF api
<1>4. CASE /\ inc < MaxIncarnations /\ inc' = inc + 1
           /\ obj' = FromMetadata(inc + 1, msync.target, msync.meta)
           /\ current' = {}
  <2>1. BoundsOK' /\ inc' \in Uids
    BY <1>4, BoundsAssumption DEF IndInv, TypeOK, BoundsOK, Uids
  <2>2. msync.target \in Recorded /\ msync.meta.lh \in [Volumes -> BOOLEAN]
    BY DEF IndInv, TypeOK, StoreOK, Metadata, Recorded
  <2>3. [v \in Volumes |-> [NoVols[v] EXCEPT !.lh = msync.meta.lh[v]]] \in Vols
    BY <2>2 DEF NoVols, Vols, VolumeBackup
  <2>4. 0 \in 0..OpError
    BY ConstantTypes
  <2>5. obj' \in VMBackup
    BY <1>4, <2>1, <2>2, <2>3, <2>4 DEF FromMetadata, Blank, VMBackup, Vols
  <2>6. obj'.uid = inc + 1 /\ ~obj'.ready /\ NotBoth(obj'.vols)
    BY <1>4 DEF FromMetadata, Blank, NotBoth, NoVols
  <2>7. ObjStep
    BY <1>4, <2>6, NewStep
  <2> QED BY <1>1, <1>2, <1>4, <2>1, <2>5, <2>7, WritePreserves
<1> QED BY <1>3, <1>4

\* The cache catches up with the stored object.
LEMMA BackupWatchPreserves ==
  ASSUME IndInv, BackupWatch
  PROVE  Preserved
<1> USE DEF BackupWatch
<1>1. ObjStep
  BY SameObject DEF bounds
<1>2. queue' \subseteq Items
  BY DEF IndInv, TypeOK, Queued, Items
<1>3. TypeOK'
  BY <1>2, Same DEF IndInv, TypeOK, ApiOK
<1>4. CopyStep
  BY SameHandlers DEF CopyStep, CurrentInv, IndInv, Actors, Workers
<1> QED BY <1>1, <1>3, <1>4, SameHandlers DEF Preserved

\* The manager is restarted.
LEMMA CrashPreserves ==
  ASSUME IndInv, Crash
  PROVE  Preserved
<1> USE DEF Crash
<1>1. ObjStep /\ obj' \in VMBackup
  BY SameObject DEF IndInv, TypeOK, ApiOK
<1>2. vs' \in [Volumes -> Snapshot] /\ vsc' \in [Volumes -> Uids] /\ BoundsOK'
  BY DisturbBounds DEF IndInv, TypeOK, ClusterOK
<1> QED BY <1>1, <1>2, RestartPreserves

\* A user creates a backup.
LEMMA CreateBackupPreserves ==
  ASSUME IndInv, CreateBackup
  PROVE  Preserved
<1> USE DEF CreateBackup
<1>1. BoundsOK' /\ inc + 1 \in Uids
  BY BoundsAssumption DEF IndInv, TypeOK, BoundsOK, Uids, Disturb
<1>2. obj' \in VMBackup
  BY <1>1, ConstantTypes
<1>3. obj'.uid = inc + 1 /\ ~obj'.ready /\ NotBoth(obj'.vols)
  BY DEF Blank, NotBoth, NoVols
<1>4. ObjStep
  BY <1>3, NewStep
<1> QED BY <1>1, <1>2, <1>4, Same, WritePreserves DEF IndInv, TypeOK

\* A user deletes a backup: it is marked, or gone without finalizer.
LEMMA DeleteBackupPreserves ==
  ASSUME IndInv, DeleteBackup
  PROVE  Preserved
<1> USE DEF DeleteBackup
<1>1. BoundsOK'
  BY DisturbBounds DEF IndInv
<1>2. obj \in VMBackup
  BY DEF IndInv, TypeOK, ApiOK
<1>3. CASE obj.fin
  <2>1. obj' \in VMBackup
    BY <1>2, <1>3 DEF VMBackup
  <2>2. ObjStep
    BY <1>2, <1>3, <2>1, MarkStep DEF VMBackup
  <2> QED BY <1>1, <2>1, <2>2, Same, WritePreserves DEF IndInv, TypeOK
<1>4. CASE ~obj.fin
  <2>1. obj' \in VMBackup /\ ObjStep
    BY <1>4, ConstantTypes, GoneStep
  <2> QED BY <1>1, <2>1, Same, WritePreserves DEF IndInv, TypeOK
<1> QED BY <1>3, <1>4

\* What happens outside the manager, and the informers' work on snapshots.
LEMMA ClusterStepsPreserve ==
  ASSUME IndInv,
         \/ Resync \/ LoseSource
         \/ \E t \in Settings : SetBackupTarget(t)
         \/ \E v \in Volumes : \/ SnapshotWatch(v) \/ SnapshotDone(v) \/ SnapshotError(v)
                                \/ SnapshotGone(v) \/ DeleteSnapshot(v)
                                \/ CollectContent(v) \/ LonghornBackupEvent(v)
  PROVE  Preserved
<1> DEFINE Quietly == /\ UNCHANGED <<api, locals>> /\ inc' = inc
                      /\ queue' \subseteq Items /\ ClusterOK' /\ StoreOK' /\ BoundsOK'
<1> SUFFICES Quietly
  BY QuietPreserves
<1> USE DEF IndInv
<1>1. CASE Resync
  BY <1>1, Same DEF Resync, Listed, bounds
<1>2. CASE LoseSource
  BY <1>2, Same, DisturbBounds DEF LoseSource, TypeOK, ClusterOK
<1>3. ASSUME NEW t \in Settings, SetBackupTarget(t) PROVE Quietly
  BY <1>3, Same, DisturbBounds DEF SetBackupTarget, TypeOK, ClusterOK, Queued, Items
<1>4. ASSUME NEW v \in Volumes, SnapshotWatch(v) PROVE Quietly
  <2>1. ClusterOK'
    BY <1>4 DEF SnapshotWatch, TypeOK, ClusterOK
  <2>2. queue' \subseteq Items
    BY <1>4 DEF SnapshotWatch, TypeOK, Queued, Items
  <2> QED BY <1>4, <2>1, <2>2, Same DEF SnapshotWatch, bounds
<1>5. ASSUME NEW v \in Volumes, SnapshotDone(v) PROVE Quietly
  <2>1. ClusterOK'
    BY <1>5 DEF SnapshotDone, TypeOK, ClusterOK, Snapshot, Phases
  <2> QED BY <1>5, <2>1, Same DEF SnapshotDone, bounds, TypeOK
<1>6. ASSUME NEW v \in Volumes, SnapshotError(v) PROVE Quietly
  <2>1. ClusterOK'
    BY <1>6 DEF SnapshotError, TypeOK, ClusterOK, Snapshot, Phases
  <2> QED BY <1>6, <2>1, Same, DisturbBounds DEF SnapshotError, TypeOK
<1>7. ASSUME NEW v \in Volumes, SnapshotGone(v) PROVE Quietly
  <2>1. ClusterOK'
    BY <1>7, ConstantTypes DEF SnapshotGone, TypeOK, ClusterOK
  <2> QED BY <1>7, <2>1, Same DEF SnapshotGone, bounds, TypeOK
<1>8. ASSUME NEW v \in Volumes, DeleteSnapshot(v) PROVE Quietly
  <2>1. ClusterOK'
    BY <1>8 DEF DeleteSnapshot, TypeOK, ClusterOK, Snapshot, Phases
  <2>2. BoundsOK'
    BY <1>8, DisturbBounds DEF DeleteSnapshot, TypeOK, BoundsOK
  <2> QED BY <1>8, <2>1, <2>2, Same DEF DeleteSnapshot, TypeOK
<1>9. ASSUME NEW v \in Volumes, CollectContent(v) PROVE Quietly
  <2>1. ClusterOK'
    BY <1>9, ConstantTypes DEF CollectContent, TypeOK, ClusterOK
  <2> QED BY <1>9, <2>1, Same DEF CollectContent, bounds, TypeOK
<1>10. ASSUME NEW v \in Volumes, LonghornBackupEvent(v) PROVE Quietly
  <2>1. ClusterOK'
    BY <1>10 DEF LonghornBackupEvent, TypeOK, ClusterOK
  <2>2. queue' \subseteq Items
    BY <1>10 DEF LonghornBackupEvent, TypeOK, Queued, Items
  <2> QED BY <1>10, <2>1, <2>2, Same DEF LonghornBackupEvent, bounds
<1> QED BY <1>1, <1>2, <1>3, <1>4, <1>5, <1>6, <1>7, <1>8, <1>9, <1>10

----------------------------------------------------------------------------
(* The theorems                                                            *)

\* The invariant holds at the start, for each of the three starts.
LEMMA InitInv == Init => IndInv
<1> SUFFICES ASSUME Init PROVE IndInv
  OBVIOUS
<1> USE DEF Init
<1>1. LegacyBackup \in VMBackup
  <2>1. [v \in Volumes |-> [NoVols[v] EXCEPT !.ready = TRUE]] \in Vols
    BY DEF NoVols, Vols, VolumeBackup
  <2>2. 1 \in Uids /\ 0 \in 0..OpError
    BY ConstantTypes
  <2> QED BY <2>1, <2>2 DEF LegacyBackup, Blank, VMBackup, Vols, Recorded
<1>2. Sane(LegacyBackup) /\ Sane(Absent) /\ NotBoth(NoVols)
  <2>1. NotBoth(NoVols)
    BY DEF NotBoth, NoVols
  <2>2. Sane(Absent)
    BY <2>1 DEF Sane, Absent, Blank
  <2>3. /\ LegacyBackup.uid = 1 /\ LegacyBackup.src /\ LegacyBackup.error = 0
        /\ LegacyBackup.cond = "ready"
        /\ LegacyBackup.vols = [v \in Volumes |-> [NoVols[v] EXCEPT !.ready = TRUE]]
    BY DEF LegacyBackup, Blank
  <2>4. \A v \in Volumes : LegacyBackup.vols[v].ready /\ ~LegacyBackup.vols[v].err
    <3>1. ASSUME NEW v \in Volumes
          PROVE  LegacyBackup.vols[v].ready /\ ~LegacyBackup.vols[v].err
      <4>1. NoVols[v] \in VolumeBackup /\ ~NoVols[v].err
        BY DEF NoVols, VolumeBackup
      <4>2. LegacyBackup.vols[v] = [NoVols[v] EXCEPT !.ready = TRUE]
        BY <2>3
      <4> QED BY <4>1, <4>2 DEF VolumeBackup
    <3> QED BY <3>1
  <2>5. Sane(LegacyBackup)
    BY <2>3, <2>4 DEF Sane, Complete, NotBoth
  <2> QED BY <2>1, <2>2, <2>5
<1>3. TypeOK
  <2>1. ApiOK
    BY <1>1, ConstantTypes DEF ApiOK
  <2>2. LocalsOK
    BY ConstantTypes DEF LocalsOK, PCs, Vols
  <2>3. ClusterOK
    BY ConstantTypes, TargetsAssumption, ChoicesAssumption DEF ClusterOK, Snapshot, Phases
  <2>4. StoreOK
    BY ConstantTypes DEF StoreOK, Metadata
  <2>5. BoundsOK
    BY BoundsAssumption DEF BoundsOK
  <2>6. queue \subseteq Items
    BY DEF Listed
  <2> QED BY <2>1, <2>2, <2>3, <2>4, <2>5, <2>6 DEF TypeOK
<1>4. SaneInv
  BY <1>2 DEF SaneInv
<1>5. CurrentInv
  BY DEF CurrentInv, Actors, Workers
<1>6. UidInv /\ LegacyInv
  <2>1. /\ Absent.uid = 0 /\ LegacyBackup.uid = 1
        /\ LegacyBackup.ready /\ LegacyBackup.target = "none"
    BY DEF LegacyBackup, Absent, Blank
  <2> QED BY <2>1 DEF UidInv, LegacyInv, isBackupTargetOnAnnotation
<1>7. StaleCopiesAgree
  BY DEF StaleCopiesAgree, StillTrue, LegacyBackup, Absent, Blank
<1>8. \A a \in Actors : HandlerInv(a)
  BY <1>2 DEF HandlerInv
<1> QED BY <1>3, <1>4, <1>5, <1>6, <1>7, <1>8 DEF IndInv

\* Every step of the backup's Reconcile, by either worker.
LEMMA WorkerStepPreserves ==
  ASSUME IndInv, NEW a \in Workers, WorkerStep(a)
  PROVE  Preserved
<1>1. CASE MountFails(a) \/ NoSnapshotClass(a)
  BY <1>1, GiveUpPreserves DEF MountFails, NoSnapshotClass
<1> QED BY <1>1, MissingSecretPreserves, SetStatusErrorPreserves, InitBackupPreserves,
           CopySnapshotStatusPreserves, PanicsPreserve,
           CreateVolumeSnapshotPreserves, GetCreatedSnapshotPreserves,
           UpdateVolumeBackupsPreserves, UpdateConditionsPreserves, AddFinalizerPreserves,
           ConfigureCSIPreserves, ConfigureBackupTargetPreserves, GetUpdatedPreserves,
           UploadPreserves, DeleteFinalizerPreserves, OnBackupRemovePreserves,
           ForceDeletePreserves, Zenon
        DEF WorkerStep

\* Nothing happens.
LEMMA StutterPreserves ==
  ASSUME IndInv, UNCHANGED vars
  PROVE  Preserved
<1>1. UNCHANGED <<api, locals, cluster, store, bounds>> /\ queue' = queue
  BY DEF vars
<1> QED BY <1>1, Same, QuietPreserves DEF IndInv, TypeOK, bounds

\* Every step establishes what the invariant needs.
LEMMA NextPreserves ==
  ASSUME IndInv, [Next]_vars
  PROVE  Preserved
<1>1. CASE Reconcile \/ \E a \in Workers : WorkerStep(a)
  BY <1>1, ReconcilePreserves, WorkerStepPreserves, Zenon
<1>2. CASE \/ \E v \in Volumes : updateVolumeSnapshotChanged(v) \/ OnLHBackupChanged(v)
           \/ UpdateLonghornBackupName
  BY <1>2, UpdateVolumeSnapshotChangedPreserves, OnLHBackupChangedPreserves,
     UpdateLonghornBackupNamePreserves, Zenon
<1>3. CASE syncVMBackup \/ createVMBackupIfNotExist \/ BackupWatch
  BY <1>3, SyncVMBackupPreserves, CreateVMBackupIfNotExistPreserves, BackupWatchPreserves, Zenon
<1>4. CASE Crash \/ CreateBackup \/ DeleteBackup
  BY <1>4, CrashPreserves, CreateBackupPreserves, DeleteBackupPreserves, Zenon
<1>5. CASE \/ Resync \/ LoseSource
           \/ \E t \in Settings : SetBackupTarget(t)
           \/ \E v \in Volumes : \/ SnapshotWatch(v) \/ SnapshotDone(v) \/ SnapshotError(v)
                                  \/ SnapshotGone(v) \/ DeleteSnapshot(v)
                                  \/ CollectContent(v) \/ LonghornBackupEvent(v)
  BY <1>5, ClusterStepsPreserve, Zenon
<1>6. CASE UNCHANGED vars
  BY <1>6, StutterPreserves
<1> QED BY <1>1, <1>2, <1>3, <1>4, <1>5, <1>6, Zenon DEF Next

\* The invariant holds in every reachable state.
THEOREM Invariance == Spec => []IndInv
<1>1. IndInv /\ [Next]_vars => IndInv'
  BY NextPreserves, PreservedIsEnough
<1> QED BY InitInv, <1>1, PTL DEF Spec

\* Every variable holds a value of its kind; in particular the loops over the
\* volumes (reconcileVolumeSnapshots, forceDeleteVolumeSnapshotAndContent) stay
\* within them, for any number of disks.
THEOREM TypeCorrect == Spec => []TypeOK
<1>1. IndInv => TypeOK
  BY DEF IndInv
<1> QED BY Invariance, <1>1, PTL

\* A backup that says it is ready is complete, whatever stale copies the
\* controllers write from (updateConditions, reconcileVolumeSnapshots).
THEOREM ReadyComplete == Spec => []ReadyIsComplete
<1>1. IndInv => ReadyIsComplete
  BY DEF IndInv, SaneInv, Sane, Complete, NotBoth, ReadyIsComplete
<1> QED BY Invariance, <1>1, PTL

\* What a handler or the cache knows of a ready backup stays true of it.
THEOREM CopiesAgree == Spec => []StaleCopiesAgree
<1>1. IndInv => StaleCopiesAgree
  BY DEF IndInv
<1> QED BY Invariance, <1>1, PTL

\* No step takes readiness, source or recorded target from a ready backup.
THEOREM ReadyKept == Spec => ReadyNeverLost
<1>1. IndInv /\ [Next]_vars => [obj.ready /\ obj'.uid = obj.uid => ReadyStays]_vars
  BY NextPreserves DEF Preserved, ObjStep
<1> QED BY Invariance, <1>1, PTL DEF Spec, ReadyNeverLost

\* No step overwrites a LonghornBackupName of a backup that keeps its status.
THEOREM LonghornNamesKept == Spec => NoLostLonghornName
<1>1. IndInv /\ [Next]_vars =>
        [obj.src /\ obj'.src /\ obj'.uid = obj.uid => LonghornNamesStay]_vars
  BY NextPreserves DEF Preserved, ObjStep
<1> QED BY Invariance, <1>1, PTL DEF Spec, NoLostLonghornName
=============================================================================
