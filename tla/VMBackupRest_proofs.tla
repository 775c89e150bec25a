------------------------ MODULE VMBackupRest_proofs ------------------------
(***************************************************************************)
(* Proof that no wake-up of the backup's worker is lost, for any number of *)
(* disks, any targets and any bounds: when nothing is going on, a backup   *)
(* has nothing left to be done about it (NothingLeftUndone).               *)
(*                                                                         *)
(* The argument.  As long as the worker need not be called again, the      *)
(* cache shows the stored backup, and has shown it since the handler under *)
(* way began: a write makes the cache stale, and the event that brings it  *)
(* up to date queues the backup.  So what the handler read when it began   *)
(* is still so, and if it returns without an error and without having      *)
(* written anything, there was nothing to do.                              *)
(***************************************************************************)
EXTENDS VMBackup_proofs

\* The worker will be called for what is stored, or nothing is stored.
Due == \/ obj.uid = 0
       \/ "backup" \notin Controllers
       \/ <<"backup", 0>> \in queue
       \/ "cache" \notin current

\* Places that are reached only after a write, which makes the cache stale.
AfterWrite == {"conditions", "csiGet", "removed", "forceDelete"}
\* What is so of the stored backup when the worker is at p and not due.
Suits(p) ==
  /\ p = "idle" => obj.fin /\ Orderly(obj)
  /\ p = "delete" => obj.deleting /\ "backup" \in hadFin
  /\ p = "finalizer" => Orderly(obj)
  /\ p \in {"init", "snapshots", "created", "csi", "target", "upload"} => loc["backup"] = obj
  /\ p \in {"snapshots", "created", "target", "targetGet", "upload"} => ~obj.deleting
  /\ p \in {"target", "targetGet", "upload"} => obj.ready /\ obj.csi
  /\ p \notin AfterWrite
  /\ p # "idle" /\ "backup" \in hadFin => obj.fin
PlaceInv == ~Due => Suits(pc["backup"])
\* The handler's own record of the finalizer begins anew; only a backup with the
\* finalizer is ever marked.
IdleInv == pc["backup"] = "idle" => "backup" \notin hadFin
FinInv == obj.deleting => obj.fin
RestInv == PlaceInv /\ IdleInv /\ FinInv

----------------------------------------------------------------------------
(* How a step leaves the worker                                            *)

Rests == PlaceInv' /\ IdleInv'

\* After a step the worker is due.
LEMMA DueRests ==
  ASSUME Due', pc'["backup"] = "idle" => "backup" \notin hadFin'
  PROVE  Rests
  BY DEF Rests, PlaceInv, IdleInv

\* The step leaves the worker alone, and the backup, unless the worker is due after.
LEMMA OthersRest ==
  ASSUME RestInv, pc'["backup"] = pc["backup"], loc'["backup"] = loc["backup"],
         "backup" \in hadFin' <=> "backup" \in hadFin,
         Due' \/ (obj' = obj /\ (Due => Due'))
  PROVE  Rests
<1>1. IdleInv'
  BY DEF RestInv, IdleInv
<1>2. CASE Due'
  BY <1>1, <1>2 DEF Rests, PlaceInv
<1>3. CASE obj' = obj /\ ~Due
  BY <1>1, <1>3 DEF Rests, RestInv, PlaceInv, Suits
<1> QED BY <1>2, <1>3

\* After a restart every object is queued.
LEMMA RestartRests ==
  ASSUME Restart
  PROVE  Rests
<1>1. "backup" \in Controllers /\ obj'.uid # 0 => <<"backup", 0>> \in queue'
  <2>1. <<"backup", 0>> \in Items
    BY DEF Items
  <2>2. queue' = Listed(obj', vs', lhb)
    BY DEF Restart
  <2> QED BY <2>1, <2>2 DEF Listed
<1>2. hadFin' = {}
  BY DEF Restart
<1> QED BY <1>1, <1>2, DueRests DEF Due

\* Another handler returns, with nothing written or with the cache made stale.
LEMMA OthersReturn ==
  ASSUME IndInv, RestInv, NEW a \in Actors \ {"backup"}, NEW holders,
         Return(a, holders) \/ Fail(a, holders) \/ AfterChange(a, holders),
         holders = {} \/ (obj' = obj /\ holders \subseteq current)
  PROVE  Rests
<1>1. \E where : Forget(a, where, holders)
  BY DEF Return, Fail, AfterChange
<1>2. /\ pc'["backup"] = pc["backup"] /\ loc'["backup"] = loc["backup"]
      /\ current' = holders \ {a}
  BY <1>1 DEF Forget, IndInv, TypeOK, LocalsOK, Actors, Workers
<1>3. hadFin' \in {hadFin, hadFin \ {a}} /\ queue \subseteq queue'
  BY DEF Return, Fail, AfterChange
<1> QED BY <1>2, <1>3, OthersRest DEF Due

\* Another handler moves on: it writes and makes the cache stale, or it does not.
LEMMA OthersMove ==
  ASSUME IndInv, RestInv, NEW a \in Actors \ {"backup"}, NEW where, pc' = [pc EXCEPT ![a] = where],
         UNCHANGED <<loc, hadFin, queue>>, current' = {} \/ UNCHANGED <<obj, current>>
  PROVE  Rests
<1>1. pc'["backup"] = pc["backup"] /\ loc'["backup"] = loc["backup"]
  BY DEF IndInv, TypeOK, LocalsOK, Actors, Workers
<1> QED BY <1>1, OthersRest DEF Due

\* The worker's own handler returns: an error makes it due; without one there is
\* nothing left to do, or it has made the cache stale.
LEMMA OwnFail ==
  ASSUME NEW holders, Fail("backup", holders)
  PROVE  Rests
  BY DueRests DEF Fail, Due
LEMMA OwnReturn ==
  ASSUME IndInv, NEW holders, Return("backup", holders),
         \/ "cache" \notin holders
         \/ obj' = obj /\ holders \subseteq current /\ (~Due => obj.fin /\ Orderly(obj))
  PROVE  Rests
<1>1. /\ pc'["backup"] = "idle" /\ "backup" \notin hadFin' /\ queue' = queue
      /\ current' = holders \ {"backup"}
  BY DEF Return, Forget, IndInv, TypeOK, LocalsOK, Actors, Workers
<1>2. CASE Due'
  BY <1>1, <1>2, DueRests
<1>3. CASE ~Due'
  <2>1. obj' = obj /\ obj.fin /\ Orderly(obj)
    BY <1>1, <1>3 DEF Due
  <2>2. obj'.fin /\ Orderly(obj')
    BY <2>1
  <2>3. PlaceInv'
    BY <1>1, <2>2 DEF PlaceInv, Suits, AfterWrite
  <2> QED BY <1>1, <2>3 DEF Rests, IdleInv
<1> QED BY <1>2, <1>3
LEMMA OwnAfterChange ==
  ASSUME IndInv, RestInv, NEW holders, AfterChange("backup", holders), pc["backup"] # "idle",
         \/ "cache" \notin holders
         \/ obj' = obj /\ holders \subseteq current /\ (~Due => Orderly(obj))
  PROVE  Rests
<1>1. ~Due /\ "backup" \in hadFin => obj.fin
  BY DEF RestInv, PlaceInv, Suits
<1>2. CASE "backup" \in hadFin
  BY <1>1, <1>2, OwnReturn DEF AfterChange
<1>3. CASE "backup" \notin hadFin
  <2>1. /\ pc'["backup"] = "finalizer" /\ hadFin' = hadFin /\ queue' = queue
        /\ current' = holders \ {"backup"}
    BY <1>3 DEF AfterChange, Forget, IndInv, TypeOK, LocalsOK, Actors, Workers
  <2>2. CASE Due'
    BY <2>1, <2>2, DueRests
  <2>3. CASE ~Due'
    <3>1. obj' = obj /\ Orderly(obj)
      BY <2>1, <2>3 DEF Due
    <3>2. Orderly(obj')
      BY <3>1
    <3>3. PlaceInv'
      BY <1>3, <2>1, <3>2 DEF PlaceInv, Suits, AfterWrite
    <3> QED BY <2>1, <3>3 DEF Rests, IdleInv
  <2> QED BY <2>2, <2>3
<1> QED BY <1>2, <1>3

----------------------------------------------------------------------------
(* The same for whichever of the two workers runs the handler              *)

\* It fails, returns, or has done with OnBackupChange.
LEMMA FailRests ==
  ASSUME IndInv, RestInv, NEW a \in Workers, NEW holders, Fail(a, holders),
         holders = {} \/ (obj' = obj /\ holders = current)
  PROVE  Rests
<1>1. CASE a = "backup"
  BY <1>1, OwnFail
<1>2. CASE a # "backup"
  BY <1>2, OthersReturn DEF Actors
<1> QED BY <1>1, <1>2
LEMMA ReturnRests ==
  ASSUME IndInv, RestInv, NEW a \in Workers, NEW holders, Return(a, holders),
         \/ holders = {}
         \/ obj' = obj /\ holders = current /\ (a = "backup" /\ ~Due => obj.fin /\ Orderly(obj))
  PROVE  Rests
<1>1. CASE a = "backup"
  BY <1>1, OwnReturn
<1>2. CASE a # "backup"
  BY <1>2, OthersReturn DEF Actors
<1> QED BY <1>1, <1>2
LEMMA AfterChangeRests ==
  ASSUME IndInv, RestInv, NEW a \in Workers, NEW holders, AfterChange(a, holders), pc[a] # "idle",
         \/ holders = {}
         \/ obj' = obj /\ holders = current /\ (a = "backup" /\ ~Due => Orderly(obj))
  PROVE  Rests
<1>1. CASE a = "backup"
  BY <1>1, OwnAfterChange
<1>2. CASE a # "backup"
  BY <1>2, OthersReturn DEF Actors
<1> QED BY <1>1, <1>2

\* It moves on with its object: after a write, or to a place that suits.
LEMMA MoveRests ==
  ASSUME IndInv, RestInv, NEW a \in Workers, NEW where, where # "idle",
         pc' = [pc EXCEPT ![a] = where], UNCHANGED <<loc, hadFin, queue>>,
         \/ current' = {}
         \/ obj' = obj /\ current' = current /\ (a = "backup" /\ ~Due => Suits(where))
  PROVE  Rests
<1>1. CASE a = "backup"
  <2>1. pc'["backup"] = where
    BY <1>1 DEF IndInv, TypeOK, LocalsOK, Actors, Workers
  <2>2. CASE current' = {}
    BY <2>1, <2>2, DueRests DEF Due
  <2>3. CASE obj' = obj /\ current' = current /\ (~Due => Suits(where))
    <3>1. Due' <=> Due
      BY <2>3 DEF Due
    <3>2. ~Due => Suits(where)'
      BY <2>3 DEF Suits
    <3> QED BY <2>1, <3>1, <3>2 DEF Rests, PlaceInv, IdleInv
  <2> QED BY <1>1, <2>2, <2>3
<1>2. CASE a # "backup"
  BY <1>2, OthersMove DEF Actors
<1> QED BY <1>1, <1>2

\* It begins, for the object in the cache: the worker, if it is not due then, has
\* read the stored backup.
LEMMA BeginRests ==
  ASSUME IndInv, RestInv, Reconcile
  PROVE  Rests
<1> USE DEF IndInv, RestInv
<1>1. pc["backup"] = "idle" /\ obj' = obj /\ cache' = cache
      /\ "backup" \notin hadFin /\ cache \in VMBackup
  BY DEF Reconcile, IdleInv, TypeOK, ApiOK
<1>2. CASE cache.uid = 0 /\ UNCHANGED <<locals, current>>
  <2>1. Due'
    BY <1>1, <1>2 DEF Due, CurrentInv
  <2> QED BY <1>1, <1>2, <2>1, DueRests DEF locals
<1>3. CASE cache.uid # 0 /\ Enter("backup", Route(cache))
  <2> DEFINE to == Route(cache)
  <2>1. /\ pc'["backup"] = to
        /\ loc'["backup"] = IF to = "delete" THEN Absent ELSE cache
        /\ "backup" \in hadFin' <=> cache.fin
        /\ "cache" \in current' <=> "cache" \in current
    BY <1>1, <1>3 DEF Enter, ReadBy, TypeOK, LocalsOK, Actors, Workers
  <2>2. Fits(to, cache)
    BY <1>1, <1>3, RouteFits
  <2>3. /\ to = "delete" => cache.deleting
        /\ to \in {"snapshots", "target", "upload"} => ~cache.deleting
        /\ to \in {"target", "upload"} => cache.ready /\ cache.csi
        /\ to \in {"delete", "csi", "target", "upload", "init", "statusError", "snapshots"}
    BY <1>1 DEF Route, ReadyRoute, IsBackupReady, getBackupSource, VMBackup
  <2> HIDE DEF to
  <2>4. IdleInv'
    BY <2>1, <2>3 DEF IdleInv
  <2>5. ASSUME ~Due' PROVE Suits(pc["backup"])'
    <3>1. cache = obj
      BY <2>1, <2>5 DEF Due, CurrentInv
    <3>2. obj.deleting => obj.fin
      BY DEF FinInv
    <3> QED BY <1>1, <2>1, <2>3, <3>1, <3>2 DEF Suits, AfterWrite
  <2> QED BY <2>4, <2>5 DEF Rests, PlaceInv
<1> QED BY <1>2, <1>3 DEF Reconcile
LEMMA OthersBegin ==
  ASSUME IndInv, RestInv, NEW a \in Actors \ {"backup"}, NEW where, Enter(a, where),
         obj' = obj, NEW v, a # "backup", queue' = queue \ {<<a, v>>}
  PROVE  Rests
<1>1. /\ pc'["backup"] = pc["backup"] /\ loc'["backup"] = loc["backup"]
      /\ "backup" \in hadFin' <=> "backup" \in hadFin
      /\ "cache" \in current' <=> "cache" \in current
  BY DEF Enter, ReadBy, IndInv, TypeOK, LocalsOK, Actors, Workers
<1>2. <<"backup", 0>> \in queue => <<"backup", 0>> \in queue'
  <2>1. <<"backup", 0>> # <<a, v>>
    OBVIOUS
  <2> QED BY <2>1
<1> QED BY <1>1, <1>2, OthersRest DEF Due

----------------------------------------------------------------------------
(* Handlers of a backup that is not ready                                  *)

\* A panic, and what else ends in a restart.
LEMMA PanicRests ==
  ASSUME NEW a \in Workers, PanicOnError(a)
  PROVE  Rests
  BY RestartRests DEF PanicOnError

\* Failures before anything is written.
LEMMA GivesUpRests ==
  ASSUME IndInv, RestInv, NEW a \in Workers,
         MountFails(a) \/ NoSnapshotClass(a) \/ MissingSecret(a) \/ setStatusError(a)
  PROVE  Rests
<1>1. CASE MountFails(a) \/ NoSnapshotClass(a)
  <2>1. /\ pc' = [pc EXCEPT ![a] = "statusError"] /\ UNCHANGED <<loc, hadFin, queue, obj, current>>
        /\ pc[a] \in {"init", "snapshots"}
    BY <1>1 DEF MountFails, NoSnapshotClass, GiveUp, api
  <2>2. a = "backup" /\ ~Due => Suits("statusError")
    BY <2>1 DEF RestInv, PlaceInv, Suits, AfterWrite
  <2> QED BY <2>1, <2>2, MoveRests
<1>2. CASE MissingSecret(a) \/ setStatusError(a)
  BY <1>2, FailRests DEF MissingSecret, setStatusError
<1> QED BY <1>1, <1>2

\* initBackup fails, or stores a status where there was none.
LEMMA InitBackupRests ==
  ASSUME IndInv, RestInv, NEW a \in Workers, initBackup(a)
  PROVE  Rests
<1> DEFINE new == NewStatus(loc[a])
<1>1. pc[a] = "init" /\ a \in Actors
  BY DEF initBackup, Actors
<1>2. CASE obj' = obj /\ Fail(a, current)
  BY <1>2, FailRests
<1>3. CASE a \in current /\ obj' = new /\ AfterChange(a, Holders(new))
  <2>1. loc[a] = obj /\ ~obj.src
    BY <1>1, <1>3 DEF IndInv, CurrentInv, HandlerInv
  <2>2. new.src
    BY DEF NewStatus, Blank
  <2>3. Holders(new) = {}
    BY <2>1, <2>2 DEF Holders
  <2> QED BY <1>1, <1>3, <2>3, AfterChangeRests
<1> QED BY <1>2, <1>3 DEF initBackup

\* reconcileVolumeSnapshots goes on with the next volume, or panics.
LEMMA SnapshotsRest ==
  ASSUME IndInv, RestInv, NEW a \in Workers,
         \/ CopySnapshotStatus(a) \/ SnapshotBeingDeleted(a) \/ NoStatusToUpload(a)
         \/ createVolumeSnapshot(a)
         \/ GetCreatedSnapshot(a) \/ UpdateVolumeBackups(a)
  PROVE  Rests
<1>1. CASE Restart
  BY <1>1, RestartRests
<1>2. CASE /\ pc[a] \in {"snapshots", "created"} /\ UNCHANGED <<loc, hadFin, queue, obj, current>>
           /\ \E where \in {"snapshots", "created"} : pc' = [pc EXCEPT ![a] = where]
  <2> PICK where \in {"snapshots", "created"} : pc' = [pc EXCEPT ![a] = where]
    BY <1>2
  <2>1. a = "backup" /\ ~Due => Suits(where)
    BY <1>2 DEF RestInv, PlaceInv, Suits, AfterWrite
  <2> QED BY <1>2, <2>1, MoveRests
<1>3. CASE current' = {} /\ pc' = [pc EXCEPT ![a] = "conditions"] /\ UNCHANGED <<loc, hadFin, queue>>
  BY <1>3, MoveRests
<1>4. CASE CopySnapshotStatus(a)
  BY <1>2, <1>4 DEF CopySnapshotStatus, NextVolume, api
<1>5. CASE SnapshotBeingDeleted(a) \/ NoStatusToUpload(a)
  BY <1>1, <1>5 DEF SnapshotBeingDeleted, NoStatusToUpload
<1>6. CASE createVolumeSnapshot(a)
  BY <1>1, <1>2, <1>6 DEF createVolumeSnapshot, PanicOnError, Goto, api
<1>7. CASE GetCreatedSnapshot(a)
  BY <1>1, <1>2, <1>7 DEF GetCreatedSnapshot, PanicOnError, NextVolume, api
<1>8. CASE UpdateVolumeBackups(a)
  BY <1>1, <1>3, <1>8 DEF UpdateVolumeBackups, PanicOnError
<1> QED BY <1>4, <1>5, <1>6, <1>7, <1>8

\* A status from which updateConditions computes nothing new says what its volumes
\* say.
LEMMA UnchangedIsOrderly ==
  ASSUME NEW o \in VMBackup, NewConditions(o) = o, o.src, ~o.deleting, ~o.ready
  PROVE  Orderly(o)
<1>1. NewConditions(o).ready = VolumesReady(o) /\ VolumesReady(o) \in BOOLEAN
  BY DEF NewConditions, VMBackup, VolumesReady
<1>2. ~VolumesReady(o)
  BY <1>1
<1>3. FirstError(o) # 0 /\ o.error # FirstError(o) => NewConditions(o).error = FirstError(o)
  BY DEF NewConditions, VMBackup
<1> QED BY <1>2, <1>3 DEF Orderly

\* updateConditions ends the handler without a write only if the status is right.
LEMMA UpdateConditionsRests ==
  ASSUME IndInv, RestInv, NEW a \in Workers, updateConditions(a)
  PROVE  Rests
<1> DEFINE new == NewConditions(loc[a])
<1>1. pc[a] \in {"conditions", "snapshots"} /\ a \in Actors
  BY DEF updateConditions, Actors
<1>2. CASE new = loc[a] /\ obj' = obj /\ AfterChange(a, current)
  <2>1. ASSUME a = "backup", ~Due PROVE Orderly(obj)
    <3>1. pc[a] = "snapshots" /\ loc[a] = obj /\ ~obj.deleting
      BY <1>1, <2>1 DEF RestInv, PlaceInv, Suits, AfterWrite
    <3>2. obj.src /\ ~obj.ready /\ obj \in VMBackup
      BY <1>1, <3>1 DEF IndInv, HandlerInv, TypeOK, ApiOK
    <3> QED BY <1>2, <3>1, <3>2, UnchangedIsOrderly
  <2> QED BY <1>1, <1>2, <2>1, AfterChangeRests
<1>3. CASE AfterChange(a, {})
  BY <1>1, <1>3, AfterChangeRests
<1>4. CASE obj' = obj /\ Fail(a, current)
  BY <1>4, FailRests
<1> QED BY <1>2, <1>3, <1>4 DEF updateConditions

\* Reconcile ends with the finalizer, which it may find there.
LEMMA AddFinalizerRests ==
  ASSUME IndInv, RestInv, NEW a \in Workers, AddFinalizer(a)
  PROVE  Rests
<1> DEFINE new == [cache EXCEPT !.fin = TRUE]
<1>1. pc[a] = "finalizer" /\ ("cache" \in current => cache = obj) /\ cache \in VMBackup
  BY DEF AddFinalizer, IndInv, CurrentInv, TypeOK, ApiOK
<1>2. CASE cache.uid = 0 /\ obj' = obj /\ Return(a, current)
  <2>1. Due
    BY <1>1, <1>2 DEF Due
  <2> QED BY <1>2, <2>1, ReturnRests
<1>3. CASE obj' = new /\ Return(a, Holders(new))
  <2>1. CASE new = obj
    <3>1. obj.fin
      BY <1>1, <2>1 DEF VMBackup
    <3>2. a = "backup" /\ ~Due => Orderly(obj)
      BY <1>1 DEF RestInv, PlaceInv, Suits
    <3> QED BY <1>3, <2>1, <3>1, <3>2, ReturnRests DEF Holders
  <2>2. CASE new # obj
    BY <1>3, <2>2, ReturnRests DEF Holders
  <2> QED BY <2>1, <2>2
<1>4. CASE obj' = obj /\ Fail(a, current)
  BY <1>4, FailRests
<1> QED BY <1>2, <1>3, <1>4 DEF AddFinalizer

----------------------------------------------------------------------------
(* Handlers of a ready backup, and of one that is being deleted            *)

\* The two steps of the migration: each writes, or finds its work done.
LEMMA MigrationRests ==
  ASSUME IndInv, RestInv, NEW a \in Workers,
         configureCSIDriverVolumeSnapshotClassNames(a) \/ configureBackupTargetOnStatus(a)
  PROVE  Rests
<1>1. CASE configureCSIDriverVolumeSnapshotClassNames(a)
  <2>1. CASE current' = {} /\ Goto(a, "csiGet") /\ UNCHANGED queue
    BY <2>1, MoveRests DEF Goto
  <2> QED BY <1>1, <2>1, FailRests DEF configureCSIDriverVolumeSnapshotClassNames
<1>2. CASE configureBackupTargetOnStatus(a)
  <2> DEFINE new == [loc[a] EXCEPT !.target = AnnotatedTarget]
  <2>1. pc[a] = "target"
    BY <1>2 DEF configureBackupTargetOnStatus
  <2>2. a = "backup" /\ ~Due => obj.ready /\ obj.csi /\ ~obj.deleting
    BY <2>1 DEF RestInv, PlaceInv, Suits
  <2>3. CASE Kind = "snapshot" /\ obj' = obj /\ AfterChange(a, current)
    <3>1. a = "backup" /\ ~Due => Orderly(obj)
      BY <2>2, <2>3 DEF Orderly, IndInv, SaneInv, Sane, Complete
    <3> QED BY <2>1, <2>3, <3>1, AfterChangeRests
  <2>4. CASE obj' = new /\ current' = Holders(new) /\ Goto(a, "targetGet") /\ UNCHANGED queue
    <3>1. a = "backup" /\ ~Due => Suits("targetGet")
      BY <2>1, <2>2 DEF RestInv, PlaceInv, Suits, AfterWrite
    <3>2. current' = {} \/ (obj' = obj /\ current' = current)
      BY <2>4 DEF Holders
    <3> QED BY <2>4, <3>1, <3>2, MoveRests DEF Goto
  <2>5. CASE obj' = obj /\ Fail(a, current)
    BY <2>5, FailRests
  <2> QED BY <1>2, <2>3, <2>4, <2>5 DEF configureBackupTargetOnStatus
<1> QED BY <1>1, <1>2

\* The Get after each: the worker that is not due reads the stored backup.
LEMMA GetUpdatedRests ==
  ASSUME IndInv, RestInv, NEW a \in Workers, GetUpdated(a)
  PROVE  Rests
<1>1. pc[a] \in {"csiGet", "targetGet"} /\ obj' = obj /\ cache' = cache
  BY DEF GetUpdated
<1>2. CASE Fail(a, current)
  BY <1>1, <1>2, FailRests
<1>3. CASE /\ \E where \in {"target", "upload"} :
                 /\ pc' = [pc EXCEPT ![a] = where]
                 /\ pc[a] = "targetGet" => where = "upload"
           /\ loc' = [loc EXCEPT ![a] = cache] /\ current' = ReadBy(a)
           /\ UNCHANGED <<hadFin, queue>>
  <2> PICK where \in {"target", "upload"} : /\ pc' = [pc EXCEPT ![a] = where]
                                            /\ pc[a] = "targetGet" => where = "upload"
    BY <1>3
  <2>1. CASE a = "backup"
    <3>1. pc'["backup"] = where /\ loc'["backup"] = cache
      BY <1>3, <2>1 DEF IndInv, TypeOK, LocalsOK, Actors, Workers
    <3>2. Due' <=> Due
      BY <1>1, <1>3, <2>1 DEF Due, ReadBy
    <3>3. ASSUME ~Due PROVE Suits(where)'
      <4>1. cache = obj
        BY <3>3 DEF Due, IndInv, CurrentInv
      <4>2. Suits(pc["backup"])
        BY <3>3 DEF RestInv, PlaceInv
      <4>3. pc["backup"] = "targetGet" /\ where = "upload"
        BY <1>1, <2>1, <4>2 DEF Suits, AfterWrite
      <4> QED BY <1>1, <1>3, <3>1, <4>1, <4>2, <4>3 DEF Suits, AfterWrite
    <3> QED BY <3>1, <3>2, <3>3 DEF Rests, PlaceInv, IdleInv
  <2>2. CASE a # "backup"
    <3>1. /\ pc'["backup"] = pc["backup"] /\ loc'["backup"] = loc["backup"]
          /\ "cache" \in current' <=> "cache" \in current
      BY <1>3, <2>2 DEF ReadBy, IndInv, TypeOK, LocalsOK, Actors, Workers
    <3> QED BY <1>1, <1>3, <3>1, OthersRest DEF Due
  <2> QED BY <2>1, <2>2
<1> QED BY <1>2, <1>3 DEF GetUpdated

\* An upload that is no error is of a backup recorded at a target.
LEMMA UploadRests ==
  ASSUME IndInv, RestInv, NEW a \in Workers, uploadVMBackupMetadata(a)
  PROVE  Rests
<1>1. pc[a] = "upload" /\ obj' = obj
  BY DEF uploadVMBackupMetadata
<1>2. CASE Fail(a, current)
  BY <1>1, <1>2, FailRests
<1>3. CASE loc[a].target # "none" /\ AfterChange(a, current)
  <2>1. a = "backup" /\ ~Due => loc[a] = obj /\ obj.ready /\ obj.csi /\ ~obj.deleting
    BY <1>1 DEF RestInv, PlaceInv, Suits
  <2>2. a = "backup" /\ ~Due => Orderly(obj)
    BY <1>3, <2>1 DEF Orderly, IndInv, SaneInv, Sane, Complete
  <2> QED BY <1>1, <1>3, <2>2, AfterChangeRests
<1> QED BY <1>2, <1>3 DEF uploadVMBackupMetadata

\* The worker that is not due takes the finalizer off a backup that is being
\* deleted, and with it the backup.
LEMMA DeleteFinalizerRests ==
  ASSUME IndInv, RestInv, NEW a \in Workers, DeleteFinalizer(a)
  PROVE  Rests
<1> DEFINE new == IF cache.deleting THEN Absent ELSE [cache EXCEPT !.fin = FALSE]
<1>1. pc[a] = "delete" /\ ("cache" \in current => cache = obj)
  BY DEF DeleteFinalizer, IndInv, CurrentInv
<1>2. a = "backup" /\ ~Due => cache = obj /\ cache.uid # 0 /\ obj.deleting /\ "backup" \in hadFin
  BY <1>1 DEF RestInv, PlaceInv, Suits, Due
<1>3. CASE (a \notin hadFin \/ cache.uid = 0) /\ obj' = obj /\ Return(a, current)
  BY <1>2, <1>3, ReturnRests
<1>4. CASE obj' = new /\ current' = Holders(new) /\ Goto(a, "removed") /\ UNCHANGED queue
  <2>1. CASE new # obj
    BY <1>4, <2>1, MoveRests DEF Goto, Holders
  <2>2. CASE new = obj
    <3>1. ~(a = "backup" /\ ~Due)
      <4>1. a = "backup" /\ ~Due => new = Absent /\ obj.uid # 0
        BY <1>2
      <4> QED BY <2>2, <4>1 DEF Absent, Blank
    <3> QED BY <1>4, <2>2, <3>1, MoveRests DEF Goto, Holders
  <2> QED BY <2>1, <2>2
<1>5. CASE obj' = obj /\ Fail(a, current)
  BY <1>5, FailRests
<1> QED BY <1>3, <1>4, <1>5 DEF DeleteFinalizer

\* The clean-up comes after the write, so the worker is due, or nothing is stored.
LEMMA RemovalRests ==
  ASSUME IndInv, RestInv, NEW a \in Workers,
         OnBackupRemove(a) \/ forceDeleteVolumeSnapshotAndContent(a)
  PROVE  Rests
<1>1. pc[a] \in {"removed", "forceDelete"} /\ obj' = obj
  BY DEF OnBackupRemove, forceDeleteVolumeSnapshotAndContent
<1>2. a = "backup" => Due
  BY <1>1 DEF RestInv, PlaceInv, Suits, AfterWrite
<1>3. CASE Return(a, current) \/ Fail(a, current)
  BY <1>1, <1>2, <1>3, ReturnRests, FailRests
<1>4. CASE Goto(a, "forceDelete") /\ UNCHANGED <<queue, current>>
  BY <1>1, <1>2, <1>4, MoveRests DEF Goto
<1>5. CASE UNCHANGED <<pc, loc, hadFin, queue, current>>
  BY <1>1, <1>5, OthersRest DEF Due
<1> QED BY <1>3, <1>4, <1>5 DEF OnBackupRemove, forceDeleteVolumeSnapshotAndContent

\* Every step of a handler.
LEMMA WorkerStepRests ==
  ASSUME IndInv, RestInv, NEW a \in Workers, WorkerStep(a)
  PROVE  Rests
  BY GivesUpRests, InitBackupRests, SnapshotsRest, UpdateConditionsRests, AddFinalizerRests,
     MigrationRests, GetUpdatedRests, UploadRests, DeleteFinalizerRests, RemovalRests
  DEF WorkerStep

----------------------------------------------------------------------------
(* The other controllers, informers and users                              *)

\* The LonghornBackup controller.
LEMMA LonghornRests ==
  ASSUME IndInv, RestInv,
         (\E v \in Volumes : OnLHBackupChanged(v)) \/ UpdateLonghornBackupName
  PROVE  Rests
<1>1. CASE UpdateLonghornBackupName
  BY <1>1, OthersReturn DEF UpdateLonghornBackupName, Actors, Workers
<1>2. CASE \E v \in Volumes : OnLHBackupChanged(v)
  <2> PICK v \in Volumes : OnLHBackupChanged(v)
    BY <1>2
  <2>1. obj' = obj
    BY DEF OnLHBackupChanged
  <2>2. CASE queue' \in {queue, queue \ {<<"lh", v>>}} /\ UNCHANGED <<locals, current>>
    <3>1. <<"backup", 0>> \in queue => <<"backup", 0>> \in queue'
      <4>1. <<"backup", 0>> # <<"lh", v>>
        OBVIOUS
      <4> QED BY <2>2, <4>1
    <3> QED BY <2>1, <2>2, <3>1, OthersRest DEF Due, locals
  <2>3. CASE queue' = queue \ {<<"lh", v>>} /\ Enter("lh", "lhUpdate")
    BY <2>1, <2>3, OthersBegin DEF Actors
  <2> QED BY <2>2, <2>3 DEF OnLHBackupChanged
<1> QED BY <1>1, <1>2

\* The VolumeSnapshot controller takes an item.
LEMMA SnapshotBegins ==
  ASSUME IndInv, RestInv, NEW v \in Volumes, updateVolumeSnapshotChanged(v)
  PROVE  Rests
<1>1. obj' = obj /\ queue' = queue \ {<<"snapshot", v>>}
  BY DEF updateVolumeSnapshotChanged
<1>2. CASE UNCHANGED <<locals, current>>
  <2>1. <<"backup", 0>> \in queue => <<"backup", 0>> \in queue'
    <3>1. <<"backup", 0>> # <<"snapshot", v>>
      OBVIOUS
    <3> QED BY <1>1, <3>1
  <2> QED BY <1>1, <1>2, <2>1, OthersRest DEF Due, locals
<1>3. CASE Enter("snapshot", Route(cache))
  BY <1>1, <1>3, OthersBegin DEF Actors, Workers
<1> QED BY <1>2, <1>3 DEF updateVolumeSnapshotChanged

\* The Metadata controller, which may create the backup.
LEMMA MetadataRests ==
  ASSUME IndInv, RestInv, syncVMBackup \/ createVMBackupIfNotExist
  PROVE  Rests
<1>1. UNCHANGED locals
  BY DEF syncVMBackup, createVMBackupIfNotExist
<1>2. /\ current' = {} \/ (obj' = obj /\ current' = current)
      /\ <<"backup", 0>> \in queue => <<"backup", 0>> \in queue'
  <2>1. <<"backup", 0>> # <<"meta", 0>>
    OBVIOUS
  <2> QED BY <2>1 DEF syncVMBackup, createVMBackupIfNotExist, api
<1> QED BY <1>1, <1>2, OthersRest DEF Due, locals

\* The watch on backups brings the cache up to date and queues the backup.
LEMMA WatchRests ==
  ASSUME IndInv, RestInv, BackupWatch
  PROVE  Rests
<1>1. Due'
  BY DEF BackupWatch, Due, Queued
<1> QED BY <1>1, OthersRest DEF BackupWatch, locals

\* Users and the cluster: they make the cache stale, or leave the backup alone.
LEMMA SurroundingsRest ==
  ASSUME IndInv, RestInv, UNCHANGED locals, queue \subseteq queue',
         current' = {} \/ UNCHANGED <<obj, current>>
  PROVE  Rests
  BY OthersRest DEF Due, locals

\* The periodic resync: there was nothing queued.
LEMMA ResyncRests ==
  ASSUME IndInv, RestInv, Resync
  PROVE  Rests
<1>1. queue \subseteq queue'
  BY DEF Resync, Quiet
<1> QED BY <1>1, SurroundingsRest DEF Resync, api

\* Every step.
LEMMA NextRests ==
  ASSUME IndInv, RestInv, [Next]_vars
  PROVE  Rests
<1>1. CASE Reconcile
  BY <1>1, BeginRests
<1>2. CASE \E a \in Workers : WorkerStep(a)
  BY <1>2, WorkerStepRests
<1>3. CASE \E v \in Volumes : updateVolumeSnapshotChanged(v)
  BY <1>3, SnapshotBegins
<1>4. CASE (\E v \in Volumes : OnLHBackupChanged(v)) \/ UpdateLonghornBackupName
  BY <1>4, LonghornRests
<1>5. CASE syncVMBackup \/ createVMBackupIfNotExist
  BY <1>5, MetadataRests
<1>6. CASE BackupWatch
  BY <1>6, WatchRests
<1>7. CASE Resync
  BY <1>7, ResyncRests
<1>8. CASE Crash
  BY <1>8, RestartRests DEF Crash
<1>9. CASE CreateBackup \/ DeleteBackup \/ LoseSource
  BY <1>9, SurroundingsRest DEF CreateBackup, DeleteBackup, LoseSource, api
<1>10. CASE (\E v \in Volumes : SnapshotWatch(v)) \/ \E t \in Settings : SetBackupTarget(t)
  BY <1>10, SurroundingsRest DEF SnapshotWatch, SetBackupTarget, Queued, api
<1>11. CASE \E v \in Volumes : \/ SnapshotDone(v) \/ SnapshotError(v) \/ SnapshotGone(v)
                               \/ DeleteSnapshot(v) \/ CollectContent(v)
                               \/ LonghornBackupEvent(v)
  BY <1>11, SurroundingsRest DEF SnapshotDone, SnapshotError, SnapshotGone, DeleteSnapshot,
     CollectContent, LonghornBackupEvent, Queued, api
<1>12. CASE UNCHANGED vars
  BY <1>12, SurroundingsRest DEF vars, api
<1> QED BY <1>1, <1>2, <1>3, <1>4, <1>5, <1>6, <1>7, <1>8, <1>9, <1>10, <1>11, <1>12 DEF Next

----------------------------------------------------------------------------
(* Only a backup with the finalizer is ever marked                         *)

\* What is computed from a backup keeps the mark and the finalizer.
LEMMA SameMarks ==
  ASSUME NEW o \in VMBackup
  PROVE  /\ StatusError(o).deleting = o.deleting /\ StatusError(o).fin = o.fin
         /\ NewStatus(o).deleting = o.deleting /\ NewStatus(o).fin = o.fin
         /\ NewConditions(o).deleting = o.deleting /\ NewConditions(o).fin = o.fin
<1>1. StatusError(o).deleting = o.deleting /\ StatusError(o).fin = o.fin
  BY DEF StatusError, Blank
<1>2. NewStatus(o).deleting = o.deleting /\ NewStatus(o).fin = o.fin
  BY DEF NewStatus, Blank
<1>3. NewConditions(o).deleting = o.deleting /\ NewConditions(o).fin = o.fin
  BY DEF NewConditions, VMBackup
<1> QED BY <1>1, <1>2, <1>3

\* A handler's step.
LEMMA WorkerStepFin ==
  ASSUME IndInv, FinInv, NEW a \in Workers, WorkerStep(a)
  PROVE  FinInv'
<1>1. /\ loc[a] \in VMBackup /\ cache \in VMBackup /\ obj \in VMBackup
      /\ a \in current => loc[a] = obj
      /\ "cache" \in current => cache = obj
  BY DEF IndInv, TypeOK, ApiOK, LocalsOK, CurrentInv, Actors
<1>2. CASE obj' = obj
  BY <1>2 DEF FinInv
<1>3. CASE a \in current /\ obj' \in {StatusError(loc[a]), NewStatus(loc[a]), NewConditions(loc[a])}
  BY <1>1, <1>3, SameMarks DEF FinInv
<1>4. CASE /\ a \in current
           /\ \/ obj' = [loc[a] EXCEPT !.vols = cpy[a]]
              \/ obj' = [loc[a] EXCEPT !.csi = TRUE]
              \/ obj' = [loc[a] EXCEPT !.target = AnnotatedTarget]
  BY <1>1, <1>4 DEF FinInv, VMBackup
<1>5. CASE AddFinalizer(a)
  BY <1>1, <1>2, <1>5 DEF AddFinalizer, FinInv, VMBackup
<1>6. CASE DeleteFinalizer(a)
  <2>1. ~Absent.deleting
    BY DEF Absent, Blank
  <2> QED BY <1>1, <1>2, <1>6, <2>1 DEF DeleteFinalizer, FinInv, VMBackup
<1>7. CASE MountFails(a) \/ NoSnapshotClass(a) \/ MissingSecret(a) \/ CopySnapshotStatus(a)
           \/ SnapshotBeingDeleted(a) \/ GetUpdated(a) \/ NoStatusToUpload(a)
           \/ uploadVMBackupMetadata(a) \/ OnBackupRemove(a) \/ forceDeleteVolumeSnapshotAndContent(a)
  BY <1>2, <1>7 DEF MountFails, NoSnapshotClass, GiveUp, MissingSecret, CopySnapshotStatus,
     SnapshotBeingDeleted, GetUpdated, NoStatusToUpload, uploadVMBackupMetadata, OnBackupRemove,
     forceDeleteVolumeSnapshotAndContent, api
<1>8. CASE setStatusError(a) \/ initBackup(a) \/ updateConditions(a)
  BY <1>2, <1>3, <1>8 DEF setStatusError, initBackup, updateConditions
<1>9. CASE createVolumeSnapshot(a) \/ GetCreatedSnapshot(a) \/ UpdateVolumeBackups(a)
  BY <1>2, <1>3, <1>4, <1>9 DEF createVolumeSnapshot, GetCreatedSnapshot, UpdateVolumeBackups,
     PanicOnError, api
<1>10. CASE configureCSIDriverVolumeSnapshotClassNames(a) \/ configureBackupTargetOnStatus(a)
  BY <1>2, <1>4, <1>10 DEF configureCSIDriverVolumeSnapshotClassNames, configureBackupTargetOnStatus
<1> QED BY <1>5, <1>6, <1>7, <1>8, <1>9, <1>10 DEF WorkerStep

\* Every step.
LEMMA NextFin ==
  ASSUME IndInv, FinInv, [Next]_vars
  PROVE  FinInv'
<1>1. CASE obj' = obj
  BY <1>1 DEF FinInv
<1>2. CASE \E a \in Workers : WorkerStep(a)
  BY <1>2, WorkerStepFin
<1>3. CASE UpdateLonghornBackupName
  <2>1. loc["lh"] \in VMBackup /\ ("lh" \in current => loc["lh"] = obj)
    BY DEF IndInv, TypeOK, LocalsOK, CurrentInv, Actors
  <2>2. obj' # obj => \/ obj' = loc["lh"] /\ "lh" \in current
                      \/ obj' = [loc["lh"] EXCEPT !.vols[idx["lh"]].lh = TRUE] /\ "lh" \in current
    BY <1>3 DEF UpdateLonghornBackupName
  <2> QED BY <1>1, <2>1, <2>2 DEF FinInv, VMBackup
<1>4. CASE createVMBackupIfNotExist \/ CreateBackup
  <2>1. \A u, f : ~Blank(u, f).deleting
    BY DEF Blank
  <2>2. \A u, t, m : ~FromMetadata(u, t, m).deleting
    BY DEF FromMetadata, Blank
  <2> QED BY <1>1, <1>4, <2>1, <2>2 DEF createVMBackupIfNotExist, CreateBackup, FinInv
<1>5. CASE DeleteBackup
  <2>1. ~Absent.deleting
    BY DEF Absent, Blank
  <2> QED BY <1>5, <2>1 DEF DeleteBackup, FinInv, IndInv, TypeOK, ApiOK, VMBackup
<1>6. CASE \/ Reconcile \/ syncVMBackup \/ BackupWatch \/ Resync \/ Crash \/ LoseSource
           \/ \E v \in Volumes : updateVolumeSnapshotChanged(v) \/ OnLHBackupChanged(v)
           \/ UNCHANGED vars
  BY <1>1, <1>6 DEF Reconcile, syncVMBackup, BackupWatch, Resync, Crash, LoseSource,
     updateVolumeSnapshotChanged, OnLHBackupChanged, vars, api
<1>7. CASE \/ \E v \in Volumes : SnapshotWatch(v)
           \/ \E t \in Settings : SetBackupTarget(t)
           \/ \E v \in Volumes : \/ SnapshotDone(v) \/ SnapshotError(v) \/ SnapshotGone(v)
                                 \/ DeleteSnapshot(v) \/ CollectContent(v)
                                 \/ LonghornBackupEvent(v)
  BY <1>1, <1>7 DEF SnapshotWatch, SetBackupTarget, SnapshotDone, SnapshotError, SnapshotGone,
     DeleteSnapshot, CollectContent, LonghornBackupEvent, api
<1> QED BY <1>2, <1>3, <1>4, <1>5, <1>6, <1>7 DEF Next

----------------------------------------------------------------------------
\* The backup's worker is due whenever what its handler read is not so any more.
THEOREM RestInvariance == Spec => []RestInv
<1>1. ASSUME Init PROVE RestInv
  <2>1. /\ hadFin = {} /\ pc["backup"] = "idle"
        /\ obj.deleting = FALSE
    BY <1>1 DEF Init, Actors, Workers, LegacyBackup, Absent, Blank
  <2>2. Due
    <3>1. <<"backup", 0>> \in Items
      BY DEF Items
    <3>2. "backup" \in Controllers /\ obj.uid # 0 => <<"backup", 0>> \in Listed(obj, vs, lhb)
      BY <3>1 DEF Listed
    <3> QED BY <1>1, <3>2 DEF Due, Init
  <2> QED BY <2>1, <2>2 DEF RestInv, PlaceInv, IdleInv, FinInv
<1>2. ASSUME IndInv, RestInv, [Next]_vars PROVE RestInv'
  <2>1. Rests
    BY <1>2, NextRests
  <2>2. FinInv'
    BY <1>2, NextFin DEF RestInv
  <2> QED BY <2>1, <2>2 DEF Rests, RestInv
<1> QED BY <1>1, <1>2, Invariance, PTL DEF Spec

\* When nothing is going on, a backup has its finalizer and its status, is not being
\* deleted, has been migrated if it is ready, and otherwise says what its volumes
\* say: whatever Reconcile was refused, dropped or read too early is made up for by
\* the event of the write that overtook it.
THEOREM NothingUndone == Spec => []NothingLeftUndone
<1>1. ASSUME RestInv PROVE NothingLeftUndone
  <2> SUFFICES ASSUME Quiet, "backup" \in Controllers, obj.uid # 0
               PROVE  obj.fin /\ Orderly(obj)
    BY DEF NothingLeftUndone
  <2>1. pc["backup"] = "idle" /\ queue = {} /\ "cache" \in current
    BY DEF Quiet, Actors, Workers
  <2> QED BY <1>1, <2>1 DEF RestInv, PlaceInv, Suits, Due
<1> QED BY <1>1, RestInvariance, PTL
=============================================================================
