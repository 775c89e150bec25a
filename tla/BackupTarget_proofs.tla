------------------------ MODULE BackupTarget_proofs ------------------------
(***************************************************************************)
(* Proofs about BackupTarget for any hosts, buckets, keys, submitted       *)
(* values and bounds: the type invariant, that the S3 keys are not lost,   *)
(* and that the controller never comes to rest with its target unfinished  *)
(* and nothing said about it.                                              *)
(***************************************************************************)
EXTENDS BackupTarget, TLAPS

----------------------------------------------------------------------------
(* The inductive invariant.  NoLostKeys is about the stored Setting, which *)
(* is overwritten from copies: the invariant says which copies may still   *)
(* be written back, what OnChange has done by each of its places, and that *)
(* no copy of an older submission is left once the keys are stripped.      *)

\* The worker's copy is current only as long as the cache's is; a current copy is
\* the stored Setting.
CurrentInv == /\ "cache" \in current => cache = set
              /\ "worker" \in current => pc # "idle" /\ "cache" \in current /\ loc = set

\* Each place of OnChange is reached for its own types of target only.
RouteInv ==
  /\ pc = "longhorn" /\ loc.value.type = "s3" => HasKeys(loc.value)
  /\ pc \in {"secret", "credential", "strip"} => loc.value.type = "s3" /\ HasKeys(loc.value)
  /\ pc \in {"deleteSecret", "deleteCredential", "reset"} => loc.value.type # "s3"

\* From updateBackupTargetSecret on, the Secret holds the keys of the copy.
SecretInv == pc \in {"credential", "strip"} =>
               objs["secret"].stored = getBackupSecretData(loc.value)

\* Once the keys are stripped, they are in the Secret, and the copies the cache
\* and the worker hold are of this submission.
Versions == {given, Stripped(given)}
StripInv == set.value # given =>
              /\ set.value = Stripped(given) /\ given.type = "s3"
              /\ objs["secret"].stored = getBackupSecretData(given)
              /\ cache.value \in Versions
              /\ pc # "idle" => loc.value \in Versions

IndInv == TypeOK /\ CurrentInv /\ RouteInv /\ SecretInv /\ StripInv

----------------------------------------------------------------------------
(* What the operators return                                               *)

\* The values a handler starts from and leaves behind are of their kinds.
LEMMA ConstantTypes ==
  /\ Empty \in Value /\ NoError \in Error
  /\ [value |-> Empty, cond |-> Unset] \in Setting
<1>1. Empty \in Value /\ NoError \in Error
  BY DEF Empty, Value, NoError, Error
<1> QED BY <1>1 DEF Setting, Unset

\* Contents of Longhorn's objects made from a target.
LEMMA ContentsTypes ==
  ASSUME NEW v \in Value
  PROVE  /\ ConstructEndpoint(v) \in Contents
         /\ HasKeys(v) => getBackupSecretData(v) \in Contents
         /\ Named \in Contents /\ Missing \in Contents
<1>1. ConstructEndpoint(v) \in {"", "s3", "nfs"} \X (Hosts \cup Buckets \cup {""})
  BY DEF ConstructEndpoint, Value
<1>2. HasKeys(v) => getBackupSecretData(v) \in (Hosts \cup {""}) \X Keys
  BY DEF HasKeys, getBackupSecretData, Value
<1> QED BY <1>1, <1>2 DEF Contents

\* Stripping the keys of a target leaves a target without keys.
LEMMA StripTypes ==
  ASSUME NEW v \in Value
  PROVE  /\ Stripped(v) \in Value /\ Stripped(v).type = v.type /\ ~HasKeys(Stripped(v))
  BY DEF Stripped, Value, HasKeys

\* A step of the controller that writes one of Longhorn's objects leaves it an
\* object and does not touch the others.
LEMMA ObjectTypes ==
  ASSUME NEW o \in Object, NEW new \in Contents, NEW same \in BOOLEAN
  PROVE  Written(o, new, same) \in Object /\ Deleted(o) \in Object /\ Seen(o) \in Object
<1>1. Missing \in Contents
  BY DEF Contents
<1> QED BY <1>1 DEF Written, Deleted, Seen, Object

----------------------------------------------------------------------------
\* The initial states.
LEMMA InitInv == Init => IndInv
<1> SUFFICES ASSUME Init PROVE IndInv
  OBVIOUS
<1> USE ConstantTypes
<1>1. \A c \in {Missing, <<"", "">>, <<"">>} :
        [stored |-> c, seen |-> c, fresh |-> TRUE] \in Object
  <2>1. <<"", "">> \in {"", "s3", "nfs"} \X (Hosts \cup Buckets \cup {""})
    OBVIOUS
  <2> QED BY <2>1 DEF Contents, Object
<1>2. objs \in [Objects -> Object]
  BY <1>1 DEF Init, Objects
<1>3. changes \in 0..MaxChanges /\ faults \in 0..MaxFaults
  <2>1. changes = MaxChanges /\ faults = MaxFaults
    BY DEF Init
  <2> QED BY <2>1, BoundsAssumption
<1>4. set = [value |-> Empty, cond |-> Unset] /\ cache = set /\ loc = set /\ given = Empty
      /\ current = {"cache"} /\ queued = FALSE /\ err = NoError /\ pc = "idle"
  BY DEF Init
<1>5. TypeOK
  BY <1>2, <1>3, <1>4 DEF TypeOK
<1> QED BY <1>4, <1>5 DEF IndInv, CurrentInv, RouteInv, SecretInv, StripInv

----------------------------------------------------------------------------
(* The three kinds of calls                                                *)

Places == {"longhorn", "secret", "credential", "strip", "deleteSecret",
           "deleteCredential", "configure", "reset"}

\* A step that spends a fault leaves their number within its bound.
LEMMA FaultsType ==
  ASSUME TypeOK, faults' = faults \/ (faults > 0 /\ faults' = faults - 1)
  PROVE  faults' \in 0..MaxFaults
<1>1. faults \in 0..MaxFaults
  BY DEF TypeOK
<1> QED BY <1>1, BoundsAssumption

\* A call that writes one of Longhorn's objects goes on, or reports its error.
LEMMA WriteStep ==
  ASSUME TypeOK, NEW here \in {"longhorn", "secret", "credential"}, NEW o \in Objects,
         NEW new \in Contents, NEW same \in BOOLEAN, NEW then \in Places,
         WriteObject(here, o, new, same, then)
  PROVE  /\ TypeOK'
         /\ pc = here /\ UNCHANGED <<set, cache, given, loc, current>>
         /\ \/ pc' = "configure" /\ objs' = objs
            \/ pc' = then /\ objs' = [objs EXCEPT ![o] = Written(@, new, same)]
<1>1. /\ pc = here /\ pc' \in {"configure", then} /\ err' \in Error
      /\ UNCHANGED <<set, cache, given, changes, loc, current, queued>>
  <2>1. WriteError(objs[o], new, same) \in {"", "exists", "gone", "conflict"}
    BY DEF WriteError
  <2>2. /\ NoError \in Error /\ [step |-> here, why |-> "failure"] \in Error
        /\ [step |-> here, why |-> WriteError(objs[o], new, same)] \in Error
    BY <2>1, ConstantTypes DEF Error
  <2> QED BY <2>2 DEF WriteObject, Goto
<1>2. \/ pc' = "configure" /\ objs' = objs
      \/ pc' = then /\ objs' = [objs EXCEPT ![o] = Written(@, new, same)]
  BY DEF WriteObject, Goto
<1>3. objs' \in [Objects -> Object]
  BY <1>2, ObjectTypes DEF TypeOK
<1>4. faults' \in 0..MaxFaults
  <2>1. faults' = faults \/ (faults > 0 /\ faults' = faults - 1)
    BY DEF WriteObject
  <2> QED BY <2>1, FaultsType
<1> QED BY <1>1, <1>2, <1>3, <1>4 DEF TypeOK, Places

\* An Update of the Setting from the worker's copy ends the handler: it stores the
\* new Setting if the copy was current, and otherwise changes nothing.
LEMMA UpdateStep ==
  ASSUME TypeOK, NEW new \in Setting, UpdateSetting(new),
         UNCHANGED <<cache, objs, given, changes>>
  PROVE  /\ TypeOK'
         /\ pc' = "idle" /\ "worker" \notin current'
         /\ \/ set' = set /\ current' \subseteq current
            \/ "worker" \in current /\ set' = new /\ current' \subseteq {}
            \/ "worker" \in current /\ set' = new /\ new = set /\ current' \subseteq current
<1>1. /\ pc' = "idle" /\ loc' = [value |-> Empty, cond |-> Unset] /\ err' = NoError
      /\ "worker" \notin current' /\ queued' \in BOOLEAN
      /\ \/ set' = set /\ current' \subseteq current
         \/ "worker" \in current /\ set' = new /\ current' \subseteq {}
         \/ "worker" \in current /\ set' = new /\ new = set /\ current' \subseteq current
  BY DEF UpdateSetting, Return, TypeOK
<1>2. faults' \in 0..MaxFaults
  <2>1. faults' = faults \/ (faults > 0 /\ faults' = faults - 1)
    BY DEF UpdateSetting
  <2> QED BY <2>1, FaultsType
<1>3. loc' \in Setting /\ err' \in Error
  BY <1>1, ConstantTypes
<1>4. set' \in Setting /\ current' \subseteq {"cache", "worker"}
  BY <1>1 DEF TypeOK
<1> QED BY <1>1, <1>2, <1>3, <1>4 DEF TypeOK

\* An Update that keeps the value preserves the invariant.
LEMMA UpdateKeepsInv ==
  ASSUME IndInv, NEW new \in Setting, new.value = loc.value, UpdateSetting(new),
         UNCHANGED <<cache, objs, given, changes>>
  PROVE  IndInv'
<1>1. TypeOK
  BY DEF IndInv
<1>2. /\ TypeOK' /\ pc' = "idle" /\ "worker" \notin current' /\ set'.value = set.value
      /\ \/ set' = set /\ current' \subseteq current
         \/ current' \subseteq {}
  <2>1. "worker" \in current => loc = set
    BY DEF IndInv, CurrentInv
  <2> QED BY <1>1, <2>1, UpdateStep
<1>3. CurrentInv'
  BY <1>2 DEF IndInv, CurrentInv
<1>4. RouteInv' /\ SecretInv'
  BY <1>2 DEF RouteInv, SecretInv
<1>5. StripInv'
  BY <1>2 DEF IndInv, StripInv, Versions
<1> QED BY <1>2, <1>3, <1>4, <1>5 DEF IndInv

----------------------------------------------------------------------------
(* The actions                                                             *)

\* The handler takes up the cached Setting.
LEMMA ReconcileInv == ASSUME IndInv, Reconcile PROVE IndInv'
<1> DEFINE to == IF Route(cache.value) = "check"
                   THEN IF NeedsCondition(cache) THEN "configure" ELSE "return"
                   ELSE Route(cache.value)
<1>1. TypeOK /\ CurrentInv /\ StripInv
  BY DEF IndInv
<1>2. UNCHANGED <<set, cache, objs, given, changes, faults>> /\ queued' = FALSE /\ pc = "idle"
  BY DEF Reconcile
<1>3. CASE to = "return"
  <2>1. UNCHANGED <<current, pc, loc, err>>
    BY <1>3 DEF Reconcile
  <2> QED BY <1>2, <2>1 DEF IndInv, TypeOK, CurrentInv, RouteInv, SecretInv, StripInv, Versions
<1>4. CASE to # "return"
  <2>1. /\ pc' = to /\ err' = RouteError(cache.value) /\ loc' = cache
        /\ current' = IF "cache" \in current THEN current \cup {"worker"}
                                             ELSE current \ {"worker"}
    BY <1>4 DEF Reconcile
  <2>2. /\ to \in {"longhorn", "configure"}
        /\ to = "longhorn" /\ cache.value.type = "s3" => HasKeys(cache.value)
    BY <1>4 DEF Route
  <2>3. RouteError(cache.value) \in Error
    BY DEF RouteError, Error, NoError
  <2> HIDE DEF to
  <2>4. TypeOK'
    BY <1>1, <1>2, <2>1, <2>2, <2>3 DEF TypeOK
  <2>5. CurrentInv'
    BY <1>1, <1>2, <2>1, <2>2 DEF CurrentInv
  <2>6. RouteInv' /\ SecretInv'
    BY <2>1, <2>2 DEF RouteInv, SecretInv
  <2>7. StripInv'
    BY <1>1, <1>2, <2>1 DEF StripInv, Versions
  <2> QED BY <2>4, <2>5, <2>6, <2>7 DEF IndInv
<1> QED BY <1>3, <1>4

\* Longhorn's target is written: the Secret is not touched.
LEMMA LonghornInv == ASSUME IndInv, updateLonghornTarget PROVE IndInv'
<1>1. TypeOK /\ loc.value \in Value
  BY DEF IndInv, TypeOK, Setting
<1>2. /\ TypeOK' /\ pc = "longhorn" /\ UNCHANGED <<set, cache, given, loc, current>>
      /\ pc' \in {"configure", AfterLonghorn} /\ objs'["secret"] = objs["secret"]
  <2>1. AfterLonghorn \in Places /\ "target" \in Objects
    BY DEF AfterLonghorn, Places, Objects
  <2>2. ConstructEndpoint(loc.value) \in Contents
    BY <1>1, ContentsTypes
  <2>3. WriteObject("longhorn", "target", ConstructEndpoint(loc.value),
                    Same(objs["target"], ConstructEndpoint(loc.value)), AfterLonghorn)
    BY DEF updateLonghornTarget
  <2>4. Same(objs["target"], ConstructEndpoint(loc.value)) \in BOOLEAN
    BY DEF Same
  <2>5. /\ TypeOK' /\ pc = "longhorn" /\ UNCHANGED <<set, cache, given, loc, current>>
        /\ \/ pc' = "configure" /\ objs' = objs
           \/ /\ pc' = AfterLonghorn
              /\ objs' = [objs EXCEPT !["target"] =
                            Written(@, ConstructEndpoint(loc.value),
                                    Same(objs["target"], ConstructEndpoint(loc.value)))]
    BY <1>1, <2>1, <2>2, <2>3, <2>4, WriteStep
  <2> QED BY <1>1, <2>5 DEF TypeOK, Objects
<1>3. CurrentInv'
  BY <1>2 DEF IndInv, CurrentInv, AfterLonghorn
<1>4. RouteInv' /\ SecretInv'
  BY <1>2 DEF IndInv, RouteInv, SecretInv, AfterLonghorn
<1>5. StripInv'
  BY <1>2 DEF IndInv, StripInv, Versions, AfterLonghorn
<1> QED BY <1>2, <1>3, <1>4, <1>5 DEF IndInv

\* The Secret is written with the keys of the worker's copy.  If keys have been
\* stripped already, that copy is the submission they were stripped from.
LEMMA SecretStepInv == ASSUME IndInv, updateBackupTargetSecret PROVE IndInv'
<1>1. TypeOK /\ loc.value \in Value /\ given \in Value
  BY DEF IndInv, TypeOK, Setting
<1>2. pc = "secret" /\ loc.value.type = "s3" /\ HasKeys(loc.value)
  BY DEF IndInv, RouteInv, updateBackupTargetSecret, WriteObject
<1> DEFINE data == getBackupSecretData(loc.value)
<1>3. /\ TypeOK' /\ UNCHANGED <<set, cache, given, loc, current>>
      /\ \/ pc' = "configure" /\ objs' = objs
         \/ pc' = "credential" /\ objs' = [objs EXCEPT !["secret"] = Written(@, data, FALSE)]
  <2>1. data \in Contents
    BY <1>1, <1>2, ContentsTypes
  <2>2. WriteObject("secret", "secret", data, FALSE, "credential")
    BY DEF updateBackupTargetSecret
  <2>3. "secret" \in Objects /\ "credential" \in Places
    BY DEF Objects, Places
  <2> HIDE DEF data
  <2> QED BY <1>1, <2>1, <2>2, <2>3, WriteStep
<1>4. \/ pc' = "configure" /\ objs' = objs
      \/ pc' = "credential" /\ objs'["secret"].stored = data
  <2>1. objs["secret"] \in Object /\ objs \in [Objects -> Object] /\ "secret" \in Objects
    BY <1>1 DEF TypeOK, Objects
  <2> HIDE DEF data
  <2>2. Written(objs["secret"], data, FALSE).stored = data
    BY <2>1 DEF Written, Object
  <2> QED BY <1>3, <2>1, <2>2
<1>5. CurrentInv'
  BY <1>2, <1>3, <1>4 DEF IndInv, CurrentInv
<1>6. RouteInv' /\ SecretInv'
  BY <1>2, <1>3, <1>4 DEF RouteInv, SecretInv
<1>7. StripInv'
  <2>1. set.value # given => loc.value = given
    <3>1. ~HasKeys(Stripped(given))
      BY <1>1, StripTypes
    <3> QED BY <1>2, <3>1 DEF IndInv, StripInv, Versions
  <2> QED BY <1>2, <1>3, <1>4, <2>1 DEF IndInv, StripInv, Versions
<1> QED BY <1>3, <1>5, <1>6, <1>7 DEF IndInv

\* The Setting that names the Secret is written: the Secret is not touched.
LEMMA CredentialInv ==
  ASSUME IndInv, updateLonghornBackupTargetSecretSetting PROVE IndInv'
<1>1. TypeOK /\ loc.value \in Value
  BY DEF IndInv, TypeOK, Setting
<1>2. /\ TypeOK' /\ pc = "credential" /\ UNCHANGED <<set, cache, given, loc, current>>
      /\ pc' \in {"configure", "strip"} /\ objs'["secret"] = objs["secret"]
  <2>1. "strip" \in Places /\ "credential" \in Objects /\ Named \in Contents
    BY <1>1, ContentsTypes DEF Places, Objects
  <2>2. WriteObject("credential", "credential", Named, Same(objs["credential"], Named), "strip")
    BY DEF updateLonghornBackupTargetSecretSetting
  <2>3. Same(objs["credential"], Named) \in BOOLEAN
    BY DEF Same
  <2>4. /\ TypeOK' /\ pc = "credential" /\ UNCHANGED <<set, cache, given, loc, current>>
        /\ \/ pc' = "configure" /\ objs' = objs
           \/ /\ pc' = "strip"
              /\ objs' = [objs EXCEPT !["credential"] =
                            Written(@, Named, Same(objs["credential"], Named))]
    BY <1>1, <2>1, <2>2, <2>3, WriteStep
  <2> QED BY <1>1, <2>4 DEF TypeOK, Objects
<1>3. CurrentInv'
  BY <1>2 DEF IndInv, CurrentInv
<1>4. RouteInv' /\ SecretInv'
  BY <1>2 DEF IndInv, RouteInv, SecretInv
<1>5. StripInv'
  BY <1>2 DEF IndInv, StripInv, Versions
<1> QED BY <1>2, <1>3, <1>4, <1>5 DEF IndInv

\* The keys are stripped: the copy was current, so it is the submission itself,
\* and its keys are in the Secret.
LEMMA StripStepInv == ASSUME IndInv, reUpdateBackupTargetSettingSecret PROVE IndInv'
<1> DEFINE new == [loc EXCEPT !.value = Stripped(@)]
<1>1. TypeOK /\ loc \in Setting /\ loc.value \in Value /\ given \in Value
  BY DEF IndInv, TypeOK, Setting
<1>2. pc = "strip" /\ UpdateSetting(new) /\ UNCHANGED <<cache, objs, given, changes>>
  BY DEF reUpdateBackupTargetSettingSecret
<1>3. new \in Setting /\ new.value = Stripped(loc.value)
  BY <1>1, StripTypes DEF Setting
<1>4. loc.value.type = "s3" /\ HasKeys(loc.value)
      /\ objs["secret"].stored = getBackupSecretData(loc.value)
  BY <1>2 DEF IndInv, RouteInv, SecretInv
<1> HIDE DEF new
<1>5. /\ TypeOK' /\ pc' = "idle" /\ "worker" \notin current'
      /\ \/ set' = set /\ current' \subseteq current
         \/ "worker" \in current /\ set' = new /\ current' \subseteq {}
         \/ "worker" \in current /\ set' = new /\ new = set /\ current' \subseteq current
  BY <1>1, <1>2, <1>3, UpdateStep
<1>6. CurrentInv'
  BY <1>2, <1>5 DEF IndInv, CurrentInv
<1>7. RouteInv' /\ SecretInv'
  BY <1>5 DEF RouteInv, SecretInv
<1>8. StripInv'
  <2>1. CASE set' = set
    BY <1>2, <1>5, <2>1 DEF IndInv, StripInv, Versions
  <2>2. CASE "worker" \in current /\ set' = new
    <3>1. loc = set /\ cache = set
      BY <2>2 DEF IndInv, CurrentInv
    <3>2. set.value = given
      <4>1. ~HasKeys(Stripped(given))
        BY <1>1, StripTypes
      <4> QED BY <1>4, <3>1, <4>1 DEF IndInv, StripInv
    <3> QED BY <1>2, <1>3, <1>4, <1>5, <2>2, <3>1, <3>2 DEF StripInv, Versions
  <2> QED BY <1>5, <2>1, <2>2
<1> QED BY <1>5, <1>6, <1>7, <1>8 DEF IndInv

\* The Secret or its name is deleted: only for a target that is not S3, so no
\* stripped keys are in it.
LEMMA DeleteInv ==
  ASSUME IndInv, deleteBackupTargetSecret \/ deleteCredential PROVE IndInv'
<1>1. TypeOK
  BY DEF IndInv
<1>2. /\ pc \in {"deleteSecret", "deleteCredential"}
      /\ UNCHANGED <<set, cache, given, changes>>
      /\ faults' = faults \/ (faults > 0 /\ faults' = faults - 1)
      /\ \/ objs' = objs
         \/ \E o \in Objects : objs' = [objs EXCEPT ![o] = Deleted(@)]
  BY DEF deleteBackupTargetSecret, deleteCredential, DeleteObject, Objects
<1>3. /\ \/ pc' \in {"deleteCredential", "reset", "configure"}
            /\ UNCHANGED <<loc, current, queued>>
         \/ /\ pc' = "idle" /\ loc' = [value |-> Empty, cond |-> Unset]
            /\ current' = current \ {"worker"} /\ queued' = (queued \/ FALSE)
      /\ err' \in Error
  <2>1. NoError \in Error /\ \A h \in {"deleteSecret", "deleteCredential"} :
                                [step |-> h, why |-> "failure"] \in Error
    BY ConstantTypes DEF Error
  <2>2. err' = NoError \/ (\E h \in {"deleteSecret", "deleteCredential"} :
                             err' = [step |-> h, why |-> "failure"])
    BY DEF deleteBackupTargetSecret, deleteCredential, DeleteObject, AfterDelete, Goto, Return
  <2>3. \/ pc' \in {"deleteCredential", "reset", "configure"}
           /\ UNCHANGED <<loc, current, queued>>
        \/ /\ pc' = "idle" /\ loc' = [value |-> Empty, cond |-> Unset]
           /\ current' = current \ {"worker"} /\ queued' = (queued \/ FALSE)
    BY DEF deleteBackupTargetSecret, deleteCredential, DeleteObject, AfterDelete, Goto, Return
  <2> QED BY <2>1, <2>2, <2>3
<1>4. loc.value.type # "s3"
  BY <1>2 DEF IndInv, RouteInv
<1>5. set.value = given
  <2>1. given \in Value
    BY <1>1 DEF TypeOK
  <2> QED BY <1>2, <1>4, <2>1, StripTypes DEF IndInv, StripInv, Versions
<1>6. TypeOK'
  <2>1. faults' \in 0..MaxFaults
    BY <1>1, <1>2, FaultsType
  <2>2. objs' \in [Objects -> Object]
    <3>1. Missing \in Contents
      BY DEF Contents
    <3>2. \A o \in Object : Deleted(o) \in Object
      BY <3>1 DEF Deleted, Object
    <3> QED BY <1>1, <1>2, <3>2 DEF TypeOK
  <2>3. /\ loc' \in Setting /\ queued' \in BOOLEAN
        /\ current' \subseteq {"cache", "worker"}
    BY <1>1, <1>3, ConstantTypes DEF TypeOK
  <2> QED BY <1>1, <1>2, <1>3, <2>1, <2>2, <2>3 DEF TypeOK
<1>7. CurrentInv'
  BY <1>2, <1>3 DEF IndInv, CurrentInv
<1>8. RouteInv' /\ SecretInv' /\ StripInv'
  BY <1>2, <1>3, <1>4, <1>5 DEF RouteInv, SecretInv, StripInv
<1> QED BY <1>6, <1>7, <1>8 DEF IndInv

\* An Update of the condition keeps the value.
LEMMA ConditionInv ==
  ASSUME IndInv, setConfiguredCondition \/ ResetCondition PROVE IndInv'
<1>1. TypeOK /\ loc \in Setting /\ err \in Error
  BY DEF IndInv, TypeOK
<1>2. /\ NewCondition(err) \in [status : {"none", "true", "false"}, error : Error]
      /\ NotConfigured(NoError) \in [status : {"none", "true", "false"}, error : Error]
  BY <1>1, ConstantTypes DEF NewCondition, NotConfigured, Configured
<1>3. \A c \in [status : {"none", "true", "false"}, error : Error] :
        [loc EXCEPT !.cond = c] \in Setting /\ [loc EXCEPT !.cond = c].value = loc.value
  BY <1>1 DEF Setting
<1>4. CASE setConfiguredCondition
  <2>1. UpdateSetting([loc EXCEPT !.cond = NewCondition(err)])
        /\ UNCHANGED <<cache, objs, given, changes>>
    BY <1>4 DEF setConfiguredCondition
  <2> QED BY <1>2, <1>3, <2>1, UpdateKeepsInv
<1>5. CASE ResetCondition
  <2>1. UpdateSetting([loc EXCEPT !.cond = NotConfigured(NoError)])
        /\ UNCHANGED <<cache, objs, given, changes>>
    BY <1>5 DEF ResetCondition
  <2> QED BY <1>2, <1>3, <2>1, UpdateKeepsInv
<1> QED BY <1>4, <1>5

\* Watches, the resync and a crash bring copies up to date.
LEMMA EnvironmentInv ==
  ASSUME IndInv, SettingWatch \/ (\E o \in Objects : ObjectWatch(o)) \/ Resync \/ Crash
  PROVE  IndInv'
<1>1. TypeOK /\ \A o \in Object : Seen(o) \in Object /\ Seen(o).stored = o.stored
  BY DEF IndInv, Seen, Object
<1>2. CASE SettingWatch
  <2>1. /\ cache' = set /\ current' = current \cup {"cache"} /\ queued' = TRUE
        /\ UNCHANGED <<set, pc, loc, err, objs, given, changes, faults>>
    BY <1>2 DEF SettingWatch
  <2>2. TypeOK' /\ CurrentInv'
    BY <1>1, <2>1 DEF IndInv, TypeOK, CurrentInv
  <2>3. RouteInv' /\ SecretInv' /\ StripInv'
    BY <2>1 DEF IndInv, RouteInv, SecretInv, StripInv, Versions
  <2> QED BY <2>2, <2>3 DEF IndInv
<1>3. CASE \E o \in Objects : ObjectWatch(o)
  <2>1. /\ UNCHANGED <<set, cache, current, queued, pc, loc, err, given, changes, faults>>
        /\ \E o \in Objects : objs' = [objs EXCEPT ![o] = Seen(@)]
    BY <1>3 DEF ObjectWatch
  <2>2. objs' \in [Objects -> Object] /\ objs'["secret"].stored = objs["secret"].stored
    BY <1>1, <2>1 DEF TypeOK, Objects
  <2>3. TypeOK' /\ CurrentInv'
    BY <1>1, <2>1, <2>2 DEF IndInv, TypeOK, CurrentInv
  <2>4. RouteInv' /\ SecretInv' /\ StripInv'
    BY <2>1, <2>2 DEF IndInv, RouteInv, SecretInv, StripInv, Versions
  <2> QED BY <2>3, <2>4 DEF IndInv
<1>4. CASE Resync
  BY <1>4 DEF Resync, IndInv, TypeOK, CurrentInv, RouteInv, SecretInv, StripInv, Versions
<1>5. CASE Crash
  <2>1. /\ cache' = set /\ current' = {"cache"} /\ queued' = TRUE /\ pc' = "idle"
        /\ loc' = [value |-> Empty, cond |-> Unset] /\ err' = NoError
        /\ objs' = [o \in Objects |-> Seen(objs[o])]
        /\ UNCHANGED <<set, given, changes>>
        /\ faults' = faults \/ (faults > 0 /\ faults' = faults - 1)
    BY <1>5 DEF Crash
  <2>2. objs' \in [Objects -> Object] /\ objs'["secret"].stored = objs["secret"].stored
    BY <1>1, <2>1 DEF TypeOK, Objects
  <2>3. TypeOK'
    BY <1>1, <2>1, <2>2, FaultsType, ConstantTypes DEF TypeOK
  <2>4. CurrentInv' /\ RouteInv' /\ SecretInv' /\ StripInv'
    BY <2>1, <2>2 DEF IndInv, CurrentInv, RouteInv, SecretInv, StripInv, Versions
  <2> QED BY <2>3, <2>4 DEF IndInv
<1> QED BY <1>2, <1>3, <1>4, <1>5

\* A user submits a value: whatever copies there are can no longer be written.
LEMMA SubmitInv == ASSUME IndInv, NEW v \in UserValues, SubmitValue(v) PROVE IndInv'
<1>1. TypeOK /\ v \in Value
  BY ValuesAssumption DEF IndInv
<1>2. /\ changes > 0 /\ changes' = changes - 1
      /\ set' = [set EXCEPT !.value = v] /\ given' = v /\ current' = {}
      /\ UNCHANGED <<cache, queued, pc, loc, err, objs, faults>>
  BY DEF SubmitValue
<1>3. set' \in Setting /\ set'.value = given'
  BY <1>1, <1>2 DEF TypeOK, Setting
<1>4. changes' \in 0..MaxChanges
  <2>1. changes \in 0..MaxChanges
    BY <1>1 DEF TypeOK
  <2> QED BY <1>2, <2>1, BoundsAssumption
<1>5. TypeOK'
  BY <1>1, <1>2, <1>3, <1>4 DEF TypeOK
<1>6. CurrentInv' /\ RouteInv' /\ SecretInv' /\ StripInv'
  BY <1>2, <1>3 DEF IndInv, CurrentInv, RouteInv, SecretInv, StripInv
<1> QED BY <1>5, <1>6 DEF IndInv

----------------------------------------------------------------------------
\* The invariant is inductive.
LEMMA NextInv == ASSUME IndInv, [Next]_vars PROVE IndInv'
<1>1. CASE WorkerStep
  BY <1>1, ReconcileInv, LonghornInv, SecretStepInv, CredentialInv, StripStepInv, DeleteInv,
     ConditionInv DEF WorkerStep
<1>2. CASE SettingWatch \/ (\E o \in Objects : ObjectWatch(o)) \/ Resync \/ Crash
  BY <1>2, EnvironmentInv
<1>3. CASE \E v \in UserValues : SubmitValue(v)
  BY <1>3, SubmitInv
<1>4. CASE UNCHANGED vars
  BY <1>4 DEF vars, IndInv, TypeOK, CurrentInv, RouteInv, SecretInv, StripInv, Versions
<1> QED BY <1>1, <1>2, <1>3, <1>4 DEF Next

\* The inductive invariant holds in every behaviour of the controller.
THEOREM Invariance == Spec => []IndInv
<1> QED BY InitInv, NextInv, PTL DEF Spec

\* Every variable of the controller keeps its type (BackupSettingReconciler).
THEOREM TypeCorrect == Spec => []TypeOK
<1>1. IndInv => TypeOK
  BY DEF IndInv
<1> QED BY <1>1, Invariance, PTL

\* What a user submits as backup target is never lost: reUpdateBackupTargetSettingSecret
\* strips keys only when the Secret has them, and setConfiguredCondition and the
\* reset never write an old value back.
THEOREM KeysKept == Spec => []NoLostKeys
<1>1. IndInv => NoLostKeys
  BY DEF IndInv, StripInv, NoLostKeys
<1> QED BY <1>1, Invariance, PTL

----------------------------------------------------------------------------
(* No failure is silent.  OnChange ends without error in four ways: it has *)
(* stored something new, and is called again for that; it has recorded an  *)
(* error that was recorded already; or it has nothing left to store.  The  *)
(* invariant says what has been done by then, and that a handler whose     *)
(* copy has been overtaken is called again.                                *)

Cleared == objs["secret"].stored = Missing /\ objs["credential"].stored = Missing
Outcome == Concluded \/ ErrorShown

CondInv == /\ set.cond.status = "true" => set.cond = Configured
           /\ cache.cond.status = "true" => cache.cond = Configured
           /\ loc.cond.status = "true" => loc.cond = Configured
PlaceInv ==
  /\ pc = "longhorn" => loc.value.type \in {"s3", "nfs", "default"}
  /\ pc \in {"deleteSecret", "deleteCredential"} => loc.value.type \in {"nfs", "default"}
  /\ pc = "deleteCredential" => objs["secret"].stored = Missing
  /\ pc = "reset" => loc.value.type = "default" /\ Cleared
  /\ pc = "configure" /\ err = NoError =>
       \/ loc.value.type = "s3" /\ ~HasKeys(loc.value)
       \/ loc.value.type = "nfs" /\ Cleared
WakeInv == pc # "idle" /\ "worker" \notin current /\ "cache" \in current => queued
RestInv == pc = "idle" /\ ~queued /\ "cache" \in current => Outcome
RestInvs == CondInv /\ PlaceInv /\ WakeInv /\ RestInv

\* The Setting and the submission are of one type, and a Setting without keys is
\* the submission without them.
LEMMA GivenType ==
  ASSUME IndInv
  PROVE  /\ set.value.type = given.type
         /\ ~HasKeys(set.value) => set.value = Stripped(given)
<1>1. set.value \in Value /\ given \in Value
  BY DEF IndInv, TypeOK, Setting
<1>2. CASE set.value = given
  BY <1>1, <1>2 DEF Stripped, HasKeys, Value
<1>3. CASE set.value # given
  BY <1>1, <1>3, StripTypes DEF IndInv, StripInv
<1> QED BY <1>2, <1>3

\* The handler takes up the Setting, or finds nothing to do.
LEMMA ReconcileRests == ASSUME IndInv, RestInvs, Reconcile PROVE RestInvs'
<1> DEFINE to == IF Route(cache.value) = "check"
                   THEN IF NeedsCondition(cache) THEN "configure" ELSE "return"
                   ELSE Route(cache.value)
<1>1. cache.value \in Value
  BY DEF IndInv, TypeOK, Setting
<1>2. UNCHANGED <<set, cache, objs, given>> /\ queued' = FALSE /\ pc = "idle"
  BY DEF Reconcile
<1>3. CASE to = "return"
  <2>1. UNCHANGED <<current, pc, loc, err>>
    BY <1>3 DEF Reconcile
  <2>2. \/ cache.value.type = "none"
        \/ cache.value.type = "s3" /\ ~HasKeys(cache.value) /\ cache.cond.status = "true"
    BY <1>1, <1>3 DEF Route, NeedsCondition, Value
  <2>3. ASSUME "cache" \in current PROVE Concluded
    <3>1. cache = set
      BY <2>3 DEF IndInv, CurrentInv
    <3>2. CASE set.value.type = "none"
      BY <3>2, GivenType DEF Concluded
    <3>3. CASE set.value.type = "s3" /\ ~HasKeys(set.value) /\ set.cond.status = "true"
      BY <3>3, GivenType DEF Concluded, RestInvs, CondInv
    <3> QED BY <2>2, <3>1, <3>2, <3>3
  <2>4. RestInv'
    BY <1>2, <2>1, <2>3 DEF RestInv, Outcome, Concluded, ErrorShown
  <2>5. CondInv' /\ PlaceInv' /\ WakeInv'
    BY <1>2, <2>1 DEF RestInvs, CondInv, PlaceInv, WakeInv
  <2> QED BY <2>4, <2>5 DEF RestInvs
<1>4. CASE to # "return"
  <2>1. /\ pc' = to /\ err' = RouteError(cache.value) /\ loc' = cache
        /\ current' = IF "cache" \in current THEN current \cup {"worker"}
                                             ELSE current \ {"worker"}
    BY <1>4 DEF Reconcile
  <2>2. /\ to \in {"longhorn", "configure"}
        /\ to = "longhorn" => cache.value.type \in {"s3", "nfs", "default"}
        /\ to = "configure" => \/ RouteError(cache.value) # NoError
                               \/ cache.value.type = "s3" /\ ~HasKeys(cache.value)
    BY <1>1, <1>4 DEF Route, RouteError, NoError, Value
  <2> HIDE DEF to
  <2>3. CondInv' /\ WakeInv' /\ RestInv'
    BY <1>2, <2>1, <2>2 DEF RestInvs, CondInv, WakeInv, RestInv
  <2>4. PlaceInv'
    BY <1>2, <2>1, <2>2 DEF PlaceInv
  <2> QED BY <2>3, <2>4 DEF RestInvs
<1> QED BY <1>3, <1>4

\* What a failed call leaves in err is not the absence of an error.
LEMMA ErrorsDiffer == ASSUME NEW here, NEW e, e # "" PROVE [step |-> here, why |-> e] # NoError
<1>1. [step |-> here, why |-> e].why = e /\ NoError.why = ""
  BY DEF NoError
<1> QED BY <1>1

\* A call on one of Longhorn's objects leaves its error for the condition.
LEMMA WriteRests ==
  ASSUME IndInv, RestInvs, updateLonghornTarget \/ updateBackupTargetSecret
                           \/ updateLonghornBackupTargetSecretSetting
  PROVE  RestInvs'
<1>1. /\ pc # "idle" /\ pc' # "idle" /\ UNCHANGED <<set, cache, given, loc, current, queued>>
      /\ \/ pc' = "configure" /\ err' # NoError
         \/ pc = "longhorn" /\ pc' = AfterLonghorn
         \/ pc' \in {"credential", "strip"}
  BY ErrorsDiffer DEF updateLonghornTarget, updateBackupTargetSecret,
     updateLonghornBackupTargetSecretSetting, WriteObject, Goto, AfterLonghorn
<1>2. CondInv' /\ WakeInv' /\ RestInv'
  BY <1>1 DEF RestInvs, CondInv, WakeInv, RestInv
<1>3. PlaceInv'
  BY <1>1 DEF RestInvs, PlaceInv, AfterLonghorn
<1> QED BY <1>2, <1>3 DEF RestInvs

\* An Update of the Setting: what is new causes an event, what is refused or fails
\* is tried again, and otherwise the Setting says it already.
LEMMA UpdateRests ==
  ASSUME IndInv, RestInvs, NEW new, UpdateSetting(new), UNCHANGED <<cache, objs, given>>,
         new.cond.status = "true" => new.cond = Configured,
         "worker" \in current /\ new = set => Outcome
  PROVE  RestInvs'
<1>1. /\ pc' = "idle" /\ loc' = [value |-> Empty, cond |-> Unset]
      /\ \/ set' = new /\ current' \subseteq {}
         \/ set' = set /\ "worker" \in current /\ new = set
         \/ set' = set /\ queued'
  BY DEF UpdateSetting, Return
<1>2. RestInv'
  BY <1>1 DEF RestInv, Outcome, Concluded, ErrorShown
<1>3. CondInv'
  BY <1>1 DEF RestInvs, CondInv, Unset
<1> QED BY <1>1, <1>2, <1>3 DEF RestInvs, PlaceInv, WakeInv

\* The keys are stripped: that is new.
LEMMA StripRests ==
  ASSUME IndInv, RestInvs, reUpdateBackupTargetSettingSecret
  PROVE  RestInvs'
<1> DEFINE new == [loc EXCEPT !.value = Stripped(@)]
<1>1. UpdateSetting(new) /\ UNCHANGED <<cache, objs, given>> /\ pc = "strip"
  BY DEF reUpdateBackupTargetSettingSecret
<1>2. loc \in Setting /\ loc.value \in Value
  BY DEF IndInv, TypeOK, Setting
<1>3. new.cond = loc.cond /\ new.value = Stripped(loc.value)
  BY <1>2 DEF Setting
<1>4. HasKeys(loc.value) /\ ~HasKeys(Stripped(loc.value))
  BY <1>1, <1>2, StripTypes DEF IndInv, RouteInv
<1> HIDE DEF new
<1>5. "worker" \in current => new # set
  BY <1>3, <1>4 DEF IndInv, CurrentInv
<1>6. new.cond.status = "true" => new.cond = Configured
  BY <1>3 DEF RestInvs, CondInv
<1> QED BY <1>1, <1>5, <1>6, UpdateRests

\* The condition is set to what has come of the target.
LEMMA ConfigureRests == ASSUME IndInv, RestInvs, setConfiguredCondition PROVE RestInvs'
<1> DEFINE new == [loc EXCEPT !.cond = NewCondition(err)]
<1>1. UpdateSetting(new) /\ UNCHANGED <<cache, objs, given>> /\ pc = "configure"
  BY DEF setConfiguredCondition
<1>2. new.cond = NewCondition(err) /\ new.value = loc.value
  BY DEF IndInv, TypeOK, Setting
<1> HIDE DEF new
<1>3. NewCondition(err).status = "true" => NewCondition(err) = Configured
  BY DEF NewCondition, NotConfigured
<1>4. ASSUME "worker" \in current, new = set PROVE Outcome
  <2>1. loc = set /\ set.cond = NewCondition(err)
    BY <1>2, <1>4 DEF IndInv, CurrentInv
  <2>2. CASE err # NoError
    <3>1. ErrorShown
      BY <2>1, <2>2 DEF ErrorShown, NewCondition, NotConfigured
    <3> QED BY <3>1 DEF Outcome
  <2>3. CASE err = NoError
    <3>1. set.cond = Configured
      BY <2>1, <2>3 DEF NewCondition
    <3>2. \/ set.value.type = "s3" /\ ~HasKeys(set.value)
          \/ set.value.type = "nfs" /\ Cleared
      BY <1>1, <2>1, <2>3 DEF RestInvs, PlaceInv
    <3>3. Concluded
      BY <3>1, <3>2, GivenType DEF Concluded, Cleared
    <3> QED BY <3>3 DEF Outcome
  <2> QED BY <2>2, <2>3
<1> QED BY <1>1, <1>2, <1>3, <1>4, UpdateRests

\* A default target resets it.
LEMMA ResetRests == ASSUME IndInv, RestInvs, ResetCondition PROVE RestInvs'
<1> DEFINE new == [loc EXCEPT !.cond = NotConfigured(NoError)]
<1>1. UpdateSetting(new) /\ UNCHANGED <<cache, objs, given>> /\ pc = "reset"
  BY DEF ResetCondition
<1>2. new.cond = NotConfigured(NoError) /\ new.value = loc.value
  BY DEF IndInv, TypeOK, Setting
<1> HIDE DEF new
<1>3. ASSUME "worker" \in current, new = set PROVE Outcome
  <2>1. loc = set /\ set.cond = NotConfigured(NoError)
    BY <1>2, <1>3 DEF IndInv, CurrentInv
  <2>2. set.value.type = "default" /\ Cleared
    BY <1>1, <2>1 DEF RestInvs, PlaceInv
  <2>3. Concluded
    BY <2>1, <2>2, GivenType DEF Concluded, Cleared
  <2> QED BY <2>3 DEF Outcome
<1>4. new.cond.status # "true"
  BY <1>2 DEF NotConfigured
<1> QED BY <1>1, <1>3, <1>4, UpdateRests

\* The Secret goes, then its name; an NFS target that is configured is left at that.
LEMMA DeleteSecretRests == ASSUME IndInv, RestInvs, deleteBackupTargetSecret PROVE RestInvs'
<1>1. /\ pc = "deleteSecret" /\ UNCHANGED <<set, cache, given, loc, current, queued>>
      /\ \/ pc' = "configure" /\ err' # NoError
         \/ pc' = "deleteCredential" /\ objs' = [objs EXCEPT !["secret"] = Deleted(@)]
  BY ErrorsDiffer DEF deleteBackupTargetSecret, DeleteObject, Goto
<1>2. CondInv' /\ WakeInv' /\ RestInv'
  BY <1>1 DEF RestInvs, CondInv, WakeInv, RestInv
<1>3. pc' = "deleteCredential" => objs'["secret"].stored = Missing
  BY <1>1 DEF IndInv, TypeOK, Objects, Object, Deleted
<1>4. PlaceInv'
  BY <1>1, <1>3 DEF RestInvs, PlaceInv
<1> QED BY <1>2, <1>4 DEF RestInvs
LEMMA DeleteCredentialRests == ASSUME IndInv, RestInvs, deleteCredential PROVE RestInvs'
<1>1. pc = "deleteCredential" /\ UNCHANGED <<set, cache, given>>
  BY DEF deleteCredential, DeleteObject
<1>2. loc.value.type \in {"nfs", "default"} /\ objs["secret"].stored = Missing
  BY <1>1 DEF RestInvs, PlaceInv
<1>3. CASE pc' = "configure" /\ err' # NoError /\ UNCHANGED <<loc, current, queued>>
  BY <1>1, <1>3 DEF RestInvs, CondInv, PlaceInv, WakeInv, RestInv
<1>4. CASE objs' = [objs EXCEPT !["credential"] = Deleted(@)] /\ AfterDelete
  <2>1. Cleared'
    BY <1>2, <1>4 DEF Cleared, IndInv, TypeOK, Objects, Object, Deleted
  <2>2. CASE /\ pc' \in {"reset", "configure"} /\ UNCHANGED <<loc, current, queued>>
             /\ pc' = "reset" => loc.value.type = "default"
             /\ pc' = "configure" => loc.value.type = "nfs"
    BY <1>1, <2>1, <2>2 DEF RestInvs, CondInv, PlaceInv, WakeInv, RestInv
  <2>3. CASE loc.value.type = "nfs" /\ ~NeedsCondition(loc) /\ Return(current, FALSE)
    <3>1. /\ pc' = "idle" /\ loc' = [value |-> Empty, cond |-> Unset]
          /\ current' = current \ {"worker"} /\ queued' = (queued \/ FALSE)
      BY <2>3 DEF Return
    <3>2. ASSUME ~queued', "cache" \in current' PROVE Concluded'
      <4>1. "worker" \in current
        BY <1>1, <3>1, <3>2 DEF RestInvs, WakeInv
      <4>2. loc = set
        BY <4>1 DEF IndInv, CurrentInv
      <4>3. set.cond = Configured /\ given.type = "nfs"
        BY <2>3, <4>2, GivenType DEF RestInvs, CondInv, NeedsCondition
      <4> QED BY <1>1, <2>1, <4>3 DEF Concluded, Cleared
    <3>3. RestInv'
      BY <3>2 DEF RestInv, Outcome
    <3> QED BY <1>1, <3>1, <3>3 DEF RestInvs, CondInv, PlaceInv, WakeInv, Unset
  <2> QED BY <1>2, <1>4, <2>2, <2>3 DEF AfterDelete, Goto
<1>5. [step |-> "deleteCredential", why |-> "failure"] # NoError
  BY ErrorsDiffer
<1> QED BY <1>3, <1>4, <1>5 DEF deleteCredential, DeleteObject, Goto

\* Watches and a restart call the handler; a submission is news to the cache.
LEMMA EnvironmentRests ==
  ASSUME IndInv, RestInvs,
         \/ SettingWatch \/ (\E o \in Objects : ObjectWatch(o)) \/ Resync \/ Crash
         \/ \E v \in UserValues : SubmitValue(v)
  PROVE  RestInvs'
<1>1. TypeOK /\ \A o \in Object : Seen(o).stored = o.stored
  BY DEF IndInv, Seen, Object
<1>2. CASE SettingWatch
  BY <1>2 DEF SettingWatch, RestInvs, CondInv, PlaceInv, WakeInv, RestInv, Cleared
<1>3. CASE \E o \in Objects : ObjectWatch(o)
  <2>1. /\ UNCHANGED <<set, cache, current, queued, pc, loc, err, given>>
        /\ \E o \in Objects : objs' = [objs EXCEPT ![o] = Seen(@)]
    BY <1>3 DEF ObjectWatch
  <2>2. \A o \in Objects : objs'[o].stored = objs[o].stored
    BY <1>1, <2>1 DEF TypeOK
  <2>3. /\ objs'["secret"].stored = objs["secret"].stored
        /\ objs'["credential"].stored = objs["credential"].stored
    BY <2>2 DEF Objects
  <2>4. CondInv' /\ PlaceInv' /\ WakeInv'
    BY <2>1, <2>3 DEF RestInvs, CondInv, PlaceInv, WakeInv, Cleared
  <2>5. RestInv'
    BY <2>1, <2>3 DEF RestInvs, RestInv, Outcome, Concluded, ErrorShown
  <2> QED BY <2>4, <2>5 DEF RestInvs
<1>4. CASE Resync
  BY <1>4 DEF Resync, RestInvs, CondInv, PlaceInv, WakeInv, RestInv, Cleared
<1>5. CASE Crash
  BY <1>5 DEF Crash, RestInvs, CondInv, PlaceInv, WakeInv, RestInv, Unset
<1>6. CASE \E v \in UserValues : SubmitValue(v)
  <2>1. /\ set'.cond = set.cond /\ current' = {}
        /\ UNCHANGED <<cache, queued, pc, loc, err, objs>>
    BY <1>1, <1>6 DEF SubmitValue, TypeOK, Setting
  <2> QED BY <2>1 DEF RestInvs, CondInv, PlaceInv, WakeInv, RestInv, Cleared
<1> QED BY <1>2, <1>3, <1>4, <1>5, <1>6

\* The invariant is inductive.
LEMMA NextRests == ASSUME IndInv, RestInvs, [Next]_vars PROVE RestInvs'
<1>1. CASE WorkerStep
  BY <1>1, ReconcileRests, WriteRests, StripRests, ConfigureRests, ResetRests,
     DeleteSecretRests, DeleteCredentialRests DEF WorkerStep
<1>2. CASE UNCHANGED vars
  BY <1>2 DEF vars, RestInvs, CondInv, PlaceInv, WakeInv, RestInv, Cleared, Outcome, Concluded,
              ErrorShown
<1> QED BY <1>1, <1>2, EnvironmentRests DEF Next

\* Whatever fails, is refused or overtaken in OnChange, a Setting at rest has been
\* carried out or shows the error: the errors that setConfiguredCondition records
\* instead of returning them are not lost (BackupSettingReconciler).
THEOREM NothingSilent == Spec => []NoSilentFailure
<1>1. Init => RestInvs
  <2> SUFFICES ASSUME Init PROVE RestInvs
    OBVIOUS
  <2>1. /\ set = [value |-> Empty, cond |-> Unset] /\ cache = set /\ loc = set
        /\ given = Empty /\ pc = "idle"
    BY DEF Init
  <2> QED BY <2>1 DEF RestInvs, CondInv, PlaceInv, WakeInv, RestInv, Outcome, Concluded,
                      Empty, Unset
<1>2. IndInv /\ RestInvs /\ [Next]_vars => RestInvs'
  BY NextRests
<1>3. RestInvs => NoSilentFailure
  BY DEF RestInvs, RestInv, Quiet, NoSilentFailure, Outcome
<1> QED BY <1>1, <1>2, <1>3, Invariance, PTL DEF Spec
=============================================================================
