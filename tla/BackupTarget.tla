---------------------------- MODULE BackupTarget ----------------------------
(***************************************************************************)
(* The backup-target Setting and its controller, BackupSettingReconciler:  *)
(* it carries the target a user submits over to Longhorn, which keeps it   *)
(* in a Setting "backup-target", a Secret with the S3 keys and a Setting   *)
(* "backup-target-credential-secret" that names the Secret.  Once an S3    *)
(* target has been carried over, its keys are stripped from the Setting.   *)
(*                                                                         *)
(* The controller has one worker.  It reads every object through an        *)
(* informer cache that lags the API server, and an Update from a copy that *)
(* is not the stored version is refused.                                   *)
(*                                                                         *)
(* Abstractions.  Of a target's fields the host (Endpoint), the bucket     *)
(* (BucketName and BucketRegion) and the keys (both of them) are kept; the *)
(* certificate and the proxies are left out.  A Setting that is absent,    *)
(* deleted or has no value is one case, as every reader returns at once.   *)
(***************************************************************************)
EXTENDS Integers, Sequences

CONSTANTS
  Hosts, Buckets, Keys,  \* endpoints, buckets with their region, S3 key pairs
  UserValues,            \* values of the Setting that users submit
  MaxChanges,            \* bound: how often a user changes the Setting
  MaxFaults              \* bound: crashes and failed API calls

NoValue == "none"
Value == [type : {"none", "garbage", "default", "other", "s3", "nfs"},
          host : Hosts \cup {""}, bucket : Buckets \cup {""}, keys : Keys \cup {NoValue}]

ASSUME BoundsAssumption == MaxChanges \in Nat /\ MaxFaults \in Nat
ASSUME ValuesAssumption ==
  /\ NoValue \notin Keys /\ "" \notin Hosts /\ "" \notin Buckets
  /\ UserValues \subseteq Value
  /\ \A v \in UserValues :
       v.type = "default" => v.host = "" /\ v.bucket = "" /\ v.keys = NoValue

VARIABLES
  set,      \* the Setting in the API server: its value and its condition
  cache,    \* the informer's copy of it
  current,  \* holders ("cache", "worker") whose copy has the stored version
  queued,   \* whether the Setting is in the work queue
  pc,       \* where OnChange is
  loc,      \* the copy of the Setting that OnChange works on
  err,      \* the error OnChange is about to report
  objs,     \* Longhorn's objects: the stored, the cached and whether it is fresh
  given,    \* history: the value last submitted by a user
  changes, faults

vars == <<set, cache, current, queued, pc, loc, err, objs, given, changes, faults>>

Empty == [type |-> "none", host |-> "", bucket |-> "", keys |-> NoValue]
NoError == [step |-> "", why |-> ""]
Unset == [status |-> "none", error |-> NoError]
Configured == [status |-> "true", error |-> NoError]
NotConfigured(e) == [status |-> "false", error |-> e]

Missing == <<>>                          \* contents of an object that is not there
Named == <<"harvester-backup-target-secret">>
Objects == {"target", "secret", "credential"}
Contents == {Missing, Named, <<"">>} \cup
            ({"", "s3", "nfs"} \X (Hosts \cup Buckets \cup {""})) \cup (Hosts \cup {""}) \X Keys
Object == [stored : Contents, seen : Contents, fresh : BOOLEAN]

----------------------------------------------------------------------------
(* Conversions                                                             *)

\* What Longhorn is told: the bucket of an S3 target, the host of any other.
ConstructEndpoint(v) == CASE v.type = "s3" -> <<"s3", v.bucket>>
                          [] v.type = "nfs" -> <<"nfs", v.host>>
                          [] OTHER -> <<"", v.host>>
\* Mutation: the data is made of a target whose keys are already stripped.
SecretDataTooLate(v) == <<v.host, NoValue>>
getBackupSecretData(v) == <<v.host, v.keys>>
HasKeys(v) == v.keys # NoValue
Stripped(v) == [v EXCEPT !.keys = NoValue]

\* OnChange: what it begins with, given the Setting's value.
Route(v) == CASE v.type = "none" -> "return"
              [] v.type \in {"garbage", "other"} -> "configure"
              [] v.type = "s3" /\ ~HasKeys(v) -> "check"
              [] OTHER -> "longhorn"
RouteError(v) == CASE v.type = "garbage" -> [step |-> "decode", why |-> "unmarshal"]
                   [] v.type = "other" -> [step |-> "type", why |-> "invalid"]
                   [] OTHER -> NoError

\* The end of OnChange: the condition is set unless it says configured already.
NeedsCondition(s) == s.cond.status # "true"

----------------------------------------------------------------------------
(* Get through the cache, then Create or Update                            *)

Same(o, new) == o.seen = new             \* found as wanted: nothing is written

\* The error of the call, if any.
WriteError(o, new, same) ==
  CASE o.seen = Missing /\ o.stored # Missing -> "exists"
    [] o.seen # Missing /\ ~same /\ o.stored = Missing -> "gone"
    [] o.seen # Missing /\ ~same /\ o.stored # Missing /\ ~o.fresh -> "conflict"
    [] OTHER -> ""
Written(o, new, same) ==
  IF same THEN o ELSE [o EXCEPT !.stored = new, !.fresh = FALSE]
Deleted(o) == [o EXCEPT !.stored = Missing, !.fresh = (o.seen = Missing)]

----------------------------------------------------------------------------
(* BackupSettingReconciler                                                 *)

\* Mutation: the error of an Update is dropped, and nothing is tried again.
ReturnForgets(holders, again) ==
  /\ pc' = "idle" /\ loc' = [value |-> Empty, cond |-> Unset] /\ err' = NoError
  /\ current' = holders \ {"worker"} /\ UNCHANGED queued
\* The handler returns; the item goes back to the queue after an error.
Return(holders, again) ==
  /\ pc' = "idle" /\ loc' = [value |-> Empty, cond |-> Unset] /\ err' = NoError
  /\ current' = holders \ {"worker"}
  /\ queued' = (queued \/ again)

\* Mutation: the copy's resource version is not sent.
UpdateUnversioned(new) == set' = new /\ Return({}, FALSE) /\ UNCHANGED faults
\* Update of the Setting itself, from the copy the handler has: stored, refused
\* or failed.  What it returns is what the handler returns.
UpdateSetting(new) ==
  \/ /\ "worker" \in current
     /\ set' = new
     /\ Return(IF new = set THEN current ELSE {}, FALSE) /\ UNCHANGED faults
  \/ /\ "worker" \notin current
     /\ Return(current, TRUE) /\ UNCHANGED <<set, faults>>
  \/ /\ faults > 0 /\ faults' = faults - 1
     /\ Return(current, TRUE) /\ UNCHANGED set

Goto(where, e) == pc' = where /\ err' = e /\ UNCHANGED <<loc, current, queued>>

Reconcile ==
  /\ pc = "idle" /\ queued
  /\ queued' = FALSE
  /\ LET v == cache.value
         to == IF Route(v) = "check"
                 THEN IF NeedsCondition(cache) THEN "configure" ELSE "return"
                 ELSE Route(v)
     IN IF to = "return"
          THEN UNCHANGED <<current, pc, loc, err>>
          ELSE /\ pc' = to /\ err' = RouteError(v) /\ loc' = cache
               /\ current' = IF "cache" \in current THEN current \cup {"worker"}
                                                    ELSE current \ {"worker"}
  /\ UNCHANGED <<set, cache, objs, given, changes, faults>>

\* One call that creates or updates one of Longhorn's objects: it succeeds, is
\* refused, or fails; any error is recorded in the Setting by way of "configure".
WriteObject(here, o, new, same, then) ==
  LET e == WriteError(objs[o], new, same)
  IN /\ pc = here
     /\ \/ /\ e = ""
           /\ objs' = [objs EXCEPT ![o] = Written(@, new, same)]
           /\ Goto(then, NoError) /\ UNCHANGED faults
        \/ /\ e # "" /\ Goto("configure", [step |-> here, why |-> e])
           /\ UNCHANGED <<objs, faults>>
        \/ /\ faults > 0 /\ faults' = faults - 1
           /\ Goto("configure", [step |-> here, why |-> "failure"])
           /\ UNCHANGED objs
     /\ UNCHANGED <<set, cache, given, changes>>

AfterLonghorn == IF loc.value.type = "s3" THEN "secret" ELSE "deleteSecret"
updateLonghornTarget ==
  LET new == ConstructEndpoint(loc.value)
  IN WriteObject("longhorn", "target", new, Same(objs["target"], new), AfterLonghorn)

\* StringData is never read back, so the Secret is written every time.
updateBackupTargetSecret ==
  WriteObject("secret", "secret", getBackupSecretData(loc.value), FALSE, "credential")

updateLonghornBackupTargetSecretSetting ==
  WriteObject("credential", "credential", Named, Same(objs["credential"], Named), "strip")

\* The keys are taken out of the Setting.
reUpdateBackupTargetSettingSecret ==
  /\ pc = "strip"
  /\ UpdateSetting([loc EXCEPT !.value = Stripped(@)])
  /\ UNCHANGED <<cache, objs, given, changes>>

\* deleteBackupTargetSecret, one Delete at a time; NotFound is no error.
DeleteObject(here, o, then) ==
  /\ pc = here
  /\ \/ /\ objs' = [objs EXCEPT ![o] = Deleted(@)]
        /\ then /\ UNCHANGED faults
     \/ /\ faults > 0 /\ faults' = faults - 1
        /\ Goto("configure", [step |-> here, why |-> "failure"]) /\ UNCHANGED objs
  /\ UNCHANGED <<set, cache, given, changes>>

deleteBackupTargetSecret == DeleteObject("deleteSecret", "secret", Goto("deleteCredential", NoError))
\* After it, a default target resets the condition, an NFS one may set it.
AfterDelete == IF loc.value.type = "default" THEN Goto("reset", NoError)
               ELSE IF NeedsCondition(loc) THEN Goto("configure", NoError) ELSE Return(current, FALSE)
deleteCredential == DeleteObject("deleteCredential", "credential", AfterDelete)

\* Mutation: the condition is left as it was.
ConditionKept(e) == loc.cond
NewCondition(e) == IF e = NoError THEN Configured ELSE NotConfigured(e)
\* The error ends up in the condition and is not returned.
setConfiguredCondition ==
  /\ pc = "configure"
  /\ UpdateSetting([loc EXCEPT !.cond = NewCondition(err)])
  /\ UNCHANGED <<cache, objs, given, changes>>

ResetCondition ==
  /\ pc = "reset"
  /\ UpdateSetting([loc EXCEPT !.cond = NotConfigured(NoError)])
  /\ UNCHANGED <<cache, objs, given, changes>>

WorkerStep ==
  \/ Reconcile
  \/ updateLonghornTarget
  \/ updateBackupTargetSecret
  \/ updateLonghornBackupTargetSecretSetting
  \/ reUpdateBackupTargetSettingSecret
  \/ deleteBackupTargetSecret
  \/ deleteCredential
  \/ setConfiguredCondition
  \/ ResetCondition

----------------------------------------------------------------------------
(* Informers, the manager process and users                                *)

SettingWatch ==
  /\ "cache" \notin current
  /\ cache' = set /\ current' = current \cup {"cache"}
  /\ queued' = TRUE
  /\ UNCHANGED <<set, pc, loc, err, objs, given, changes, faults>>

Seen(o) == [o EXCEPT !.seen = o.stored, !.fresh = TRUE]
ObjectWatch(o) ==
  /\ ~objs[o].fresh
  /\ objs' = [objs EXCEPT ![o] = Seen(@)]
  /\ UNCHANGED <<set, cache, current, queued, pc, loc, err, given, changes, faults>>

Quiet == pc = "idle" /\ ~queued /\ "cache" \in current /\ \A o \in Objects : objs[o].fresh
\* The periodic resync, ten hours: it outlasts whatever was going on.
Resync ==
  /\ Quiet /\ queued' = TRUE
  /\ UNCHANGED <<set, cache, current, pc, loc, err, objs, given, changes, faults>>

Crash ==
  /\ faults > 0 /\ faults' = faults - 1
  /\ cache' = set /\ current' = {"cache"} /\ queued' = TRUE
  /\ pc' = "idle" /\ loc' = [value |-> Empty, cond |-> Unset] /\ err' = NoError
  /\ objs' = [o \in Objects |-> Seen(objs[o])]
  /\ UNCHANGED <<set, given, changes>>

SubmitValue(v) ==
  /\ changes > 0 /\ changes' = changes - 1
  /\ v # set.value
  /\ set' = [set EXCEPT !.value = v] /\ given' = v
  /\ current' = {}
  /\ UNCHANGED <<cache, queued, pc, loc, err, objs, faults>>

\* Longhorn may have created its two Settings, empty, when it was installed.
Init ==
  /\ set = [value |-> Empty, cond |-> Unset] /\ cache = set /\ current = {"cache"}
  /\ queued = FALSE /\ pc = "idle" /\ loc = set /\ err = NoError
  /\ \E installed \in BOOLEAN :
       LET made(c) == IF installed THEN c ELSE Missing
           with(c) == [stored |-> c, seen |-> c, fresh |-> TRUE]
       IN objs = [o \in Objects |-> CASE o = "target" -> with(made(<<"", "">>))
                                      [] o = "credential" -> with(made(<<"">>))
                                      [] OTHER -> with(Missing)]
  /\ given = Empty /\ changes = MaxChanges /\ faults = MaxFaults

Next ==
  \/ WorkerStep
  \/ SettingWatch
  \/ \E o \in Objects : ObjectWatch(o)
  \/ Resync
  \/ Crash
  \/ \E v \in UserValues : SubmitValue(v)

Spec == Init /\ [][Next]_vars

\* The worker goes on, watches deliver and the resync comes round.
Fairness == /\ WF_vars(WorkerStep) /\ WF_vars(SettingWatch) /\ WF_vars(Resync)
            /\ \A o \in Objects : WF_vars(ObjectWatch(o))
FairSpec == Spec /\ Fairness

----------------------------------------------------------------------------
Error == [step : {"", "decode", "type", "longhorn", "secret", "credential",
                  "deleteSecret", "deleteCredential"},
          why : {"", "unmarshal", "invalid", "exists", "gone", "conflict", "failure"}]
Setting == [value : Value, cond : [status : {"none", "true", "false"}, error : Error]]
\* Every variable holds a value of its kind.
TypeOK ==
  /\ set \in Setting /\ cache \in Setting /\ loc \in Setting /\ given \in Value
  /\ current \subseteq {"cache", "worker"} /\ queued \in BOOLEAN /\ err \in Error
  /\ pc \in {"idle", "longhorn", "secret", "credential", "strip", "deleteSecret",
             "deleteCredential", "configure", "reset"}
  /\ objs \in [Objects -> Object]
  /\ changes \in 0..MaxChanges /\ faults \in 0..MaxFaults

\* The controller writes the Setting from copies read earlier and takes the keys
\* out of it, yet what the user submitted is never lost: the Setting holds it, or
\* it holds it without keys and the Secret has the keys, those keys, for that host.
NoLostKeys ==
  \/ set.value = given
  \/ set.value = Stripped(given) /\ objs["secret"].stored = getBackupSecretData(given)

\* When nothing is going on, no failure is silent: either the submitted target came
\* to its end, an S3 target without keys and configured, an NFS or default one with
\* no Secret left over, an unusable one reported; or the condition says why not.
\* Conflicts are returned as errors, other errors recorded and not returned, while
\* users submit other values and the manager crashes between any two calls.
Concluded ==
  LET cleared == objs["secret"].stored = Missing /\ objs["credential"].stored = Missing
  IN CASE given.type = "s3" -> set.value = Stripped(given) /\ set.cond = Configured
       [] given.type = "nfs" -> cleared /\ set.cond = Configured
       [] given.type = "default" -> cleared /\ set.cond = NotConfigured(NoError)
       [] given.type = "none" -> TRUE
       [] OTHER -> set.cond = NotConfigured(RouteError(given))
ErrorShown == set.cond.status = "false" /\ set.cond.error # NoError
NoSilentFailure == Quiet => Concluded \/ ErrorShown

\* Under fairness, when users stop, every submitted target comes to its end, and an
\* NFS or default one is known to Longhorn.  The errors that OnChange records and
\* does not return are made good by the event its own Update causes or, when the
\* same error comes twice, only by the resync.
Known == given.type \in {"nfs", "default"} => objs["target"].stored = ConstructEndpoint(given)
Settled == Concluded /\ Known
TargetSettles == <>[]Settled

----------------------------------------------------------------------------
(* What a comment of the code says and the code does not do                *)

\* OnChange: "S3 access key id and secret access key are stripped after S3 backup
\* target has been verified": at rest, a target whose keys were stripped is the one
\* Longhorn has.
StrippedIsApplied ==
  Quiet /\ given.type = "s3" /\ HasKeys(given) /\ set.value = Stripped(given)
    => /\ objs["target"].stored = ConstructEndpoint(given)
       /\ objs["credential"].stored = Named
=============================================================================
