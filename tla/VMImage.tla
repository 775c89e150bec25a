------------------------------ MODULE VMImage ------------------------------
(***************************************************************************)
(* The life of one VirtualMachineImage: the VirtualMachineImage controller *)
(* makes a Longhorn BackingImage and a StorageClass for it and tries its   *)
(* URL; the BackingImage controller carries the state of the BackingImage  *)
(* over to the image.  A user may change the URL, delete the image and     *)
(* create another one of the same name.                                    *)
(*                                                                         *)
(* Each controller has one worker.  Both read images and BackingImages     *)
(* through informer caches that lag the API server.  An Update from a copy *)
(* that is not the stored version is refused; it returns the new version   *)
(* to the copy.  A BackingImage that is deleted stays, marked, until       *)
(* Longhorn has dealt with it.                                             *)
(*                                                                         *)
(* Abstractions.  Sizes, checksums, reasons, messages and the parameters   *)
(* of the StorageClass are left out.  Of a BackingImage the status of its  *)
(* one disk file is kept; it is "unseen" before it has a file and "copied" *)
(* while it has more than one.                                             *)
(* Progress is none, some or all; all before the file is ready is shown as *)
(* 99 percent and counts as some.                                          *)
(***************************************************************************)
EXTENDS Integers

CONSTANTS
  URLs,            \* URLs of images to download
  Sources,         \* source types that users choose
  MaxIncarnations, \* bound: how often an image of this name is created
  MaxDisturbances  \* bound: URL changes, further images, crashes, failures

ASSUME SourcesAssumption == Sources \subseteq {"download", "upload", "export-from-volume"}
ASSUME URLsAssumption == "" \notin URLs
ASSUME BoundsAssumption == MaxIncarnations \in Nat /\ MaxDisturbances \in Nat

VARIABLES
  img,      \* the VirtualMachineImage in the API server; uid 0: none
  cache,    \* the informer's copy of it
  current,  \* holders ("cache", workers) whose copy has the stored version
  bi,       \* the BackingImage in the API server
  biCache,  \* the informer's copy of it
  biFresh,  \* whether that copy is the stored version
  sc,       \* whether the StorageClass exists
  queue,    \* items in the work queues of the two controllers
  pc,       \* per worker: where its handler is
  loc,      \* per worker: the image its handler works on
  biLoc,    \* the BackingImage that the BackingImage worker read
  inc,      \* images created so far
  budget    \* disturbances still to come

backing == <<bi, biCache, biFresh, sc>>
handlers == <<pc, loc, biLoc>>
bounds == <<inc, budget>>
vars == <<img, cache, current, backing, queue, handlers, bounds>>

Workers == {"image", "backing"}

Image == [uid : 0..MaxIncarnations, deleting : BOOLEAN, finalizer : BOOLEAN,
          source : Sources \cup {"none"}, url : URLs \cup {""}, applied : URLs \cup {""},
          initialized : {"", "True", "False"}, imported : {"", "Unknown", "True", "False"},
          progress : {"none", "some", "all"}]
NoImage == [uid |-> 0, deleting |-> FALSE, finalizer |-> FALSE, source |-> "none", url |-> "",
            applied |-> "", initialized |-> "", imported |-> "", progress |-> "none"]
NewImage(u, s, x) == [NoImage EXCEPT !.uid = u, !.source = s, !.url = x]

BackingImage == [phase : {"none", "live", "deleting"}, url : URLs \cup {""},
                 state : {"unseen", "running", "ready", "failed", "copied"}]
NoBacking == [phase |-> "none", url |-> "", state |-> "unseen"]
\* The URL is among the parameters of a download only.
NewBacking(o) == [phase |-> "live", state |-> "unseen",
                  url |-> IF o.source = "download" THEN o.url ELSE ""]
OneFile(b) == b.state \in {"running", "ready", "failed"}
Progress(b) == IF b.state = "ready" THEN "all" ELSE "some"

----------------------------------------------------------------------------
(* What the handlers compute                                               *)

\* Mutation: the finalizer is forgotten.
InitializeAtOnce(o) == "createBackingImage"
Initialize(o) == IF o.finalizer THEN "createBackingImage" ELSE "addFinalizer"

\* Mutation: an image under deletion is not told apart.
RouteLive(o) == IF o.uid = 0 THEN "idle"
                ELSE CASE o.initialized = "" -> Initialize(o)
                       [] o.initialized # "" /\ o.url # o.applied -> "deleteBackingImage"
                       [] OTHER -> "idle"
\* Reconcile and onChange up to their first call.
Route(o) == IF o.uid = 0 THEN "idle"
            ELSE CASE o.deleting -> "removeStorageClass"
                   [] ~o.deleting /\ o.initialized = "" -> Initialize(o)
                   [] ~o.deleting /\ o.initialized # "" /\ o.url # o.applied -> "deleteBackingImage"
                   [] OTHER -> "idle"

\* The end of initialize: what becomes of the image once its URL was tried.  A
\* failure leaves Imported and Progress as they were.
Unreachable(o) == [o EXCEPT !.applied = o.url, !.initialized = "False"]
Importing(o) == [o EXCEPT !.applied = o.url, !.initialized = "True", !.imported = "Unknown",
                          !.progress = IF o.source = "download" THEN @ ELSE "none"]
Initialized(o) == IF o.source = "download" THEN {Unreachable(o), Importing(o)} ELSE {Importing(o)}

\* Mutation: a failed import is taken up again.
AwaitsFinish(o) == o.uid # 0 /\ o.initialized = "True" /\ o.imported \in {"Unknown", "False"}
AwaitsImport(o) == o.uid # 0 /\ o.initialized = "True" /\ o.imported = "Unknown"

\* Mutation: an import that is complete counts as progress only.
ReportedAsProgress(o, b) ==
  IF b.state = "failed" THEN [o EXCEPT !.imported = "False", !.progress = Progress(b)]
                        ELSE [o EXCEPT !.progress = "some"]
\* Mutation: the state is copied as it stands.
ReportedVerbatim(o, b) == [o EXCEPT !.imported = b.state, !.progress = Progress(b)]
\* The state of a BackingImage carried over to the image; until the file is
\* ready, progress is some, never all.
Reported(o, b) ==
  CASE b.state = "failed" -> [o EXCEPT !.imported = "False", !.progress = Progress(b)]
    [] b.state = "ready" -> [o EXCEPT !.imported = "True", !.progress = Progress(b)]
    [] OTHER -> [o EXCEPT !.progress = "some"]

----------------------------------------------------------------------------
(* Steps of a handler                                                      *)

Disturb == budget > 0 /\ budget' = budget - 1

Goto(w, where) == pc' = [pc EXCEPT ![w] = where]

\* Mutation: the error is dropped.
ReturnForgets(w, again) ==
  /\ Goto(w, "idle") /\ loc' = [loc EXCEPT ![w] = NoImage]
  /\ biLoc' = IF w = "backing" THEN NoBacking ELSE biLoc
  /\ UNCHANGED queue
\* The handler returns; the item goes back to the queue after an error.
Return(w, again) ==
  /\ Goto(w, "idle") /\ loc' = [loc EXCEPT ![w] = NoImage]
  /\ biLoc' = IF w = "backing" THEN NoBacking ELSE biLoc
  /\ queue' = IF again THEN queue \cup {w} ELSE queue

\* The API call that worker w is about to make fails.
CallFails(w) ==
  /\ pc[w] # "idle" /\ pc[w] # "getImage"
  /\ Disturb
  /\ Return(w, TRUE) /\ current' = current \ {w}
  /\ UNCHANGED <<img, cache, backing, inc>>

\* An object without finalizers goes as soon as it is marked.
Kept(o) == IF o.deleting /\ ~o.finalizer THEN NoImage ELSE o

\* Update of the image: refused, or stored, with the new version in the copy.
Refused(w) == w \notin current /\ Return(w, TRUE) /\ UNCHANGED <<img, current>>
Stored(w, new) == w \in current /\ img' = Kept(new) /\ current' = {w}

\* The copy that worker w takes from the cache.
ReadBy(w) == /\ loc' = [loc EXCEPT ![w] = cache]
             /\ current' = IF "cache" \in current THEN current \cup {w} ELSE current \ {w}

----------------------------------------------------------------------------
(* VirtualMachineImageReconciler                                           *)

Reconcile ==
  /\ pc["image"] = "idle" /\ "image" \in queue
  /\ queue' = queue \ {"image"}
  /\ Goto("image", Route(cache))
  /\ IF Route(cache) = "idle" THEN UNCHANGED <<loc, current>> ELSE ReadBy("image")
  /\ UNCHANGED <<img, cache, backing, biLoc, bounds>>

\* A call that concerns the BackingImage or the StorageClass only.
ImageStep(here, then) ==
  /\ pc["image"] = here /\ Goto("image", then)
  /\ UNCHANGED <<img, cache, current, biCache, queue, loc, biLoc, bounds>>

\* Delete and Create; NotFound and AlreadyExists are no errors.
DropStorageClass == sc' = FALSE /\ UNCHANGED <<bi, biFresh>>
DropBackingImage ==
  /\ IF bi.phase = "live" THEN bi' = [bi EXCEPT !.phase = "deleting"] /\ biFresh' = FALSE
                          ELSE UNCHANGED <<bi, biFresh>>
  /\ UNCHANGED sc

deleteBackingImage == ImageStep("deleteBackingImage", "deleteStorageClass") /\ DropBackingImage
deleteStorageClass ==
  ImageStep("deleteStorageClass", Initialize(loc["image"])) /\ DropStorageClass

addFinalizer ==
  /\ pc["image"] = "addFinalizer"
  /\ LET new == [loc["image"] EXCEPT !.finalizer = TRUE]
     IN \/ /\ Stored("image", new)
           /\ loc' = [loc EXCEPT !["image"] = new] /\ Goto("image", "createBackingImage")
           /\ UNCHANGED <<queue, biLoc>>
        \/ Refused("image")
  /\ UNCHANGED <<cache, backing, bounds>>

createBackingImage ==
  /\ ImageStep("createBackingImage", "createStorageClass")
  /\ IF bi.phase = "none" THEN bi' = NewBacking(loc["image"]) /\ biFresh' = FALSE
                          ELSE UNCHANGED <<bi, biFresh>>
  /\ UNCHANGED sc
createStorageClass ==
  /\ ImageStep("createStorageClass", "update")
  /\ sc' = TRUE /\ UNCHANGED <<bi, biFresh>>

\* The HEAD request, whose outcome is open, and the Update that ends initialize.
UpdateImage ==
  /\ pc["image"] = "update"
  /\ \/ /\ \E new \in Initialized(loc["image"]) : Stored("image", new)
        /\ Return("image", FALSE)
     \/ Refused("image")
  /\ UNCHANGED <<cache, backing, bounds>>

\* onRemove
removeStorageClass ==
  ImageStep("removeStorageClass", "removeBackingImage") /\ DropStorageClass
removeBackingImage ==
  ImageStep("removeBackingImage", "removeFinalizer") /\ DropBackingImage
removeFinalizer ==
  /\ pc["image"] = "removeFinalizer"
  /\ \/ Stored("image", [loc["image"] EXCEPT !.finalizer = FALSE]) /\ Return("image", FALSE)
     \/ Refused("image")
  /\ UNCHANGED <<cache, backing, bounds>>

ImageWorker ==
  \/ Reconcile \/ deleteBackingImage \/ deleteStorageClass
  \/ addFinalizer \/ createBackingImage \/ createStorageClass \/ UpdateImage
  \/ removeStorageClass \/ removeBackingImage \/ removeFinalizer

----------------------------------------------------------------------------
(* BackingImageReconciler                                                  *)

\* A BackingImage that is gone, marked, without a file or with several is passed
\* over.
ReconcileBacking ==
  /\ pc["backing"] = "idle" /\ "backing" \in queue
  /\ queue' = queue \ {"backing"}
  /\ IF biCache.phase = "live" /\ OneFile(biCache)
       THEN biLoc' = biCache /\ Goto("backing", "getImage")
       ELSE UNCHANGED <<biLoc, pc>>
  /\ UNCHANGED <<img, cache, current, backing, loc, bounds>>

GetImage ==
  /\ pc["backing"] = "getImage"
  /\ IF AwaitsImport(cache) /\ Reported(cache, biLoc) # cache
       THEN ReadBy("backing") /\ Goto("backing", "update") /\ UNCHANGED <<queue, biLoc>>
       ELSE Return("backing", FALSE) /\ UNCHANGED current
  /\ UNCHANGED <<img, cache, backing, bounds>>

UpdateImported ==
  /\ pc["backing"] = "update"
  /\ \/ Stored("backing", Reported(loc["backing"], biLoc)) /\ Return("backing", FALSE)
     \/ Refused("backing")
  /\ UNCHANGED <<cache, backing, bounds>>

BackingWorker == ReconcileBacking \/ GetImage \/ UpdateImported

----------------------------------------------------------------------------
(* Informers, the manager process, Longhorn and users                      *)

ImageWatch ==
  /\ "cache" \notin current
  /\ cache' = img /\ current' = current \cup {"cache"}
  /\ queue' = queue \cup {"image"}
  /\ UNCHANGED <<img, backing, handlers, bounds>>
BackingWatch ==
  /\ ~biFresh /\ biFresh' = TRUE
  /\ biCache' = bi /\ queue' = queue \cup {"backing"}
  /\ UNCHANGED <<img, cache, current, bi, sc, handlers, bounds>>

Quiet == /\ \A w \in Workers : pc[w] = "idle"
         /\ queue = {} /\ "cache" \in current /\ biFresh
\* The periodic resync, ten hours: it outlasts whatever was going on.
Resync ==
  /\ Quiet /\ queue' = Workers
  /\ UNCHANGED <<img, cache, current, backing, handlers, bounds>>

Crash ==
  /\ Disturb
  /\ cache' = img /\ current' = {"cache"} /\ biCache' = bi /\ biFresh' = TRUE
  /\ queue' = Workers /\ pc' = [w \in Workers |-> "idle"]
  /\ loc' = [w \in Workers |-> NoImage] /\ biLoc' = NoBacking
  /\ UNCHANGED <<img, bi, sc, inc>>

BackingChange(new) ==
  /\ bi' = new /\ biFresh' = FALSE
  /\ UNCHANGED <<img, cache, current, biCache, sc, queue, handlers, inc>>
\* Longhorn imports the file; a failed import it may take up again; a file that is
\* used on other nodes is copied there, and the copies may be cleaned up later.
BackingProceeds ==
  /\ bi.phase = "live"
  /\ \E step \in {<<"unseen", "running">>, <<"running", "ready">>} :
       bi.state = step[1] /\ BackingChange([bi EXCEPT !.state = step[2]])
  /\ UNCHANGED budget
BackingFails ==
  /\ bi.phase = "live" /\ bi.state = "running"
  /\ Disturb
  /\ BackingChange([bi EXCEPT !.state = "failed"])
BackingRetried ==
  /\ bi.phase = "live" /\ bi.state = "failed"
  /\ BackingChange([bi EXCEPT !.state = "running"]) /\ UNCHANGED budget
BackingCopied ==
  /\ bi.phase = "live" /\ bi.state = "ready"
  /\ Disturb
  /\ BackingChange([bi EXCEPT !.state = "copied"])
BackingCleaned ==
  /\ bi.phase = "live" /\ bi.state = "copied"
  /\ BackingChange([bi EXCEPT !.state = "ready"]) /\ UNCHANGED budget
BackingGone ==
  /\ bi.phase = "deleting" /\ BackingChange(NoBacking) /\ UNCHANGED budget

UserChange(new) ==
  /\ img' = new /\ current' = {}
  /\ UNCHANGED <<cache, backing, queue, handlers>>
CreateImage(s, x) ==
  /\ img.uid = 0 /\ inc < MaxIncarnations /\ inc' = inc + 1
  /\ IF inc = 0 THEN UNCHANGED budget ELSE Disturb
  /\ (s = "download") = (x # "")
  /\ UserChange(NewImage(inc + 1, s, x))
ChangeURL(x) ==
  /\ img.uid # 0 /\ img.source = "download" /\ x # img.url
  /\ Disturb
  /\ UserChange([img EXCEPT !.url = x]) /\ UNCHANGED inc
DeleteImage ==
  /\ img.uid # 0 /\ ~img.deleting
  /\ UserChange(Kept([img EXCEPT !.deleting = TRUE])) /\ UNCHANGED bounds

Init ==
  /\ img = NoImage /\ cache = NoImage /\ current = {"cache"}
  /\ bi = NoBacking /\ biCache = NoBacking /\ biFresh = TRUE /\ sc = FALSE
  /\ queue = {} /\ pc = [w \in Workers |-> "idle"]
  /\ loc = [w \in Workers |-> NoImage] /\ biLoc = NoBacking
  /\ inc = 0 /\ budget = MaxDisturbances

Next ==
  \/ ImageWorker
  \/ BackingWorker
  \/ \E w \in Workers : CallFails(w)
  \/ ImageWatch \/ BackingWatch \/ Resync \/ Crash
  \/ BackingProceeds \/ BackingFails \/ BackingRetried \/ BackingCopied \/ BackingCleaned
  \/ BackingGone
  \/ \E s \in Sources, x \in URLs \cup {""} : CreateImage(s, x)
  \/ \E x \in URLs : ChangeURL(x)
  \/ DeleteImage

Spec == Init /\ [][Next]_vars

\* Workers go on, watches deliver, the resync comes round and Longhorn works.
Fairness == /\ WF_vars(ImageWorker) /\ WF_vars(BackingWorker)
            /\ WF_vars(ImageWatch) /\ WF_vars(BackingWatch) /\ WF_vars(Resync)
            /\ WF_vars(BackingProceeds) /\ WF_vars(BackingGone)
FairSpec == Spec /\ Fairness

----------------------------------------------------------------------------
\* Every variable holds a value of its kind.
TypeOK ==
  /\ img \in Image /\ cache \in Image /\ loc \in [Workers -> Image]
  /\ current \subseteq Workers \cup {"cache"} /\ queue \subseteq Workers
  /\ bi \in BackingImage /\ biCache \in BackingImage /\ biLoc \in BackingImage
  /\ biFresh \in BOOLEAN /\ sc \in BOOLEAN
  /\ pc \in [Workers -> {"idle", "deleteBackingImage", "deleteStorageClass", "addFinalizer",
                         "createBackingImage", "createStorageClass", "update",
                         "removeStorageClass", "removeBackingImage", "removeFinalizer", "getImage"}]
  /\ inc \in 0..MaxIncarnations /\ budget \in 0..MaxDisturbances

\* An image that is gone, whoever deleted it at whatever moment of a handler or a
\* crash, has left no BackingImage and no StorageClass behind (initialize puts the
\* finalizer before it creates them, onRemove takes it off after it deleted them).
NothingLeftBehind == img.uid = 0 => bi.phase # "live" /\ ~sc

\* The outcome of an import is final: as long as the image has the same applied
\* URL, neither a late report of the BackingImage nor a handler with an old copy
\* of the image takes it back.
OutcomeIsFinal ==
  [][img.uid = img'.uid /\ img.applied = img'.applied /\ img.imported \in {"True", "False"}
       => img'.imported = img.imported]_vars

\* When nothing is going on, an image that says it is imported was imported from the
\* URL it says was applied ("URL is changed, recreate the storageclass and
\* backingimage", onChange).
ImportedFromURL ==
  Quiet /\ img.imported = "True" /\ img.initialized = "True" /\ ~img.deleting
    => bi.phase = "live" /\ bi.url = img.applied

\* No wake-up is lost: when nothing is going on, no image is left half deleted, not
\* initialised or with a URL that was not tried, although the handlers of onChange
\* work on old copies, are overtaken by users, refused or cut short by a crash, and
\* the next resync is hours away.
NothingLeftUndone ==
  Quiet /\ img.uid # 0 => ~img.deleting /\ img.initialized # "" /\ img.applied = img.url

\* Under fairness, an import that has ended, well or badly, while its image waits
\* for it (initialised with the URL it has and not being deleted) comes to be
\* reported as True or False.  Two things may come first: the
\* BackingImage is deleted (with the image, or for another URL), or it is copied to
\* a second disk, which onChange passes over for as long as it has several files.
\* The BackingImage may be ready before initialize ends, and nothing then calls
\* onChange again except the resync.
Unreported == /\ img.initialized = "True" /\ img.imported = "Unknown"
              /\ img.url = img.applied /\ ~img.deleting
              /\ bi.phase = "live" /\ bi.state \in {"ready", "failed"}
OutcomeReported ==
  Unreported ~> img.imported \in {"True", "False"} \/ bi.phase # "live" \/ bi.state = "copied"

\* Under fairness, when users stop, every image is initialised with the URL it now
\* has, and one that was deleted is gone with its BackingImage.
ImageSettles ==
  <>[]IF img.uid = 0 THEN bi.phase = "none"
      ELSE ~img.deleting /\ img.initialized # "" /\ img.applied = img.url
=============================================================================
