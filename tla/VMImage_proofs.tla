--------------------------- MODULE VMImage_proofs ---------------------------
(***************************************************************************)
(* Proofs about VMImage, for any set of URLs and sources and any bounds:   *)
(* the type invariant, that an image which is gone has left neither a      *)
(* BackingImage nor a StorageClass behind, that the outcome of an import   *)
(* is final, and that no wake-up of the image worker is lost.              *)
(*                                                                         *)
(* The argument.  Whatever exists is held by an image with the finalizer   *)
(* (OwnedInv).  A handler creates only for an image that had the finalizer *)
(* in a copy, perhaps an old one; but a copy that has the finalizer and is *)
(* not marked tells the truth about it (LiveCopy), since the finalizer is  *)
(* taken off by the same worker, once its cache has shown the mark.        *)
(* For the outcome: a worker sets out to change it only for a copy that    *)
(* has none or whose URL is untried (IntentInv), and stores what it has    *)
(* computed only if that copy is still the stored image (CopyInv).         *)
(***************************************************************************)
EXTENDS VMImage, TLAPS

Live(o) == o.uid # 0 /\ o.finalizer /\ ~o.deleting
LiveCopy(o) == Live(o) => img.uid = o.uid /\ img.finalizer

Busy(w) == pc[w] \notin {"idle", "getImage"}

\* No copy is of an image still to be created; an image that is not there has no parts.
UidInv ==
  /\ img.uid <= inc /\ cache.uid <= inc
  /\ (img.uid = 0 => img = NoImage) /\ (cache.uid = 0 => cache = NoImage)
\* A holder of the stored version has the stored image, of which the cache knows.
CopyInv ==
  /\ "cache" \in current => cache = img
  /\ \A w \in Workers : Busy(w) /\ w \in current => loc[w] = img /\ cache.uid = img.uid
\* The cache has seen every image with the finalizer, and is right about the mark.
SeenInv ==
  /\ img.finalizer => img.uid # 0 /\ cache.uid = img.uid
  /\ img.deleting => img.finalizer
  /\ cache.uid = img.uid /\ cache.deleting => img.deleting
  /\ LiveCopy(cache)
OwnedInv == bi.phase = "live" \/ sc => img.finalizer
HandlerInv ==
  /\ pc["image"] \in {"deleteBackingImage", "deleteStorageClass"} =>
       ~loc["image"].deleting /\ loc["image"].uid # 0 /\ LiveCopy(loc["image"])
  /\ pc["image"] = "addFinalizer" => ~loc["image"].deleting /\ loc["image"].uid # 0
  /\ pc["image"] \in {"createBackingImage", "createStorageClass", "update"} =>
       Live(loc["image"]) /\ LiveCopy(loc["image"])
  /\ pc["image"] \in {"removeStorageClass", "removeBackingImage", "removeFinalizer"} =>
       loc["image"].deleting /\ ~Live(img) /\ ~Live(cache)
  /\ pc["image"] \in {"removeBackingImage", "removeFinalizer"} => ~sc
  /\ pc["image"] = "removeFinalizer" => bi.phase # "live"
  /\ pc["backing"] = "update" => loc["backing"].uid # 0
Places == {"idle", "deleteBackingImage", "deleteStorageClass", "addFinalizer",
           "createBackingImage", "createStorageClass", "update", "removeStorageClass",
           "removeBackingImage", "removeFinalizer", "getImage"}
IndInv == TypeOK /\ UidInv /\ CopyInv /\ SeenInv /\ OwnedInv /\ HandlerInv

----------------------------------------------------------------------------
(* What the operators return                                               *)

\* The values that stand for no object are of their kinds.
LEMMA NoneTypes == NoImage \in Image /\ NoBacking \in BackingImage
  BY BoundsAssumption DEF NoImage, Image, NoBacking, BackingImage

\* What the controllers make of an image is an image with the same uid, mark and
\* finalizer.
SameObject(o, n) == /\ n \in Image /\ n.uid = o.uid
                    /\ n.deleting = o.deleting /\ n.finalizer = o.finalizer
LEMMA ComputedTypes ==
  ASSUME NEW o \in Image, NEW b \in BackingImage
  PROVE  /\ SameObject(o, Reported(o, b))
         /\ \A n \in Initialized(o) : SameObject(o, n)
         /\ NewBacking(o) \in BackingImage /\ NewBacking(o).phase = "live"
<1>1. SameObject(o, Reported(o, b))
  BY DEF Reported, Progress, Image, SameObject
<1>2. SameObject(o, Unreachable(o))
  BY DEF Unreachable, Image, SameObject
<1>3. SameObject(o, Importing(o))
  BY DEF Importing, Image, SameObject
<1>4. NewBacking(o) \in BackingImage /\ NewBacking(o).phase = "live"
  BY DEF NewBacking, BackingImage, Image
<1> QED BY <1>1, <1>2, <1>3, <1>4 DEF Initialized

\* Setting the mark or the finalizer changes nothing else; an image that is kept
\* is an image.
LEMMA FieldTypes ==
  ASSUME NEW o \in Image, NEW b \in BOOLEAN
  PROVE  /\ [o EXCEPT !.finalizer = b] \in Image /\ [o EXCEPT !.deleting = b] \in Image
         /\ Kept(o) \in Image
         /\ o.uid \in 0..MaxIncarnations /\ o.deleting \in BOOLEAN /\ o.finalizer \in BOOLEAN
<1>1. [o EXCEPT !.finalizer = b] \in Image /\ [o EXCEPT !.deleting = b] \in Image
  BY DEF Image
<1>2. Kept(o) \in Image
  BY NoneTypes DEF Kept
<1>3. o.uid \in 0..MaxIncarnations /\ o.deleting \in BOOLEAN /\ o.finalizer \in BOOLEAN
  BY DEF Image
<1> QED BY <1>1, <1>2, <1>3

\* A BackingImage that is marked or proceeds is a BackingImage.
LEMMA BackingTypes ==
  ASSUME NEW b \in BackingImage
  PROVE  /\ [b EXCEPT !.phase = "deleting"] \in BackingImage
         /\ [b EXCEPT !.phase = "deleting"].phase # "live"
         /\ \A t \in {"unseen", "running", "ready", "failed", "copied"} :
              /\ [b EXCEPT !.state = t] \in BackingImage
              /\ [b EXCEPT !.state = t].phase = b.phase
  BY DEF BackingImage

\* The initial states.
LEMMA InitInv == Init => IndInv
<1> SUFFICES ASSUME Init PROVE IndInv
  OBVIOUS
<1> USE NoneTypes, BoundsAssumption DEF Init
<1>1. TypeOK
  <2>1. biFresh \in BOOLEAN /\ sc \in BOOLEAN
    BY Zenon
  <2>2. img \in Image /\ cache \in Image /\ loc \in [Workers -> Image]
    OBVIOUS
  <2> QED BY <2>1, <2>2 DEF TypeOK, Workers
<1>2. UidInv /\ SeenInv /\ OwnedInv
  <2>1. UidInv
    <3>1. NoImage.uid = 0
      BY DEF NoImage
    <3> QED BY <3>1 DEF UidInv
  <2>2. SeenInv
    BY DEF SeenInv, LiveCopy, Live, NoImage
  <2>3. OwnedInv
    BY DEF OwnedInv, NoBacking
  <2> QED BY <2>1, <2>2, <2>3
<1>3. CopyInv /\ HandlerInv
  BY DEF CopyInv, HandlerInv, Busy, Workers
<1> QED BY <1>1, <1>2, <1>3 DEF IndInv

----------------------------------------------------------------------------
(* Steps of the image worker that leave the image alone                    *)

\* Such a step keeps what is said of the image and of its copies.
LEMMA ImageStepInv ==
  ASSUME IndInv, NEW here, NEW then, ImageStep(here, then),
         here \notin {"idle", "getImage"},
         bi' \in BackingImage, biFresh' \in BOOLEAN, sc' \in BOOLEAN,
         pc' \in [Workers -> Places]
  PROVE  TypeOK' /\ UidInv' /\ CopyInv' /\ SeenInv'
<1>1. TypeOK'
  BY DEF IndInv, TypeOK, ImageStep, bounds, Places
<1>2. UidInv' /\ SeenInv'
  BY DEF IndInv, UidInv, SeenInv, LiveCopy, Live, ImageStep, bounds
<1>3. CopyInv'
  BY DEF IndInv, TypeOK, CopyInv, Busy, ImageStep, Goto, Workers
<1> QED BY <1>1, <1>2, <1>3

\* deleteBackingImage marks the BackingImage, if any.
LEMMA deleteBackingImageInv == IndInv /\ deleteBackingImage => IndInv'
<1> SUFFICES ASSUME IndInv, deleteBackingImage PROVE IndInv'
  OBVIOUS
<1>1. bi' \in BackingImage /\ biFresh' \in BOOLEAN /\ sc' \in BOOLEAN
  BY BackingTypes, ComputedTypes
  DEF IndInv, TypeOK, Workers, deleteBackingImage, DropBackingImage
<1>2. pc' \in [Workers -> Places]
  BY DEF IndInv, TypeOK, Workers, Places, deleteBackingImage, ImageStep, Goto, Initialize
<1>3. TypeOK' /\ UidInv' /\ CopyInv' /\ SeenInv'
  BY <1>1, <1>2, ImageStepInv DEF deleteBackingImage
<1>4. OwnedInv' /\ HandlerInv'
  BY BackingTypes, ComputedTypes
  DEF IndInv, TypeOK, Workers, OwnedInv, HandlerInv, LiveCopy, Live, deleteBackingImage,
      ImageStep, Goto, Initialize, DropBackingImage
<1> QED BY <1>3, <1>4 DEF IndInv

\* deleteStorageClass goes on to create only for a copy with the finalizer.
LEMMA deleteStorageClassInv == IndInv /\ deleteStorageClass => IndInv'
<1> SUFFICES ASSUME IndInv, deleteStorageClass PROVE IndInv'
  OBVIOUS
<1>1. bi' \in BackingImage /\ biFresh' \in BOOLEAN /\ sc' \in BOOLEAN
  BY BackingTypes, ComputedTypes
  DEF IndInv, TypeOK, Workers, deleteStorageClass, DropStorageClass
<1>2. pc' \in [Workers -> Places]
  BY DEF IndInv, TypeOK, Workers, Places, deleteStorageClass, ImageStep, Goto, Initialize
<1>3. TypeOK' /\ UidInv' /\ CopyInv' /\ SeenInv'
  BY <1>1, <1>2, ImageStepInv DEF deleteStorageClass
<1>4. OwnedInv' /\ HandlerInv'
  BY BackingTypes, ComputedTypes
  DEF IndInv, TypeOK, Workers, OwnedInv, HandlerInv, LiveCopy, Live, deleteStorageClass,
      ImageStep, Goto, Initialize, DropStorageClass
<1> QED BY <1>3, <1>4 DEF IndInv

\* createBackingImage is reached only while the image has the finalizer.
LEMMA createBackingImageInv == IndInv /\ createBackingImage => IndInv'
<1> SUFFICES ASSUME IndInv, createBackingImage PROVE IndInv'
  OBVIOUS
<1>1. bi' \in BackingImage /\ biFresh' \in BOOLEAN /\ sc' \in BOOLEAN
  BY BackingTypes, ComputedTypes DEF IndInv, TypeOK, Workers, createBackingImage, bounds
<1>2. pc' \in [Workers -> Places]
  BY DEF IndInv, TypeOK, Workers, Places, createBackingImage, ImageStep, Goto, Initialize
<1>3. TypeOK' /\ UidInv' /\ CopyInv' /\ SeenInv'
  BY <1>1, <1>2, ImageStepInv DEF createBackingImage
<1>4. OwnedInv' /\ HandlerInv'
  BY BackingTypes, ComputedTypes
  DEF IndInv, TypeOK, Workers, OwnedInv, HandlerInv, LiveCopy, Live, createBackingImage,
      ImageStep, Goto, Initialize, bounds
<1> QED BY <1>3, <1>4 DEF IndInv

\* createStorageClass likewise.
LEMMA createStorageClassInv == IndInv /\ createStorageClass => IndInv'
<1> SUFFICES ASSUME IndInv, createStorageClass PROVE IndInv'
  OBVIOUS
<1>1. bi' \in BackingImage /\ biFresh' \in BOOLEAN /\ sc' \in BOOLEAN
  BY BackingTypes, ComputedTypes DEF IndInv, TypeOK, Workers, createStorageClass, bounds
<1>2. pc' \in [Workers -> Places]
  BY DEF IndInv, TypeOK, Workers, Places, createStorageClass, ImageStep, Goto, Initialize
<1>3. TypeOK' /\ UidInv' /\ CopyInv' /\ SeenInv'
  BY <1>1, <1>2, ImageStepInv DEF createStorageClass
<1>4. OwnedInv' /\ HandlerInv'
  BY BackingTypes, ComputedTypes
  DEF IndInv, TypeOK, Workers, OwnedInv, HandlerInv, LiveCopy, Live, createStorageClass,
      ImageStep, Goto, Initialize, bounds
<1> QED BY <1>3, <1>4 DEF IndInv

\* onRemove deletes the StorageClass first,
LEMMA removeStorageClassInv == IndInv /\ removeStorageClass => IndInv'
<1> SUFFICES ASSUME IndInv, removeStorageClass PROVE IndInv'
  OBVIOUS
<1>1. bi' \in BackingImage /\ biFresh' \in BOOLEAN /\ sc' \in BOOLEAN
  BY BackingTypes, ComputedTypes
  DEF IndInv, TypeOK, Workers, removeStorageClass, DropStorageClass
<1>2. pc' \in [Workers -> Places]
  BY DEF IndInv, TypeOK, Workers, Places, removeStorageClass, ImageStep, Goto, Initialize
<1>3. TypeOK' /\ UidInv' /\ CopyInv' /\ SeenInv'
  BY <1>1, <1>2, ImageStepInv DEF removeStorageClass
<1>4. OwnedInv' /\ HandlerInv'
  BY BackingTypes, ComputedTypes
  DEF IndInv, TypeOK, Workers, OwnedInv, HandlerInv, LiveCopy, Live, removeStorageClass,
      ImageStep, Goto, Initialize, DropStorageClass
<1> QED BY <1>3, <1>4 DEF IndInv

\* and then marks the BackingImage.
LEMMA removeBackingImageInv == IndInv /\ removeBackingImage => IndInv'
<1> SUFFICES ASSUME IndInv, removeBackingImage PROVE IndInv'
  OBVIOUS
<1>1. bi' \in BackingImage /\ biFresh' \in BOOLEAN /\ sc' \in BOOLEAN
  BY BackingTypes, ComputedTypes
  DEF IndInv, TypeOK, Workers, removeBackingImage, DropBackingImage
<1>2. pc' \in [Workers -> Places]
  BY DEF IndInv, TypeOK, Workers, Places, removeBackingImage, ImageStep, Goto, Initialize
<1>3. TypeOK' /\ UidInv' /\ CopyInv' /\ SeenInv'
  BY <1>1, <1>2, ImageStepInv DEF removeBackingImage
<1>4. OwnedInv' /\ HandlerInv'
  BY BackingTypes, ComputedTypes
  DEF IndInv, TypeOK, Workers, OwnedInv, HandlerInv, LiveCopy, Live, removeBackingImage,
      ImageStep, Goto, Initialize, DropBackingImage
<1> QED BY <1>3, <1>4 DEF IndInv

----------------------------------------------------------------------------
(* Updates of the image                                                    *)

\* An Update that is refused, like a call that fails, only ends the handler.
LEMMA EndInv ==
  ASSUME IndInv, NEW w \in Workers, NEW again \in BOOLEAN, Return(w, again),
         current' \subseteq current, budget' \in 0..MaxDisturbances,
         UNCHANGED <<img, cache, backing, inc>>
  PROVE  IndInv'
<1>1. TypeOK'
  BY NoneTypes DEF IndInv, TypeOK, Return, Goto, backing, Workers
<1>2. UidInv' /\ SeenInv' /\ OwnedInv'
  BY DEF IndInv, UidInv, SeenInv, OwnedInv, LiveCopy, Live, backing
<1>3. CopyInv' /\ HandlerInv'
  BY
  DEF IndInv, TypeOK, CopyInv, HandlerInv, LiveCopy, Live, Busy, Return, Goto, backing,
      Workers
<1> QED BY <1>1, <1>2, <1>3 DEF IndInv

\* An Update that keeps the uid, the mark and the finalizer and ends the handler.
LEMMA SameObjectInv ==
  ASSUME IndInv, NEW w \in Workers, NEW n, SameObject(img, n), Busy(w), img.uid # 0,
         Stored(w, n), Return(w, FALSE), UNCHANGED <<cache, backing, bounds>>
  PROVE  IndInv'
<1>1. img' = n
  <2>1. ~(n.deleting /\ ~n.finalizer)
    BY FieldTypes DEF IndInv, TypeOK, SeenInv, SameObject
  <2> QED BY <2>1 DEF Stored, Kept
<1>2. /\ img' \in Image /\ img'.uid = img.uid
      /\ img'.deleting = img.deleting /\ img'.finalizer = img.finalizer
  BY <1>1 DEF SameObject
<1>3. loc[w] = img /\ cache.uid = img.uid
  BY DEF IndInv, CopyInv, Stored
<1>4. TypeOK'
  BY <1>2, NoneTypes DEF IndInv, TypeOK, Return, Goto, Stored, backing, bounds, Workers
<1>5. UidInv' /\ SeenInv' /\ OwnedInv'
  BY <1>2 DEF IndInv, UidInv, SeenInv, OwnedInv, LiveCopy, Live, backing, bounds
<1>6. CopyInv'
  BY DEF IndInv, TypeOK, CopyInv, Busy, Return, Goto, Stored, Workers
<1>7. HandlerInv'
  BY <1>2
  DEF IndInv, TypeOK, HandlerInv, LiveCopy, Live, Return, Goto, backing, bounds, Workers
<1> QED BY <1>4, <1>5, <1>6, <1>7 DEF IndInv

\* The Update at the end of initialize.
LEMMA UpdateImageInv == IndInv /\ UpdateImage => IndInv'
<1> SUFFICES ASSUME IndInv, UpdateImage PROVE IndInv'
  OBVIOUS
<1>1. CASE Refused("image")
  BY <1>1, EndInv DEF UpdateImage, Refused, Workers, bounds, IndInv, TypeOK
<1>2. ASSUME NEW n \in Initialized(loc["image"]), Stored("image", n), Return("image", FALSE)
      PROVE  IndInv'
  <2>1. Busy("image") /\ "image" \in Workers
    BY DEF UpdateImage, Busy, Workers
  <2>2. loc["image"] = img /\ img \in Image
    BY <1>2, <2>1 DEF IndInv, TypeOK, CopyInv, Stored
  <2>3. SameObject(img, n)
    BY <1>2, <2>2, ComputedTypes, NoneTypes
  <2>4. img.uid # 0
    BY <2>2 DEF IndInv, HandlerInv, Live, UpdateImage
  <2> QED BY <1>2, <2>1, <2>3, <2>4, SameObjectInv DEF UpdateImage
<1> QED BY <1>1, <1>2 DEF UpdateImage

\* The Update with the state of the BackingImage.
LEMMA UpdateImportedInv == IndInv /\ UpdateImported => IndInv'
<1> SUFFICES ASSUME IndInv, UpdateImported PROVE IndInv'
  OBVIOUS
<1>1. CASE Refused("backing")
  BY <1>1, EndInv DEF UpdateImported, Refused, Workers, bounds, IndInv, TypeOK
<1>2. CASE Stored("backing", Reported(loc["backing"], biLoc)) /\ Return("backing", FALSE)
  <2>1. Busy("backing") /\ "backing" \in Workers
    BY DEF UpdateImported, Busy, Workers
  <2>2. loc["backing"] = img /\ img \in Image /\ biLoc \in BackingImage
    BY <1>2, <2>1 DEF IndInv, TypeOK, CopyInv, Stored
  <2>3. SameObject(img, Reported(loc["backing"], biLoc))
    BY <2>2, ComputedTypes
  <2>4. img.uid # 0
    BY <2>2 DEF IndInv, HandlerInv, Live, UpdateImported
  <2> QED BY <1>2, <2>1, <2>3, <2>4, SameObjectInv DEF UpdateImported
<1> QED BY <1>1, <1>2 DEF UpdateImported

\* The finalizer is put on an image of which the cache knows.
LEMMA addFinalizerInv == IndInv /\ addFinalizer => IndInv'
<1> SUFFICES ASSUME IndInv, addFinalizer PROVE IndInv'
  OBVIOUS
<1>1. CASE Refused("image")
  BY <1>1, EndInv DEF addFinalizer, Refused, Workers, bounds, IndInv, TypeOK
<1>2. CASE /\ Stored("image", [loc["image"] EXCEPT !.finalizer = TRUE])
           /\ loc' = [loc EXCEPT !["image"] = [loc["image"] EXCEPT !.finalizer = TRUE]]
           /\ Goto("image", "createBackingImage") /\ UNCHANGED <<queue, biLoc>>
  <2> DEFINE n == [img EXCEPT !.finalizer = TRUE]
  <2>1. loc["image"] = img /\ cache.uid = img.uid /\ img \in Image /\ ~img.deleting /\ img.uid # 0
    BY <1>2 DEF addFinalizer, IndInv, TypeOK, CopyInv, HandlerInv, Busy, Stored, Workers
  <2>2. n \in Image /\ n.uid = img.uid /\ n.deleting = img.deleting /\ n.finalizer = TRUE
    BY <2>1 DEF Image
  <2>3. img' = n /\ loc' = [loc EXCEPT !["image"] = n] /\ current' = {"image"}
    BY <1>2, <2>1, <2>2 DEF Stored, Kept
  <2> HIDE DEF n
  <2>4. TypeOK'
    BY <1>2, <2>2, <2>3 DEF addFinalizer, IndInv, TypeOK, Goto, backing, bounds, Workers
  <2>5. UidInv' /\ SeenInv' /\ OwnedInv'
    BY <2>1, <2>2, <2>3
    DEF addFinalizer, IndInv, UidInv, SeenInv, OwnedInv, LiveCopy, Live, backing, bounds
  <2>6. CopyInv'
    BY <1>2, <2>1, <2>2, <2>3 DEF addFinalizer, IndInv, TypeOK, CopyInv, Busy, Goto, Workers
  <2>7. HandlerInv'
    BY <1>2, <2>1, <2>2, <2>3
    DEF addFinalizer, IndInv, TypeOK, HandlerInv, LiveCopy, Live, Goto, Workers
  <2> QED BY <2>4, <2>5, <2>6, <2>7 DEF IndInv
<1> QED BY <1>1, <1>2 DEF addFinalizer

\* The image goes; the cache has shown the mark, so that no copy taken from it
\* later is used to create anything.
LEMMA removeFinalizerInv == IndInv /\ removeFinalizer => IndInv'
<1> SUFFICES ASSUME IndInv, removeFinalizer PROVE IndInv'
  OBVIOUS
<1>1. CASE Refused("image")
  BY <1>1, EndInv DEF removeFinalizer, Refused, Workers, bounds, IndInv, TypeOK
<1>2. CASE Stored("image", [loc["image"] EXCEPT !.finalizer = FALSE]) /\ Return("image", FALSE)
  <2>1. loc["image"] = img /\ img.deleting /\ img \in Image
    BY <1>2 DEF removeFinalizer, IndInv, TypeOK, CopyInv, HandlerInv, Busy, Stored, Workers
  <2>2. img' = NoImage /\ current' = {"image"}
    <3>1. [img EXCEPT !.finalizer = FALSE].deleting /\ ~[img EXCEPT !.finalizer = FALSE].finalizer
      BY <2>1 DEF Image
    <3> QED BY <1>2, <2>1, <3>1 DEF Stored, Kept
  <2>3. NoImage.uid = 0 /\ ~NoImage.finalizer /\ ~NoImage.deleting
    BY DEF NoImage
  <2>4. ~Live(cache) /\ ~sc /\ bi.phase # "live"
    BY DEF removeFinalizer, IndInv, HandlerInv
  <2>5. TypeOK'
    BY <1>2, <2>2, NoneTypes
    DEF removeFinalizer, IndInv, TypeOK, Return, Goto, backing, bounds, Workers
  <2>6. UidInv' /\ SeenInv'
    <3>1. cache.uid = 0 => ~cache.deleting
      BY <2>3 DEF IndInv, UidInv
    <3> QED BY <2>2, <2>3, <2>4, <3>1 DEF removeFinalizer, IndInv, TypeOK, UidInv, SeenInv, LiveCopy, Live, bounds
  <2>7. OwnedInv'
    BY <2>4 DEF removeFinalizer, OwnedInv, backing
  <2>8. CopyInv' /\ HandlerInv'
    BY <1>2, <2>2 DEF IndInv, TypeOK, CopyInv, HandlerInv, Busy, Return, Goto, Workers
  <2> QED BY <2>5, <2>6, <2>7, <2>8 DEF IndInv
<1> QED BY <1>1, <1>2 DEF removeFinalizer

----------------------------------------------------------------------------
(* The beginnings of the handlers                                          *)

\* A copy taken from the cache is marked only if what is stored is not live, and
\* live only if what is stored has the finalizer.
LEMMA ReconcileInv == IndInv /\ Reconcile => IndInv'
<1> SUFFICES ASSUME IndInv, Reconcile PROVE IndInv'
  OBVIOUS
<1> USE DEF Reconcile
<1>1. /\ pc' = [pc EXCEPT !["image"] = Route(cache)] /\ Route(cache) \in Places
      /\ Route(cache) # "getImage" /\ cache \in Image /\ img \in Image
      /\ UNCHANGED <<img, cache, bi, biCache, biFresh, sc, biLoc, inc, budget>>
  BY DEF Goto, Route, Initialize, Places, IndInv, TypeOK, backing, bounds
<1>2. CASE Route(cache) = "idle"
  <2>1. TypeOK'
    BY <1>1, <1>2 DEF IndInv, TypeOK, Workers, Places
  <2>2. UidInv' /\ SeenInv' /\ OwnedInv'
    BY <1>1 DEF IndInv, UidInv, SeenInv, OwnedInv, LiveCopy, Live
  <2>3. CopyInv' /\ HandlerInv'
    BY <1>1, <1>2 DEF IndInv, TypeOK, CopyInv, HandlerInv, LiveCopy, Live, Busy, Workers
  <2> QED BY <2>1, <2>2, <2>3 DEF IndInv
<1>3. CASE Route(cache) # "idle"
  <2>1. /\ loc' = [loc EXCEPT !["image"] = cache]
        /\ current' \subseteq current \cup {"image"}
        /\ "image" \in current' => "cache" \in current
    BY <1>3 DEF ReadBy
  <2>2. TypeOK'
    BY <1>1, <2>1 DEF IndInv, TypeOK, Workers, Places
  <2>3. UidInv' /\ SeenInv' /\ OwnedInv'
    BY <1>1 DEF IndInv, UidInv, SeenInv, OwnedInv, LiveCopy, Live
  <2>4. CopyInv'
    BY <1>1, <2>1 DEF IndInv, TypeOK, CopyInv, Busy, Workers
  <2>5. cache.deleting => ~Live(img) /\ ~Live(cache)
    BY <1>1 DEF IndInv, SeenInv, Live
  <2>6. cache.uid # 0
    BY <1>3 DEF Route
  <2>7. cache.deleting => Route(cache) = "removeStorageClass"
    BY <2>6 DEF Route
  <2>8. ~cache.deleting =>
          \/ Route(cache) \in {"deleteBackingImage", "addFinalizer"}
          \/ Route(cache) = "createBackingImage" /\ Live(cache)
    BY <1>3, <2>6 DEF Route, Initialize, Live
  <2>9. LiveCopy(cache)
    BY DEF IndInv, SeenInv
  <2>10. loc'["image"] = cache /\ loc'["backing"] = loc["backing"]
    BY <2>1 DEF IndInv, TypeOK, Workers
  <2>11. pc'["image"] = Route(cache) /\ pc'["backing"] = pc["backing"]
    BY <1>1 DEF IndInv, TypeOK, Workers
  <2>12. HandlerInv'
    <3>1. CASE cache.deleting
      BY <1>1, <2>5, <2>7, <2>10, <2>11, <3>1 DEF IndInv, HandlerInv, Live
    <3>2. CASE ~cache.deleting
      BY <1>1, <2>6, <2>8, <2>9, <2>10, <2>11, <3>2 DEF IndInv, HandlerInv, Live, LiveCopy
    <3> QED BY <3>1, <3>2
  <2> QED BY <2>2, <2>3, <2>4, <2>12 DEF IndInv
<1> QED BY <1>2, <1>3

\* The BackingImage controller reads the BackingImage,
LEMMA ReconcileBackingInv == IndInv /\ ReconcileBacking => IndInv'
<1> SUFFICES ASSUME IndInv, ReconcileBacking PROVE IndInv'
  OBVIOUS
<1> USE DEF ReconcileBacking
<1>1. TypeOK'
  BY DEF IndInv, TypeOK, Goto, backing, bounds, Workers
<1>2. UidInv' /\ SeenInv' /\ OwnedInv'
  BY DEF IndInv, UidInv, SeenInv, OwnedInv, LiveCopy, Live, backing, bounds
<1>3. CopyInv' /\ HandlerInv'
  BY DEF IndInv, TypeOK, CopyInv, HandlerInv, LiveCopy, Live, Busy, Goto, backing, Workers
<1> QED BY <1>1, <1>2, <1>3 DEF IndInv

\* and then the image.
LEMMA GetImageInv == IndInv /\ GetImage => IndInv'
<1> SUFFICES ASSUME IndInv, GetImage PROVE IndInv'
  OBVIOUS
<1>1. CASE Return("backing", FALSE) /\ UNCHANGED current
  BY <1>1, EndInv DEF GetImage, bounds, Workers, IndInv, TypeOK
<1>2. CASE /\ AwaitsImport(cache)
           /\ ReadBy("backing") /\ Goto("backing", "update") /\ UNCHANGED <<queue, biLoc>>
  <2>1. /\ loc' = [loc EXCEPT !["backing"] = cache]
        /\ current' \subseteq current \cup {"backing"}
        /\ "backing" \in current' => "cache" \in current
    BY <1>2 DEF ReadBy
  <2>2. TypeOK'
    BY <1>2, <2>1 DEF GetImage, IndInv, TypeOK, Goto, backing, bounds, Workers
  <2>3. UidInv' /\ SeenInv' /\ OwnedInv'
    BY DEF GetImage, IndInv, UidInv, SeenInv, OwnedInv, LiveCopy, Live, backing, bounds
  <2>4. CopyInv'
    BY <1>2, <2>1 DEF GetImage, IndInv, TypeOK, CopyInv, Busy, Goto, Workers
  <2>5. HandlerInv'
    BY <1>2, <2>1
    DEF GetImage, AwaitsImport, IndInv, TypeOK, HandlerInv, LiveCopy, Live, Goto, backing,
        Workers
  <2> QED BY <2>2, <2>3, <2>4, <2>5 DEF IndInv
<1> QED BY <1>1, <1>2 DEF GetImage

\* A call that fails ends the handler.
LEMMA CallFailsInv == ASSUME IndInv, NEW w \in Workers, CallFails(w) PROVE IndInv'
<1>1. budget' \in 0..MaxDisturbances
  BY BoundsAssumption DEF IndInv, TypeOK, CallFails, Disturb
<1> QED BY <1>1, EndInv DEF CallFails

----------------------------------------------------------------------------
(* Informers, the manager process and Longhorn                             *)

\* The image informer catches up.
LEMMA ImageWatchInv == IndInv /\ ImageWatch => IndInv'
<1> SUFFICES ASSUME IndInv, ImageWatch PROVE IndInv'
  OBVIOUS
<1> USE DEF ImageWatch
<1>1. TypeOK'
  BY DEF IndInv, TypeOK, backing, handlers, bounds, Workers
<1>2. UidInv' /\ SeenInv' /\ OwnedInv'
  BY FieldTypes
  DEF IndInv, TypeOK, UidInv, SeenInv, OwnedInv, LiveCopy, Live, backing, bounds
<1>3. CopyInv' /\ HandlerInv'
  BY
  DEF IndInv, TypeOK, CopyInv, HandlerInv, LiveCopy, Live, Busy, backing, handlers,
      Workers
<1> QED BY <1>1, <1>2, <1>3 DEF IndInv

\* The BackingImage informer catches up.
LEMMA BackingWatchInv == IndInv /\ BackingWatch => IndInv'
<1> SUFFICES ASSUME IndInv, BackingWatch PROVE IndInv'
  OBVIOUS
<1> USE DEF BackingWatch
<1>1. TypeOK'
  BY DEF IndInv, TypeOK, handlers, bounds, Workers
<1>2. UidInv' /\ SeenInv' /\ OwnedInv'
  BY DEF IndInv, UidInv, SeenInv, OwnedInv, LiveCopy, Live, bounds
<1>3. CopyInv' /\ HandlerInv'
  BY DEF IndInv, CopyInv, HandlerInv, LiveCopy, Live, Busy, handlers
<1> QED BY <1>1, <1>2, <1>3 DEF IndInv

\* The periodic resync only queues.
LEMMA ResyncInv == IndInv /\ Resync => IndInv'
<1> SUFFICES ASSUME IndInv, Resync PROVE IndInv'
  OBVIOUS
<1> USE DEF Resync
<1>1. TypeOK'
  BY DEF IndInv, TypeOK, backing, handlers, bounds, Workers
<1>2. UidInv' /\ SeenInv' /\ OwnedInv'
  BY DEF IndInv, UidInv, SeenInv, OwnedInv, LiveCopy, Live, backing, bounds
<1>3. CopyInv' /\ HandlerInv'
  BY DEF IndInv, CopyInv, HandlerInv, LiveCopy, Live, Busy, backing, handlers
<1> QED BY <1>1, <1>2, <1>3 DEF IndInv

\* After a restart no handler runs and the caches are exact.
LEMMA CrashInv == IndInv /\ Crash => IndInv'
<1> SUFFICES ASSUME IndInv, Crash PROVE IndInv'
  OBVIOUS
<1> USE DEF Crash
<1>1. TypeOK'
  <2>1. budget' \in 0..MaxDisturbances
    BY BoundsAssumption DEF IndInv, TypeOK, Disturb
  <2>2. biFresh' \in BOOLEAN /\ sc' \in BOOLEAN
    BY DEF IndInv, TypeOK
  <2> QED BY <2>1, <2>2, NoneTypes DEF IndInv, TypeOK, Workers
<1>2. UidInv' /\ SeenInv' /\ OwnedInv'
  BY FieldTypes DEF IndInv, TypeOK, UidInv, SeenInv, OwnedInv, LiveCopy, Live
<1>3. CopyInv' /\ HandlerInv'
  BY DEF IndInv, CopyInv, HandlerInv, Busy, Workers
<1> QED BY <1>1, <1>2, <1>3 DEF IndInv

\* Longhorn never brings a BackingImage to life.
LEMMA BackingChangeInv ==
  ASSUME IndInv, NEW b \in BackingImage, BackingChange(b), budget' \in 0..MaxDisturbances,
         b.phase = "live" => bi.phase = "live"
  PROVE  IndInv'
<1> USE DEF BackingChange
<1>1. TypeOK'
  BY DEF IndInv, TypeOK, handlers
<1>2. UidInv' /\ SeenInv' /\ OwnedInv'
  BY DEF IndInv, UidInv, SeenInv, OwnedInv, LiveCopy, Live
<1>3. CopyInv' /\ HandlerInv'
  BY DEF IndInv, CopyInv, HandlerInv, LiveCopy, Live, Busy, handlers
<1> QED BY <1>1, <1>2, <1>3 DEF IndInv

\* The steps of Longhorn.
LEMMA LonghornInv ==
  ASSUME IndInv,
         \/ BackingProceeds \/ BackingFails \/ BackingRetried
         \/ BackingCopied \/ BackingCleaned \/ BackingGone
  PROVE  IndInv'
<1>1. bi \in BackingImage /\ budget \in 0..MaxDisturbances
  BY DEF IndInv, TypeOK
<1>2. budget' \in 0..MaxDisturbances
  BY <1>1, BoundsAssumption
  DEF BackingProceeds, BackingFails, BackingRetried, BackingCopied, BackingCleaned,
      BackingGone, Disturb
<1>3. ASSUME NEW t \in {"unseen", "running", "ready", "failed", "copied"},
             BackingChange([bi EXCEPT !.state = t])
      PROVE  IndInv'
  BY <1>1, <1>2, <1>3, BackingTypes, BackingChangeInv
<1>4. CASE BackingChange(NoBacking)
  <2>1. NoBacking \in BackingImage /\ NoBacking.phase # "live"
    BY NoneTypes DEF NoBacking
  <2> QED BY <1>2, <1>4, <2>1, BackingChangeInv
<1> QED
  BY <1>3, <1>4
  DEF BackingProceeds, BackingFails, BackingRetried, BackingCopied, BackingCleaned, BackingGone

----------------------------------------------------------------------------
(* Users                                                                   *)

\* An image as a user creates it has its uid and neither mark nor finalizer.
NewObject(u, n) == n \in Image /\ n.uid = u /\ ~n.finalizer /\ ~n.deleting
LEMMA NewImageTypes ==
  ASSUME NEW u \in 0..MaxIncarnations, NEW src \in Sources, NEW x \in URLs \cup {""}
  PROVE  NewObject(u, NewImage(u, src, x))
  BY DEF NewObject, NewImage, NoImage, Image

\* The uid of a new image is new.
LEMMA NextUid ==
  ASSUME IndInv, inc < MaxIncarnations
  PROVE  /\ inc + 1 \in 1..MaxIncarnations /\ inc + 1 \in 0..MaxIncarnations
         /\ cache.uid < inc + 1 /\ inc + 1 # 0
<1>1. inc \in 0..MaxIncarnations /\ cache \in Image /\ cache.uid <= inc
  BY DEF IndInv, TypeOK, UidInv
<1>2. cache.uid \in 0..MaxIncarnations
  BY <1>1 DEF Image
<1> QED BY <1>1, <1>2, BoundsAssumption

\* A disturbance is taken from the budget.
LEMMA BudgetType ==
  ASSUME TypeOK, Disturb \/ UNCHANGED budget
  PROVE  budget' \in 0..MaxDisturbances
<1>1. budget \in 0..MaxDisturbances
  BY DEF TypeOK
<1> QED BY <1>1, BoundsAssumption DEF Disturb

\* A new image has no finalizer and the cache does not know it.
LEMMA CreateImageInv ==
  ASSUME IndInv, NEW src, NEW x, CreateImage(src, x),
         NewObject(inc + 1, NewImage(inc + 1, src, x))
  PROVE  IndInv'
<1> DEFINE n == NewImage(inc + 1, src, x)
<1>1. inc' = inc + 1 /\ inc' \in 1..MaxIncarnations /\ cache.uid < inc'
  BY NextUid DEF CreateImage
<1>2. n \in Image /\ n.uid = inc' /\ ~n.finalizer /\ ~n.deleting
  BY <1>1 DEF NewObject
<1>3. img' = n /\ current' = {} /\ UNCHANGED <<cache, backing, queue, handlers>>
  BY DEF CreateImage, UserChange
<1>4. budget' \in 0..MaxDisturbances
  BY BudgetType DEF CreateImage, IndInv
<1>5. cache.uid \in 0..MaxIncarnations
  BY DEF IndInv, TypeOK, Image
<1>6. img = NoImage /\ NoImage.uid = 0 /\ ~NoImage.finalizer
  BY DEF CreateImage, IndInv, UidInv, NoImage
<1> HIDE DEF n
<1>7. TypeOK'
  BY <1>1, <1>2, <1>3, <1>4 DEF IndInv, TypeOK, backing, handlers
<1>8. UidInv' /\ SeenInv'
  BY <1>1, <1>2, <1>3, <1>5, <1>6 DEF IndInv, UidInv, SeenInv, LiveCopy, Live
<1>9. CopyInv' /\ OwnedInv'
  BY <1>3, <1>6 DEF IndInv, CopyInv, OwnedInv, backing
<1>10. HandlerInv'
  BY <1>2, <1>3, <1>6 DEF IndInv, HandlerInv, LiveCopy, Live, backing, handlers
<1> QED BY <1>7, <1>8, <1>9, <1>10 DEF IndInv

\* A change of the URL leaves mark and finalizer alone.
LEMMA ChangeURLInv == ASSUME IndInv, NEW x \in URLs, ChangeURL(x) PROVE IndInv'
<1> DEFINE n == [img EXCEPT !.url = x]
<1>1. n \in Image /\ n.uid = img.uid /\ n.deleting = img.deleting /\ n.finalizer = img.finalizer
  BY DEF IndInv, TypeOK, Image
<1>2. /\ img' = n /\ img.uid # 0 /\ current' = {}
      /\ UNCHANGED <<cache, backing, queue, handlers, inc>>
  BY DEF ChangeURL, UserChange
<1>3. budget' \in 0..MaxDisturbances
  BY BoundsAssumption DEF ChangeURL, IndInv, TypeOK, Disturb
<1> HIDE DEF n
<1>4. TypeOK'
  BY <1>1, <1>2, <1>3 DEF IndInv, TypeOK, backing, handlers
<1>5. UidInv' /\ SeenInv' /\ OwnedInv'
  BY <1>1, <1>2 DEF IndInv, UidInv, SeenInv, OwnedInv, LiveCopy, Live, backing
<1>6. CopyInv' /\ HandlerInv'
  BY <1>1, <1>2 DEF IndInv, CopyInv, HandlerInv, LiveCopy, Live, backing, handlers
<1> QED BY <1>4, <1>5, <1>6 DEF IndInv

\* An image without the finalizer goes at once, and owned nothing; one with it is
\* marked and stays.
LEMMA DeleteImageInv == IndInv /\ DeleteImage => IndInv'
<1> SUFFICES ASSUME IndInv, DeleteImage PROVE IndInv'
  OBVIOUS
<1> DEFINE n == [img EXCEPT !.deleting = TRUE]
<1>1. /\ n \in Image /\ n.uid = img.uid /\ n.deleting = TRUE /\ n.finalizer = img.finalizer
      /\ img.finalizer \in BOOLEAN
  BY DEF IndInv, TypeOK, Image
<1>2. /\ img' = Kept(n) /\ img.uid # 0 /\ current' = {}
      /\ UNCHANGED <<cache, backing, queue, handlers, inc, budget>>
  BY DEF DeleteImage, UserChange, bounds
<1> HIDE DEF n
<1>3. NoImage.uid = 0 /\ ~NoImage.finalizer /\ ~NoImage.deleting
  BY DEF NoImage
<1>4. CASE img.finalizer
  <2>1. img' = n
    BY <1>1, <1>2, <1>4 DEF Kept
  <2>2. TypeOK'
    BY <1>1, <1>2, <2>1 DEF IndInv, TypeOK, backing, handlers
  <2>3. UidInv' /\ SeenInv' /\ OwnedInv'
    BY <1>1, <1>2, <1>4, <2>1 DEF IndInv, UidInv, SeenInv, OwnedInv, LiveCopy, Live, backing
  <2>4. CopyInv' /\ HandlerInv'
    BY <1>1, <1>2, <1>4, <2>1
    DEF IndInv, CopyInv, HandlerInv, LiveCopy, Live, backing, handlers
  <2> QED BY <2>2, <2>3, <2>4 DEF IndInv
<1>5. CASE ~img.finalizer
  <2>1. img' = NoImage
    BY <1>1, <1>2, <1>5 DEF Kept
  <2>2. TypeOK'
    BY <1>2, <2>1, NoneTypes DEF IndInv, TypeOK, backing, handlers
  <2>3. cache.uid = 0 => ~cache.deleting
    BY <1>3 DEF IndInv, UidInv
  <2>4. ~Live(cache)
    BY <1>5 DEF IndInv, SeenInv, LiveCopy
  <2>5. UidInv' /\ SeenInv' /\ OwnedInv'
    BY <1>2, <1>3, <1>5, <2>1, <2>3, <2>4
    DEF IndInv, TypeOK, UidInv, SeenInv, OwnedInv, LiveCopy, Live, backing
  <2>6. CopyInv' /\ HandlerInv'
    BY <1>2, <1>3, <1>5, <2>1, <2>4
    DEF IndInv, CopyInv, HandlerInv, LiveCopy, Live, backing, handlers
  <2> QED BY <2>2, <2>5, <2>6 DEF IndInv
<1> QED BY <1>1, <1>4, <1>5

----------------------------------------------------------------------------
(* The theorems                                                            *)

\* No step leaves the invariant.
LEMMA NextInv == IndInv /\ [Next]_vars => IndInv'
<1> SUFFICES ASSUME IndInv, [Next]_vars PROVE IndInv'
  OBVIOUS
<1>1. CASE ImageWorker
  BY <1>1, ReconcileInv, deleteBackingImageInv, deleteStorageClassInv, addFinalizerInv,
     createBackingImageInv, createStorageClassInv, UpdateImageInv, removeStorageClassInv,
     removeBackingImageInv, removeFinalizerInv DEF ImageWorker
<1>2. CASE BackingWorker
  BY <1>2, ReconcileBackingInv, GetImageInv, UpdateImportedInv DEF BackingWorker
<1>3. CASE \E w \in Workers : CallFails(w)
  BY <1>3, CallFailsInv
<1>4. CASE ImageWatch \/ BackingWatch \/ Resync \/ Crash
  BY <1>4, ImageWatchInv, BackingWatchInv, ResyncInv, CrashInv
<1>5. CASE BackingProceeds \/ BackingFails \/ BackingRetried \/ BackingCopied \/ BackingCleaned
        \/ BackingGone
  BY <1>5, LonghornInv
<1>6. CASE \E s \in Sources, x \in URLs \cup {""} : CreateImage(s, x)
  <2>1. PICK src \in Sources, x \in URLs \cup {""} : CreateImage(src, x)
    BY <1>6
  <2>2. inc < MaxIncarnations
    BY <2>1, Zenon DEF CreateImage
  <2>3. inc + 1 \in 0..MaxIncarnations
    BY <2>2, NextUid, Zenon
  <2> QED BY <2>1, <2>3, NewImageTypes, CreateImageInv
<1>7. CASE \E x \in URLs : ChangeURL(x)
  BY <1>7, ChangeURLInv
<1>8. CASE DeleteImage
  BY <1>8, DeleteImageInv
<1>9. CASE UNCHANGED vars
  <2> USE <1>9 DEF vars, backing, handlers, bounds
  <2>1. TypeOK'
    BY DEF IndInv, TypeOK
  <2>2. UidInv' /\ SeenInv' /\ OwnedInv'
    BY DEF IndInv, UidInv, SeenInv, OwnedInv, LiveCopy, Live
  <2>3. CopyInv' /\ HandlerInv'
    BY DEF IndInv, CopyInv, HandlerInv, LiveCopy, Live, Busy
  <2> QED BY <2>1, <2>2, <2>3 DEF IndInv
<1> QED BY <1>1, <1>2, <1>3, <1>4, <1>5, <1>6, <1>7, <1>8, <1>9 DEF Next

\* The inductive invariant of the image controllers holds in every reachable state.
THEOREM Invariance == Spec => []IndInv
  BY InitInv, NextInv, PTL DEF Spec

\* Every variable keeps its type, for any URLs, sources and bounds.
THEOREM TypeCorrect == Spec => []TypeOK
<1>1. IndInv => TypeOK
  BY DEF IndInv
<1> QED BY <1>1, Invariance, PTL

\* onRemove and initialize, run from copies that may be old: whenever an image is
\* gone, so is what was created for it.
THEOREM NothingLeft == Spec => []NothingLeftBehind
<1>1. IndInv => NothingLeftBehind
  <2> SUFFICES ASSUME IndInv, img.uid = 0 PROVE bi.phase # "live" /\ ~sc
    BY DEF NothingLeftBehind
  <2> QED BY DEF IndInv, SeenInv, OwnedInv
<1> QED BY <1>1, Invariance, PTL
----------------------------------------------------------------------------
(* The outcome of an import                                                *)

\* An image that was not initialised has no outcome.  initialize works for an image
\* whose URL is still to be tried, the BackingImage worker for one whose import has
\* no outcome yet, whatever has happened to the stored image meanwhile.
Untried(o) == o.initialized = "" => o.imported = ""
Open(o) == o.initialized = "" \/ o.url # o.applied
Pending(o) == o.initialized = "True" /\ o.imported = "Unknown"
Initializing == {"deleteBackingImage", "deleteStorageClass", "addFinalizer",
                 "createBackingImage", "createStorageClass", "update"}
IntentInv ==
  /\ pc["image"] \in Initializing => Open(loc["image"])
  /\ pc["backing"] = "update" => Pending(loc["backing"])
OutcomeInv == Untried(img) /\ IntentInv

\* What a step may make of an image o: another one or none, one with the same
\* outcome, or one with another outcome where there was none or the URL is another.
OutcomeStep(o, n) ==
  \/ n.uid # o.uid /\ Untried(n)
  \/ n.initialized = o.initialized /\ n.imported = o.imported
  \/ n.initialized # "" /\ (o.imported \notin {"True", "False"} \/ n.applied # o.applied)

\* What initialize and the BackingImage worker compute is such a step.
LEMMA ComputedOutcome ==
  ASSUME NEW o \in Image, NEW b \in BackingImage
  PROVE  /\ Open(o) /\ Untried(o) => \A n \in Initialized(o) : OutcomeStep(o, n)
         /\ Pending(o) => OutcomeStep(o, Reported(o, b))
<1>1. ASSUME Open(o), Untried(o) PROVE OutcomeStep(o, Unreachable(o))
  BY <1>1 DEF Open, Untried, OutcomeStep, Unreachable, Image
<1>2. ASSUME Open(o), Untried(o) PROVE OutcomeStep(o, Importing(o))
  BY <1>2 DEF Open, Untried, OutcomeStep, Importing, Image
<1>3. ASSUME Pending(o) PROVE OutcomeStep(o, Reported(o, b))
  BY <1>3 DEF Pending, OutcomeStep, Reported, Image
<1> QED BY <1>1, <1>2, <1>3 DEF Initialized

\* Mark, finalizer and URL have nothing to do with the outcome; an image that goes
\* takes its outcome along.
LEMMA OtherFields ==
  ASSUME NEW o \in Image, o.uid # 0, NEW b \in BOOLEAN
  PROVE  /\ \A x \in URLs : OutcomeStep(o, [o EXCEPT !.url = x])
         /\ OutcomeStep(o, Kept([o EXCEPT !.finalizer = b]))
         /\ OutcomeStep(o, Kept([o EXCEPT !.deleting = b]))
         /\ Open(o) => Open([o EXCEPT !.finalizer = b])
<1>1. OutcomeStep(o, NoImage)
  BY DEF OutcomeStep, NoImage, Untried
<1>2. \A x \in URLs : OutcomeStep(o, [o EXCEPT !.url = x])
  BY DEF OutcomeStep, Image
<1>3. OutcomeStep(o, [o EXCEPT !.finalizer = b]) /\ OutcomeStep(o, [o EXCEPT !.deleting = b])
  BY DEF OutcomeStep, Image
<1>4. Open(o) => Open([o EXCEPT !.finalizer = b])
  BY DEF Open, Image
<1> QED BY <1>1, <1>2, <1>3, <1>4 DEF Kept

\* A worker stores only over the version it has read, so that what held of its copy
\* holds of the stored image.
LEMMA UpdateOutcome ==
  ASSUME IndInv, OutcomeInv, UpdateImage \/ UpdateImported \/ addFinalizer \/ removeFinalizer
  PROVE  OutcomeStep(img, img')
<1>1. img \in Image /\ biLoc \in BackingImage
  BY DEF IndInv, TypeOK
<1>2. CASE img' = img
  BY <1>2 DEF OutcomeStep
<1>3. ASSUME NEW n \in Initialized(loc["image"]), Stored("image", n), pc["image"] = "update"
      PROVE  OutcomeStep(img, img')
  <2>1. loc["image"] = img /\ Live(img) /\ Open(img) /\ Untried(img)
    BY <1>3
    DEF IndInv, CopyInv, HandlerInv, OutcomeInv, IntentInv, Initializing, Stored, Busy, Workers
  <2>2. SameObject(img, n) /\ OutcomeStep(img, n)
    BY <1>1, <1>3, <2>1, ComputedTypes, ComputedOutcome
  <2>3. img' = n
    BY <1>3, <2>1, <2>2 DEF Stored, Kept, SameObject, Live
  <2> QED BY <2>2, <2>3
<1>4. ASSUME Stored("backing", Reported(loc["backing"], biLoc)), pc["backing"] = "update"
      PROVE  OutcomeStep(img, img')
  <2> DEFINE n == Reported(img, biLoc)
  <2>1. loc["backing"] = img /\ Pending(img)
    BY <1>4 DEF IndInv, CopyInv, OutcomeInv, IntentInv, Stored, Busy, Workers
  <2>2. SameObject(img, n) /\ OutcomeStep(img, n)
    BY <1>1, <2>1, ComputedTypes, ComputedOutcome
  <2>3. img' = Kept(n)
    BY <1>4, <2>1 DEF Stored
  <2> HIDE DEF n
  <2>4. ~(n.deleting /\ ~n.finalizer)
    BY <1>1, <2>2, FieldTypes DEF IndInv, SeenInv, SameObject
  <2> QED BY <2>2, <2>3, <2>4 DEF Kept
<1>5. ASSUME NEW b \in BOOLEAN, Stored("image", [loc["image"] EXCEPT !.finalizer = b]),
             pc["image"] \in {"addFinalizer", "removeFinalizer"}
      PROVE  OutcomeStep(img, img')
  <2>1. loc["image"] = img
    BY <1>5 DEF IndInv, CopyInv, Stored, Busy, Workers
  <2>2. img.uid # 0
    <3>1. ~NoImage.deleting /\ NoImage.uid = 0
      BY DEF NoImage
    <3> QED BY <1>5, <2>1, <3>1 DEF IndInv, UidInv, HandlerInv
  <2>3. img' = Kept([img EXCEPT !.finalizer = b])
    BY <1>5, <2>1 DEF Stored
  <2> QED BY <1>1, <2>2, <2>3, OtherFields
<1> QED BY <1>2, <1>3, <1>4, <1>5
        DEF UpdateImage, UpdateImported, addFinalizer, removeFinalizer, Refused

\* Users take an outcome away only with the URL or with the image.
LEMMA UserOutcome ==
  ASSUME IndInv,
         \/ \E s \in Sources, x \in URLs \cup {""} : CreateImage(s, x)
         \/ \E x \in URLs : ChangeURL(x)
         \/ DeleteImage
  PROVE  OutcomeStep(img, img')
<1>1. img \in Image
  BY DEF IndInv, TypeOK
<1>2. ASSUME NEW src \in Sources, NEW x \in URLs \cup {""}, CreateImage(src, x)
      PROVE  OutcomeStep(img, img')
  <2>1. img.uid = 0 /\ inc < MaxIncarnations /\ img' = NewImage(inc + 1, src, x)
    BY <1>2 DEF CreateImage, UserChange
  <2>2. img'.uid = inc + 1 /\ Untried(img')
    BY <2>1 DEF NewImage, NoImage, Untried
  <2>3. inc + 1 # 0
    BY <2>1, NextUid, Zenon
  <2> QED BY <2>1, <2>2, <2>3 DEF OutcomeStep
<1>3. ASSUME NEW x \in URLs, ChangeURL(x) PROVE OutcomeStep(img, img')
  BY <1>1, <1>3, OtherFields DEF ChangeURL, UserChange
<1>4. ASSUME DeleteImage PROVE OutcomeStep(img, img')
  BY <1>1, <1>4, OtherFields DEF DeleteImage, UserChange
<1> QED BY <1>2, <1>3, <1>4

\* Every step of the system treats the outcome of an import with respect.
LEMMA OutcomeKept ==
  ASSUME IndInv, OutcomeInv, [Next]_vars
  PROVE  OutcomeStep(img, img')
<1>1. CASE UNCHANGED img
  BY <1>1 DEF OutcomeStep
<1>2. CASE UpdateImage \/ UpdateImported \/ addFinalizer \/ removeFinalizer
  BY <1>2, UpdateOutcome
<1>3. CASE \/ Reconcile \/ deleteBackingImage \/ deleteStorageClass \/ createBackingImage
           \/ createStorageClass \/ removeStorageClass \/ removeBackingImage
  BY <1>1, <1>3
  DEF Reconcile, deleteBackingImage, deleteStorageClass, createBackingImage,
      createStorageClass, removeStorageClass, removeBackingImage, ImageStep
<1>4. CASE ReconcileBacking \/ GetImage \/ \E w \in Workers : CallFails(w)
  BY <1>1, <1>4 DEF ReconcileBacking, GetImage, CallFails
<1>5. CASE ImageWatch \/ BackingWatch \/ Resync \/ Crash
  BY <1>1, <1>5 DEF ImageWatch, BackingWatch, Resync, Crash
<1>6. CASE BackingProceeds \/ BackingFails \/ BackingRetried \/ BackingCopied \/ BackingCleaned
        \/ BackingGone
  BY <1>1, <1>6
  DEF BackingProceeds, BackingFails, BackingRetried, BackingCopied, BackingCleaned,
      BackingGone, BackingChange
<1>7. CASE \/ \E s \in Sources, x \in URLs \cup {""} : CreateImage(s, x)
           \/ \E x \in URLs : ChangeURL(x)
           \/ DeleteImage
  BY <1>7, UserOutcome
<1>8. CASE UNCHANGED vars
  BY <1>1, <1>8 DEF vars
<1> QED BY <1>2, <1>3, <1>4, <1>5, <1>6, <1>7, <1>8 DEF Next, ImageWorker, BackingWorker

\* A handler begins for the reason that IntentInv says, and keeps it in its copy
\* until it ends.
LEMMA IntentKept ==
  ASSUME IndInv, OutcomeInv, [Next]_vars
  PROVE  IntentInv'
<1> USE DEF OutcomeInv, IntentInv
<1>1. pc \in [Workers -> Places] /\ loc \in [Workers -> Image]
  BY DEF IndInv, TypeOK, Places
<1>2. CASE UNCHANGED <<pc, loc>>
  BY <1>2 DEF Initializing
<1>3. ASSUME NEW w \in Workers, NEW again, Return(w, again) PROVE IntentInv'
  BY <1>1, <1>3 DEF Return, Goto, Initializing, Workers
<1>4. CASE Reconcile
  <2>1. /\ pc' = [pc EXCEPT !["image"] = Route(cache)]
        /\ Route(cache) \in Initializing => loc' = [loc EXCEPT !["image"] = cache] /\ Open(cache)
        /\ loc'["backing"] = loc["backing"]
    BY <1>1, <1>4 DEF Reconcile, Goto, ReadBy, Route, Initialize, Initializing, Open, Workers
  <2> QED BY <1>1, <2>1 DEF Workers, Initializing
<1>5. CASE \/ deleteBackingImage \/ deleteStorageClass \/ createBackingImage
           \/ createStorageClass \/ removeStorageClass \/ removeBackingImage
  BY <1>1, <1>5
  DEF deleteBackingImage, deleteStorageClass, createBackingImage, createStorageClass,
      removeStorageClass, removeBackingImage, ImageStep, Goto, Initialize, Initializing, Workers
<1>6. CASE addFinalizer
  <2>1. CASE Refused("image")
    BY <1>3, <2>1 DEF Refused, Workers
  <2>2. CASE /\ loc' = [loc EXCEPT !["image"] = [loc["image"] EXCEPT !.finalizer = TRUE]]
             /\ Goto("image", "createBackingImage")
    <3>1. loc["image"] \in Image /\ loc["image"].uid # 0 /\ Open(loc["image"])
      BY <1>1, <1>6 DEF addFinalizer, IndInv, HandlerInv, Initializing, Workers
    <3>2. Open([loc["image"] EXCEPT !.finalizer = TRUE])
      BY <3>1, OtherFields
    <3> QED BY <1>1, <2>2, <3>2 DEF Goto, Workers
  <2> QED BY <1>6, <2>1, <2>2 DEF addFinalizer
<1>7. CASE UpdateImage \/ UpdateImported \/ removeFinalizer
  BY <1>3, <1>7 DEF UpdateImage, UpdateImported, removeFinalizer, Refused, Workers
<1>8. CASE ReconcileBacking
  BY <1>1, <1>8 DEF ReconcileBacking, Goto, Initializing, Workers
<1>9. CASE GetImage
  <2>1. CASE Return("backing", FALSE)
    BY <1>3, <2>1 DEF Workers
  <2>2. CASE AwaitsImport(cache) /\ ReadBy("backing") /\ Goto("backing", "update")
    BY <1>1, <2>2 DEF AwaitsImport, ReadBy, Goto, Pending, Initializing, Workers
  <2> QED BY <1>9, <2>1, <2>2 DEF GetImage
<1>10. CASE \E w \in Workers : CallFails(w)
  BY <1>3, <1>10 DEF CallFails
<1>11. CASE ImageWatch \/ BackingWatch \/ Resync
  BY <1>2, <1>11 DEF ImageWatch, BackingWatch, Resync, handlers
<1>12. CASE Crash
  BY <1>12 DEF Crash, Initializing, Workers
<1>13. CASE BackingProceeds \/ BackingFails \/ BackingRetried \/ BackingCopied \/ BackingCleaned
         \/ BackingGone
  BY <1>2, <1>13
  DEF BackingProceeds, BackingFails, BackingRetried, BackingCopied, BackingCleaned,
      BackingGone, BackingChange, handlers
<1>14. CASE \/ \E s \in Sources, x \in URLs \cup {""} : CreateImage(s, x)
            \/ \E x \in URLs : ChangeURL(x)
            \/ DeleteImage
  BY <1>2, <1>14 DEF CreateImage, ChangeURL, DeleteImage, UserChange, handlers
<1>15. CASE UNCHANGED vars
  BY <1>2, <1>15 DEF vars, handlers
<1> QED BY <1>4, <1>5, <1>6, <1>7, <1>8, <1>9, <1>10, <1>11, <1>12, <1>13, <1>14, <1>15
        DEF Next, ImageWorker, BackingWorker

\* An image that was not initialised never has an outcome, and no handler acts on
\* an image for which it has nothing to do.
THEOREM OutcomeInvariance == Spec => []OutcomeInv
<1>1. ASSUME Init PROVE OutcomeInv
  <2>1. Untried(img)
    BY <1>1 DEF Init, Untried, NoImage
  <2>2. pc["image"] = "idle" /\ pc["backing"] = "idle"
    BY <1>1 DEF Init, Workers
  <2> QED BY <2>1, <2>2 DEF OutcomeInv, IntentInv, Initializing
<1>2. ASSUME IndInv, OutcomeInv, [Next]_vars PROVE OutcomeInv'
  <2>1. OutcomeStep(img, img') /\ IntentInv'
    BY <1>2, OutcomeKept, IntentKept
  <2> QED BY <1>2, <2>1 DEF OutcomeInv, OutcomeStep, Untried
<1> QED BY <1>1, <1>2, Invariance, PTL DEF Spec

\* Neither a late report of the BackingImage controller nor initialize run from an
\* old copy takes back the outcome of an import while the applied URL is the same.
THEOREM OutcomeFinal == Spec => OutcomeIsFinal
<1>1. ASSUME IndInv, OutcomeInv, [Next]_vars
      PROVE  [img.uid = img'.uid /\ img.applied = img'.applied /\ img.imported \in {"True", "False"}
                => img'.imported = img.imported]_vars
  <2>1. OutcomeStep(img, img')
    BY <1>1, OutcomeKept
  <2> QED BY <2>1 DEF OutcomeStep
<1> QED BY <1>1, Invariance, OutcomeInvariance, PTL DEF Spec, OutcomeIsFinal

----------------------------------------------------------------------------
(* No wake-up is lost                                                      *)

\* The image worker comes to rest only when the cache it decided on was right and
\* left it nothing to do; what changes the image makes the cache stale, and the
\* event that brings the cache up to date calls the handler.
AwakeInv == pc["image"] = "idle" /\ "image" \notin queue /\ "cache" \in current => Route(img) = "idle"

\* A handler whose Update is refused is called again; one whose Update is stored
\* has made the cache stale.
LEMMA WriterAwake ==
  ASSUME NEW w \in Workers, NEW new, Refused(w) \/ Stored(w, new), IndInv, AwakeInv
  PROVE  w = "image" \/ UNCHANGED <<pc["image"]>> => AwakeInv'
<1>1. CASE Stored(w, new)
  BY <1>1 DEF Stored, AwakeInv, Workers
<1>2. CASE Refused(w)
  <2>1. UNCHANGED <<img, current>> /\ queue' = queue \cup {w}
    BY <1>2 DEF Refused, Return
  <2> QED BY <2>1 DEF AwakeInv, Workers
<1> QED BY <1>1, <1>2

\* Every step keeps the worker awake.
LEMMA NextAwake == ASSUME IndInv, AwakeInv, [Next]_vars PROVE AwakeInv'
<1>1. pc \in [Workers -> Places] /\ queue \subseteq Workers
  BY DEF IndInv, TypeOK, Places
<1>2. CASE Reconcile
  <2>1. UNCHANGED img /\ pc'["image"] = Route(cache)
    BY <1>1, <1>2 DEF Reconcile, Goto, Workers
  <2>2. Route(cache) = "idle" /\ "cache" \in current' => Route(img) = "idle"
    BY <1>2 DEF Reconcile, IndInv, CopyInv
  <2> QED BY <2>1, <2>2 DEF AwakeInv, Route
<1>3. CASE \/ deleteBackingImage \/ deleteStorageClass \/ createBackingImage \/ createStorageClass
           \/ removeStorageClass \/ removeBackingImage
  BY <1>1, <1>3 DEF deleteBackingImage, deleteStorageClass, createBackingImage, createStorageClass,
     removeStorageClass, removeBackingImage, ImageStep, Goto, Initialize, AwakeInv, Workers
<1>4. CASE addFinalizer \/ UpdateImage \/ removeFinalizer
  BY <1>4, WriterAwake DEF addFinalizer, UpdateImage, removeFinalizer, Workers
<1>5. CASE UpdateImported
  <2>1. UNCHANGED <<pc["image"]>>
    BY <1>1, <1>5 DEF UpdateImported, Refused, Return, Goto, Workers
  <2> QED BY <1>5, <2>1, WriterAwake DEF UpdateImported, Workers
<1>6. CASE ReconcileBacking \/ GetImage
  <2>1. UNCHANGED <<img, pc["image"]>> /\ ("image" \in queue => "image" \in queue')
        /\ ("cache" \in current' => "cache" \in current)
    BY <1>1, <1>6 DEF ReconcileBacking, GetImage, ReadBy, Return, Goto, Workers
  <2> QED BY <2>1 DEF AwakeInv, Route
<1>7. CASE \E w \in Workers : CallFails(w)
  <2> PICK w \in Workers : CallFails(w)
    BY <1>7
  <2>1. /\ UNCHANGED img /\ queue' = queue \cup {w} /\ current' = current \ {w}
        /\ pc' = [pc EXCEPT ![w] = "idle"]
    BY DEF CallFails, Return, Goto
  <2> QED BY <1>1, <2>1 DEF AwakeInv, Route, Workers
<1>8. CASE ImageWatch \/ Resync \/ Crash
  BY <1>8 DEF ImageWatch, Resync, Crash, AwakeInv, Workers
<1>9. CASE BackingWatch
  BY <1>9 DEF BackingWatch, handlers, AwakeInv, Route
<1>10. CASE BackingProceeds \/ BackingFails \/ BackingRetried \/ BackingCopied \/ BackingCleaned
         \/ BackingGone
  BY <1>10 DEF BackingProceeds, BackingFails, BackingRetried, BackingCopied, BackingCleaned,
     BackingGone, BackingChange, handlers, AwakeInv, Route
<1>11. CASE \/ \E s \in Sources, x \in URLs \cup {""} : CreateImage(s, x)
            \/ \E x \in URLs : ChangeURL(x)
            \/ DeleteImage
  BY <1>11 DEF CreateImage, ChangeURL, DeleteImage, UserChange, AwakeInv
<1>12. CASE UNCHANGED vars
  BY <1>12 DEF vars, handlers, AwakeInv, Route
<1> QED BY <1>2, <1>3, <1>4, <1>5, <1>6, <1>7, <1>8, <1>9, <1>10, <1>11, <1>12
        DEF Next, ImageWorker, BackingWorker

\* When nothing is going on, no image is left half deleted, not initialised or with
\* a URL that onChange has not tried.
THEOREM NothingUndone == Spec => []NothingLeftUndone
<1>1. ASSUME Init PROVE AwakeInv
  BY <1>1 DEF Init, AwakeInv, Route, NoImage
<1>2. ASSUME IndInv, AwakeInv PROVE NothingLeftUndone
  <2> SUFFICES ASSUME Quiet, img.uid # 0
               PROVE  ~img.deleting /\ img.initialized # "" /\ img.applied = img.url
    BY DEF NothingLeftUndone
  <2>1. Route(img) = "idle"
    BY <1>2 DEF AwakeInv, Quiet, Workers
  <2>2. img.deleting \in BOOLEAN /\ img \in Image
    BY <1>2 DEF IndInv, TypeOK, Image
  <2> QED BY <2>1, <2>2 DEF Route, Initialize
<1> QED BY <1>1, <1>2, NextAwake, Invariance, PTL DEF Spec
=============================================================================
