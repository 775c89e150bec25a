----------------------------- MODULE Replacement -----------------------------
(***************************************************************************)
(* What restoring a VM from a backup promises: its volumes are replaced by *)
(* copies, and no original is removed before every copy is there and the   *)
(* VM uses them.  A restore that is withdrawn promises nothing any more.   *)
(***************************************************************************)
CONSTANT Volumes

VARIABLES
  keep,      \* whether the originals are to be kept
  copies,    \* volumes whose copy is complete
  switched,  \* whether the VM uses the copies
  removed,   \* volumes whose original is gone, or going
  done,      \* whether the restore says it is complete
  open       \* whether the restore is still wanted

vars == <<keep, copies, switched, removed, done, open>>

Init ==
  /\ keep \in BOOLEAN /\ removed \in SUBSET Volumes
  /\ copies = {} /\ switched = FALSE /\ done = FALSE /\ open = TRUE

Replaced == switched /\ copies = Volumes

Copy(v) ==
  /\ open /\ copies' = copies \cup {v}
  /\ UNCHANGED <<keep, switched, removed, done, open>>
Switch ==
  /\ open /\ ~switched /\ switched' = TRUE
  /\ UNCHANGED <<keep, copies, removed, done, open>>
Remove(v) ==
  /\ open /\ Replaced /\ ~keep /\ removed' = removed \cup {v}
  /\ UNCHANGED <<keep, copies, switched, done, open>>
Finish ==
  /\ open /\ Replaced /\ (keep \/ removed = Volumes) /\ done' = TRUE
  /\ UNCHANGED <<keep, copies, switched, removed, open>>
Withdraw ==
  /\ open /\ open' = FALSE /\ UNCHANGED <<keep, copies, switched, removed>>
Withdrawn == ~open /\ ~open'

Next ==
  \/ \E v \in Volumes : Copy(v) \/ Remove(v)
  \/ Switch \/ Finish \/ Withdraw \/ Withdrawn

Spec == Init /\ [][Next]_vars
=============================================================================
