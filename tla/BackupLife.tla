----------------------------- MODULE BackupLife -----------------------------
(***************************************************************************)
(* What a VirtualMachineBackup promises to those who rely on it, whatever  *)
(* goes on in the controllers: once ready it is ready until it is gone,    *)
(* and stays where it is kept; one that is being deleted is not completed; *)
(* what is gone does not come back under its identity; and the metadata    *)
(* file on a target appears for a ready backup that is kept there and goes *)
(* only with a backup that is being deleted.  A late handler of an earlier *)
(* backup of the same name may break the last promise, and only that one.  *)
(***************************************************************************)
EXTENDS Naturals

CONSTANTS
  Homes,    \* backup targets
  Nowhere,  \* what stands for no target
  Kept      \* whether the backup is to be kept on a target at all

VARIABLES
  uid,       \* the backup that there is now; 0: none
  last,      \* the last backup of this name
  ready,     \* whether it can be used
  home,      \* the target that it is kept on
  deleting,  \* whether it is being deleted
  files      \* targets that hold a metadata file of this name

vars == <<uid, last, ready, home, deleting, files>>

\* At first there is none, or one that an older release has taken.
Init ==
  /\ files \in SUBSET Homes /\ deleting = FALSE /\ home = Nowhere
  /\ \/ uid = 0 /\ last = 0 /\ ready = FALSE
     \/ uid = 1 /\ last = 1 /\ ready = TRUE

Create ==
  /\ uid = 0 /\ last' = last + 1 /\ uid' = last'
  /\ ready' = FALSE /\ deleting' = FALSE /\ home' \in Homes \cup {Nowhere}
  /\ UNCHANGED files

Unfinished == uid # 0 /\ ~ready /\ ~deleting
Prepare ==
  /\ Unfinished /\ home' \in Homes \cup {Nowhere}
  /\ UNCHANGED <<uid, last, ready, deleting, files>>
Complete ==
  /\ Unfinished /\ (Kept => home # Nowhere) /\ ready' = TRUE
  /\ UNCHANGED <<uid, last, home, deleting, files>>
\* A backup of an older release is given its place.
Settle ==
  /\ ready /\ home = Nowhere /\ home' \in Homes
  /\ UNCHANGED <<uid, last, ready, deleting, files>>

Delete ==
  /\ uid # 0 /\ deleting' = TRUE
  /\ UNCHANGED <<uid, last, ready, home, files>>
Vanish ==
  /\ uid # 0 /\ uid' = 0
  /\ ready' = FALSE /\ deleting' = FALSE /\ home' = Nowhere
  /\ UNCHANGED <<last, files>>

\* No other backup of this name has been there.
Sole == uid = 1 /\ last = 1
Publish(t) ==
  /\ last > 0 /\ (Sole => ready /\ home = t) /\ files' = files \cup {t}
  /\ UNCHANGED <<uid, last, ready, home, deleting>>
Withdraw(t) ==
  /\ last > 0 /\ (Sole => deleting) /\ files' = files \ {t}
  /\ UNCHANGED <<uid, last, ready, home, deleting>>

Next ==
  \/ Create \/ Prepare \/ Complete \/ Settle \/ Delete \/ Vanish
  \/ \E t \in Homes : Publish(t) \/ Withdraw(t)

Spec == Init /\ [][Next]_vars
=============================================================================
