---------------------------- MODULE MCVMRestore ----------------------------
(***************************************************************************)
(* Instances of VMRestore for TLC.  One disk and one disturbance; a VM of  *)
(* strategy Manual is started by a call that fails when it already runs.   *)
(***************************************************************************)
EXTENDS VMRestore

Asks(new, keep, away, k) == [newVM |-> new, retain |-> keep, foreign |-> away, kind |-> k]

\* Over the VM itself, with and without a snapshot in its place; as a new VM elsewhere.
FromSnapshot == {Asks(FALSE, FALSE, FALSE, "snapshot")}
InPlace == {Asks(FALSE, FALSE, FALSE, "backup")}
Elsewhere == {Asks(TRUE, FALSE, TRUE, "backup")}

OneCall == {"call"}
Manual == {"Manual"}
Live == {"live"}
LiveOrGone == {"live", "gone"}

Nothing == {}
UsersAndCalls == {"start", "edit", "delete", "foreground", "failure"}
Faults == {"unready", "crash", "lose"}
=============================================================================
