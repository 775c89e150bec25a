--------------------------- MODULE MCVMOwnership ---------------------------
(* Instances of VMOwnership for TLC. *)
EXTENDS VMOwnership

CONSTANTS v1, v2, c1

TwoVMs   == {v1, v2}
OneClaim == {c1}
Moves    == {"attach", "detach"}
All      == {"attach", "detach", "remove", "deleteVM", "deleteClaim",
             "failure", "crash"}
=============================================================================
