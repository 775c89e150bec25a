----------------------------- MODULE MCVMImage -----------------------------
(***************************************************************************)
(* An instance of VMImage for TLC: two URLs, so that one can be changed    *)
(* for the other, and image sources with and without a URL.                *)
(***************************************************************************)
EXTENDS VMImage

CONSTANTS u1, u2

TwoURLs == {u1, u2}
WithAndWithoutURL == {"download", "upload"}
Download == {"download"}
=============================================================================
