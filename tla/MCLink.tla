------------------------------- MODULE MCLink -------------------------------
(* Instances of Link for TLC; the configurations give the constants. *)
EXTENDS Link
=============================================================================
