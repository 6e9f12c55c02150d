--------------------------- MODULE MCSecureChannel ---------------------------
(* Instances of SecureChannel for TLC; the configurations give the constants. *)
EXTENDS SecureChannel
=============================================================================
