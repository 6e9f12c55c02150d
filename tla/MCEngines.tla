----------------------------- MODULE MCEngines -----------------------------
(* Instances of Engines for TLC: challenges of two fragments with answers of
   two, templates of three and of two, and a file transfer.  A configuration
   picks the operations it needs.                                            *)
EXTENDS Engines

CONSTANTS auth, auth2, piv1, read, read2, tx

MCKind == [o \in Ops |-> IF o \in {auth, auth2} THEN "GENAUTH"
                         ELSE IF o = piv1 THEN "PIVDATA"
                         ELSE IF o = tx THEN "FILE" ELSE "BIOREAD"]
MCCmdFrags == [o \in Ops |-> IF o \in {auth, auth2} THEN 2 ELSE 1]
MCRepFrags == [o \in Ops |-> IF o \in {piv1, tx} THEN 1
                             ELSE IF o = read THEN 3 ELSE 2]
=============================================================================
