-------------------------- MODULE MCFileTransfer --------------------------
(* Instances of FileTransfer for TLC. *)
EXTENDS FileTransfer, TLC

CONSTANTS f1, f2

\* Sizes that tell the two files apart, and sizes that do not.
DistinctTotals == f1 :> 3 @@ f2 :> 2
EqualTotals    == f1 :> 2 @@ f2 :> 2

===========================================================================
