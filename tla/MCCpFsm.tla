------------------------------ MODULE MCCpFsm ------------------------------
(* Instances of CpFsm for TLC: a query that may be broadcast and a keyset that
   changes the key.  A configuration picks the commands it needs.            *)
EXTENDS CpFsm

CONSTANTS query, keyset, oldKey, newKey

MCKind == [c \in Cmds |-> IF c = keyset THEN "KEYSET" ELSE "QUERY"]
MCKeyOf == [c \in Cmds |-> IF c = keyset THEN newKey ELSE oldKey]
=============================================================================
