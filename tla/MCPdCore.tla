------------------------------ MODULE MCPdCore ------------------------------
(* Instances of PdCore for TLC: an event that only a poll can carry and one
   that may answer a manufacturer specific command.                          *)
EXTENDS PdCore

CONSTANTS card, answer

MCAnswers == [e \in Events |-> IF e = answer THEN "MFG" ELSE "NONE"]
=============================================================================
