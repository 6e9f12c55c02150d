-------------------------------- MODULE MCTrs --------------------------------
(* Instances of Trs for TLC: one command of each kind a configuration names. *)
EXTENDS Trs

CONSTANTS start, stop, card, other

MCKind == [c \in Cmds |-> CASE c = start -> "START"
                            [] c = stop  -> "STOP"
                            [] c = card  -> "CARD"
                            [] OTHER     -> "OTHER"]
=============================================================================
