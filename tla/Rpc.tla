-------------------------------- MODULE Rpc --------------------------------
(***************************************************************************)
(* What the link promises to its two ends: a conversation of commands, one *)
(* at a time, each executed at most once however often it is transmitted,  *)
(* and each answered by the reply to itself or given up.  There are two    *)
(* exceptions: a command that restarts the conversation is executed        *)
(* whenever the PD sees it, and a PD that itself restarts has forgotten    *)
(* what it executed.                                                       *)
(***************************************************************************)
EXTENDS Naturals

CONSTANTS Ids, NoId

VARIABLES
    current,    \* the command the CP waits for, or NoId
    execs,      \* how often each command was executed, 2 standing for "again"
    repeatable, \* the commands that may be executed again
    answered    \* the command the last reply the CP took was a reply to

vars == <<current, execs, repeatable, answered>>

Init ==
    /\ current = NoId
    /\ execs = [c \in Ids |-> 0]
    /\ repeatable = {}
    /\ answered = NoId

Issue(c, restarting) ==
    /\ current = NoId
    /\ current' = c
    /\ execs' = [execs EXCEPT ![c] = 0]
    /\ repeatable' = IF restarting THEN repeatable \cup {c}
                                   ELSE repeatable \ {c}
    /\ answered' = NoId

\* The PD executes a command, perhaps after the CP has lost patience.
Execute(c) ==
    /\ execs[c] = 0 \/ c \in repeatable
    /\ execs' = [execs EXCEPT ![c] = IF @ = 0 THEN 1 ELSE 2]
    /\ UNCHANGED <<current, repeatable, answered>>

\* The CP takes a reply: to the command it waits for, and once executed.
Answer ==
    /\ current # NoId
    /\ execs[current] > 0
    /\ current' = NoId
    /\ answered' = current
    /\ UNCHANGED <<execs, repeatable>>

GiveUp ==
    /\ current # NoId
    /\ current' = NoId
    /\ UNCHANGED <<execs, repeatable, answered>>

\* The PD loses its memory.
Forget(forgotten) ==
    /\ repeatable' = repeatable \cup forgotten
    /\ UNCHANGED <<current, execs, answered>>

Next ==
    \/ \E c \in Ids : Issue(c, TRUE) \/ Issue(c, FALSE) \/ Execute(c)
    \/ \E forgotten \in SUBSET Ids : Forget(forgotten)
    \/ Answer \/ GiveUp

Spec == Init /\ [][Next]_vars
=============================================================================
