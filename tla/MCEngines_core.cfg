\* Two challenges, a data object, a template and a transfer that contend for the
\* slot.
CONSTANTS
    auth = auth
    auth2 = auth2
    piv1 = piv1
    read = read
    read2 = read2
    tx = tx
    NoOp = NoOp
    Ops = {auth, auth2, piv1, read2, tx}
    Kind <- MCKind
    CmdFrags <- MCCmdFrags
    RepFrags <- MCRepFrags
    Withdraws = TRUE
    Faults = {"lost", "refuse", "restart"}
    MaxTrouble = 1
SPECIFICATION FairSpec
INVARIANTS
    SlotIsLive
    AnswersOwn
PROPERTY EveryOpEnds
