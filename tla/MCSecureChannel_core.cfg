SPECIFICATION FairSpec
CONSTANTS
    Keys = {oldKey, newKey}
    NoKey = NoKey
    ScbkD = ScbkD
    Rekey = TRUE
    MaxRetries = 1
    Faults = {"loss", "noise", "send", "silence", "cp_restart", "pd_restart"}
    Nonces = 8
    Wrap = 6
    MaxTrouble = 3
INVARIANTS
    InStep
PROPERTIES
    LossKeepsSession
    CommitMeansStored
    DefaultKeyOver
    Resecures
