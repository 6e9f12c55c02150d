SPECIFICATION FairSpec
CONSTANTS
    f1 = f1
    f2 = f2
    Files = {f1, f2}
    NoFile = NoFile
    Total <- DistinctTotals
    MaxChunk = 2
    MaxErrors = 1
    MaxAsks = 1
    Faults = {"lost", "rerun", "slow", "away", "cp_restart", "cancel", "busy_pd", "read", "busy", "refuse", "write", "verdict"}
    MaxTrouble = 4
INVARIANTS
    EngineOwned
    NothingMissing
PROPERTIES
    OkMeansStored
    TransferEnds
