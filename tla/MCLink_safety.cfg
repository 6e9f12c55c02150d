SPECIFICATION Spec
CONSTANTS
    Ids = {c1, c2, c3, c4, c5, c6}
    NoId = NoId
    MaxRetries = 2
    ScCapable = TRUE
    Flush = TRUE
    IgnoreUnsolicited = FALSE
    Faults = {"loss", "late", "cp_restart", "pd_restart"}
    LineLimit = 3
    MaxTrouble = 5
INVARIANTS
    AtMostOnce
PROPERTIES
    KeepsPromise
