SPECIFICATION FairSpec
CONSTANTS
    Ids = {c1, c2, c3, c4, c5, c6}
    NoId = NoId
    MaxRetries = 2
    ScCapable = TRUE
    Flush = TRUE
    IgnoreUnsolicited = FALSE
    Faults = {"loss", "late", "noise", "send", "cp_restart", "pd_restart", "vendor"}
    LineLimit = 3
    MaxTrouble = 3
PROPERTIES
    AnswersAreOwn
    Recovers
