\* A transport that takes every packet and no notifications: what the
\* application may rely on, and progress.
CONSTANTS
    query = query
    keyset = keyset
    oldKey = oldKey
    newKey = newKey
    NoCmd = NoCmd
    Cmds = {keyset}
    Kind <- MCKind
    Broadcast = {}
    Keys = {oldKey, newKey}
    KeyOf <- MCKeyOf
    MaxRetries = 1
    Notify = FALSE
    IgnoreUnsolicited = TRUE
    KeyConfigured = TRUE
    Faults = {}
SPECIFICATION FairSpec
INVARIANTS
    OkMeansAnswered
PROPERTIES
    KeyCommitsOnReply
    DisableHonoured
    OfflineReconnects
    ActiveCompletes
