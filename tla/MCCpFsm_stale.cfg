\* A transport that may refuse a packet.
CONSTANTS
    query = query
    keyset = keyset
    oldKey = oldKey
    newKey = newKey
    NoCmd = NoCmd
    Cmds = {query, keyset}
    Kind <- MCKind
    Broadcast = {query}
    Keys = {oldKey, newKey}
    KeyOf <- MCKeyOf
    MaxRetries = 1
    Notify = FALSE
    IgnoreUnsolicited = FALSE
    KeyConfigured = TRUE
    Faults = {"send"}
SPECIFICATION Spec
INVARIANT
    OkMeansAnswered
