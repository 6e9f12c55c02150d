\* Everything may go wrong: build and send failures, malformed replies, and the
\* lifecycle API called from notifications.
CONSTANTS
    query = query
    keyset = keyset
    oldKey = oldKey
    newKey = newKey
    NoCmd = NoCmd
    Cmds = {query, keyset}
    Kind <- MCKind
    Broadcast = {query}
    Keys = {oldKey, newKey}
    KeyOf <- MCKeyOf
    MaxRetries = 1
    Notify = TRUE
    IgnoreUnsolicited = TRUE
    KeyConfigured = TRUE
    Faults = {"build", "send", "malformed"}
SPECIFICATION Spec
INVARIANTS
    Ownership
    NoSilentDowngrade
    DefaultKeyConfined
    QuietWhenDown
    NoStrayBroadcast
PROPERTY
    EnforceEntersSecure
