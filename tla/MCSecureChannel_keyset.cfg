SPECIFICATION Spec
CONSTANTS
    Keys = {oldKey, newKey}
    NoKey = NoKey
    ScbkD = ScbkD
    Rekey = TRUE
    MaxRetries = 1
    Faults = {"loss"}
    Nonces = 8
    Wrap = 6
    MaxTrouble = 1
PROPERTIES
    RepeatsReEmit
