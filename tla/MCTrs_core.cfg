\* Sessions and probes with every fault once.
CONSTANTS
    start = start
    stop = stop
    card = card
    other = other
    NoCmd = NoCmd
    Cmds = {start, stop, card, other}
    Kind <- MCKind
    CallbackCalls = {"submit"}
    Faults = {"lost", "busy", "resync", "restart", "decline"}
    MaxTrouble = 1
SPECIFICATION FairSpec
INVARIANTS
    BandMarks
    ReaderRestored
    AskNeverLeaks
PROPERTY ProbeEnds
