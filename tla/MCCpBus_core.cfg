SPECIFICATION FairSpec
CONSTANTS
    N = 2
    MaxRetries = 1
    MaxTrouble = 2
    MaxPieces = 4
INVARIANTS
    OneExchange
    BufferIsOwn
PROPERTIES
    EveryoneGetsTheBus
