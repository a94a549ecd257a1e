CONSTANTS
    Sessions = {1, 2}
    Tokens <- MCTokens
    Eos <- MCEos
    Requests <- MCRequests
    MaxLen = 5
    LocalCap = 3
    WireCap = 1
    Window = 2
    Buffer = 0
    MaxConns = 2
    Target <- MCTarget
SPECIFICATION FairSpec
INVARIANTS TypeOK StagesAgree LogitsMatchCheckpoint
PROPERTIES SpecIsGreedy OpEnds
CHECK_DEADLOCK FALSE
