SPECIFICATION Spec
CONSTANTS
    N = 1
    c1 = c1
    c2 = c2
    c3 = c3
    c4 = c4
    Clients <- MCClients4
    Prompt <- MCPrompt
    Reply = 9
    NoJob = NoJob
INVARIANTS
    HeldOnce
PROPERTIES
    FifoDispatch
