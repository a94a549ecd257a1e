SPECIFICATION FairSpec
CONSTANTS
    N = 2
    c1 = c1
    c2 = c2
    c3 = c3
    c4 = c4
    Clients <- MCClients3
    Prompt <- MCPrompt
    Reply = 9
    NoJob = NoJob
INVARIANTS
    TypeOK
    StackOwnedJobs
    NoIdleSlotWhileQueued
    NoLostWakeup
PROPERTIES
    ExtensionPreferred
    ImplementsRequestServer
