SPECIFICATION FairSpec
CONSTANTS
    N = 1
    c1 = c1
    c2 = c2
    Clients <- MCClients
    Prompt <- MCPrompt
    Reply = 9
    NoJob = NoJob
    MaxQuanta = 1
    MaxTokens = 1
    Syncs = {"cold", "prompt", "canon", "remember"}
INVARIANTS
    PersistsAtRest
    ModelWorksForClients
PROPERTIES
    RequestsServed
    TokensAnswered
    StopDrains
