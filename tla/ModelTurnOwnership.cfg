SPECIFICATION Spec
CONSTANTS
    N = 2
    MaxQuanta = 1
    MaxTokens = 2
    Syncs = {"cold", "prompt", "canon", "remember"}
INVARIANTS
    WorkerOwnsSession
