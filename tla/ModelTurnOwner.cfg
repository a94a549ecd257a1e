SPECIFICATION Spec
CONSTANTS
    N = 2
    MaxQuanta = 1
    MaxTokens = 1
    Syncs = {"cold", "prompt", "canon", "remember"}
INVARIANTS
    OneModelExecutor
