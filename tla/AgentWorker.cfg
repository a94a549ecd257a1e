SPECIFICATION Spec
CONSTANTS
    Modes = {"editor", "stdin", "oneshot"}
    Commands = {"save", "compact", "power", "new", "exit"}
    MaxPrompts = 2
    MaxInterrupts = 1
    MaxCommands = 2
    MaxRounds = 1
INVARIANTS TypeOK SessionHasOneOwner PromptsKept AnswersMatch InterruptIsForThisTurn
PROPERTIES WaitsEnd
CHECK_DEADLOCK FALSE
