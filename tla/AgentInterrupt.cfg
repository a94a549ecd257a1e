SPECIFICATION Spec
CONSTANTS
    Modes = {"editor"}
    Commands = {"save"}
    MaxPrompts = 1
    MaxInterrupts = 1
    MaxCommands = 1
    MaxRounds = 0
PROPERTY IdleIsAcknowledged
CHECK_DEADLOCK FALSE
