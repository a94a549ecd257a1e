SPECIFICATION Spec
CONSTANTS
    s1 = s1
    s2 = s2
    NoSlot = NoSlot
    Slots <- MCSlots
    Openings = {"hello", "other"}
    Blocks = {"block", "code"}
    MaxEntries = 2
    MaxBytes = 5
    Budget = 8
    MinTokens = 2
    ColdMax = 3
    Trim = 1
    Align = 1
    Interval = 3
    Foreign <- MCForeign
    NoThink = FALSE
    CallIds <- MCCallIds2
    MaxRequests = 3
    MaxFaults = 1
SYMMETRY Symmetry
INVARIANTS
    TypeOK
    RestoredMatches
    WithinBudget
PROPERTIES
    ReplacedIsSaved
CHECK_DEADLOCK FALSE
