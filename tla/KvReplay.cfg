SPECIFICATION Spec
CONSTANTS
    s1 = s1
    s2 = s2
    NoSlot = NoSlot
    Slots <- MCSlots
    Openings = {"hello"}
    Blocks = {"block"}
    MaxEntries = 1
    MaxBytes = 9
    Budget = 8
    MinTokens = 2
    ColdMax = 3
    Trim = 1
    Align = 1
    Interval = 3
    Foreign = {}
    NoThink = TRUE
    CallIds <- MCCallIds1
    MaxRequests = 2
    MaxFaults = 1
SYMMETRY Symmetry
INVARIANTS
    ReplayIsExact
CHECK_DEADLOCK FALSE
