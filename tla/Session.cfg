SPECIFICATION Spec
CONSTANTS
    Tokens = {1, 2}
    Eos = 2
    NoToken = NoToken
    Torn = Torn
    NoRow = NoRow
    NoPayload = NoPayload
    CtxSize = 5
    Chunk = 3
    MtpCap = 2
    DraftCap = 3
    Prompts <- MCPrompts
    Top <- MCTop
    Second <- MCSecond
CONSTRAINT
    Followed
INVARIANTS
    TypeOK
    FrontierExact
PROPERTIES
    BlockIsGreedy
