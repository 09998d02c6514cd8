SPECIFICATION AccountsSpec
CONSTANTS
    NTok = 3
    MaxUpsets = 1
    Requests = {r1, r2}
    Procs = {1, 2}
    FailLimit = 1
    MaxWindow = 2
    MaxSessions = 1
    MaxTokens = 3
    MaxMoves = 1
    MaxEdits = 3
    PageSize = 2
    MaxMsgs = 3
    MaxCloses = 2
INVARIANTS
    RefreshInv
    DeskInv
    InboxInv
PROPERTIES
    RefreshIsAChain
    StaffSafe
SYMMETRY RequestSymmetry
CHECK_DEADLOCK FALSE
