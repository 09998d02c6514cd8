SPECIFICATION ArenaSpec
CONSTANTS
    Seats = {a, b}
    Bot = b
    Modes = {"ranked", "bot"}
    Last = 2
    Cap = 2
    MaxFaults = 1
    MaxSent = 3
    None = None
    Players = {"p1", "p2", "p3"}
    Codes = {"k"}
    NoOne = None
    NoCode = None
    MaxAttempts = 2
    MaxOps = 3
    Socks = {"c1", "c2"}
    Grace = 1
    MaxTime = 3
INVARIANTS
    MatchInv
    LobbyInv
    PresenceInv
PROPERTIES
    FirstVerdictCounts
    WaitsEnd
CHECK_DEADLOCK FALSE
