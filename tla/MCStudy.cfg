SPECIFICATION StudySpec
CONSTANTS
    Questions = {q1, q2}
    Modes = {"exam", "grand_mock", "placement", "practice"}
    Allowed <- MCAllowed
    Limit = 1
    Grace = 0
    Workers = {w1, w2}
    Sweeper = sweeper
    MaxTime = 2
    MaxCrashes = 1
    None = None
    Bilets = 3
    Size <- MCSize
    Threshold = 2
    Bypass = TRUE
    Resets = {w1, w2}
    Sessions = {"s1", "s2", "s3"}
    Bank = 3
    MinBank = 2
    MaxWalks = 3
    Players = {1, 2}
    Stations = {2}
    Requests = {"r1", "r2"}
    FreeCap = 2
    VipCap = 3
    TopN = 1
    MaxDay = 2
    MaxAnswers = 3
    MaxRebuilds = 1
INVARIANTS
    MarkingInv
    KeySealed
    WalkInv
    LeaderInv
PROPERTIES
    BiletsSafe
    VerdictIsFinal
    TimedIsClosed
CHECK_DEADLOCK FALSE
