SPECIFICATION FairSpec
CONSTANTS
    Seats = {a, b}
    Bot = b
    Modes = {"ranked"}
    Last = 2
    Cap = 2
    MaxFaults = 2
    MaxSent = 1
    None = None
PROPERTIES
    WedgeIsSurvived
CHECK_DEADLOCK FALSE
