SPECIFICATION ServiceSpec
CONSTANTS
    Procs = {1, 2}
    Users = {1, 2}
    Breaker = 2
    Retries = 1
    MaxTrouble = 2
    MaxMoves = 1
    Handlers = {1, 2}
    Total = 2
    MaxTaps = 2
    QuizTrouble = 1
    MaxVersion = 3
    MaxEvents = 3
    History = 2
    DiagTrouble = 1
    Learners = {"u1", "u2"}
    Staff = {"s1"}
    QueueCap = 1
    MaxMsgs = 2
    MaxTickets = 2
    Profiles = {1, 2}
    Endpoints = {"e1", "e2"}
    Jobs = {1, 2}
    Workers = 2
    MaxJobs = 3
    MaxChanges = 1
INVARIANTS
    ReminderInv
    QuizInv
    DiagInv
    HubInv
    PushInv
PROPERTIES
    UpdateSafe
    ServiceSettles
CHECK_DEADLOCK FALSE
