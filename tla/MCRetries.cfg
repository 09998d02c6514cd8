SPECIFICATION RetriesSpec
CONSTANTS
    Payments = {p1}
    PaymeIds = {t1, t2}
    Workers = {w1, w2}
    None = None
    MaxAborts = 2
    Rows = {"r1", "r2"}
    Paying = {"c1", "c2"}
    Declining = {"c2"}
    ClickWorkers = {"w1", "w2", "w3"}
    ClickAborts = 1
    Msgs = {"m1", "m2"}
    Calls = {"k1", "k2"}
    MaxFaults = 3
    Requests = {"w1", "w2"}
    MaxAttempts = 1
    MaxCodes = 1
    Limit = 1
INVARIANTS
    GrantedOnce
    AccessIffPerformed
    StatusAgrees
    HumoInv
    SignUpInv
PROPERTIES
    ClickSafe
    RetriesEnd
CHECK_DEADLOCK FALSE
