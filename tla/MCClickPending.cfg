SPECIFICATION Spec
CONSTANTS
    Payments = {p1}
    Rows = {r1, r2}
    Paying = {c1}
    Declining = {c2}
    Workers = {w1, w2, w3}
    None = None
    MaxAborts = 1
PROPERTY OnlyPendingGranted
