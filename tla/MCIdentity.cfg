SPECIFICATION IdentitySpec
CONSTANTS
    ann = ann
    bob = bob
    pa = pa
    pb = pb
    TgUsers = {ann, bob}
    Phones = {pa, pb}
    Owner <- OwnNumber
    Logins = {l1}
    Resets = {s1}
    Registered = {pa}
    MaxTokens = 1
    MaxNonce = 2
    MaxUpsets = 1
    Machines = {pc1, pc2}
    Hwids = {1, 2}
    Codes = {key1, key2}
    Nobody = Nobody
    Admin = Admin
    UsesPerSeat = 2
    LicenceTerms = {2}
    MaxStations = 2
    MaxTime = 2
    MaxOps = 2
PROPERTIES
    TgSafe
    ClassSafe
CHECK_DEADLOCK FALSE
