SPECIFICATION MoneySpec
CONSTANTS
    Payments = {p1, p2}
    Cards = {c1}
    Numbers = {n1, n2}
    FirstLast4 <- MCFirstLast4
    MaxEdits = 1
    Price <- MCPrice
    Slots = 2
    Hold = 1
    TTL = 1
    Tolerance = 1
    MaxTime = 2
    MaxCrashes = 1
    None = None
    Profiles = {a, b}
    Workers = {w1, w2}
    NPayments = 2
    NPayouts = 1
    PayoutAmounts = {1}
    PriceUzs = 4
    TariffDays = 2
    BonusDays = 2
    Percent = 50
    PromoKinds = {"percent", "days"}
    PromoValue = 50
    MaxUses = 1
    PerUserLimit = 1
    AttachWindow = 0
    MaxDays = 1
    MaxUpsets = 1
INVARIANTS
    ManualInv
    LedgerInv
PROPERTIES
    ManualSteps
    GrantsStand
CONSTRAINT OneAtATime
SYMMETRY MoneySymmetry
CHECK_DEADLOCK FALSE
