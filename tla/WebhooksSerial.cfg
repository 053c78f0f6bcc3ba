CONSTANTS
    link = link
    plan = plan
    pay1 = pay1
    pay2 = pay2
    h1 = h1
    h2 = h2
    NoCharge = NoCharge
    Never = Never
    Idle = Idle
    Checkouts <- LinkOnly
    Recurring <- None
    Lifetime <- None
    Charges <- TwoCharges
    Attempts = 1
    EventTypes <- LinkEvents
    OrderIdIsCheckoutRef = TRUE
    MaxNow = 1
    MaxLicenses = 3
    Handlers <- OneHandler
    MaxFaults = 1
SPECIFICATION FairSpec
INVARIANTS OneLiveLicense ActiveLicenseIsPaid
PROPERTIES RefinesAtomic RevokedStaysRevoked EventuallyClaimed
CHECK_DEADLOCK FALSE
