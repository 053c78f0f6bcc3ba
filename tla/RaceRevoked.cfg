CONSTANTS
    link = link
    plan = plan
    pay1 = pay1
    pay2 = pay2
    h1 = h1
    h2 = h2
    NoCharge = NoCharge
    Never = Never
    Idle = Idle
    Checkouts <- PlanOnly
    Recurring <- PlanOnly
    Lifetime <- None
    Charges <- TwoCharges
    Attempts = 1
    EventTypes <- RefundRace
    OrderIdIsCheckoutRef = FALSE
    MaxNow = 0
    MaxLicenses = 2
    Handlers <- TwoHandlers
    MaxFaults = 0
SPECIFICATION Spec
PROPERTIES RevokedStaysRevoked
CHECK_DEADLOCK FALSE
