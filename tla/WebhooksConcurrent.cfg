CONSTANTS
    link = link
    plan = plan
    pay1 = pay1
    pay2 = pay2
    h1 = h1
    h2 = h2
    NoCharge = NoCharge
    Never = Never
    Idle = Idle
    Checkouts <- Both
    Recurring <- PlanOnly
    Lifetime <- LinkOnly
    Charges <- TwoCharges
    Attempts = 1
    EventTypes <- PaidEvents
    OrderIdIsCheckoutRef = FALSE
    MaxNow = 0
    MaxLicenses = 2
    Handlers <- TwoHandlers
    MaxFaults = 0
SPECIFICATION Spec
SYMMETRY Symmetry
PROPERTIES EffectOnlyWithClaim OneCheckoutPerStep
CHECK_DEADLOCK FALSE
