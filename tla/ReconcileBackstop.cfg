CONSTANTS
    link = link
    pay1 = pay1
    pay2 = pay2
    job = job
    web = web
    NoCharge = NoCharge
    Never = Never
    Idle = Idle
    Checkouts <- LinkOnly
    Recurring <- None
    Lifetime <- LinkOnly
    Charges <- TwoCharges
    Attempts = 1
    EventTypes <- LateEvents
    OrderIdIsCheckoutRef = FALSE
    MaxNow = 0
    MaxLicenses = 2
    Handlers <- JobAndWeb
    Reconciler = job
    BatchSize = 2
    MaxFaults = 1
SPECIFICATION RSpec
PROPERTIES CapturedIsHealed
CHECK_DEADLOCK FALSE
