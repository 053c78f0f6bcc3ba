CONSTANTS
    Requests = {r1, r2, r3}
    Arrivals <- MCArrivals
    Users = {"ann", "root"}
    Admins = {"root"}
    Addresses = {"a", "b", "p", "q"}
    Proxies = {"p", "q"}
    Burst = 2
    Refill = 2
    Lifetime = 2
    NoToken = NoToken
    NoDevice = NoDevice
    NoTask = NoTask
    Gone = Gone
    MaxClock = 3
    MaxStops = 1
SYMMETRY Symmetry
SPECIFICATION Spec
INVARIANTS WithinBudget LoggedOutStaysOut
PROPERTIES OwnBudget
CHECK_DEADLOCK FALSE
