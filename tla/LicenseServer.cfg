CONSTANTS
    m1 = m1
    m2 = m2
    m3 = m3
    admin = admin
    None = None
    Machines <- TwoMachines
    Admins <- OneAdmin
    MaxDevices = 1
    MaxTime = 1
SPECIFICATION ServerFairSpec
PROPERTIES RefinesSlots LimitIsReal RequestsEnd
CHECK_DEADLOCK FALSE
