CONSTANTS
    c1 = c1
    c2 = c2
    open = open
    locked = locked
    k1 = k1
    k2 = k2
    NoRow = NoRow
    NoFile = NoFile
    NoBatch = NoBatch
    NoImport = NoImport
    Clients <- Two
    Files <- TwoFiles
    Picked <- InOrder
    Contents <- Overlap
    Locked <- Protected
    MaxBatches = 1
    MaxTimers = 2
    MaxLoads = 1
    MaxFaults = 1
SPECIFICATION FairSpec
INVARIANTS StoredOnce ReportedOnce
PROPERTIES BatchEnds
