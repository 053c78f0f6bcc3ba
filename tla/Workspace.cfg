SPECIFICATION Spec
CONSTANTS
    acme = acme  birla = birla  typed = typed  sheet = sheet  scan = scan
    k1 = k1  k2 = k2
    Clients = {acme, birla}
    NoClient = NoClient
    Files = {sheet, scan}
    Scanned = {scan}
    Contents <- MCContents
    Typed = typed
    Picked = Picked
    Suggested = Suggested
    NoLedger = NoLedger  NoImport = NoImport  NoRun = NoRun
    MaxLoads = 2
    MaxTurns = 2
INVARIANTS ShownIsStored LoadedOnce
PROPERTIES UserWorkSurvives
SYMMETRY MCSymmetry
CHECK_DEADLOCK FALSE
