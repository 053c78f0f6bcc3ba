CONSTANTS
    OldIds <- MCOldIds
    Names <- MCNames
    Keys <- MCKeys
    Files <- MCFiles
    TxnIds <- MCTxnIds
    Exports <- MCExports
    InitialDbs <- MCInitialDbs
    Global = "global"
    Torn = Torn
    NoBackup = NoBackup
    NoExport = NoExport
    MaxRuns = 2
    MaxFaults = 1
    MaxStops = 1
SPECIFICATION Spec
INVARIANTS ReportIsTrue NothingTwice
PROPERTIES EditsOutliveRollback MigrationEnds
CHECK_DEADLOCK FALSE
