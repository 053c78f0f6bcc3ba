SPECIFICATION FairSpec
CONSTANTS
    Olds <- OldDatabases
    ExportKeepsVersion = TRUE
    MaxWork = 2
    MaxStops = 2
    MaxFaults = 2
INVARIANTS WorkSurvives NeverBehindBackup
PROPERTIES StartupEnds
