CONSTANTS
    t1 = t1
    t2 = t2
    Free = Free
    Never = Never
    Threads <- TwoThreads
    Answers <- Refusals
    Grace = 0
    MaxNow = 1
    MaxFaults = 1
SPECIFICATION FairSpec
PROPERTIES RefusedStaysLocked WatermarkNeverMovesBack RevocationReaches GraceEnds
CHECK_DEADLOCK FALSE
