CONSTANTS
    MaxRuns = 2
    MaxRestarts = 1
    MaxFaults = 1
SPECIFICATION FairSpec
PROPERTY EveryRunEnds
CHECK_DEADLOCK FALSE
