CONSTANTS
    MaxRuns = 2
    MaxRestarts = 1
    MaxFaults = 1
SPECIFICATION FairSpec
INVARIANTS HeardOnce ReportMatchesRow TurnIsRecorded CardMeansCut RestHasEnded RestIsHeard
PROPERTY Rests
CHECK_DEADLOCK FALSE
