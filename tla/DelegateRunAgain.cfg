CONSTANTS
    MaxRuns = 2
    MaxRestarts = 2
    MaxFaults = 1
SPECIFICATION Spec
INVARIANTS TurnIsRecorded CardMeansCut
CHECK_DEADLOCK FALSE
