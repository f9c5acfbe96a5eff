CONSTANTS
    MaxRuns = 2
    MaxRestarts = 1
    MaxFaults = 1
SPECIFICATION Spec
INVARIANT RowsOnce
CHECK_DEADLOCK FALSE
