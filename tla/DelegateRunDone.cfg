CONSTANTS
    MaxRuns = 2
    MaxRestarts = 1
    MaxFaults = 1
SPECIFICATION Spec
INVARIANT CompletedMeansDone
CHECK_DEADLOCK FALSE
