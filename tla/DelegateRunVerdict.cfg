CONSTANTS
    MaxRuns = 2
    MaxRestarts = 1
    MaxFaults = 1
SPECIFICATION Spec
PROPERTY VerdictStands
CHECK_DEADLOCK FALSE
