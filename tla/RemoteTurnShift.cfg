CONSTANTS
    MaxTurns = 2
    MaxDrops = 1
    MaxStops = 1
    MaxCrashes = 1
    MaxStarts = 1
SPECIFICATION Spec
CHECK_DEADLOCK FALSE
INVARIANT ResultIsOwn
