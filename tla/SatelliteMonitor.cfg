CONSTANTS
    s1 = s1
    s2 = s2
    c1 = c1
    Sessions = {s1, s2}
    Commands = {c1}
    MaxSockets = 2
    MaxRounds = 1
    Reuse = FALSE
SPECIFICATION Spec
INVARIANT LiveRegistered
CHECK_DEADLOCK FALSE
