\* A re-send of a message that still waits.
CONSTANTS
    m1 = m1  m2 = m2  ann = ann  bob = bob  f1 = f1  f2 = f2  f3 = f3
    Msgs = {m1, m2}
    Authors = {ann}
    Author <- MCOnePerson
    Frames = {f1, f2, f3}
    Of <- MCResend
    Tasks = {t1}
    Stop = stop
    Edit = edit
    Ender = ender
    None = none
    Cap = 2
    SharedOnly = FALSE
    Steers = FALSE
    Breakable = {}
    PumpRaises = FALSE
    MaxFails = 0
    MaxCrashes = 0
    MaxStops = 0
    MaxDefers = 0
    MaxRevokes = 0
    MaxEnds = 2
SPECIFICATION Spec
INVARIANTS NeverTwice
CHECK_DEADLOCK FALSE
