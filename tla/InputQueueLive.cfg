\* The chat runs as the agent; a restart; full at one.
CONSTANTS
    m1 = m1  m2 = m2  ann = ann  bob = bob  f1 = f1  f2 = f2  f3 = f3
    Msgs = {m1, m2}
    Authors = {ann, bob}
    Author <- MCTwoPeople
    Frames = {f1, f2}
    Of <- MCOf
    Tasks = {t1}
    Stop = stop
    Edit = edit
    Ender = ender
    None = none
    Cap = 1
    SharedOnly = TRUE
    Steers = FALSE
    Breakable = {}
    PumpRaises = FALSE
    MaxFails = 0
    MaxCrashes = 1
    MaxStops = 0
    MaxDefers = 0
    MaxRevokes = 0
    MaxEnds = 2
SPECIFICATION FairSpec
PROPERTIES WaitEnds
CHECK_DEADLOCK FALSE
