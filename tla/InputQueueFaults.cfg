\* A revocation, a restart, a deferral and any failing job or pump step meet one message, the
\* engine steers.
CONSTANTS
    m1 = m1  m2 = m2  ann = ann  bob = bob  f1 = f1  f2 = f2  f3 = f3
    Msgs = {m1}
    Authors = {ann}
    Author <- MCOneMessage
    Frames = {f1}
    Of <- MCOneFrame
    Tasks = {t1}
    Stop = stop
    Edit = edit
    Ender = ender
    None = none
    Cap = 2
    SharedOnly = FALSE
    Steers = TRUE
    Breakable = {"add", "accept", "turn", "send", "drop"}
    PumpRaises = TRUE
    MaxFails = 1
    MaxCrashes = 1
    MaxStops = 1
    MaxDefers = 1
    MaxRevokes = 1
    MaxEnds = 2
SPECIFICATION Spec
INVARIANTS RestartSafe NeverTwice
PROPERTIES DroppedStaysOut
CHECK_DEADLOCK FALSE
