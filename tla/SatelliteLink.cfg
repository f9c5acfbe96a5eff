CONSTANTS
    s1 = s1
    s2 = s2
    c1 = c1
    Sessions = {s1, s2}
    Commands = {c1}
    MaxSockets = 2
    MaxRounds = 1
    Reuse = FALSE
SPECIFICATION FairSpec
INVARIANTS LiveUnlessBlind NoneForgotten WaitersOnLive
PROPERTIES NoComeback ImplementsSessionGrace HeldResolves
CHECK_DEADLOCK FALSE
