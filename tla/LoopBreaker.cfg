CONSTANTS
    Conns = {c1, c2}
    Threads = {t1, t2}
    PoolIds = {p1, p2, p3}
    MaxTrips = 3
    MaxOutages = 1
    NoPool = none
SPECIFICATION FairSpec
INVARIANTS OpenIsAttended PoolsOwned
PROPERTIES NoLateVerdict BreakerCloses
CHECK_DEADLOCK FALSE
