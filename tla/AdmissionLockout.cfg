CONSTANTS
    s1 = s1
    s2 = s2
    s3 = s3
    s4 = s4
    r1 = r1
    r2 = r2
    r3 = r3
    r4 = r4
    r5 = r5
    u1 = u1
    u2 = u2
    kA = kA
    kB = kB
    NoUser = NoUser
    NoSid = NoSid
    Sids = {s1, s2}
    Reqs = {r1, r2, r3}
    Req <- MCReturn
    Participants = {}
    Users = {u1, u2}
    Creators = {kA}
    Est <- MCEstHeavy
    Heavy = 1
    Budget = 1
    Floor = 1
    Cap = 0
    UserCap = 0
    Readings = {6}
SPECIFICATION Spec
PROPERTIES NoLockout
CHECK_DEADLOCK FALSE
