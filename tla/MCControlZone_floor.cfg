SPECIFICATION ZoneSpec

CONSTANTS
    f1 = f1
    f2 = f2
    s1 = s1
    s2 = s2
    s3 = s3
    l1 = l1
    l2 = l2
    h1 = h1
    h2 = h2
    Fan = {f1, f2}
    FanSeq <- MCFanSeq
    Sensor = {s1, s2, s3}
    SensorSeq <- MCSensorSeq
    FanOf <- MCFanOf
    ReadFrom <- MCReadFrom
    MaxTarget = 5
    Lock = {l1, l2}
    LockTarget <- MCLockTarget
    LockFans <- MCLockFans
    PoweronTarget = 4
    Ceiling = 4
    DefaultFloor = 1
    AutoTargets = {3}
    IncDeltas = {1, 3}
    DecDeltas = {2}
    Bases = {0, 2}
    FloorTargets = {2, 5}
    n1 = n1
    n2 = n2
    g1 = g1
    Hold = {h1, h2}
    HoldTarget <- MCHoldTarget
    FloorHolder = {n1, n2}
    Group = {g1}
    FirstTargets = {2}

PROPERTIES
    FloorReached
