SPECIFICATION Spec
CONSTANTS
    t1 = t1
    t2 = t2
    e1 = e1
    e2 = e2
    s1 = s1
    s2 = s2
    s3 = s3
    v1 = v1
    Null = Null
    Threads = {t1, t2}
    Cleaners = {}
    Events = {e1}
    Subscribers = {s1, s2, s3}
    Vetoers = {}
    Throwing = {}
    Priority <- Priorities
    CacheSize = 1
    MaxDepth = 1
    MaxCleanups = 0
    Dispatchers = {Null, t2}
INVARIANT DeliversTheSnapshot
INVARIANT InPriorityOrder
PROPERTY SnapshotIsFIFO
