SPECIFICATION FairSpec
CONSTANTS
    t1 = t1
    t2 = t2
    e1 = e1
    e2 = e2
    s1 = s1
    s2 = s2
    s3 = s3
    v1 = v1
    Null = Null
    Threads = {t1, t2}
    Cleaners = {t1}
    Events = {e1, e2}
    Subscribers = {s1}
    Vetoers = {v1}
    Throwing = {s1, v1}
    Priority <- NoPriority
    CacheSize = 1
    MaxDepth = 2
    MaxCleanups = 1
    Dispatchers = {Null, t2}
INVARIANT TypeOK
INVARIANT VetoedIsNeverSeen
INVARIANT CallsBackOnDispatchThread
PROPERTY StatusMovesOn
PROPERTY PublicationNearsItsEnd
PROPERTY RefinesAtomicPublication
PROPERTY PublicationEnds
