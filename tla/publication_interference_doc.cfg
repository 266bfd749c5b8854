SPECIFICATION Spec
CONSTANTS
    t1 = t1
    t2 = t2
    e1 = e1
    e2 = e2
    s1 = s1
    s2 = s2
    s3 = s3
    v1 = v1
    Null = Null
    Threads = {t1, t2}
    Cleaners = {}
    Events = {e1, e2}
    Subscribers = {s1, s2}
    Vetoers = {}
    Throwing = {s1}
    Priority <- NoPriority
    CacheSize = 1
    MaxDepth = 2
    MaxCleanups = 0
    Dispatchers = {Null}
INVARIANT OneListenerDoesNotInterfere
