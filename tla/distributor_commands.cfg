SPECIFICATION Spec
CONSTANTS
    h1 = h1
    a1 = a1
    p = p
    v1 = v1
    v2 = v2
    t1 = t1
    t2 = t2
    m1 = m1
    Null = Null
    Threads = {t1, t2}
    Commands = {m1}
    Handlers = {h1, a1, p}
    Anonymous = {a1}
    Vetoers = {v1, v2}
    Proxied <- MCProxied
SYMMETRY Symmetric
INVARIANT TypeOK
INVARIANT OwedAreCalled
INVARIANT LostOnlyAfterTheCheck
CHECK_DEADLOCK FALSE
