SPECIFICATION Spec
CONSTANTS
    A = A
    X = X
    I = I
    t1 = t1
    t2 = t2
    p1 = p1
    p2 = p2
    Null = Null
    Classes = {}
    Supers <- MCSupers
    Interfaces <- MCInterfaces
    Topics = {t1}
    Patterns = {}
    Matches <- MCMatches
    Sizes = {0, 1, 2}
    Often = {t1}
    MaxEvents <- MCMaxEvents
INVARIANT TopicCacheIsLatest
