SPECIFICATION Spec
CONSTANTS
    A = A
    X = X
    I = I
    t1 = t1
    t2 = t2
    p1 = p1
    p2 = p2
    Null = Null
    Classes = {A, X}
    Supers <- MCSupers
    Interfaces <- MCInterfaces
    Topics = {t1, t2}
    Patterns = {p1, p2}
    Matches <- MCMatches
    Sizes = {0, 2}
    Often = {X, t1}
    MaxEvents <- MCMaxEvents
CONSTRAINT OneKind
INVARIANT TypeOK
INVARIANT ClassSizeFollowsHierarchy
INVARIANT TopicSizeFollowsSettings
INVARIANT ClassCacheIsLatest
PROPERTY AdjustedOnPublication
