SPECIFICATION Spec
CONSTANTS
    A = A
    X = X
    I = I
    t1 = t1
    t2 = t2
    p1 = p1
    p2 = p2
    Null = Null
    Classes = {A, X, I}
    Supers <- MCSupers
    Interfaces <- MCInterfaces
    Topics = {}
    Patterns = {}
    Matches <- MCMatches
    Sizes = {0, 1, 2}
    Often = {A, X}
    MaxEvents <- MCMaxEvents
INVARIANT SizeDependsOnSettingsOnly
