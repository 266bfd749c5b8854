SPECIFICATION Spec
CONSTANTS
    Root = Root
    n1 = n1
    root = root
    child = child
    r1 = r1
    r2 = r2
    r3 = r3
    c1 = c1
    Null = Null
    Entities = {n1}
    Types = {root, child}
    Events = {r1, r2, r3, c1}
    TypeOf <- MCTypeOf
    Constructed <- MCConstructed
    Half = 4
    MaxChildren = 2
    MaxRestarts = 2
SYMMETRY Symmetric
CONSTRAINT Used
INVARIANT TypeOK
INVARIANT ChangesInOrder
INVARIANT VersionsDistinct
INVARIANT StateIsReplayable
PROPERTY LoadedIsTheHistory
