SPECIFICATION FairSpec
CONSTANTS
    c1 = c1
    c2 = c2
    o1 = o1
    o2 = o2
    Null = Null
    Classes = {c1}
    Super <- OneClass
    Objects = {o1, o2}
    Kinds = {"weakProxy"}
    MaxSubs = 3
    StartValues = {2}
    StopValues = {1}
    PeriodValues = {TRUE}
    ThrowPoints = {}
PROPERTY StaleProxyCleaned
