SPECIFICATION FairSpec
CONSTANTS
    c1 = c1
    c2 = c2
    o1 = o1
    o2 = o2
    Null = Null
    Classes = {c1, c2}
    Super <- TwoClasses
    Objects = {o1, o2}
    Kinds = {"strong", "weak", "strongProxy", "weakProxy"}
    MaxSubs = 2
    StartValues = {1}
    StopValues = {0, Null}
    PeriodValues = {TRUE}
    ThrowPoints = {"starting", "begun", "finished"}
INVARIANT TypeOK
INVARIANT SingleSubscription
INVARIANT NeverUndercounts
INVARIANT CleanupStartsWhenNeeded
PROPERTY StaysSubscribed
PROPERTY UnsubscribeResult
PROPERTY RefinesSubscriberLists
PROPERTY StaleReferenceCleaned
