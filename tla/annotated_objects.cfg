\* Two threads process and unprocess two objects while services are made and reset.
SPECIFICATION Spec
CONSTANTS
    t1 = t1
    t2 = t2
    a = a
    b = b
    a1 = a1
    b1 = b1
    b2 = b2
    custom = custom
    Null = Null
    Bus = Bus
    Swing = Swing
    Names <- MCNames
    BusClasses = {"unset", "found", "broken"}
    SwingClasses = {"unset"}
    ClientNames = {custom}
    MaxServices = 3
    Threads = {t1, t2}
    Objects = {a, b}
    Handlers = {a1, b1, b2}
    Lists <- MCLists
    Owner <- MCOwner
    List <- MCList
    Name <- MCName
    Strong <- MCStrong
    Fragile = {a1}
    Copies <- MCCopies
    MaxProcess = 2
    MaxUnprocess = 2
CHECK_DEADLOCK FALSE
SYMMETRY ThreadSymmetry
INVARIANT StaticsAgree
INVARIANT NamedServiceIsShared
INVARIANT ProcessedIsSubscribed
INVARIANT UnprocessedIsGone
INVARIANT ProcessFailsForWantOfService
