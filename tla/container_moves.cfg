\* A panel, a form and a popup menu move between containers; actions are fired.
SPECIFICATION Spec
CONSTANTS
    frame = frame
    window = window
    form = form
    panel = panel
    field = field
    menu = menu
    item = item
    r1 = r1
    r2 = r2
    r3 = r3
    Null = Null
    Components = {frame, window, form, panel, field, menu, item}
    Suppliers = {form}
    Popups = {menu}
    Heavy = {window}
    FirstParent <- MCFirstParent
    Movable = {panel, form, menu}
    Parents = {frame, window, form, menu}
    Invokers = {field, Null}
    Layer = frame
    Registrars = {r1, r2, r3}
    JComp <- MCJComp
    Keys = {"class", "topic"}
    Throwing = {form}
    MaxMoves = 5
INVARIANT TypeOK
INVARIANT OneServiceAtATime
INVARIANT ActionReachesItsContainer
INVARIANT PopupFollowsInvoker
