-------------------------- MODULE ContainerRegistrar --------------------------
(***************************************************************************)
(* Container event services: ContainerEventServiceFinder walks up from a   *)
(* component to the service of its container, ContainerEventService-       *)
(* Registrar keeps a subscriber subscribed there while components move,    *)
(* and ContainerEventServiceAction publishes there.                        *)
(*                                                                         *)
(* Moves, listeners and actions run on the event dispatch thread; a move   *)
(* is the sequence of steps it makes there, and other threads may publish  *)
(* between any two of them.  A component stands for the service it holds:  *)
(* the one it supplies, or the one the finder puts among its client        *)
(* properties the first time it is at the top, and never replaces.  Swing  *)
(* is external: removing or adding a component tells the hierarchy         *)
(* listeners of everything in it and the container listeners of the parent.*)
(***************************************************************************)
EXTENDS Integers, FiniteSets

CONSTANTS
    Components,
    Suppliers,      \* ContainerEventServiceSuppliers
    Popups,         \* JPopupMenus
    Heavy,          \* neither JComponents nor RootPaneContainers
    FirstParent,    \* FirstParent[c]: the parent of c at the start
    Movable,        \* components that the program adds and removes
    Parents,        \* containers it adds them to
    Invokers,       \* components it shows popup menus for
    Layer,          \* where a popup menu is added when it is shown
    Registrars,
    JComp,          \* JComp[r]: the component registrar r is for
    Keys,           \* its event classes and topics
    Throwing,       \* suppliers whose getContainerEventService may throw
    MaxMoves,       \* bound: moves in a behaviour
    Null

ASSUME ContainerAssumption ==
    /\ IsFiniteSet(Components) /\ Null \notin Components /\ Keys # {}
    /\ Suppliers \cup Popups \cup Heavy \cup Movable \cup Parents \subseteq Components
    /\ Invokers \subseteq Components \cup {Null} /\ Layer \in Components
    /\ FirstParent \in [Components -> Components \cup {Null}]
    /\ JComp \in [Registrars -> Components \ Heavy]
    /\ Throwing \subseteq Suppliers
    /\ MaxMoves \in Nat

VARIABLES
    parent,         \* the component hierarchy
    invoker,        \* invoker of each popup menu
    service,        \* service[r]: containerEventService of registrar r
    subs,           \* subs[r]: where r's subscriber is subscribed, and to what
    listening,      \* registrars whose listeners have been added
    edt,            \* what the event dispatch thread is doing
    moves,          \* moves so far
    heard,          \* the action just fired and the registrars it reached
    \* history variables
    shown,          \* the popup menu shown by the last move
    threw           \* a supplier has thrown

tree == <<parent, invoker>>
history == <<shown, threw>>
vars == <<tree, service, subs, listening, edt, moves, heard, history>>

Idle == [at |-> "idle", registrar |-> Null, left |-> {}, tell |-> {}, attach |-> Null, to |-> Null]
Silence == [service |-> Null, key |-> Null, registrars |-> {}]

TypeOK ==
    /\ parent \in [Components -> Components \cup {Null}]
    /\ invoker \in [Popups -> Components \cup {Null}]
    /\ service \in [Registrars -> Components \cup {Null}]
    /\ subs \in [Registrars -> SUBSET (Components \X Keys)]
    /\ listening \subseteq Registrars
    /\ edt.at \in {"idle", "notify", "unsubscribe", "find", "subscribe"}
    /\ edt.at \in {"unsubscribe", "subscribe"} => service[edt.registrar] # Null
    /\ edt.left \subseteq Keys /\ edt.tell \subseteq Registrars
    /\ {edt.attach, edt.to} \subseteq Components \cup {Null}
    /\ moves \in 0..MaxMoves
    /\ heard.registrars \subseteq listening
    /\ shown \in Popups \cup {Null} /\ threw \in BOOLEAN

Init ==
    /\ parent = FirstParent
    /\ invoker = [m \in Popups |-> Null]
    /\ service = [r \in Registrars |-> Null]
    /\ subs = [r \in Registrars |-> {}]
    /\ listening = {}
    /\ edt = Idle
    /\ moves = 0
    /\ heard = Silence
    /\ shown = Null /\ threw = FALSE
-----------------------------------------------------------------------------
\* Mutant of Above: the walk goes to the parent of a popup menu as well.
AboveByParent(c) == parent[c]

\* Where the finder goes from c: from a popup menu to its invoker.
Above(c) == IF c \in Popups THEN invoker[c] ELSE parent[c]

\* ContainerEventServiceFinder.getEventService, for walks of at most n components.
Found[n \in 0..Cardinality(Components)] ==
    [c \in Components \cup {Null} |->
        IF c = Null \/ n = 0 THEN Null
        ELSE IF c \in Suppliers THEN c
        ELSE IF c \notin Popups /\ parent[c] = Null THEN IF c \in Heavy THEN Null ELSE c
        ELSE Found[n - 1][Above(c)]]

EventService(c) == Found[Cardinality(Components)][c]

\* The components of the hierarchy below c, and c.
Contains(c, d) ==
    LET up[n \in 0..Cardinality(Components)] == IF n = 0 THEN d
                                                ELSE IF up[n - 1] = Null THEN Null
                                                ELSE parent[up[n - 1]]
    IN  \E n \in DOMAIN up : up[n] = c

\* Mutant of Told: the registrar adds a container listener only.
ToldByContainer(c, p) == {r \in listening : JComp[r] = p}

\* The registrars whose listeners are called when c leaves or joins parent p.
Told(c, p) == {r \in listening : Contains(c, JComp[r]) \/ JComp[r] = p}

Notify(tell, c, to) == [Idle EXCEPT !.at = "notify", !.tell = tell, !.attach = c, !.to = to]

\* remove(c), or add(c) to p, which removes c from its parent first.
Move(c, p) ==
    /\ edt = Idle /\ moves < MaxMoves
    /\ p # Null => ~Contains(c, p) /\ c \notin Popups
    /\ p # parent[c]
    /\ moves' = moves + 1
    /\ parent' = [parent EXCEPT ![c] = Null]
    /\ edt' = Notify(IF parent[c] = Null THEN {} ELSE Told(c, parent[c]),
                     IF p = Null THEN Null ELSE c, p)
    /\ shown' = Null /\ heard' = Silence
    /\ UNCHANGED <<invoker, service, subs, listening, threw>>

\* JPopupMenu.show(i, ...): the invoker is set, then the menu is added to a window.
Show(m, i) ==
    /\ edt = Idle /\ moves < MaxMoves
    /\ parent[m] = Null /\ (i # Null => ~Contains(m, i))
    /\ moves' = moves + 1
    /\ invoker' = [invoker EXCEPT ![m] = i]
    /\ edt' = Notify({}, m, Layer)
    /\ shown' = m /\ heard' = Silence
    /\ UNCHANGED <<parent, service, subs, listening, threw>>

\* The component removed, if it was in a container, joins the new one.
Attach ==
    /\ edt.at = "notify" /\ edt.tell = {} /\ edt.attach # Null
    /\ parent' = [parent EXCEPT ![edt.attach] = edt.to]
    /\ edt' = Notify(Told(edt.attach, edt.to), Null, Null)
    /\ UNCHANGED <<invoker, service, subs, listening, moves, heard, history>>

\* The listeners have been called and the move returns.
Return ==
    /\ edt.at = "notify" /\ edt.tell = {} /\ edt.attach = Null
    /\ edt' = Idle
    /\ UNCHANGED <<tree, service, subs, listening, moves, heard, history>>

\* The constructor, which updates before it adds the listeners, and
\* getContainerEventService when there is no service yet.
Construct(r) ==
    /\ edt = Idle
    /\ r \notin listening \/ service[r] = Null
    /\ edt' = Notify({r}, Null, Null)
    /\ heard' = Silence
    /\ UNCHANGED <<tree, service, subs, listening, moves, history>>
-----------------------------------------------------------------------------
\* Mutant of BeginUpdate: the service is replaced without being unsubscribed from.
BeginUpdateAtFind(r) ==
    /\ edt.at = "notify" /\ r \in edt.tell
    /\ edt' = [edt EXCEPT !.registrar = r, !.tell = @ \ {r}, !.left = Keys, !.at = "find"]
    /\ UNCHANGED <<tree, service, subs, listening, moves, heard, history>>

\* updateContainerEventService, called by one of the listeners.
BeginUpdate(r) ==
    /\ edt.at = "notify" /\ r \in edt.tell
    /\ edt' = [edt EXCEPT !.registrar = r, !.tell = @ \ {r}, !.left = Keys,
                          !.at = IF service[r] = Null THEN "find" ELSE "unsubscribe"]
    /\ UNCHANGED <<tree, service, subs, listening, moves, heard, history>>

\* unsubscribe from the old service, changed or not.
Unsubscribe(k) ==
    LET r == edt.registrar
    IN  /\ edt.at = "unsubscribe" /\ k \in edt.left
        /\ subs' = [subs EXCEPT ![r] = @ \ {<<service[r], k>>}]
        /\ edt' = IF edt.left = {k} THEN [edt EXCEPT !.left = Keys, !.at = "find"]
                  ELSE [edt EXCEPT !.left = @ \ {k}]
        /\ UNCHANGED <<tree, service, listening, moves, heard, history>>

\* The update is over; that of the constructor is followed by the listeners.
Updated(r) ==
    /\ edt' = [edt EXCEPT !.at = "notify", !.registrar = Null, !.left = {}]
    /\ listening' = listening \cup {r}

\* Mutant of Find: no test for a component without a service.
FindUnchecked ==
    LET r == edt.registrar
    IN  /\ edt.at = "find"
        /\ service' = [service EXCEPT ![r] = EventService(JComp[r])]
        /\ edt' = [edt EXCEPT !.at = "subscribe"] /\ UNCHANGED listening
        /\ UNCHANGED <<tree, subs, moves, heard, history>>

Find ==
    LET r == edt.registrar
    IN  /\ edt.at = "find"
        /\ service' = [service EXCEPT ![r] = EventService(JComp[r])]
        /\ IF service'[r] = Null THEN Updated(r)
           ELSE edt' = [edt EXCEPT !.at = "subscribe"] /\ UNCHANGED listening
        /\ UNCHANGED <<tree, subs, moves, heard, history>>

\* A supplier throws: the exception leaves the update, the listeners not yet
\* called, and the add or remove that called them.
FindThrows ==
    /\ edt.at = "find"
    /\ EventService(JComp[edt.registrar]) \in Throwing
    /\ edt' = Idle
    /\ threw' = TRUE
    /\ UNCHANGED <<tree, service, subs, listening, moves, heard, shown>>

Subscribe(k) ==
    LET r == edt.registrar
    IN  /\ edt.at = "subscribe" /\ k \in edt.left
        /\ subs' = [subs EXCEPT ![r] = @ \cup {<<service[r], k>>}]
        /\ IF edt.left = {k} THEN Updated(r)
           ELSE edt' = [edt EXCEPT !.left = @ \ {k}] /\ UNCHANGED listening
        /\ UNCHANGED <<tree, service, moves, heard, history>>
-----------------------------------------------------------------------------
\* EventServiceAction.actionPerformed with the service ContainerEventServiceAction
\* finds for the source of the event.  With none it throws and publishes nothing.
ActionPerformed(c, k) ==
    /\ edt = Idle
    /\ LET s == EventService(c)
       IN  /\ s # Null
           /\ heard' = [service |-> s, key |-> k,
                        registrars |-> {r \in listening : <<s, k>> \in subs[r]}]
    /\ UNCHANGED <<tree, service, subs, listening, edt, moves, history>>

Next ==
    \/ \E c \in Movable, p \in Parents \cup {Null} : Move(c, p)
    \/ \E m \in Popups, i \in Invokers : Show(m, i)
    \/ Attach \/ Return
    \/ \E r \in Registrars : Construct(r) \/ BeginUpdate(r)
    \/ \E k \in Keys : Unsubscribe(k) \/ Subscribe(k)
    \/ Find \/ FindThrows
    \/ \E c \in Components, k \in Keys : ActionPerformed(c, k)

Spec == Init /\ [][Next]_vars
-----------------------------------------------------------------------------
InPopup(c) == \E m \in Popups : Contains(m, c)

\* At no time, not between the steps of a move nor after a listener that threw, is
\* a subscriber subscribed to a service other than the one its registrar remembers
\* and will unsubscribe it from: nothing published in a container left behind
\* reaches it (updateContainerEventService).
OneServiceAtATime ==
    \A r \in Registrars : \A x \in subs[r] : x[1] = service[r]

\* An action fired anywhere reaches the registrars of the container of its source,
\* all of them and no others, whatever was moved between the two before: the walk
\* of the action at the time of the event and the walks the registrars made when
\* they were last told end at the same service.  A registrar in a popup menu is not
\* told when the invoker moves, nor is one told after a supplier has thrown.
ActionReachesItsContainer ==
    (heard # Silence /\ ~threw) =>
        \A r \in listening : ~InPopup(JComp[r]) =>
            (r \in heard.registrars <=> EventService(JComp[r]) = heard.service)

\* No supplier from d up to popup menu m, m itself included, and no other popup menu:
\* the walk of the finder from d leaves m for its invoker.
LeavesBy(m, d) ==
    \A c \in Components : Contains(m, c) /\ Contains(c, d) =>
        c \notin Suppliers /\ (c \in Popups => c = m)

\* Once a popup menu has been shown, what is in it is subscribed, completely, to
\* the service of the component it was shown for, and to none if it has none.  What
\* is below a supplier or another popup menu inside the menu has that one to go by.
PopupFollowsInvoker ==
    (edt = Idle /\ shown # Null /\ ~threw) =>
        LET s == EventService(invoker[shown])
        IN  \A r \in listening :
                Contains(shown, JComp[r]) /\ LeavesBy(shown, JComp[r]) =>
                    service[r] = s /\ subs[r] = (IF s = Null THEN {} ELSE {s} \X Keys)
=============================================================================
