---------------------------- MODULE ServiceLocator ----------------------------
(***************************************************************************)
(* EventServiceLocator: the map of named event services and the two static *)
(* fields that cache its reserved names.  Every method is static           *)
(* synchronized, so each is one step.  The record "locator" is what the    *)
(* class lock guards, and an operator that takes a locator returns it as   *)
(* the method leaves it; a service is the number of its creation.          *)
(***************************************************************************)
EXTENDS Integers

CONSTANTS
    Names,          \* names under which services are asked for
    Bus,            \* SERVICE_NAME_EVENT_BUS
    Swing,          \* SERVICE_NAME_SWING_EVENT_SERVICE
    BusClasses,     \* what the property EVENT_BUS_CLASS may hold at startup
    SwingClasses,   \* what the property SWING_EVENT_SERVICE_CLASS may hold
    ClientNames,    \* names that clients set and reset themselves
    MaxServices,    \* bound: services created in a behaviour
    Null

\* No class named, one that can be instantiated, one that cannot.
ClassProperties == {"unset", "found", "broken"}

ASSUME LocatorAssumption ==
    /\ {Bus, Swing} \subseteq Names /\ Bus # Swing
    /\ ClientNames \subseteq Names
    /\ BusClasses \subseteq ClassProperties /\ SwingClasses \subseteq ClassProperties
    /\ MaxServices \in Nat
    /\ Null \notin Int

VARIABLES
    locator,        \* EVENT_SERVICES, EVENT_BUS_SERVICE, SWING_EVENT_SERVICE
    busClass,       \* the system property EVENT_BUS_CLASS
    swingClass,     \* the system property SWING_EVENT_SERVICE_CLASS
    reset           \* history: the names whose service has been taken away

locatorVars == <<locator, busClass, swingClass, reset>>

Services == 1..MaxServices

LocatorTypeOK ==
    /\ locator \in [services : [Names -> Services \cup {Null}],
                    bus : Services \cup {Null}, swing : Services \cup {Null},
                    made : 0..MaxServices]
    /\ busClass \in BusClasses /\ swingClass \in SwingClasses
    /\ reset \subseteq Names

NoServices ==
    [services |-> [n \in Names |-> Null], bus |-> Null, swing |-> Null, made |-> 0]

LocatorInit ==
    /\ locator = NoServices
    /\ busClass \in BusClasses /\ swingClass \in SwingClasses
    /\ reset = {}
-----------------------------------------------------------------------------
\* Mutant of Registered: setEventService fills the map only.
RegisteredInMap(l, n, es) == [l EXCEPT !.services[n] = es]

\* The map and the static field of the name.
Registered(l, n, es) ==
    [l EXCEPT !.services[n] = es,
              !.bus = IF n = Bus THEN es ELSE @,
              !.swing = IF n = Swing THEN es ELSE @]

\* One more service created.
Made(l) == [l EXCEPT !.made = @ + 1]

\* getSwingEventService.  It throws, and leaves the locator alone, when the
\* property names a class that cannot be made; the result is the field, Null
\* standing for the exception.
WithSwing(l) ==
    IF l.swing # Null \/ swingClass = "broken" THEN l
    ELSE Registered(Made(l), Swing, l.made + 1)

\* getEventBusService: the default service is fetched first, so a property that
\* names a broken class throws after the swing service has been registered.
WithBus(l) ==
    LET s == WithSwing(l)
    IN  IF l.bus # Null THEN l
        ELSE IF s.swing = Null \/ busClass = "broken" THEN s
        ELSE IF busClass = "found" THEN Registered(Made(s), Bus, s.made + 1)
        ELSE Registered(s, Bus, s.swing)

\* getEventService(n); the result is Found(l, n).services[n].
Found(l, n) ==
    IF l.services[n] # Null THEN l
    ELSE IF n = Bus THEN WithBus(l)
    ELSE IF n = Swing THEN WithSwing(l)
    ELSE l

\* setEventService(n, es) throws EventServiceExistsException.
Exists(n) == locator.services[n] # Null
-----------------------------------------------------------------------------
\* The static methods of EventBus all begin with getEventBusService.
GetEventBusService ==
    /\ locator' = WithBus(locator) /\ locator'.made <= MaxServices
    /\ UNCHANGED <<busClass, swingClass, reset>>

GetSwingEventService ==
    /\ locator' = WithSwing(locator) /\ locator'.made <= MaxServices
    /\ UNCHANGED <<busClass, swingClass, reset>>

\* setEventService(n, es), es a service the client has made.
SetEventService(n) ==
    /\ locator.made < MaxServices
    /\ locator' = IF Exists(n) THEN locator
                  ELSE Registered(Made(locator), n, locator.made + 1)
    /\ UNCHANGED <<busClass, swingClass, reset>>

\* setEventService(n, null).
ResetEventService(n) ==
    /\ Exists(n)
    /\ locator' = Registered(locator, n, Null)
    /\ reset' = reset \cup {n}
    /\ UNCHANGED <<busClass, swingClass>>

\* clearAll: package-private, for the classes of the event bus itself.
ClearAll ==
    /\ \E n \in Names : Exists(n)
    /\ locator' = [NoServices EXCEPT !.made = locator.made]
    /\ reset' = reset \cup {n \in Names : Exists(n)}
    /\ UNCHANGED <<busClass, swingClass>>

\* What clients of the locator other than the annotations do.
LocatorStep ==
    \/ GetEventBusService
    \/ GetSwingEventService
    \/ \E n \in ClientNames : SetEventService(n)
    \/ \E n \in ClientNames \ reset : ResetEventService(n)
    \/ reset = {} /\ ClearAll
-----------------------------------------------------------------------------
\* The static fields and the map hold the same service under the two reserved
\* names, whichever of the getters, setEventService and clearAll ran: the static
\* methods of EventBus (the field) and the annotations (the map) use one bus.
StaticsAgree ==
    /\ locator.bus = locator.services[Bus]
    /\ locator.swing = locator.services[Swing]
=============================================================================
