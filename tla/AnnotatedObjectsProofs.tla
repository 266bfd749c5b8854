------------------------ MODULE AnnotatedObjectsProofs ------------------------
(***************************************************************************)
(* For any names, threads and annotated objects, and with any class        *)
(* properties: the map of the locator and its static fields agree,         *)
(* process() fails for want of a service only, the objects that name a     *)
(* service are all subscribed to one, and what process() and unprocess()   *)
(* promise of an object holds when they have returned.                     *)
(***************************************************************************)
EXTENDS AnnotatedObjects, NaturalsInduction, WellFoundedInduction, TLAPS

\* StaticsAgree of a locator.
Agrees(l) ==
    /\ DOMAIN l = {"services", "bus", "swing", "made"}
    /\ {Bus, Swing} \subseteq DOMAIN l.services
    /\ l.bus = l.services[Bus]
    /\ l.swing = l.services[Swing]

LEMMA NoServicesAgrees == Agrees(NoServices)
  BY LocatorAssumption DEF NoServices, Agrees

LEMMA MadeAgrees ==
    ASSUME NEW l, Agrees(l)
    PROVE  Agrees(Made(l))
  BY DEF Agrees, Made

\* A reserved name changes in the map and in its field, another in the map only.
LEMMA RegisteredAgrees ==
    ASSUME NEW l, NEW n, NEW es, Agrees(l)
    PROVE  Agrees(Registered(l, n, es))
  BY LocatorAssumption DEF Agrees, Registered

LEMMA WithSwingAgrees ==
    ASSUME NEW l, Agrees(l)
    PROVE  Agrees(WithSwing(l))
  BY MadeAgrees, RegisteredAgrees DEF WithSwing

\* getEventBusService registers up to two services, one under each name.
LEMMA WithBusAgrees ==
    ASSUME NEW l, Agrees(l)
    PROVE  Agrees(WithBus(l))
  <1> DEFINE s == WithSwing(l)
  <1>1. Agrees(s)
    BY WithSwingAgrees
  <1>2. /\ Agrees(Registered(Made(s), Bus, s.made + 1))
        /\ Agrees(Registered(s, Bus, s.swing))
    BY <1>1, MadeAgrees, RegisteredAgrees
  <1> QED
    BY <1>1, <1>2 DEF WithBus

LEMMA FoundAgrees ==
    ASSUME NEW l, NEW n, Agrees(l)
    PROVE  Agrees(Found(l, n))
  BY WithSwingAgrees, WithBusAgrees DEF Found

\* The methods that other clients call.
LEMMA LocatorStepAgrees ==
    ASSUME Agrees(locator), LocatorStep
    PROVE  Agrees(locator)'
  <1>1. CASE GetEventBusService
    BY <1>1, WithBusAgrees DEF GetEventBusService
  <1>2. CASE GetSwingEventService
    BY <1>2, WithSwingAgrees DEF GetSwingEventService
  <1>3. ASSUME NEW n \in ClientNames, SetEventService(n)
        PROVE  Agrees(locator)'
    BY <1>3, MadeAgrees, RegisteredAgrees DEF SetEventService
  <1>4. ASSUME NEW n \in ClientNames, ResetEventService(n)
        PROVE  Agrees(locator)'
    BY <1>4, RegisteredAgrees DEF ResetEventService
  <1>5. CASE ClearAll
    <2>1. locator' = [NoServices EXCEPT !.made = locator.made]
      BY <1>5 DEF ClearAll
    <2> QED
      BY <2>1, NoServicesAgrees DEF Agrees
  <1> QED
    BY <1>1, <1>2, <1>3, <1>4, <1>5 DEF LocatorStep

\* The steps of process and unprocess that call the locator.
LEMMA CallAgrees ==
    ASSUME Agrees(locator), NEW t \in Threads, GetService(t) \/ SetService(t)
    PROVE  Agrees(locator)'
  <1>1. CASE GetService(t)
    <2>1. PICK h \in call[t].todo :
            locator' \in {Found(locator, Name[h]), Made(locator)}
      BY <1>1 DEF GetService
    <2> QED
      BY <2>1, FoundAgrees, MadeAgrees
  <1>2. CASE SetService(t)
    <2>1. \/ locator' = locator
          \/ locator' = Registered(locator, Name[call[t].handler], call[t].service)
      BY <1>2 DEF SetService
    <2> QED
      BY <2>1, RegisteredAgrees
  <1> QED
    BY <1>1, <1>2

LEMMA NextAgrees == Agrees(locator) /\ [Next]_vars => Agrees(locator)'
  <1> SUFFICES ASSUME Agrees(locator), [Next]_vars
               PROVE  Agrees(locator)'
    OBVIOUS
  <1>1. ASSUME NEW t \in Threads, GetService(t) \/ SetService(t)
        PROVE  Agrees(locator)'
    BY <1>1, CallAgrees
  <1>2. ASSUME NEW t \in Threads, NEW op \in {"process", "unprocess"}, NEW o \in Objects,
               Begin(t, op, o)
        PROVE  locator' = locator
    BY <1>2 DEF Begin, locatorVars
  <1>3. ASSUME NEW t \in Threads,
               \/ Reget(t) \/ Subscribe(t) \/ Copy(t) \/ Look(t)
               \/ Dereference(t) \/ RemoveFound(t) \/ End(t)
        PROVE  locator' = locator
    BY <1>3 DEF Reget, Subscribe, Copy, Look, Dereference, RemoveFound, End, locatorVars
  <1>4. CASE LocatorStep
    BY <1>4, LocatorStepAgrees
  <1>5. CASE UNCHANGED vars
    BY <1>5 DEF vars, locatorVars
  <1> QED
    BY <1>1, <1>2, <1>3, <1>4, <1>5 DEF Next

\* getEventBusService and getEventService("EventBus") give the same service at all
\* times, whatever was made, set, reset or cleared, and by how many threads; so do
\* getSwingEventService and getEventService("SwingEventService").
THEOREM StaticsAgreeHolds == Spec => []StaticsAgree
  <1>1. Init => Agrees(locator)
    BY NoServicesAgrees DEF Init, LocatorInit
  <1>2. Agrees(locator) => StaticsAgree
    BY DEF Agrees, StaticsAgree
  <1> QED
    BY <1>1, <1>2, NextAgrees, PTL DEF Spec
-----------------------------------------------------------------------------
\* A locator as the class leaves it, its services numbered.
Sound(l) == Agrees(l) /\ l.made \in Nat /\ DOMAIN l.services = Names

\* No name that had a service in l is without one in m.
Kept(l, m) ==
    \A n \in Names : l.services[n] # Null => m.services[n] # Null

BrokenClass == "broken" \in {busClass, swingClass}

LEMMA NoServicesSound == Sound(NoServices)
  BY NoServicesAgrees DEF Sound, NoServices

LEMMA MadeSound ==
    ASSUME NEW l, Sound(l)
    PROVE  /\ Sound(Made(l)) /\ Kept(l, Made(l))
           /\ Made(l).services = l.services /\ Made(l).swing = l.swing
           /\ l.made + 1 \in Nat /\ l.made + 1 # Null
  <1>1. Agrees(Made(l))
    BY MadeAgrees DEF Sound
  <1> QED
    BY <1>1, LocatorAssumption DEF Sound, Agrees, Made, Kept

LEMMA RegisteredSound ==
    ASSUME NEW l, NEW n \in Names, NEW es, Sound(l)
    PROVE  /\ Sound(Registered(l, n, es))
           /\ Registered(l, n, es).services[n] = es
  <1>1. Agrees(Registered(l, n, es))
    BY RegisteredAgrees DEF Sound
  <1>2. /\ Registered(l, n, es).services = [l.services EXCEPT ![n] = es]
        /\ Registered(l, n, es).made = l.made
    BY DEF Registered, Sound, Agrees
  <1> QED
    BY <1>1, <1>2 DEF Sound

\* Registering a service takes none away.
LEMMA RegisteredKept ==
    ASSUME NEW l, NEW n \in Names, NEW es, Sound(l), es # Null \/ l.services[n] = Null
    PROVE  Kept(l, Registered(l, n, es))
  <1>1. Registered(l, n, es).services = [l.services EXCEPT ![n] = es]
    BY DEF Registered, Sound, Agrees
  <1> QED
    BY <1>1 DEF Sound, Kept

\* getSwingEventService leaves a service under the name unless its class is broken.
LEMMA WithSwingSound ==
    ASSUME NEW l, Sound(l)
    PROVE  /\ Sound(WithSwing(l)) /\ Kept(l, WithSwing(l))
           /\ swingClass # "broken" => WithSwing(l).services[Swing] # Null
  <1> DEFINE m == Registered(Made(l), Swing, l.made + 1)
  <1>1. /\ Sound(Made(l)) /\ Made(l).services = l.services
        /\ l.made + 1 # Null /\ Swing \in Names
    BY MadeSound, LocatorAssumption
  <1>2. Sound(m) /\ Kept(Made(l), m) /\ m.services[Swing] # Null
    <2>1. Sound(m) /\ m.services[Swing] = l.made + 1
      BY <1>1, RegisteredSound
    <2>2. Kept(Made(l), m)
      BY <1>1, RegisteredKept
    <2> QED
      BY <1>1, <2>1, <2>2
  <1>3. Kept(l, m) /\ Kept(l, l)
    BY <1>1, <1>2 DEF Kept
  <1>4. l.swing = l.services[Swing]
    BY DEF Sound, Agrees
  <1> QED
    BY <1>2, <1>3, <1>4 DEF WithSwing

\* getEventBusService needs the default service, its own class, or both.
LEMMA WithBusSound ==
    ASSUME NEW l, Sound(l)
    PROVE  /\ Sound(WithBus(l)) /\ Kept(l, WithBus(l))
           /\ ~BrokenClass => WithBus(l).services[Bus] # Null
  <1> DEFINE s == WithSwing(l)
             m == Registered(Made(s), Bus, s.made + 1)
             d == Registered(s, Bus, s.swing)
  <1>1. /\ Sound(s) /\ Kept(l, s)
        /\ swingClass # "broken" => s.services[Swing] # Null
    BY WithSwingSound
  <1>2. /\ Sound(Made(s)) /\ Made(s).services = s.services
        /\ s.made + 1 # Null /\ Bus \in Names
    BY <1>1, MadeSound, LocatorAssumption
  <1>3. Sound(m) /\ Kept(Made(s), m) /\ m.services[Bus] # Null
    <2>1. Sound(m) /\ m.services[Bus] = s.made + 1
      BY <1>2, RegisteredSound
    <2>2. Kept(Made(s), m)
      BY <1>2, RegisteredKept
    <2> QED
      BY <1>2, <2>1, <2>2
  <1>4. Sound(d) /\ d.services[Bus] = s.swing /\ (s.swing # Null => Kept(s, d))
    <2>1. Sound(d) /\ d.services[Bus] = s.swing
      BY <1>1, <1>2, RegisteredSound
    <2>2. ASSUME s.swing # Null
          PROVE  Kept(s, d)
      BY <1>1, <1>2, <2>2, RegisteredKept
    <2> QED
      BY <2>1, <2>2
  <1>5. Kept(l, m) /\ (s.swing # Null => Kept(l, d)) /\ Kept(l, l)
    BY <1>1, <1>2, <1>3, <1>4 DEF Kept
  <1>6. l.bus = l.services[Bus] /\ s.swing = s.services[Swing]
    BY <1>1 DEF Sound, Agrees
  <1> HIDE DEF s, m, d
  <1>7. WithBus(l) = IF l.bus # Null THEN l
                     ELSE IF s.swing = Null \/ busClass = "broken" THEN s
                     ELSE IF busClass = "found" THEN m ELSE d
    BY DEF WithBus, s, m, d
  <1> QED
    BY <1>1, <1>3, <1>4, <1>5, <1>6, <1>7 DEF BrokenClass

\* getEventService of a reserved name.
LEMMA FoundSound ==
    ASSUME NEW l, NEW n \in Names, Sound(l)
    PROVE  /\ Sound(Found(l, n)) /\ Kept(l, Found(l, n))
           /\ n \in {Bus, Swing} /\ ~BrokenClass => Found(l, n).services[n] # Null
  <1>1. Kept(l, l)
    BY DEF Kept
  <1>2. ~BrokenClass => swingClass # "broken"
    BY DEF BrokenClass
  <1> QED
    BY <1>1, <1>2, WithSwingSound, WithBusSound DEF Found
-----------------------------------------------------------------------------
Fields == {"op", "obj", "todo", "at", "handler", "service", "copy", "alone"}

\* A call, for a locator and the names reset: only unprocess looks for proxies, and
\* whoever lost the race to make a service will find the winner's or sees it reset.
CallOK(c, l, names) ==
    /\ DOMAIN c = Fields
    /\ c.op \in {"idle", "process", "unprocess"}
    /\ c.todo \subseteq Handlers
    /\ c.op # "idle" => c.todo \subseteq HandlersOf(c.obj)
    /\ c.at \in {"copy", "look", "deref", "remove"} => c.op = "unprocess"
    /\ c.at \in {"set", "reget"} => c.handler \in Handlers
    /\ c.at = "reget" => names # {} \/ l.services[Name[c.handler]] # Null

PInv ==
    /\ Sound(locator)
    /\ DOMAIN call = Threads
    /\ \A t \in Threads : CallOK(call[t], locator, reset)
    /\ DOMAIN last = Objects
    /\ ProcessFailsForWantOfService

\* What is said of a call survives as long as services are kept or a name is reset.
LEMMA CallStaysOK ==
    ASSUME NEW c, NEW l, NEW m, NEW R, NEW S,
           CallOK(c, l, R), R \subseteq S, Kept(l, m) \/ S # {}
    PROVE  CallOK(c, m, S)
  <1>1. \A h \in Handlers : Name[h] \in Names
    BY AnnotatedAssumption
  <1> QED
    BY <1>1 DEF CallOK, Kept

LEMMA IdleOK == CallOK(Idle, locator, reset)
  BY DEF CallOK, Idle, Fields

\* Steps of one thread in which no call ends by an exception.
LEMMA GoesOn ==
    ASSUME PInv, NEW t \in Threads, NEW c,
           call' = [call EXCEPT ![t] = c], CallOK(c, locator', reset),
           Sound(locator'), Kept(locator, locator'),
           UNCHANGED <<busClass, swingClass, reset, last>>
    PROVE  PInv'
  <1>1. \A u \in Threads : CallOK(call'[u], locator', reset')
    <2> TAKE u \in Threads
    <2>1. CallOK(call[u], locator', reset')
      BY CallStaysOK DEF PInv
    <2> QED
      BY <2>1 DEF PInv
  <1> QED
    BY <1>1 DEF PInv, ProcessFailsForWantOfService

\* An exception is excused in unprocess, after a reset and by a class that cannot be made.
LEMMA FailsForWant ==
    ASSUME PInv, NEW t \in Threads, Fail(t),
           call[t].op = "process" =>
               reset # {} \/ BrokenClass \/ HandlersOf(call[t].obj) \cap Fragile # {},
           Sound(locator'), Kept(locator, locator'),
           UNCHANGED <<busClass, swingClass, reset>>
    PROVE  PInv'
  <1>1. \A u \in Threads : CallOK(call'[u], locator', reset')
    <2> TAKE u \in Threads
    <2>1. CallOK(call[u], locator', reset') /\ CallOK(Idle, locator', reset')
      BY CallStaysOK, IdleOK DEF PInv
    <2> QED
      BY <2>1 DEF PInv, Fail
  <1>2. DOMAIN last' = Objects /\ DOMAIN call' = Threads
    BY DEF PInv, Fail
  <1>3. ProcessFailsForWantOfService'
    BY DEF PInv, Fail, ProcessFailsForWantOfService, BrokenClass
  <1> QED
    BY <1>1, <1>2, <1>3 DEF PInv

LEMMA BeginPInv ==
    ASSUME PInv, NEW t \in Threads, NEW op \in {"process", "unprocess"},
           NEW o \in Objects, Begin(t, op, o)
    PROVE  PInv'
  <1>1. \A u \in Threads : CallOK(call[u], locator, reset)
    BY DEF PInv
  <1>2. \A u \in Threads : CallOK([call[u] EXCEPT !.alone = FALSE], locator, reset)
    BY <1>1 DEF CallOK
  <1>3. \A a \in BOOLEAN :
          CallOK([Idle EXCEPT !.op = op, !.obj = o, !.todo = HandlersOf(o), !.alone = a],
                 locator, reset)
    BY DEF CallOK, Idle, Fields, HandlersOf
  <1>4. UNCHANGED <<locator, reset, busClass, swingClass>>
    BY DEF Begin, locatorVars
  <1>5. DOMAIN call' = Threads /\ \A u \in Threads : CallOK(call'[u], locator, reset)
    <2>1. DOMAIN call' = Threads
      BY DEF Begin
    <2>2. ASSUME NEW u \in Threads
          PROVE  CallOK(call'[u], locator, reset)
      <3> DEFINE new == [Idle EXCEPT !.op = op, !.obj = o, !.todo = HandlersOf(o),
                                     !.alone = (CallsFor(o) = {})]
      <3>1. CallOK(new, locator, reset)
        BY <1>3
      <3>2. call'[u] = IF u = t THEN new
                       ELSE IF u \in CallsFor(o) THEN [call[u] EXCEPT !.alone = FALSE]
                       ELSE call[u]
        BY DEF Begin
      <3> HIDE DEF new
      <3> QED
        BY <1>1, <1>2, <3>1, <3>2
    <2> QED
      BY <2>1, <2>2
  <1>6. DOMAIN last' = Objects /\ ProcessFailsForWantOfService'
    BY <1>4 DEF Begin, PInv, ProcessFailsForWantOfService
  <1> QED
    BY <1>4, <1>5, <1>6 DEF PInv

\* The call as it goes on once it has the service.
LEMMA WithServiceOK ==
    ASSUME NEW t \in Threads, NEW h, NEW es, NEW l, NEW R,
           CallOK(call[t], l, R), call[t].op # "idle"
    PROVE  CallOK(WithService(t, h, es), l, R)
  BY DEF CallOK, WithService, Fields

LEMMA GetServicePInv ==
    ASSUME PInv, NEW t \in Threads, GetService(t)
    PROVE  PInv'
  <1>1. /\ CallOK(call[t], locator, reset) /\ call[t].op # "idle" /\ Sound(locator)
        /\ UNCHANGED <<busClass, swingClass, reset>>
    BY DEF PInv, GetService, Busy
  <1>2. PICK h \in call[t].todo :
          LET n == Name[h]
              es == Found(locator, n).services[n]
          IN  \/ /\ locator' = Found(locator, n)
                 /\ call' = [call EXCEPT ![t] = WithService(t, h, es)]
                 /\ UNCHANGED last
              \/ /\ es = Null /\ (n \in {Bus, Swing} \/ h \in Fragile)
                 /\ locator' = Found(locator, n)
                 /\ Fail(t)
              \/ /\ locator' = Made(locator)
                 /\ call' = [call EXCEPT ![t] =
                              [WithService(t, h, locator'.made) EXCEPT !.at = "set"]]
                 /\ UNCHANGED last
    BY DEF GetService
  <1> DEFINE n == Name[h]
             es == Found(locator, n).services[n]
  <1>3. h \in Handlers /\ n \in Names
    BY <1>1, AnnotatedAssumption DEF CallOK
  <1>4. CASE /\ locator' = Found(locator, n)
             /\ call' = [call EXCEPT ![t] = WithService(t, h, es)]
             /\ UNCHANGED last
    <2>1. Sound(locator') /\ Kept(locator, locator')
      BY <1>1, <1>3, <1>4, FoundSound
    <2>2. CallOK(WithService(t, h, es), locator', reset)
      BY <1>1, <2>1, WithServiceOK, CallStaysOK
    <2> QED
      BY <1>1, <1>4, <2>1, <2>2, GoesOn
  <1>5. CASE /\ es = Null /\ (n \in {Bus, Swing} \/ h \in Fragile)
             /\ locator' = Found(locator, n) /\ Fail(t)
    <2>1. /\ Sound(locator') /\ Kept(locator, locator')
          /\ BrokenClass \/ HandlersOf(call[t].obj) \cap Fragile # {}
      <3>1. Sound(locator') /\ Kept(locator, locator')
        BY <1>1, <1>3, <1>5, FoundSound
      <3>2. CASE n \in {Bus, Swing}
        BY <1>1, <1>3, <1>5, <3>2, FoundSound
      <3>3. CASE h \in Fragile
        BY <1>1, <3>1, <3>3 DEF CallOK
      <3> QED
        BY <1>5, <3>1, <3>2, <3>3
    <2> QED
      BY <1>1, <1>5, <2>1, FailsForWant
  <1>6. CASE /\ locator' = Made(locator)
             /\ call' = [call EXCEPT ![t] =
                          [WithService(t, h, locator'.made) EXCEPT !.at = "set"]]
             /\ UNCHANGED last
    <2>1. Sound(locator') /\ Kept(locator, locator')
      BY <1>1, <1>6, MadeSound
    <2>2. CallOK([WithService(t, h, locator'.made) EXCEPT !.at = "set"], locator', reset)
      BY <1>1, <1>3 DEF CallOK, WithService, Fields
    <2> QED
      BY <1>1, <1>6, <2>1, <2>2, GoesOn
  <1> QED
    BY <1>2, <1>4, <1>5, <1>6

\* The loser of the race finds the name taken, and goes to look it up again.
LEMMA SetServicePInv ==
    ASSUME PInv, NEW t \in Threads, SetService(t)
    PROVE  PInv'
  <1> DEFINE c == call[t]
             n == Name[c.handler]
  <1>1. /\ CallOK(c, locator, reset) /\ c.op # "idle" /\ c.at = "set" /\ Sound(locator)
        /\ UNCHANGED <<busClass, swingClass, reset, last>>
    BY DEF PInv, SetService, Busy
  <1>2. c.handler \in Handlers /\ n \in Names
    BY <1>1, AnnotatedAssumption DEF CallOK
  <1>3. CASE Exists(n)
    <2>1. locator' = locator /\ call' = [call EXCEPT ![t].at = "reget"]
      BY <1>3 DEF SetService, Goto
    <2>2. CallOK([c EXCEPT !.at = "reget"], locator', reset)
      BY <1>1, <1>2, <1>3, <2>1 DEF CallOK, Fields, Exists
    <2> QED
      BY <1>1, <2>1, <2>2, GoesOn DEF Kept
  <1>4. CASE ~Exists(n)
    <2>1. /\ locator' = Registered(locator, n, c.service)
          /\ call' = [call EXCEPT ![t] = WithService(t, c.handler, c.service)]
      BY <1>4 DEF SetService
    <2>2. Sound(locator') /\ Kept(locator, locator')
      BY <1>1, <1>2, <1>4, <2>1, RegisteredSound, RegisteredKept DEF Exists
    <2>3. CallOK(WithService(t, c.handler, c.service), locator', reset)
      BY <1>1, <2>2, WithServiceOK, CallStaysOK
    <2> QED
      BY <1>1, <2>1, <2>2, <2>3, GoesOn
  <1> QED
    BY <1>3, <1>4

\* The second lookup comes back with nothing only if the name was reset.
LEMMA RegetPInv ==
    ASSUME PInv, NEW t \in Threads, Reget(t)
    PROVE  PInv'
  <1> DEFINE h == call[t].handler
             es == locator.services[Name[h]]
  <1>1. /\ CallOK(call[t], locator, reset) /\ call[t].op # "idle" /\ call[t].at = "reget"
        /\ Sound(locator) /\ Kept(locator, locator)
        /\ UNCHANGED <<locator, busClass, swingClass, reset>>
    BY DEF PInv, Reget, Busy, Kept, locatorVars
  <1>2. CASE es = Null
    <2>1. Fail(t) /\ reset # {}
      BY <1>1, <1>2 DEF Reget, CallOK
    <2> QED
      BY <1>1, <2>1, FailsForWant
  <1>3. CASE es # Null
    <2>1. call' = [call EXCEPT ![t] = WithService(t, h, es)] /\ last' = last
      BY <1>3 DEF Reget
    <2>2. CallOK(WithService(t, h, es), locator, reset)
      BY <1>1, WithServiceOK
    <2> QED
      BY <1>1, <2>1, <2>2, GoesOn
  <1> QED
    BY <1>2, <1>3

\* Subscribing, copying, looking and removing: of these only unprocess can fail.
LEMMA ListStepPInv ==
    ASSUME PInv, NEW t \in Threads,
           \/ Subscribe(t) \/ Copy(t) \/ Look(t) \/ Dereference(t) \/ RemoveFound(t)
    PROVE  PInv'
  <1> DEFINE c == call[t]
             next == [Idle EXCEPT !.op = c.op, !.obj = c.obj, !.todo = c.todo,
                                  !.alone = c.alone]
             OnTheWay(d) == DOMAIN d = Fields /\ d.op = c.op /\ d.obj = c.obj
                            /\ d.todo = c.todo /\ d.at \in {"look", "deref", "remove"}
  <1>1. /\ CallOK(c, locator, reset) /\ Sound(locator) /\ Kept(locator, locator)
        /\ UNCHANGED <<locator, busClass, swingClass, reset>>
    BY DEF PInv, Kept, Subscribe, Copy, Look, Dereference, RemoveFound, locatorVars
  <1>2. CallOK(next, locator, reset)
    BY <1>1 DEF CallOK, Idle, Fields
  <1>3. CASE call' = [call EXCEPT ![t] = next] /\ last' = last
    BY <1>1, <1>2, <1>3, GoesOn
  <1>4. ASSUME c.op = "unprocess", NEW d, OnTheWay(d),
               call' = [call EXCEPT ![t] = d], last' = last
        PROVE  PInv'
    <2>1. CallOK(d, locator, reset)
      BY <1>1, <1>4 DEF CallOK
    <2> QED
      BY <1>1, <1>4, <2>1, GoesOn
  <1>5. ASSUME NEW p, Compared(t, p), c.op = "unprocess", last' = last
        PROVE  PInv'
    <2> DEFINE d1 == [c EXCEPT !.copy = {p}, !.at = "remove"]
               d2 == [c EXCEPT !.copy = @ \ {p}, !.at = "look"]
    <2>1. OnTheWay(d1) /\ OnTheWay(d2)
      BY <1>1 DEF CallOK, Fields
    <2>2. call' = [call EXCEPT ![t] = d1] \/ call' = [call EXCEPT ![t] = d2]
      BY <1>5 DEF Compared, Goto
    <2> HIDE DEF d1, d2, OnTheWay
    <2> QED
      BY <1>4, <1>5, <2>1, <2>2
  <1>6. CASE Subscribe(t) \/ RemoveFound(t)
    BY <1>3, <1>6 DEF Subscribe, RemoveFound, NextHandler
  <1>7. CASE Copy(t)
    <2>1. c.op = "unprocess" /\ last' = last
      BY <1>1, <1>7 DEF Copy, Busy, CallOK
    <2>2. PICK q : call' = [call EXCEPT ![t].at = "look", ![t].copy = q]
      BY <1>7 DEF Copy
    <2> DEFINE d == [c EXCEPT !.at = "look", !.copy = q]
    <2>3. OnTheWay(d) /\ call' = [call EXCEPT ![t] = d]
      BY <1>1, <2>2 DEF CallOK, Fields, PInv
    <2> HIDE DEF d, OnTheWay
    <2> QED
      BY <1>4, <2>1, <2>3
  <1>8. CASE Look(t)
    <2>1. c.op = "unprocess" /\ last' = last
      BY <1>1, <1>8 DEF Look, Busy, CallOK
    <2> DEFINE d == [c EXCEPT !.at = "deref"]
    <2>2. OnTheWay(d)
      BY <1>1 DEF CallOK, Fields
    <2>3. \/ NextHandler(t)
          \/ call' = [call EXCEPT ![t] = d]
          \/ Compared(t, NextInCopy(t))
      BY <1>8 DEF Look, Goto
    <2>4. NextHandler(t) => call' = [call EXCEPT ![t] = next]
      BY DEF NextHandler
    <2> HIDE DEF d, OnTheWay, next
    <2> QED
      BY <1>3, <1>4, <1>5, <2>1, <2>2, <2>3, <2>4
  <1>9. CASE Dereference(t)
    <2>1. c.op = "unprocess"
      BY <1>1, <1>9 DEF Dereference, Busy, CallOK
    <2>2. \/ Compared(t, NextInCopy(t)) /\ last' = last
          \/ Fail(t)
      BY <1>9 DEF Dereference
    <2>3. ASSUME Fail(t)
          PROVE  PInv'
      BY <1>1, <2>1, <2>3, FailsForWant
    <2> QED
      BY <1>5, <2>1, <2>2, <2>3
  <1> QED
    BY <1>6, <1>7, <1>8, <1>9

LEMMA EndPInv ==
    ASSUME PInv, NEW t \in Threads, End(t)
    PROVE  PInv'
  <1>1. /\ call' = [call EXCEPT ![t] = Idle]
        /\ UNCHANGED <<locator, busClass, swingClass, reset>>
    BY DEF End, locatorVars
  <1>2. DOMAIN call' = Threads /\ \A u \in Threads : CallOK(call'[u], locator, reset)
    BY <1>1, IdleOK DEF PInv
  <1>3. call[t].op \in {"process", "unprocess"}
    BY DEF PInv, CallOK, End, Busy
  <1>4. DOMAIN last' = Objects /\ ProcessFailsForWantOfService'
    <2>1. PICK e \in {"unknown", "processed", "unprocessed"} :
            last' = [last EXCEPT ![call[t].obj] = e]
      BY <1>3 DEF End
    <2> QED
      BY <1>1, <2>1 DEF PInv, ProcessFailsForWantOfService
  <1> QED
    BY <1>1, <1>2, <1>4 DEF PInv

\* Only a reset and clearAll take a service away, and both are remembered.
LEMMA LocatorStepSound ==
    ASSUME Sound(locator), LocatorStep
    PROVE  /\ Sound(locator') /\ reset \subseteq reset'
           /\ Kept(locator, locator') \/ reset' # {}
           /\ UNCHANGED <<busClass, swingClass>>
  <1>1. CASE GetEventBusService
    BY <1>1, WithBusSound DEF GetEventBusService
  <1>2. CASE GetSwingEventService
    BY <1>2, WithSwingSound DEF GetSwingEventService
  <1>3. ASSUME NEW n \in ClientNames, SetEventService(n)
        PROVE  Sound(locator') /\ Kept(locator, locator')
    <2>1. CASE Exists(n)
      BY <1>3, <2>1 DEF SetEventService, Kept
    <2>2. CASE ~Exists(n)
      <3>1. locator' = Registered(Made(locator), n, locator.made + 1)
        BY <1>3, <2>2 DEF SetEventService
      <3>2. /\ Sound(Made(locator)) /\ Made(locator).services = locator.services
            /\ locator.made + 1 # Null /\ n \in Names
        BY MadeSound, LocatorAssumption
      <3>3. Sound(locator') /\ Kept(Made(locator), locator')
        BY <3>1, <3>2, RegisteredSound, RegisteredKept
      <3> QED
        BY <3>2, <3>3 DEF Kept
    <2> QED
      BY <2>1, <2>2
  <1>4. ASSUME NEW n \in ClientNames, ResetEventService(n)
        PROVE  Sound(locator') /\ reset' = reset \cup {n}
    BY <1>4, RegisteredSound, LocatorAssumption DEF ResetEventService
  <1>5. ASSUME ClearAll
        PROVE  Sound(locator') /\ reset \subseteq reset' /\ reset' # {}
    <2>1. locator' = [NoServices EXCEPT !.made = locator.made]
      BY <1>5 DEF ClearAll
    <2>2. Sound(locator')
      BY <2>1, NoServicesSound DEF Sound, Agrees
    <2> QED
      BY <1>5, <2>2 DEF ClearAll
  <1>6. UNCHANGED <<busClass, swingClass>>
    BY DEF LocatorStep, GetEventBusService, GetSwingEventService, SetEventService,
           ResetEventService, ClearAll
  <1>7. CASE \E n \in ClientNames : SetEventService(n)
    BY <1>3, <1>6, <1>7 DEF SetEventService
  <1>8. CASE \E n \in ClientNames \ reset : ResetEventService(n)
    BY <1>4, <1>6, <1>8
  <1>9. CASE ClearAll
    BY <1>5, <1>6, <1>9
  <1>10. CASE GetEventBusService \/ GetSwingEventService
    BY <1>1, <1>2, <1>6, <1>10 DEF GetEventBusService, GetSwingEventService
  <1> QED
    BY <1>7, <1>8, <1>9, <1>10 DEF LocatorStep

LEMMA LocatorStepPInv ==
    ASSUME PInv, LocatorStep, UNCHANGED <<call, last>>
    PROVE  PInv'
  <1>1. /\ Sound(locator') /\ reset \subseteq reset'
        /\ Kept(locator, locator') \/ reset' # {}
        /\ UNCHANGED <<busClass, swingClass>>
    BY LocatorStepSound DEF PInv
  <1>2. \A u \in Threads : CallOK(call[u], locator', reset')
    BY <1>1, CallStaysOK DEF PInv
  <1>3. ProcessFailsForWantOfService'
    BY <1>1 DEF PInv, ProcessFailsForWantOfService
  <1> QED
    BY <1>1, <1>2, <1>3 DEF PInv

LEMMA NextPInv == PInv /\ [Next]_vars => PInv'
  <1> SUFFICES ASSUME PInv, [Next]_vars
               PROVE  PInv'
    OBVIOUS
  <1>1. ASSUME NEW t \in Threads, NEW op \in {"process", "unprocess"}, NEW o \in Objects,
               Begin(t, op, o)
        PROVE  PInv'
    BY <1>1, BeginPInv
  <1>2. ASSUME NEW t \in Threads, GetService(t) \/ SetService(t) \/ Reget(t)
        PROVE  PInv'
    BY <1>2, GetServicePInv, SetServicePInv, RegetPInv
  <1>3. ASSUME NEW t \in Threads,
               Subscribe(t) \/ Copy(t) \/ Look(t) \/ Dereference(t) \/ RemoveFound(t)
        PROVE  PInv'
    BY <1>3, ListStepPInv
  <1>4. ASSUME NEW t \in Threads, End(t)
        PROVE  PInv'
    BY <1>4, EndPInv
  <1>5. CASE LocatorStep /\ UNCHANGED <<lists, proxies, call, begun, last>>
    BY <1>5, LocatorStepPInv
  <1>6. CASE UNCHANGED vars
    BY <1>6 DEF vars, locatorVars, PInv, ProcessFailsForWantOfService
  <1> QED
    BY <1>1, <1>2, <1>3, <1>4, <1>5, <1>6 DEF Next

\* process() fails only when a service was taken away or a class property is broken:
\* however many threads make the service of one name at once, the losers subscribe to
\* the winner's (getEventServiceFromAnnotation), and no proxy that another thread
\* unsubscribes makes process() fail.
THEOREM ProcessFailsOnlyForWant == Spec => []ProcessFailsForWantOfService
  <1>1. Init => PInv
    <2> SUFFICES ASSUME Init
                 PROVE  PInv
      OBVIOUS
    <2>1. Sound(locator)
      BY NoServicesSound DEF Init, LocatorInit
    <2>2. \A t \in Threads : CallOK(call[t], locator, reset)
      BY IdleOK DEF Init
    <2>3. \A o \in Objects : last[o] = "none"
      BY DEF Init
    <2>4. DOMAIN call = Threads /\ DOMAIN last = Objects
      BY DEF Init
    <2> QED
      BY <2>1, <2>2, <2>3, <2>4 DEF PInv, ProcessFailsForWantOfService
  <1>2. PInv => ProcessFailsForWantOfService
    BY DEF PInv
  <1> QED
    BY <1>1, <1>2, NextPInv, PTL DEF Spec
-----------------------------------------------------------------------------
(***************************************************************************)
(* Processed objects are subscribed, unprocessed ones gone, and to one     *)
(* service per name.  First the locator.                                   *)
(***************************************************************************)

\* A locator whose services are numbered, with one service under two names only if they
\* are the reserved ones.
LocatorOK(l) ==
    /\ l \in [services : [Names -> (1..l.made) \cup {Null}], bus : (1..l.made) \cup {Null},
              swing : (1..l.made) \cup {Null}, made : Nat]
    /\ l.bus = l.services[Bus] /\ l.swing = l.services[Swing]
    /\ \A m, n \in Names :
        l.services[m] = l.services[n] /\ l.services[m] # Null => m = n \/ {m, n} = {Bus, Swing}

\* No name but those of R loses the service it has.
Stable(l, m, R) ==
    \A n \in Names \ R : l.services[n] # Null => m.services[n] = l.services[n]

\* A service that is under no name.
Unnamed(l, es) == \A n \in Names : l.services[n] # es

\* What the getters make of a locator: services are added, and not under a number given
\* out before.
Grown(l, m) ==
    /\ LocatorOK(m) /\ Stable(l, m, {}) /\ l.made <= m.made
    /\ \A es \in 1..l.made : Unnamed(l, es) => Unnamed(m, es)

LEMMA GrownAgain ==
    ASSUME NEW k, NEW l, NEW m, LocatorOK(k), Grown(k, l), Grown(l, m)
    PROVE  Grown(k, m)
  <1>1. k.made \in Nat /\ l.made \in Nat /\ m.made \in Nat
    BY DEF LocatorOK, Grown
  <1>2. k.made <= m.made /\ 1..k.made \subseteq 1..l.made
    BY <1>1 DEF Grown
  <1>3. Stable(k, m, {})
    BY DEF Grown, Stable
  <1> QED
    BY <1>2, <1>3 DEF Grown

LEMMA MadeOK ==
    ASSUME NEW l, LocatorOK(l)
    PROVE  /\ Grown(l, Made(l)) /\ Made(l).services = l.services
           /\ Made(l).made = l.made + 1 /\ l.made + 1 \in Nat
           /\ Unnamed(Made(l), l.made + 1)
  <1> DEFINE m == Made(l)
  <1>1. l.made \in Nat /\ m = [l EXCEPT !.made = l.made + 1]
    BY DEF LocatorOK, Made
  <1>2. /\ m.services = l.services /\ m.bus = l.bus /\ m.swing = l.swing /\ m.made = l.made + 1
        /\ m \in [services : [Names -> (1..l.made) \cup {Null}], bus : (1..l.made) \cup {Null},
                  swing : (1..l.made) \cup {Null}, made : Nat]
    BY <1>1 DEF LocatorOK
  <1>3. 1..l.made \subseteq 1..m.made
    BY <1>1, <1>2
  <1>4. LocatorOK(m)
    BY <1>2, <1>3 DEF LocatorOK
  <1>5. Unnamed(m, l.made + 1)
    BY <1>1, <1>2, LocatorAssumption DEF Unnamed
  <1>6. Stable(l, m, {}) /\ \A es \in 1..l.made : Unnamed(l, es) => Unnamed(m, es)
    BY <1>2 DEF Stable, Unnamed
  <1>7. l.made <= m.made
    BY <1>1, <1>2
  <1> QED
    BY <1>1, <1>2, <1>4, <1>5, <1>6, <1>7 DEF Grown

\* A service under a name that has none, and under no other but a reserved one's pair.
LEMMA RegisteredOK ==
    ASSUME NEW l, LocatorOK(l), NEW n \in Names, l.services[n] = Null, NEW es \in 1..l.made,
           \A m \in Names : l.services[m] = es => {m, n} = {Bus, Swing}
    PROVE  LET r == Registered(l, n, es)
           IN /\ LocatorOK(r) /\ Stable(l, r, {}) /\ r.made = l.made
              /\ r.services[n] = es /\ \A m \in Names \ {n} : r.services[m] = l.services[m]
  <1> DEFINE r == Registered(l, n, es)
  <1>1. /\ r.services = [l.services EXCEPT ![n] = es]
        /\ r.bus = IF n = Bus THEN es ELSE l.bus
        /\ r.swing = IF n = Swing THEN es ELSE l.swing
        /\ r.made = l.made
        /\ r \in [services : [Names -> (1..l.made) \cup {Null}], bus : (1..l.made) \cup {Null},
                  swing : (1..l.made) \cup {Null}, made : Nat]
    BY DEF Registered, LocatorOK
  <1>2. r.services[n] = es /\ \A m \in Names \ {n} : r.services[m] = l.services[m]
    BY <1>1 DEF LocatorOK
  <1>3. r.bus = r.services[Bus] /\ r.swing = r.services[Swing]
    BY <1>1, <1>2, LocatorAssumption DEF LocatorOK
  <1> HIDE DEF r
  <1>4. \A m, k \in Names :
            r.services[m] = r.services[k] /\ r.services[m] # Null => m = k \/ {m, k} = {Bus, Swing}
    BY <1>2 DEF LocatorOK
  <1>5. LocatorOK(r)
    BY <1>1, <1>3, <1>4 DEF LocatorOK
  <1>6. Stable(l, r, {})
    BY <1>2 DEF Stable
  <1> QED
    BY <1>1, <1>2, <1>5, <1>6 DEF r

\* A new service under a name that has none.
LEMMA RegisteredNewOK ==
    ASSUME NEW l, LocatorOK(l), NEW n \in Names, l.services[n] = Null
    PROVE  LET r == Registered(Made(l), n, l.made + 1)
           IN Grown(l, r) /\ r.services[n] = l.made + 1
  <1> DEFINE m == Made(l)
             r == Registered(m, n, l.made + 1)
  <1>1. /\ Grown(l, m) /\ LocatorOK(m) /\ m.services = l.services /\ m.made = l.made + 1
        /\ l.made \in Nat /\ Unnamed(m, l.made + 1)
    BY MadeOK DEF Grown, LocatorOK
  <1> HIDE DEF m
  <1>2. /\ l.made + 1 \in 1..m.made /\ m.services[n] = Null
        /\ \A k \in Names : m.services[k] # l.made + 1
    BY <1>1 DEF Unnamed
  <1>3. /\ LocatorOK(r) /\ Stable(m, r, {}) /\ r.made = m.made
        /\ r.services[n] = l.made + 1 /\ \A k \in Names \ {n} : r.services[k] = m.services[k]
    BY <1>1, <1>2, RegisteredOK
  <1> HIDE DEF r
  <1>4. ASSUME NEW es \in 1..l.made, Unnamed(l, es)
        PROVE  Unnamed(r, es)
    <2>1. es # l.made + 1
      BY <1>1
    <2>2. \A k \in Names : r.services[k] # es
      BY <1>1, <1>3, <1>4, <2>1 DEF Unnamed
    <2> QED
      BY <2>2 DEF Unnamed
  <1>5. Stable(l, r, {}) /\ l.made <= r.made
    BY <1>1, <1>3 DEF Stable
  <1> QED
    BY <1>3, <1>4, <1>5 DEF Grown, r, m

LEMMA GrownSelf ==
    ASSUME NEW l, LocatorOK(l)
    PROVE  Grown(l, l)
  BY DEF Grown, Stable, LocatorOK

LEMMA WithSwingOK ==
    ASSUME NEW l, LocatorOK(l)
    PROVE  Grown(l, WithSwing(l))
  <1>1. l.swing = l.services[Swing] /\ Swing \in Names
    BY LocatorAssumption DEF LocatorOK
  <1>2. l.swing = Null => Grown(l, Registered(Made(l), Swing, l.made + 1))
    BY <1>1, RegisteredNewOK
  <1> QED
    BY <1>2, GrownSelf DEF WithSwing

LEMMA WithBusOK ==
    ASSUME NEW l, LocatorOK(l)
    PROVE  Grown(l, WithBus(l))
  <1> DEFINE s == WithSwing(l)
             m == Registered(Made(s), Bus, s.made + 1)
             d == Registered(s, Bus, s.swing)
  <1>1. Grown(l, s) /\ LocatorOK(s)
    BY WithSwingOK DEF Grown
  <1>2. /\ l.bus = l.services[Bus] /\ Bus \in Names /\ Swing \in Names /\ Bus # Swing
        /\ s.swing = s.services[Swing] /\ s.bus = s.services[Bus]
    BY <1>1, LocatorAssumption DEF LocatorOK
  <1>3. l.bus = Null => s.services[Bus] = Null
    BY <1>2 DEF WithSwing, Registered, Made, LocatorOK
  <1> HIDE DEF s
  <1>4. l.bus = Null => Grown(l, m)
    <2> HAVE l.bus = Null
    <2>1. Grown(s, m)
      BY <1>1, <1>2, <1>3, RegisteredNewOK
    <2> QED
      BY <1>1, <2>1, GrownAgain
  <1>5. l.bus = Null /\ s.swing # Null => Grown(l, d)
    <2> HAVE l.bus = Null /\ s.swing # Null
    <2>1. s.swing \in 1..s.made
      BY <1>1 DEF LocatorOK
    <2>2. \A k \in Names : s.services[k] = s.swing => {k, Bus} = {Bus, Swing}
      BY <1>1, <1>2, <1>3 DEF LocatorOK
    <2>3. /\ LocatorOK(d) /\ Stable(s, d, {}) /\ d.made = s.made
          /\ d.services[Bus] = s.swing /\ \A k \in Names \ {Bus} : d.services[k] = s.services[k]
      BY <1>1, <1>2, <1>3, <2>1, <2>2, RegisteredOK
    <2> HIDE DEF d
    <2>4. Grown(s, d)
      BY <1>1, <1>2, <2>3 DEF Grown, Unnamed, LocatorOK
    <2> QED
      BY <1>1, <2>4, GrownAgain
  <1>6. WithBus(l) = IF l.bus # Null THEN l
                     ELSE IF s.swing = Null \/ busClass = "broken" THEN s
                     ELSE IF busClass = "found" THEN m ELSE d
    BY DEF WithBus, s
  <1> HIDE DEF m, d
  <1> QED
    BY <1>1, <1>4, <1>5, <1>6, GrownSelf

LEMMA FoundOK ==
    ASSUME NEW l, LocatorOK(l), NEW n
    PROVE  Grown(l, Found(l, n))
  BY WithSwingOK, WithBusOK, GrownSelf DEF Found
-----------------------------------------------------------------------------
(***************************************************************************)
(* The inductive invariant, as predicates of a call c, a locator l, the    *)
(* names R reset, the lists ls and the proxies ps.                         *)
(***************************************************************************)

\* s is the service of the name that h's annotation gives, as long as that is not reset.
Serves(l, R, s, h) == Name[h] \notin R => l.services[Name[h]] = s

\* Each proxy has its object and is in the list of its method, of one service, that of its
\* name; of one method there is one weak proxy at most.
ListsOK(ls, ps, l, R) ==
    /\ ls \in [Services -> [Lists -> SUBSET DOMAIN ps]]
    /\ ps \in Seq([handler : Handlers, set : BOOLEAN])
    /\ \A s \in Services, k \in Lists : \A p \in ls[s][k] :
        /\ ps[p].set /\ List[ps[p].handler] = k /\ Serves(l, R, s, ps[p].handler)
        /\ \A z \in Services : p \in ls[z][k] => z = s
        /\ \A q \in ls[s][k] :
            ps[p].handler = ps[q].handler /\ ps[p].handler \notin Strong => p = q

IsSubscribed(ls, ps, h) ==
    \E s \in Services : \E p \in ls[s][List[h]] : Owner[ps[p].handler] = Owner[h]
IsGone(ls, ps, h) == \A s \in Services, k \in Lists : \A p \in ls[s][k] : ps[p].handler # h

\* The precondition of UnprocessedIsGone.
Clean(o, R, ps) ==
    /\ Separate(o) /\ R = {}
    /\ \A h \in HandlersOf(o) \cap Strong : \A p, q \in DOMAIN ps :
        ps[p].handler = h /\ ps[q].handler = h => p = q

Searching == {"look", "deref", "remove"}
Visited(c) == {h \in HandlersOf(c.obj) \ c.todo : c.at = "next" \/ h # c.handler}

\* Where a call is, and the service it has there.
Placed(c, l, R) ==
    /\ c.op # "idle" => c.todo \subseteq HandlersOf(c.obj)
    /\ c.at # "next" => c.op # "idle" /\ c.handler \in HandlersOf(c.obj) \ c.todo
    /\ c.at = "subscribe" => c.op = "process"
    /\ c.at \in {"copy"} \cup Searching => c.op = "unprocess"
    /\ c.at \in InService => Serves(l, R, c.service, c.handler)
    /\ c.at = "set" => c.service \in 1..l.made /\ Unnamed(l, c.service)

\* What a search has copied: proxies of its service, from the lists of its lookup.
CopyOK(c, l, R, ps) ==
    /\ c.copy \subseteq DOMAIN ps
    /\ c.at \in Searching =>
        \A p \in c.copy : /\ Contains(Copies[List[c.handler]], List[ps[p].handler])
                          /\ Serves(l, R, c.service, ps[p].handler)
    /\ c.at \in {"deref", "remove"} => c.copy # {}
    /\ c.at = "remove" => \A p \in c.copy : Owner[ps[p].handler] = c.obj

\* What a call has done lasts if it has been the only one for its object; its search has
\* the proxies of the method that are subscribed, and those of the object are still there.
AloneOK(c, R, ls, ps) ==
    c.op # "idle" /\ c.alone =>
        /\ c.at \in Searching =>
            \A p \in c.copy : Owner[ps[p].handler] = c.obj => p \in ls[c.service][List[ps[p].handler]]
        /\ c.op = "process" => \A h \in Visited(c) : IsSubscribed(ls, ps, h)
        /\ c.op = "unprocess" /\ Clean(c.obj, R, ps) =>
            /\ \A h \in Visited(c) : IsGone(ls, ps, h)
            /\ c.at \in Searching =>
                \A s \in Services, k \in Lists : \A p \in ls[s][k] :
                    ps[p].handler = c.handler => p \in c.copy

CallInv(c, l, R, ls, ps) ==
    c \in Calls /\ Placed(c, l, R) /\ CopyOK(c, l, R, ps) /\ AloneOK(c, R, ls, ps)

\* Two calls for one object do not take themselves for the only one, and two services
\* that are made are not the same.
Apart(c, d) ==
    /\ c.op # "idle" /\ d.op # "idle" /\ c.obj = d.obj => ~c.alone /\ ~d.alone
    /\ c.at = "set" /\ d.at = "set" => c.service # d.service

\* How the last call for o ended is true while no other has begun.
LastOK(o) ==
    /\ last[o] \in {"processed", "unprocessed"} => CallsFor(o) = {}
    /\ last[o] = "processed" => \A h \in HandlersOf(o) : IsSubscribed(lists, proxies, h)
    /\ last[o] = "unprocessed" /\ Clean(o, reset, proxies) =>
        \A h \in HandlersOf(o) : IsGone(lists, proxies, h)

CallsInv ==
    /\ call \in [Threads -> Calls]
    /\ \A t \in Threads : CallInv(call[t], locator, reset, lists, proxies)
    /\ \A t, u \in Threads : t # u => Apart(call[t], call[u])

TablesInv ==
    /\ LocatorOK(locator) /\ locator.made <= MaxServices
    /\ busClass \in BusClasses /\ swingClass \in SwingClasses /\ reset \subseteq Names
    /\ ListsOK(lists, proxies, locator, reset)
    /\ begun \in [process : 0..MaxProcess, unprocess : 0..MaxUnprocess]

LastInv == last \in [Objects -> Endings] /\ \A o \in Objects : LastOK(o)

IInv == TablesInv /\ CallsInv /\ LastInv
-----------------------------------------------------------------------------
(* What does not change when other things do. *)

LEMMA EntryOfSeq ==
    ASSUME NEW S, NEW seq \in Seq(S), NEW i \in DOMAIN seq
    PROVE  seq[i] \in S
  OBVIOUS

LEMMA SeqOfEntries ==
    ASSUME NEW S, NEW n \in Nat, NEW seq \in [1..n -> S]
    PROVE  seq \in Seq(S)
  OBVIOUS

LEMMA HandlerOfProxy ==
    ASSUME NEW ps \in Seq([handler : Handlers, set : BOOLEAN]), NEW p \in DOMAIN ps
    PROVE  ps[p].handler \in Handlers /\ List[ps[p].handler] \in Lists
  <1>1. ps[p] \in [handler : Handlers, set : BOOLEAN]
    BY EntryOfSeq, Zenon
  <1> QED
    BY <1>1, AnnotatedAssumption

LEMMA ServesStill ==
    ASSUME NEW l, NEW R, NEW m, NEW S, Stable(l, m, S), R \subseteq S,
           NEW s \in Services, NEW h \in Handlers, Serves(l, R, s, h)
    PROVE  Serves(m, S, s, h)
  <1>1. Name[h] \in Names /\ s # Null
    BY AnnotatedAssumption, LocatorAssumption DEF Services
  <1> QED
    BY <1>1 DEF Serves, Stable

\* When the locator changes and no service is lost but those of the names reset.
LEMMA LocatorKeepsLists ==
    ASSUME NEW l, NEW R, NEW m, NEW S, Stable(l, m, S), R \subseteq S, NEW ls, NEW ps,
           ListsOK(ls, ps, l, R)
    PROVE  ListsOK(ls, ps, m, S)
  <1>1. ASSUME NEW s \in Services, NEW k \in Lists, NEW p \in ls[s][k]
        PROVE  Serves(m, S, s, ps[p].handler)
    <2>1. p \in DOMAIN ps
      BY DEF ListsOK
    <2>2. ps[p].handler \in Handlers
      BY <2>1, HandlerOfProxy DEF ListsOK
    <2>3. Serves(l, R, s, ps[p].handler)
      BY DEF ListsOK
    <2> DEFINE h == ps[p].handler
    <2> HIDE DEF h
    <2>4. Serves(m, S, s, h)
      BY <2>2, <2>3, ServesStill DEF h
    <2> QED
      BY <2>4 DEF h
  <1> QED
    BY <1>1 DEF ListsOK

LEMMA LocatorKeepsCall ==
    ASSUME NEW l, NEW R, NEW m, NEW S, Stable(l, m, S), R \subseteq S,
           l.made \in Nat, m.made \in Nat, l.made <= m.made,
           NEW c, NEW ls, NEW ps \in Seq([handler : Handlers, set : BOOLEAN]),
           CallInv(c, l, R, ls, ps),
           c.at = "set" => Unnamed(m, c.service)
    PROVE  CallInv(c, m, S, ls, ps)
  <1>1. c \in Calls /\ Placed(c, l, R) /\ CopyOK(c, l, R, ps) /\ AloneOK(c, R, ls, ps)
    BY DEF CallInv
  <1>2. c.at \in InService => c.service \in Services /\ c.handler \in Handlers
    BY <1>1 DEF Calls, InService
  <1>3. c.at \in InService => Serves(m, S, c.service, c.handler)
    BY <1>1, <1>2, ServesStill DEF Placed
  <1>4. c.service \in 1..l.made => c.service \in 1..m.made
    OBVIOUS
  <1>5. Placed(c, m, S)
    BY <1>1, <1>3, <1>4 DEF Placed
  <1>6. ASSUME c.at \in Searching, NEW p \in c.copy
        PROVE  Serves(m, S, c.service, ps[p].handler)
    <2>1. p \in DOMAIN ps /\ c.service \in Services
      BY <1>1, <1>2, <1>6 DEF CopyOK, Searching, InService
    <2> DEFINE h == ps[p].handler
    <2>2. h \in Handlers
      BY <2>1, HandlerOfProxy
    <2>3. Serves(l, R, c.service, h)
      BY <1>1, <1>6 DEF CopyOK
    <2> HIDE DEF h
    <2>4. Serves(m, S, c.service, h)
      BY <2>1, <2>2, <2>3, ServesStill
    <2> QED
      BY <2>4 DEF h
  <1>7. CopyOK(c, m, S, ps)
    BY <1>1, <1>6 DEF CopyOK
  <1>8. Clean(c.obj, S, ps) => Clean(c.obj, R, ps)
    BY DEF Clean
  <1>9. AloneOK(c, S, ls, ps)
    BY <1>1, <1>8 DEF AloneOK
  <1> QED
    BY <1>1, <1>5, <1>7, <1>9 DEF CallInv

\* A change of lists and proxies that is about object o only.
MovedFor(o, ls, ps, ls2, ps2) ==
    /\ ls \in [Services -> [Lists -> SUBSET DOMAIN ps]]
    /\ ls2 \in [Services -> [Lists -> SUBSET DOMAIN ps2]]
    /\ DOMAIN ps \subseteq DOMAIN ps2
    /\ \A p \in DOMAIN ps : ps2[p].handler = ps[p].handler
    /\ \A p \in DOMAIN ps2 : Owner[ps2[p].handler] # o =>
        \A s \in Services, k \in Lists : p \in ls2[s][k] <=> p \in ls[s][k]

LEMMA CleanBefore ==
    ASSUME NEW ps, NEW ps2, DOMAIN ps \subseteq DOMAIN ps2,
           \A p \in DOMAIN ps : ps2[p].handler = ps[p].handler,
           NEW o, NEW R, Clean(o, R, ps2)
    PROVE  Clean(o, R, ps)
  BY DEF Clean

LEMMA StillSubscribed ==
    ASSUME NEW o, NEW ls, NEW ps, NEW ls2, NEW ps2, MovedFor(o, ls, ps, ls2, ps2),
           NEW h \in Handlers, Owner[h] # o, IsSubscribed(ls, ps, h)
    PROVE  IsSubscribed(ls2, ps2, h)
  <1>1. PICK s \in Services : \E p \in ls[s][List[h]] : Owner[ps[p].handler] = Owner[h]
    BY DEF IsSubscribed
  <1>2. PICK p \in ls[s][List[h]] : Owner[ps[p].handler] = Owner[h]
    BY <1>1
  <1>3. List[h] \in Lists
    BY AnnotatedAssumption
  <1>4. p \in DOMAIN ps
    BY <1>2, <1>3 DEF MovedFor
  <1>5. p \in ls2[s][List[h]] /\ Owner[ps2[p].handler] = Owner[h]
    BY <1>2, <1>3, <1>4 DEF MovedFor
  <1> QED
    BY <1>5 DEF IsSubscribed

LEMMA StillGone ==
    ASSUME NEW o, NEW ls, NEW ps, NEW ls2, NEW ps2, MovedFor(o, ls, ps, ls2, ps2),
           NEW h \in Handlers, Owner[h] # o, IsGone(ls, ps, h)
    PROVE  IsGone(ls2, ps2, h)
  <1> SUFFICES ASSUME NEW s \in Services, NEW k \in Lists, NEW p \in ls2[s][k],
                      ps2[p].handler = h
               PROVE  FALSE
    BY DEF IsGone
  <1>1. p \in DOMAIN ps2
    BY DEF MovedFor
  <1>2. p \in ls[s][k]
    BY <1>1 DEF MovedFor
  <1>3. p \in DOMAIN ps
    BY <1>2 DEF MovedFor
  <1>4. ps[p].handler = h
    BY <1>3 DEF MovedFor
  <1> QED
    BY <1>2, <1>4 DEF IsGone

\* A change for o is nothing to a call that is not for o, nor to one that knows it is not
\* the only one.
LEMMA ListsKeepCall ==
    ASSUME NEW o, NEW ls, NEW ps \in Seq([handler : Handlers, set : BOOLEAN]),
           NEW ls2, NEW ps2, MovedFor(o, ls, ps, ls2, ps2),
           NEW c, NEW l, NEW R, CallInv(c, l, R, ls, ps),
           c.op # "idle" /\ c.alone => c.obj # o
    PROVE  CallInv(c, l, R, ls2, ps2)
  <1>1. c \in Calls /\ Placed(c, l, R) /\ CopyOK(c, l, R, ps) /\ AloneOK(c, R, ls, ps)
    BY DEF CallInv
  <1>2. \A p \in c.copy : p \in DOMAIN ps /\ p \in DOMAIN ps2 /\ ps2[p].handler = ps[p].handler
    BY <1>1 DEF CopyOK, MovedFor
  <1>3. CopyOK(c, l, R, ps2)
    BY <1>1, <1>2 DEF CopyOK
  <1>4. \A h \in HandlersOf(c.obj) : h \in Handlers /\ Owner[h] = c.obj
    BY DEF HandlersOf
  <1>5. \A h \in Visited(c) : h \in HandlersOf(c.obj)
    BY DEF Visited
  <1>6. ASSUME c.op # "idle", c.alone
        PROVE  /\ c.at \in Searching =>
                    \A p \in c.copy : Owner[ps2[p].handler] = c.obj =>
                        p \in ls2[c.service][List[ps2[p].handler]]
               /\ c.op = "process" => \A h \in Visited(c) : IsSubscribed(ls2, ps2, h)
               /\ c.op = "unprocess" /\ Clean(c.obj, R, ps2) =>
                    /\ \A h \in Visited(c) : IsGone(ls2, ps2, h)
                    /\ c.at \in Searching =>
                        \A s \in Services, k \in Lists : \A p \in ls2[s][k] :
                            ps2[p].handler = c.handler => p \in c.copy
    <2>1. c.obj # o
      BY <1>6
    <2>2. ASSUME c.at \in Searching, NEW p \in c.copy, Owner[ps2[p].handler] = c.obj
          PROVE  p \in ls2[c.service][List[ps2[p].handler]]
      <3>1. p \in ls[c.service][List[ps[p].handler]] /\ c.service \in Services
        BY <1>1, <1>2, <1>6, <2>2 DEF AloneOK, Calls, Searching, InService
      <3>2. List[ps[p].handler] \in Lists
        BY <1>2, <2>2, HandlerOfProxy
      <3> QED
        BY <1>2, <2>1, <2>2, <3>1, <3>2 DEF MovedFor
    <2>3. c.op = "process" => \A h \in Visited(c) : IsSubscribed(ls2, ps2, h)
      BY <1>1, <1>4, <1>5, <1>6, <2>1, StillSubscribed DEF AloneOK
    <2>4. Clean(c.obj, R, ps2) => Clean(c.obj, R, ps)
      BY CleanBefore DEF MovedFor
    <2>5. c.op = "unprocess" /\ Clean(c.obj, R, ps2) => \A h \in Visited(c) : IsGone(ls2, ps2, h)
      BY <1>1, <1>4, <1>5, <1>6, <2>1, <2>4, StillGone DEF AloneOK
    <2>6. ASSUME c.op = "unprocess", Clean(c.obj, R, ps2), c.at \in Searching,
                 NEW s \in Services, NEW k \in Lists, NEW p \in ls2[s][k],
                 ps2[p].handler = c.handler
          PROVE  p \in c.copy
      <3>1. c.handler \in HandlersOf(c.obj)
        BY <1>1, <2>6 DEF Placed, Searching
      <3>2. Owner[ps2[p].handler] # o /\ p \in DOMAIN ps2
        BY <1>4, <2>1, <2>6, <3>1 DEF MovedFor
      <3>3. p \in ls[s][k]
        BY <2>6, <3>2 DEF MovedFor
      <3>4. p \in DOMAIN ps
        BY <3>3 DEF MovedFor
      <3>5. ps[p].handler = c.handler
        BY <2>6, <3>4 DEF MovedFor
      <3> QED
        BY <1>1, <1>6, <2>4, <2>6, <3>3, <3>5 DEF AloneOK
    <2> QED
      BY <2>2, <2>3, <2>5, <2>6
  <1>7. AloneOK(c, R, ls2, ps2)
    BY <1>6 DEF AloneOK
  <1> QED
    BY <1>1, <1>3, <1>7 DEF CallInv
-----------------------------------------------------------------------------
(* Steps of one call, seen by the others. *)

\* What a step of thread t may do to the locator.
LocatorMoves(t) ==
    /\ LocatorOK(locator') /\ Stable(locator, locator', {})
    /\ locator.made <= locator'.made /\ locator'.made <= MaxServices
    /\ \A u \in Threads \ {t} : call[u].at = "set" => Unnamed(locator', call[u].service)
    /\ UNCHANGED <<busClass, swingClass, reset>>

LEMMA LocatorStays ==
    ASSUME IInv, NEW t \in Threads, UNCHANGED locatorVars
    PROVE  LocatorMoves(t)
  <1>1. locator' = locator /\ UNCHANGED <<busClass, swingClass, reset>>
    BY DEF locatorVars
  <1>2. \A u \in Threads : call[u].at = "set" => Unnamed(locator, call[u].service)
    BY DEF IInv, CallsInv, CallInv, Placed
  <1>3. LocatorOK(locator) /\ locator.made <= MaxServices
    BY DEF IInv, TablesInv
  <1>4. locator.made <= locator.made /\ Stable(locator, locator, {})
    BY <1>3 DEF LocatorOK, Stable
  <1> QED
    BY <1>1, <1>2, <1>3, <1>4 DEF LocatorMoves

LEMMA LocatorGrows ==
    ASSUME IInv, NEW t \in Threads, Grown(locator, locator'), locator'.made <= MaxServices,
           UNCHANGED <<busClass, swingClass, reset>>
    PROVE  LocatorMoves(t)
  <1>1. \A u \in Threads : call[u].at = "set" =>
            call[u].service \in 1..locator.made /\ Unnamed(locator, call[u].service)
    BY DEF IInv, CallsInv, CallInv, Placed
  <1> QED
    BY <1>1 DEF LocatorMoves, Grown

LEMMA NothingMoves ==
    ASSUME NEW o, NEW ps, NEW ls \in [Services -> [Lists -> SUBSET DOMAIN ps]]
    PROVE  MovedFor(o, ls, ps, ls, ps)
  BY DEF MovedFor

LEMMA ApartBothWays ==
    ASSUME NEW c, NEW d, Apart(c, d)
    PROVE  Apart(d, c)
  BY DEF Apart

LEMMA CallOfThread ==
    ASSUME IInv, NEW t \in Threads
    PROVE  /\ call[t] \in Calls /\ CallInv(call[t], locator, reset, lists, proxies)
           /\ \A u \in Threads \ {t} : Apart(call[t], call[u])
  BY DEF IInv, CallsInv

LEMMA OthersKeep ==
    ASSUME IInv, NEW t \in Threads, call[t].op # "idle", LocatorMoves(t),
           MovedFor(call[t].obj, lists, proxies, lists', proxies'),
           NEW u \in Threads \ {t}
    PROVE  CallInv(call[u], locator', reset', lists', proxies')
  <1>1. CallInv(call[u], locator, reset, lists, proxies) /\ Apart(call[t], call[u])
    BY CallOfThread
  <1>2. /\ LocatorOK(locator) /\ LocatorOK(locator') /\ reset' = reset
        /\ Stable(locator, locator', reset) /\ locator.made <= locator'.made
        /\ call[u].at = "set" => Unnamed(locator', call[u].service)
        /\ proxies \in Seq([handler : Handlers, set : BOOLEAN])
    BY DEF IInv, TablesInv, LocatorMoves, ListsOK, Stable
  <1>3. locator.made \in Nat /\ locator'.made \in Nat
    BY <1>2 DEF LocatorOK
  <1>4. CallInv(call[u], locator', reset', lists, proxies)
    BY <1>1, <1>2, <1>3, LocatorKeepsCall
  <1>5. call[u].op # "idle" /\ call[u].alone => call[u].obj # call[t].obj
    BY <1>1 DEF Apart
  <1> QED
    BY <1>2, <1>4, <1>5, ListsKeepCall

LEMMA CallReplaced ==
    ASSUME IInv, NEW t \in Threads, call[t].op # "idle", LocatorMoves(t),
           MovedFor(call[t].obj, lists, proxies, lists', proxies'),
           NEW c, call' = [call EXCEPT ![t] = c],
           CallInv(c, locator', reset', lists', proxies'),
           \A u \in Threads \ {t} : Apart(c, call[u])
    PROVE  CallsInv'
  <1>1. call \in [Threads -> Calls] /\ c \in Calls
    BY DEF IInv, CallsInv, CallInv
  <1>2. call' \in [Threads -> Calls]
    BY <1>1
  <1>3. \A u \in Threads : call'[u] = IF u = t THEN c ELSE call[u]
    BY <1>1
  <1>4. \A u \in Threads : CallInv(call'[u], locator', reset', lists', proxies')
    BY <1>3, OthersKeep
  <1>5. \A u, v \in Threads : u # v => Apart(call'[u], call'[v])
    <2> SUFFICES ASSUME NEW u \in Threads, NEW v \in Threads, u # v
                 PROVE  Apart(call'[u], call'[v])
      OBVIOUS
    <2>1. CASE u # t /\ v # t
      BY <1>3, <2>1 DEF IInv, CallsInv
    <2>2. CASE u = t
      BY <1>3, <2>2
    <2>3. CASE v = t
      BY <1>3, <2>3, ApartBothWays
    <2> QED
      BY <2>1, <2>2, <2>3
  <1> QED
    BY <1>2, <1>4, <1>5 DEF CallsInv

\* A step of a call that goes on.
LEMMA CallGoesOn ==
    ASSUME IInv, NEW t \in Threads, call[t].op # "idle", LocatorMoves(t),
           MovedFor(call[t].obj, lists, proxies, lists', proxies'),
           ListsOK(lists', proxies', locator', reset'),
           NEW c, call' = [call EXCEPT ![t] = c],
           c.op = call[t].op, c.obj = call[t].obj, c.alone = call[t].alone,
           CallInv(c, locator', reset', lists', proxies'),
           c.at = "set" => \A u \in Threads \ {t} : call[u].at = "set" => c.service # call[u].service,
           UNCHANGED <<begun, last>>
    PROVE  IInv'
  <1>1. TablesInv'
    BY DEF IInv, TablesInv, LocatorMoves
  <1>2. \A u \in Threads \ {t} : Apart(c, call[u])
    BY CallOfThread DEF Apart
  <1>3. CallsInv'
    BY <1>2, CallReplaced
  <1>4. \A o \in Objects : CallsFor(o)' = CallsFor(o)
    BY DEF CallsFor, IInv, CallsInv
  <1>5. ASSUME NEW o \in Objects
        PROVE  LastOK(o)'
    <2>1. LastOK(o) /\ last' = last /\ reset' = reset
      BY DEF IInv, LastInv, LocatorMoves
    <2>2. last[o] \in {"processed", "unprocessed"} => call[t].obj # o
      BY <2>1 DEF LastOK, CallsFor
    <2>3. \A h \in HandlersOf(o) : h \in Handlers /\ Owner[h] = o
      BY DEF HandlersOf
    <2>4. last[o] = "processed" => \A h \in HandlersOf(o) : IsSubscribed(lists', proxies', h)
      BY <2>1, <2>2, <2>3, StillSubscribed DEF LastOK
    <2>5. Clean(o, reset, proxies') => Clean(o, reset, proxies)
      BY CleanBefore DEF MovedFor
    <2>6. last[o] = "unprocessed" /\ Clean(o, reset, proxies') =>
            \A h \in HandlersOf(o) : IsGone(lists', proxies', h)
      BY <2>1, <2>2, <2>3, <2>5, StillGone DEF LastOK
    <2> QED
      BY <1>4, <2>1, <2>4, <2>6 DEF LastOK
  <1>6. LastInv'
    BY <1>5 DEF LastInv, IInv
  <1> QED
    BY <1>1, <1>3, <1>6 DEF IInv

LEMMA IdleInv ==
    ASSUME NEW l, NEW R, NEW ls, NEW ps
    PROVE  CallInv(Idle, l, R, ls, ps)
  BY DEF CallInv, Idle, Calls, Positions, InService, Searching, Placed, CopyOK, AloneOK

\* A call ends, or fails.
LEMMA CallEnds ==
    ASSUME IInv, NEW t \in Threads, call[t].op # "idle", LocatorMoves(t),
           call' = [call EXCEPT ![t] = Idle], UNCHANGED <<lists, proxies, begun>>,
           NEW ending \in Endings, last' = [last EXCEPT ![call[t].obj] = ending],
           ending \in {"processed", "unprocessed"} =>
               call[t].alone /\ call[t].at = "next" /\ call[t].todo = {},
           ending = "processed" => call[t].op = "process",
           ending = "unprocessed" => call[t].op = "unprocess"
    PROVE  IInv'
  <1>1. CallInv(call[t], locator, reset, lists, proxies) /\ call[t] \in Calls
    BY CallOfThread
  <1>2. ListsOK(lists, proxies, locator, reset) /\ lists \in [Services -> [Lists -> SUBSET DOMAIN proxies]]
    BY DEF IInv, TablesInv, ListsOK
  <1>3. Stable(locator, locator', reset) /\ reset' = reset
    BY DEF LocatorMoves, Stable
  <1>4. ListsOK(lists', proxies', locator', reset')
    BY <1>2, <1>3, LocatorKeepsLists
  <1>5. TablesInv'
    BY <1>4 DEF IInv, TablesInv, LocatorMoves
  <1>6. \A u \in Threads \ {t} : Apart(Idle, call[u])
    BY DEF Apart, Idle
  <1>7. CallsInv'
    BY <1>2, <1>6, IdleInv, NothingMoves, CallReplaced
  <1>8. call[t].obj \in Objects /\ last \in [Objects -> Endings]
    BY <1>1 DEF Calls, IInv, LastInv
  <1>9. ASSUME NEW o \in Objects
        PROVE  LastOK(o)'
    <2>1. LastOK(o)
      BY DEF IInv, LastInv
    <2>2. CallsFor(o)' = CallsFor(o) \ {t}
      BY DEF CallsFor, IInv, CallsInv, Idle
    <2>3. CASE o # call[t].obj
      BY <1>3, <1>8, <2>1, <2>2, <2>3 DEF LastOK
    <2>4. CASE o = call[t].obj /\ ending \notin {"processed", "unprocessed"}
      BY <1>8, <2>4 DEF LastOK
    <2>5. CASE o = call[t].obj /\ ending \in {"processed", "unprocessed"}
      <3>1. last'[o] = ending
        BY <1>8, <2>5
      <3>2. CallsFor(o) \subseteq {t}
        BY <2>5, CallOfThread DEF CallsFor, Apart
      <3>3. Visited(call[t]) = HandlersOf(o)
        BY <2>5 DEF Visited
      <3>4. AloneOK(call[t], reset, lists, proxies)
        BY <1>1 DEF CallInv
      <3> QED
        BY <1>3, <2>2, <2>5, <3>1, <3>2, <3>3, <3>4 DEF LastOK, AloneOK
    <2> QED
      BY <2>3, <2>4, <2>5
  <1>10. LastInv'
    BY <1>8, <1>9 DEF LastInv
  <1> QED
    BY <1>5, <1>7, <1>10 DEF IInv

LEMMA FailInv ==
    ASSUME IInv, NEW t \in Threads, call[t].op # "idle", LocatorMoves(t), Fail(t)
    PROVE  IInv'
  <1> DEFINE ending == IF call[t].op = "process" THEN "processFailed" ELSE "unprocessFailed"
  <1>1. /\ call' = [call EXCEPT ![t] = Idle] /\ UNCHANGED <<lists, proxies, begun>>
        /\ last' = [last EXCEPT ![call[t].obj] = ending]
    BY DEF Fail
  <1>2. ending \in Endings /\ ending \notin {"processed", "unprocessed"}
    BY DEF Endings
  <1> HIDE DEF ending
  <1> QED
    BY <1>1, <1>2, CallEnds
-----------------------------------------------------------------------------
(* Each action preserves the invariant. *)

LEMMA ListsAreOK ==
    ASSUME IInv
    PROVE  /\ ListsOK(lists, proxies, locator, reset) /\ LocatorOK(locator)
           /\ lists \in [Services -> [Lists -> SUBSET DOMAIN proxies]]
           /\ proxies \in Seq([handler : Handlers, set : BOOLEAN])
           /\ \A o : MovedFor(o, lists, proxies, lists, proxies)
  <1>1. /\ ListsOK(lists, proxies, locator, reset) /\ LocatorOK(locator)
        /\ lists \in [Services -> [Lists -> SUBSET DOMAIN proxies]]
        /\ proxies \in Seq([handler : Handlers, set : BOOLEAN])
    BY DEF IInv, TablesInv, ListsOK
  <1> QED
    BY <1>1, NothingMoves

\* A step that leaves the lists alone.
LEMMA CallGoesOnAlone ==
    ASSUME IInv, NEW t \in Threads, call[t].op # "idle", LocatorMoves(t),
           UNCHANGED <<lists, proxies>>,
           NEW c, call' = [call EXCEPT ![t] = c],
           c.op = call[t].op, c.obj = call[t].obj, c.alone = call[t].alone,
           CallInv(c, locator', reset, lists, proxies),
           c.at = "set" => \A u \in Threads \ {t} : call[u].at = "set" => c.service # call[u].service,
           UNCHANGED <<begun, last>>
    PROVE  IInv'
  <1>1. Stable(locator, locator', reset) /\ reset' = reset
    BY DEF LocatorMoves, Stable
  <1>2. ListsOK(lists', proxies', locator', reset')
    BY <1>1, ListsAreOK, LocatorKeepsLists
  <1>3. MovedFor(call[t].obj, lists, proxies, lists', proxies')
    BY ListsAreOK
  <1> QED
    BY <1>1, <1>2, <1>3, CallGoesOn

\* The call t is in, for the locator as it moves.
LEMMA CallAfterMove ==
    ASSUME IInv, NEW t \in Threads, LocatorMoves(t), call[t].at # "set"
    PROVE  CallInv(call[t], locator', reset, lists, proxies)
  <1>1. CallInv(call[t], locator, reset, lists, proxies)
    BY CallOfThread
  <1>2. Stable(locator, locator', reset) /\ locator.made <= locator'.made
    BY DEF LocatorMoves, Stable
  <1>3. locator.made \in Nat /\ locator'.made \in Nat
    BY DEF IInv, TablesInv, LocatorOK, LocatorMoves
  <1> QED
    BY <1>1, <1>2, <1>3, ListsAreOK, LocatorKeepsCall

\* A call that has its service at hand.
LEMMA WithServiceInv ==
    ASSUME NEW t \in Threads, NEW l, NEW ls, NEW ps,
           call[t] \in Calls, Placed(call[t], locator, reset), CopyOK(call[t], l, reset, ps),
           AloneOK(call[t], reset, ls, ps), call[t].op # "idle",
           NEW h \in Handlers,
           \/ call[t].at = "next" /\ h \in call[t].todo
           \/ call[t].at \in {"set", "reget"} /\ h = call[t].handler,
           NEW es \in Services, NEW at \in {"set", IF call[t].op = "process" THEN "subscribe" ELSE "copy"},
           at # "set" => Serves(l, reset, es, h),
           at = "set" => es \in 1..l.made /\ Unnamed(l, es)
    PROVE  CallInv([WithService(t, h, es) EXCEPT !.at = at], l, reset, ls, ps)
  <1> DEFINE c == [WithService(t, h, es) EXCEPT !.at = at]
             b == call[t]
  <1>1. /\ b \in [op : {"idle", "process", "unprocess"}, obj : Objects \cup {Null},
                  todo : SUBSET Handlers, at : Positions, handler : Handlers \cup {Null},
                  service : Services \cup {Null}, copy : SUBSET Nat, alone : BOOLEAN]
        /\ b.obj \in Objects
    BY DEF Calls
  <1>2. /\ c = [b EXCEPT !.todo = b.todo \ {h}, !.handler = h, !.service = es, !.at = at]
    BY <1>1 DEF WithService
  <1>3. /\ c.op = b.op /\ c.obj = b.obj /\ c.todo = b.todo \ {h} /\ c.at = at /\ c.handler = h
        /\ c.service = es /\ c.copy = b.copy /\ c.alone = b.alone
        /\ c \in [op : {"idle", "process", "unprocess"}, obj : Objects \cup {Null},
                  todo : SUBSET Handlers, at : Positions, handler : Handlers \cup {Null},
                  service : Services \cup {Null}, copy : SUBSET Nat, alone : BOOLEAN]
    <2>1. at \in Positions
      BY DEF Positions
    <2> HIDE DEF c, b
    <2> QED
      BY <1>1, <1>2, <2>1
  <1> HIDE DEF c, b
  <1>4. c \in Calls
    BY <1>1, <1>3 DEF Calls, b
  <1>5. h \in HandlersOf(b.obj)
    BY DEF Placed, b
  <1>6. Placed(c, l, reset)
    BY <1>3, <1>5 DEF Placed, InService, Searching, b
  <1>7. CopyOK(c, l, reset, ps)
    BY <1>3 DEF CopyOK, Searching, b
  <1>8. Visited(c) \subseteq Visited(b)
    BY <1>3, <1>5 DEF Visited, b
  <1>9. AloneOK(c, reset, ls, ps)
    BY <1>3, <1>8 DEF AloneOK, Searching, b
  <1> QED
    BY <1>4, <1>6, <1>7, <1>9 DEF CallInv, c

LEMMA GetServiceInv ==
    ASSUME IInv, NEW t \in Threads, GetService(t)
    PROVE  IInv'
  <1>1. call[t].op # "idle" /\ call[t].at = "next" /\ UNCHANGED <<busClass, swingClass, reset>>
    BY DEF GetService, Busy
  <1>2. PICK h \in call[t].todo :
        LET n == Name[h]
            es == Found(locator, n).services[n]
        IN  \/ /\ es # Null
               /\ locator' = Found(locator, n) /\ locator'.made <= MaxServices
               /\ call' = [call EXCEPT ![t] = WithService(t, h, es)]
               /\ UNCHANGED <<lists, proxies, begun, last>>
            \/ /\ locator' = Found(locator, n) /\ locator'.made <= MaxServices
               /\ Fail(t)
            \/ /\ locator' = Made(locator) /\ locator'.made <= MaxServices
               /\ call' = [call EXCEPT ![t] =
                            [WithService(t, h, locator'.made) EXCEPT !.at = "set"]]
               /\ UNCHANGED <<lists, proxies, begun, last>>
    BY DEF GetService
  <1>3. call[t] \in Calls /\ LocatorOK(locator)
    BY CallOfThread, ListsAreOK
  <1>4. h \in Handlers /\ Name[h] \in Names
    BY <1>3, AnnotatedAssumption DEF Calls
  <1> DEFINE es == Found(locator, Name[h]).services[Name[h]]
  <1>5. CASE /\ es # Null
             /\ locator' = Found(locator, Name[h]) /\ locator'.made <= MaxServices
             /\ call' = [call EXCEPT ![t] = WithService(t, h, es)]
             /\ UNCHANGED <<lists, proxies, begun, last>>
    <2>1. Grown(locator, locator')
      BY <1>3, <1>5, FoundOK
    <2>2. LocatorMoves(t)
      BY <1>1, <1>5, <2>1, LocatorGrows
    <2>3. CallInv(call[t], locator', reset, lists, proxies)
      BY <1>1, <2>2, CallAfterMove
    <2>4. es \in Services /\ Serves(locator', reset, es, h)
      <3>1. /\ locator'.services \in [Names -> (1..locator'.made) \cup {Null}]
            /\ locator'.made \in Nat
        BY <2>1 DEF Grown, LocatorOK
      <3>2. es = locator'.services[Name[h]] /\ es \in 1..locator'.made
        BY <1>4, <1>5, <3>1
      <3> HIDE DEF es
      <3>3. es \in Services
        BY <1>5, <3>1, <3>2, LocatorAssumption DEF Services
      <3> QED
        BY <3>2, <3>3 DEF Serves
    <2> DEFINE at == IF call[t].op = "process" THEN "subscribe" ELSE "copy"
               c == [WithService(t, h, es) EXCEPT !.at = at]
    <2>5. c = WithService(t, h, es)
      BY DEF WithService
    <2>6. c.op = call[t].op /\ c.obj = call[t].obj /\ c.alone = call[t].alone /\ c.at = at
      BY <1>3 DEF WithService, Calls
    <2> HIDE DEF es
    <2>7. Placed(call[t], locator, reset)
      BY CallOfThread DEF CallInv
    <2>8. CallInv(c, locator', reset, lists, proxies)
      BY <1>1, <1>3, <1>4, <2>3, <2>4, <2>7, WithServiceInv DEF CallInv
    <2> HIDE DEF c
    <2>9. call' = [call EXCEPT ![t] = c] /\ UNCHANGED <<lists, proxies, begun, last>> /\ c.at # "set"
      BY <1>5, <2>5, <2>6
    <2> QED
      BY <1>1, <2>2, <2>6, <2>8, <2>9, CallGoesOnAlone
  <1>6. CASE /\ locator' = Found(locator, Name[h]) /\ locator'.made <= MaxServices
             /\ Fail(t)
    <2>1. Grown(locator, locator')
      BY <1>3, <1>6, FoundOK
    <2>2. LocatorMoves(t)
      BY <1>1, <1>6, <2>1, LocatorGrows
    <2> QED
      BY <1>1, <1>6, <2>2, FailInv
  <1>7. CASE /\ locator' = Made(locator) /\ locator'.made <= MaxServices
             /\ call' = [call EXCEPT ![t] =
                          [WithService(t, h, locator'.made) EXCEPT !.at = "set"]]
             /\ UNCHANGED <<lists, proxies, begun, last>>
    <2>1. /\ Grown(locator, locator') /\ locator'.made = locator.made + 1
          /\ Unnamed(locator', locator'.made) /\ locator.made \in Nat
      BY <1>3, <1>7, MadeOK DEF LocatorOK
    <2>2. LocatorMoves(t)
      BY <1>1, <1>7, <2>1, LocatorGrows
    <2>3. CallInv(call[t], locator', reset, lists, proxies)
      BY <1>1, <2>2, CallAfterMove
    <2> DEFINE made == locator'.made
               c == [WithService(t, h, made) EXCEPT !.at = "set"]
    <2>4. made \in Services /\ made \in 1..locator'.made /\ Unnamed(locator', made)
      BY <1>7, <2>1, LocatorAssumption DEF Services
    <2>5. /\ c.op = call[t].op /\ c.obj = call[t].obj /\ c.alone = call[t].alone
          /\ c.service = made /\ c.at = "set"
      BY <1>3 DEF WithService, Calls
    <2>6. call' = [call EXCEPT ![t] = c]
      BY <1>7
    <2> HIDE DEF made
    <2>7. Placed(call[t], locator, reset)
      BY CallOfThread DEF CallInv
    <2>8. CallInv(c, locator', reset, lists, proxies)
      BY <1>1, <1>3, <1>4, <2>3, <2>4, <2>7, WithServiceInv DEF CallInv
    <2>9. \A u \in Threads \ {t} : call[u].at = "set" => made # call[u].service
      BY <2>1, CallOfThread DEF made, CallInv, Placed
    <2> HIDE DEF c
    <2> QED
      BY <1>1, <1>7, <2>2, <2>5, <2>6, <2>8, <2>9, CallGoesOnAlone
  <1> QED
    BY <1>2, <1>5, <1>6, <1>7

LEMMA SetServiceInv ==
    ASSUME IInv, NEW t \in Threads, SetService(t)
    PROVE  IInv'
  <1> DEFINE h == call[t].handler
             n == Name[h]
             es == call[t].service
  <1>1. /\ call[t].op # "idle" /\ call[t].at = "set"
        /\ UNCHANGED <<busClass, swingClass, reset, lists, proxies, begun, last>>
    BY DEF SetService, Busy
  <1>2. /\ call[t] \in Calls /\ LocatorOK(locator)
        /\ Placed(call[t], locator, reset) /\ CopyOK(call[t], locator, reset, proxies)
        /\ AloneOK(call[t], reset, lists, proxies)
    BY CallOfThread, ListsAreOK DEF CallInv
  <1>3. h \in Handlers /\ n \in Names /\ es \in 1..locator.made /\ Unnamed(locator, es)
    BY <1>1, <1>2, AnnotatedAssumption DEF Calls, Placed
  <1>4. CASE Exists(n)
    <2> DEFINE c == [call[t] EXCEPT !.at = "reget"]
    <2>1. call' = [call EXCEPT ![t] = c] /\ locator' = locator
      BY <1>4 DEF SetService, Goto, IInv, CallsInv
    <2>2. LocatorMoves(t)
      BY <1>1, <2>1, LocatorStays DEF locatorVars
    <2>3. c \in Calls /\ c.op = call[t].op /\ c.obj = call[t].obj /\ c.alone = call[t].alone
          /\ c.at = "reget" /\ c.todo = call[t].todo /\ c.handler = h /\ c.copy = call[t].copy
      BY <1>1, <1>2 DEF Calls, Positions, InService
    <2> HIDE DEF c
    <2>4. Placed(c, locator, reset) /\ CopyOK(c, locator, reset, proxies)
      BY <1>1, <1>2, <2>3 DEF Placed, CopyOK, InService, Searching
    <2>5. Visited(c) = Visited(call[t])
      BY <1>1, <2>3 DEF Visited
    <2>6. AloneOK(c, reset, lists, proxies)
      BY <1>1, <1>2, <2>3, <2>5 DEF AloneOK, Searching
    <2>7. CallInv(c, locator', reset, lists, proxies)
      BY <2>1, <2>3, <2>4, <2>6 DEF CallInv
    <2> QED
      BY <1>1, <2>1, <2>2, <2>3, <2>7, CallGoesOnAlone
  <1>5. CASE ~Exists(n)
    <2>1. /\ locator' = Registered(locator, n, es)
          /\ call' = [call EXCEPT ![t] = WithService(t, h, es)]
      BY <1>5 DEF SetService
    <2>2. locator.services[n] = Null /\ \A m \in Names : locator.services[m] # es
      BY <1>3, <1>5 DEF Exists, Unnamed
    <2> HIDE DEF es, n
    <2>3. /\ LocatorOK(locator') /\ Stable(locator, locator', {}) /\ locator'.made = locator.made
          /\ locator'.services[n] = es
          /\ \A m \in Names \ {n} : locator'.services[m] = locator.services[m]
      BY <1>2, <1>3, <2>1, <2>2, RegisteredOK
    <2>4. \A u \in Threads \ {t} : call[u].at = "set" =>
            Unnamed(locator, call[u].service) /\ call[u].service # es
      BY <1>1, CallOfThread DEF CallInv, Placed, Apart, es
    <2>5. \A u \in Threads \ {t} : call[u].at = "set" => Unnamed(locator', call[u].service)
      BY <2>3, <2>4 DEF Unnamed
    <2>6. locator.made <= MaxServices /\ locator.made \in Nat
      BY <1>2 DEF IInv, TablesInv, LocatorOK
    <2>7. LocatorMoves(t)
      BY <1>1, <2>3, <2>5, <2>6 DEF LocatorMoves
    <2>8. es \in Services /\ Serves(locator', reset, es, h)
      <3>1. \A k, l \in Nat : k <= l => 1..k \subseteq 1..l
        OBVIOUS
      <3>2. es \in Services
        BY <1>3, <2>6, <3>1, LocatorAssumption DEF Services
      <3> QED
        BY <2>3, <3>2 DEF Serves, n
    <2>9. CopyOK(call[t], locator', reset, proxies)
      BY <1>1, <1>2 DEF CopyOK, Searching
    <2> DEFINE at == IF call[t].op = "process" THEN "subscribe" ELSE "copy"
               c == [WithService(t, h, es) EXCEPT !.at = at]
    <2>10. c = WithService(t, h, es)
      BY DEF WithService
    <2>11. c.op = call[t].op /\ c.obj = call[t].obj /\ c.alone = call[t].alone /\ c.at = at
      BY <1>2 DEF WithService, Calls
    <2>12. CallInv(c, locator', reset, lists, proxies)
      BY <1>1, <1>2, <1>3, <2>8, <2>9, WithServiceInv
    <2> HIDE DEF c
    <2>13. call' = [call EXCEPT ![t] = c] /\ c.at # "set"
      BY <2>1, <2>10, <2>11
    <2> QED
      BY <1>1, <2>7, <2>11, <2>12, <2>13, CallGoesOnAlone
  <1> QED
    BY <1>4, <1>5

LEMMA RegetInv ==
    ASSUME IInv, NEW t \in Threads, Reget(t)
    PROVE  IInv'
  <1> DEFINE h == call[t].handler
             es == locator.services[Name[h]]
  <1>1. call[t].op # "idle" /\ call[t].at = "reget" /\ UNCHANGED locatorVars
    BY DEF Reget, Busy
  <1>2. LocatorMoves(t) /\ locator' = locator
    BY <1>1, LocatorStays DEF locatorVars
  <1>3. CASE es = Null
    BY <1>1, <1>2, <1>3, FailInv DEF Reget
  <1>4. CASE es # Null
    <2>1. /\ call' = [call EXCEPT ![t] = WithService(t, h, es)]
          /\ UNCHANGED <<lists, proxies, begun, last>>
      BY <1>4 DEF Reget
    <2>2. /\ call[t] \in Calls /\ LocatorOK(locator) /\ locator.made <= MaxServices
          /\ Placed(call[t], locator, reset) /\ CopyOK(call[t], locator, reset, proxies)
          /\ AloneOK(call[t], reset, lists, proxies)
      BY CallOfThread, ListsAreOK DEF CallInv, IInv, TablesInv
    <2>3. h \in Handlers /\ Name[h] \in Names
      BY <1>1, <2>2, AnnotatedAssumption DEF Calls
    <2>4. es \in Services /\ Serves(locator, reset, es, h)
      BY <1>4, <2>2, <2>3, LocatorAssumption DEF LocatorOK, Services, Serves
    <2> HIDE DEF es
    <2> DEFINE at == IF call[t].op = "process" THEN "subscribe" ELSE "copy"
               c == [WithService(t, h, es) EXCEPT !.at = at]
    <2>5. c = WithService(t, h, es)
      BY DEF WithService
    <2>6. c.op = call[t].op /\ c.obj = call[t].obj /\ c.alone = call[t].alone /\ c.at = at
      BY <2>2 DEF WithService, Calls
    <2>7. CallInv(c, locator, reset, lists, proxies)
      BY <1>1, <2>2, <2>3, <2>4, WithServiceInv
    <2> HIDE DEF c
    <2>8. call' = [call EXCEPT ![t] = c] /\ c.at # "set"
      BY <2>1, <2>5, <2>6
    <2> QED
      BY <1>1, <1>2, <2>1, <2>6, <2>7, <2>8, CallGoesOnAlone
  <1> QED
    BY <1>3, <1>4
-----------------------------------------------------------------------------
(* The next handler. *)

\* The call once it is done with the handler it is at.
HandlerDone(t) ==
    [Idle EXCEPT !.op = call[t].op, !.obj = call[t].obj, !.todo = call[t].todo,
                 !.alone = call[t].alone]

\* The call goes on if what it has done for its handler is as it should be.
LEMMA NextHandlerInv ==
    ASSUME IInv, NEW t \in Threads, call[t].op # "idle", call[t].at # "next",
           NextHandler(t), UNCHANGED <<locatorVars, begun, last>>,
           MovedFor(call[t].obj, lists, proxies, lists', proxies'),
           ListsOK(lists', proxies', locator, reset),
           call[t].alone /\ call[t].op = "process" =>
               \A h \in Visited(call[t]) \cup {call[t].handler} : IsSubscribed(lists', proxies', h),
           call[t].alone /\ call[t].op = "unprocess" /\ Clean(call[t].obj, reset, proxies) =>
               \A h \in Visited(call[t]) \cup {call[t].handler} : IsGone(lists', proxies', h)
    PROVE  IInv'
  <1> DEFINE b == call[t]
             c == HandlerDone(t)
  <1>1. call' = [call EXCEPT ![t] = c] /\ UNCHANGED <<locator, reset>>
    BY DEF NextHandler, HandlerDone, locatorVars
  <1>2. b \in Calls /\ Placed(b, locator, reset)
    BY CallOfThread DEF CallInv
  <1>3. /\ c.op = b.op /\ c.obj = b.obj /\ c.todo = b.todo /\ c.alone = b.alone /\ c.at = "next"
        /\ c.copy = {} /\ c.handler = Null /\ c.service = Null
    BY DEF HandlerDone, Idle
  <1>4. c \in [op : {"idle", "process", "unprocess"}, obj : Objects \cup {Null},
                todo : SUBSET Handlers, at : Positions, handler : Handlers \cup {Null},
                service : Services \cup {Null}, copy : SUBSET Nat, alone : BOOLEAN]
    BY <1>2 DEF HandlerDone, Idle, Calls, Positions
  <1> HIDE DEF c
  <1>5. c \in Calls
    BY <1>2, <1>3, <1>4 DEF Calls, InService
  <1>6. Placed(c, locator, reset) /\ CopyOK(c, locator, reset, proxies')
    BY <1>2, <1>3 DEF Placed, CopyOK, Searching, InService
  <1>7. Visited(c) \subseteq Visited(b) \cup {b.handler}
    BY <1>3 DEF Visited
  <1>8. Clean(b.obj, reset, proxies') => Clean(b.obj, reset, proxies)
    BY CleanBefore DEF MovedFor
  <1>9. AloneOK(c, reset, lists', proxies')
    BY <1>3, <1>7, <1>8 DEF AloneOK, Searching
  <1>10. CallInv(c, locator', reset', lists', proxies')
    BY <1>1, <1>5, <1>6, <1>9 DEF CallInv
  <1>11. LocatorMoves(t)
    BY LocatorStays DEF locatorVars
  <1>12. c.at # "set"
    BY <1>3
  <1> HIDE DEF b
  <1> QED
    BY <1>1, <1>3, <1>10, <1>11, <1>12, CallGoesOn DEF b

LEMMA SubscribeInv ==
    ASSUME IInv, NEW t \in Threads, Subscribe(t)
    PROVE  IInv'
  <1> DEFINE c == call[t]
             h == c.handler
             k == List[h]
             s == c.service
             n == Len(proxies) + 1
             kept == {p \in lists[s][k] : ~Replaced(h, p)}
  <1>1. /\ c.op # "idle" /\ c.at = "subscribe"
        /\ proxies' = Append(proxies, [handler |-> h, set |-> TRUE])
        /\ lists' = [lists EXCEPT ![s][k] = kept \cup {Len(proxies')}]
        /\ NextHandler(t) /\ UNCHANGED <<locatorVars, begun, last>>
    BY DEF Subscribe, Busy
  <1>2. c \in Calls /\ Placed(c, locator, reset) /\ AloneOK(c, reset, lists, proxies)
    BY CallOfThread DEF CallInv
  <1>3. /\ h \in Handlers /\ k \in Lists /\ s \in Services /\ Serves(locator, reset, s, h)
        /\ Owner[h] = c.obj /\ c.op = "process"
    BY <1>1, <1>2, AnnotatedAssumption DEF Calls, Placed, InService, HandlersOf
  <1>4. /\ ListsOK(lists, proxies, locator, reset)
        /\ lists \in [Services -> [Lists -> SUBSET DOMAIN proxies]]
        /\ proxies \in Seq([handler : Handlers, set : BOOLEAN])
    BY ListsAreOK
  <1>5. /\ proxies' \in Seq([handler : Handlers, set : BOOLEAN])
        /\ DOMAIN proxies' = DOMAIN proxies \cup {n} /\ n \notin DOMAIN proxies
        /\ \A p \in DOMAIN proxies : proxies'[p] = proxies[p]
        /\ proxies'[n].handler = h /\ proxies'[n].set = TRUE /\ Len(proxies') = n
    BY <1>1, <1>3, <1>4
  <1>6. lists' = [lists EXCEPT ![s][k] = kept \cup {n}]
    BY <1>1, <1>5
  <1>7. kept \subseteq lists[s][k]
    OBVIOUS
  <1>8. \A p \in kept : ~(h \notin Strong /\ Owner[proxies[p].handler] = Owner[h])
    BY DEF Replaced, OwnerOf
  <1>9. \A p \in lists[s][k] : Owner[proxies[p].handler] # Owner[h] => p \in kept
    BY DEF Replaced, OwnerOf
  <1>10. \A z \in Services, j \in Lists : lists[z][j] \subseteq DOMAIN proxies
    BY <1>4
  <1> HIDE DEF kept, n, k, s, h, c
  <1>11. /\ lists'[s][k] = kept \cup {n}
         /\ \A z \in Services, j \in Lists : z # s \/ j # k => lists'[z][j] = lists[z][j]
    BY <1>3, <1>4, <1>6
  <1>12. lists' \in [Services -> [Lists -> SUBSET DOMAIN proxies']]
    <2>1. kept \cup {n} \in SUBSET DOMAIN proxies'
      BY <1>3, <1>5, <1>7, <1>10
    <2>2. lists \in [Services -> [Lists -> SUBSET DOMAIN proxies']]
      BY <1>4, <1>5
    <2> QED
      BY <1>3, <1>6, <2>1, <2>2
  <1>13. \A z \in Services, j \in Lists : \A p \in lists'[z][j] :
            \/ p \in DOMAIN proxies /\ p \in lists[z][j]
            \/ p = n /\ z = s /\ j = k
    BY <1>3, <1>7, <1>10, <1>11
  <1>14. MovedFor(c.obj, lists, proxies, lists', proxies')
    <2>1. ASSUME NEW p \in DOMAIN proxies', Owner[proxies'[p].handler] # c.obj,
                 NEW z \in Services, NEW j \in Lists
          PROVE  p \in lists'[z][j] <=> p \in lists[z][j]
      <3>1. p # n /\ p \in DOMAIN proxies /\ Owner[proxies[p].handler] # Owner[h]
        BY <1>3, <1>5, <2>1
      <3> QED
        BY <1>7, <1>9, <1>11, <3>1
    <2> QED
      BY <1>4, <1>5, <1>12, <2>1 DEF MovedFor
  <1>15. ListsOK(lists', proxies', locator, reset)
    <2> SUFFICES ASSUME NEW z \in Services, NEW j \in Lists, NEW p \in lists'[z][j]
                 PROVE  /\ proxies'[p].set /\ List[proxies'[p].handler] = j
                        /\ Serves(locator, reset, z, proxies'[p].handler)
                        /\ \A y \in Services : p \in lists'[y][j] => y = z
                        /\ \A q \in lists'[z][j] :
                            proxies'[p].handler = proxies'[q].handler
                                /\ proxies'[p].handler \notin Strong => p = q
      BY <1>5, <1>12 DEF ListsOK
    <2>1. CASE p = n /\ z = s /\ j = k
      <3>1. /\ proxies'[p].set /\ List[proxies'[p].handler] = j
            /\ Serves(locator, reset, z, proxies'[p].handler)
        BY <1>3, <1>5, <2>1 DEF k
      <3>2. \A y \in Services : p \in lists'[y][j] => y = z
        BY <1>5, <1>13, <2>1
      <3>3. ASSUME NEW q \in lists'[z][j], q # n, proxies'[q].handler = h, h \notin Strong
            PROVE  FALSE
        <4>1. q \in kept /\ q \in DOMAIN proxies
          BY <1>11, <1>13, <2>1, <3>3
        <4>2. proxies[q].handler = h
          BY <1>5, <3>3, <4>1
        <4> QED
          BY <1>8, <3>3, <4>1, <4>2
      <3> QED
        BY <1>5, <2>1, <3>1, <3>2, <3>3
    <2>2. CASE p \in DOMAIN proxies /\ p \in lists[z][j]
      <3>1. proxies'[p] = proxies[p] /\ p # n
        BY <1>5, <2>2
      <3>2. /\ proxies[p].set /\ List[proxies[p].handler] = j
            /\ Serves(locator, reset, z, proxies[p].handler)
            /\ \A y \in Services : p \in lists[y][j] => y = z
            /\ \A q \in lists[z][j] :
                proxies[p].handler = proxies[q].handler /\ proxies[p].handler \notin Strong => p = q
        BY <1>4, <2>2 DEF ListsOK
      <3>3. \A y \in Services : p \in lists'[y][j] => p \in lists[y][j]
        BY <1>13, <3>1
      <3>4. ASSUME NEW q \in lists'[z][j], proxies'[p].handler = proxies'[q].handler,
                   proxies'[p].handler \notin Strong
            PROVE  p = q
        <4>1. CASE q \in DOMAIN proxies /\ q \in lists[z][j]
          BY <1>5, <3>1, <3>2, <3>4, <4>1
        <4>2. CASE q = n /\ z = s /\ j = k
          <5>1. p \in kept /\ proxies[p].handler = h /\ h \notin Strong
            BY <1>5, <1>11, <3>1, <3>4, <4>2
          <5> QED
            BY <1>8, <5>1
        <4> QED
          BY <1>13, <4>1, <4>2
      <3> QED
        BY <3>1, <3>2, <3>3, <3>4
    <2> QED
      BY <1>13, <2>1, <2>2
  <1>16. ASSUME c.alone
         PROVE  \A g \in Visited(c) \cup {h} : IsSubscribed(lists', proxies', g)
    <2>1. n \in lists'[s][k] /\ Owner[proxies'[n].handler] = c.obj
      BY <1>3, <1>5, <1>11
    <2>2. IsSubscribed(lists', proxies', h)
      BY <1>3, <2>1 DEF IsSubscribed, k
    <2>3. ASSUME NEW g \in Visited(c)
          PROVE  IsSubscribed(lists', proxies', g)
      <3>1. g \in Handlers /\ Owner[g] = c.obj /\ List[g] \in Lists
        BY AnnotatedAssumption DEF Visited, HandlersOf
      <3>2. IsSubscribed(lists, proxies, g)
        BY <1>1, <1>2, <1>3, <1>16 DEF AloneOK
      <3>3. PICK z \in Services : \E p \in lists[z][List[g]] :
                Owner[proxies[p].handler] = Owner[g]
        BY <3>2 DEF IsSubscribed
      <3>4. PICK p \in lists[z][List[g]] : Owner[proxies[p].handler] = Owner[g]
        BY <3>3
      <3>5. p \in DOMAIN proxies /\ proxies'[p] = proxies[p]
        BY <1>5, <1>10, <3>1
      <3>6. CASE z = s /\ List[g] = k
        BY <1>3, <2>1, <3>1, <3>6 DEF IsSubscribed
      <3>7. CASE z # s \/ List[g] # k
        <4>1. p \in lists'[z][List[g]]
          BY <1>11, <3>1, <3>4, <3>7
        <4> QED
          BY <3>4, <3>5, <4>1 DEF IsSubscribed
      <3> QED
        BY <3>6, <3>7
    <2> QED
      BY <2>2, <2>3
  <1> QED
    BY <1>1, <1>3, <1>14, <1>15, <1>16, NextHandlerInv DEF c, h
-----------------------------------------------------------------------------
(* The search of an unprocess. *)

LEMMA LeastNatural ==
    ASSUME NEW T, T \subseteq Nat, T # {}
    PROVE  \E x \in T : \A y \in T : x <= y
  <1> DEFINE R == OpToRel(<, Nat)
  <1>1. IsWellFoundedOn(R, Nat)
    BY NatLessThanWellFounded
  <1>2. PICK x \in T : \A y \in T : ~ (<<y, x>> \in R)
    <2> HIDE DEF R
    <2> QED
      BY <1>1, WFMin, Zenon
  <1>3. \A y \in T : <<y, x>> \in R <=> y < x
    BY DEF OpToRel
  <1> HIDE DEF R
  <1>4. \A y \in T : y \in Nat /\ x \in Nat /\ ~ (y < x)
    BY <1>2, <1>3
  <1> QED
    BY <1>4

\* The lists of a copy come in an order: the turn of a proxy that may be there is a number.
LEMMA TurnIsNatural ==
    ASSUME NEW k \in Lists, NEW p, Contains(Copies[k], List[proxies[p].handler])
    PROVE  Turn(k, p) \in Nat
  <1>1. Copies[k] \in Seq(Lists)
    BY AnnotatedAssumption
  <1>2. \E i \in 1..Len(Copies[k]) : Copies[k][i] = List[proxies[p].handler]
    BY DEF Contains
  <1>3. Turn(k, p) \in 1..Len(Copies[k])
    BY <1>2 DEF Turn
  <1> QED
    BY <1>1, <1>3

\* A search that has proxies left goes on with one of them.
LEMMA NextIsInCopy ==
    ASSUME IInv, NEW t \in Threads, call[t].at \in Searching, call[t].copy # {}
    PROVE  NextInCopy(t) \in call[t].copy
  <1> DEFINE C == call[t].copy
             k == List[call[t].handler]
  <1>1. call[t] \in Calls /\ CopyOK(call[t], locator, reset, proxies)
    BY CallOfThread DEF CallInv
  <1>2. k \in Lists
    BY <1>1, AnnotatedAssumption DEF Calls, Searching
  <1>3. C \subseteq Nat /\ \A p \in C : Turn(k, p) \in Nat
    BY <1>1, <1>2, TurnIsNatural DEF Calls, CopyOK
  <1> HIDE DEF C, k
  <1>4. PICK x \in {Turn(k, p) : p \in C} : \A y \in {Turn(k, p) : p \in C} : x <= y
    <2>1. {Turn(k, p) : p \in C} \subseteq Nat /\ {Turn(k, p) : p \in C} # {}
      BY <1>3 DEF C
    <2> QED
      BY <2>1, LeastNatural
  <1>5. PICK p \in {q \in C : Turn(k, q) = x} : \A q \in {r \in C : Turn(k, r) = x} : p <= q
    <2>1. {q \in C : Turn(k, q) = x} \subseteq Nat /\ {q \in C : Turn(k, q) = x} # {}
      BY <1>3, <1>4
    <2> QED
      BY <2>1, LeastNatural
  <1>6. p \in C /\ \A q \in C : NoLater(k, p, q)
    <2> SUFFICES ASSUME NEW q \in C
                 PROVE  NoLater(k, p, q)
      BY <1>5
    <2>1. Turn(k, p) = x /\ x <= Turn(k, q) /\ Turn(k, q) \in Nat /\ x \in Nat
      BY <1>3, <1>4, <1>5
    <2>2. Turn(k, q) = x => p <= q
      BY <1>5
    <2> QED
      BY <2>1, <2>2 DEF NoLater
  <1>7. NextInCopy(t) = CHOOSE r \in C : \A q \in C : NoLater(k, r, q)
    BY DEF NextInCopy, C, k
  <1> QED
    BY <1>6, <1>7 DEF C

\* Two methods whose proxies may be in one service have one name, or the reserved ones.
LEMMA ServedTogether ==
    ASSUME LocatorOK(locator), NEW s \in Services, NEW h \in Handlers, NEW i \in Handlers,
           Serves(locator, {}, s, h), Serves(locator, {}, s, i)
    PROVE  Name[h] = Name[i] \/ {Name[h], Name[i]} = {Bus, Swing}
  <1>1. Name[h] \in Names /\ Name[i] \in Names /\ s # Null
    BY AnnotatedAssumption, LocatorAssumption DEF Services
  <1> QED
    BY <1>1 DEF LocatorOK, Serves

\* The proxy of the object that a search finds is the one proxy there is of its method.
LEMMA OnlyOneFound ==
    ASSUME IInv, NEW t \in Threads, call[t].at \in Searching, call[t].alone,
           Clean(call[t].obj, reset, proxies),
           NEW p \in call[t].copy, Owner[proxies[p].handler] = call[t].obj
    PROVE  /\ proxies[p].handler = call[t].handler
           /\ p \in lists[call[t].service][List[call[t].handler]]
           /\ \A s \in Services, k \in Lists : \A q \in lists[s][k] :
                proxies[q].handler = call[t].handler =>
                    q = p /\ s = call[t].service /\ k = List[call[t].handler]
  <1> DEFINE c == call[t]
             h == c.handler
             i == proxies[p].handler
  <1>1. /\ c \in Calls /\ Placed(c, locator, reset) /\ CopyOK(c, locator, reset, proxies)
        /\ AloneOK(c, reset, lists, proxies)
    BY CallOfThread DEF CallInv
  <1>2. /\ ListsOK(lists, proxies, locator, reset) /\ LocatorOK(locator)
        /\ lists \in [Services -> [Lists -> SUBSET DOMAIN proxies]]
        /\ proxies \in Seq([handler : Handlers, set : BOOLEAN])
    BY ListsAreOK
  <1>3. reset = {} /\ Separate(c.obj) /\ \A g \in HandlersOf(c.obj) \cap Strong :
            \A r, q \in DOMAIN proxies : proxies[r].handler = g /\ proxies[q].handler = g => r = q
    BY DEF Clean
  <1>4. /\ c.op # "idle" /\ c.service \in Services /\ h \in HandlersOf(c.obj) /\ h \in Handlers
        /\ Serves(locator, reset, c.service, h) /\ p \in DOMAIN proxies
    BY <1>1 DEF Calls, Placed, CopyOK, Searching, InService
  <1>5. i \in Handlers /\ List[h] \in Lists
    BY <1>2, <1>4, HandlerOfProxy, AnnotatedAssumption
  <1>6. i \in HandlersOf(c.obj)
    BY <1>5 DEF HandlersOf
  <1>7. Contains(Copies[List[h]], List[i]) /\ Serves(locator, reset, c.service, i)
    BY <1>1 DEF CopyOK
  <1> HIDE DEF h, i, c
  <1>8. i = h
    <2>1. Name[h] = Name[i] \/ {Name[h], Name[i]} = {Bus, Swing}
      BY <1>2, <1>3, <1>4, <1>5, <1>7, ServedTogether
    <2> QED
      BY <1>3, <1>4, <1>6, <1>7, <2>1 DEF Separate
  <1>9. p \in lists[c.service][List[h]]
    <2>1. p \in lists[c.service][List[i]]
      BY <1>1, <1>4 DEF AloneOK, c, i
    <2> QED
      BY <1>8, <2>1
  <1>10. ASSUME NEW s \in Services, NEW k \in Lists, NEW q \in lists[s][k], proxies[q].handler = h
         PROVE  q = p /\ s = c.service /\ k = List[h]
    <2>1. k = List[h] /\ Serves(locator, reset, s, h)
      BY <1>2, <1>10 DEF ListsOK
    <2>2. s = c.service
      BY <1>3, <1>4, <2>1 DEF Serves
    <2>3. q \in DOMAIN proxies
      BY <1>2
    <2>4. CASE h \in Strong
      BY <1>3, <1>4, <1>8, <1>10, <2>1, <2>2, <2>3, <2>4 DEF i
    <2>5. CASE h \notin Strong
      <3>1. q \in lists[c.service][List[h]] /\ proxies[q].handler = proxies[p].handler
        BY <1>8, <1>10, <2>1, <2>2 DEF i
      <3>2. p = q
        BY <1>2, <1>4, <1>5, <1>8, <1>9, <2>5, <3>1 DEF ListsOK, i
      <3> QED
        BY <2>1, <2>2, <3>2
    <2> QED
      BY <2>4, <2>5
  <1> QED
    BY <1>8, <1>9, <1>10 DEF c, h, i

LEMMA CopyInv ==
    ASSUME IInv, NEW t \in Threads, Copy(t)
    PROVE  IInv'
  <1> DEFINE b == call[t]
             h == b.handler
             s == b.service
             ks == Copies[List[h]]
             C == UNION {lists[s][ks[i]] : i \in 1..Len(ks)}
             c == [b EXCEPT !.at = "look", !.copy = C]
  <1>1. /\ b.op # "idle" /\ b.at = "copy" /\ UNCHANGED <<locatorVars, lists, proxies, begun, last>>
        /\ call' = [call EXCEPT ![t].at = "look", ![t].copy = C]
    BY DEF Copy, Busy
  <1>2. /\ b \in Calls /\ Placed(b, locator, reset) /\ AloneOK(b, reset, lists, proxies)
        /\ call \in [Threads -> Calls]
    BY CallOfThread DEF CallInv, IInv, CallsInv
  <1>3. /\ ListsOK(lists, proxies, locator, reset)
        /\ lists \in [Services -> [Lists -> SUBSET DOMAIN proxies]]
        /\ proxies \in Seq([handler : Handlers, set : BOOLEAN])
    BY ListsAreOK
  <1>4. /\ h \in Handlers /\ s \in Services /\ List[h] \in Lists /\ ks \in Seq(Lists)
        /\ Contains(ks, List[h])
    BY <1>1, <1>2, AnnotatedAssumption DEF Calls, InService
  <1>5. DOMAIN proxies \subseteq Nat
    BY <1>3
  <1>6. ASSUME NEW p \in C
        PROVE  /\ p \in DOMAIN proxies /\ p \in lists[s][List[proxies[p].handler]]
               /\ Contains(ks, List[proxies[p].handler])
               /\ Serves(locator, reset, s, proxies[p].handler)
    <2>1. PICK i \in 1..Len(ks) : p \in lists[s][ks[i]]
      OBVIOUS
    <2>2. ks[i] \in Lists
      BY <1>4
    <2>3. List[proxies[p].handler] = ks[i] /\ Serves(locator, reset, s, proxies[p].handler)
      <3>1. \A z \in Services, k \in Lists : \A r \in lists[z][k] :
                List[proxies[r].handler] = k /\ Serves(locator, reset, z, proxies[r].handler)
        BY <1>3 DEF ListsOK
      <3> QED
        BY <1>4, <2>1, <2>2, <3>1, Zenon
    <2>4. p \in DOMAIN proxies
      BY <1>3, <1>4, <2>1, <2>2
    <2> HIDE DEF ks
    <2> QED
      BY <2>1, <2>3, <2>4 DEF Contains
  <1>7. ASSUME NEW p \in lists[s][List[h]]
        PROVE  p \in C
    <2>1. PICK i \in 1..Len(ks) : ks[i] = List[h]
      BY <1>4 DEF Contains
    <2> QED
      BY <2>1
  <1> HIDE DEF C
  <1>8. call' = [call EXCEPT ![t] = c]
    BY <1>1, <1>2
  <1>9. /\ c.op = b.op /\ c.obj = b.obj /\ c.todo = b.todo /\ c.at = "look" /\ c.handler = h
        /\ c.service = s /\ c.copy = C /\ c.alone = b.alone
    BY <1>2 DEF Calls
  <1>10. c \in Calls
    <2>1. C \in SUBSET Nat
      BY <1>5, <1>6
    <2> QED
      BY <1>1, <1>2, <1>4, <2>1 DEF Calls, Positions, InService
  <1> HIDE DEF c
  <1>11. Placed(c, locator, reset)
    BY <1>1, <1>2, <1>9 DEF Placed, InService, Searching
  <1>12. CopyOK(c, locator, reset, proxies)
    BY <1>6, <1>9 DEF CopyOK
  <1>13. AloneOK(c, reset, lists, proxies)
    <2>1. Visited(c) = Visited(b)
      BY <1>1, <1>9 DEF Visited
    <2>2. ASSUME Clean(c.obj, reset, proxies), NEW z \in Services, NEW j \in Lists,
                 NEW p \in lists[z][j], proxies[p].handler = h
          PROVE  p \in C
      <3>1. j = List[h] /\ Serves(locator, reset, z, h)
        BY <1>3, <2>2 DEF ListsOK
      <3>2. Serves(locator, reset, s, h) /\ reset = {}
        BY <1>1, <1>2, <2>2 DEF Placed, InService, Clean
      <3>3. z = s
        BY <3>1, <3>2 DEF Serves
      <3> QED
        BY <1>7, <3>1, <3>3
    <2>3. b.op = "unprocess"
      BY <1>1, <1>2 DEF Placed
    <2> QED
      BY <1>2, <1>6, <1>9, <2>1, <2>2, <2>3 DEF AloneOK
  <1>14. CallInv(c, locator', reset, lists, proxies)
    BY <1>1, <1>10, <1>11, <1>12, <1>13 DEF CallInv, locatorVars
  <1>15. LocatorMoves(t) /\ c.at # "set"
    BY <1>1, <1>9, LocatorStays
  <1> QED
    BY <1>1, <1>8, <1>9, <1>14, <1>15, CallGoesOnAlone

\* The proxy looked at is the one, or it is not.
LEMMA ComparedInv ==
    ASSUME IInv, NEW t \in Threads, call[t].op # "idle", call[t].at \in {"look", "deref"},
           NEW p \in call[t].copy, Compared(t, p),
           UNCHANGED <<locatorVars, lists, proxies, begun, last>>
    PROVE  IInv'
  <1> DEFINE b == call[t]
             found == proxies[p].set /\ OwnerOf(p) = b.obj
             C == IF found THEN {p} ELSE b.copy \ {p}
             at == IF found THEN "remove" ELSE "look"
             c == [b EXCEPT !.copy = C, !.at = at]
  <1>1. /\ b \in Calls /\ Placed(b, locator, reset) /\ CopyOK(b, locator, reset, proxies)
        /\ AloneOK(b, reset, lists, proxies) /\ call \in [Threads -> Calls]
    BY CallOfThread DEF CallInv, IInv, CallsInv
  <1>2. ListsOK(lists, proxies, locator, reset)
    BY ListsAreOK
  <1>3. call' = [call EXCEPT ![t] = c]
    BY <1>1 DEF Compared
  <1>4. C \subseteq b.copy /\ at \in {"look", "remove"} /\ (at = "remove" <=> found)
    OBVIOUS
  <1>5. at = "remove" => C = {p} /\ Owner[proxies[p].handler] = b.obj
    BY DEF OwnerOf
  <1>6. at = "look" => C = b.copy \ {p}
    OBVIOUS
  <1> HIDE DEF C, at, found
  <1>7. /\ c.op = b.op /\ c.obj = b.obj /\ c.todo = b.todo /\ c.at = at /\ c.handler = b.handler
        /\ c.service = b.service /\ c.copy = C /\ c.alone = b.alone
    BY <1>1 DEF Calls
  <1>8. c \in Calls
    BY <1>1, <1>4 DEF Calls, Positions, InService
  <1> HIDE DEF c
  <1>9. Placed(c, locator, reset)
    BY <1>1, <1>4, <1>7 DEF Placed, InService, Searching
  <1>10. CopyOK(c, locator, reset, proxies)
    BY <1>1, <1>4, <1>5, <1>7 DEF CopyOK, Searching
  <1>11. b.at \in Searching /\ b.at # "next" /\ c.at \in Searching /\ c.at # "next"
    BY <1>4, <1>7 DEF Searching
  <1>12. ASSUME b.alone, b.op = "unprocess", Clean(b.obj, reset, proxies), NEW s \in Services,
                NEW k \in Lists, NEW q \in lists[s][k], proxies[q].handler = b.handler
         PROVE  q \in C
    <2>1. q \in b.copy /\ proxies[q].set
      BY <1>1, <1>2, <1>11, <1>12 DEF AloneOK, ListsOK
    <2>2. CASE at = "remove"
      BY <1>5, <1>11, <1>12, <2>2, OnlyOneFound
    <2>3. CASE at # "remove"
      <3>1. OwnerOf(q) = b.obj
        BY <1>1, <1>11, <1>12 DEF Placed, HandlersOf, OwnerOf
      <3>2. q # p
        BY <1>4, <2>1, <2>3, <3>1 DEF found
      <3> QED
        BY <1>4, <1>6, <2>1, <2>3, <3>2
    <2> QED
      BY <2>2, <2>3
  <1>13. Visited(c) = Visited(b)
    BY <1>7, <1>11 DEF Visited
  <1>14. AloneOK(c, reset, lists, proxies)
    BY <1>1, <1>4, <1>7, <1>11, <1>12, <1>13 DEF AloneOK
  <1>15. CallInv(c, locator', reset, lists, proxies)
    BY <1>8, <1>9, <1>10, <1>14 DEF CallInv, locatorVars
  <1>16. LocatorMoves(t) /\ c.at # "set"
    BY <1>11, LocatorStays DEF Searching
  <1> HIDE DEF b
  <1> QED
    BY <1>3, <1>7, <1>15, <1>16, CallGoesOnAlone DEF b

LEMMA LookInv ==
    ASSUME IInv, NEW t \in Threads, Look(t)
    PROVE  IInv'
  <1> DEFINE b == call[t]
             p == NextInCopy(t)
  <1>1. b.op # "idle" /\ b.at = "look" /\ UNCHANGED <<locatorVars, lists, proxies, begun, last>>
    BY DEF Look, Busy
  <1>2. /\ b \in Calls /\ Placed(b, locator, reset) /\ CopyOK(b, locator, reset, proxies)
        /\ AloneOK(b, reset, lists, proxies) /\ call \in [Threads -> Calls]
    BY CallOfThread DEF CallInv, IInv, CallsInv
  <1>3. b.op = "unprocess"
    BY <1>1, <1>2 DEF Placed, Searching
  <1>4. CASE b.copy = {}
    <2>1. NextHandler(t)
      BY <1>4 DEF Look
    <2>2. ASSUME b.alone, Clean(b.obj, reset, proxies), NEW h \in Visited(b) \cup {b.handler}
          PROVE  IsGone(lists, proxies, h)
      <3>1. CASE h \in Visited(b)
        BY <1>1, <1>2, <1>3, <2>2, <3>1 DEF AloneOK
      <3>2. CASE h = b.handler
        BY <1>1, <1>2, <1>3, <1>4, <2>2, <3>2 DEF AloneOK, IsGone, Searching
      <3> QED
        BY <3>1, <3>2
    <2> QED
      BY <1>1, <1>3, <2>1, <2>2, ListsAreOK, NextHandlerInv
  <1>5. CASE b.copy # {}
    <2>1. p \in b.copy
      BY <1>1, <1>5, NextIsInCopy DEF Searching
    <2>2. CASE proxies[p].set /\ proxies[p].handler \notin Strong
      <3> DEFINE c == [b EXCEPT !.at = "deref"]
      <3>1. call' = [call EXCEPT ![t] = c]
        BY <1>2, <1>5, <2>2 DEF Look, Goto
      <3>2. /\ c.op = b.op /\ c.obj = b.obj /\ c.todo = b.todo /\ c.at = "deref"
            /\ c.handler = b.handler /\ c.service = b.service /\ c.copy = b.copy
            /\ c.alone = b.alone /\ c \in Calls
        BY <1>1, <1>2 DEF Calls, Positions, InService
      <3> HIDE DEF c
      <3>3. Placed(c, locator, reset) /\ CopyOK(c, locator, reset, proxies)
        BY <1>1, <1>2, <1>5, <3>2 DEF Placed, CopyOK, InService, Searching
      <3>4. Visited(c) = Visited(b)
        BY <1>1, <3>2 DEF Visited
      <3>5. AloneOK(c, reset, lists, proxies)
        BY <1>1, <1>2, <3>2, <3>4 DEF AloneOK, Searching
      <3>6. CallInv(c, locator', reset, lists, proxies)
        BY <1>1, <3>2, <3>3, <3>5 DEF CallInv, locatorVars
      <3>7. LocatorMoves(t) /\ c.at # "set"
        BY <1>1, <3>2, LocatorStays
      <3> QED
        BY <1>1, <3>1, <3>2, <3>6, <3>7, CallGoesOnAlone
    <2>3. CASE ~(proxies[p].set /\ proxies[p].handler \notin Strong)
      <3>1. Compared(t, p)
        BY <1>5, <2>3 DEF Look
      <3> QED
        BY <1>1, <2>1, <3>1, ComparedInv
    <2> QED
      BY <2>2, <2>3
  <1> QED
    BY <1>4, <1>5

LEMMA DereferenceInv ==
    ASSUME IInv, NEW t \in Threads, Dereference(t)
    PROVE  IInv'
  <1> DEFINE p == NextInCopy(t)
  <1>1. call[t].op # "idle" /\ call[t].at = "deref" /\ UNCHANGED locatorVars
    BY DEF Dereference, Busy
  <1>2. call[t].copy # {}
    BY <1>1, CallOfThread DEF CallInv, CopyOK
  <1>3. p \in call[t].copy
    BY <1>1, <1>2, NextIsInCopy DEF Searching
  <1>4. CASE proxies[p].set
    <2>1. Compared(t, p) /\ UNCHANGED <<lists, proxies, begun, last>>
      BY <1>4 DEF Dereference
    <2> QED
      BY <1>1, <1>3, <2>1, ComparedInv
  <1>5. CASE ~proxies[p].set
    <2>1. Fail(t)
      BY <1>5 DEF Dereference
    <2> QED
      BY <1>1, <2>1, FailInv, LocatorStays
  <1> QED
    BY <1>4, <1>5

\* The proxy found is taken off, and was the last of its method.
LEMMA RemoveFoundInv ==
    ASSUME IInv, NEW t \in Threads, RemoveFound(t)
    PROVE  IInv'
  <1> DEFINE b == call[t]
             p == NextInCopy(t)
             s == b.service
             k == List[b.handler]
  <1>1. b.op # "idle" /\ b.at = "remove" /\ NextHandler(t) /\ UNCHANGED <<locatorVars, begun, last>>
    BY DEF RemoveFound, Busy
  <1>2. /\ b \in Calls /\ Placed(b, locator, reset) /\ CopyOK(b, locator, reset, proxies)
        /\ AloneOK(b, reset, lists, proxies)
    BY CallOfThread DEF CallInv
  <1>3. /\ ListsOK(lists, proxies, locator, reset)
        /\ lists \in [Services -> [Lists -> SUBSET DOMAIN proxies]]
        /\ proxies \in Seq([handler : Handlers, set : BOOLEAN])
    BY ListsAreOK
  <1>4. /\ b.op = "unprocess" /\ s \in Services /\ b.handler \in Handlers /\ k \in Lists
        /\ b.copy # {}
    BY <1>1, <1>2, AnnotatedAssumption DEF Placed, CopyOK, Calls, Searching, InService
  <1>5. p \in b.copy
    BY <1>1, <1>4, NextIsInCopy DEF Searching
  <1>6. p \in DOMAIN proxies /\ Owner[proxies[p].handler] = b.obj
    BY <1>1, <1>2, <1>5 DEF CopyOK
  <1>7. b.alone /\ Clean(b.obj, reset, proxies) =>
            /\ p \in lists[s][k] /\ proxies[p].handler = b.handler
            /\ \A z \in Services, j \in Lists : \A q \in lists[z][j] :
                proxies[q].handler = b.handler => q = p /\ z = s /\ j = k
    BY <1>1, <1>5, <1>6, OnlyOneFound DEF Searching
  <1>8. b.alone /\ Clean(b.obj, reset, proxies) =>
            \A h \in Visited(b) : IsGone(lists, proxies, h)
    BY <1>1, <1>2, <1>4 DEF AloneOK
  <1>9. CASE p \in lists[s][k]
    <2>1. /\ lists' = [lists EXCEPT ![s][k] = @ \ {p}]
          /\ proxies' = [proxies EXCEPT ![p].set = FALSE]
      BY <1>9 DEF RemoveFound
    <2> HIDE DEF p, s, k, b
    <2>2. /\ lists'[s][k] = lists[s][k] \ {p}
          /\ \A z \in Services, j \in Lists : z # s \/ j # k => lists'[z][j] = lists[z][j]
      BY <1>3, <1>4, <2>1
    <2>3. /\ DOMAIN proxies' = DOMAIN proxies
          /\ \A q \in DOMAIN proxies : proxies'[q].handler = proxies[q].handler
          /\ \A q \in DOMAIN proxies \ {p} : proxies'[q] = proxies[q]
          /\ proxies' \in Seq([handler : Handlers, set : BOOLEAN])
      <3>1. DOMAIN proxies' = DOMAIN proxies /\ \A q \in DOMAIN proxies \ {p} : proxies'[q] = proxies[q]
        BY <2>1
      <3>2. proxies[p] \in [handler : Handlers, set : BOOLEAN]
        BY <1>3, <1>6, EntryOfSeq, Zenon
      <3>3. proxies'[p] = [proxies[p] EXCEPT !.set = FALSE]
        BY <1>6, <2>1
      <3>4. proxies'[p].handler = proxies[p].handler /\ proxies'[p] \in [handler : Handlers, set : BOOLEAN]
        BY <3>2, <3>3
      <3>5. DOMAIN proxies = 1..Len(proxies) /\ Len(proxies) \in Nat
        BY <1>3
      <3>6. \A q \in DOMAIN proxies : proxies'[q] \in [handler : Handlers, set : BOOLEAN]
        BY <1>3, <3>1, <3>4, EntryOfSeq
      <3>7. proxies' = [q \in 1..Len(proxies) |-> proxies'[q]]
        BY <2>1, <3>5
      <3>8. proxies' \in [1..Len(proxies) -> [handler : Handlers, set : BOOLEAN]]
        BY <3>5, <3>6, <3>7
      <3>9. proxies' \in Seq([handler : Handlers, set : BOOLEAN])
        BY <3>5, <3>8, SeqOfEntries, Zenon
      <3> QED
        BY <3>1, <3>4, <3>9
    <2>4. lists' \in [Services -> [Lists -> SUBSET DOMAIN proxies']]
      <3>1. lists[s][k] \ {p} \in SUBSET DOMAIN proxies
        BY <1>3, <1>4
      <3> QED
        BY <1>3, <1>4, <2>1, <2>3, <3>1
    <2>5. \A z \in Services, j \in Lists : \A q \in lists'[z][j] :
            q \in lists[z][j] /\ q \in DOMAIN proxies /\ (z = s /\ j = k => q # p)
      BY <1>3, <2>2
    <2>6. MovedFor(b.obj, lists, proxies, lists', proxies')
      <3>1. ASSUME NEW q \in DOMAIN proxies', Owner[proxies'[q].handler] # b.obj,
                   NEW z \in Services, NEW j \in Lists
            PROVE  q \in lists'[z][j] <=> q \in lists[z][j]
        BY <1>6, <2>2, <2>3, <3>1
      <3> QED
        BY <1>3, <2>3, <2>4, <3>1 DEF MovedFor
    <2>7. ListsOK(lists', proxies', locator, reset)
      <3> SUFFICES ASSUME NEW z \in Services, NEW j \in Lists, NEW q \in lists'[z][j]
                   PROVE  /\ proxies'[q].set /\ List[proxies'[q].handler] = j
                          /\ Serves(locator, reset, z, proxies'[q].handler)
                          /\ \A y \in Services : q \in lists'[y][j] => y = z
                          /\ \A r \in lists'[z][j] :
                              proxies'[q].handler = proxies'[r].handler
                                  /\ proxies'[q].handler \notin Strong => q = r
        BY <2>3, <2>4 DEF ListsOK
      <3>1. /\ proxies[q].set /\ List[proxies[q].handler] = j
            /\ Serves(locator, reset, z, proxies[q].handler)
            /\ \A y \in Services : q \in lists[y][j] => y = z
            /\ \A r \in lists[z][j] :
                proxies[q].handler = proxies[r].handler /\ proxies[q].handler \notin Strong => q = r
        BY <1>3, <2>5 DEF ListsOK
      <3>2. List[proxies[p].handler] = k /\ \A y \in Services : p \in lists[y][k] => y = s
        BY <1>3, <1>4, <1>9 DEF ListsOK
      <3>3. q # p
        BY <2>5, <3>1, <3>2
      <3>4. proxies'[q] = proxies[q]
        BY <2>3, <2>5, <3>3
      <3> QED
        BY <2>3, <2>5, <3>1, <3>4
    <2>8. ASSUME b.alone, Clean(b.obj, reset, proxies), NEW h \in Visited(b) \cup {b.handler}
          PROVE  IsGone(lists', proxies', h)
      <3> SUFFICES ASSUME NEW z \in Services, NEW j \in Lists, NEW q \in lists'[z][j],
                          proxies'[q].handler = h
                   PROVE  FALSE
        BY DEF IsGone
      <3>1. q \in lists[z][j] /\ proxies[q].handler = h /\ (z = s /\ j = k => q # p)
        BY <2>3, <2>5
      <3>2. CASE h \in Visited(b)
        BY <1>8, <2>8, <3>1, <3>2 DEF IsGone
      <3>3. CASE h = b.handler
        BY <1>7, <2>8, <3>1, <3>3
      <3> QED
        BY <3>2, <3>3
    <2> QED
      BY <1>1, <1>4, <2>6, <2>7, <2>8, NextHandlerInv DEF b
  <1>10. CASE p \notin lists[s][k]
    <2>1. UNCHANGED <<lists, proxies>>
      BY <1>10 DEF RemoveFound
    <2>2. ~(b.alone /\ Clean(b.obj, reset, proxies))
      BY <1>7, <1>10
    <2> QED
      BY <1>1, <1>4, <2>1, <2>2, ListsAreOK, NextHandlerInv
  <1> QED
    BY <1>9, <1>10

LEMMA EndInv ==
    ASSUME IInv, NEW t \in Threads, End(t)
    PROVE  IInv'
  <1> DEFINE ending == IF ~call[t].alone THEN "unknown"
                       ELSE IF call[t].op = "process" THEN "processed" ELSE "unprocessed"
  <1>1. /\ call[t].op # "idle" /\ call[t].at = "next" /\ call[t].todo = {}
        /\ call' = [call EXCEPT ![t] = Idle] /\ UNCHANGED <<lists, proxies, begun>>
        /\ last' = [last EXCEPT ![call[t].obj] = ending] /\ UNCHANGED locatorVars
    BY DEF End, Busy
  <1>2. call[t].op \in {"process", "unprocess"}
    BY <1>1, CallOfThread DEF Calls
  <1>3. /\ ending \in Endings
        /\ ending \in {"processed", "unprocessed"} => call[t].alone
        /\ ending = "processed" => call[t].op = "process"
        /\ ending = "unprocessed" => call[t].op = "unprocess"
    BY <1>2 DEF Endings
  <1>4. LocatorMoves(t)
    BY <1>1, LocatorStays
  <1> HIDE DEF ending
  <1> QED
    BY <1>1, <1>3, <1>4, CallEnds

\* A call that knows it is not the only one for its object.
LEMMA NotAloneInv ==
    ASSUME NEW c, NEW l, NEW R, NEW ls, NEW ps, CallInv(c, l, R, ls, ps)
    PROVE  CallInv([c EXCEPT !.alone = FALSE], l, R, ls, ps)
  <1> DEFINE d == [c EXCEPT !.alone = FALSE]
  <1>1. c \in Calls /\ Placed(c, l, R) /\ CopyOK(c, l, R, ps)
    BY DEF CallInv
  <1>2. /\ d.op = c.op /\ d.obj = c.obj /\ d.todo = c.todo /\ d.at = c.at /\ d.handler = c.handler
        /\ d.service = c.service /\ d.copy = c.copy /\ d.alone = FALSE /\ d \in Calls
    BY <1>1 DEF Calls
  <1> HIDE DEF d
  <1>3. Placed(d, l, R) /\ CopyOK(d, l, R, ps) /\ AloneOK(d, R, ls, ps)
    BY <1>1, <1>2 DEF Placed, CopyOK, AloneOK
  <1> QED
    BY <1>2, <1>3 DEF CallInv, d

LEMMA BeginInv ==
    ASSUME IInv, NEW t \in Threads, NEW op \in {"process", "unprocess"},
           NEW o \in Objects, Begin(t, op, o)
    PROVE  IInv'
  <1> DEFINE new == [Idle EXCEPT !.op = op, !.obj = o, !.todo = HandlersOf(o),
                                 !.alone = (CallsFor(o) = {})]
  <1>1. /\ call[t].op = "idle" /\ begun[op] < MaxCalls[op]
        /\ begun' = [begun EXCEPT ![op] = begun[op] + 1]
        /\ call' = [u \in Threads |-> IF u = t THEN new
                                      ELSE IF u \in CallsFor(o) THEN [call[u] EXCEPT !.alone = FALSE]
                                      ELSE call[u]]
        /\ last' = [last EXCEPT ![o] = "unknown"]
        /\ UNCHANGED <<locator, busClass, swingClass, reset, lists, proxies>>
    BY DEF Begin, locatorVars
  <1>2. /\ new.op = op /\ new.obj = o /\ new.todo = HandlersOf(o) /\ new.at = "next"
        /\ new.copy = {} /\ new.alone = (CallsFor(o) = {}) /\ new \in Calls
    BY DEF Idle, Calls, Positions, InService, HandlersOf
  <1> HIDE DEF new
  <1>3. CallInv(new, locator, reset, lists, proxies)
    <2>1. Visited(new) = {}
      BY <1>2 DEF Visited
    <2>2. Placed(new, locator, reset) /\ CopyOK(new, locator, reset, proxies)
      BY <1>2 DEF Placed, CopyOK, Searching, InService
    <2>3. AloneOK(new, reset, lists, proxies)
      BY <1>2, <2>1 DEF AloneOK, Searching
    <2> QED
      BY <1>2, <2>2, <2>3 DEF CallInv
  <1>4. \A u \in Threads \ {t} :
            /\ call'[u].op = call[u].op /\ call'[u].obj = call[u].obj /\ call'[u].at = call[u].at
            /\ call'[u].service = call[u].service /\ (call'[u].alone => call[u].alone)
            /\ u \in CallsFor(o) => ~call'[u].alone
            /\ CallInv(call'[u], locator, reset, lists, proxies)
    <2> TAKE u \in Threads \ {t}
    <2>1. CallInv(call[u], locator, reset, lists, proxies) /\ call[u] \in Calls
      BY CallOfThread
    <2>2. CASE u \in CallsFor(o)
      <3>1. call'[u] = [call[u] EXCEPT !.alone = FALSE]
        BY <1>1, <2>2
      <3>2. CallInv(call'[u], locator, reset, lists, proxies)
        BY <2>1, <3>1, NotAloneInv
      <3> QED
        BY <2>1, <3>1, <3>2 DEF Calls
    <2>3. CASE u \notin CallsFor(o)
      BY <1>1, <2>1, <2>3
    <2> QED
      BY <2>2, <2>3
  <1>5. call'[t] = new
    BY <1>1
  <1>6. call' \in [Threads -> Calls]
    <2>1. \A u \in Threads : call'[u] \in Calls
      BY <1>2, <1>4, <1>5 DEF CallInv
    <2> QED
      BY <1>1, <2>1
  <1>7. \A u \in Threads : CallInv(call'[u], locator, reset, lists, proxies)
    BY <1>3, <1>4, <1>5
  <1>8. ASSUME NEW u \in Threads \ {t}
        PROVE  Apart(call'[t], call'[u])
    <2>1. call[u].op # "idle" /\ call[u].obj = o => u \in CallsFor(o)
      BY DEF CallsFor
    <2>2. call'[t].op # "idle" /\ call'[u].op # "idle" /\ call'[t].obj = call'[u].obj =>
            ~call'[t].alone /\ ~call'[u].alone
      BY <1>2, <1>4, <1>5, <2>1
    <2> QED
      BY <1>2, <1>5, <2>2 DEF Apart
  <1>9. \A u, v \in Threads : u # v => Apart(call'[u], call'[v])
    <2> SUFFICES ASSUME NEW u \in Threads, NEW v \in Threads, u # v
                 PROVE  Apart(call'[u], call'[v])
      OBVIOUS
    <2>1. CASE u # t /\ v # t
      <3>1. Apart(call[u], call[v])
        BY DEF IInv, CallsInv
      <3> QED
        BY <1>4, <2>1, <3>1 DEF Apart
    <2>2. CASE u = t
      BY <1>8, <2>2
    <2>3. CASE v = t
      BY <1>8, <2>3, ApartBothWays
    <2> QED
      BY <2>1, <2>2, <2>3
  <1>10. CallsInv'
    BY <1>1, <1>6, <1>7, <1>9 DEF CallsInv
  <1>11. begun' \in [process : 0..MaxProcess, unprocess : 0..MaxUnprocess]
    BY <1>1, AnnotatedAssumption DEF IInv, TablesInv, MaxCalls
  <1>12. TablesInv'
    BY <1>1, <1>11 DEF IInv, TablesInv
  <1>13. last \in [Objects -> Endings] /\ last' \in [Objects -> Endings]
    BY <1>1 DEF IInv, LastInv, Endings
  <1>14. ASSUME NEW x \in Objects
         PROVE  LastOK(x)'
    <2>1. LastOK(x)
      BY DEF IInv, LastInv
    <2>2. CASE x = o
      BY <1>1, <1>13, <2>2 DEF LastOK
    <2>3. CASE x # o
      <3>1. last'[x] = last[x]
        BY <1>1, <1>13, <2>3
      <3>2. \A u \in Threads : call'[u].op # "idle" /\ call'[u].obj = x => u \in CallsFor(x)
        BY <1>2, <1>4, <1>5, <2>3 DEF CallsFor
      <3>3. CallsFor(x)' \subseteq CallsFor(x)
        BY <3>2 DEF CallsFor
      <3> QED
        BY <1>1, <2>1, <3>1, <3>3 DEF LastOK
    <2> QED
      BY <2>2, <2>3
  <1>15. LastInv'
    BY <1>13, <1>14 DEF LastInv
  <1> QED
    BY <1>10, <1>12, <1>15 DEF IInv

\* A service taken off a name, or all of them: nobody is given one in exchange.
LEMMA RegisteredNullOK ==
    ASSUME NEW l, LocatorOK(l), NEW n \in Names
    PROVE  LET r == Registered(l, n, Null)
           IN /\ LocatorOK(r) /\ r.made = l.made /\ r.services[n] = Null
              /\ \A m \in Names \ {n} : r.services[m] = l.services[m]
  <1> DEFINE r == Registered(l, n, Null)
  <1>1. /\ r.services = [l.services EXCEPT ![n] = Null]
        /\ r.bus = IF n = Bus THEN Null ELSE l.bus
        /\ r.swing = IF n = Swing THEN Null ELSE l.swing
        /\ r.made = l.made
        /\ r \in [services : [Names -> (1..l.made) \cup {Null}], bus : (1..l.made) \cup {Null},
                  swing : (1..l.made) \cup {Null}, made : Nat]
    BY DEF Registered, LocatorOK
  <1>2. r.services[n] = Null /\ \A m \in Names \ {n} : r.services[m] = l.services[m]
    BY <1>1 DEF LocatorOK
  <1>3. r.bus = r.services[Bus] /\ r.swing = r.services[Swing]
    BY <1>1, <1>2, LocatorAssumption DEF LocatorOK
  <1> HIDE DEF r
  <1>4. \A m, k \in Names :
            r.services[m] = r.services[k] /\ r.services[m] # Null => m = k \/ {m, k} = {Bus, Swing}
    BY <1>2 DEF LocatorOK
  <1> QED
    BY <1>1, <1>2, <1>3, <1>4 DEF LocatorOK, r

\* What the other clients of the locator do to it.
LEMMA LocatorStepOK ==
    ASSUME LocatorOK(locator), locator.made <= MaxServices, reset \subseteq Names, LocatorStep
    PROVE  /\ LocatorOK(locator') /\ Stable(locator, locator', reset')
           /\ locator.made <= locator'.made /\ locator'.made <= MaxServices
           /\ \A es \in 1..locator.made : Unnamed(locator, es) => Unnamed(locator', es)
           /\ reset \subseteq reset' /\ reset' \subseteq Names
           /\ UNCHANGED <<busClass, swingClass>>
  <1>1. ASSUME Grown(locator, locator'), locator'.made <= MaxServices,
               UNCHANGED <<busClass, swingClass, reset>>
        PROVE  /\ LocatorOK(locator') /\ Stable(locator, locator', reset')
               /\ locator.made <= locator'.made /\ locator'.made <= MaxServices
               /\ \A es \in 1..locator.made : Unnamed(locator, es) => Unnamed(locator', es)
               /\ reset \subseteq reset' /\ reset' \subseteq Names
               /\ UNCHANGED <<busClass, swingClass>>
    BY <1>1 DEF Grown, Stable
  <1>2. CASE GetEventBusService
    <2>1. Grown(locator, locator')
      BY <1>2, WithBusOK DEF GetEventBusService
    <2> QED
      BY <1>1, <1>2, <2>1 DEF GetEventBusService
  <1>3. CASE GetSwingEventService
    <2>1. Grown(locator, locator')
      BY <1>3, WithSwingOK DEF GetSwingEventService
    <2> QED
      BY <1>1, <1>3, <2>1 DEF GetSwingEventService
  <1>4. ASSUME NEW n \in ClientNames, SetEventService(n)
        PROVE  Grown(locator, locator') /\ locator'.made <= MaxServices
               /\ UNCHANGED <<busClass, swingClass, reset>>
    <2>1. n \in Names /\ locator.made < MaxServices /\ MaxServices \in Nat /\ locator.made \in Nat
      BY <1>4, LocatorAssumption DEF SetEventService, LocatorOK
    <2>2. CASE Exists(n)
      <3>1. locator' = locator
        BY <1>4, <2>2 DEF SetEventService
      <3> QED
        BY <1>4, <3>1, GrownSelf DEF SetEventService
    <2>3. CASE ~Exists(n)
      <3>1. locator' = Registered(Made(locator), n, locator.made + 1)
        BY <1>4, <2>3 DEF SetEventService
      <3>2. Grown(locator, locator')
        BY <2>1, <2>3, <3>1, RegisteredNewOK DEF Exists
      <3>3. locator'.made = locator.made + 1
        BY <3>1 DEF Registered, Made, LocatorOK
      <3> QED
        BY <1>4, <2>1, <3>2, <3>3 DEF SetEventService
    <2> QED
      BY <2>2, <2>3
  <1>5. ASSUME NEW n \in ClientNames, ResetEventService(n)
        PROVE  /\ LocatorOK(locator') /\ Stable(locator, locator', reset')
               /\ locator.made <= locator'.made /\ locator'.made <= MaxServices
               /\ \A es \in 1..locator.made : Unnamed(locator, es) => Unnamed(locator', es)
               /\ reset \subseteq reset' /\ reset' \subseteq Names
               /\ UNCHANGED <<busClass, swingClass>>
    <2>1. /\ n \in Names /\ locator' = Registered(locator, n, Null) /\ reset' = reset \cup {n}
          /\ UNCHANGED <<busClass, swingClass>>
      BY <1>5, LocatorAssumption DEF ResetEventService
    <2>2. /\ LocatorOK(locator') /\ locator'.made = locator.made /\ locator'.services[n] = Null
          /\ \A m \in Names \ {n} : locator'.services[m] = locator.services[m]
      BY <2>1, RegisteredNullOK
    <2>3. Stable(locator, locator', reset')
      BY <2>1, <2>2 DEF Stable
    <2>4. locator.made \in Nat /\ \A es \in 1..locator.made : es # Null
      BY LocatorAssumption DEF LocatorOK
    <2>5. \A es \in 1..locator.made : Unnamed(locator, es) => Unnamed(locator', es)
      BY <2>2, <2>4 DEF Unnamed
    <2> QED
      BY <2>1, <2>2, <2>3, <2>4, <2>5
  <1>6. CASE ClearAll
    <2>1. /\ locator' = [NoServices EXCEPT !.made = locator.made]
          /\ reset' = reset \cup {n \in Names : Exists(n)} /\ UNCHANGED <<busClass, swingClass>>
      BY <1>6 DEF ClearAll
    <2>2. /\ locator'.services = [n \in Names |-> Null] /\ locator'.bus = Null
          /\ locator'.swing = Null /\ locator'.made = locator.made /\ locator.made \in Nat
          /\ locator' \in [services : [Names -> (1..locator.made) \cup {Null}],
                           bus : (1..locator.made) \cup {Null},
                           swing : (1..locator.made) \cup {Null}, made : Nat]
      BY <2>1 DEF NoServices, LocatorOK
    <2>3. LocatorOK(locator')
      BY <2>2, LocatorAssumption DEF LocatorOK
    <2>4. Stable(locator, locator', reset')
      BY <2>1 DEF Stable, Exists
    <2>5. \A es \in 1..locator.made : es # Null
      BY <2>2, LocatorAssumption
    <2>6. \A es \in 1..locator.made : Unnamed(locator, es) => Unnamed(locator', es)
      BY <2>2, <2>5 DEF Unnamed
    <2> QED
      BY <2>1, <2>2, <2>3, <2>4, <2>6
  <1> QED
    BY <1>1, <1>2, <1>3, <1>4, <1>5, <1>6 DEF LocatorStep

LEMMA LocatorStepInv ==
    ASSUME IInv, LocatorStep, UNCHANGED <<lists, proxies, call, begun, last>>
    PROVE  IInv'
  <1>1. /\ LocatorOK(locator') /\ Stable(locator, locator', reset')
        /\ locator.made <= locator'.made /\ locator'.made <= MaxServices
        /\ \A es \in 1..locator.made : Unnamed(locator, es) => Unnamed(locator', es)
        /\ reset \subseteq reset' /\ reset' \subseteq Names
        /\ UNCHANGED <<busClass, swingClass>>
    BY LocatorStepOK DEF IInv, TablesInv
  <1>2. ListsOK(lists', proxies', locator', reset')
    BY <1>1, ListsAreOK, LocatorKeepsLists
  <1>3. TablesInv'
    BY <1>1, <1>2 DEF IInv, TablesInv
  <1>4. ASSUME NEW t \in Threads
        PROVE  CallInv(call[t], locator', reset', lists, proxies)
    <2>1. CallInv(call[t], locator, reset, lists, proxies)
      BY CallOfThread
    <2>2. call[t].at = "set" => Unnamed(locator', call[t].service)
      BY <1>1, <2>1 DEF CallInv, Placed
    <2>3. locator.made \in Nat /\ locator'.made \in Nat
      BY <1>1, ListsAreOK DEF LocatorOK
    <2> QED
      BY <1>1, <2>1, <2>2, <2>3, ListsAreOK, LocatorKeepsCall
  <1>5. CallsInv'
    BY <1>4 DEF IInv, CallsInv
  <1>6. ASSUME NEW o \in Objects
        PROVE  LastOK(o)'
    <2>1. LastOK(o) /\ CallsFor(o)' = CallsFor(o)
      BY DEF IInv, LastInv, CallsFor
    <2>2. Clean(o, reset', proxies) => Clean(o, reset, proxies)
      BY <1>1 DEF Clean
    <2> QED
      BY <2>1, <2>2 DEF LastOK
  <1>7. LastInv'
    BY <1>6 DEF IInv, LastInv
  <1> QED
    BY <1>3, <1>5, <1>7 DEF IInv

LEMMA StutterInv ==
    ASSUME IInv, UNCHANGED vars
    PROVE  IInv'
  <1>1. UNCHANGED <<locator, busClass, swingClass, reset, lists, proxies, call, begun, last>>
    BY DEF vars, locatorVars
  <1>2. TablesInv' /\ CallsInv'
    BY <1>1 DEF IInv, TablesInv, CallsInv
  <1>3. \A o \in Objects : LastOK(o) => LastOK(o)'
    BY <1>1 DEF LastOK, CallsFor
  <1>4. LastInv'
    BY <1>1, <1>3 DEF IInv, LastInv
  <1> QED
    BY <1>2, <1>4 DEF IInv

LEMMA NextInv == IInv /\ [Next]_vars => IInv'
  <1> SUFFICES ASSUME IInv, [Next]_vars
               PROVE  IInv'
    OBVIOUS
  <1>1. ASSUME NEW t \in Threads, NEW op \in {"process", "unprocess"}, NEW o \in Objects,
               Begin(t, op, o)
        PROVE  IInv'
    BY <1>1, BeginInv
  <1>2. ASSUME NEW t \in Threads,
               \/ GetService(t) \/ SetService(t) \/ Reget(t) \/ Subscribe(t) \/ Copy(t)
               \/ Look(t) \/ Dereference(t) \/ RemoveFound(t) \/ End(t)
        PROVE  IInv'
    BY <1>2, GetServiceInv, SetServiceInv, RegetInv, SubscribeInv, CopyInv, LookInv,
       DereferenceInv, RemoveFoundInv, EndInv
  <1>3. CASE LocatorStep /\ UNCHANGED <<lists, proxies, call, begun, last>>
    BY <1>3, LocatorStepInv
  <1>4. CASE UNCHANGED vars
    BY <1>4, StutterInv
  <1> QED
    BY <1>1, <1>2, <1>3, <1>4 DEF Next

LEMMA InitInv == Init => IInv
  <1> SUFFICES ASSUME Init
               PROVE  IInv
    OBVIOUS
  <1>1. /\ locator = NoServices /\ busClass \in BusClasses /\ swingClass \in SwingClasses
        /\ reset = {} /\ lists = [s \in Services |-> [k \in Lists |-> {}]] /\ proxies = <<>>
        /\ call = [t \in Threads |-> Idle] /\ begun = [process |-> 0, unprocess |-> 0]
        /\ last = [o \in Objects |-> "none"]
    BY DEF Init, LocatorInit
  <1>2. LocatorOK(locator) /\ locator.made <= MaxServices
    BY <1>1, LocatorAssumption DEF LocatorOK, NoServices
  <1>3. ListsOK(lists, proxies, locator, reset)
    <2>1. proxies \in Seq([handler : Handlers, set : BOOLEAN])
      BY <1>1
    <2>2. lists \in [Services -> [Lists -> SUBSET DOMAIN proxies]]
      BY <1>1
    <2>3. \A s \in Services, k \in Lists : lists[s][k] = {}
      BY <1>1
    <2> QED
      BY <2>1, <2>2, <2>3 DEF ListsOK
  <1>4. begun \in [process : 0..MaxProcess, unprocess : 0..MaxUnprocess]
    BY <1>1, AnnotatedAssumption
  <1>5. TablesInv
    BY <1>1, <1>2, <1>3, <1>4 DEF TablesInv
  <1>6. \A t \in Threads : CallInv(call[t], locator, reset, lists, proxies)
    BY <1>1, IdleInv
  <1>7. Idle \in Calls /\ Idle.op = "idle" /\ Idle.at = "next"
    BY IdleInv DEF CallInv, Idle
  <1>8. \A t, u \in Threads : t # u => Apart(call[t], call[u])
    BY <1>1, <1>7 DEF Apart
  <1>9. CallsInv
    BY <1>1, <1>6, <1>7, <1>8 DEF CallsInv
  <1>10. last \in [Objects -> Endings] /\ \A o \in Objects : LastOK(o)
    BY <1>1 DEF LastOK, Endings
  <1> QED
    BY <1>5, <1>9, <1>10 DEF IInv, LastInv

LEMMA InvHolds == Spec => []IInv
  BY InitInv, NextInv, PTL DEF Spec
-----------------------------------------------------------------------------
\* The locator, the lists and the calls keep their form: a call that has its service at
\* hand has one (the NullPointerException of the second lookup ends the others), and every
\* proxy in a list or in a copy has been made.
THEOREM TypeOKHolds == Spec => []TypeOK
  <1>1. IInv => TypeOK
    <2> SUFFICES ASSUME IInv
                 PROVE  TypeOK
      OBVIOUS
    <2>1. LocatorTypeOK
      <3>1. LocatorOK(locator) /\ locator.made <= MaxServices /\ MaxServices \in Nat
            /\ locator.made \in Nat
        BY LocatorAssumption DEF IInv, TablesInv, LocatorOK
      <3>2. 1..locator.made \subseteq Services /\ locator.made \in 0..MaxServices
        BY <3>1 DEF Services
      <3>3. locator \in [services : [Names -> Services \cup {Null}],
                         bus : Services \cup {Null}, swing : Services \cup {Null},
                         made : 0..MaxServices]
        BY <3>1, <3>2 DEF LocatorOK
      <3> QED
        BY <3>3 DEF LocatorTypeOK, IInv, TablesInv
    <2>2. \A t \in Threads : call[t].copy \subseteq DOMAIN proxies
      BY CallOfThread DEF CallInv, CopyOK
    <2>3. /\ proxies \in Seq([handler : Handlers, set : BOOLEAN])
          /\ lists \in [Services -> [Lists -> SUBSET DOMAIN proxies]]
      BY ListsAreOK
    <2> QED
      BY <2>1, <2>2, <2>3 DEF TypeOK, IInv, TablesInv, CallsInv, LastInv
  <1> QED
    BY <1>1, InvHolds, PTL

\* Whichever of the threads that make a service for one name wins, all of them subscribe
\* their objects to the winner's: no proxy is in a service that the name does not lead to,
\* as long as nobody takes the name's service away.
THEOREM NamedServiceIsSharedHolds == Spec => []NamedServiceIsShared
  <1>1. IInv => NamedServiceIsShared
    BY ListsAreOK DEF NamedServiceIsShared, ListsOK, Serves
  <1> QED
    BY <1>1, InvHolds, PTL

\* When process(o) has returned and no other call for o has begun since, each method of o
\* is in the list its annotation names, by a proxy that has not lost the object: neither
\* the threads that process and unprocess other objects nor a weak proxy that replaces
\* another one of o undoes that.
THEOREM ProcessedIsSubscribedHolds == Spec => []ProcessedIsSubscribed
  <1>1. IInv => ProcessedIsSubscribed
    <2> SUFFICES ASSUME IInv, NEW o \in Objects, last[o] = "processed", NEW h \in HandlersOf(o)
                 PROVE  \E s \in Services : \E p \in ProxiesOf(o, s, List[h]) : proxies[p].set
      BY DEF ProcessedIsSubscribed
    <2>1. IsSubscribed(lists, proxies, h)
      BY DEF IInv, LastInv, LastOK
    <2>2. PICK s \in Services : \E p \in lists[s][List[h]] : Owner[proxies[p].handler] = Owner[h]
      BY <2>1 DEF IsSubscribed
    <2>3. PICK p \in lists[s][List[h]] : Owner[proxies[p].handler] = Owner[h]
      BY <2>2
    <2>4. Owner[h] = o /\ List[h] \in Lists
      BY AnnotatedAssumption DEF HandlersOf
    <2>5. proxies[p].set
      BY <2>3, <2>4, ListsAreOK DEF ListsOK
    <2> QED
      BY <2>3, <2>4, <2>5 DEF ProxiesOf, OwnerOf
  <1> QED
    BY <1>1, InvHolds, PTL

\* When unprocess(o) has returned and no other call for o has begun since, no proxy of o is
\* left, although each was looked for in a copy and with no lock: the copy has the one proxy
\* of the method, and nothing but the call takes that off.
THEOREM UnprocessedIsGoneHolds == Spec => []UnprocessedIsGone
  <1>1. IInv => UnprocessedIsGone
    <2> SUFFICES ASSUME IInv, NEW o \in Objects, last[o] = "unprocessed", Separate(o), reset = {},
                        \A h \in HandlersOf(o) \cap Strong : OnceMade(h),
                        NEW s \in Services, NEW k \in Lists, NEW p \in ProxiesOf(o, s, k)
                 PROVE  FALSE
      BY DEF UnprocessedIsGone
    <2>1. Clean(o, reset, proxies)
      BY DEF Clean, OnceMade
    <2>2. \A h \in HandlersOf(o) : IsGone(lists, proxies, h)
      BY <2>1 DEF IInv, LastInv, LastOK
    <2>3. p \in lists[s][k] /\ Owner[proxies[p].handler] = o
      BY DEF ProxiesOf, OwnerOf
    <2>4. proxies[p].handler \in Handlers
      BY <2>3, ListsAreOK, HandlerOfProxy
    <2> QED
      BY <2>2, <2>3, <2>4 DEF HandlersOf, IsGone
  <1> QED
    BY <1>1, InvHolds, PTL
=============================================================================
