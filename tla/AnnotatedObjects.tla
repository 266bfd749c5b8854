--------------------------- MODULE AnnotatedObjects ---------------------------
(***************************************************************************)
(* AnnotationProcessor.process and unprocess: objects whose annotated      *)
(* methods ("handlers") are subscribed, through proxies, to the services   *)
(* their annotations name, by several threads at a time.                   *)
(*                                                                         *)
(* A call holds no lock of its own.  Per handler it asks the locator for   *)
(* the service (creating it, and losing the race to create it), then       *)
(* changes or reads one list of the service under its listenerLock.  An    *)
(* unprocess copies what the service returns for the event, looks for a    *)
(* proxy of the object in the copy outside the lock, and removes it in a   *)
(* second locked section.  The look reads the proxy's field twice, and     *)
(* proxyUnsubscribed of another thread may null it in between.             *)
(*                                                                         *)
(* The objects are alive: collection is SubscriberRegistry's.  All         *)
(* priorities are the default, so copies keep the order of the lists.      *)
(* Proxies are numbered as they are subscribed, each at the end of its     *)
(* list: a list, and what is left of a copy, is the set of its proxies.    *)
(***************************************************************************)
EXTENDS ServiceLocator, SequencesExt

CONSTANTS
    Threads,
    Objects,        \* annotated objects
    Handlers,       \* their annotated methods
    Lists,          \* the subscriber lists of a service
    Owner,          \* Owner[h]: the object h is a method of
    List,           \* List[h]: the list the annotation of h subscribes to
    Name,           \* Name[h]: its eventServiceName
    Strong,         \* handlers with referenceStrength STRONG
    Fragile,        \* handlers whose autoCreateEventServiceClass may fail to be made
    Copies,         \* Copies[k]: the lists the lookup for k copies, in its order
    MaxProcess,     \* bound: process calls in a behaviour
    MaxUnprocess    \* bound: unprocess calls in a behaviour

ASSUME AnnotatedAssumption ==
    /\ Owner \in [Handlers -> Objects] /\ List \in [Handlers -> Lists]
    /\ Name \in [Handlers -> Names] /\ Strong \subseteq Handlers
    /\ Fragile \subseteq Handlers
    /\ Copies \in [Lists -> Seq(Lists)]
    /\ \A k \in Lists : Contains(Copies[k], k)
    /\ MaxProcess \in Nat /\ MaxUnprocess \in Nat

VARIABLES
    lists,          \* lists[s][k]: the proxies subscribed to list k of service s
    proxies,        \* every proxy made: its handler, and is its field non-null
    call,           \* call[t]: the process or unprocess thread t is in
    begun,          \* calls begun, per operation
    last            \* history: how the last call for an object ended

vars == <<locatorVars, lists, proxies, call, begun, last>>

HandlersOf(o) == {h \in Handlers : Owner[h] = o}
OwnerOf(p) == Owner[proxies[p].handler]

Idle == [op |-> "idle", obj |-> Null, todo |-> {}, at |-> "next", handler |-> Null,
         service |-> Null, copy |-> {}, alone |-> TRUE]

Positions == {"next", "set", "reget", "subscribe", "copy", "look", "deref", "remove"}
InService == {"subscribe", "copy", "look", "deref", "remove"}

Calls == {c \in [op : {"idle", "process", "unprocess"}, obj : Objects \cup {Null},
                 todo : SUBSET Handlers, at : Positions, handler : Handlers \cup {Null},
                 service : Services \cup {Null}, copy : SUBSET Nat, alone : BOOLEAN] :
             /\ c.op # "idle" => c.obj \in Objects
             /\ c.at # "next" => c.handler \in Handlers
             /\ c.at \in InService => c.service \in Services}

Endings == {"none", "processed", "unprocessed", "processFailed", "unprocessFailed", "unknown"}

TypeOK ==
    /\ LocatorTypeOK
    /\ proxies \in Seq([handler : Handlers, set : BOOLEAN])
    /\ lists \in [Services -> [Lists -> SUBSET DOMAIN proxies]]
    /\ call \in [Threads -> Calls]
    /\ \A t \in Threads : call[t].copy \subseteq DOMAIN proxies
    /\ begun \in [process : 0..MaxProcess, unprocess : 0..MaxUnprocess]
    /\ last \in [Objects -> Endings]

Init ==
    /\ LocatorInit
    /\ lists = [s \in Services |-> [k \in Lists |-> {}]]
    /\ proxies = <<>>
    /\ call = [t \in Threads |-> Idle]
    /\ begun = [process |-> 0, unprocess |-> 0]
    /\ last = [o \in Objects |-> "none"]
-----------------------------------------------------------------------------
\* Calls for object o in progress.
CallsFor(o) == {t \in Threads : call[t].op # "idle" /\ call[t].obj = o}

MaxCalls == [process |-> MaxProcess, unprocess |-> MaxUnprocess]

\* process(o), unprocess(o): the loop over the annotated methods begins.
Begin(t, op, o) ==
    /\ call[t].op = "idle" /\ begun[op] < MaxCalls[op]
    /\ begun' = [begun EXCEPT ![op] = @ + 1]
    /\ call' = [u \in Threads |->
                 IF u = t THEN [Idle EXCEPT !.op = op, !.obj = o, !.todo = HandlersOf(o),
                                            !.alone = (CallsFor(o) = {})]
                 ELSE IF u \in CallsFor(o) THEN [call[u] EXCEPT !.alone = FALSE]
                 ELSE call[u]]
    /\ last' = [last EXCEPT ![o] = "unknown"]
    /\ UNCHANGED <<locatorVars, lists, proxies>>

Busy(t, position) == call[t].op # "idle" /\ call[t].at = position
Goto(t, position) == call' = [call EXCEPT ![t].at = position]

\* The call leaves by an exception: the handlers left are not visited.
Fail(t) ==
    /\ call' = [call EXCEPT ![t] = Idle]
    /\ last' = [last EXCEPT ![call[t].obj] =
                 IF call[t].op = "process" THEN "processFailed" ELSE "unprocessFailed"]
    /\ UNCHANGED <<lists, proxies, begun>>

\* On to the next handler.
NextHandler(t) ==
    call' = [call EXCEPT ![t] = [Idle EXCEPT !.op = call[t].op, !.obj = call[t].obj,
                                             !.todo = call[t].todo, !.alone = call[t].alone]]

\* The service is at hand: subscribe a proxy to it, or look for one in it.
WithService(t, h, es) ==
    [call[t] EXCEPT !.todo = @ \ {h}, !.handler = h, !.service = es,
                    !.at = IF call[t].op = "process" THEN "subscribe" ELSE "copy"]

\* getEventServiceFromAnnotation up to newInstance: the reserved names give a
\* service or an exception, another name that has none makes one, or newInstance throws.
GetService(t) ==
    /\ Busy(t, "next")
    /\ \E h \in call[t].todo :
        LET n == Name[h]
            es == Found(locator, n).services[n]
        IN  \/ /\ es # Null
               /\ locator' = Found(locator, n) /\ locator'.made <= MaxServices
               /\ call' = [call EXCEPT ![t] = WithService(t, h, es)]
               /\ UNCHANGED <<lists, proxies, begun, last>>
            \/ /\ es = Null /\ (n \in {Bus, Swing} \/ h \in Fragile)
               /\ locator' = Found(locator, n) /\ locator'.made <= MaxServices
               /\ Fail(t)
            \/ /\ es = Null /\ n \notin {Bus, Swing}
               /\ locator' = Made(locator) /\ locator'.made <= MaxServices
               /\ call' = [call EXCEPT ![t] =
                            [WithService(t, h, locator'.made) EXCEPT !.at = "set"]]
               /\ UNCHANGED <<lists, proxies, begun, last>>
    /\ UNCHANGED <<busClass, swingClass, reset>>

\* Mutant of SetService: the thread that lost the race keeps the service it made.
SetServiceKeeping(t) ==
    /\ Busy(t, "set")
    /\ LET c == call[t]
           n == Name[c.handler]
       IN  /\ locator' = IF Exists(n) THEN locator ELSE Registered(locator, n, c.service)
           /\ call' = [call EXCEPT ![t] = WithService(t, c.handler, c.service)]
    /\ UNCHANGED <<busClass, swingClass, reset, lists, proxies, begun, last>>

\* Mutant of SetService: EventServiceExistsException is not caught.
SetServiceThrowing(t) ==
    /\ Busy(t, "set")
    /\ LET c == call[t]
           n == Name[c.handler]
       IN  IF Exists(n)
           THEN Fail(t) /\ UNCHANGED locator
           ELSE /\ locator' = Registered(locator, n, c.service)
                /\ call' = [call EXCEPT ![t] = WithService(t, c.handler, c.service)]
                /\ UNCHANGED <<lists, proxies, begun, last>>
    /\ UNCHANGED <<busClass, swingClass, reset>>

\* setEventService with the service made.  When another thread has registered one
\* since, it throws EventServiceExistsException, and the name is looked up again.
SetService(t) ==
    /\ Busy(t, "set")
    /\ LET c == call[t]
           n == Name[c.handler]
       IN  IF Exists(n)
           THEN Goto(t, "reget") /\ UNCHANGED locator
           ELSE /\ locator' = Registered(locator, n, c.service)
                /\ call' = [call EXCEPT ![t] = WithService(t, c.handler, c.service)]
    /\ UNCHANGED <<busClass, swingClass, reset, lists, proxies, begun, last>>

\* The second lookup.  Null, when the name has been reset in between, is used all
\* the same: NullPointerException.
Reget(t) ==
    /\ Busy(t, "reget")
    /\ LET h == call[t].handler
           es == locator.services[Name[h]]
       IN  IF es = Null
           THEN Fail(t)
           ELSE /\ call' = [call EXCEPT ![t] = WithService(t, h, es)]
                /\ UNCHANGED <<lists, proxies, begun, last>>
    /\ UNCHANGED locatorVars
-----------------------------------------------------------------------------
\* Mutant of Replaced: a proxy replaces every proxy of its list.
ReplacedAll(h, p) == h \notin Strong

\* subscribe: a proxy with a weak reference replaces the proxies of its object in
\* the list, whichever method they call; one with a strong reference replaces none.
Replaced(h, p) == h \notin Strong /\ OwnerOf(p) = Owner[h]

\* new ...ProxySubscriber and subscribeStrongly or subscribeExactlyStrongly.
Subscribe(t) ==
    /\ Busy(t, "subscribe")
    /\ LET h == call[t].handler
       IN  /\ proxies' = Append(proxies, [handler |-> h, set |-> TRUE])
           /\ lists' = [lists EXCEPT ![call[t].service][List[h]] =
                {p \in @ : ~Replaced(h, p)} \cup {Len(proxies')}]
    /\ NextHandler(t)
    /\ UNCHANGED <<locatorVars, begun, last>>

\* getSubscribers(Class), getSubscribers(String): a copy of the lists of the event.
Copy(t) ==
    /\ Busy(t, "copy")
    /\ LET ks == Copies[List[call[t].handler]]
           s == call[t].service
       IN  call' = [call EXCEPT ![t].at = "look",
                                ![t].copy = UNION {lists[s][ks[i]] : i \in 1..Len(ks)}]
    /\ UNCHANGED <<locatorVars, lists, proxies, begun, last>>

\* The proxies of a copy come list by list, the oldest of a list first.
Turn(k, p) == CHOOSE i \in 1..Len(Copies[k]) : Copies[k][i] = List[proxies[p].handler]
NoLater(k, p, q) == Turn(k, p) < Turn(k, q) \/ (Turn(k, p) = Turn(k, q) /\ p <= q)
NextInCopy(t) ==
    CHOOSE p \in call[t].copy : \A q \in call[t].copy : NoLater(List[call[t].handler], p, q)

\* The result of getProxiedSubscriber compared with the object: the search ends with the
\* proxy found, or goes on.
Compared(t, p) ==
    IF proxies[p].set /\ OwnerOf(p) = call[t].obj
    THEN call' = [call EXCEPT ![t].copy = {p}, ![t].at = "remove"]
    ELSE call' = [call EXCEPT ![t].copy = @ \ {p}, ![t].at = "look"]

\* getProxySubscriber, one proxy of the copy.  The first read of the field tells a
\* WeakReference from a subscriber and from null; a WeakReference is read again.
Look(t) ==
    /\ Busy(t, "look")
    /\ IF call[t].copy = {}
       THEN NextHandler(t)
       ELSE LET p == NextInCopy(t)
            IN  IF proxies[p].set /\ proxies[p].handler \notin Strong
                THEN Goto(t, "deref")
                ELSE Compared(t, p)
    /\ UNCHANGED <<locatorVars, lists, proxies, begun, last>>

\* ((WeakReference) proxiedSubscriber).get(): a NullPointerException if the proxy
\* has been unsubscribed since the first read.
Dereference(t) ==
    /\ Busy(t, "deref")
    /\ LET p == NextInCopy(t)
       IN  IF proxies[p].set
           THEN Compared(t, p) /\ UNCHANGED <<lists, proxies, begun, last>>
           ELSE Fail(t)
    /\ UNCHANGED locatorVars

\* Mutant of RemoveFound: the proxy found is told so, and left in the list.
RemoveNothing(t) ==
    /\ Busy(t, "remove")
    /\ LET p == NextInCopy(t)
       IN  proxies' = [proxies EXCEPT ![p].set = FALSE]
    /\ NextHandler(t)
    /\ UNCHANGED <<locatorVars, lists, begun, last>>

\* unsubscribe of the proxy found, from the list of this handler: a proxy found in
\* another of the lists copied, or removed meanwhile, is not there.
RemoveFound(t) ==
    /\ Busy(t, "remove")
    /\ LET p == NextInCopy(t)
           s == call[t].service
           k == List[call[t].handler]
       IN  IF p \in lists[s][k]
           THEN /\ lists' = [lists EXCEPT ![s][k] = @ \ {p}]
                /\ proxies' = [proxies EXCEPT ![p].set = FALSE]
           ELSE UNCHANGED <<lists, proxies>>
    /\ NextHandler(t)
    /\ UNCHANGED <<locatorVars, begun, last>>

\* The loop ends.
End(t) ==
    /\ Busy(t, "next") /\ call[t].todo = {}
    /\ call' = [call EXCEPT ![t] = Idle]
    /\ last' = [last EXCEPT ![call[t].obj] =
                 IF ~call[t].alone THEN "unknown"
                 ELSE IF call[t].op = "process" THEN "processed" ELSE "unprocessed"]
    /\ UNCHANGED <<locatorVars, lists, proxies, begun>>

Next ==
    \/ \E t \in Threads :
        \/ \E op \in {"process", "unprocess"}, o \in Objects : Begin(t, op, o)
        \/ GetService(t) \/ SetService(t) \/ Reget(t)
        \/ Subscribe(t)
        \/ Copy(t) \/ Look(t) \/ Dereference(t) \/ RemoveFound(t)
        \/ End(t)
    \/ LocatorStep /\ UNCHANGED <<lists, proxies, call, begun, last>>

Spec == Init /\ [][Next]_vars
-----------------------------------------------------------------------------
ProxiesOf(o, s, k) == {p \in lists[s][k] : OwnerOf(p) = o}
OnceMade(h) == \A p, q \in DOMAIN proxies : proxies[p].handler = h /\ proxies[q].handler = h => p = q

\* No two handlers of the object meet in the lists that one lookup copies.
Separate(o) ==
    \A h, i \in HandlersOf(o) :
        (h # i /\ (Name[h] = Name[i] \/ {Name[h], Name[i]} = {Bus, Swing})) =>
            ~Contains(Copies[List[h]], List[i])

\* However many threads process objects whose annotations name a service nobody
\* has made yet, they all subscribe to the one that ends up registered: an event
\* published to the service of that name reaches every one of them
\* (getEventServiceFromAnnotation and its EventServiceExistsException).
NamedServiceIsShared ==
    \A s \in Services, k \in Lists :
        \A p \in lists[s][k] :
            LET n == Name[proxies[p].handler]
            IN  n \notin reset => locator.services[n] = s

\* After process(o) every method of o is subscribed to its list, by a proxy that
\* still has the object, whatever the other threads process and unprocess: their
\* lookups copy and remove proxies of the same lists.
ProcessedIsSubscribed ==
    \A o \in Objects : last[o] = "processed" =>
        \A h \in HandlersOf(o) :
            \E s \in Services : \E p \in ProxiesOf(o, s, List[h]) : proxies[p].set

\* After unprocess(o) no list of any service has a proxy of o left, although the
\* proxy is looked for outside the lock.  Two methods whose lists one lookup
\* copies, a method with a strong reference processed twice and a service reset in
\* between are the cases where the code leaves one behind.
UnprocessedIsGone ==
    \A o \in Objects :
        (/\ last[o] = "unprocessed" /\ Separate(o) /\ reset = {}
         /\ \A h \in HandlersOf(o) \cap Strong : OnceMade(h)) =>
            \A s \in Services, k \in Lists : ProxiesOf(o, s, k) = {}

\* process fails for want of a service only: one that was taken away, or a class,
\* of a property or of an annotation of the object's own, that cannot be instantiated.
\* Losing the race to create one is no failure.
ProcessFailsForWantOfService ==
    \A o \in Objects : last[o] = "processFailed" =>
        reset # {} \/ "broken" \in {busClass, swingClass} \/ HandlersOf(o) \cap Fragile # {}
=============================================================================
