# TLA+ models of RetailManagement_CQRS_ES

The repository is a JavaFX/Swing retail application written around commands, domain events and an event bus.
What it has of its own program logic is in `src/ProductManagementJavaFX/src/main/java/org/loosefx` (called `P`
below): the event bus (`eventbus`), the command distributor (`commands`), the registrars (`registrars`) and the
event-sourced aggregates (`eventsourcing`).  The rest is UI wiring, validation services, vendored JavaScript and
documents.  The event bus has no tests here, and nothing is tested with more than one thread.

`TSES` is `P/eventbus/ThreadSafeEventService.java`; numbers after it are lines.

## 1. Inventory

### 1.1 The event bus: ThreadSafeEventService

One class of 2346 lines with three groups of state, taken here as three components.

**Subscription tables.**  Maps from a class, an exact class, a type, a topic or a topic pattern to a list of
subscribers, and the same for veto listeners.  An entry is a subscriber, a `WeakReference` to one, or a
`ProxySubscriber` that holds its object strongly or weakly.  With them go `weakRefPlusProxySubscriberCount`, the
cleanup `Timer` with its task, and three settings (start threshold, stop threshold, period).

* Operations: `subscribe*`, `unsubscribe*` (by subscriber, or by the object behind a proxy), `getSubscribers*`,
  `clearAllSubscribers`, the settings, and `CleanupTimerTask.run`.
* Who takes part: client threads, the thread of the `Timer`, and the garbage collector, which clears a weak
  reference between any two critical sections of `listenerLock`.
* Correct when: nobody is in a list twice; nobody live leaves a list but by its own unsubscription;
  `unsubscribe` reports what it did; the count never falls behind the weak entries, so that a timer runs when
  it is needed; and what is collected goes in the end.

**Publication.**  `publish()` takes a snapshot of the subscribers in one critical section, one of the veto
listeners in another, then without the lock asks the vetoers, adds the event to the cache (a third section) and
calls the subscribers of the snapshot.  Its state is local to every activation of `publish()`, and the
`PublicationStatus` on the event.

* Operations: `publish` in all its overloads, the callbacks it makes, `handleException`, the sort by priority.
* Hard because: callbacks throw, subscribe, unsubscribe and publish again; other threads do so at the same time;
  the cleanup thread publishes `CleanupEvent`s *under* the lock.
* Correct when: the subscribers called are the snapshot's, in its order, each once; nothing vetoed is seen or
  cached; the status follows its states; priorities order, and subscription order breaks their ties; every
  publication ends.

**Cache.**  The last events per class and the last payloads per topic, the sizes they are cut to (default, per
class with inheritance, per topic, per pattern of topics), and memo tables of sizes looked up.

* Operations: setters, lookups, `addEventToCache`, `clearCache*`, getters.
* Hard because: `addEventToCache` holds `listenerLock` and the rest `cacheLock`, so a list can be cleared between
  its steps; and what a lookup memoizes is read by later lookups of other classes.
* Correct when: a size answered is the one set; a list is the latest events, without a gap and not too long.

### 1.2 Around the bus

**SwingEventService.**  Passes `publish` to the event dispatch thread with `invokeLater`, or runs it at once when it is
on that thread.  The snapshots of subscribers and vetoers are taken on the caller's thread, the rest happens when the dispatch
thread comes to it, and client code that opens a dialog lets that thread run its queue in the middle of a callback.
Correct when: nothing is called back on another thread, nor under another's lock; the snapshot used is still the one
taken; what is queued is published in the end.

**EventServiceLocator, EventBus.**  A map of services by name, two of the names reserved, their services also in static
fields and made on first use by class properties that may name a class that cannot be made.  Every method is static
synchronized.  `EventBus` has static methods that fetch the service and call it.
Correct when: field and map hold the same service under a reserved name, in whatever order getters, setters and
`clearAll` come.

**AnnotationProcessor and the annotation proxies.**  `process(o)` makes a proxy per annotated method and subscribes it to the
service the annotation names, which it makes when there is none; `unprocess(o)` looks for a proxy of `o` in a copy
of what the service has, outside the lock, and unsubscribes it, which nulls the proxy's field.
Hard because: threads lose races to make the service, and meet each other's proxies half unsubscribed.
Correct when: all who name a service get the same one; processed objects are subscribed and unprocessed ones gone.

**Container event services.**  `ContainerEventServiceFinder` walks up from a Swing component to the service of its
container; `ContainerEventServiceRegistrar` listens to the hierarchy and takes a subscriber from one service to the
next as its component moves; `ContainerEventServiceAction` publishes to the service of its source.
Hard because: the service is remembered, and right only if the listeners are told of every change; a supplier of services
may throw in the middle.
Correct when: a subscriber is on one service at most, the one its registrar will take it off; and it is the one that
actions in its container publish to.

### 1.3 Commands and aggregates

**CommandDistributor** (`P/commands`).  No state of its own but the event service it is given: `register`
unsubscribes the subscribers it finds and subscribes the handler to exactly the command's class; `unregister`
unsubscribes it; `send` counts the subscribers, throws when there are none, and publishes.  Several calls of the
service each, without a lock around them, and between them and during the publication any client of the service may
subscribe, leave, or veto.  `AnnotatedCommandHandlerRegistrar` registers handlers it makes itself.
Correct when: a handler registered and not collected gets every command sent afterwards that nobody vetoes; a command is
lost silently only in the window between the count and the publication, or by a veto, of which `send` tells its caller nothing.

**Event-sourced aggregate** (`P/eventsourcing`).  `AbstractAggregateRoot` keeps a version, the next event's
version, the events applied since the last save, the child providers (entities) and the handlers registered by
event type.  `apply(event)` gives the event its version, calls the handler, publishes on the bus and only then
records the event.  `loadFromHistory` replays a stored stream; `getChanges`, `updateVersion`, `clearEvents` are for
a storage of which the repository has the interfaces alone.  `AbstractEntity` records events of its own under
versions the root issues.
Hard because: handlers and subscribers may apply further events and may throw; the process may end between any
two steps; versions are ints compared by difference.
Correct when: the changes are in the order of the versions; no two stored events share a version; the object in
memory is what its stored history gives back.

### 1.4 How they interact

    CommandDistributor --subscribeExactly, unsubscribe, publish--> EventService <--publish-- AggregateRoot.apply
    AnnotationProcessor, ContainerEventServiceRegistrar                |
      --subscribe, unsubscribe, getSubscribers--------------------> EventService <--publish-- actions
                                                                       |
    client --subscribe, veto, publish--> tables --snapshot--> publish() --> cache, subscribers --> client code
                                            ^                     ^ \
         garbage collector, cleanup timer --+---- CleanupEvents --+  +--> event dispatch thread (SwingEventService)

All of it is calls in one process.  What is shared between threads is the tables, the cache, the locator and the
annotation proxies; an aggregate is used from one thread at a time, and the container services from the dispatch thread.

### 1.5 Not program logic

RetailManagementApp (Spring and Axon configuration and an AngularJS client that is the vendored library and an
empty module), AddressValidationService, the value types and regular expression parsers of the small libraries,
the empty JavaFX window, the logging facade.  PROJECT.json lists each with its reason.

The only JavaScript in the repository is AngularJS 1.2 (`angular.js`, `angular-route.js`) as distributed, and a module
definition without a controller.  It is a third party's library and no part of this program, so that none of it is
modelled: what the modules translate is Java throughout.

## 2. Modules

| module | models | extends / instantiates |
| --- | --- | --- |
| `SubscriberLists` | what the tables promise to those who live (abstract) | |
| `SubscriberRegistry` | the subscription tables, the count and the cleanup timer | `SubscriberLists` by a refinement mapping |
| `AtomicPublication` | what a publication promises (abstract) | |
| `Publication` | `publish()` by threads and in callbacks, at once or by way of the dispatch thread | `AtomicPublication` by a refinement mapping |
| `EventCache` | the caches, the sizes and their memo tables | |
| `AggregateRoot` | aggregate root, its entities, and a store | |
| `CommandDistributor` | register, unregister, send over an event service | |
| `ServiceLocator` | the named services and their static fields | |
| `AnnotatedObjects` | process and unprocess by several threads | `ServiceLocator` |
| `ContainerRegistrar` | finder, registrar and action over a component hierarchy | |
| `MC...` | instances of each for TLC | the module |
| `SubscriberRegistryProofs`, `PublicationProofs`, `EventCacheProofs`, `AggregateRootProofs`, `CommandDistributorProofs`, `AnnotatedObjectsProofs`, `ContainerRegistrarProofs` | theorems | the module, TLAPS |
| `PublicationRefinementProofs` | that `Publication` implements `AtomicPublication` | `PublicationProofs` |

`AnnotatedObjects` is composed with `ServiceLocator`: its calls and those of other clients are steps on one locator.  The other
modules meet at the event service, each taking it as the result of the other module and not modelling it twice:
`Publication` has the tables as plain lists (that a list holds a subscriber once is `SingleSubscription` of
`SubscriberRegistry`, and what a stale entry does there is that module's subject) and the cache as the list that
`EventCache` shows it to be; `CommandDistributor` has the tables as sets and a publication as the two snapshots, the veto listeners and then
the handlers called one by one, in any order, each of which may throw; it is that of a service which publishes at once, with `edt = Null` in
`Publication`, and what its cache and its lock add there changes nothing for the sender; `AggregateRoot` has the publication of an event as one call of
client code that returns or throws; `AnnotatedObjects` has the lists of each service with the steps under `listenerLock` that
`SubscriberRegistry` has, for objects that are alive; `ContainerRegistrar` has a subscription as a pair of service and key.

### 2.1 SubscriberRegistry

The lists are one set of entries `[key, obj, kind, at]`: `key` is map ("class" or "exact") and class, `kind` is how the
object is held, `at` the number of the subscribe call.  As the lists are only appended to and removed from, `at`
gives their order.  Veto, type, topic and pattern maps run through the same methods (`subscribe`,
`removeFromSetResolveWeakReferences`, TSES 639-711, 1655-1705) and are not told apart.

* `Subscribe`, `Unsubscribe`: one critical section, one action.
* `FindProxy` and `RemoveFound`: `unsubscribe(Class, Object)` looks a proxy up in one section and removes it in a second;
  `lookup` is the local variable between them.  One such call is under way at a time.
* `GetSubscribers`: a lookup drops the stale entries of the lists it reads.
* `Collect`: the garbage collector.  It takes an object that nothing in the tables or a lookup holds strongly.
* `CancelCleanup`, `RunCleanup`, `CleanupFails`, `CleanupThrows`: the outcomes of `CleanupTimerTask.run`.  A null stop
  threshold, or a subscriber to one of its three `CleanupEvent`s that throws (`ThrowPoints`: before the count is looked at,
  before the lists are swept, after), kills the thread of the `Timer` and leaves `cleanupTimer` set; that state is "dead", and nothing leaves it.
* `Tune`: the setters.

`Cleaned`, `Decremented` and `Replaced` are the code's own: a stale proxy stays (the null test is of the wrong
variable, TSES 2176), the count is clamped at 0, a replaced entry stays counted, and a proxy with a strong
reference replaces nothing.

`SubscriberLists` says what a subscriber may count on: it joins a list at its end, keeps its place until it joins anew, leaves
one place, is dead, or all lists are cleared, and nothing that is done for others moves it.  References, proxies, stale entries,
counts, cleanups, lookups and the timer are not in it.  The mapping (`PlacesOf`) gives to each living object the numbers of its
entries, and none to the dead; so a cleanup, a lookup that drops stale entries and the sweep of the tables are stutters, and
`Collect` is the death of an object.  `Doubles` allows an object more than one place: `Replaced` spares a proxy with a strong reference, so
that an object of that kind may be in a list twice, and only with that kind.

### 2.2 Publication and AtomicPublication

A thread is a stack of frames, innermost first; a frame is an activation of `publish()` with its event, its place
(`pc`), the subscribers and the vetoers still to be called.  `Publish` is the first critical section, `Initiate` the
second, `AddEventToCache` the third; `AskVetoer`/`PassVeto`/`Veto` and `CallSubscriber`/`SubscriberReturns` are the
call of client code and its return, so that everything else can come between.  `CallbackThrows` is
`handleException`: it throws on, so the publication ends.  The client code around a nested publication may catch
the exception or throw it on in its turn, which the stack gives as two steps.  `BeginCleanup` and `EndCleanup` bracket
`CleanupTimerTask.run`, which holds `listenerLock` while it publishes; the lock is reentrant (`CanLock`).
`audience`, `judges`, `passed` and `called` are history variables.

`Sorted` is the sort by priority, given by what it does: the entry of position `i` goes to `Place(s, i)`, one more than the
positions that are `Earlier`, by priority and then by subscription order.  `Without` is `List.remove`.

With `edt` set the service is a `SwingEventService`: `Initiate` of another thread ends the call there and appends the frame to
`queue`, and `Dispatch` is the dispatch thread taking the oldest, when it has nothing to do or client code runs its queue from
within a callback (a modal dialog), which is a nested frame like any other.

`AtomicPublication` says what a publisher may count on: one step fixes an audience, then the event is vetoed before
anybody hears it, or the audience hears it in order, each once, and it is completed after the last; it may fail at
any point.  The mapping computes `outcome` from the status, the stacks and the queue (`Outcome`: "open" while an activation of
`publish()` has the event, then the `Ending` that its status says); both kinds of service implement it.

### 2.3 EventCache

`default`, the raw settings, the memo tables with their changed flags, the lists, and the `addEventToCache` under way.
`FindClassSize`/`FindTopicSize` take the size (under `cacheLock`), `FetchList` takes the list from the map,
`AddToCache` puts it back, extends and cuts it; `Clear` comes between, and a list fetched before it is "detached".
`Path` is the order in which a lookup passes the classes, `FirstSize` the size it meets first.  That an interface has no
superclass, which `getSuperclass` answers with null, is an assumption of the module.
Events are numbered as they come, so that a list of the latest events is a list of the latest numbers.
Which pattern answers for a topic is the order of a `HashMap`: any that applies.  A lookup of a topic throws when only patterns
have sizes (`TopicLookupFails`: `putAll(null)`, TSES 1941): `TopicAnswers` is then empty, a `GetTopicSize` leaves all as it is, and an
`addEventToCache` ends in `TopicSizeThrows` and `Abandon`, its payload neither cached nor delivered.

### 2.4 AggregateRoot

`stack` holds the calls of `apply`, of an entity's `apply`, and of `loadFromHistory` under way, with the events left to
replay; "handler" and "subscribers" are the places where client code runs, in which every other operation is
enabled.  `Wrap` is int arithmetic of `2 * Half` values.  `Save` and `Restart` are the external store and the end of
the process: `Restart` is enabled everywhere and puts a new object and a `loadFromHistory` of what is stored in its place.
`getChanges` collects the `Records` (provider and index) of the root and its children and sorts them by version:
each has its `Place`, as in `Publication`.  The comparator takes the difference of two ints, so that versions which wrap around
still compare in the order they were given, as long as they are less than half the ints apart; this is why there are
no more than `Half` events (`AggregateAssumption`), which for an int is 2^31.
The properties are about clients without *misuse*, which the module names and the code does not prevent: applying an event
to an object that is not loaded, saving from within a handler or subscriber, and registering an entity twice.

### 2.5 CommandDistributor

`exact` and `inherited` are the two lists of the service that concern the command's class; `held` and `collected` say who is
kept and who the garbage collector has taken.  `Register` is followed by one `Displace` for each subscriber found
and by `SubscribeExactly`; `Send` is the check.  The publication is `Publish`, which takes the snapshot of the subscribers, `GetVetoSubscribers`, which takes
that of `vetoing`, then `PassVeto`, `Veto` or `VetoerThrows` for each veto listener, then `CallHandler` or `HandlerThrows` for each
subscriber; `GoOn` is what comes next.  A veto ends `send` normally ("returned") with nobody called; `objector` remembers who it was.
`ChangeVetoing` is any client.  `Displace` is the overload
`unsubscribe(Class, Object)` the compiler chooses, which unsubscribes a *proxy of* the handler, and `Unregister`
looks in the list the handler is not in: so `known` handlers leave by collection only.  `Subscribe` is any other client.

### 2.6 ServiceLocator and AnnotatedObjects

`locator` is the record of what the class lock guards: the map `services`, the fields `bus` and `swing`, and the number of services
made, which names them.  As every method is one critical section, each is an operator from a locator to a locator (`WithSwing`,
`WithBus`, `Found`, `Registered`), and `Found(l, n).services[n]` is what `getEventService(n)` returns, Null standing for the exception of
a class property that cannot be honoured.  `getEventBusService` fetches the swing service first, so that it may register
one and then throw.

A call of `process` or `unprocess` is a record per thread: the handlers still to be visited (in any order, as reflection gives
them), the place, the service, the copy looked through.  `GetService` either has the service, or fails to make one (`Fragile` are the methods
whose `autoCreateEventServiceClass` may throw when it is instantiated), or makes one, and then `SetService`
registers it or loses the race and goes to `Reget`, the second lookup.  `Subscribe`, `Copy` and `RemoveFound` are critical sections of
the service; `Look` and `Dereference` are the two reads of the proxy's field in `getProxiedSubscriber`, between which
another thread's `RemoveFound` may null it, so that the call fails.  A list and a copy of one are sets of proxies; proxies are
numbered as they are made and subscribed, and the order of a copy (`Turn`, `NextInCopy`) is that of its lists, then of the numbers.
`Copies` gives the lists that a lookup copies: the
exact one and the one of the class.

### 2.7 ContainerRegistrar

A component stands for the service it holds.  `parent` and `invoker` are Swing's; `Move` and `Show` change them as the code that
uses Swing does, and put the registrars whose listeners Swing calls in `edt.tell`.  For each of those the update is the
code's: off the old service one key at a time (`Unsubscribe`), the walk (`Find`), on the new one (`Subscribe`), or nothing when there is
none.  `FindThrows` is a supplier's exception, which leaves all of it, the listeners not yet called included.  `Construct` updates
before it adds the listeners, as the constructor does.  `ActionPerformed` takes its own walk and records who is reached.
`Found[n]` gives the end of every walk of at most `n` components; a walk that is longer than there are components goes in a circle,
and does not end in the code.

## 3. Runs

Eight runs pass; four look for something the documentation says and find the code doing otherwise.

| run | instance | distinct states | what it shows |
| --- | --- | --- | --- |
| `registry_subscriptions` | class `c1` and its subclass `c2`, 2 objects, all 4 kinds of subscription, 2 subscribe calls, start 1, stop 0 or null, cleanup that throws at any of its points | 148 000 | `SingleSubscription`, `NeverUndercounts`, `CleanupStartsWhenNeeded`, `StaysSubscribed`, `UnsubscribeResult`, `RefinesSubscriberLists`, and `StaleReferenceCleaned` (liveness) |
| `publication_stages` | 2 threads, one also the cleanup thread, the other a dispatch thread or not; 2 events, 1 subscriber, 1 vetoer, both may throw, nesting to depth 2, 1 cleanup | 281 000 | `VetoedIsNeverSeen`, `StatusMovesOn`, `CallsBackOnDispatchThread`, `RefinesAtomicPublication`, `PublicationNearsItsEnd`, and `PublicationEnds` (liveness) |
| `publication_order` | 2 threads, one a dispatch thread or not, 1 event, 3 subscribers, two of them of the same priority | 490 000 | `DeliversTheSnapshot`, `InPriorityOrder`, `SnapshotIsFIFO` |
| `cache_events` | class and subclass, 2 topics, a pattern for both and one for the first, sizes 0 and 2, 3 publications each on the subclass and on the first topic | 1 235 000 | `ClassSizeFollowsHierarchy`, `TopicSizeFollowsSettings`, `ClassCacheIsLatest`, `AdjustedOnPublication` |
| `aggregate_events` | root and an entity, 3 events of the root and 1 of the entity, versions of 3 bits, 2 registrations, 2 restarts | 434 000 | `ChangesInOrder`, `VersionsDistinct`, `StateIsReplayable`, `LoadedIsTheHistory` |
| `distributor_commands` | 2 threads, 1 command, a kept handler, one nobody keeps, and a proxy of the first, 2 veto listeners | 741 000 | `OwedAreCalled`, `LostOnlyAfterTheCheck` |
| `annotated_objects` | 2 threads, 2 objects with 3 methods, two of them on one list of a service not made yet, the third on the bus; all class properties of the bus, one service class that may fail; 2 `process`, 2 `unprocess` | 4 431 000 | `StaticsAgree`, `NamedServiceIsShared`, `ProcessedIsSubscribed`, `UnprocessedIsGone`, `ProcessFailsForWantOfService` |
| `container_moves` | 7 components, 3 registrars, 2 keys, a supplier that may throw, a popup menu which components also join and leave, 5 moves | 393 000 | `OneServiceAtATime`, `ActionReachesItsContainer`, `PopupFollowsInvoker` |

Every component's `TypeOK` is checked once, but for that of `AnnotatedObjects`, which is proved (4.6) and would only make its run longer.  Deadlock is checked everywhere but in `distributor_commands`, where a
system whose command is sent and whose handlers are collected has nothing left to do, and in `annotated_objects`, where the calls
are bounded and end.

### 3.1 The bounds, and why they are enough

* *Two objects and two subscribe calls.*  What can go wrong in a list is between an entry and the one looked for, or the
  one that comes in its place: two entries of one object, or one of each.  Start 1 is reached by the first weak entry and exceeded
  by the second; stop 0 is reached by the last to go.  Two classes are needed for a lookup to read more than
  one list, and three lists (exact, own, inherited) then match the subclass.
* *Two threads, two events, depth 2.*  A thread that publishes within a callback while another publishes the other event or
  holds the lock.  A deeper stack repeats the relation between a frame and the one below it; the frames of one
  stack share nothing but the tables and the cache.  With a dispatch thread, both events can be in its queue, or one there and the other under way.
* *Three subscribers, two with priority 5 and one without.*  The least mix in which priorities and ties both
  matter, with each in either of the two lists.
* *Two topics, two patterns.*  A topic that both patterns match and one that one does, so that a memo of the one topic can be
  asked for after a setting that concerns the other.  Only one class and one topic are published on (`MaxEvents`): lists of two keys meet in
  nothing but the one `addEventToCache` at a time.
* *Sizes 0 and 2, three publications.*  Two is the least size that holds a gap; the third publication is the one that is cut,
  and a size can fall to 0 and rise again between any two.
* *Versions of 3 bits.*  -4..3: the fourth event overflows, so that the changes are sorted across it.  An int
  overflows in the same way, after 2^31 events.
* *One command, two veto listeners.*  Commands do not interact in `CommandDistributor`: each has its own outcome and its own snapshots.
  Two listeners are enough for one to let pass what the other vetoes, or to come or go between the snapshot and the asking.
* *Two annotated objects, three methods, two calls of each kind.*  `a1` and `b2` meet in one list, `b1` and `b2` are visited in
  either order, one of the proxies is held strongly; two threads are enough to lose a race for the service (three services: the winner's, the
  loser's and the bus), and a second `process` is enough to replace or to double a proxy.
* *Five moves.*  A form joins the frame, the panel the form; the menu is shown for a field of the panel, the panel goes, and the
  menu is shown again: each kind of listener is called with the service changed by each kind of move.

Bounds that stand in guards: `MaxSubs`, `MaxDepth`, `MaxCleanups`, `MaxEvents`, `MaxChildren`, `MaxRestarts`, `MaxServices`,
`MaxProcess`, `MaxUnprocess`, `MaxMoves`; a client resets a name, or clears the locator, once.  `aggregate_events` does not go
on from a state of misuse (`CONSTRAINT Used`): misuse never ends and every property but `TypeOK` is about its absence.
`cache_events` does not go on from a state in which a class and a topic or pattern have sizes set (`CONSTRAINT OneKind`): the two
kinds share the default and nothing else.
Symmetry is used where the instance is symmetric (the root's events; the two threads of the distributor and of the annotated
objects; the veto listeners) and no liveness is checked.

### 3.2 Fairness

* `StaleReferenceCleaned` assumes `WF_vars(CleanupStep)`: `java.util.Timer` runs its task every period for as long as its
  thread lives (TSES 2216-2226).  `CleanupThrows` is outside it: that a client's subscriber throws is possible and never due.  No
  fairness for clients or the garbage collector is assumed.  The property names the two ways in which a collected reference may stay: the
  cleanup was cancelled with no more weak entries left than the stop threshold (or with a count that strong proxies have spoilt), or its thread is "dead", in which nothing is cleaned any more.
* `PublicationEnds` assumes `WF_vars(Proceed(t))` for every thread: threads are scheduled and the client's code returns
  or throws, and the dispatch thread comes to its queue.  Whether to publish, subscribe or clean up is not fair.  A publication waits for the lock only while a
  cleanup runs, and cleanups are bounded (`MaxCleanups`), as they are in the code by their period.

### 3.3 Where the code and its documentation differ

| run | the code |
| --- | --- |
| `registry_stale_proxy_doc` | the cleanup tests the proxy for null, not its object: a stale proxy is never removed by it (TSES 2176 against 93-96) |
| `publication_interference_doc` | `handleException` throws on, so that one subscriber keeps the others from being called (TSES 2141 against 77-78) |
| `cache_size_doc` | the size of a class depends on which classes were looked up before (TSES 1852 against 1804-1805) |
| `cache_topic_doc` | at size 0 a payload equal to the topic is removed from the list, not the list from the map (TSES 1214 against 1213 and the code of classes, 1195) |

Four more disagreements, and a trap the documentation is silent about, without a run of their own; the properties of the passing runs are stated around them, and say so:

* *The cleanup starts at its threshold.*  The javadoc has the number of weak subscriptions *exceed* it ("does not occur until ...
  exceed", 108-110; "is exceeded", 114 and 122; "the threshold above which cleanup starts", 277 and 288), the code starts at
  equality (`>=`, 2198).  `CleanupStartsWhenNeeded` is about more entries than the threshold, where the two agree; `MayStartCleanup` is the code's.
* *A null or zero stop threshold.*  "If set to null or 0, cleanup will not stop if it is ever started" (124-125).  With null, 2234 throws a
  `NullPointerException` in the timer's thread, which ends, with `cleanupTimer` still set, so that no cleanup ever runs again
  (`CleanupFails`); with 0 the cleanup is cancelled when the count is 0 (`CancelCleanup`).  A subscriber to `CleanupEvent` that throws
  ends the cleanup in the same way.  `CleanupStartsWhenNeeded` and `StaleReferenceCleaned` have the dead timer as an exception.
* *A null period.*  "Passing null stops cleanup" (javadoc of `setCleanupPeriodMS`, 334): a timer that runs goes on (the setter, 336-340, and the task, 2228-2278, do not look).
* *Sizes for patterns alone.*  The javadoc of `setCacheSizeForTopic(Pattern, int)` (1885-1896) has the size apply to the topics that
  match.  If no size was ever set for a topic by name, every lookup throws a `NullPointerException` (`putAll(null)`, 1941), and so does every
  publication on a topic.  `TopicSizeFollowsSettings` states both cases.
* *A vetoed command* (the trap).  `send` returns as it does for one that was delivered (`CommandDistributor` 28, TSES 1010-1012), while a command nobody
  handles is refused with an exception; `OwedAreCalled` and `LostOnlyAfterTheCheck` name the veto.

Things the modules have and the runs take for granted: `removeFromSetResolveWeakReferences` returns true for a collected reference it
meets first, and the subscriber stays, where its javadoc says "true if toRemove was unsubscribed" (TSES 1686 against 1653;
`UnsubscribeResult` states what does hold); a proxy is replaced whichever method of its object it calls, so that of two annotated methods
on one list only the last subscribed stays, but a proxy with a strong reference replaces none; `register` and
`unregister` of `CommandDistributor` call overloads that do not reach the handler, so that handlers accumulate (it is
what makes `OwedAreCalled` true of displaced and unregistered handlers); and an aggregate with a stored event of an entity can
only be loaded if the root handles that event too (the second half of `LoadedIsTheHistory`).

### 3.4 Mutants

Every property has in PROJECT.json a change of one mapped definition that breaks it: a dropped return after a veto, an exception that
is swallowed, a count that is not clamped, a memo not marked as out of date, a list cut one too long, a sort that is
not stable, an event recorded before it is published.  The changed definitions stand in the modules above the originals,
named "Mutant of ..." in their comments, and are used nowhere.

## 4. Theorems

All are for every value of the constants that satisfies the module's `ASSUME`: any number of classes, objects and
threads, any class hierarchy, any settings, any bounds.  Every safety invariant, every action property and both refinements that a passing run
checks are theorems; what is left to TLC is in 4.8.

### 4.1 SubscriberRegistry (`RegistryAssumption`)

* `TypeCorrect`: `Spec => [](TypeOK /\ FiniteOK)`.  The finiteness of the lists is carried along as the count is
  compared with a cardinality.  `LeastNat` (every nonempty set of naturals has a least element, from the well-foundedness of `<`)
  gives that `First` picks an entry.
* `NeverTwiceInAList`: `SingleSubscription` with `StampsOK` (no entry is stamped later than the number of calls), which makes the
  entry a subscription adds the last of its list.  `OthersOnlyRemove`: every other action leaves a subset.
* `CountCoversWeakEntries`: `NeverUndercounts` is inductive with types and finiteness.  The argument is `Shrinks`: every
  action but `Subscribe` takes at most as much off the count as it takes weak entries out of the lists, and the
  clamp at 0 does no harm as a cardinality is never below it; `Subscribe` adds one to both (`SubscribeCounts`).
* `CleanupTimerExists`: `CleanupStartsWhenNeeded` from `TimerOK` (with fixed settings and no timer the count is below
  the start threshold, which is what the code's `>=` gives and more than the property asks for) and the theorem before.  `TimerOK` holds as the timer goes away only when the count is at most the stop
  threshold, which is below start, and the count grows only in `Subscribe`, which starts the timer.
* `StaysSubscribedHolds`, `UnsubscribeResultHolds`: action properties, from types alone.  `RemoveTakesOne` is what
  `removeFromSetResolveWeakReferences` does: it takes off one entry that equals what it was given, or else one of those it scanned, or
  none and says so.  `MayLeave` lists the ways an entry leaves a list, and `LeavesForAReason` shows for each action
  that there is no other.
* `ImplementsSubscriberLists`: `Spec => RefinesSubscriberLists`, for lists of any length (the run has two subscribe calls).  Subscribing is `Join` (`SubscriptionJoins`: the new number is above
  those of the list, by `StampsOK`, and what is replaced are all the places of the object or none).  Taking an entry off is `Leave`, and for that two
  entries of a list must not have one number: `StampsDistinct`, which `SingleSubscription` does not give, as an object held by proxies
  may be in a list twice.  `OneEntryOff` is the effect of a removal on the places, and `DeadEntriesHaveNoPlace` that a removal of
  stale entries has none.

### 4.2 Publication (`PublicationAssumption`)

The sort first.  `EarlierIsStrictOrder`, and so a place is a number from 1 to the length (`PlaceType`), the earlier has the lower
(`PlaceFollowsEarlier`), and, as an injection of a finite set into itself is onto, every place is taken once
(`PlaceIsBijection`).  So a sorted list is ordered by priority (`SortedIsOrdered`) and stable (`SortedIsStable`).

The invariant `IInv` speaks of all activations of `publish()`, on the stacks and in the queue, by their owner (`Held`):

* `Apart`: an event has one activation at most; a step can then be said to concern one event, and whatever other events'
  activations agree with stays as it is (`Concerns`, `OthersStayConsistent`).
* `Staged`: each activation agrees with its event.  By its place the status is known, those who passed and those still to be
  asked are the snapshot of vetoers, and those called and those still to be called are the audience.
* `Waiting`, `OnDispatchThread`: what is in the queue has its snapshots and nothing more; with a dispatch thread, no other
  thread's activation is past its start.
* `EventsOK`: what the status says of the event when its activation is gone: nobody called and nothing cached before
  "Publishing", all vetoers passed from "Queued" on, the audience called when "Completed".

A step either pushes, replaces or pops one activation, or moves one between stack and queue; `Moved` states that once
for all of them.  From the invariant follow `TypeOKHolds`, `VetoedIsNeverSeenHolds`, `CallsBackOnDispatchThreadHolds`,
`DeliversTheSnapshotHolds` and the action property `StatusMovesOnHolds`.  `SnapshotIsFIFOHolds` is the stability of the sort.
`InPriorityOrderHolds` needs `OrderInv` as well: while nobody has had a priority every list is in order without a sort.

`PublicationNearsItsEndHolds` is the safety side of `PublicationEnds`.  `StepsLeft` is two for everyone still to be asked or called and some for
the stage; every step of an activation that has its snapshots lowers it, and no step of another changes it.  A publication can then go on
for ever only by waiting for the lock or for the dispatch thread.  The proof rests on `Apart` (`OneActivation`: an event has one
activation, so that what goes on for the event is it), on what each step makes of the set of activations (`ActivationsAfter`,
`EnqueuedActivation`, `DispatchedActivation`), and on `Staged` for there being somebody to come back from (`NextStage`).

`PublicationRefines` (in `PublicationRefinementProofs`): `Spec => RefinesAtomicPublication`.  `Publish` is the abstract beginning
(`BeginStep`), `CallSubscriber` the next call (`CallStep`; that it is the next of the audience is `Staged`), and each
return from `publish()`, by veto, exception or the end of the list, the abstract end (`ReturnStep`, `EndStep`).  Everything else stutters:
it leaves the set of active events alone (`GotoKeepsActive`, `EnqueueKeepsActive`) and changes the status of active ones only.

### 4.3 EventCache (`CacheAssumption`)

* `TypeOKHolds` and `ClassSizeFollowsHierarchyHolds`.  The invariant on the memo table is `Faithful`: if no interface has a size
  and nothing has changed, a class with a size has it memoized, and another has nothing memoized or the size of its nearest
  superclass with one.  That a lookup keeps it is `PathFindsNearest`: what the lookup meets first on its way, in memoized
  sizes, is what it would meet in the sizes set.  The argument is on the first class with a memo (`FirstSizeAt`), the rest of
  whose way up is the end of the present one (`RestOfHierarchy`, `FirstSizeOfSuffix`).  The precondition is the
  code's limit, not the proof's: `cache_size_doc` is a run in which interfaces with a size break it.
* `TopicSizeFollowsSettingsHolds`, by `TopicMemoOK`: a topic's memo is its own size, or that of a pattern that applies; and as long as
  only patterns have sizes the memo is out of date, as no lookup has got through (`TopicSizeThrowsInv`), so that every lookup throws.
* `ClassCacheIsLatestHolds` and `AdjustedOnPublicationHolds`.  What is added is `ListOK`: an `addEventToCache` under way holds the list
  that is in the map, or one which no map has any more.  `IsHead` says what `Newest` leaves of a list, so that a list of
  consecutive numbers is one after `AddToCache`, whatever was cleared between its steps.

### 4.4 AggregateRoot (`AggregateAssumption`)

Versions of up to `Half` events are the numbers 1, 2, ..., the last of which alone may be a negative int (`Number`, `Count`), and they
compare as these numbers do (`EarlierIsLess`), so that the overflow is dealt with once.  The places of the
records are a bijection as in 4.2, and so `getChanges` has the recorded events, each once, in the order of their numbers.
The invariant has two parts, and TLC
found it true of every state of `aggregate_events` before it was proved:

* `Shape` holds whatever the client does: types; a call under way has the event its handler was given (`FramesOK`); only the root and
  registered entities have changes (`ProvidersOK`); an event is given a version once (`VersionsOK`); and what is stored, recorded,
  being applied or has failed was given one (`PastOK`).  It gives `TypeOKHolds`.
* `Proper` holds as long as there was no misuse.  `OnceOK`: each event is recorded once, has yet to be, or has failed, and the
  store is in the order of versions.  `LoadedOK`, of a loaded object: its events follow those stored, the last of the
  versions given are its own without a gap, and those its handlers have seen are, but for those that failed
  or are being applied, the stored and the recorded ones.  `LoadingOK`, of an object being loaded: what its handlers have
  had and what is left make up the store.

From these follow `ChangesInOrderHolds`, `VersionsDistinctHolds`, `StateIsReplayableHolds` and the action property
`LoadedIsTheHistoryHolds`.  `VersionsDistinct` is not inductive without `LoadedOK`: that `NewVersion` is new rests on the version of a loaded
object being not below any that is stored or recorded.

### 4.5 CommandDistributor (`DistributorAssumption`)

* `TypeCorrect`: with the shape of the calls under way (`CallKinds`), which the actions rely on.
* `OwedHandlersAreCalled` and `LostBetweenCheckAndPublication`, both from `DInvHolds`.  `OwedAreCalled` speaks of the end
  of a sending and is not inductive.  `DInv` adds: what is registered is in the exact list (`Registered`); each
  sending is one thread's, has not been vetoed, and until it delivers has called nobody (`Sending`); and while a command is on its way, from the
  snapshot on, whoever is owed it has been called, is still in the snapshot, or has been collected (`Owed`).
  `KnownIsSubscribed`: a registered handler that is not collected is in every
  snapshot.  `SendingStep` is the part of the argument that every step of a publication shares, and `Quiet` deals with the steps
  that touch neither the calls nor the outcomes.

### 4.6 AnnotatedObjects (`LocatorAssumption`, `AnnotatedAssumption`)

* `StaticsAgreeHolds`: for any names, threads and objects, and all class properties.  The invariant is `Agrees(locator)`, with the
  locator's shape, so that an update of the map under a reserved name is one; each operator of `ServiceLocator` preserves it
  (`RegisteredAgrees`, `WithSwingAgrees`, `WithBusAgrees`, `FoundAgrees`), and the actions are those operators.
* `ProcessFailsOnlyForWant`: `ProcessFailsForWantOfService`, by `PInv`.  What it adds is a promise about every call under way
  (`CallOK`): only `unprocess` looks at proxies, whose field another thread may null, and a thread that lost the race to make
  a service finds the winner's unless some name has been reset.  `Kept` is the argument for the latter: no step but a reset or `clearAll`
  leaves a name without the service it had (`RegisteredKept`, `FoundSound`).  `FoundSound` also gives that a reserved name has a
  service after `getEventService` unless a class is broken; and that the methods a call has left are its object's own (`CallOK`) is why a
  service class that fails (`Fragile`) is one the object itself names.  `GoesOn` and `FailsForWant` deal with the two ways a step of a call can end.
* `TypeOKHolds`, `NamedServiceIsSharedHolds`, `ProcessedIsSubscribedHolds` and `UnprocessedIsGoneHolds`, by `IInv`.  Its parts:
  `ListsOK` (a proxy in a list has its object, is in one list of one service, that of its name unless reset, and of a method there is one weak proxy
  at most); for every call, where it is and with which service (`Placed`), what it has copied (`CopyOK`), and, as long as no other call
  for its object has begun (`alone`), what it has done so far for the methods it has visited (`AloneOK`); that a call made alone has no rival
  and that no two threads are about to register one service (`Apart`); and that what the last call for an object has done still
  holds while no other has begun (`LastOK`).  `MovedFor` is the step's effect on the lists as other objects see it: none.

### 4.7 ContainerRegistrar (`ContainerAssumption`)

* `OneServiceHolds`: for any components, suppliers and moves, without a bound on them, and wherever a supplier throws.  `OneServiceAtATime`
  alone is not inductive: `Find` changes the service a registrar remembers.  `IInv` adds `Progress` (in the walk nothing is
  subscribed; while unsubscribing, what is left is among the keys still to be taken off) and `NoneWithout` (without a service,
  no subscriptions, by which an update may begin at the walk).  The walk itself enters only by the registrar having one or none.
* `TypeOKHolds` and `ActionReachesItsContainerHolds`.  Here the walks count.  The two recursive functions of the model are determined by their
  equations (`ContainsByUps`, `ServiceByFinds`), and `ElsewhereTheSame` is what is needed of them: a component that is not below what
  moves and is in no popup menu keeps its service.  So whoever has another service after a move was among those told of it,
  and `ToldInv` is inductive: until a supplier throws, every registrar outside the menus (and, for the next theorem, in the menu shown) is either about to be updated (`Due`) or has the service of its
  container and all its subscriptions there (`Whole`).  `UpdateInv` says how far the update under way is.
* `PopupFollowsInvokerHolds`: until a supplier throws, a registrar in a menu that is shown has, with all its subscriptions, the service
  of the menu's invoker, unless its walk ends before it gets there.  `LeavesBy` is that condition: the walk from the component goes on to the
  menu's invoker, rather than stopping at a supplier in the menu, leaving by another menu, or coming back in a circle.  The
  invariant is that of the theorem before: `Reached` takes in, beside the registrars outside the menus, those in the menu shown last once it has
  joined its window, and `AttachInv` says that what is to join a container after a menu has been shown is that menu.
* `LongerWalks`: a walk longer than there are components finds nothing that one of their number does not, so that the bound `Found` puts
  on walks cuts nothing off.  Until the walks stop finding more, each length finds from one component more at least (`FindsStop`), and there are no more
  than the components.

### 4.8 Model-checked only

* `StaleReferenceCleaned` and `PublicationEnds`: the prover has no rule for fairness and `ENABLED`.  Of the second,
  `PublicationNearsItsEnd` is proved, and that nobody waits for ever is TLC's (the run finds no deadlock, and a lock held is given back).
* The four disagreements with a run in 3.3, which are single counterexamples.

The provers know nothing of `SelectSeq`, `SortSeq`, `FlattenSeq` and the folds, which is why the sorts are defined by places; and the
library's induction theorems take an operator as a parameter, which none of them can instantiate.  Facts about recursive functions
over the naturals are proved by least counterexample instead (`LeastNatural`, from the well-foundedness of `<`).  No module has a
`RECURSIVE` operator.

## 5. What is left out, and why

* *Types, topics and patterns of the tables*: they are other keys of the same methods.  *Generic types* differ in how
  `getSubscribers(Type)` matches, by reflection.
* *Class order among inherited lists*: a lookup of the subscribers of superclasses is in the order of a `HashMap`; `FindProxy` chooses
  among them.  `Publication` has the inherited subscribers as one list.
* *Time*: thresholds of `checkTimeLimit`, whose `SubscriberTimingEvent` is a nested publication of `Publication`, and the length
  of the cleanup's period.
* *The readers of the cache*, which return the list that is being changed.
* *The store*: it is what the interfaces suggest (append, then `updateVersion` and `clearEvents`), as one step.
  `AbstractEntity.loadFromHistory`, which nothing calls, is not modelled.
* *Reflection* in `AnnotationProcessor` and the registrars: which methods it finds is a constant (`Constructed`, `Anonymous`).
* *Pattern and veto-topic lookups of `AnnotationProcessor.unprocess`*: they fail on a list that was never subscribed to.
  `AbstractProxySubscriber.equals` compares `Method`s by identity, so that proxies of two `process` calls are never equal and it
  decides nothing that `Replaced` does not.  The invocation of the method, which races with `proxyUnsubscribed` as `Dereference` does, is a
  callback of `Publication`.
* *What a service does when it is made* by the locator; `clearAll` has no caller in the repository and is modelled as one its
  package may have.
* *A `SwingEventService` under `CommandDistributor`*: `send` then returns before the command is asked about or delivered, and what becomes
  of it is `Publication`'s subject alone.
* *Hierarchies that share a service*: a supplier supplies one of its own.
* *The topic names of actions*, which are a key in `ContainerRegistrar`, and the components of 1.5.

## 6. Plan

Done, in this order: `SubscriberRegistry` (everything else rests on it), `AtomicPublication` and `Publication`, `EventCache`, `AggregateRoot`,
`CommandDistributor`, the dispatch thread in `Publication`, `ServiceLocator` with `AnnotatedObjects`, `ContainerRegistrar`, and the theorems
of section 4.

Then the theorems of 4.2, 4.3, 4.4 and the second halves of 4.1, 4.6 and 4.7; at last `SubscriberLists` with its refinement,
`PublicationNearsItsEnd`, `PopupFollowsInvoker` and the bound of the walks.

Left for theorems: that `CommandDistributor`, `AnnotatedObjects` and `ContainerRegistrar`, which each have a list of an event service as
one variable, use it as `SubscriberLists` allows, which would take the place of the correspondence described at the head of section 2.

Left for models: the pattern lists under `process`, and the publication of a `SubscriberTimingEvent` out of a slow callback.  New
runs will take the place of runs whose questions can be asked together.
