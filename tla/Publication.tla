------------------------------ MODULE Publication ------------------------------
(***************************************************************************)
(* How ThreadSafeEventService publishes.  publish() takes a snapshot of    *)
(* the subscribers in one critical section of listenerLock and one of the  *)
(* veto listeners in another; then, without the lock, it asks the vetoers, *)
(* adds the event to the cache (a third section) and calls the snapshot's  *)
(* subscribers one by one.  The code it calls may throw, may subscribe and *)
(* unsubscribe, and may publish again: a thread is a stack of publish()    *)
(* activations.  The cleanup thread publishes its CleanupEvents while it   *)
(* holds listenerLock.                                                     *)
(*                                                                         *)
(* A SwingEventService is the same but for what follows the snapshots: it  *)
(* runs on the event dispatch thread "edt", at once when that is the       *)
(* caller, else from the queue of that thread.  With edt = Null it is a    *)
(* plain ThreadSafeEventService.                                           *)
(*                                                                         *)
(* The events are those of one class: "exact" is its list in the map of    *)
(* exact subscriptions, "class" the lists of the classes it inherits.  An  *)
(* event object is published once.  checkTimeLimit's SubscriberTimingEvent *)
(* is a publication nested in the call it times.                           *)
(***************************************************************************)
EXTENDS Integers, FiniteSets, SequencesExt

CONSTANTS
    Threads,
    Cleaners,     \* the threads that run the CleanupTimerTask
    Events,
    Subscribers,
    Vetoers,
    Throwing,     \* the subscribers and vetoers whose code may throw
    Priority,     \* getPriority(), 0 for who is not Prioritized
    CacheSize,    \* the cache size of this event class
    MaxDepth,     \* bound: nested publications of a thread
    MaxCleanups,  \* bound: runs of the CleanupTimerTask
    Dispatchers,  \* the settings of edt
    Null

ASSUME PublicationAssumption ==
    /\ Cleaners \subseteq Threads
    /\ Throwing \subseteq Subscribers \cup Vetoers
    /\ Priority \in [Subscribers \cup Vetoers -> Int]
    /\ {CacheSize, MaxDepth, MaxCleanups} \subseteq Nat
    /\ Null \notin Threads
    /\ Dispatchers \subseteq (Threads \ Cleaners) \cup {Null}

VARIABLES
    lists,        \* lists[m]: the subscribers of list m, in order
    vetoers,      \* the veto listeners, in order
    prioritized,  \* hasEverUsedPrioritized
    lock,         \* the thread that holds listenerLock across steps
    cleanups,     \* runs of the CleanupTimerTask so far
    edt,          \* the event dispatch thread of a SwingEventService
    queue,        \* the publish() activations passed to invokeLater, oldest first
    stack,        \* stack[t]: the publish() activations of t, innermost first
    status,       \* status[e]: the PublicationStatus stamped on e
    cache,        \* the events cached for the class, newest first
    \* history variables
    audience,     \* audience[e]: the subscribers in e's snapshot
    judges,       \* judges[e]: the vetoers in e's snapshot
    passed,       \* passed[e]: the vetoers that have let e pass, in order
    called        \* called[e]: the subscribers called with e, in order

tables == <<lists, vetoers, prioritized>>
history == <<audience, judges, passed, called>>
swing == <<edt, queue>>
vars == <<tables, lock, cleanups, swing, stack, status, cache, history>>

Statuses == {"Unpublished", "Initiated", "Vetoed", "Queued", "Publishing", "Completed"}
Points == {"start", "vetoing", "inVetoer", "queued", "calling", "inSubscriber"}
Frames == [event : Events, pc : Points, todo : Seq(Subscribers), veto : Seq(Vetoers)]
Maps == {"exact", "class"}

TypeOK ==
    /\ lists \in [Maps -> Seq(Subscribers)]
    /\ vetoers \in Seq(Vetoers)
    /\ prioritized \in BOOLEAN
    /\ lock \in Threads \cup {Null}
    /\ cleanups \in 0..MaxCleanups
    /\ edt \in Dispatchers
    /\ queue \in Seq(Frames)
    /\ stack \in [Threads -> Seq(Frames)]
    /\ status \in [Events -> Statuses]
    /\ cache \in Seq(Events)
    /\ audience \in [Events -> Seq(Subscribers)]
    /\ judges \in [Events -> Seq(Vetoers)]
    /\ passed \in [Events -> Seq(Vetoers)]
    /\ called \in [Events -> Seq(Subscribers)]
-----------------------------------------------------------------------------
Top(t) == Head(stack[t])
At(t, pc) == stack[t] # <<>> /\ Top(t).pc = pc
Goto(t, frame) == stack' = [stack EXCEPT ![t] = <<frame>> \o Tail(@)]
Return(t) == stack' = [stack EXCEPT ![t] = Tail(@)]
Stamp(e, s) == status' = [status EXCEPT ![e] = s]

\* Client code runs: outside any publication, or inside the innermost callback.
InClientCode(t) == stack[t] = <<>> \/ At(t, "inVetoer") \/ At(t, "inSubscriber")
CanLock(t) == lock \in {t, Null}

EventsIn(frames) == {frames[i].event : i \in 1..Len(frames)}
ActiveEvents == EventsIn(queue) \cup UNION {EventsIn(stack[t]) : t \in Threads}
Unstarted(e) == status[e] = "Unpublished" /\ e \notin ActiveEvents

\* Mutant of Earlier: those without a priority after all the others.
EarlierZeroLast(s, i, j) ==
    LET p == Priority[s[i]]
        q == Priority[s[j]]
    IN \/ p # 0 /\ q = 0
       \/ p # 0 /\ p < q
       \/ p = q /\ i < j

\* Mutant of Earlier: the last comes first among equal priorities.
EarlierLastFirst(s, i, j) ==
    Priority[s[i]] < Priority[s[j]] \/ (Priority[s[i]] = Priority[s[j]] /\ i > j)

\* PrioritizedSubscriberComparator with the stable sort it is passed to: the lower
\* priority first, those without one between the negative and the positive ones, and
\* FIFO within one priority.
Earlier(s, i, j) ==
    Priority[s[i]] < Priority[s[j]] \/ (Priority[s[i]] = Priority[s[j]] /\ i < j)

\* sortSubscribers: the i-th of s goes to the place that those earlier leave it.
Place(s, i) == Cardinality({j \in 1..Len(s) : Earlier(s, j, i)}) + 1
Sorted(s) == [k \in 1..Len(s) |-> s[CHOOSE i \in 1..Len(s) : Place(s, i) = k]]

Snapshot(s) == IF prioritized THEN Sorted(s) ELSE s

\* List.remove: a list has an entry once, as Resubscribed sees to.
Without(s, x) == RemoveAt(s, CHOOSE i \in 1..Len(s) : s[i] = x)

\* A subscription anew: an entry there is removed, and added at the end.
Resubscribed(s, x) == Append(IF Contains(s, x) THEN Without(s, x) ELSE s, x)

Subscribe(t, m, s) ==
    /\ InClientCode(t) /\ CanLock(t)
    /\ lists' = [lists EXCEPT ![m] = Resubscribed(@, s)]
    /\ prioritized' = (prioritized \/ Priority[s] # 0)
    /\ UNCHANGED <<vetoers, lock, cleanups, swing, stack, status, cache, history>>

Unsubscribe(t, m, s) ==
    /\ InClientCode(t) /\ CanLock(t)
    /\ Contains(lists[m], s)
    /\ lists' = [lists EXCEPT ![m] = Without(@, s)]
    /\ UNCHANGED <<vetoers, prioritized, lock, cleanups, swing, stack, status, cache, history>>

SubscribeVetoListener(t, v) ==
    /\ InClientCode(t) /\ CanLock(t)
    /\ vetoers' = Resubscribed(vetoers, v)
    /\ prioritized' = (prioritized \/ Priority[v] # 0)
    /\ UNCHANGED <<lists, lock, cleanups, swing, stack, status, cache, history>>

UnsubscribeVetoListener(t, v) ==
    /\ InClientCode(t) /\ CanLock(t)
    /\ Contains(vetoers, v)
    /\ vetoers' = Without(vetoers, v)
    /\ UNCHANGED <<lists, prioritized, lock, cleanups, swing, stack, status, cache, history>>

\* publish(e): getSubscribers(Class), exact subscriptions before inherited ones.
Publish(t, e) ==
    /\ InClientCode(t) /\ CanLock(t)
    /\ Unstarted(e)
    /\ Len(stack[t]) < MaxDepth
    /\ LET order == Snapshot(lists["exact"] \o lists["class"])
       IN /\ stack' = [stack EXCEPT ![t] =
                 <<[event |-> e, pc |-> "start", todo |-> order, veto |-> <<>>]>> \o @]
          /\ audience' = [audience EXCEPT ![e] = order]
    /\ UNCHANGED <<tables, lock, cleanups, swing, status, cache, judges, passed, called>>

\* Mutant of Initiate: the two lists swapped in the call of publish().
InitiateSwapped(t) ==
    /\ At(t, "start") /\ CanLock(t)
    /\ Goto(t, [Top(t) EXCEPT !.pc = "vetoing", !.veto = Top(t).todo, !.todo = Snapshot(vetoers)])
    /\ Stamp(Top(t).event, "Initiated")
    /\ judges' = [judges EXCEPT ![Top(t).event] = Snapshot(vetoers)]
    /\ UNCHANGED <<tables, lock, cleanups, swing, cache, audience, passed, called>>

\* Mutant of Initiate: the cleanup thread, which holds the lock, publishes in place.
InitiateInPlace(t) ==
    /\ At(t, "start") /\ CanLock(t)
    /\ LET f == [Top(t) EXCEPT !.veto = Snapshot(vetoers)]
       IN /\ judges' = [judges EXCEPT ![f.event] = f.veto]
          /\ IF edt \in {t, Null} \/ lock = t
             THEN Goto(t, [f EXCEPT !.pc = "vetoing"]) /\ Stamp(f.event, "Initiated") /\ UNCHANGED queue
             ELSE Return(t) /\ queue' = Append(queue, f) /\ UNCHANGED status
    /\ UNCHANGED <<tables, lock, cleanups, edt, cache, audience, passed, called>>

\* getVetoSubscribers(Class), the last argument of the publish() that all others call;
\* SwingEventService.publish hands the call over when the thread is not the edt.
Initiate(t) ==
    /\ At(t, "start") /\ CanLock(t)
    /\ LET f == [Top(t) EXCEPT !.veto = Snapshot(vetoers)]
       IN /\ judges' = [judges EXCEPT ![f.event] = f.veto]
          /\ IF edt \in {t, Null}
             THEN Goto(t, [f EXCEPT !.pc = "vetoing"]) /\ Stamp(f.event, "Initiated") /\ UNCHANGED queue
             ELSE Return(t) /\ queue' = Append(queue, f) /\ UNCHANGED status
    /\ UNCHANGED <<tables, lock, cleanups, edt, cache, audience, passed, called>>

\* The edt runs what invokeLater was given: between two events of its queue, or within a
\* callback that has opened a modal dialog, which goes on dispatching.
Dispatch(t) ==
    /\ t = edt /\ InClientCode(t) /\ queue # <<>> /\ Len(stack[t]) < MaxDepth
    /\ stack' = [stack EXCEPT ![t] = <<[Head(queue) EXCEPT !.pc = "vetoing"]>> \o @]
    /\ queue' = Tail(queue)
    /\ Stamp(Head(queue).event, "Initiated")
    /\ UNCHANGED <<tables, lock, cleanups, edt, cache, history>>

AskVetoer(t) ==
    /\ At(t, "vetoing") /\ Top(t).veto # <<>>
    /\ Goto(t, [Top(t) EXCEPT !.pc = "inVetoer"])
    /\ UNCHANGED <<tables, lock, cleanups, swing, status, cache, history>>

\* shouldVeto returns false.
PassVeto(t) ==
    /\ At(t, "inVetoer")
    /\ Goto(t, [Top(t) EXCEPT !.pc = "vetoing", !.veto = Tail(@)])
    /\ passed' = [passed EXCEPT ![Top(t).event] = Append(@, Head(Top(t).veto))]
    /\ UNCHANGED <<tables, lock, cleanups, swing, status, cache, audience, judges, called>>

\* Mutant of Veto: the return after the veto is missing.
VetoGoesOn(t) ==
    /\ At(t, "inVetoer")
    /\ Stamp(Top(t).event, "Vetoed")
    /\ Goto(t, [Top(t) EXCEPT !.pc = "queued"])
    /\ UNCHANGED <<tables, lock, cleanups, swing, cache, history>>

\* shouldVeto returns true.
Veto(t) ==
    /\ At(t, "inVetoer")
    /\ Stamp(Top(t).event, "Vetoed")
    /\ Return(t)
    /\ UNCHANGED <<tables, lock, cleanups, swing, cache, history>>

Callee(t) == IF At(t, "inVetoer") THEN Head(Top(t).veto) ELSE Head(Top(t).todo)

\* Mutant of CallbackThrows: a vetoer's exception is logged and the next vetoer asked.
VetoerFailsOpen(t) ==
    /\ At(t, "inVetoer") /\ Callee(t) \in Throwing
    /\ Goto(t, [Top(t) EXCEPT !.pc = "vetoing", !.veto = Tail(@)])
    /\ UNCHANGED <<tables, lock, cleanups, swing, status, cache, history>>

\* Mutant of CallbackThrows: Completed is set in a finally block.
CompletesAnyway(t) ==
    /\ At(t, "inVetoer") \/ At(t, "inSubscriber")
    /\ Callee(t) \in Throwing
    /\ Stamp(Top(t).event, "Completed")
    /\ Return(t)
    /\ UNCHANGED <<tables, lock, cleanups, swing, cache, history>>

\* Mutant of CallbackThrows: the callback that threw is called again.
CalledAgain(t) ==
    /\ At(t, "inVetoer") \/ At(t, "inSubscriber")
    /\ Callee(t) \in Throwing
    /\ Goto(t, [Top(t) EXCEPT !.pc = IF @ = "inVetoer" THEN "vetoing" ELSE "calling"])
    /\ UNCHANGED <<tables, lock, cleanups, swing, status, cache, history>>

\* handleException: what a callback throws is wrapped and thrown on, out of publish(),
\* to the client code around it, which may catch it or throw it on in its turn.
CallbackThrows(t) ==
    /\ At(t, "inVetoer") \/ At(t, "inSubscriber")
    /\ Callee(t) \in Throwing
    /\ Return(t)
    /\ UNCHANGED <<tables, lock, cleanups, swing, status, cache, history>>

Queue(t) ==
    /\ At(t, "vetoing") /\ Top(t).veto = <<>>
    /\ Goto(t, [Top(t) EXCEPT !.pc = "queued"])
    /\ Stamp(Top(t).event, "Queued")
    /\ UNCHANGED <<tables, lock, cleanups, swing, cache, history>>

Newest(s) == SubSeq(s, 1, IF Len(s) < CacheSize THEN Len(s) ELSE CacheSize)

\* addEventToCache, and on to the subscribers if the snapshot has any.
AddEventToCache(t) ==
    /\ At(t, "queued") /\ CanLock(t)
    /\ LET f == Top(t)
       IN /\ cache' = Newest(<<f.event>> \o cache)
          /\ IF f.todo = <<>>
             THEN Stamp(f.event, "Completed") /\ Return(t)
             ELSE Stamp(f.event, "Publishing") /\ Goto(t, [f EXCEPT !.pc = "calling"])
    /\ UNCHANGED <<tables, lock, cleanups, swing, history>>

CallSubscriber(t) ==
    /\ At(t, "calling") /\ Top(t).todo # <<>>
    /\ Goto(t, [Top(t) EXCEPT !.pc = "inSubscriber"])
    /\ called' = [called EXCEPT ![Top(t).event] = Append(@, Head(Top(t).todo))]
    /\ UNCHANGED <<tables, lock, cleanups, swing, status, cache, audience, judges, passed>>

\* Mutant of SubscriberReturns: who is no longer subscribed is skipped.
SubscriberReturnsLive(t) ==
    /\ At(t, "inSubscriber")
    /\ LET live(s) == \E m \in Maps : Contains(lists[m], s)
       IN Goto(t, [Top(t) EXCEPT !.pc = "calling", !.todo = SelectSeq(Tail(@), live)])
    /\ UNCHANGED <<tables, lock, cleanups, swing, status, cache, history>>

SubscriberReturns(t) ==
    /\ At(t, "inSubscriber")
    /\ Goto(t, [Top(t) EXCEPT !.pc = "calling", !.todo = Tail(@)])
    /\ UNCHANGED <<tables, lock, cleanups, swing, status, cache, history>>

Complete(t) ==
    /\ At(t, "calling") /\ Top(t).todo = <<>>
    /\ Stamp(Top(t).event, "Completed")
    /\ Return(t)
    /\ UNCHANGED <<tables, lock, cleanups, swing, cache, history>>

\* CleanupTimerTask.run: synchronized from its first line to its last, its publications
\* included; an exception leaves it with the lock released as well.
BeginCleanup(t) ==
    /\ t \in Cleaners
    /\ stack[t] = <<>> /\ lock = Null /\ cleanups < MaxCleanups
    /\ lock' = t /\ cleanups' = cleanups + 1
    /\ UNCHANGED <<tables, swing, stack, status, cache, history>>

\* Mutant of EndCleanup: an explicit lock that an exception leaves locked.
EndCleanupLocked(t) ==
    /\ lock = t /\ stack[t] = <<>>
    /\ UNCHANGED vars

EndCleanup(t) ==
    /\ lock = t /\ stack[t] = <<>>
    /\ lock' = Null
    /\ UNCHANGED <<tables, cleanups, swing, stack, status, cache, history>>

-----------------------------------------------------------------------------
Init ==
    /\ lists = [m \in Maps |-> <<>>] /\ vetoers = <<>> /\ prioritized = FALSE
    /\ lock = Null /\ cleanups = 0
    /\ edt \in Dispatchers /\ queue = <<>>
    /\ stack = [t \in Threads |-> <<>>]
    /\ status = [e \in Events |-> "Unpublished"]
    /\ cache = <<>>
    /\ audience = [e \in Events |-> <<>>] /\ judges = [e \in Events |-> <<>>]
    /\ passed = [e \in Events |-> <<>>] /\ called = [e \in Events |-> <<>>]

\* The steps that take a publication of t to its end, and a cleanup.
Proceed(t) ==
    \/ Initiate(t) \/ Dispatch(t) \/ AskVetoer(t) \/ PassVeto(t) \/ Veto(t) \/ Queue(t)
    \/ AddEventToCache(t) \/ CallSubscriber(t) \/ SubscriberReturns(t)
    \/ CallbackThrows(t) \/ Complete(t) \/ EndCleanup(t)

ClientStep(t) ==
    \/ \E m \in Maps, s \in Subscribers : Subscribe(t, m, s) \/ Unsubscribe(t, m, s)
    \/ \E v \in Vetoers : SubscribeVetoListener(t, v) \/ UnsubscribeVetoListener(t, v)
    \/ \E e \in Events : Publish(t, e)
    \/ BeginCleanup(t)

Next == \E t \in Threads : Proceed(t) \/ ClientStep(t)

Spec == Init /\ [][Next]_vars

\* Threads run on and callbacks return or throw (they do not block); listenerLock is free
\* for good once the cleanup task has run its last.
FairSpec == Spec /\ \A t \in Threads : WF_vars(Proceed(t))
-----------------------------------------------------------------------------
(***************************************************************************)
(* Properties.                                                             *)
(***************************************************************************)

\* The subscribers called are those of the snapshot, in its order and each once, whenever
\* the dispatch thread comes to it and whatever was subscribed, unsubscribed or published
\* meanwhile, by other threads or by the subscribers themselves; a completed event has
\* reached every one of them.
DeliversTheSnapshot ==
    \A e \in Events :
        /\ IsPrefix(called[e], audience[e])
        /\ status[e] = "Completed" => called[e] = audience[e]
        /\ \A t \in Threads : \A i \in 1..Len(stack[t]) :
               LET f == stack[t][i]
               IN f.event = e /\ f.pc # "inSubscriber" => called[e] \o f.todo = audience[e]
        /\ \A i \in 1..Len(queue) :
               queue[i].event = e => called[e] = <<>> /\ queue[i].todo = audience[e]

\* Nobody hears of an event, and no cache holds it, before every veto listener of its
\* snapshot has let it pass ("All VetoEventListeners are checked before any
\* EventSubscribers are called"); one that vetoes or throws decides for good.
VetoedIsNeverSeen ==
    \A e \in Events :
        called[e] # <<>> \/ Contains(cache, e) \/ status[e] = "Completed" =>
            /\ passed[e] = judges[e]
            /\ status[e] \in {"Publishing", "Completed"}

\* The status of an event only moves on, to the next state of its publication
\* (PublicationStatus), and ends as Vetoed or Completed.
NextStatus ==
    [Unpublished |-> {"Initiated"}, Initiated |-> {"Vetoed", "Queued"}, Vetoed |-> {},
     Queued |-> {"Publishing", "Completed"}, Publishing |-> {"Completed"}, Completed |-> {}]
StatusMovesOn ==
    [][\A e \in Events : status'[e] # status[e] => status'[e] \in NextStatus[status[e]]]_vars

\* "Prioritized subscribers are always guaranteed to be in the order of priority, no
\* matter the call or the resulting mix of subscribers" (EventService).
InPriorityOrder ==
    \A e \in Events : \A i, j \in 1..Len(called[e]) :
        i < j => Priority[called[e][i]] <= Priority[called[e][j]]

\* Two subscribers of the same subscribe() call and of the same priority are called in
\* the order of their subscriptions: no sort turns them round (the FIFO guarantee).
Before(s, x, y) == \E i, j \in 1..Len(s) : i < j /\ s[i] = x /\ s[j] = y
SnapshotIsFIFO ==
    [][\A e \in Events, m \in Maps, x, y \in Subscribers :
          audience'[e] # audience[e] /\ Priority[x] = Priority[y] /\ Before(lists[m], x, y)
              => Before(audience'[e], x, y)]_vars

\* Client code runs on the dispatch thread alone ("All publish() calls NOT on the Swing
\* EventDispatchThread thread are queued onto the EDT"), and so never under a listenerLock
\* that another thread, the cleanup thread publishing included, holds for it.
CallsBackOnDispatchThread ==
    edt # Null =>
        \A t \in Threads \ {edt}, i \in 1..MaxDepth :
            i \in DOMAIN stack[t] => stack[t][i].pc = "start"

\* The publication refines the one without threads, locks, cache and nesting: an event
\* without an activation has ended as its status says, or in an exception, or not begun.
Ending ==
    [Unpublished |-> "none", Initiated |-> "failed", Vetoed |-> "vetoed",
     Queued |-> "failed", Publishing |-> "failed", Completed |-> "completed"]
Outcome(e) == IF e \in ActiveEvents THEN "open" ELSE Ending[status[e]]
Atomic == INSTANCE AtomicPublication WITH outcome <- [e \in Events |-> Outcome(e)]
RefinesAtomicPublication == Atomic!APSpec

\* From its snapshots on, an activation of publish() has a number of steps left, and every
\* step it makes leaves fewer, whatever its callbacks throw, publish and subscribe: nobody
\* is asked or called again, and who is subscribed meanwhile does not prolong it.
StepsLeft(f) ==
    2 * (Len(f.veto) + Len(f.todo)) +
        CASE f.pc = "start" -> 4
          [] f.pc = "vetoing" -> 3
          [] f.pc \in {"inVetoer", "queued"} -> 2
          [] f.pc = "calling" -> 1
          [] f.pc = "inSubscriber" -> 0
Activations == ToSet(queue) \cup UNION {ToSet(stack[t]) : t \in Threads}
PublicationNearsItsEnd ==
    [][\A f \in Activations, g \in Activations' :
          f.event = g.event /\ f.pc # "start" => g = f \/ StepsLeft(g) < StepsLeft(f)]_vars

\* Every publication ends, nested ones and those that wait for the lock included.
PublicationEnds == \A e \in Events : e \in ActiveEvents ~> e \notin ActiveEvents

(***************************************************************************)
(* What the documentation says and the code does not do.                   *)
(***************************************************************************)

\* "Each call to a subscriber is wrapped in a try block to ensure one listener does not
\* interfere with another": once an event that has reached a subscriber is over, it has
\* reached each of its snapshot that never throws, whatever the others have thrown.
OneListenerDoesNotInterfere ==
    \A e \in Events :
        called[e] # <<>> /\ e \notin ActiveEvents
            => ToSet(audience[e]) \ Throwing \subseteq ToSet(called[e])

=============================================================================
