----------------------------- MODULE AggregateRoot -----------------------------
(***************************************************************************)
(* An AbstractAggregateRoot and the AbstractEntity objects registered with *)
(* it.  apply(event) gives the event the next version, has its handler     *)
(* change the aggregate, publishes it on the event bus if there is one,    *)
(* and only then records it in appliedEvents.  The handler and the         *)
(* subscribers are client code: they may throw, and may apply further      *)
(* events, so the calls under way form a stack (innermost first).  An      *)
(* entity records its own events, under versions the root issues, and does *)
(* not publish.                                                            *)
(*                                                                         *)
(* The store is external (DomainEventStorage has no implementation here):  *)
(* it appends getChanges(), sets the version and clears the changes; an    *)
(* aggregate is restored by loading all it holds into a new object.        *)
(***************************************************************************)
EXTENDS Integers, SequencesExt

CONSTANTS
    Root, Entities,
    Events,       \* event objects, each applied at most once; bound: no more than Half
    Types, TypeOf,\* TypeOf[e]: the class of e
    Constructed,  \* Constructed[o]: the event types o's constructor registers
    Half,         \* versions are ints of -Half .. Half - 1
    MaxChildren,  \* bound: registrations of entities
    MaxRestarts,  \* bound: aggregates restored
    Null

Owners == {Root} \cup Entities
Version == -Half .. Half - 1

ASSUME AggregateAssumption ==
    /\ Root \notin Entities /\ Null \notin Events
    /\ IsFiniteSet(Events) /\ TypeOf \in [Events -> Types]
    /\ Constructed \in [Owners -> SUBSET Types]
    /\ Half \in Nat \ {0} /\ Cardinality(Events) <= Half
    /\ MaxChildren \in Nat /\ MaxRestarts \in Nat

VARIABLES
    version,      \* version
    current,      \* currentEventVersion
    applied,      \* appliedEvents of the root and of each entity
    children,     \* childEventProviders
    registered,   \* registeredEvents of the root and of each entity
    bus,          \* eventBus is set
    stack,        \* the apply and loadFromHistory calls under way
    versionOf,    \* versionOf[e]: the version in the event object
    stored,       \* what the store holds, in order
    restarts,
    \* history variables
    order,        \* the events in the order their versions were given
    state,        \* the events this object's handlers have been given, in order
    failed,       \* the events whose apply threw
    loaded,       \* this object is new with nothing stored, or loaded to the end
    misuse        \* the client has done what Misuse lists

object == <<version, current, applied, children, registered, bus>>
history == <<order, state, failed, loaded, misuse>>
vars == <<object, stack, versionOf, stored, restarts, history>>

Frames == [call : {"apply", "entity", "load"}, owner : Owners, events : Seq(Events),
           last : Events \cup {Null}, at : {"next", "handler", "subscribers"}]

TypeOK ==
    /\ version \in Version /\ current \in Version
    /\ applied \in [Owners -> Seq(Events)]
    /\ children \in Seq(Entities)
    /\ registered \in [Owners -> SUBSET Types]
    /\ bus \in BOOLEAN
    /\ stack \in Seq(Frames)
    /\ versionOf \in [Events -> Version]
    /\ stored \in Seq(Events)
    /\ restarts \in 0..MaxRestarts
    /\ order \in Seq(Events) /\ state \in Seq(Events)
    /\ failed \subseteq Events
    /\ loaded \in BOOLEAN /\ misuse \in BOOLEAN
-----------------------------------------------------------------------------
\* Mutant of Wrap: the version does not overflow.
WrapNot(n) == n

\* Arithmetic of int.
Wrap(n) == ((n + Half) % (2 * Half)) - Half
NewVersion == Wrap(current + 1)

\* Mutant of Earlier: Integer.compare in place of the difference.
EarlierByValue(d, e) == versionOf[d] < versionOf[e]

\* DomainEventVersionComparator: the difference of two ints, which overflows as well.
Earlier(d, e) == Wrap(versionOf[d] - versionOf[e]) < 0

\* Whom getChanges asks: the root first, then each registration in turn, and where the
\* events are that they have recorded.
Provider(i) == IF i = 0 THEN Root ELSE children[i]
Records == UNION {{i} \X (1..Len(applied[Provider(i)])) : i \in 0..Len(children)}
EventAt(r) == applied[Provider(r[1])][r[2]]

\* The stable sort by version.
Before(q, r) ==
    \/ Earlier(EventAt(q), EventAt(r))
    \/ /\ ~Earlier(EventAt(r), EventAt(q))
       /\ q[1] < r[1] \/ (q[1] = r[1] /\ q[2] < r[2])
Place(r) == Cardinality({q \in Records : Before(q, r)}) + 1

\* getChanges: the root's events and those of each registration, sorted by version.
GetChanges ==
    [n \in 1..Cardinality(Records) |-> EventAt(CHOOSE r \in Records : Place(r) = n)]

\* clearEvents: of the root and of the entities registered with it.
ClearEvents ==
    applied' = [o \in Owners |->
                   IF o = Root \/ Contains(children, o) THEN <<>> ELSE applied[o]]

Top == Head(stack)
At(pc) == stack # <<>> /\ Top.at = pc
InClientCode == stack = <<>> \/ At("handler") \/ At("subscribers")
Goto(frame) == stack' = <<frame>> \o Tail(stack)
Fresh(e) == ~Contains(order, e)

RegisterEvent(o, type) ==
    /\ InClientCode
    /\ registered' = [registered EXCEPT ![o] = @ \cup {type}]
    /\ registered' # registered
    /\ UNCHANGED <<version, current, applied, children, bus>>
    /\ UNCHANGED <<stack, versionOf, stored, restarts, history>>

SetEventBus(b) ==
    /\ InClientCode /\ bus # b
    /\ bus' = b
    /\ UNCHANGED <<version, current, applied, children, registered>>
    /\ UNCHANGED <<stack, versionOf, stored, restarts, history>>

\* Nothing keeps an entity from being registered twice: its events then count twice.
RegisterChildEventProvider(n) ==
    /\ InClientCode /\ Len(children) < MaxChildren
    /\ children' = Append(children, n)
    /\ misuse' = (misuse \/ Contains(children, n))
    /\ UNCHANGED <<version, current, applied, registered, bus>>
    /\ UNCHANGED <<stack, versionOf, stored, restarts, order, state, failed, loaded>>

\* The version an event is given is used up even if the event is not recorded.
GiveVersion(e) ==
    /\ current' = NewVersion
    /\ versionOf' = [versionOf EXCEPT ![e] = NewVersion]
    /\ order' = Append(order, e)
    /\ misuse' = (misuse \/ ~loaded)

\* apply(event) of the root (o = Root) or of an entity, up to the call of the handler.  An
\* entity that is not registered has no VersionProvider and fails before it changes anything.
Apply(o, e) ==
    /\ InClientCode /\ Fresh(e)
    /\ o = Root \/ Contains(children, o)
    /\ GiveVersion(e)
    /\ IF TypeOf[e] \in registered[o]
       THEN /\ stack' = <<[call |-> IF o = Root THEN "apply" ELSE "entity", owner |-> o,
                           events |-> <<e>>, last |-> Null, at |-> "handler"]>> \o stack
            /\ state' = Append(state, e)
            /\ UNCHANGED failed
       ELSE /\ failed' = failed \cup {e}      \* UnregisteredDomainEventException
            /\ UNCHANGED <<stack, state>>
    /\ UNCHANGED <<version, applied, children, registered, bus, stored, restarts, loaded>>

\* The end of an event: apply records it, loadFromHistory turns to the next one.
Finish(f) ==
    IF f.call = "load"
    THEN /\ Goto([f EXCEPT !.events = Tail(@), !.last = Head(f.events), !.at = "next"])
         /\ UNCHANGED applied
    ELSE /\ stack' = Tail(stack)
         /\ applied' = [applied EXCEPT ![f.owner] = Append(@, Head(f.events))]

\* Mutant of HandlerReturns: the event is recorded before it is published.
HandlerReturnsRecorded ==
    /\ At("handler")
    /\ IF bus /\ Top.call # "entity"
       THEN /\ Goto([Top EXCEPT !.at = "subscribers"])
            /\ applied' = [applied EXCEPT ![Top.owner] = Append(@, Head(Top.events))]
       ELSE Finish(Top)
    /\ UNCHANGED <<version, current, children, registered, bus>>
    /\ UNCHANGED <<versionOf, stored, restarts, history>>

HandlerReturns ==
    /\ At("handler")
    /\ IF bus /\ Top.call # "entity"
       THEN Goto([Top EXCEPT !.at = "subscribers"]) /\ UNCHANGED applied
       ELSE Finish(Top)
    /\ UNCHANGED <<version, current, children, registered, bus>>
    /\ UNCHANGED <<versionOf, stored, restarts, history>>

SubscribersReturn ==
    /\ At("subscribers")
    /\ Finish(Top)
    /\ UNCHANGED <<version, current, children, registered, bus>>
    /\ UNCHANGED <<versionOf, stored, restarts, history>>

\* A handler or a subscriber throws: the call around it ends, to the client code that
\* made it, which may catch the exception or throw it on.
ClientThrows ==
    /\ At("handler") \/ At("subscribers")
    /\ stack' = Tail(stack)
    /\ failed' = IF Top.call = "load" THEN failed ELSE failed \cup {Head(Top.events)}
    /\ UNCHANGED <<object, versionOf, stored, restarts, order, state, loaded, misuse>>

\* Mutant of LoadNext: an event without a handler is skipped.
LoadNextLeniently ==
    /\ At("next") /\ Top.events # <<>>
    /\ LET e == Head(Top.events)
       IN IF TypeOf[e] \in registered[Root]
          THEN Goto([Top EXCEPT !.at = "handler"]) /\ state' = Append(state, e)
          ELSE Goto([Top EXCEPT !.events = Tail(@), !.last = e]) /\ UNCHANGED state
    /\ UNCHANGED <<object, versionOf, stored, restarts, order, failed, loaded, misuse>>

\* One turn of the loop of loadFromHistory; an event without a handler in the root, an
\* entity's for instance, ends it with the exception.
LoadNext ==
    /\ At("next") /\ Top.events # <<>>
    /\ LET e == Head(Top.events)
       IN IF TypeOf[e] \in registered[Root]
          THEN Goto([Top EXCEPT !.at = "handler"]) /\ state' = Append(state, e)
          ELSE stack' = Tail(stack) /\ UNCHANGED state
    /\ UNCHANGED <<object, versionOf, stored, restarts, order, failed, loaded, misuse>>

\* Mutant of LoadEnds: currentEventVersion is not set.
LoadEndsVersionOnly ==
    /\ At("next") /\ Top.events = <<>>
    /\ stack' = Tail(stack)
    /\ version' = IF Top.last = Null THEN version ELSE versionOf[Top.last]
    /\ loaded' = TRUE
    /\ UNCHANGED <<current, applied, children, registered, bus>>
    /\ UNCHANGED <<versionOf, stored, restarts, order, state, failed, misuse>>

LoadEnds ==
    /\ At("next") /\ Top.events = <<>>
    /\ stack' = Tail(stack)
    /\ IF Top.last = Null
       THEN UNCHANGED <<version, current>>
       ELSE version' = versionOf[Top.last] /\ current' = versionOf[Top.last]
    /\ loaded' = TRUE
    /\ UNCHANGED <<applied, children, registered, bus>>
    /\ UNCHANGED <<versionOf, stored, restarts, order, state, failed, misuse>>

\* External: the store appends the changes, then updateVersion and clearEvents.
Save ==
    /\ InClientCode /\ GetChanges # <<>>
    /\ stored' = stored \o GetChanges
    /\ version' = versionOf[Last(GetChanges)]
    /\ ClearEvents
    /\ misuse' = (misuse \/ stack # <<>>)
    /\ UNCHANGED <<current, children, registered, bus>>
    /\ UNCHANGED <<stack, versionOf, restarts, order, state, failed, loaded>>

\* External: the process ends, wherever it is, and a new object loads what is stored.
Restart ==
    /\ restarts < MaxRestarts
    /\ restarts' = restarts + 1
    /\ version' = 0 /\ current' = 0
    /\ applied' = [o \in Owners |-> <<>>] /\ children' = <<>>
    /\ registered' = Constructed /\ bus' \in BOOLEAN
    /\ stack' = <<[call |-> "load", owner |-> Root, events |-> stored, last |-> Null,
                   at |-> "next"]>>
    /\ state' = <<>> /\ loaded' = FALSE
    /\ UNCHANGED <<versionOf, stored, order, failed, misuse>>

Init ==
    /\ version = 0 /\ current = 0
    /\ applied = [o \in Owners |-> <<>>] /\ children = <<>>
    /\ registered = Constructed /\ bus = FALSE
    /\ stack = <<>>
    /\ versionOf = [e \in Events |-> 0]   \* not read before it is set
    /\ stored = <<>> /\ restarts = 0
    /\ order = <<>> /\ state = <<>> /\ failed = {}
    /\ loaded = TRUE /\ misuse = FALSE

Next ==
    \/ \E o \in Owners, type \in Types : RegisterEvent(o, type)
    \/ \E b \in BOOLEAN : SetEventBus(b)
    \/ \E n \in Entities : RegisterChildEventProvider(n)
    \/ \E o \in Owners, e \in Events : Apply(o, e)
    \/ HandlerReturns \/ SubscribersReturn \/ ClientThrows
    \/ LoadNext \/ LoadEnds
    \/ Save \/ Restart

Spec == Init /\ [][Next]_vars
-----------------------------------------------------------------------------
(***************************************************************************)
(* Properties.  Misuse: an event applied to an object that is not loaded,  *)
(* while it is loading or after that failed (its versions start over); a   *)
(* Save from a handler or a subscriber (the event under way is not yet     *)
(* recorded, and is stored behind those applied after it); an entity       *)
(* registered twice.  The code prevents none of these.                     *)
(***************************************************************************)
Pending == ToSet(GetChanges)
UnderWay == UNION {ToSet(stack[i].events) : i \in 1..Len(stack)}

\* The events of h are events of s, in the order they have there.
InOrderOf(h, s) ==
    \A i, j \in 1..Len(h) :
        i < j => \E k, l \in 1..Len(s) : k < l /\ s[k] = h[i] /\ s[l] = h[j]

\* getChanges() returns each event recorded once, the root's and the entities' in the one
\* order in which their versions were given, however the calls were nested and whatever
\* threw; also when the version overflows between them.
ChangesInOrder ==
    ~misuse => InOrderOf(GetChanges, order)

\* No two events stored or to be stored carry the same version, across failed applies,
\* nested ones and restarts that lose events under way.
VersionsDistinct ==
    ~misuse => \A d, e \in ToSet(stored) \cup Pending :
                   d # e => versionOf[d] # versionOf[e]

\* What the object in memory has been through is what the store and getChanges() give
\* back, in that order; beyond that it has been through exactly those events whose apply
\* threw after the handler was called, which a restart forgets, and those under way.
StateIsReplayable ==
    loaded /\ ~misuse =>
        LET replayed == stored \o GetChanges
        IN  /\ ToSet(replayed) = ToSet(state) \ (failed \cup UnderWay)
            /\ InOrderOf(replayed, state)

\* loadFromHistory ends without an exception only when the root has a handler for every
\* stored event, and has been through all of them in order: once an entity's event is
\* stored, no restart succeeds unless the root handles that event as well.
LoadedIsTheHistory ==
    [][~loaded /\ loaded' /\ ~misuse =>
          /\ state' = stored
          /\ \A e \in ToSet(stored) : TypeOf[e] \in registered[Root]]_vars
=============================================================================
