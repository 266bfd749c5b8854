-------------------------- MODULE SubscriberRegistry --------------------------
(***************************************************************************)
(* The subscription tables of ThreadSafeEventService: one ordered list of  *)
(* subscribers per event class in subscribersByEventClass ("class") and in *)
(* subscribersByExactEventClass ("exact"), the count of weakly held        *)
(* entries and the cleanup timer that the count switches on and off.  The  *)
(* topic, pattern, type and veto maps run through the same two methods     *)
(* (subscribe, removeFromSetResolveWeakReferences).                        *)
(*                                                                         *)
(* A list is the set of its entries ordered by "at", the number of the     *)
(* subscribe call that appended them: lists are only appended to and       *)
(* removed from.  Every operation holds listenerLock from its first read   *)
(* of a table to its last write, so it is one step; the garbage collector  *)
(* and the cleanup timer interleave between them.                          *)
(***************************************************************************)
EXTENDS Integers, FiniteSets

CONSTANTS
    Classes,      \* event classes that are subscribed to
    Super,        \* Super[c]: the classes of Classes that c can be assigned to
    Objects,      \* subscriber objects
    Kinds,        \* how the clients of this instance subscribe
    MaxSubs,      \* bound: subscribe calls in a behaviour
    StartValues,  \* settings of cleanupStartThreshhold
    StopValues,   \* settings of cleanupStopThreshold
    PeriodValues, \* is cleanupPeriodMS set
    ThrowPoints,  \* CleanupEvents during which a subscriber to them throws
    Null

AllKinds == {"strong", "weak", "strongProxy", "weakProxy"}
CleanupPoints == {"starting", "begun", "finished"}

ASSUME RegistryAssumption ==
    /\ Super \in [Classes -> SUBSET Classes]
    /\ \A c \in Classes : c \in Super[c]
    /\ IsFiniteSet(Objects) /\ IsFiniteSet(Classes)
    /\ Kinds \subseteq AllKinds
    /\ MaxSubs \in Nat
    /\ Null \notin Int
    /\ StartValues \subseteq Nat \cup {Null}
    /\ StopValues \subseteq Nat \cup {Null}
    /\ PeriodValues \subseteq BOOLEAN /\ TRUE \in PeriodValues
    /\ ThrowPoints \subseteq CleanupPoints

VARIABLES
    subs,         \* the entries of all the lists
    calls,        \* subscribe calls so far
    count,        \* weakRefPlusProxySubscriberCount
    collected,    \* objects the garbage collector has claimed
    timer,        \* cleanupTimer/cleanupTimerTask: null, scheduled, or thread gone
    start,        \* cleanupStartThreshhold
    stop,         \* cleanupStopThreshold
    period,       \* cleanupPeriodMS # null
    lookup,       \* the proxy an unsubscribe(Class, Object) has found, not yet removed
    ret,          \* what the last subscribe or unsubscribe returned
    \* history variables
    proxied,      \* a proxy with a strong reference has been subscribed
    tuned         \* a setting has been changed

settings == <<start, stop, period>>
history == <<proxied, tuned>>
vars == <<subs, calls, count, collected, timer, settings, lookup, ret, history>>

Maps == {"class", "exact"}
Keys == [map : Maps, cls : Classes]
Entries == [key : Keys, obj : Objects, kind : Kinds, at : 1..MaxSubs]
NoLookup == [key |-> Null, entry |-> Null]

TypeOK ==
    /\ subs \subseteq Entries
    /\ calls \in 0..MaxSubs
    /\ count \in Nat
    /\ collected \subseteq Objects
    /\ timer \in {"none", "scheduled", "dead"}
    /\ start \in StartValues
    /\ stop \in StopValues
    /\ period \in PeriodValues
    /\ lookup \in [key : Keys, entry : Entries] \cup {NoLookup}
    /\ ret \in BOOLEAN
    /\ proxied \in BOOLEAN
    /\ tuned \in BOOLEAN
-----------------------------------------------------------------------------
Weak(e) == e.kind \in {"weak", "weakProxy"}
Proxy(e) == e.kind \in {"strongProxy", "weakProxy"}
At(k) == {e \in subs : e.key = k}
First(S) == CHOOSE e \in S : \A f \in S : e.at <= f.at
Subscribed(k, o) == \E e \in At(k) : e.obj = o

\* A reference whose referent, or a proxy whose proxied object, is collected.
Stale(e) == Weak(e) /\ e.obj \in collected

\* Mutant of Cleaned: the null test of the proxied object inverted.
CleanedInverted(S) == {e \in S : IF Proxy(e) THEN ~Stale(e) ELSE Stale(e)}

\* getRealSubscriberAndCleanStaleSubscriberIfNecessary: the null test at its end
\* is of the proxy and not of the proxied object, so a stale proxy stays.
Cleaned(S) == {e \in S : Stale(e) /\ e.kind = "weak"}

\* The lists a lookup of event class c reads: getSubscribers(Class).
Matching(c) ==
    {[map |-> "exact", cls |-> c]} \cup {[map |-> "class", cls |-> d] : d \in Super[c]}

\* Mutant of Decremented: the count is not kept from falling below 0.
DecrementedUnclamped(n) == count - n

\* n calls of decWeakRefPlusProxySubscriberCount.
Decremented(n) == IF n > count THEN 0 ELSE count - n

\* Mutant of MayStartCleanup: the count is compared before it is incremented.
MayStartCleanupLate(n) ==
    timer' = IF start # Null /\ period /\ n - 1 > start /\ timer = "none"
             THEN "scheduled" ELSE timer

\* incWeakRefPlusProxySubscriberCount and startCleanup, the count having become n.
MayStartCleanup(n) ==
    timer' = IF start # Null /\ period /\ n >= start /\ timer = "none"
             THEN "scheduled" ELSE timer

\* Mutant of Replaced: entries are compared without resolving references and proxies.
ReplacedUnresolved(k, o, kind) == {e \in At(k) : e.obj = o /\ e.kind = kind}

\* Mutant of Replaced: the subscriber is taken off all lists, not only the one it joins.
ReplacedEverywhere(k, o, kind) ==
    IF kind = "strongProxy" THEN {} ELSE {e \in subs : e.obj = o}

\* The entries of list k that a new subscription of o replaces.  A proxy with a
\* strong reference is compared itself, not its proxied object: it replaces none.
Replaced(k, o, kind) ==
    IF kind = "strongProxy" THEN {} ELSE {e \in At(k) : e.obj = o}

Subscribe(k, o, kind) ==
    /\ o \notin collected
    /\ calls < MaxSubs
    /\ LET stale == Cleaned(At(k))
           gone == Replaced(k, o, kind)
           new == [key |-> k, obj |-> o, kind |-> kind, at |-> calls + 1]
           left == Decremented(Cardinality(stale))
       IN /\ subs' = (subs \ (stale \cup gone)) \cup {new}
          /\ ret' = (gone = {})
          /\ IF Weak(new)
             THEN count' = left + 1 /\ MayStartCleanup(left + 1)
             ELSE count' = left /\ UNCHANGED timer
    /\ calls' = calls + 1
    /\ proxied' = (proxied \/ kind = "strongProxy")
    /\ UNCHANGED <<collected, settings, lookup, tuned>>

\* Mutant of Remove: the count goes down whatever was removed.
RemoveCounting(equal, scanned) ==
    LET hit == IF equal # {} THEN First(equal) ELSE First(scanned)
    IN IF equal \cup scanned = {}
       THEN ret' = FALSE /\ UNCHANGED <<subs, count>>
       ELSE ret' = TRUE /\ subs' = subs \ {hit} /\ count' = Decremented(1)

\* Mutant of Remove: the scan is skipped, only an equal entry is removed.
RemoveEqualOnly(equal, scanned) ==
    /\ ret' = (equal # {})
    /\ subs' = IF equal = {} THEN subs ELSE subs \ {First(equal)}
    /\ UNCHANGED count

\* removeFromSetResolveWeakReferences: the entries equal to the argument first, else
\* the first entry of the scan that resolves to it or is a collected reference.
Remove(equal, scanned) ==
    LET hit == IF equal # {} THEN First(equal) ELSE First(scanned)
    IN IF equal \cup scanned = {}
       THEN ret' = FALSE /\ UNCHANGED <<subs, count>>
       ELSE /\ ret' = TRUE
            /\ subs' = subs \ {hit}
            /\ count' = IF hit.kind = "strong" THEN count ELSE Decremented(1)

Unsubscribe(k, o) ==
    /\ o \notin collected
    /\ Remove({e \in At(k) : e.kind = "strong" /\ e.obj = o},
              Cleaned(At(k)) \cup {e \in At(k) : e.kind # "strong" /\ e.obj = o})
    /\ UNCHANGED <<calls, collected, timer, settings, lookup, history>>

\* createCopyOfContentsRemoveWeakRefs on every list the lookup reads.
DropStale(c) ==
    LET stale == {e \in subs : Stale(e) /\ e.key \in Matching(c)}
    IN /\ subs' = subs \ stale
       /\ count' = Decremented(Cardinality(stale))

\* A publication of class c, or a getSubscribers(c), takes its snapshot.
GetSubscribers(c) ==
    /\ DropStale(c)
    /\ UNCHANGED <<calls, collected, timer, settings, lookup, ret, history>>

\* unsubscribe(Class, Object) and unsubscribeExactly(Class, Object), first lock
\* section: the first proxy for o among all the matching lists, exact ones first.
FindProxy(k, o) ==
    /\ o \notin collected
    /\ lookup = NoLookup
    /\ DropStale(k.cls)
    /\ LET found(m) == {e \in subs : Proxy(e) /\ e.obj = o /\ e.key \in m}
           exact == found({[map |-> "exact", cls |-> k.cls]})
           all == found(Matching(k.cls))
       IN IF all = {}
          THEN ret' = FALSE /\ UNCHANGED lookup
          ELSE /\ UNCHANGED ret
               /\ IF exact # {}
                  THEN lookup' = [key |-> k, entry |-> First(exact)]
                  ELSE \E e \in all :
                         /\ \A f \in all : f.key = e.key => e.at <= f.at
                         /\ lookup' = [key |-> k, entry |-> e]
    /\ UNCHANGED <<calls, collected, timer, settings, history>>

\* Second lock section: the proxy found is removed from the list of k.
RemoveFound ==
    /\ lookup # NoLookup
    /\ Remove(At(lookup.key) \cap {lookup.entry}, Cleaned(At(lookup.key)))
    /\ lookup' = NoLookup
    /\ UNCHANGED <<calls, collected, timer, settings, history>>

ClearAllSubscribers ==
    /\ subs' = {}
    /\ count' = Decremented(Cardinality({e \in subs : e.kind # "strong"}))
    /\ UNCHANGED <<calls, collected, timer, settings, lookup, ret, history>>

\* The application has dropped o and nothing else holds it strongly.
Collect(o) ==
    /\ o \notin collected
    /\ \A e \in subs : e.obj = o => Weak(e)
    /\ lookup # NoLookup => lookup.entry.obj # o
    /\ collected' = collected \cup {o}
    /\ UNCHANGED <<subs, calls, count, timer, settings, lookup, ret, history>>
-----------------------------------------------------------------------------
\* Mutant of RunCleanup: counts what it finds stale, removes nothing.
RunCleanupIdle ==
    /\ timer = "scheduled"
    /\ stop # Null /\ count > stop
    /\ UNCHANGED vars

\* CleanupTimerTask.run in its outcomes: cancelled at the stop threshold, a cleaning, or
\* the end of the task, and of the timer's thread with it, when the stop threshold is null
\* or a CleanupEvent subscriber throws; a throw after the timer fields are reset is no
\* different from a cancellation.
CancelCleanup ==
    /\ timer = "scheduled"
    /\ stop # Null /\ count <= stop
    /\ timer' = "none"
    /\ UNCHANGED <<subs, calls, count, collected, settings, lookup, ret, history>>

SweepStale ==
    /\ stop # Null /\ count > stop
    /\ subs' = subs \ Cleaned(subs)
    /\ count' = Decremented(Cardinality(Cleaned(subs)))

RunCleanup ==
    /\ timer = "scheduled"
    /\ SweepStale
    /\ UNCHANGED <<calls, collected, timer, settings, lookup, ret, history>>

CleanupFails ==
    /\ timer = "scheduled"
    /\ stop = Null
    /\ timer' = "dead"
    /\ UNCHANGED <<subs, calls, count, collected, settings, lookup, ret, history>>

CleanupThrows ==
    /\ timer = "scheduled"
    /\ \/ "starting" \in ThrowPoints /\ UNCHANGED <<subs, count>>
       \/ "begun" \in ThrowPoints /\ stop # Null /\ count > stop /\ UNCHANGED <<subs, count>>
       \/ "finished" \in ThrowPoints /\ SweepStale
    /\ timer' = "dead"
    /\ UNCHANGED <<calls, collected, settings, lookup, ret, history>>

\* The cleanup parameters are tunable live.
Tune ==
    /\ start' \in StartValues
    /\ stop' \in StopValues
    /\ period' \in PeriodValues
    /\ tuned' = (tuned \/ settings' # settings)
    /\ UNCHANGED <<subs, calls, count, collected, timer, lookup, ret, proxied>>

Init ==
    /\ subs = {} /\ calls = 0 /\ count = 0 /\ collected = {}
    /\ timer = "none"
    \* the constructor replaces a null setting by its default
    /\ start \in StartValues \ {Null} /\ stop \in StopValues \ {Null} /\ period = TRUE
    /\ lookup = NoLookup /\ ret = FALSE
    /\ proxied = FALSE /\ tuned = FALSE

CleanupStep == CancelCleanup \/ RunCleanup \/ CleanupFails

Next ==
    \/ \E k \in Keys, o \in Objects, kind \in Kinds : Subscribe(k, o, kind)
    \/ \E k \in Keys, o \in Objects : Unsubscribe(k, o) \/ FindProxy(k, o)
    \/ RemoveFound
    \/ \E c \in Classes : GetSubscribers(c)
    \/ ClearAllSubscribers
    \/ \E o \in Objects : Collect(o)
    \/ CleanupStep \/ CleanupThrows
    \/ Tune

Spec == Init /\ [][Next]_vars

\* java.util.Timer runs the task every period for as long as its thread is alive.  A throw
\* is the client's and nothing has to bring it about; it ends the need for the next run.
FairSpec == Spec /\ WF_vars(CleanupStep)
-----------------------------------------------------------------------------
(***************************************************************************)
(* Properties.                                                             *)
(***************************************************************************)
WeakEntries == {e \in subs : Weak(e)}

\* A subscriber is in a list once, however it is reached (weak reference, strong
\* reference, proxy): subscribe() replaces every entry that resolves to the same
\* object.  The exception the code makes is a later proxy with a strong reference.
SingleSubscription ==
    \A e, f \in subs :
        e.key = f.key /\ e.obj = f.obj /\ e.at < f.at => f.kind = "strongProxy"

\* Until a strong proxy, which is counted out but never in, has been subscribed, the count
\* that decides on cleanup is never below the number of weak entries the lists hold.
NeverUndercounts == ~proxied => count >= Cardinality(WeakEntries)

\* Once the weak entries exceed the start threshold a cleanup timer is running, for the
\* settings of the constructor with stop below start (class javadoc, The Cleanup
\* Thread): no step of the timer or of an unsubscription can leave it off.  A timer whose
\* thread has died of a CleanupEvent subscriber that threw is none, and no other follows it.
FixedSettings == ~proxied /\ ~tuned /\ stop < start
CleanupStartsWhenNeeded ==
    FixedSettings /\ timer # "dead" /\ Cardinality(WeakEntries) > start => timer = "scheduled"

\* A live subscriber leaves a list only when it is passed to an unsubscribe method for
\* that list, or all are cleared: never by another subscriber's call, by cleaning, or
\* by a lookup (EventService: "will remain subscribed until ...").
StaysSubscribed ==
    [][\A k \in Keys, o \in Objects :
          Subscribed(k, o) /\ ~Subscribed(k, o)' =>
              \/ o \in collected
              \/ Unsubscribe(k, o)
              \/ RemoveFound /\ lookup.key = k /\ lookup.entry.obj = o
              \/ ClearAllSubscribers]_vars

\* What unsubscribe(o) achieves: FALSE means o was not in the list, and when the list
\* holds o at most once and no collected reference, o is gone and the result says
\* whether it was there.
UnsubscribeResult ==
    [][\A k \in Keys, o \in Objects :
          Unsubscribe(k, o) =>
              /\ ~ret' => ~Subscribed(k, o)
              /\ Cleaned(At(k)) = {} /\ (\A e, f \in At(k) : e.obj = o /\ f.obj = o => e = f)
                     => ~Subscribed(k, o)' /\ ret' = Subscribed(k, o)]_vars

\* To the subscribers that live the tables are lists with places that only they give up
\* (SubscriberLists): every subscription comes last, nobody is moved or taken off by what is
\* done for others, by a cleaning or by a lookup, and a collected object is in no list's way.
PlacesOf(k, o) == IF o \in collected THEN {} ELSE {e.at : e \in {f \in At(k) : f.obj = o}}
Lists == INSTANCE SubscriberLists WITH
    Doubles <- "strongProxy" \in Kinds,
    places <- [k \in Keys |-> [o \in Objects |-> PlacesOf(k, o)]],
    dead <- collected
RefinesSubscriberLists == Lists!SLSpec

\* While the timer is scheduled, a collected weak reference does not stay: a run of the
\* task removes it, unless the cleanup is cancelled, which it is only once the lists hold no
\* more weak entries than the stop threshold (or strong proxies have spoilt the count), or
\* its thread dies, of a stop threshold of null or of a CleanupEvent subscriber that throws.
MayRest == stop # Null /\ (proxied \/ Cardinality(WeakEntries) <= stop)
StaleReferenceCleaned ==
    \A k \in Keys, o \in Objects :
        (timer = "scheduled" /\ \E e \in At(k) : e.obj = o /\ e \in Cleaned(subs))
            ~> \/ ~\E e \in At(k) : e.obj = o /\ e \in Cleaned(subs)
               \/ timer = "none" /\ MayRest
               \/ timer = "dead"

(***************************************************************************)
(* What the documentation says and the code does not do.                   *)
(***************************************************************************)

\* Class javadoc: "stale WeakReferences and ProxySubscribers are cleaned up".
StaleProxyCleaned ==
    \A k \in Keys, o \in Objects :
        (timer = "scheduled" /\ \E e \in At(k) : e.obj = o /\ Stale(e))
            ~> (timer # "scheduled" \/ ~\E e \in At(k) : e.obj = o /\ Stale(e))

=============================================================================
