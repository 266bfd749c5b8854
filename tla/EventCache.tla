------------------------------ MODULE EventCache ------------------------------
(***************************************************************************)
(* The caches of ThreadSafeEventService: the last events published per     *)
(* class (cacheByEvent) and the last payloads per topic (cacheByTopic),    *)
(* newest first, and the sizes they are cut to.  A size is set by default, *)
(* for a class, for a topic or for a pattern of topics; sizes looked up    *)
(* are memoized (cacheSizesForEventClass, cacheSizesForTopic) until a      *)
(* setting changes.                                                        *)
(*                                                                         *)
(* Settings, lookups and clearing hold cacheLock.  addEventToCache holds   *)
(* listenerLock, so there is one at a time, but takes cacheLock only to    *)
(* look the size up: clearing can come between its steps.                  *)
(*                                                                         *)
(* Events are numbered per class or topic in the order they reach the      *)
(* cache; 1 is the first.                                                  *)
(***************************************************************************)
EXTENDS Integers, FiniteSetsExt, SequencesExt

CONSTANTS
    Classes,      \* event classes and the interfaces they implement
    Supers,       \* Supers[c]: the superclasses of c, nearest first
    Interfaces,   \* Interfaces[c]: the interfaces of c's own implements clause
    Topics,
    Patterns,
    Matches,      \* Matches[p]: the topics that pattern p matches
    Sizes,        \* the cache sizes that are set
    MaxEvents,    \* bound: MaxEvents[k] publications on class or topic k
    Null

IsInterface(c) == \E d \in Classes : Contains(Interfaces[d], c)
Instantiable == {c \in Classes : ~IsInterface(c)}
Keys == Instantiable \cup Topics

ASSUME CacheAssumption ==
    /\ Supers \in [Classes -> Seq(Classes)] /\ Interfaces \in [Classes -> Seq(Classes)]
    /\ \A c \in Classes : \A i \in 1..Len(Supers[c]) :
           Supers[Supers[c][i]] = SubSeq(Supers[c], i + 1, Len(Supers[c]))
    /\ \A c \in Classes : IsInterface(c) => Supers[c] = <<>>
    /\ Classes \cap Topics = {}
    /\ Matches \in [Patterns -> SUBSET Topics]
    /\ Sizes \subseteq Int /\ 0 \in Sizes /\ Null \notin Int
    /\ MaxEvents \in [Keys -> Nat]

VARIABLES
    default,      \* defaultCacheSizePerClassOrTopic
    rawClass,     \* rawCacheSizesForEventClass
    memoClass,    \* cacheSizesForEventClass
    classChanged, \* rawCacheSizesForEventClassChanged
    rawTopic,     \* rawCacheSizesForTopic
    rawPattern,   \* rawCacheSizesForPattern
    memoTopic,    \* cacheSizesForTopic
    topicChanged, \* rawCacheSizesForTopicChanged or rawCacheSizesForPatternChanged
    cache,        \* cache[k]: the list for class or topic k, Null if there is none
    published,    \* published[k]: how many events have passed through the cache of k
    adding        \* the addEventToCache under way

classSizes == <<rawClass, memoClass, classChanged>>
topicSizes == <<rawTopic, rawPattern, memoTopic, topicChanged>>
vars == <<default, classSizes, topicSizes, cache, published, adding>>

Size == Sizes \cup {Null}
Idle == [at |-> "idle"]
Adds == [at : {"sized"}, key : Keys, size : Sizes]
        \cup [at : {"fetched"}, key : Keys, size : Sizes, list : {"none", "held", "detached"}]
        \cup [at : {"failed"}, key : Topics]

TypeOK ==
    /\ default \in Sizes
    /\ rawClass \in [Classes -> Size] /\ memoClass \in [Classes -> Size]
    /\ rawTopic \in [Topics -> Size] /\ memoTopic \in [Topics -> Size]
    /\ rawPattern \in [Patterns -> Size]
    /\ classChanged \in BOOLEAN /\ topicChanged \in BOOLEAN
    /\ cache \in [Keys -> Seq(Nat) \cup {Null}]
    /\ published \in [Keys -> Nat]
    /\ adding \in Adds \cup {Idle}
-----------------------------------------------------------------------------
NoneSet(raw) == \A k \in DOMAIN raw : raw[k] = Null
OrDefault(n) == IF n = Null THEN default ELSE n

\* The memo of class sizes that a lookup starts from.
Refreshed == IF classChanged THEN rawClass ELSE memoClass

\* Where getCacheSizeForEventClass looks, in its order: the class itself, its
\* superclasses, its own interfaces.
Path(c) == <<c>> \o Supers[c] \o Interfaces[c]
FirstSize(memo, path) ==
    LET set == {i \in DOMAIN path : memo[path[i]] # Null}
    IN IF set = {} THEN Null ELSE memo[path[Min(set)]]

\* Mutant of ClassSize: the default is not fallen back on.
ClassSizeUnset(c) == FirstSize(Refreshed, Path(c))

\* getCacheSizeForEventClass: what it returns, and what it memoizes.
ClassSize(c) == IF NoneSet(rawClass) THEN default ELSE OrDefault(FirstSize(Refreshed, Path(c)))

LookUpClass(c) ==
    IF NoneSet(rawClass)
    THEN UNCHANGED classSizes
    ELSE /\ memoClass' = [Refreshed EXCEPT ![c] = FirstSize(Refreshed, Path(c))]
         /\ classChanged' = FALSE
         /\ UNCHANGED rawClass

\* putAll( rawCacheSizesForTopic ) of a map that no setter has created yet throws a
\* NullPointerException; the flags stay set, so that every lookup does.
TopicLookupFails == NoneSet(rawTopic) /\ ~NoneSet(rawPattern) /\ topicChanged

RefreshedTopics == IF topicChanged THEN rawTopic ELSE memoTopic
Applying(t) == {p \in Patterns : t \in Matches[p] /\ rawPattern[p] # Null}

\* The sizes a lookup of t may answer, none if it throws: which pattern is met first is up
\* to a HashMap.
TopicAnswers(t) ==
    IF TopicLookupFails THEN {}
    ELSE IF RefreshedTopics[t] # Null THEN {RefreshedTopics[t]}
    ELSE IF Applying(t) # {} THEN {rawPattern[p] : p \in Applying(t)}
    ELSE {Null}

\* What a lookup that answers memoizes.
LookUpTopic(t, answer) ==
    /\ answer \in TopicAnswers(t)
    /\ IF NoneSet(rawTopic) /\ NoneSet(rawPattern)
       THEN UNCHANGED topicSizes
       ELSE /\ memoTopic' = [RefreshedTopics EXCEPT ![t] = answer]
            /\ topicChanged' = FALSE
            /\ UNCHANGED <<rawTopic, rawPattern>>
-----------------------------------------------------------------------------
SetDefault(n) ==
    /\ default' = n
    /\ UNCHANGED <<classSizes, topicSizes, cache, published, adding>>

\* Mutant of SetClassSize: the memo is not marked as out of date.
SetClassSizeQuietly(c, n) ==
    /\ rawClass' = [rawClass EXCEPT ![c] = n]
    /\ UNCHANGED <<default, memoClass, classChanged, topicSizes, cache, published, adding>>

SetClassSize(c, n) ==
    /\ rawClass' = [rawClass EXCEPT ![c] = n]
    /\ classChanged' = TRUE
    /\ UNCHANGED <<default, memoClass, topicSizes, cache, published, adding>>

SetTopicSize(t, n) ==
    /\ rawTopic' = [rawTopic EXCEPT ![t] = n]
    /\ topicChanged' = TRUE
    /\ UNCHANGED <<default, classSizes, rawPattern, memoTopic, cache, published, adding>>

\* Mutant of SetPatternSize: only the first setting marks the memo as out of date.
SetPatternSizeQuietly(p, n) ==
    /\ rawPattern' = [rawPattern EXCEPT ![p] = n]
    /\ topicChanged' = (topicChanged \/ NoneSet(rawPattern))
    /\ UNCHANGED <<default, classSizes, rawTopic, memoTopic, cache, published, adding>>

SetPatternSize(p, n) ==
    /\ rawPattern' = [rawPattern EXCEPT ![p] = n]
    /\ topicChanged' = TRUE
    /\ UNCHANGED <<default, classSizes, rawTopic, memoTopic, cache, published, adding>>

GetClassSize(c) ==
    /\ LookUpClass(c)
    /\ UNCHANGED <<default, topicSizes, cache, published, adding>>

GetTopicSize(t) ==
    /\ \/ TopicLookupFails /\ UNCHANGED topicSizes
       \/ \E answer \in Size : LookUpTopic(t, answer)
    /\ UNCHANGED <<default, classSizes, cache, published, adding>>

SomeEventsLeft(k) == published[k] < MaxEvents[k]

\* addEventToCache in three steps.  First the size, under cacheLock ...
FindClassSize(c) ==
    /\ adding = Idle /\ SomeEventsLeft(c)
    /\ adding' = [at |-> "sized", key |-> c, size |-> ClassSize(c)]
    /\ LookUpClass(c)
    /\ UNCHANGED <<default, topicSizes, cache, published>>

FindTopicSize(t) ==
    /\ adding = Idle /\ SomeEventsLeft(t)
    /\ \E answer \in Size :
           /\ LookUpTopic(t, answer)
           /\ adding' = [at |-> "sized", key |-> t, size |-> OrDefault(answer)]
    /\ UNCHANGED <<default, classSizes, cache, published>>

\* ... or the lookup throws, and with it publish(): the payload never reaches the cache nor
\* the subscribers of the topic.
TopicSizeThrows(t) ==
    /\ adding = Idle /\ SomeEventsLeft(t) /\ TopicLookupFails
    /\ adding' = [at |-> "failed", key |-> t]
    /\ UNCHANGED <<default, classSizes, topicSizes, cache, published>>

Abandon ==
    /\ adding.at = "failed"
    /\ adding' = Idle
    /\ UNCHANGED <<default, classSizes, topicSizes, cache, published>>

\* ... then the list, without it ...
FetchList ==
    /\ adding.at = "sized"
    /\ adding' = [at |-> "fetched", key |-> adding.key, size |-> adding.size,
                  list |-> IF cache[adding.key] = Null THEN "none" ELSE "held"]
    /\ UNCHANGED <<default, classSizes, topicSizes, cache, published>>

\* Mutant of Newest: one too many is kept.
NewestAndOne(s, n) == SubSeq(s, 1, IF Len(s) < n + 1 THEN Len(s) ELSE n + 1)

Newest(s, n) == SubSeq(s, 1, IF Len(s) < n THEN Len(s) ELSE n)

\* Mutant of AddToCache: classes as topics, a list of size 0 stays as it is.
AddToCacheKeepingOld ==
    /\ adding.at = "fetched"
    /\ LET k == adding.key
           e == published[k] + 1
       IN /\ cache' = [cache EXCEPT ![k] =
                 IF adding.size <= 0 \/ adding.list = "detached" THEN @
                 ELSE IF adding.list = "none" THEN <<e>> ELSE Newest(<<e>> \o @, adding.size)]
          /\ published' = [published EXCEPT ![k] = e]
    /\ adding' = Idle
    /\ UNCHANGED <<default, classSizes, topicSizes>>

\* ... then the list is put into the map, extended and cut, or removed.  The code of
\* topics removes the topic from its list, not the list from the map.
AddToCache ==
    /\ adding.at = "fetched"
    /\ LET k == adding.key
           e == published[k] + 1
           kept == IF adding.size <= 0 THEN IF k \in Topics THEN cache[k] ELSE Null
                   ELSE CASE adding.list = "none" -> <<e>>
                          [] adding.list = "held" -> Newest(<<e>> \o cache[k], adding.size)
                          [] adding.list = "detached" -> cache[k]
       IN /\ cache' = [cache EXCEPT ![k] = kept]
          /\ published' = [published EXCEPT ![k] = e]
    /\ adding' = Idle
    /\ UNCHANGED <<default, classSizes, topicSizes>>

\* Lists leave the map; one that addEventToCache has in hand is out of it from then on.
Clear(keys) ==
    /\ cache' = [k \in Keys |-> IF k \in keys THEN Null ELSE cache[k]]
    /\ adding' = IF adding.at = "fetched" /\ adding.key \in keys /\ adding.list = "held"
                 THEN [adding EXCEPT !.list = "detached"] ELSE adding
    /\ UNCHANGED <<default, classSizes, topicSizes, published>>

\* The classes assignable to c: itself, its subclasses, the implementers of it.
Assignable(c) ==
    {d \in Instantiable :
        \E e \in ToSet(<<d>> \o Supers[d]) : e = c \/ Contains(Interfaces[e], c)}

Next ==
    \/ \E n \in Sizes : SetDefault(n)
    \/ \E c \in Classes, n \in Sizes : SetClassSize(c, n)
    \/ \E t \in Topics, n \in Sizes : SetTopicSize(t, n)
    \/ \E p \in Patterns, n \in Sizes : SetPatternSize(p, n)
    \/ \E c \in Classes : GetClassSize(c) \/ Clear(Assignable(c))
    \/ \E c \in Instantiable : FindClassSize(c)
    \/ \E t \in Topics : GetTopicSize(t) \/ FindTopicSize(t) \/ TopicSizeThrows(t) \/ Clear({t})
    \/ \E p \in Patterns : Clear(Matches[p])
    \/ Clear(Keys)
    \/ FetchList \/ AddToCache \/ Abandon

Init ==
    /\ default = 0
    /\ rawClass = [c \in Classes |-> Null] /\ memoClass = rawClass /\ classChanged = FALSE
    /\ rawTopic = [t \in Topics |-> Null] /\ memoTopic = rawTopic /\ topicChanged = FALSE
    /\ rawPattern = [p \in Patterns |-> Null]
    /\ cache = [k \in Keys |-> Null]
    /\ published = [k \in Keys |-> 0]
    /\ adding = Idle

Spec == Init /\ [][Next]_vars
-----------------------------------------------------------------------------
(***************************************************************************)
(* Properties.                                                             *)
(***************************************************************************)

\* The size of a class is its own setting, or that of its nearest superclass with one, or
\* the default, whatever was looked up, memoized or set again before: as long as no
\* interface has a setting (for those see SizeDependsOnSettingsOnly).
NearestSetting(c) == OrDefault(FirstSize(rawClass, <<c>> \o Supers[c]))
ClassSizeFollowsHierarchy ==
    (\A c \in Classes : IsInterface(c) => rawClass[c] = Null) =>
        \A c \in Classes : ClassSize(c) = NearestSetting(c)

\* The size of a topic is the one set for its name, before any pattern's; else that of a
\* pattern that matches it now; else the default.  The exception is the code's: as long as
\* sizes are set for patterns alone, no topic has one, and every lookup throws, where the
\* javadoc of setCacheSizeForTopic(Pattern, int) has the pattern's size apply.
TopicSizeFollowsSettings ==
    \A t \in Topics :
        IF NoneSet(rawTopic) /\ ~NoneSet(rawPattern) THEN TopicAnswers(t) = {}
        ELSE IF rawTopic[t] # Null THEN TopicAnswers(t) = {rawTopic[t]}
        ELSE IF Applying(t) = {} THEN TopicAnswers(t) = {Null}
        ELSE TopicAnswers(t) # {} /\ TopicAnswers(t) \subseteq {rawPattern[p] : p \in Applying(t)}

\* A class's list holds its latest events, newest first and without a gap, though it can
\* be cleared at any point of an addEventToCache and its size can change at any time.
IsLatest(k) ==
    cache[k] # Null => \A i \in 1..Len(cache[k]) : cache[k][i] = published[k] + 1 - i
ClassCacheIsLatest == \A c \in Instantiable : IsLatest(c)

\* When an event has passed, its list is no longer than the size found for it ("the cache
\* is not adjusted until the next event of that class is published").
AdjustedOnPublication ==
    [][adding.at = "fetched" /\ adding' = Idle /\ adding.size > 0 =>
          \/ cache'[adding.key] = Null
          \/ Len(cache'[adding.key]) \in 1..adding.size]_vars

(***************************************************************************)
(* What the documentation says and the code does not do.                   *)
(***************************************************************************)

\* getCacheSizeForEventClass: "This result is computed for a particular class from the
\* values passed to #setCacheSizeForEventClass", not from what was looked up before.
SizeDependsOnSettingsOnly ==
    \A c \in Classes : ClassSize(c) = OrDefault(FirstSize(rawClass, Path(c)))

\* addEventToCache: "the cache threshold was lowered to 0", and nothing old is kept.
TopicCacheIsLatest == \A t \in Topics : IsLatest(t)
=============================================================================
