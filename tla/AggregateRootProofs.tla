-------------------------- MODULE AggregateRootProofs --------------------------
(***************************************************************************)
(* For any events, entities and handlers, up to as many events as there    *)
(* are positive versions: the changes of an aggregate are in the order of  *)
(* their versions, no two events stored or to be stored share a version,   *)
(* and the object and its history differ by the events that failed.        *)
(*                                                                         *)
(* Versions overflow only at the last of these events, so that each stands *)
(* for a number from 1 on (Number), and they compare as the numbers do.    *)
(* Shape holds whatever the client does.  Proper relates the calls under   *)
(* way, the changes, the store and the order in which versions were given, *)
(* and rests on there being no misuse.                                     *)
(***************************************************************************)
EXTENDS AggregateRoot, FiniteSetTheorems, SequenceTheorems, TLAPS

\* The versions as numbers: of the last event, of each event.
Count == IF current = -Half THEN Half ELSE current
Number == [e \in Events |-> IF versionOf[e] = -Half THEN Half ELSE versionOf[e]]

\* The events given a version, those stored, those recorded, those being applied or loaded.
Past == ToSet(order)
Kept == ToSet(stored)
Recorded == UNION {ToSet(applied[o]) : o \in Owners}
EventsOf(calls) == UNION {ToSet(calls[i].events) : i \in 1..Len(calls)}
Going == EventsOf(stack)
Seen == ToSet(state)

\* A call under way has the event that its handler has, and of an apply it is the only one.
Calls ==
    {f \in Frames :
        /\ f.at # "next" => f.events # <<>>
        /\ f.call # "load" => Len(f.events) = 1 /\ f.at # "next"
        /\ f.owner = Root \/ Contains(children, f.owner)
        /\ f.last \in Past \cup {Null}}

FramesOK == \A i \in 1..Len(stack) : stack[i] \in Calls

\* Only the root and the entities registered have changes.
ProvidersOK == \A o \in Owners : applied[o] = <<>> \/ o = Root \/ Contains(children, o)

\* An event is given one version, and there are as many versions as events at the most.
VersionsOK ==
    /\ \A i, j \in 1..Len(order) : order[i] = order[j] => i = j
    /\ Count \in 0..Len(order)
    /\ \A e \in Past : Number[e] \in 1..Len(order)

PastOK == Kept \cup Recorded \cup Going \cup Seen \cup failed \subseteq Past

Shape == TypeOK /\ FramesOK /\ ProvidersOK /\ VersionsOK /\ PastOK

Increasing(s) == \A i, j \in 1..Len(s) : i < j => Number[s[i]] < Number[s[j]]

\* The calls under way have different events.
Apart(calls) ==
    \A i, j \in 1..Len(calls) :
        i # j => ToSet(calls[i].events) \cap ToSet(calls[j].events) = {}

\* No call is a loadFromHistory.
NoLoad == \A i \in 1..Len(stack) : stack[i].call # "load"

\* Each event is recorded once, or has not yet been, or has failed.
OnceOK ==
    /\ \A i, j \in 1..Len(children) : children[i] = children[j] => i = j
    /\ \A o, q \in Owners : \A i \in 1..Len(applied[o]), j \in 1..Len(applied[q]) :
           applied[o][i] = applied[q][j] => o = q /\ i = j
    /\ Apart(stack)
    /\ failed \cap (Kept \cup Recorded \cup Going) = {}
    /\ Increasing(stored)

\* The events of this object since it was loaded are the last that were given versions,
\* which follow those of the events stored.
LoadedOK ==
    loaded =>
        /\ NoLoad
        /\ Recorded \cap Going = {}
        /\ \A e \in Kept : Number[e] <= Count /\ \A d \in Recorded \cup Going : Number[e] < Number[d]
        /\ \A i \in 1..Len(order) :
               order[i] \in Recorded \cup Going => Number[order[i]] = Count - (Len(order) - i)
        /\ Increasing(state) /\ \A e \in Seen : Number[e] <= Count
        /\ Seen \ (failed \cup Going) = Kept \cup Recorded
        /\ Going \subseteq Seen

\* An object that is loading, or whose loading failed, has been through the first of the
\* events stored, and the others are still to come.
LoadingOK ==
    ~loaded =>
        /\ Recorded = {}
        /\ stack # <<>> =>
            /\ Len(stack) = 1 /\ stack[1].call = "load"
            /\ stack[1].at = "next" =>
                /\ state \o stack[1].events = stored
                /\ stack[1].last = IF state = <<>> THEN Null ELSE state[Len(state)]
            /\ stack[1].at # "next" =>
                /\ state \o Tail(stack[1].events) = stored
                /\ state # <<>> /\ Head(stack[1].events) = state[Len(state)]
        /\ \A e \in Seen : TypeOf[e] \in registered[Root]

Proper == ~misuse => OnceOK /\ LoadedOK /\ LoadingOK

IInv == Shape /\ Proper
-----------------------------------------------------------------------------
(* Versions. *)

LEMMA WrapValues ==
    /\ \A n \in Int : Wrap(n) \in Version
    /\ \A n \in -Half .. Half - 1 : Wrap(n) = n
    /\ \A n \in Half .. 3 * Half - 1 : Wrap(n) = n - 2 * Half
    /\ \A n \in -(3 * Half) .. -Half - 1 : Wrap(n) = n + 2 * Half
  BY AggregateAssumption DEF Wrap, Version

\* What an event's version is, of those in order.
LEMMA NumberedVersion ==
    ASSUME TypeOK, VersionsOK, NEW e \in Past
    PROVE  /\ e \in Events /\ versionOf[e] \in Version /\ Number[e] \in 1..Len(order)
           /\ Number[e] = IF versionOf[e] = -Half THEN Half ELSE versionOf[e]
  <1>1. e \in Events
    BY DEF TypeOK, Past, ToSet
  <1> QED
    BY <1>1 DEF TypeOK, VersionsOK, Number

LEMMA FirstNumbers ==
    ASSUME NEW n \in Nat
    PROVE  IsFiniteSet(1..n) /\ Cardinality(1..n) = n
  BY FS_Interval

\* A list with each event once is no longer than there are events.
LEMMA OnceEach ==
    ASSUME NEW s \in Seq(Events), \A i, j \in 1..Len(s) : s[i] = s[j] => i = j
    PROVE  Len(s) \in Nat /\ Len(s) <= Half /\ Half \in Nat \ {0}
  <1>1. s \in [1..Len(s) -> Events] /\ Len(s) \in Nat
    OBVIOUS
  <1>2. IsFiniteSet(Events) /\ Cardinality(Events) \in Nat
    BY AggregateAssumption, FS_CardinalityType
  <1>3. s \in Injection(1..Len(s), Events)
    BY <1>1 DEF Injection, IsInjective
  <1>4. Cardinality(1..Len(s)) <= Cardinality(Events)
    BY <1>2, <1>3, FS_Injection
  <1>5. Cardinality(1..Len(s)) = Len(s)
    BY <1>1, FirstNumbers
  <1> QED
    BY <1>1, <1>2, <1>4, <1>5, AggregateAssumption

\* There are no more versions given than events, as each is given one once.
LEMMA FewVersions ==
    ASSUME TypeOK, VersionsOK
    PROVE  Len(order) \in Nat /\ Len(order) <= Half
  BY OnceEach DEF TypeOK, VersionsOK

\* The comparison of versions, overflow or not, is that of the numbers.
LEMMA EarlierIsLess ==
    ASSUME TypeOK, VersionsOK, NEW d \in Past, NEW e \in Past
    PROVE  Earlier(d, e) <=> Number[d] < Number[e]
  <1> DEFINE m == Number[d]
             n == Number[e]
  <1>1. /\ versionOf[d] = (IF m = Half THEN -Half ELSE m)
        /\ versionOf[e] = (IF n = Half THEN -Half ELSE n)
        /\ m \in 1..Half /\ n \in 1..Half /\ Half \in Nat
    BY NumberedVersion, FewVersions, AggregateAssumption DEF Version
  <1> HIDE DEF m, n
  <1>2. Wrap(versionOf[d] - versionOf[e]) = m - n
    <2>1. CASE m = Half /\ n # Half
      <3>1. versionOf[d] - versionOf[e] \in -(3 * Half) .. -Half - 1
        BY <1>1, <2>1
      <3> QED
        BY <1>1, <2>1, <3>1, WrapValues
    <2>2. CASE m # Half /\ n = Half
      <3>1. versionOf[d] - versionOf[e] \in Half .. 3 * Half - 1
        BY <1>1, <2>2
      <3> QED
        BY <1>1, <2>2, <3>1, WrapValues
    <2>3. CASE (m = Half) <=> (n = Half)
      <3>1. versionOf[d] - versionOf[e] \in -Half .. Half - 1 /\ versionOf[d] - versionOf[e] = m - n
        BY <1>1, <2>3
      <3> QED
        BY <3>1, WrapValues
    <2> QED
      BY <2>1, <2>2, <2>3
  <1>3. Earlier(d, e) <=> m - n < 0
    BY <1>2 DEF Earlier
  <1> QED
    BY <1>1, <1>3 DEF m, n
-----------------------------------------------------------------------------
(* The entries of sequences. *)

LEMMA EntriesOfConcat ==
    ASSUME NEW S, NEW s \in Seq(S), NEW t \in Seq(S)
    PROVE  ToSet(s \o t) = ToSet(s) \cup ToSet(t)
  <1>1. /\ Len(s) \in Nat /\ Len(t) \in Nat /\ Len(s \o t) = Len(s) + Len(t)
        /\ DOMAIN (s \o t) = 1..(Len(s) + Len(t))
        /\ \A i \in 1..Len(s) : (s \o t)[i] = s[i]
        /\ \A i \in 1..Len(t) : (s \o t)[Len(s) + i] = t[i]
    BY ConcatProperties
  <1>2. \A i \in 1..(Len(s) + Len(t)) :
            i \in 1..Len(s) \/ (i - Len(s) \in 1..Len(t) /\ i = Len(s) + (i - Len(s)))
    BY <1>1
  <1>3. DOMAIN s = 1..Len(s) /\ DOMAIN t = 1..Len(t)
    OBVIOUS
  <1>4. ToSet(s \o t) \subseteq ToSet(s) \cup ToSet(t)
    BY <1>1, <1>2, <1>3 DEF ToSet
  <1>5. /\ \A i \in 1..Len(s) : i \in 1..(Len(s) + Len(t))
        /\ \A i \in 1..Len(t) : Len(s) + i \in 1..(Len(s) + Len(t))
    BY <1>1
  <1>6. ToSet(s) \cup ToSet(t) \subseteq ToSet(s \o t)
    BY <1>1, <1>3, <1>5 DEF ToSet
  <1> QED
    BY <1>4, <1>6

LEMMA EntriesOfOne ==
    ASSUME NEW e
    PROVE  ToSet(<<e>>) = {e} /\ ToSet(<<>>) = {}
  BY DEF ToSet

LEMMA EntriesOfAppend ==
    ASSUME NEW S, NEW s \in Seq(S), NEW e \in S
    PROVE  ToSet(Append(s, e)) = ToSet(s) \cup {e}
  <1>1. Append(s, e) = s \o <<e>> /\ <<e>> \in Seq(S)
    BY AppendIsConcat
  <1>2. ToSet(s \o <<e>>) = ToSet(s) \cup ToSet(<<e>>)
    <2>1. \A q, r \in Seq(S) : ToSet(q \o r) = ToSet(q) \cup ToSet(r)
      BY EntriesOfConcat
    <2> QED
      BY <1>1, <2>1, Zenon
  <1> QED
    BY <1>1, <1>2, EntriesOfOne

LEMMA EntriesOfTail ==
    ASSUME NEW S, NEW s \in Seq(S), s # <<>>
    PROVE  /\ ToSet(s) = {Head(s)} \cup ToSet(Tail(s))
           /\ s = <<Head(s)>> \o Tail(s)
           /\ Head(s) \in S /\ Tail(s) \in Seq(S) /\ Len(Tail(s)) = Len(s) - 1
           /\ \A i \in 1..Len(Tail(s)) : Tail(s)[i] = s[i + 1] /\ i + 1 \in 1..Len(s)
           /\ Head(s) = s[1] /\ 1 \in 1..Len(s)
  <1>1. /\ Head(s) \in S /\ Tail(s) \in Seq(S) /\ Len(Tail(s)) = Len(s) - 1
        /\ \A i \in 1..Len(Tail(s)) : Tail(s)[i] = s[i + 1] /\ i + 1 \in 1..Len(s)
        /\ Head(s) = s[1] /\ 1 \in 1..Len(s)
    BY HeadTailProperties
  <1>2. s = <<Head(s)>> \o Tail(s)
    <2> DEFINE t == <<Head(s)>> \o Tail(s)
    <2>1. t \in Seq(S) /\ Len(t) = Len(s) /\ \A i \in 1..Len(s) : t[i] = s[i]
      BY <1>1
    <2> QED
      BY <2>1
  <1>3. ToSet(s) = ToSet(<<Head(s)>>) \cup ToSet(Tail(s))
    <2>1. <<Head(s)>> \in Seq(S)
      BY <1>1
    <2>2. \A q, r \in Seq(S) : ToSet(q \o r) = ToSet(q) \cup ToSet(r)
      BY EntriesOfConcat
    <2> QED
      BY <1>1, <1>2, <2>1, <2>2, Zenon
  <1> QED
    BY <1>1, <1>2, <1>3, EntriesOfOne

LEMMA EntriesAre ==
    ASSUME NEW S, NEW s \in Seq(S)
    PROVE  /\ ToSet(s) \subseteq S /\ (ToSet(s) = {} <=> s = <<>>)
           /\ \A e : e \in ToSet(s) <=> \E i \in 1..Len(s) : s[i] = e
  <1>1. DOMAIN s = 1..Len(s) /\ (s = <<>> <=> Len(s) = 0) /\ Len(s) \in Nat
    OBVIOUS
  <1>2. \A e : e \in ToSet(s) <=> \E i \in 1..Len(s) : s[i] = e
    BY <1>1 DEF ToSet
  <1>3. ToSet(s) \subseteq S
    BY <1>1, <1>2
  <1>4. ToSet(s) = {} <=> s = <<>>
    <2>1. (\E i \in 1..Len(s) : TRUE) <=> Len(s) # 0
      BY <1>1
    <2>2. ToSet(s) # {} <=> \E i \in 1..Len(s) : TRUE
      BY <1>2
    <2> QED
      BY <1>1, <2>1, <2>2
  <1> QED
    BY <1>2, <1>3, <1>4
-----------------------------------------------------------------------------
(* The changes: every record has a place of its own. *)

LEMMA ProviderType ==
    ASSUME TypeOK, NEW i \in 0..Len(children)
    PROVE  /\ Provider(i) \in Owners /\ Len(children) \in Nat
           /\ i # 0 => i \in 1..Len(children) /\ Provider(i) = children[i] /\ Provider(i) \in Entities
           /\ applied[Provider(i)] \in Seq(Events) /\ Len(applied[Provider(i)]) \in Nat
  <1>1. Len(children) \in Nat /\ \A j \in 1..Len(children) : children[j] \in Entities
    BY DEF TypeOK
  <1>2. i # 0 => i \in 1..Len(children)
    BY <1>1
  <1>3. /\ Provider(i) \in Owners
        /\ i # 0 => Provider(i) = children[i] /\ Provider(i) \in Entities
    BY <1>1, <1>2 DEF Provider, Owners
  <1>4. applied[Provider(i)] \in Seq(Events)
    BY <1>3 DEF TypeOK
  <1>5. Len(applied[Provider(i)]) \in Nat
    BY <1>4
  <1> QED
    BY <1>1, <1>2, <1>3, <1>4, <1>5

LEMMA RecordsAre ==
    ASSUME TypeOK
    PROVE  /\ IsFiniteSet(Records) /\ Cardinality(Records) \in Nat
           /\ \A r : r \in Records <=>
                 \E i \in 0..Len(children) : \E k \in 1..Len(applied[Provider(i)]) : r = <<i, k>>
  <1> DEFINE D == 0..Len(children)
             row(i) == {i} \X (1..Len(applied[Provider(i)]))
             f == [i \in D |-> row(i)]
             T == {row(i) : i \in D}
  <1>1. Len(children) \in Nat
    BY DEF TypeOK
  <1>2. IsFiniteSet(D)
    BY <1>1, FS_Interval
  <1>3. f \in Surjection(D, T)
    BY DEF Surjection
  <1>4. IsFiniteSet(T)
    <2> HIDE DEF f, T, D
    <2> QED
      BY <1>2, <1>3, FS_Surjection
  <1>5. \A t \in T : IsFiniteSet(t)
    <2> SUFFICES ASSUME NEW i \in D
                 PROVE  IsFiniteSet(row(i))
      OBVIOUS
    <2>1. IsFiniteSet(1..Len(applied[Provider(i)]))
      BY ProviderType, FirstNumbers
    <2> QED
      BY <2>1, FS_Singleton, FS_Product
  <1>6. Records = UNION T
    BY DEF Records
  <1>7. IsFiniteSet(UNION T)
    <2> HIDE DEF T
    <2> QED
      BY <1>4, <1>5, FS_UNION
  <1>8. \A r : r \in Records <=> \E i \in D : r \in row(i)
    BY <1>6
  <1> QED
    BY <1>6, <1>7, <1>8, FS_CardinalityType

LEMMA RecordFacts ==
    ASSUME TypeOK, NEW r \in Records
    PROVE  /\ r = <<r[1], r[2]>> /\ r[1] \in 0..Len(children)
           /\ r[2] \in 1..Len(applied[Provider(r[1])])
           /\ r[1] \in Int /\ r[2] \in Int
           /\ EventAt(r) \in Recorded /\ EventAt(r) \in Events
  <1>0. PICK i \in 0..Len(children) : \E k \in 1..Len(applied[Provider(i)]) : r = <<i, k>>
    BY RecordsAre
  <1>1. PICK k \in 1..Len(applied[Provider(i)]) : r = <<i, k>>
    BY <1>0
  <1>2. Provider(i) \in Owners /\ applied[Provider(i)] \in Seq(Events)
    BY ProviderType
  <1>3. applied[Provider(i)][k] \in ToSet(applied[Provider(i)]) /\ applied[Provider(i)][k] \in Events
    BY <1>2 DEF ToSet
  <1>4. EventAt(r) = applied[Provider(i)][k]
    BY <1>1 DEF EventAt
  <1> QED
    BY <1>1, <1>2, <1>3, <1>4 DEF Recorded

\* The changes are those of the root and of the entities registered, and so all.
LEMMA EveryRecord ==
    ASSUME TypeOK, ProvidersOK, NEW e \in Recorded
    PROVE  \E r \in Records : EventAt(r) = e
  <1>1. PICK o \in Owners : e \in ToSet(applied[o])
    BY DEF Recorded
  <1>2. applied[o] \in Seq(Events)
    BY DEF TypeOK
  <1>3. PICK k \in 1..Len(applied[o]) : applied[o][k] = e
    BY <1>1, <1>2, EntriesAre
  <1>4. applied[o] # <<>>
    BY <1>3
  <1>5. PICK i \in 0..Len(children) : Provider(i) = o
    <2>1. Len(children) \in Nat
      BY DEF TypeOK
    <2>2. CASE o = Root
      BY <2>1, <2>2 DEF Provider
    <2>3. CASE Contains(children, o)
      BY <2>1, <2>3 DEF Contains, Provider
    <2> QED
      BY <1>4, <2>2, <2>3 DEF ProvidersOK
  <1>6. <<i, k>> \in Records
    BY <1>3, <1>5, RecordsAre
  <1> QED
    BY <1>3, <1>5, <1>6 DEF EventAt

\* Before orders the records by the number of the event, then as they are listed.
LEMMA BeforeIs ==
    ASSUME Shape, NEW q \in Records, NEW r \in Records
    PROVE  /\ Number[EventAt(q)] \in Int /\ Number[EventAt(r)] \in Int
           /\ Before(q, r) <=>
                \/ Number[EventAt(q)] < Number[EventAt(r)]
                \/ /\ Number[EventAt(q)] = Number[EventAt(r)]
                   /\ q[1] < r[1] \/ (q[1] = r[1] /\ q[2] < r[2])
  <1>1. PICK d, e \in Past : d = EventAt(q) /\ e = EventAt(r)
    BY RecordFacts DEF Shape, PastOK
  <1>2. Number[d] \in Int /\ Number[e] \in Int
    BY NumberedVersion DEF Shape
  <1>3. (Earlier(d, e) <=> Number[d] < Number[e]) /\ (Earlier(e, d) <=> Number[e] < Number[d])
    BY EarlierIsLess DEF Shape
  <1>4. Before(q, r) <=> \/ Earlier(d, e)
                         \/ ~Earlier(e, d) /\ (q[1] < r[1] \/ (q[1] = r[1] /\ q[2] < r[2]))
    BY <1>1 DEF Before
  <1> QED
    BY <1>1, <1>2, <1>3, <1>4

LEMMA BeforeIsStrictOrder ==
    ASSUME Shape
    PROVE  \A q, r \in Records :
               /\ ~ Before(q, q)
               /\ q # r => Before(q, r) \/ Before(r, q)
               /\ \A s \in Records : Before(q, r) /\ Before(r, s) => Before(q, s)
  <1> SUFFICES ASSUME NEW q \in Records, NEW r \in Records, NEW s \in Records
               PROVE  /\ ~ Before(q, q)
                      /\ q # r => Before(q, r) \/ Before(r, q)
                      /\ Before(q, r) /\ Before(r, s) => Before(q, s)
    OBVIOUS
  <1>1. \A x \in {q, r, s} : x = <<x[1], x[2]>> /\ x[1] \in Int /\ x[2] \in Int
    BY RecordFacts DEF Shape
  <1>2. q # r => q[1] # r[1] \/ q[2] # r[2]
    BY <1>1
  <1> QED
    BY <1>1, <1>2, BeforeIs

Ahead(r) == {q \in Records : Before(q, r)}

LEMMA PlaceType ==
    ASSUME Shape, NEW r \in Records
    PROVE  /\ Place(r) \in 1..Cardinality(Records) /\ Place(r) = Cardinality(Ahead(r)) + 1
           /\ IsFiniteSet(Ahead(r)) /\ Cardinality(Ahead(r)) \in Nat
  <1>1. IsFiniteSet(Records) /\ Cardinality(Records) \in Nat
    BY RecordsAre DEF Shape
  <1>2. IsFiniteSet(Records \ {r}) /\ Cardinality(Records \ {r}) = Cardinality(Records) - 1
    BY <1>1, FS_RemoveElement
  <1>3. Ahead(r) \in SUBSET (Records \ {r})
    BY BeforeIsStrictOrder DEF Ahead
  <1>4. IsFiniteSet(Ahead(r)) /\ Cardinality(Ahead(r)) <= Cardinality(Records \ {r})
    BY <1>2, <1>3, FS_Subset
  <1>5. Cardinality(Ahead(r)) \in Nat
    BY <1>4, FS_CardinalityType
  <1>6. Place(r) = Cardinality(Ahead(r)) + 1
    BY DEF Place, Ahead
  <1> QED
    BY <1>1, <1>2, <1>4, <1>5, <1>6

LEMMA PlaceFollows ==
    ASSUME Shape, NEW q \in Records, NEW r \in Records, Before(q, r)
    PROVE  Place(q) < Place(r)
  <1>1. Ahead(q) \in SUBSET Ahead(r) /\ q \in Ahead(r) /\ q \notin Ahead(q)
    BY BeforeIsStrictOrder DEF Ahead
  <1>2. /\ Cardinality(Ahead(q)) \in Nat /\ Cardinality(Ahead(r)) \in Nat
        /\ IsFiniteSet(Ahead(r))
        /\ Place(q) = Cardinality(Ahead(q)) + 1 /\ Place(r) = Cardinality(Ahead(r)) + 1
    BY PlaceType
  <1>3. /\ Cardinality(Ahead(q)) <= Cardinality(Ahead(r))
        /\ Cardinality(Ahead(r)) = Cardinality(Ahead(q)) => Ahead(r) = Ahead(q)
    BY <1>1, <1>2, FS_Subset
  <1> QED
    BY <1>1, <1>2, <1>3

LEMMA PlaceIsBijection ==
    ASSUME Shape
    PROVE  /\ \A q, r \in Records : Place(q) = Place(r) => q = r
           /\ \A n \in 1..Cardinality(Records) : \E r \in Records : Place(r) = n
  <1> DEFINE N == 1..Cardinality(Records)
             f == [r \in Records |-> Place(r)]
  <1>1. \A q, r \in Records : Place(q) = Place(r) => q = r
    <2> SUFFICES ASSUME NEW q \in Records, NEW r \in Records, q # r
                 PROVE  Place(q) # Place(r)
      OBVIOUS
    <2>1. Before(q, r) \/ Before(r, q)
      BY BeforeIsStrictOrder
    <2>2. Place(q) \in Int /\ Place(r) \in Int
      BY PlaceType
    <2> QED
      BY <2>1, <2>2, PlaceFollows
  <1>2. f \in Injection(Records, N)
    BY <1>1, PlaceType DEF Injection, IsInjective
  <1>3. IsFiniteSet(N) /\ Cardinality(N) = Cardinality(Records)
    BY RecordsAre, FirstNumbers DEF Shape
  <1>4. f \in Surjection(Records, N)
    <2> HIDE DEF f, N
    <2> QED
      BY <1>2, <1>3, FS_Injection
  <1> QED
    BY <1>1, <1>4 DEF Surjection

\* The record that the sort puts at place n.
From(n) == CHOOSE r \in Records : Place(r) = n

LEMMA ChangesAre ==
    ASSUME Shape
    PROVE  /\ GetChanges \in Seq(Events) /\ Len(GetChanges) = Cardinality(Records)
           /\ \A n \in 1..Len(GetChanges) :
                  From(n) \in Records /\ Place(From(n)) = n /\ GetChanges[n] = EventAt(From(n))
           /\ ToSet(GetChanges) = Recorded
  <1>1. Cardinality(Records) \in Nat
    BY RecordsAre DEF Shape
  <1>2. \A n \in 1..Cardinality(Records) : From(n) \in Records /\ Place(From(n)) = n
    BY PlaceIsBijection DEF From
  <1>3. GetChanges = [n \in 1..Cardinality(Records) |-> EventAt(From(n))]
    BY DEF GetChanges, From
  <1>4. \A n \in 1..Cardinality(Records) : EventAt(From(n)) \in Events
    BY <1>2, RecordFacts DEF Shape
  <1>5. GetChanges \in Seq(Events) /\ Len(GetChanges) = Cardinality(Records)
    BY <1>1, <1>3, <1>4
  <1>6. \A n \in 1..Len(GetChanges) :
            From(n) \in Records /\ Place(From(n)) = n /\ GetChanges[n] = EventAt(From(n))
    BY <1>2, <1>3, <1>5
  <1>7. ToSet(GetChanges) \subseteq Recorded
    BY <1>5, <1>6, RecordFacts, EntriesAre DEF Shape
  <1>8. ASSUME NEW e \in Recorded
        PROVE  e \in ToSet(GetChanges)
    <2>1. PICK r \in Records : EventAt(r) = e
      BY EveryRecord DEF Shape
    <2>2. Place(r) \in 1..Len(GetChanges)
      BY <1>5, PlaceType
    <2>3. From(Place(r)) = r
      BY <1>6, <2>2, PlaceIsBijection
    <2> QED
      BY <1>5, <1>6, <2>1, <2>2, <2>3, EntriesAre
  <1> QED
    BY <1>5, <1>6, <1>7, <1>8

\* Without misuse each event is in the changes once, and they are in the order of the numbers.
LEMMA ChangesIncrease ==
    ASSUME Shape, OnceOK, NEW m \in 1..Len(GetChanges), NEW n \in 1..Len(GetChanges), m < n
    PROVE  /\ Number[GetChanges[m]] <= Number[GetChanges[n]]
           /\ GetChanges[m] # GetChanges[n]
  <1>1. PICK q \in Records : q = From(m)
    BY ChangesAre
  <1>2. PICK r \in Records : r = From(n)
    BY ChangesAre
  <1>3. /\ Place(q) = m /\ GetChanges[m] = EventAt(q)
        /\ Place(r) = n /\ GetChanges[n] = EventAt(r)
    BY <1>1, <1>2, ChangesAre
  <1>4. Len(GetChanges) \in Nat
    BY ChangesAre, RecordsAre DEF Shape
  <1>5. q # r /\ ~ Before(r, q)
    BY <1>3, <1>4, PlaceFollows
  <1>6. Number[EventAt(q)] <= Number[EventAt(r)]
    BY <1>5, BeforeIs
  <1>7. EventAt(q) # EventAt(r)
    <2> SUFFICES ASSUME EventAt(q) = EventAt(r)
                 PROVE  FALSE
      OBVIOUS
    <2>1. PICK i \in 0..Len(children), j \in 0..Len(children) : i = q[1] /\ j = r[1]
      BY RecordFacts DEF Shape
    <2>2. PICK o \in Owners, p \in Owners : o = Provider(i) /\ p = Provider(j)
      BY ProviderType DEF Shape
    <2>3. /\ q[2] \in 1..Len(applied[o]) /\ r[2] \in 1..Len(applied[p])
          /\ applied[o][q[2]] = applied[p][r[2]]
      BY <2>1, <2>2, RecordFacts DEF EventAt, Shape
    <2>4. o = p /\ q[2] = r[2]
      <3>1. PICK k \in 1..Len(applied[o]), l \in 1..Len(applied[p]) : k = q[2] /\ l = r[2]
        BY <2>3
      <3>2. applied[o][k] = applied[p][l]
        BY <2>3, <3>1
      <3>3. o = p /\ k = l
        BY <3>2 DEF OnceOK
      <3> QED
        BY <3>1, <3>3
    <2>5. i = j
      <3>1. /\ i # 0 => i \in 1..Len(children) /\ o = children[i] /\ o \in Entities
            /\ j # 0 => j \in 1..Len(children) /\ p = children[j] /\ p \in Entities
            /\ i = 0 => o = Root
            /\ j = 0 => p = Root
        BY <2>2, ProviderType DEF Shape, Provider
      <3> QED
        BY <2>4, <3>1, AggregateAssumption DEF OnceOK
    <2>6. q = r
      BY <2>1, <2>4, <2>5, RecordFacts DEF Shape
    <2> QED
      BY <1>5, <2>6
  <1> QED
    BY <1>3, <1>6, <1>7
-----------------------------------------------------------------------------
(* The calls under way. *)

LEMMA EventsOfAre ==
    ASSUME NEW s
    PROVE  \A e : e \in EventsOf(s) <=> \E i \in 1..Len(s) : e \in ToSet(s[i].events)
  BY DEF EventsOf

\* The frame on top, when there is one.
LEMMA TopFacts ==
    ASSUME TypeOK, FramesOK, stack # <<>>
    PROVE  /\ Top = stack[1] /\ Top \in Frames /\ 1 \in 1..Len(stack)
           /\ Top.at # "next" => Top.events # <<>>
           /\ Top.call # "load" => Len(Top.events) = 1 /\ Top.at # "next"
           /\ Top.owner = Root \/ Contains(children, Top.owner)
           /\ Top.owner \in Owners /\ Top.events \in Seq(Events)
           /\ Top.last \in Past \cup {Null}
           /\ Tail(stack) \in Seq(Frames) /\ Len(Tail(stack)) = Len(stack) - 1
           /\ \A i \in 1..Len(Tail(stack)) : Tail(stack)[i] = stack[i + 1] /\ i + 1 \in 1..Len(stack)
  <1>1. stack \in Seq(Frames)
    BY DEF TypeOK
  <1>2. /\ Top = stack[1] /\ Top \in Frames /\ 1 \in 1..Len(stack)
        /\ Tail(stack) \in Seq(Frames) /\ Len(Tail(stack)) = Len(stack) - 1
        /\ \A i \in 1..Len(Tail(stack)) : Tail(stack)[i] = stack[i + 1] /\ i + 1 \in 1..Len(stack)
    BY <1>1, EntriesOfTail DEF Top
  <1>3. Top.owner \in Owners /\ Top.events \in Seq(Events)
    BY <1>2 DEF Frames
  <1>4. Top \in Calls
    BY <1>2 DEF FramesOK
  <1> QED
    BY <1>2, <1>3, <1>4 DEF Calls

\* Calls stay calls while versions are given and entities registered.
LEMMA CallsStay ==
    ASSUME Past \subseteq Past', \A o : Contains(children, o) => Contains(children', o)
    PROVE  Calls \subseteq Calls'
  <1> SUFFICES ASSUME NEW f \in Calls
               PROVE  f \in Calls'
    OBVIOUS
  <1>1. Contains(children, f.owner) => Contains(children, f.owner)'
    BY DEF Contains
  <1> QED
    BY <1>1 DEF Calls

\* What a call adds to those under way, and what the end of one takes away.
PushedTo(s, f, t) ==
    /\ t \in Seq(Frames)
    /\ \A i \in 1..Len(t) : t[i] = f \/ \E j \in 1..Len(s) : t[i] = s[j]
    /\ EventsOf(t) = EventsOf(s) \cup ToSet(f.events)
    /\ Apart(s) /\ ToSet(f.events) \cap EventsOf(s) = {} => Apart(t)

PoppedTo(s, t) ==
    /\ t \in Seq(Frames) /\ s[1] \in Frames
    /\ \A i \in 1..Len(t) : \E j \in 1..Len(s) : t[i] = s[j]
    /\ EventsOf(s) = EventsOf(t) \cup ToSet(s[1].events)
    /\ Apart(s) => Apart(t) /\ EventsOf(t) \cap ToSet(s[1].events) = {}
    /\ Len(s) = 1 => t = <<>>

LEMMA Pushed ==
    ASSUME NEW s \in Seq(Frames), NEW f \in Frames
    PROVE  PushedTo(s, f, <<f>> \o s)
  <1> DEFINE t == <<f>> \o s
  <1>1. <<f>> \in Seq(Frames) /\ Len(<<f>>) = 1 /\ <<f>>[1] = f
    OBVIOUS
  <1>2. /\ t \in Seq(Frames) /\ Len(t) = 1 + Len(s) /\ Len(s) \in Nat
        /\ \A i \in 1..(1 + Len(s)) : t[i] = IF i <= 1 THEN <<f>>[i] ELSE s[i - 1]
    BY <1>1, ConcatProperties
  <1> HIDE DEF t
  <1>3. t[1] = f /\ 1 \in 1..Len(t)
    BY <1>1, <1>2
  <1>4. \A i \in 1..Len(t) : i = 1 \/ (i - 1 \in 1..Len(s) /\ t[i] = s[i - 1])
    BY <1>2
  <1>5. \A i \in 1..Len(s) : i + 1 \in 1..Len(t) /\ t[i + 1] = s[i]
    BY <1>2
  <1>6. \A e : e \in EventsOf(t) <=> e \in EventsOf(s) \/ e \in ToSet(f.events)
    <2>1. ASSUME NEW e, e \in EventsOf(t)
          PROVE  e \in EventsOf(s) \/ e \in ToSet(f.events)
      <3>1. PICK i \in 1..Len(t) : e \in ToSet(t[i].events)
        BY <2>1, EventsOfAre
      <3>2. i # 1 => \E j \in 1..Len(s) : e \in ToSet(s[j].events)
        BY <1>4, <3>1
      <3>3. i # 1 => e \in EventsOf(s)
        BY <3>2, EventsOfAre
      <3> QED
        BY <1>3, <3>1, <3>3
    <2>2. ASSUME NEW e, e \in EventsOf(s) \/ e \in ToSet(f.events)
          PROVE  e \in EventsOf(t)
      <3>1. e \in EventsOf(s) => \E i \in 1..Len(s) : e \in ToSet(s[i].events)
        BY EventsOfAre
      <3>2. \E i \in 1..Len(t) : e \in ToSet(t[i].events)
        BY <1>3, <1>5, <2>2, <3>1
      <3> QED
        BY <3>2, EventsOfAre
    <2> QED
      BY <2>1, <2>2
  <1>7. ASSUME Apart(s), ToSet(f.events) \cap EventsOf(s) = {}
        PROVE  Apart(t)
    <2> SUFFICES ASSUME NEW i \in 1..Len(t), NEW j \in 1..Len(t), i # j
                 PROVE  ToSet(t[i].events) \cap ToSet(t[j].events) = {}
      BY DEF Apart
    <2>1. \A k \in 1..Len(s) : ToSet(f.events) \cap ToSet(s[k].events) = {}
      BY <1>7, EventsOfAre
    <2>2. CASE i = 1
      BY <1>3, <1>4, <2>1, <2>2
    <2>3. CASE j = 1
      BY <1>3, <1>4, <2>1, <2>3
    <2>4. CASE i # 1 /\ j # 1
      <3>1. PICK k \in 1..Len(s), l \in 1..Len(s) : k = i - 1 /\ l = j - 1
        BY <1>4, <2>4
      <3>2. t[i] = s[k] /\ t[j] = s[l] /\ k # l
        BY <1>4, <2>4, <3>1
      <3> QED
        BY <1>7, <3>2 DEF Apart
    <2> QED
      BY <2>2, <2>3, <2>4
  <1>8. PushedTo(s, f, t)
    BY <1>2, <1>3, <1>4, <1>6, <1>7 DEF PushedTo
  <1> QED
    BY <1>8 DEF t

LEMMA Popped ==
    ASSUME NEW s \in Seq(Frames), s # <<>>
    PROVE  PoppedTo(s, Tail(s))
  <1> DEFINE t == Tail(s)
  <1>1. /\ t \in Seq(Frames) /\ Len(t) = Len(s) - 1 /\ Len(s) \in Nat
        /\ \A i \in 1..Len(t) : t[i] = s[i + 1] /\ i + 1 \in 1..Len(s)
        /\ 1 \in 1..Len(s)
    BY EntriesOfTail
  <1> HIDE DEF t
  <1>2. \A i \in 1..Len(s) : i = 1 \/ (i - 1 \in 1..Len(t) /\ s[i] = t[i - 1])
    <2> TAKE i \in 1..Len(s)
    <2>1. i # 1 => i - 1 \in 1..Len(t) /\ (i - 1) + 1 = i
      BY <1>1
    <2> QED
      BY <1>1, <2>1
  <1>3. \A e : e \in EventsOf(s) <=> e \in EventsOf(t) \/ e \in ToSet(s[1].events)
    <2>1. ASSUME NEW e, e \in EventsOf(s)
          PROVE  e \in EventsOf(t) \/ e \in ToSet(s[1].events)
      <3>1. PICK i \in 1..Len(s) : e \in ToSet(s[i].events)
        BY <2>1, EventsOfAre
      <3>2. i # 1 => \E j \in 1..Len(t) : e \in ToSet(t[j].events)
        BY <1>2, <3>1
      <3>3. i # 1 => e \in EventsOf(t)
        BY <3>2, EventsOfAre
      <3> QED
        BY <3>1, <3>3
    <2>2. ASSUME NEW e, e \in EventsOf(t) \/ e \in ToSet(s[1].events)
          PROVE  e \in EventsOf(s)
      <3>1. e \in EventsOf(t) => \E i \in 1..Len(t) : e \in ToSet(t[i].events)
        BY EventsOfAre
      <3>2. \E i \in 1..Len(s) : e \in ToSet(s[i].events)
        BY <1>1, <2>2, <3>1
      <3> QED
        BY <3>2, EventsOfAre
    <2> QED
      BY <2>1, <2>2
  <1>4. ASSUME Apart(s)
        PROVE  Apart(t) /\ EventsOf(t) \cap ToSet(s[1].events) = {}
    <2>1. ASSUME NEW i \in 1..Len(t), NEW j \in 1..Len(t), i # j
          PROVE  ToSet(t[i].events) \cap ToSet(t[j].events) = {}
      <3>1. PICK k \in 1..Len(s), l \in 1..Len(s) : k = i + 1 /\ l = j + 1
        BY <1>1
      <3>2. t[i] = s[k] /\ t[j] = s[l] /\ k # l
        BY <1>1, <2>1, <3>1
      <3> QED
        BY <1>4, <3>2 DEF Apart
    <2>2. ASSUME NEW i \in 1..Len(t)
          PROVE  ToSet(t[i].events) \cap ToSet(s[1].events) = {}
      <3>1. PICK k \in 1..Len(s) : k = i + 1 /\ k # 1
        BY <1>1
      <3>2. t[i] = s[k]
        BY <1>1, <3>1
      <3> QED
        BY <1>1, <1>4, <3>1, <3>2 DEF Apart
    <2>3. EventsOf(t) \cap ToSet(s[1].events) = {}
      BY <2>2, EventsOfAre
    <2> QED
      BY <2>1, <2>3 DEF Apart
  <1>5. Len(s) = 1 => t = <<>>
    BY <1>1
  <1>6. s[1] \in Frames
    BY <1>1
  <1>7. PoppedTo(s, t)
    BY <1>1, <1>3, <1>4, <1>5, <1>6 DEF PoppedTo
  <1> QED
    BY <1>7 DEF t

LEMMA PushCalls ==
    ASSUME TypeOK, FramesOK, NEW f \in Frames, stack' = <<f>> \o stack
    PROVE  /\ stack' \in Seq(Frames)
           /\ Calls \subseteq Calls' /\ f \in Calls' => FramesOK'
           /\ Going' = Going \cup ToSet(f.events)
           /\ Apart(stack) /\ ToSet(f.events) \cap Going = {} => Apart(stack')
           /\ NoLoad /\ f.call # "load" => NoLoad'
  <1>s. PICK s \in Seq(Frames) : s = stack
    BY DEF TypeOK
  <1>t. PICK t : t = stack'
    OBVIOUS
  <1>1. s = stack /\ t = stack'
    BY <1>s, <1>t
  <1>2. /\ t \in Seq(Frames)
        /\ \A i \in 1..Len(t) : t[i] = f \/ \E j \in 1..Len(s) : t[i] = s[j]
        /\ EventsOf(t) = EventsOf(s) \cup ToSet(f.events)
        /\ Apart(s) /\ ToSet(f.events) \cap EventsOf(s) = {} => Apart(t)
    <2>1. PushedTo(s, f, t)
      BY <1>1, Pushed
    <2> QED
      BY <2>1 DEF PushedTo
  <1>3. Going' = EventsOf(stack') /\ Going = EventsOf(stack)
    BY DEF Going, EventsOf, ToSet
  <1>4. FramesOK' <=> \A i \in 1..Len(t) : t[i] \in Calls'
    BY <1>1 DEF FramesOK
  <1>5. NoLoad' <=> \A i \in 1..Len(t) : t[i].call # "load"
    BY <1>1 DEF NoLoad
  <1>6. Calls \subseteq Calls' /\ f \in Calls' => FramesOK'
    BY <1>1, <1>2, <1>4 DEF FramesOK
  <1>7. NoLoad /\ f.call # "load" => NoLoad'
    BY <1>1, <1>2, <1>5 DEF NoLoad
  <1> QED
    BY <1>1, <1>2, <1>3, <1>6, <1>7

LEMMA PopCalls ==
    ASSUME TypeOK, FramesOK, stack # <<>>, stack' = Tail(stack)
    PROVE  /\ stack' \in Seq(Frames)
           /\ Calls \subseteq Calls' => FramesOK'
           /\ Going = Going' \cup ToSet(Top.events)
           /\ Apart(stack) => Apart(stack') /\ Going' = Going \ ToSet(Top.events)
           /\ NoLoad => NoLoad'
           /\ Len(stack) = 1 => stack' = <<>>
  <1>s. PICK s \in Seq(Frames) : s = stack
    BY DEF TypeOK
  <1>t. PICK t : t = stack'
    OBVIOUS
  <1>1. s = stack /\ t = stack'
    BY <1>s, <1>t
  <1>2. /\ t \in Seq(Frames)
        /\ \A i \in 1..Len(t) : \E j \in 1..Len(s) : t[i] = s[j]
        /\ EventsOf(s) = EventsOf(t) \cup ToSet(s[1].events)
        /\ Apart(s) => Apart(t) /\ EventsOf(t) \cap ToSet(s[1].events) = {}
        /\ Len(s) = 1 => t = <<>>
    <2>1. PoppedTo(s, t)
      BY <1>1, Popped
    <2> QED
      BY <2>1 DEF PoppedTo
  <1>3. Going' = EventsOf(stack') /\ Going = EventsOf(stack) /\ Top = s[1]
    BY <1>1, TopFacts DEF Going, EventsOf, ToSet
  <1>4. FramesOK' <=> \A i \in 1..Len(t) : t[i] \in Calls'
    BY <1>1 DEF FramesOK
  <1>5. NoLoad' <=> \A i \in 1..Len(t) : t[i].call # "load"
    BY <1>1 DEF NoLoad
  <1>6. Calls \subseteq Calls' => FramesOK'
    BY <1>1, <1>2, <1>4 DEF FramesOK
  <1>7. NoLoad => NoLoad'
    BY <1>1, <1>2, <1>5 DEF NoLoad
  <1> QED
    BY <1>1, <1>2, <1>3, <1>6, <1>7

LEMMA GotoCalls ==
    ASSUME TypeOK, FramesOK, stack # <<>>, NEW f \in Frames, Goto(f),
           ToSet(f.events) \subseteq ToSet(Top.events)
    PROVE  /\ stack' \in Seq(Frames)
           /\ Calls \subseteq Calls' /\ f \in Calls' => FramesOK'
           /\ Going' \subseteq Going
           /\ ToSet(f.events) = ToSet(Top.events) => Going' = Going
           /\ Apart(stack) => Apart(stack')
           /\ NoLoad /\ f.call # "load" => NoLoad'
           /\ Len(stack) = 1 => stack' = <<f>>
  <1>s. PICK s \in Seq(Frames), u \in Seq(Frames) : s = stack /\ u = Tail(stack)
    BY TopFacts DEF TypeOK
  <1>t. PICK t : t = stack'
    OBVIOUS
  <1>1. s = stack /\ u = Tail(stack) /\ t = stack'
    BY <1>s, <1>t
  <1>2. /\ u = Tail(s) /\ s # <<>> /\ t = <<f>> \o u
    BY <1>1 DEF Goto
  <1>3. /\ s[1] \in Frames
        /\ \A i \in 1..Len(u) : \E j \in 1..Len(s) : u[i] = s[j]
        /\ EventsOf(s) = EventsOf(u) \cup ToSet(s[1].events)
        /\ Apart(s) => Apart(u) /\ EventsOf(u) \cap ToSet(s[1].events) = {}
        /\ Len(s) = 1 => u = <<>>
    <2>1. PoppedTo(s, u)
      BY <1>2, Popped
    <2> QED
      BY <2>1 DEF PoppedTo
  <1>4. /\ t \in Seq(Frames)
        /\ \A i \in 1..Len(t) : t[i] = f \/ \E j \in 1..Len(u) : t[i] = u[j]
        /\ EventsOf(t) = EventsOf(u) \cup ToSet(f.events)
        /\ Apart(u) /\ ToSet(f.events) \cap EventsOf(u) = {} => Apart(t)
    <2>1. PushedTo(u, f, t)
      BY <1>2, Pushed
    <2> QED
      BY <2>1 DEF PushedTo
  <1>5. Going' = EventsOf(stack') /\ Going = EventsOf(stack) /\ Top = s[1]
    BY <1>1, TopFacts DEF Going, EventsOf, ToSet
  <1>6. FramesOK' <=> \A i \in 1..Len(t) : t[i] \in Calls'
    BY <1>1 DEF FramesOK
  <1>7. NoLoad' <=> \A i \in 1..Len(t) : t[i].call # "load"
    BY <1>1 DEF NoLoad
  <1>8. \A i \in 1..Len(t) : t[i] = f \/ \E j \in 1..Len(s) : t[i] = s[j]
    BY <1>3, <1>4
  <1>9. Calls \subseteq Calls' /\ f \in Calls' => FramesOK'
    BY <1>1, <1>6, <1>8 DEF FramesOK
  <1>10. NoLoad /\ f.call # "load" => NoLoad'
    BY <1>1, <1>7, <1>8 DEF NoLoad
  <1>11. Apart(s) => Apart(t)
    BY <1>3, <1>4, <1>5
  <1>12. Len(s) = 1 => t = <<f>>
    <2>1. <<f>> \in Seq(Frames) /\ <<f>> \o <<>> = <<f>>
      BY ConcatEmptySeq
    <2> QED
      BY <1>2, <1>3, <2>1
  <1> QED
    BY <1>1, <1>3, <1>4, <1>5, <1>9, <1>10, <1>11, <1>12
-----------------------------------------------------------------------------
(* Shape. *)

LEMMA SameVersions ==
    ASSUME UNCHANGED <<current, versionOf, order>>
    PROVE  /\ Past' = Past /\ Number' = Number /\ Count' = Count
           /\ VersionsOK => VersionsOK'
  <1>1. Past' = Past /\ Number' = Number /\ Count' = Count
    BY DEF Past, ToSet, Number, Count
  <1> QED
    BY <1>1 DEF VersionsOK

\* A step that gives no version and takes none of the entities away.
LEMMA ShapeStep ==
    ASSUME Shape, UNCHANGED <<current, versionOf, order>>,
           version' \in Version, applied' \in [Owners -> Seq(Events)], children' \in Seq(Entities),
           registered' \in [Owners -> SUBSET Types], bus' \in BOOLEAN, stack' \in Seq(Frames),
           stored' \in Seq(Events), restarts' \in 0..MaxRestarts, state' \in Seq(Events),
           loaded' \in BOOLEAN, misuse' \in BOOLEAN,
           FramesOK', ProvidersOK',
           Kept' \cup Recorded' \cup Going' \cup Seen' \cup failed' \subseteq Past
    PROVE  Shape'
  <1>1. Past' = Past /\ VersionsOK'
    BY SameVersions DEF Shape
  <1>2. Past \subseteq Events
    BY EntriesAre DEF Shape, TypeOK, Past
  <1>3. TypeOK'
    BY <1>2 DEF Shape, TypeOK
  <1>4. PastOK'
    BY <1>1 DEF PastOK
  <1> QED
    BY <1>1, <1>3, <1>4 DEF Shape

LEMMA RecordedAre ==
    ASSUME TypeOK
    PROVE  /\ \A e : e \in Recorded <=> \E o \in Owners : \E i \in 1..Len(applied[o]) : applied[o][i] = e
           /\ \A o \in Owners : applied[o] \in Seq(Events)
  <1>1. \A o \in Owners : applied[o] \in Seq(Events)
    BY DEF TypeOK
  <1>2. \A o \in Owners : \A e : e \in ToSet(applied[o]) <=> \E i \in 1..Len(applied[o]) : applied[o][i] = e
    BY <1>1, EntriesAre
  <1>3. \A e : e \in Recorded <=> \E o \in Owners : e \in ToSet(applied[o])
    BY DEF Recorded
  <1>4. \A e : (\E o \in Owners : e \in ToSet(applied[o]))
               <=> \E o \in Owners : \E i \in 1..Len(applied[o]) : applied[o][i] = e
    BY <1>2
  <1> QED
    BY <1>1, <1>3, <1>4

LEMMA RecordedGrows ==
    ASSUME TypeOK, NEW o \in Owners, NEW e \in Events,
           applied' = [applied EXCEPT ![o] = Append(@, e)]
    PROVE  Recorded' = Recorded \cup {e} /\ applied' \in [Owners -> Seq(Events)]
  <1>1. /\ applied'[o] = Append(applied[o], e)
        /\ \A q \in Owners \ {o} : applied'[q] = applied[q]
        /\ applied[o] \in Seq(Events)
        /\ applied' \in [Owners -> Seq(Events)]
    BY DEF TypeOK
  <1>2. ToSet(applied'[o]) = ToSet(applied[o]) \cup {e}
    BY <1>1, EntriesOfAppend
  <1>3. Recorded' = UNION {ToSet(applied'[q]) : q \in Owners}
    BY DEF Recorded, ToSet
  <1>4. \A x : x \in Recorded' <=> \E q \in Owners : x \in ToSet(applied'[q])
    BY <1>3
  <1>5. \A x : x \in Recorded <=> \E q \in Owners : x \in ToSet(applied[q])
    BY DEF Recorded
  <1>6. \A q \in Owners \ {o} : ToSet(applied'[q]) = ToSet(applied[q])
    BY <1>1
  <1>7. \A x : (\E q \in Owners : x \in ToSet(applied'[q]))
               <=> x = e \/ \E q \in Owners : x \in ToSet(applied[q])
    BY <1>2, <1>6
  <1>8. \A x : x \in Recorded' <=> x = e \/ x \in Recorded
    BY <1>4, <1>5, <1>7
  <1> QED
    BY <1>1, <1>8

\* What the lemmas about a step need of the parts that it leaves alone.
LEMMA TypesOf ==
    ASSUME Shape
    PROVE  /\ version \in Version /\ current \in Version /\ applied \in [Owners -> Seq(Events)]
           /\ children \in Seq(Entities) /\ registered \in [Owners -> SUBSET Types]
           /\ bus \in BOOLEAN /\ stack \in Seq(Frames) /\ versionOf \in [Events -> Version]
           /\ stored \in Seq(Events) /\ restarts \in 0..MaxRestarts
           /\ order \in Seq(Events) /\ state \in Seq(Events) /\ failed \subseteq Events
           /\ loaded \in BOOLEAN /\ misuse \in BOOLEAN
           /\ TypeOK /\ FramesOK /\ ProvidersOK /\ VersionsOK /\ PastOK
           /\ Kept \subseteq Past /\ Recorded \subseteq Past /\ Going \subseteq Past
           /\ Seen \subseteq Past /\ failed \subseteq Past
  BY DEF Shape, TypeOK, PastOK

LEMMA SameSets ==
    /\ UNCHANGED stored => Kept' = Kept
    /\ UNCHANGED applied => Recorded' = Recorded
    /\ UNCHANGED stack => Going' = Going
    /\ UNCHANGED state => Seen' = Seen
    /\ UNCHANGED order => Past' = Past
  BY DEF Kept, Recorded, Going, EventsOf, Seen, Past, ToSet

LEMMA SameProviders ==
    ASSUME ProvidersOK, UNCHANGED <<applied, children>>
    PROVE  ProvidersOK'
  BY DEF ProvidersOK, Contains

LEMMA SameCalls ==
    ASSUME UNCHANGED <<children, order>>
    PROVE  Calls' = Calls /\ (FramesOK /\ UNCHANGED stack => FramesOK')
  <1>1. Past' = Past /\ \A o : Contains(children, o)' <=> Contains(children, o)
    BY DEF Past, ToSet, Contains
  <1>2. Calls' = Calls
    BY <1>1 DEF Calls
  <1> QED
    BY <1>2 DEF FramesOK

\* A registration, of an event type or of the bus.
LEMMA QuietShape ==
    ASSUME Shape, registered' \in [Owners -> SUBSET Types], bus' \in BOOLEAN,
           UNCHANGED <<version, current, applied, children, stack, versionOf, stored, restarts,
                       order, state, failed, loaded, misuse>>
    PROVE  Shape'
  <1>1. FramesOK' /\ ProvidersOK'
    BY TypesOf, SameCalls, SameProviders
  <1>2. Kept' \cup Recorded' \cup Going' \cup Seen' \cup failed' \subseteq Past
    BY TypesOf, SameSets
  <1> QED
    BY <1>1, <1>2, TypesOf, ShapeStep

LEMMA RegisterEventTypes ==
    ASSUME Shape, NEW o \in Owners, NEW type \in Types, RegisterEvent(o, type)
    PROVE  /\ registered' \in [Owners -> SUBSET Types]
           /\ \A q \in Owners : registered[q] \subseteq registered'[q]
  BY TypesOf DEF RegisterEvent

LEMMA RegisterChildShape ==
    ASSUME Shape, NEW n \in Entities, RegisterChildEventProvider(n)
    PROVE  Shape'
  <1>1. /\ children' = Append(children, n) /\ misuse' = (misuse \/ Contains(children, n))
        /\ UNCHANGED <<version, current, applied, registered, bus>>
        /\ UNCHANGED <<stack, versionOf, stored, restarts, order, state, failed, loaded>>
    BY DEF RegisterChildEventProvider
  <1>2. /\ children' \in Seq(Entities) /\ Len(children') = Len(children) + 1 /\ Len(children) \in Nat
        /\ \A i \in 1..Len(children) : children'[i] = children[i]
    BY <1>1, TypesOf, AppendProperties
  <1>3. \A o : Contains(children, o) => Contains(children', o)
    BY <1>2 DEF Contains
  <1>4. Past' = Past
    BY <1>1, SameSets
  <1>5. FramesOK'
    <2>1. Calls \subseteq Calls'
      BY <1>3, <1>4, CallsStay
    <2> QED
      BY <1>1, <2>1, TypesOf DEF FramesOK
  <1>6. ProvidersOK'
    <2>1. \A o : Contains(children, o) => Contains(children, o)'
      BY <1>3 DEF Contains
    <2> QED
      BY <1>1, <2>1, TypesOf DEF ProvidersOK
  <1>7. Kept' \cup Recorded' \cup Going' \cup Seen' \cup failed' \subseteq Past
    BY <1>1, TypesOf, SameSets
  <1>8. misuse' \in BOOLEAN
    BY <1>1, TypesOf DEF Contains
  <1> QED
    BY <1>1, <1>2, <1>5, <1>6, <1>7, <1>8, TypesOf, ShapeStep

\* The call on top, when client code runs in it, and the event it has.
LEMMA CallFacts ==
    ASSUME Shape, NEW f, f = Top, At("handler") \/ At("subscribers")
    PROVE  /\ stack # <<>> /\ f \in Frames /\ f \in Calls /\ f.events \in Seq(Events) /\ f.events # <<>>
           /\ Head(f.events) \in Events /\ Head(f.events) \in Past /\ Head(f.events) \in Going
           /\ ToSet(f.events) \subseteq Going
           /\ ToSet(f.events) = {Head(f.events)} \cup ToSet(Tail(f.events))
           /\ Tail(f.events) \in Seq(Events)
           /\ f.call # "load" => ToSet(f.events) = {Head(f.events)}
           /\ f.owner \in Owners /\ (f.owner = Root \/ Contains(children, f.owner))
  <1>1. stack # <<>> /\ f.at # "next"
    BY DEF At
  <1>2. /\ f \in Frames /\ f \in Calls /\ f.events \in Seq(Events) /\ f.events # <<>>
        /\ f = stack[1] /\ 1 \in 1..Len(stack)
        /\ f.owner \in Owners /\ (f.owner = Root \/ Contains(children, f.owner))
        /\ f.call # "load" => Len(f.events) = 1
    BY <1>1, TypesOf, TopFacts DEF FramesOK
  <1>3. /\ ToSet(f.events) = {Head(f.events)} \cup ToSet(Tail(f.events))
        /\ Head(f.events) \in Events /\ Tail(f.events) \in Seq(Events)
        /\ Len(Tail(f.events)) = Len(f.events) - 1
    BY <1>2, EntriesOfTail
  <1>4. ToSet(f.events) \subseteq Going
    BY <1>2, EventsOfAre DEF Going
  <1>5. f.call # "load" => ToSet(f.events) = {Head(f.events)}
    <2>1. \A s \in Seq(Events) : Len(s) = 0 => s = <<>>
      OBVIOUS
    <2>2. f.call # "load" => Tail(f.events) = <<>>
      <3>1. f.call # "load" => Len(Tail(f.events)) = 0
        BY <1>2, <1>3
      <3> QED
        BY <1>3, <2>1, <3>1
    <2> QED
      BY <1>3, <2>2, EntriesOfOne
  <1>6. Head(f.events) \in Going /\ Head(f.events) \in Past
    BY <1>3, <1>4, TypesOf
  <1> QED
    BY <1>1, <1>2, <1>3, <1>4, <1>5, <1>6

\* Publication of the event of a call to the subscribers.
LEMMA PublishShape ==
    ASSUME Shape, NEW f, f = Top, At("handler"), Goto([f EXCEPT !.at = "subscribers"]),
           UNCHANGED <<version, current, applied, children, registered, bus>>,
           UNCHANGED <<versionOf, stored, restarts, order, state, failed, loaded, misuse>>
    PROVE  Shape' /\ Going' = Going /\ (Apart(stack) => Apart(stack'))
           /\ (NoLoad => NoLoad')
           /\ (Len(stack) = 1 => stack' = <<[f EXCEPT !.at = "subscribers"]>>)
  <1> DEFINE g == [f EXCEPT !.at = "subscribers"]
  <1>1. /\ stack # <<>> /\ f \in Frames /\ f \in Calls
    BY CallFacts
  <1>2. /\ g \in Frames /\ g.events = f.events /\ g.call = f.call /\ g.owner = f.owner
        /\ g.last = f.last /\ g.at = "subscribers"
    BY <1>1 DEF Frames
  <1>3. g \in Calls
    BY <1>1, <1>2, CallFacts DEF Calls
  <1> HIDE DEF g
  <1>4. Calls' = Calls
    BY SameCalls
  <1>5. NoLoad => g.call # "load"
    BY <1>1, <1>2, TopFacts, TypesOf DEF NoLoad
  <1>6. /\ stack' \in Seq(Frames) /\ FramesOK' /\ Going' = Going
        /\ Apart(stack) => Apart(stack')
        /\ NoLoad => NoLoad'
        /\ Len(stack) = 1 => stack' = <<g>>
    BY <1>1, <1>2, <1>3, <1>4, <1>5, TypesOf, GotoCalls DEF g
  <1>7. ProvidersOK'
    BY TypesOf, SameProviders
  <1>8. Kept' \cup Recorded' \cup Going' \cup Seen' \cup failed' \subseteq Past
    BY <1>6, TypesOf, SameSets
  <1>9. Shape'
    BY <1>6, <1>7, <1>8, TypesOf, ShapeStep
  <1> QED
    BY <1>6, <1>9 DEF g

\* The end of an apply.
LEMMA RecordShape ==
    ASSUME Shape, NEW f, f = Top, At("handler") \/ At("subscribers"), f.call # "load", Finish(f),
           UNCHANGED <<version, current, children, registered, bus>>,
           UNCHANGED <<versionOf, stored, restarts, order, state, failed, loaded, misuse>>
    PROVE  /\ Shape' /\ Recorded' = Recorded \cup {Head(f.events)}
           /\ Apart(stack) => Apart(stack') /\ Going' = Going \ {Head(f.events)}
           /\ Going = Going' \cup {Head(f.events)}
           /\ NoLoad => NoLoad'
           /\ applied' = [applied EXCEPT ![f.owner] = Append(@, Head(f.events))]
  <1>1. /\ stack # <<>> /\ f \in Frames /\ f \in Calls /\ f.owner \in Owners
        /\ Head(f.events) \in Events /\ Head(f.events) \in Past
        /\ ToSet(f.events) = {Head(f.events)}
        /\ f.owner = Root \/ Contains(children, f.owner)
    BY CallFacts
  <1>2. /\ stack' = Tail(stack)
        /\ applied' = [applied EXCEPT ![f.owner] = Append(@, Head(f.events))]
    BY DEF Finish
  <1>3. Calls' = Calls
    BY SameCalls
  <1>4. /\ stack' \in Seq(Frames) /\ FramesOK' /\ (NoLoad => NoLoad')
        /\ Apart(stack) => Apart(stack') /\ Going' = Going \ {Head(f.events)}
        /\ Going = Going' \cup {Head(f.events)}
    BY <1>1, <1>2, <1>3, TypesOf, PopCalls
  <1>5. PICK o \in Owners, e \in Events : o = f.owner /\ e = Head(f.events)
    BY <1>1
  <1>6. applied' = [applied EXCEPT ![o] = Append(@, e)]
    BY <1>2, <1>5
  <1>7. Recorded' = Recorded \cup {e} /\ applied' \in [Owners -> Seq(Events)]
    BY <1>6, TypesOf, RecordedGrows
  <1>8. ProvidersOK'
    <2>1. \A q \in Owners \ {o} : applied'[q] = applied[q]
      BY <1>6, TypesOf
    <2>2. \A q : Contains(children, q)' <=> Contains(children, q)
      BY DEF Contains
    <2> QED
      BY <1>1, <1>5, <2>1, <2>2, TypesOf DEF ProvidersOK
  <1>9. Kept' \cup Recorded' \cup Going' \cup Seen' \cup failed' \subseteq Past
    BY <1>1, <1>4, <1>5, <1>7, TypesOf, SameSets
  <1>10. Shape'
    BY <1>4, <1>7, <1>8, <1>9, TypesOf, ShapeStep
  <1> QED
    BY <1>2, <1>4, <1>5, <1>7, <1>10

\* The end of an event that is loaded.
LEMMA LoadTurnShape ==
    ASSUME Shape, NEW f, f = Top, At("handler") \/ At("subscribers"), f.call = "load", Finish(f),
           UNCHANGED <<version, current, children, registered, bus>>,
           UNCHANGED <<versionOf, stored, restarts, order, state, failed, loaded, misuse>>
    PROVE  /\ Shape' /\ Going' \subseteq Going /\ UNCHANGED applied
           /\ Apart(stack) => Apart(stack')
           /\ Len(stack) = 1 =>
                  stack' = <<[f EXCEPT !.events = Tail(@), !.last = Head(f.events), !.at = "next"]>>
  <1> DEFINE g == [f EXCEPT !.events = Tail(@), !.last = Head(f.events), !.at = "next"]
  <1>1. /\ stack # <<>> /\ f \in Frames /\ f \in Calls
        /\ Head(f.events) \in Events /\ Head(f.events) \in Past
        /\ ToSet(f.events) = {Head(f.events)} \cup ToSet(Tail(f.events))
        /\ Tail(f.events) \in Seq(Events)
    BY CallFacts
  <1>2. Goto(g) /\ UNCHANGED applied
    BY DEF Finish
  <1>3. /\ g \in Frames /\ g.events = Tail(f.events) /\ g.call = "load" /\ g.owner = f.owner
        /\ g.last = Head(f.events) /\ g.at = "next"
    BY <1>1 DEF Frames
  <1>4. g \in Calls
    BY <1>1, <1>3 DEF Calls
  <1> HIDE DEF g
  <1>5. Calls' = Calls
    BY SameCalls
  <1>6. /\ stack' \in Seq(Frames) /\ FramesOK' /\ Going' \subseteq Going
        /\ Apart(stack) => Apart(stack')
        /\ Len(stack) = 1 => stack' = <<g>>
    BY <1>1, <1>2, <1>3, <1>4, <1>5, TypesOf, GotoCalls
  <1>7. ProvidersOK'
    BY <1>2, TypesOf, SameProviders
  <1>8. Kept' \cup Recorded' \cup Going' \cup Seen' \cup failed' \subseteq Past
    BY <1>2, <1>6, TypesOf, SameSets
  <1>9. Shape'
    BY <1>2, <1>6, <1>7, <1>8, TypesOf, ShapeStep
  <1> QED
    BY <1>2, <1>6, <1>9 DEF g

\* A call ends with an exception of a handler or a subscriber.
LEMMA ThrowShape ==
    ASSUME Shape, NEW f, f = Top, ClientThrows
    PROVE  /\ Shape' /\ Going = Going' \cup ToSet(f.events)
           /\ Apart(stack) => Apart(stack') /\ Going' = Going \ ToSet(f.events)
           /\ NoLoad => NoLoad'
           /\ Len(stack) = 1 => stack' = <<>>
  <1>1. /\ At("handler") \/ At("subscribers")
        /\ stack' = Tail(stack)
        /\ failed' = IF f.call = "load" THEN failed ELSE failed \cup {Head(f.events)}
        /\ UNCHANGED <<version, current, applied, children, registered, bus>>
        /\ UNCHANGED <<versionOf, stored, restarts, order, state, loaded, misuse>>
    BY DEF ClientThrows, object
  <1>2. stack # <<>> /\ Head(f.events) \in Past
    BY <1>1, CallFacts
  <1>3. Calls' = Calls
    BY <1>1, SameCalls
  <1>4. /\ stack' \in Seq(Frames) /\ FramesOK' /\ (NoLoad => NoLoad')
        /\ Going = Going' \cup ToSet(f.events)
        /\ Apart(stack) => Apart(stack') /\ Going' = Going \ ToSet(f.events)
        /\ Len(stack) = 1 => stack' = <<>>
    BY <1>1, <1>2, <1>3, TypesOf, PopCalls
  <1>5. ProvidersOK'
    BY <1>1, TypesOf, SameProviders
  <1>6. Kept' \cup Recorded' \cup Going' \cup Seen' \cup failed' \subseteq Past
    BY <1>1, <1>2, <1>4, TypesOf, SameSets
  <1>7. Shape'
    BY <1>1, <1>4, <1>5, <1>6, TypesOf, ShapeStep
  <1> QED
    BY <1>4, <1>7

\* The call on top, when it is a loadFromHistory between two events.
LEMMA LoadFacts ==
    ASSUME Shape, NEW f, f = Top, At("next")
    PROVE  /\ stack # <<>> /\ f \in Frames /\ f \in Calls /\ f.call = "load" /\ f.at = "next"
           /\ f = stack[1] /\ f.events \in Seq(Events) /\ ToSet(f.events) \subseteq Going
           /\ f.last \in Past \cup {Null}
  <1>1. stack # <<>> /\ f.at = "next"
    BY DEF At
  <1>2. /\ f \in Frames /\ f \in Calls /\ f.events \in Seq(Events) /\ f.call = "load"
        /\ f = stack[1] /\ 1 \in 1..Len(stack) /\ f.last \in Past \cup {Null}
    BY <1>1, TypesOf, TopFacts DEF FramesOK
  <1>3. ToSet(f.events) \subseteq Going
    BY <1>2, EventsOfAre DEF Going
  <1> QED
    BY <1>1, <1>2, <1>3

LEMMA LoadNextShape ==
    ASSUME Shape, NEW f, f = Top, LoadNext
    PROVE  /\ Shape' /\ Going' \subseteq Going
           /\ Apart(stack) => Apart(stack')
           /\ Len(stack) = 1 =>
                  \/ stack' = <<>> /\ state' = state
                  \/ /\ stack' = <<[f EXCEPT !.at = "handler"]>>
                     /\ state' = Append(state, Head(f.events))
                     /\ TypeOf[Head(f.events)] \in registered[Root]
  <1> DEFINE e == Head(f.events)
             g == [f EXCEPT !.at = "handler"]
  <1>1. /\ At("next") /\ f.events # <<>>
        /\ IF TypeOf[e] \in registered[Root]
           THEN Goto(g) /\ state' = Append(state, e)
           ELSE stack' = Tail(stack) /\ UNCHANGED state
        /\ UNCHANGED <<version, current, applied, children, registered, bus>>
        /\ UNCHANGED <<versionOf, stored, restarts, order, failed, loaded, misuse>>
    BY DEF LoadNext, object
  <1>2. /\ stack # <<>> /\ f \in Frames /\ f \in Calls /\ f.events \in Seq(Events)
        /\ ToSet(f.events) \subseteq Going
    BY <1>1, LoadFacts
  <1>3. e \in Events /\ e \in Past
    <2>1. e \in Events /\ e \in ToSet(f.events)
      <3>1. Head(f.events) \in Events /\ Head(f.events) \in ToSet(f.events)
        <4>1. \A s \in Seq(Events) : s # <<>> => Head(s) \in Events /\ Head(s) \in ToSet(s)
          BY EntriesOfTail
        <4> QED
          BY <1>1, <1>2, <4>1, Zenon
      <3> QED
        BY <3>1
    <2> QED
      BY <1>2, <2>1, TypesOf
  <1>4. /\ g \in Frames /\ g.events = f.events /\ g.call = f.call /\ g.owner = f.owner
        /\ g.last = f.last /\ g.at = "handler"
    BY <1>2 DEF Frames
  <1>5. g \in Calls
    BY <1>1, <1>2, <1>4 DEF Calls
  <1> HIDE DEF e, g
  <1>6. Calls' = Calls
    BY <1>1, SameCalls
  <1>7. /\ stack' \in Seq(Frames) /\ FramesOK' /\ Going' \subseteq Going
        /\ Apart(stack) => Apart(stack')
        /\ Len(stack) = 1 => stack' = <<g>> \/ stack' = <<>>
    <2>1. CASE TypeOf[e] \in registered[Root]
      BY <1>1, <1>2, <1>4, <1>5, <1>6, <2>1, TypesOf, GotoCalls
    <2>2. CASE TypeOf[e] \notin registered[Root]
      <3>1. stack' = Tail(stack)
        BY <1>1, <2>2
      <3> QED
        BY <1>2, <1>6, <3>1, TypesOf, PopCalls
    <2> QED
      BY <2>1, <2>2
  <1>8. Len(stack) = 1 =>
            \/ stack' = <<>> /\ state' = state
            \/ stack' = <<g>> /\ state' = Append(state, e) /\ TypeOf[e] \in registered[Root]
    <2>1. CASE TypeOf[e] \in registered[Root]
      BY <1>1, <1>2, <1>4, <1>5, <1>6, <2>1, TypesOf, GotoCalls
    <2>2. CASE TypeOf[e] \notin registered[Root]
      <3>1. stack' = Tail(stack) /\ state' = state
        BY <1>1, <2>2
      <3> QED
        BY <1>2, <1>6, <3>1, TypesOf, PopCalls
    <2> QED
      BY <2>1, <2>2
  <1>9. state' \in Seq(Events) /\ Seen' \subseteq Past
    <2>1. Append(state, e) \in Seq(Events) /\ ToSet(Append(state, e)) = Seen \cup {e}
      BY <1>3, TypesOf, EntriesOfAppend DEF Seen
    <2>2. Seen' = ToSet(state')
      BY DEF Seen, ToSet
    <2> QED
      BY <1>1, <1>3, <2>1, <2>2, TypesOf DEF Seen
  <1>10. ProvidersOK'
    BY <1>1, TypesOf, SameProviders
  <1>11. Kept' \cup Recorded' \cup Going' \cup Seen' \cup failed' \subseteq Past
    BY <1>1, <1>7, <1>9, TypesOf, SameSets
  <1>12. Shape'
    BY <1>1, <1>7, <1>9, <1>10, <1>11, TypesOf, ShapeStep
  <1> QED
    BY <1>7, <1>8, <1>12 DEF e, g

\* A step that gives no version to an event, but may set the version of the object.
LEMMA ShapeStepCount ==
    ASSUME Shape, UNCHANGED <<versionOf, order>>,
           current' \in Version, Count' \in 0..Len(order),
           version' \in Version, applied' \in [Owners -> Seq(Events)], children' \in Seq(Entities),
           registered' \in [Owners -> SUBSET Types], bus' \in BOOLEAN, stack' \in Seq(Frames),
           stored' \in Seq(Events), restarts' \in 0..MaxRestarts, state' \in Seq(Events),
           loaded' \in BOOLEAN, misuse' \in BOOLEAN,
           FramesOK', ProvidersOK',
           Kept' \cup Recorded' \cup Going' \cup Seen' \cup failed' \subseteq Past
    PROVE  Shape'
  <1>1. Past' = Past /\ Number' = Number
    BY DEF Past, ToSet, Number
  <1>2. VersionsOK'
    BY <1>1, TypesOf DEF VersionsOK
  <1>3. Past \subseteq Events
    BY EntriesAre, TypesOf DEF Past
  <1>4. TypeOK'
    BY <1>3, TypesOf DEF TypeOK
  <1>5. PastOK'
    BY <1>1 DEF PastOK
  <1> QED
    BY <1>2, <1>4, <1>5 DEF Shape

LEMMA LoadEndsShape ==
    ASSUME Shape, NEW f, f = Top, LoadEnds
    PROVE  /\ Shape' /\ Going' \subseteq Going
           /\ Apart(stack) => Apart(stack')
           /\ Len(stack) = 1 => stack' = <<>>
           /\ f.last = Null => Count' = Count
           /\ f.last # Null => Count' = Number[f.last]
  <1>1. /\ At("next") /\ f.events = <<>> /\ stack' = Tail(stack) /\ loaded' = TRUE
        /\ IF f.last = Null
           THEN UNCHANGED <<version, current>>
           ELSE version' = versionOf[f.last] /\ current' = versionOf[f.last]
        /\ UNCHANGED <<applied, children, registered, bus>>
        /\ UNCHANGED <<versionOf, stored, restarts, order, state, failed, misuse>>
    BY DEF LoadEnds
  <1>2. stack # <<>> /\ f.last \in Past \cup {Null}
    BY <1>1, LoadFacts
  <1>3. Calls' = Calls
    BY <1>1, SameCalls
  <1>4. /\ stack' \in Seq(Frames) /\ FramesOK' /\ Going' \subseteq Going
        /\ Apart(stack) => Apart(stack')
        /\ Len(stack) = 1 => stack' = <<>>
    BY <1>1, <1>2, <1>3, TypesOf, PopCalls
  <1>5. ASSUME f.last # Null
        PROVE  version' \in Version /\ current' \in Version /\ Count' = Number[f.last]
               /\ Number[f.last] \in 0..Len(order)
    <2>1. PICK e \in Past : e = f.last
      BY <1>2, <1>5
    <2>2. /\ versionOf[e] \in Version /\ Number[e] \in 1..Len(order) /\ Len(order) \in Nat
          /\ Number[e] = IF versionOf[e] = -Half THEN Half ELSE versionOf[e]
      BY TypesOf, NumberedVersion
    <2>3. version' = versionOf[e] /\ current' = versionOf[e]
      BY <1>1, <1>5, <2>1
    <2>4. Count' = IF current' = -Half THEN Half ELSE current'
      BY DEF Count
    <2> QED
      BY <2>1, <2>2, <2>3, <2>4
  <1>6. f.last = Null => version' = version /\ current' = current /\ Count' = Count
    BY <1>1 DEF Count
  <1>7. version' \in Version /\ current' \in Version /\ Count' \in 0..Len(order)
    BY <1>5, <1>6, TypesOf DEF VersionsOK
  <1>8. ProvidersOK'
    BY <1>1, TypesOf, SameProviders
  <1>9. Kept' \cup Recorded' \cup Going' \cup Seen' \cup failed' \subseteq Past
    BY <1>1, <1>4, TypesOf, SameSets
  <1>10. Shape'
    BY <1>1, <1>4, <1>7, <1>8, <1>9, TypesOf, ShapeStepCount
  <1> QED
    BY <1>4, <1>5, <1>6, <1>10

LEMMA SaveShape ==
    ASSUME Shape, Save
    PROVE  /\ Shape' /\ Recorded' = {} /\ Recorded # {} /\ Kept' = Kept \cup Recorded
           /\ applied' = [o \in Owners |-> <<>>]
  <1>1. /\ GetChanges # <<>> /\ stored' = stored \o GetChanges
        /\ version' = versionOf[Last(GetChanges)]
        /\ applied' = [o \in Owners |->
                          IF o = Root \/ Contains(children, o) THEN <<>> ELSE applied[o]]
        /\ misuse' = (misuse \/ stack # <<>>)
        /\ UNCHANGED <<current, children, registered, bus>>
        /\ UNCHANGED <<stack, versionOf, restarts, order, state, failed, loaded>>
    BY DEF Save, ClearEvents
  <1>2. PICK changes \in Seq(Events) : changes = GetChanges
    BY ChangesAre
  <1>3. ToSet(changes) = Recorded /\ changes # <<>>
    BY <1>1, <1>2, ChangesAre
  <1>4. Recorded # {} /\ version' \in Version
    <2>1. Len(changes) \in 1..Len(changes) /\ Last(changes) = changes[Len(changes)]
      BY <1>3 DEF Last
    <2>2. Last(changes) \in Events
      BY <2>1
    <2> QED
      BY <1>1, <1>2, <1>3, <2>2, EntriesAre, TypesOf
  <1>5. applied' = [o \in Owners |-> <<>>]
    <2>1. \A o \in Owners : applied[o] = <<>> \/ o = Root \/ Contains(children, o)
      BY TypesOf DEF ProvidersOK
    <2> QED
      BY <1>1, <2>1
  <1>6. /\ applied' \in [Owners -> Seq(Events)] /\ Recorded' = {} /\ ProvidersOK'
    <2>1. \A o \in Owners : applied'[o] = <<>> /\ ToSet(applied'[o]) = {}
      BY <1>5, EntriesOfOne
    <2>2. Recorded' = UNION {ToSet(applied'[o]) : o \in Owners}
      BY DEF Recorded, ToSet
    <2> QED
      BY <1>5, <2>1, <2>2 DEF ProvidersOK
  <1>7. stored' \in Seq(Events) /\ Kept' = Kept \cup Recorded
    <2>1. stored \o changes \in Seq(Events) /\ ToSet(stored \o changes) = Kept \cup Recorded
      BY <1>3, TypesOf, EntriesOfConcat DEF Kept
    <2>2. Kept' = ToSet(stored')
      BY DEF Kept, ToSet
    <2> QED
      BY <1>1, <1>2, <2>1, <2>2
  <1>8. FramesOK'
    BY <1>1, TypesOf, SameCalls
  <1>9. Kept' \cup Recorded' \cup Going' \cup Seen' \cup failed' \subseteq Past
    BY <1>1, <1>6, <1>7, TypesOf, SameSets
  <1>10. misuse' \in BOOLEAN
    BY <1>1, TypesOf
  <1>11. Shape'
    BY <1>1, <1>4, <1>6, <1>7, <1>8, <1>9, <1>10, TypesOf, ShapeStep
  <1> QED
    BY <1>4, <1>5, <1>6, <1>7, <1>11

LEMMA RestartShape ==
    ASSUME Shape, Restart
    PROVE  /\ Shape' /\ Recorded' = {} /\ Seen' = {} /\ Going' = Kept
           /\ applied' = [o \in Owners |-> <<>>]
  <1> DEFINE f == [call |-> "load", owner |-> Root, events |-> stored, last |-> Null, at |-> "next"]
  <1>1. /\ restarts < MaxRestarts /\ restarts' = restarts + 1
        /\ version' = 0 /\ current' = 0
        /\ applied' = [o \in Owners |-> <<>>] /\ children' = <<>>
        /\ registered' = Constructed /\ bus' \in BOOLEAN
        /\ stack' = <<f>> /\ state' = <<>> /\ loaded' = FALSE
        /\ UNCHANGED <<versionOf, stored, order, failed, misuse>>
    BY DEF Restart
  <1>2. f \in Frames
    BY TypesOf DEF Frames, Owners
  <1>3. f.call = "load" /\ f.owner = Root /\ f.events = stored /\ f.last = Null /\ f.at = "next"
    OBVIOUS
  <1> HIDE DEF f
  <1>4. f \in Calls'
    BY <1>2, <1>3 DEF Calls
  <1>5. /\ stack' \in Seq(Frames) /\ Len(stack') = 1 /\ stack'[1] = f
    BY <1>1, <1>2
  <1>6. FramesOK'
    BY <1>4, <1>5 DEF FramesOK
  <1>7. Going' = Kept
    <2>1. Going' = EventsOf(stack')
      BY DEF Going, EventsOf, ToSet
    <2>2. \A e : e \in EventsOf(stack') <=> e \in ToSet(stored)
      BY <1>3, <1>5, EventsOfAre
    <2> QED
      BY <2>1, <2>2 DEF Kept
  <1>8. /\ applied' \in [Owners -> Seq(Events)] /\ Recorded' = {} /\ ProvidersOK'
    <2>1. \A o \in Owners : applied'[o] = <<>> /\ ToSet(applied'[o]) = {}
      BY <1>1, EntriesOfOne
    <2>2. Recorded' = UNION {ToSet(applied'[o]) : o \in Owners}
      BY DEF Recorded, ToSet
    <2> QED
      BY <1>1, <2>1, <2>2 DEF ProvidersOK
  <1>9. Seen' = {}
    BY <1>1, EntriesOfOne DEF Seen, ToSet
  <1>10. current' \in Version /\ version' \in Version /\ Count' \in 0..Len(order)
    <2>1. Len(order) \in Nat
      BY TypesOf
    <2> QED
      BY <1>1, <2>1, AggregateAssumption DEF Count, Version
  <1>11. Kept' \cup Recorded' \cup Going' \cup Seen' \cup failed' \subseteq Past
    BY <1>1, <1>7, <1>8, <1>9, TypesOf, SameSets
  <1>12. restarts' \in 0..MaxRestarts /\ registered' \in [Owners -> SUBSET Types]
    BY <1>1, TypesOf, AggregateAssumption
  <1>13. children' \in Seq(Entities) /\ state' \in Seq(Events)
    BY <1>1
  <1>14. Shape'
    BY <1>1, <1>5, <1>6, <1>8, <1>10, <1>11, <1>12, <1>13, TypesOf, ShapeStepCount
  <1> QED
    BY <1>1, <1>7, <1>8, <1>9, <1>14

\* The next version is the next number, as not all events have been given one.
LEMMA VersionGiven ==
    ASSUME Shape, NEW e \in Events, Fresh(e), GiveVersion(e)
    PROVE  /\ e \notin Past /\ Past' = Past \cup {e}
           /\ order' \in Seq(Events) /\ Len(order') = Len(order) + 1
           /\ order'[Len(order) + 1] = e /\ \A i \in 1..Len(order) : order'[i] = order[i]
           /\ current' \in Version /\ versionOf' \in [Events -> Version]
           /\ Count \in Nat /\ Count' = Count + 1 /\ Number'[e] = Count + 1
           /\ \A d \in Past : Number'[d] = Number[d]
           /\ VersionsOK' /\ misuse' = (misuse \/ ~loaded) /\ misuse' \in BOOLEAN
  <1>1. /\ current' = NewVersion /\ versionOf' = [versionOf EXCEPT ![e] = NewVersion]
        /\ order' = Append(order, e) /\ misuse' = (misuse \/ ~loaded)
    BY DEF GiveVersion
  <1>2. e \notin Past
    <2>1. ~ \E i \in 1..Len(order) : order[i] = e
      BY DEF Fresh, Contains
    <2> QED
      BY <2>1, TypesOf, EntriesAre DEF Past
  <1>3. /\ order' \in Seq(Events) /\ Len(order') = Len(order) + 1 /\ Len(order) \in Nat
        /\ order'[Len(order) + 1] = e /\ \A i \in 1..Len(order) : order'[i] = order[i]
    BY <1>1, TypesOf, AppendProperties
  <1>4. Past' = Past \cup {e}
    <2>1. Past' = ToSet(order')
      BY DEF Past, ToSet
    <2>2. ToSet(Append(order, e)) = Past \cup {e}
      BY TypesOf, EntriesOfAppend DEF Past
    <2> QED
      BY <1>1, <2>1, <2>2
  <1>5. \A i, j \in 1..Len(order') : order'[i] = order'[j] => i = j
    <2>1. \A i \in 1..Len(order') : i \in 1..Len(order) \/ i = Len(order) + 1
      BY <1>3
    <2>2. \A i \in 1..Len(order) : order[i] # e
      BY <1>2, TypesOf, EntriesAre DEF Past
    <2>3. \A i, j \in 1..Len(order) : order[i] = order[j] => i = j
      BY TypesOf DEF VersionsOK
    <2> QED
      BY <1>3, <2>1, <2>2, <2>3
  <1>6. Len(order') <= Half /\ Half \in Nat \ {0}
    <2>1. PICK s \in Seq(Events) : s = order'
      BY <1>3
    <2>2. \A i, j \in 1..Len(s) : s[i] = s[j] => i = j
      BY <1>5, <2>1
    <2> QED
      BY <2>1, <2>2, OnceEach
  <1>7. Count \in 0..Len(order) /\ current \in Version
        /\ Count = IF current = -Half THEN Half ELSE current
    BY TypesOf DEF VersionsOK, Count
  <1>8. /\ NewVersion \in Version
        /\ NewVersion = IF Count + 1 = Half THEN -Half ELSE Count + 1
    <2>1. current = Count /\ Count + 1 <= Half /\ Count \in Nat
      BY <1>3, <1>6, <1>7
    <2>2. current + 1 = Half \/ current + 1 \in -Half .. Half - 1
      BY <1>6, <2>1
    <2>3. Half \in Half .. 3 * Half - 1 /\ Half - 2 * Half = -Half
      BY <1>6
    <2>4. Wrap(current + 1) \in Version
      BY <1>6, <2>1, WrapValues
    <2>5. Wrap(current + 1) = IF Count + 1 = Half THEN -Half ELSE Count + 1
      BY <1>6, <2>1, <2>2, <2>3, WrapValues
    <2> QED
      BY <2>4, <2>5 DEF NewVersion
  <1>9. current' \in Version /\ versionOf' \in [Events -> Version]
    BY <1>1, <1>8, TypesOf
  <1>10. Count' = Count + 1 /\ Count \in Nat
    <2>1. Count' = IF current' = -Half THEN Half ELSE current'
      BY DEF Count
    <2> QED
      BY <1>1, <1>3, <1>6, <1>7, <1>8, <2>1
  <1>11. \A d \in Events : Number'[d] = IF versionOf'[d] = -Half THEN Half ELSE versionOf'[d]
    BY DEF Number
  <1>12. Number'[e] = Count + 1
    <2>1. versionOf'[e] = NewVersion
      BY <1>1, TypesOf
    <2> QED
      BY <1>3, <1>6, <1>7, <1>8, <1>11, <2>1
  <1>13. \A d \in Past : Number'[d] = Number[d]
    <2> SUFFICES ASSUME NEW d \in Past
                 PROVE  Number'[d] = Number[d]
      OBVIOUS
    <2>1. d \in Events /\ Number[d] = IF versionOf[d] = -Half THEN Half ELSE versionOf[d]
      BY TypesOf, NumberedVersion
    <2>2. versionOf'[d] = versionOf[d]
      BY <1>1, <1>2, <2>1, TypesOf
    <2> QED
      BY <1>11, <2>1, <2>2
  <1>14. VersionsOK'
    <2>1. Count' \in 0..Len(order')
      BY <1>3, <1>7, <1>10
    <2>2. \A d \in Past \cup {e} : Number'[d] \in 1..Len(order')
      <3>1. \A d \in Past : Number[d] \in 1..Len(order)
        BY TypesOf DEF VersionsOK
      <3> QED
        BY <1>3, <1>7, <1>12, <1>13, <3>1
    <2> QED
      BY <1>4, <1>5, <2>1, <2>2 DEF VersionsOK
  <1>15. misuse' \in BOOLEAN
    BY <1>1, TypesOf
  <1> QED
    BY <1>1, <1>2, <1>3, <1>4, <1>9, <1>10, <1>12, <1>13, <1>14, <1>15

\* What an apply does beyond giving the version: the handler is called, or there is none.
HandledAs(e) ==
    /\ Going' = Going \cup {e} /\ state' = Append(state, e) /\ Seen' = Seen \cup {e}
    /\ failed' = failed
    /\ Apart(stack) => Apart(stack')
    /\ NoLoad => NoLoad'

RefusedAs(e) ==
    /\ stack' = stack /\ Going' = Going /\ state' = state /\ Seen' = Seen
    /\ failed' = failed \cup {e}

LEMMA ApplyShape ==
    ASSUME Shape, NEW o \in Owners, NEW e \in Events, Apply(o, e)
    PROVE  Shape' /\ (HandledAs(e) \/ RefusedAs(e))
  <1> DEFINE f == [call |-> IF o = Root THEN "apply" ELSE "entity", owner |-> o,
                   events |-> <<e>>, last |-> Null, at |-> "handler"]
  <1>1. /\ Fresh(e) /\ GiveVersion(e)
        /\ o = Root \/ Contains(children, o)
        /\ IF TypeOf[e] \in registered[o]
           THEN stack' = <<f>> \o stack /\ state' = Append(state, e) /\ UNCHANGED failed
           ELSE failed' = failed \cup {e} /\ UNCHANGED <<stack, state>>
        /\ UNCHANGED <<version, applied, children, registered, bus, stored, restarts, loaded>>
    BY DEF Apply
  <1>2. /\ e \notin Past /\ Past' = Past \cup {e} /\ order' \in Seq(Events)
        /\ current' \in Version /\ versionOf' \in [Events -> Version]
        /\ VersionsOK' /\ misuse' \in BOOLEAN
    BY <1>1, VersionGiven
  <1>3. /\ f \in Frames /\ f.owner = o /\ f.call # "load" /\ f.at = "handler" /\ f.last = Null
        /\ f.events = <<e>> /\ Len(f.events) = 1 /\ f.events # <<>> /\ ToSet(f.events) = {e}
    <2>1. <<e>> \in Seq(Events) /\ ToSet(<<e>>) = {e}
      BY EntriesOfOne
    <2> QED
      BY <2>1 DEF Frames
  <1> HIDE DEF f
  <1>4. Calls \subseteq Calls'
    BY <1>1, <1>2, CallsStay DEF Contains
  <1>5. f \in Calls'
    <2>1. o = Root \/ Contains(children', o)
      BY <1>1 DEF Contains
    <2>2. f \in {g \in Frames :
                    /\ g.at # "next" => g.events # <<>>
                    /\ g.call # "load" => Len(g.events) = 1 /\ g.at # "next"
                    /\ g.owner = Root \/ Contains(children', g.owner)
                    /\ g.last \in Past' \cup {Null}}
      BY <1>3, <2>1
    <2> QED
      BY <2>2 DEF Calls, Contains
  <1>6. ProvidersOK'
    BY <1>1, TypesOf, SameProviders
  <1>7. /\ Append(state, e) \in Seq(Events) /\ ToSet(Append(state, e)) = Seen \cup {e}
        /\ Seen' = ToSet(state')
    <2>1. Append(state, e) \in Seq(Events) /\ ToSet(Append(state, e)) = Seen \cup {e}
      BY TypesOf, EntriesOfAppend DEF Seen
    <2>2. Seen' = ToSet(state')
      BY DEF Seen, ToSet
    <2> QED
      BY <2>1, <2>2
  <1>8. CASE TypeOf[e] \in registered[o]
    <2>1. stack' = <<f>> \o stack /\ state' = Append(state, e) /\ failed' = failed
      BY <1>1, <1>8
    <2>2. Seen' = Seen \cup {e}
      BY <1>7, <2>1
    <2>3. /\ stack' \in Seq(Frames) /\ FramesOK' /\ Going' = Going \cup {e}
          /\ Apart(stack) /\ {e} \cap Going = {} => Apart(stack')
          /\ NoLoad => NoLoad'
      BY <1>3, <1>4, <1>5, <2>1, TypesOf, PushCalls
    <2>4. {e} \cap Going = {}
      BY <1>2, TypesOf
    <2>5. HandledAs(e)
      BY <2>1, <2>2, <2>3, <2>4 DEF HandledAs
    <2>6. TypeOK'
      BY <1>1, <1>2, <1>7, <2>1, <2>3, TypesOf DEF TypeOK
    <2>7. PastOK'
      BY <1>1, <1>2, <2>1, <2>2, <2>3, TypesOf, SameSets DEF PastOK
    <2> QED
      BY <1>2, <1>6, <2>3, <2>5, <2>6, <2>7 DEF Shape
  <1>9. CASE TypeOf[e] \notin registered[o]
    <2>1. stack' = stack /\ state' = state /\ failed' = failed \cup {e}
      BY <1>1, <1>9
    <2>2. Seen' = Seen /\ Going' = Going
      BY <2>1, SameSets
    <2>3. FramesOK'
      BY <1>4, <2>1, TypesOf DEF FramesOK
    <2>4. RefusedAs(e)
      BY <2>1, <2>2 DEF RefusedAs
    <2>5. TypeOK'
      BY <1>1, <1>2, <2>1, TypesOf DEF TypeOK
    <2>6. PastOK'
      BY <1>1, <1>2, <2>1, <2>2, TypesOf, SameSets DEF PastOK
    <2> QED
      BY <1>2, <1>6, <2>3, <2>4, <2>5, <2>6 DEF Shape
  <1> QED
    BY <1>8, <1>9

\* A handler or the subscribers return: publication, the end of an apply, or of an event loaded.
LEMMA ReturnsCases ==
    ASSUME HandlerReturns \/ SubscribersReturn, NEW f, f = Top
    PROVE  /\ At("handler") \/ At("subscribers")
           /\ UNCHANGED <<version, current, children, registered, bus>>
           /\ UNCHANGED <<versionOf, stored, restarts, order, state, failed, loaded, misuse>>
           /\ \/ /\ At("handler") /\ bus /\ f.call # "entity"
                 /\ Goto([f EXCEPT !.at = "subscribers"]) /\ UNCHANGED applied
              \/ Finish(f)
  BY DEF HandlerReturns, SubscribersReturn, history

LEMMA ShapeNext ==
    ASSUME Shape, [Next]_vars
    PROVE  Shape'
  <1>1. ASSUME NEW o \in Owners, NEW type \in Types, RegisterEvent(o, type)
        PROVE  Shape'
    <2>1. registered' \in [Owners -> SUBSET Types]
      BY <1>1, RegisterEventTypes
    <2>2. bus' \in BOOLEAN
      BY <1>1, TypesOf DEF RegisterEvent
    <2> QED
      BY <1>1, <2>1, <2>2, QuietShape DEF RegisterEvent, history
  <1>2. ASSUME NEW b \in BOOLEAN, SetEventBus(b)
        PROVE  Shape'
    <2>1. registered' \in [Owners -> SUBSET Types] /\ bus' \in BOOLEAN
      BY <1>2, TypesOf DEF SetEventBus
    <2> QED
      BY <1>2, <2>1, QuietShape DEF SetEventBus, history
  <1>3. ASSUME NEW n \in Entities, RegisterChildEventProvider(n)
        PROVE  Shape'
    BY <1>3, RegisterChildShape
  <1>4. ASSUME NEW o \in Owners, NEW e \in Events, Apply(o, e)
        PROVE  Shape'
    BY <1>4, ApplyShape
  <1>5. CASE HandlerReturns \/ SubscribersReturn
    <2>1. PICK f : f = Top
      OBVIOUS
    <2>2. CASE /\ At("handler") /\ bus /\ f.call # "entity"
               /\ Goto([f EXCEPT !.at = "subscribers"]) /\ UNCHANGED applied
      BY <1>5, <2>1, <2>2, ReturnsCases, PublishShape
    <2>3. CASE Finish(f) /\ f.call # "load"
      BY <1>5, <2>1, <2>3, ReturnsCases, RecordShape
    <2>4. CASE Finish(f) /\ f.call = "load"
      BY <1>5, <2>1, <2>4, ReturnsCases, LoadTurnShape
    <2> QED
      BY <1>5, <2>1, <2>2, <2>3, <2>4, ReturnsCases
  <1>6. CASE ClientThrows
    BY <1>6, ThrowShape
  <1>7. CASE LoadNext
    BY <1>7, LoadNextShape
  <1>8. CASE LoadEnds
    BY <1>8, LoadEndsShape
  <1>9. CASE Save
    BY <1>9, SaveShape
  <1>10. CASE Restart
    BY <1>10, RestartShape
  <1>11. CASE UNCHANGED vars
    <2>1. registered' \in [Owners -> SUBSET Types] /\ bus' \in BOOLEAN
      BY <1>11, TypesOf DEF vars, object
    <2> QED
      BY <1>11, <2>1, QuietShape DEF vars, object, history
  <1> QED
    BY <1>1, <1>2, <1>3, <1>4, <1>5, <1>6, <1>7, <1>8, <1>9, <1>10, <1>11 DEF Next

LEMMA InitIInv == Init => IInv
  <1> SUFFICES ASSUME Init
               PROVE  IInv
    OBVIOUS
  <1>1. /\ version = 0 /\ current = 0
        /\ applied = [o \in Owners |-> <<>>] /\ children = <<>>
        /\ registered = Constructed /\ bus = FALSE /\ stack = <<>>
        /\ versionOf = [e \in Events |-> 0]
        /\ stored = <<>> /\ restarts = 0 /\ order = <<>> /\ state = <<>> /\ failed = {}
        /\ loaded = TRUE /\ misuse = FALSE
    BY DEF Init
  <1>2. 0 \in Version /\ 0 # -Half
    BY AggregateAssumption DEF Version
  <1>3. TypeOK
    <2>1. versionOf \in [Events -> Version] /\ restarts \in 0..MaxRestarts
      BY <1>1, <1>2, AggregateAssumption
    <2>2. /\ children \in Seq(Entities) /\ stack \in Seq(Frames) /\ stored \in Seq(Events)
          /\ order \in Seq(Events) /\ state \in Seq(Events)
      BY <1>1
    <2>3. applied \in [Owners -> Seq(Events)] /\ registered \in [Owners -> SUBSET Types]
      BY <1>1, AggregateAssumption
    <2>4. failed \subseteq Events /\ loaded \in BOOLEAN /\ misuse \in BOOLEAN /\ bus \in BOOLEAN
      BY <1>1
    <2> QED
      BY <1>1, <1>2, <2>1, <2>2, <2>3, <2>4 DEF TypeOK
  <1>4. /\ Past = {} /\ Kept = {} /\ Seen = {} /\ Going = {}
        /\ Recorded = {}
    <2>1. Past = {} /\ Kept = {} /\ Seen = {}
      BY <1>1, EntriesOfOne DEF Past, Kept, Seen
    <2>2. Going = {}
      BY <1>1 DEF Going, EventsOf
    <2>3. \A o \in Owners : ToSet(applied[o]) = {}
      BY <1>1, EntriesOfOne
    <2> QED
      BY <2>1, <2>2, <2>3 DEF Recorded
  <1>5. Count = 0
    BY <1>1, <1>2 DEF Count
  <1>6. FramesOK /\ ProvidersOK /\ PastOK /\ VersionsOK
    BY <1>1, <1>4, <1>5 DEF FramesOK, ProvidersOK, PastOK, VersionsOK
  <1>7. Shape
    BY <1>3, <1>6 DEF Shape
  <1>8. OnceOK
    BY <1>1, <1>4 DEF OnceOK, Apart, Increasing
  <1>9. LoadedOK
    BY <1>1, <1>4 DEF LoadedOK, NoLoad, Increasing
  <1>10. LoadingOK
    BY <1>1 DEF LoadingOK
  <1> QED
    BY <1>7, <1>8, <1>9, <1>10 DEF IInv, Proper
-----------------------------------------------------------------------------
(* Proper. *)

\* The numbers of what this object has recorded or under way are not above its own.
LEMMA SessionNumbers ==
    ASSUME Shape, LoadedOK, loaded
    PROVE  /\ Count \in Nat /\ Len(order) \in Nat
           /\ \A d \in Past : Number[d] \in Nat
           /\ \A d \in Recorded \cup Going :
                  Number[d] <= Count /\ \E i \in 1..Len(order) :
                      d = order[i] /\ Number[d] = Count - (Len(order) - i)
           /\ \A d, e \in Recorded \cup Going : Number[d] = Number[e] => d = e
  <1>1. Count \in Nat /\ Len(order) \in Nat
    BY TypesOf DEF VersionsOK
  <1>2. \A d \in Past : Number[d] \in Nat
    BY <1>1, TypesOf DEF VersionsOK
  <1>3. \A d \in Recorded \cup Going : \E i \in 1..Len(order) :
            d = order[i] /\ Number[d] = Count - (Len(order) - i)
    <2> SUFFICES ASSUME NEW d \in Recorded \cup Going
                 PROVE  \E i \in 1..Len(order) : d = order[i] /\ Number[d] = Count - (Len(order) - i)
      OBVIOUS
    <2>1. d \in Past
      BY TypesOf
    <2>2. PICK i \in 1..Len(order) : order[i] = d
      BY <2>1, TypesOf, EntriesAre DEF Past
    <2>3. Number[order[i]] = Count - (Len(order) - i)
      BY <2>2 DEF LoadedOK
    <2> QED
      BY <2>2, <2>3
  <1>4. \A i \in 1..Len(order) : Count - (Len(order) - i) <= Count
    BY <1>1
  <1>5. \A i, j \in 1..Len(order) :
            Count - (Len(order) - i) = Count - (Len(order) - j) => i = j
    BY <1>1
  <1>6. \A d, e \in Recorded \cup Going : Number[d] = Number[e] => d = e
    BY <1>3, <1>5
  <1>7. \A d \in Recorded \cup Going : Number[d] <= Count
    BY <1>3, <1>4
  <1> QED
    BY <1>1, <1>2, <1>3, <1>6, <1>7

\* The part of a call under way that the steps below leave as it was.
LEMMA OnceStep ==
    ASSUME OnceOK, UNCHANGED <<children, applied, stored, versionOf>>, Apart(stack'),
           failed' \cap (Kept \cup Recorded \cup Going') = {}
    PROVE  OnceOK'
  <1>1. Kept' = Kept /\ Recorded' = Recorded /\ Number' = Number
    BY SameSets DEF Number
  <1>2. Increasing(stored)'
    BY <1>1 DEF OnceOK, Increasing
  <1>3. Apart(stack)'
    BY DEF Apart, ToSet
  <1> QED
    BY <1>1, <1>2, <1>3 DEF OnceOK

\* A step of an object that is loaded and gives no version.
LEMMA LoadedStep ==
    ASSUME LoadedOK, loaded, UNCHANGED <<loaded, current, versionOf, order, stored, state>>,
           NoLoad', Recorded' \cap Going' = {},
           Recorded' \cup Going' \subseteq Recorded \cup Going,
           Seen \ (failed' \cup Going') = Kept \cup Recorded', Going' \subseteq Seen
    PROVE  LoadedOK' /\ LoadingOK'
  <1>1. Kept' = Kept /\ Seen' = Seen /\ Number' = Number /\ Count' = Count
    BY SameSets, SameVersions
  <1>2. Increasing(state)'
    BY <1>1 DEF LoadedOK, Increasing
  <1> QED
    BY <1>1, <1>2 DEF LoadedOK, LoadingOK

\* An object that is not loaded has one call under way, or none.
LEMMA LoadingOnly ==
    ASSUME Shape, LoadedOK, LoadingOK, stack # <<>>, NEW f, f = Top
    PROVE  loaded <=> f.call # "load"
  <1>1. f = stack[1] /\ 1 \in 1..Len(stack)
    BY TypesOf, TopFacts
  <1>2. loaded => f.call # "load"
    BY <1>1 DEF LoadedOK, NoLoad
  <1>3. ~loaded => f.call = "load"
    BY <1>1 DEF LoadingOK
  <1> QED
    BY <1>2, <1>3, TypesOf

LEMMA QuietProper ==
    ASSUME Shape, OnceOK, LoadedOK, LoadingOK, registered[Root] \subseteq registered'[Root],
           UNCHANGED <<version, current, applied, children, stack, versionOf, stored, restarts,
                       order, state, failed, loaded, misuse>>
    PROVE  OnceOK' /\ LoadedOK' /\ LoadingOK'
  <1>1. /\ Kept' = Kept /\ Recorded' = Recorded /\ Going' = Going /\ Seen' = Seen
        /\ Number' = Number /\ Count' = Count
    BY SameSets, SameVersions
  <1>2. Apart(stack') /\ (NoLoad => NoLoad')
    BY DEF OnceOK, NoLoad
  <1>3. OnceOK'
    BY <1>1, <1>2, OnceStep DEF OnceOK
  <1>4. LoadedOK'
    BY <1>1, <1>2 DEF LoadedOK, Increasing
  <1>5. LoadingOK'
    BY <1>1 DEF LoadingOK
  <1> QED
    BY <1>3, <1>4, <1>5

LEMMA RegisterChildProper ==
    ASSUME Shape, OnceOK, LoadedOK, LoadingOK, ~misuse',
           NEW n \in Entities, RegisterChildEventProvider(n)
    PROVE  OnceOK' /\ LoadedOK' /\ LoadingOK'
  <1>1. /\ children' = Append(children, n) /\ ~Contains(children, n)
        /\ UNCHANGED <<version, current, applied, registered, bus>>
        /\ UNCHANGED <<stack, versionOf, stored, restarts, order, state, failed, loaded>>
    BY DEF RegisterChildEventProvider
  <1>2. /\ Kept' = Kept /\ Recorded' = Recorded /\ Going' = Going /\ Seen' = Seen
        /\ Number' = Number /\ Count' = Count
    BY <1>1, SameSets, SameVersions
  <1>3. \A i, j \in 1..Len(children') : children'[i] = children'[j] => i = j
    <2>1. /\ Len(children') = Len(children) + 1 /\ Len(children) \in Nat
          /\ children'[Len(children) + 1] = n
          /\ \A i \in 1..Len(children) : children'[i] = children[i]
      BY <1>1, TypesOf, AppendProperties
    <2>2. \A i \in 1..Len(children') : i \in 1..Len(children) \/ i = Len(children) + 1
      BY <2>1
    <2>3. \A i \in 1..Len(children) : children[i] # n
      BY <1>1 DEF Contains
    <2>4. \A i, j \in 1..Len(children) : children[i] = children[j] => i = j
      BY DEF OnceOK
    <2> QED
      BY <2>1, <2>2, <2>3, <2>4
  <1>4. Increasing(stored)' /\ Apart(stack)' /\ (NoLoad => NoLoad')
    <2>1. Increasing(stored)'
      BY <1>1, <1>2 DEF OnceOK, Increasing
    <2>2. Apart(stack)'
      <3>1. Apart(stack')
        BY <1>1 DEF OnceOK
      <3> QED
        BY <3>1 DEF Apart, ToSet
    <2>3. NoLoad => NoLoad'
      BY <1>1 DEF NoLoad
    <2> QED
      BY <2>1, <2>2, <2>3
  <1>5. OnceOK'
    BY <1>1, <1>2, <1>3, <1>4 DEF OnceOK
  <1>6. LoadedOK'
    BY <1>1, <1>2, <1>4 DEF LoadedOK, Increasing
  <1>7. LoadingOK'
    BY <1>1, <1>2 DEF LoadingOK
  <1> QED
    BY <1>5, <1>6, <1>7

LEMMA PublishProper ==
    ASSUME Shape, OnceOK, LoadedOK, LoadingOK, NEW f, f = Top,
           At("handler"), Goto([f EXCEPT !.at = "subscribers"]),
           UNCHANGED <<version, current, applied, children, registered, bus>>,
           UNCHANGED <<versionOf, stored, restarts, order, state, failed, loaded, misuse>>
    PROVE  OnceOK' /\ LoadedOK' /\ LoadingOK'
  <1> DEFINE g == [f EXCEPT !.at = "subscribers"]
  <1>1. stack # <<>> /\ f \in Frames /\ f = stack[1] /\ f.at = "handler"
    BY CallFacts, TypesOf, TopFacts DEF At
  <1>2. /\ g.events = f.events /\ g.call = f.call /\ g.at = "subscribers"
    BY <1>1 DEF Frames
  <1>3. /\ Going' = Going /\ (Apart(stack) => Apart(stack')) /\ (NoLoad => NoLoad')
        /\ Len(stack) = 1 => stack' = <<g>>
    BY PublishShape
  <1> HIDE DEF g
  <1>4. Recorded' = Recorded /\ Kept' = Kept /\ Seen' = Seen
    BY SameSets
  <1>5. OnceOK'
    BY <1>3, OnceStep DEF OnceOK
  <1>6. CASE loaded
    <2>1. /\ NoLoad' /\ Recorded' \cap Going' = {} /\ Going' \subseteq Seen
          /\ Seen \ (failed' \cup Going') = Kept \cup Recorded'
      BY <1>3, <1>4, <1>6 DEF LoadedOK
    <2> QED
      BY <1>3, <1>4, <1>5, <1>6, <2>1, LoadedStep
  <1>7. CASE ~loaded
    <2>1. Len(stack) = 1 /\ f.call = "load"
      BY <1>1, <1>7 DEF LoadingOK
    <2>2. /\ stack' = <<g>> /\ Len(stack') = 1 /\ stack'[1] = g
      BY <1>3, <2>1
    <2>3. LoadingOK'
      BY <1>1, <1>2, <1>4, <1>7, <2>1, <2>2 DEF LoadingOK
    <2>4. LoadedOK'
      BY <1>7 DEF LoadedOK
    <2> QED
      BY <1>5, <2>3, <2>4
  <1> QED
    BY <1>5, <1>6, <1>7, TypesOf

LEMMA RecordProper ==
    ASSUME Shape, OnceOK, LoadedOK, LoadingOK, NEW f, f = Top,
           At("handler") \/ At("subscribers"), f.call # "load", Finish(f),
           UNCHANGED <<version, current, children, registered, bus>>,
           UNCHANGED <<versionOf, stored, restarts, order, state, failed, loaded, misuse>>
    PROVE  OnceOK' /\ LoadedOK' /\ LoadingOK'
  <1>1. stack # <<>> /\ loaded
    BY CallFacts, LoadingOnly
  <1>2. PICK o \in Owners, e \in Events : o = f.owner /\ e = Head(f.events)
    BY CallFacts
  <1>3. /\ Recorded' = Recorded \cup {e} /\ Going' = Going \ {e} /\ e \in Going
        /\ Apart(stack') /\ NoLoad'
        /\ applied' = [applied EXCEPT ![o] = Append(@, e)]
    <2>1. Apart(stack) /\ NoLoad
      BY <1>1 DEF OnceOK, LoadedOK
    <2> QED
      BY <1>2, <2>1, RecordShape, CallFacts
  <1>4. Kept' = Kept /\ Seen' = Seen /\ Number' = Number /\ Recorded \cap Going = {}
    BY <1>1, SameSets, SameVersions DEF LoadedOK
  <1>5. e \notin Recorded /\ e \notin failed /\ e \in Seen /\ e \notin Kept
    <2>1. Number[e] \in Nat
      BY <1>1, <1>3, TypesOf, SessionNumbers
    <2>2. e \in Kept => Number[e] < Number[e]
      BY <1>1, <1>3 DEF LoadedOK
    <2> QED
      BY <1>1, <1>3, <1>4, <2>1, <2>2 DEF OnceOK, LoadedOK
  <1>6. \A p, q \in Owners : \A i \in 1..Len(applied'[p]), j \in 1..Len(applied'[q]) :
            applied'[p][i] = applied'[q][j] => p = q /\ i = j
    <2>1. /\ Len(applied'[o]) = Len(applied[o]) + 1 /\ Len(applied[o]) \in Nat
          /\ applied'[o][Len(applied[o]) + 1] = e
          /\ \A i \in 1..Len(applied[o]) : applied'[o][i] = applied[o][i]
          /\ \A q \in Owners \ {o} : applied'[q] = applied[q]
      <3>1. applied'[o] = Append(applied[o], e) /\ applied[o] \in Seq(Events)
        BY <1>3, TypesOf
      <3>2. \A q \in Owners \ {o} : applied'[q] = applied[q]
        BY <1>3, TypesOf
      <3> QED
        BY <3>1, <3>2, AppendProperties
    <2>2. \A p \in Owners : \A i \in 1..Len(applied'[p]) :
              \/ p = o /\ i = Len(applied[o]) + 1 /\ applied'[p][i] = e
              \/ i \in 1..Len(applied[p]) /\ applied'[p][i] = applied[p][i]
      <3> SUFFICES ASSUME NEW p \in Owners, NEW i \in 1..Len(applied'[p])
                   PROVE  \/ p = o /\ i = Len(applied[o]) + 1 /\ applied'[p][i] = e
                          \/ i \in 1..Len(applied[p]) /\ applied'[p][i] = applied[p][i]
        OBVIOUS
      <3>1. CASE p = o
        <4>1. i \in 1..Len(applied[o]) \/ i = Len(applied[o]) + 1
          BY <2>1, <3>1
        <4> QED
          BY <2>1, <3>1, <4>1
      <3>2. CASE p # o
        BY <2>1, <3>2
      <3> QED
        BY <3>1, <3>2
    <2>3. \A p \in Owners : \A i \in 1..Len(applied[p]) : applied[p][i] # e
      BY <1>5, TypesOf, RecordedAre
    <2>4. \A p, q \in Owners : \A i \in 1..Len(applied[p]), j \in 1..Len(applied[q]) :
              applied[p][i] = applied[q][j] => p = q /\ i = j
      BY DEF OnceOK
    <2> SUFFICES ASSUME NEW p \in Owners, NEW q \in Owners,
                        NEW i \in 1..Len(applied'[p]), NEW j \in 1..Len(applied'[q]),
                        applied'[p][i] = applied'[q][j]
                 PROVE  p = q /\ i = j
      OBVIOUS
    <2>5. CASE i \in 1..Len(applied[p]) /\ applied'[p][i] = applied[p][i]
      <3>1. j \in 1..Len(applied[q]) /\ applied'[q][j] = applied[q][j]
        BY <2>2, <2>3, <2>5
      <3>2. i \in 1..Len(applied[p]) /\ applied[p][i] = applied[q][j]
        BY <2>5, <3>1
      <3>3. \A k \in 1..Len(applied[p]), l \in 1..Len(applied[q]) :
                applied[p][k] = applied[q][l] => p = q /\ k = l
        BY <2>4
      <3> QED
        BY <3>1, <3>2, <3>3
    <2>6. CASE p = o /\ i = Len(applied[o]) + 1 /\ applied'[p][i] = e
      <3>1. q = o /\ j = Len(applied[o]) + 1
        BY <2>2, <2>3, <2>6
      <3> QED
        BY <2>6, <3>1
    <2> QED
      BY <2>2, <2>5, <2>6
  <1>7. OnceOK'
    <2>1. Increasing(stored)'
      BY <1>4 DEF OnceOK, Increasing
    <2>2. Apart(stack)'
      BY <1>3 DEF Apart, ToSet
    <2>3. failed' \cap (Kept' \cup Recorded' \cup Going') = {}
      BY <1>3, <1>4, <1>5 DEF OnceOK
    <2>4. \A i, j \in 1..Len(children') : children'[i] = children'[j] => i = j
      BY DEF OnceOK
    <2> QED
      BY <1>6, <2>1, <2>2, <2>3, <2>4 DEF OnceOK
  <1>8. /\ Recorded' \cap Going' = {} /\ Recorded' \cup Going' \subseteq Recorded \cup Going
        /\ Going' \subseteq Seen /\ Seen \ (failed' \cup Going') = Kept \cup Recorded'
    <2>1. Going \subseteq Seen /\ Seen \ (failed \cup Going) = Kept \cup Recorded
      BY <1>1 DEF LoadedOK
    <2> QED
      BY <1>3, <1>4, <1>5, <2>1
  <1> QED
    BY <1>1, <1>3, <1>7, <1>8, LoadedStep

LEMMA LoadTurnProper ==
    ASSUME Shape, OnceOK, LoadedOK, LoadingOK, NEW f, f = Top,
           At("handler") \/ At("subscribers"), f.call = "load", Finish(f),
           UNCHANGED <<version, current, children, registered, bus>>,
           UNCHANGED <<versionOf, stored, restarts, order, state, failed, loaded, misuse>>
    PROVE  OnceOK' /\ LoadedOK' /\ LoadingOK'
  <1> DEFINE g == [f EXCEPT !.events = Tail(@), !.last = Head(f.events), !.at = "next"]
  <1>1. /\ stack # <<>> /\ ~loaded /\ f \in Frames /\ f = stack[1] /\ f.at # "next"
        /\ f.events \in Seq(Events) /\ f.events # <<>>
    BY CallFacts, LoadingOnly, TypesOf, TopFacts DEF At
  <1>2. g.events = Tail(f.events) /\ g.last = Head(f.events) /\ g.at = "next" /\ g.call = "load"
    BY <1>1 DEF Frames
  <1>3. Len(stack) = 1
    BY <1>1 DEF LoadingOK
  <1>4. /\ stack' = <<g>> /\ Going' \subseteq Going /\ UNCHANGED applied /\ Apart(stack')
    BY <1>3, LoadTurnShape DEF OnceOK
  <1> HIDE DEF g
  <1>5. Recorded' = Recorded /\ Kept' = Kept /\ Seen' = Seen
    BY <1>4, SameSets
  <1>6. OnceOK'
    <2>1. failed' \cap (Kept \cup Recorded \cup Going') = {}
      BY <1>4 DEF OnceOK
    <2> QED
      BY <1>4, <2>1, OnceStep
  <1>7. LoadedOK'
    BY <1>1 DEF LoadedOK
  <1>8. LoadingOK'
    <2>1. Len(stack') = 1 /\ stack'[1] = g
      BY <1>4
    <2>2. /\ state \o Tail(f.events) = stored /\ state # <<>> /\ Head(f.events) = state[Len(state)]
          /\ Recorded = {} /\ \A e \in Seen : TypeOf[e] \in registered[Root]
      BY <1>1 DEF LoadingOK
    <2> QED
      BY <1>1, <1>2, <1>5, <2>1, <2>2 DEF LoadingOK
  <1> QED
    BY <1>6, <1>7, <1>8

LEMMA ThrowProper ==
    ASSUME Shape, OnceOK, LoadedOK, LoadingOK, ClientThrows
    PROVE  OnceOK' /\ LoadedOK' /\ LoadingOK'
  <1>1. PICK f : f = Top
    OBVIOUS
  <1>2. /\ At("handler") \/ At("subscribers")
        /\ failed' = IF f.call = "load" THEN failed ELSE failed \cup {Head(f.events)}
        /\ UNCHANGED <<version, current, applied, children, registered, bus>>
        /\ UNCHANGED <<versionOf, stored, restarts, order, state, loaded, misuse>>
    BY <1>1 DEF ClientThrows, object
  <1>3. stack # <<>> /\ (loaded <=> f.call # "load")
    BY <1>1, <1>2, CallFacts, LoadingOnly
  <1>4. Recorded' = Recorded /\ Kept' = Kept /\ Seen' = Seen
    BY <1>2, SameSets
  <1>5. /\ Apart(stack') /\ Going' = Going \ ToSet(f.events)
        /\ NoLoad => NoLoad'
        /\ Len(stack) = 1 => stack' = <<>>
    BY <1>1, ThrowShape DEF OnceOK
  <1>6. CASE loaded
    <2>1. PICK e \in Events : e = Head(f.events)
      BY <1>1, <1>2, CallFacts
    <2>2. ToSet(f.events) = {e} /\ e \in Going
      BY <1>1, <1>2, <1>3, <1>6, <2>1, CallFacts
    <2>3. e \notin Kept /\ e \notin Recorded
      <3>1. Number[e] \in Nat
        BY <1>6, <2>2, TypesOf, SessionNumbers
      <3>2. e \in Kept => Number[e] < Number[e]
        BY <1>6, <2>2 DEF LoadedOK
      <3> QED
        BY <1>6, <2>2, <3>1, <3>2 DEF LoadedOK
    <2>4. failed' = failed \cup {e} /\ Going' = Going \ {e} /\ NoLoad'
      BY <1>2, <1>3, <1>5, <1>6, <2>1, <2>2 DEF LoadedOK
    <2>5. OnceOK'
      <3>1. failed' \cap (Kept \cup Recorded \cup Going') = {}
        BY <2>3, <2>4 DEF OnceOK
      <3> QED
        BY <1>2, <1>5, <3>1, OnceStep
    <2>6. /\ Recorded' \cap Going' = {} /\ Recorded' \cup Going' \subseteq Recorded \cup Going
          /\ Going' \subseteq Seen /\ Seen \ (failed' \cup Going') = Kept \cup Recorded'
      <3>1. /\ Going \subseteq Seen /\ Seen \ (failed \cup Going) = Kept \cup Recorded
            /\ Recorded \cap Going = {}
        BY <1>6 DEF LoadedOK
      <3> QED
        BY <1>4, <2>2, <2>4, <3>1
    <2> QED
      BY <1>2, <1>6, <2>4, <2>5, <2>6, LoadedStep
  <1>7. CASE ~loaded
    <2>1. stack' = <<>> /\ failed' = failed
      BY <1>2, <1>3, <1>5, <1>7 DEF LoadingOK
    <2>2. OnceOK'
      <3>1. failed' \cap (Kept \cup Recorded \cup Going') = {}
        BY <1>5, <2>1 DEF OnceOK
      <3> QED
        BY <1>2, <1>5, <3>1, OnceStep
    <2>3. LoadedOK' /\ LoadingOK'
      BY <1>2, <1>4, <1>7, <2>1 DEF LoadedOK, LoadingOK
    <2> QED
      BY <2>2, <2>3
  <1> QED
    BY <1>6, <1>7, TypesOf

\* The first of the events to come goes over to those seen.
LEMMA HeadGoesOver ==
    ASSUME NEW S, NEW s \in Seq(S), NEW t \in Seq(S), t # <<>>
    PROVE  Append(s, Head(t)) \o Tail(t) = s \o t
  <1>1. t = <<Head(t)>> \o Tail(t) /\ Head(t) \in S /\ Tail(t) \in Seq(S) /\ <<Head(t)>> \in Seq(S)
    BY EntriesOfTail
  <1>2. Append(s, Head(t)) = s \o <<Head(t)>>
    BY <1>1, AppendIsConcat
  <1>3. (s \o <<Head(t)>>) \o Tail(t) = s \o (<<Head(t)>> \o Tail(t))
    BY <1>1, ConcatAssociative
  <1> QED
    BY <1>1, <1>2, <1>3

LEMMA LoadNextProper ==
    ASSUME Shape, OnceOK, LoadedOK, LoadingOK, LoadNext
    PROVE  OnceOK' /\ LoadedOK' /\ LoadingOK'
  <1>1. PICK f : f = Top
    OBVIOUS
  <1>2. /\ At("next") /\ f.events # <<>>
        /\ UNCHANGED <<version, current, applied, children, registered, bus>>
        /\ UNCHANGED <<versionOf, stored, restarts, order, failed, loaded, misuse>>
    BY <1>1 DEF LoadNext, object
  <1>3. /\ stack # <<>> /\ f \in Frames /\ f.call = "load" /\ f.at = "next"
        /\ f = stack[1] /\ f.events \in Seq(Events)
    BY <1>1, <1>2, LoadFacts
  <1>4. ~loaded /\ Len(stack) = 1
    BY <1>1, <1>3, LoadingOnly DEF LoadingOK
  <1> DEFINE g == [f EXCEPT !.at = "handler"]
  <1>5. g.events = f.events /\ g.call = "load" /\ g.at = "handler"
    BY <1>3 DEF Frames
  <1>6. /\ Going' \subseteq Going /\ Apart(stack')
        /\ \/ stack' = <<>> /\ state' = state
           \/ /\ stack' = <<g>> /\ state' = Append(state, Head(f.events))
              /\ TypeOf[Head(f.events)] \in registered[Root]
    BY <1>1, <1>4, LoadNextShape DEF OnceOK
  <1> HIDE DEF g
  <1>7. Recorded' = Recorded /\ Kept' = Kept
    BY <1>2, SameSets
  <1>8. OnceOK'
    <2>1. failed' \cap (Kept \cup Recorded \cup Going') = {}
      BY <1>2, <1>6 DEF OnceOK
    <2> QED
      BY <1>2, <1>6, <2>1, OnceStep
  <1>9. LoadedOK'
    BY <1>2, <1>4 DEF LoadedOK
  <1>10. CASE stack' = <<>> /\ state' = state
    <2>1. Seen' = Seen
      BY <1>10, SameSets
    <2>2. LoadingOK'
      BY <1>2, <1>4, <1>7, <1>10, <2>1 DEF LoadingOK
    <2> QED
      BY <1>8, <1>9, <2>2
  <1>11. CASE /\ stack' = <<g>> /\ state' = Append(state, Head(f.events))
              /\ TypeOf[Head(f.events)] \in registered[Root]
    <2>1. PICK e \in Events : e = Head(f.events)
      BY <1>2, <1>3, EntriesOfTail
    <2>2. state' = Append(state, e) /\ state' \in Seq(Events) /\ state' # <<>> /\ e = state'[Len(state')]
      <3>1. PICK s \in Seq(Events) : s = state
        BY TypesOf
      <3>2. /\ Append(s, e) \in Seq(Events) /\ Append(s, e) # <<>>
            /\ e = Append(s, e)[Len(Append(s, e))]
        BY AppendProperties
      <3> QED
        BY <1>11, <2>1, <3>1, <3>2
    <2>3. Seen' = Seen \cup {e}
      <3>1. ToSet(Append(state, e)) = Seen \cup {e}
        BY TypesOf, EntriesOfAppend DEF Seen
      <3>2. Seen' = ToSet(state')
        BY DEF Seen, ToSet
      <3> QED
        BY <2>2, <3>1, <3>2
    <2>4. state' \o Tail(f.events) = stored'
      <3>1. state \o f.events = stored
        BY <1>3, <1>4 DEF LoadingOK
      <3>2. Append(state, Head(f.events)) \o Tail(f.events) = state \o f.events
        BY <1>2, <1>3, TypesOf, HeadGoesOver
      <3> QED
        BY <1>2, <1>11, <3>1, <3>2
    <2>5. Len(stack') = 1 /\ stack'[1] = g
      BY <1>11
    <2>6. Recorded = {} /\ \A d \in Seen : TypeOf[d] \in registered[Root]
      BY <1>4 DEF LoadingOK
    <2>7. \A d \in Seen' : TypeOf[d] \in registered'[Root]
      BY <1>2, <1>11, <2>1, <2>3, <2>6
    <2>8. LoadingOK'
      BY <1>5, <1>7, <2>1, <2>2, <2>4, <2>5, <2>6, <2>7 DEF LoadingOK
    <2> QED
      BY <1>8, <1>9, <2>8
  <1> QED
    BY <1>6, <1>10, <1>11

\* What LoadEnds finds: all of the stored events seen, and the last of them its own.
LEMMA LoadEndsAtStored ==
    ASSUME Shape, OnceOK, LoadedOK, LoadingOK, LoadEnds, NEW f, f = Top
    PROVE  /\ ~loaded /\ Len(stack) = 1 /\ stack' = <<>>
           /\ state = stored /\ Seen = Kept /\ Recorded = {}
           /\ f.last = IF state = <<>> THEN Null ELSE state[Len(state)]
           /\ \A e \in Seen : TypeOf[e] \in registered[Root]
  <1>1. At("next") /\ f.events = <<>>
    BY DEF LoadEnds
  <1>2. stack # <<>> /\ f.call = "load" /\ f.at = "next" /\ f = stack[1]
    BY <1>1, LoadFacts
  <1>3. ~loaded /\ Len(stack) = 1
    BY <1>2, LoadingOnly DEF LoadingOK
  <1>4. stack' = <<>>
    BY <1>3, LoadEndsShape
  <1>5. state \o f.events = stored /\ f.last = IF state = <<>> THEN Null ELSE state[Len(state)]
    BY <1>2, <1>3 DEF LoadingOK
  <1>6. state = stored
    BY <1>1, <1>5, TypesOf, ConcatEmptySeq
  <1> QED
    BY <1>3, <1>4, <1>5, <1>6 DEF LoadingOK, Seen, Kept

LEMMA LoadEndsProper ==
    ASSUME Shape, OnceOK, LoadedOK, LoadingOK, LoadEnds
    PROVE  OnceOK' /\ LoadedOK' /\ LoadingOK'
  <1>1. PICK f : f = Top
    OBVIOUS
  <1>2. /\ ~loaded /\ Len(stack) = 1 /\ stack' = <<>>
        /\ state = stored /\ Seen = Kept /\ Recorded = {}
        /\ f.last = IF state = <<>> THEN Null ELSE state[Len(state)]
    BY <1>1, LoadEndsAtStored
  <1>3. /\ loaded' = TRUE /\ UNCHANGED <<applied, children, registered, bus>>
        /\ UNCHANGED <<versionOf, stored, restarts, order, state, failed, misuse>>
    BY DEF LoadEnds
  <1>4. /\ Kept' = Kept /\ Recorded' = {} /\ Seen' = Kept /\ Number' = Number
    BY <1>2, <1>3, SameSets DEF Number
  <1>5. Going' = {}
    <2>1. \A i \in 1..Len(stack') : FALSE
      BY <1>2
    <2> QED
      BY <2>1 DEF Going, EventsOf
  <1>6. OnceOK'
    <2>1. Apart(stack')
      BY <1>2 DEF Apart
    <2>2. failed' \cap (Kept \cup Recorded \cup Going') = {}
      BY <1>3, <1>5 DEF OnceOK
    <2> QED
      BY <1>3, <2>1, <2>2, OnceStep
  <1>7. \A e \in Kept : Number[e] <= Count'
    <2> SUFFICES ASSUME NEW e \in Kept
                 PROVE  Number[e] <= Count'
      OBVIOUS
    <2>1. PICK i \in 1..Len(stored) : stored[i] = e
      BY TypesOf, EntriesAre DEF Kept
    <2>2. PICK n \in Nat : n = Len(stored)
      BY TypesOf
    <2>3. stored[n] \in Past /\ n \in 1..Len(stored) /\ stored # <<>>
      <3>1. n \in 1..Len(stored) /\ stored # <<>>
        BY <2>1, <2>2
      <3>2. stored[n] \in Kept
        BY <3>1, TypesOf, EntriesAre DEF Kept
      <3> QED
        BY <3>1, <3>2, TypesOf
    <2>4. f.last = stored[n] /\ f.last # Null
      <3>1. Null \notin Past
        BY TypesOf, EntriesAre, AggregateAssumption DEF Past
      <3> QED
        BY <1>2, <2>2, <2>3, <3>1
    <2>5. Count' = Number[stored[n]]
      BY <1>1, <2>4, LoadEndsShape
    <2>6. i < n => Number[stored[i]] < Number[stored[n]]
      BY <2>3 DEF OnceOK, Increasing
    <2>7. Number[e] \in Nat /\ Number[stored[n]] \in Nat
      BY <2>3, TypesOf, NumberedVersion
    <2> QED
      BY <2>1, <2>2, <2>5, <2>6, <2>7
  <1>8. LoadedOK'
    <2>1. NoLoad'
      BY <1>2 DEF NoLoad
    <2>2. Increasing(state)'
      BY <1>2, <1>3, <1>4 DEF OnceOK, Increasing
    <2>3. Kept \cap failed' = {}
      BY <1>3 DEF OnceOK
    <2> QED
      BY <1>4, <1>5, <1>7, <2>1, <2>2, <2>3 DEF LoadedOK
  <1>9. LoadingOK'
    BY <1>3 DEF LoadingOK
  <1> QED
    BY <1>6, <1>8, <1>9

LEMMA RestartProper ==
    ASSUME Shape, OnceOK, Restart
    PROVE  OnceOK' /\ LoadedOK' /\ LoadingOK'
  <1> DEFINE f == [call |-> "load", owner |-> Root, events |-> stored, last |-> Null, at |-> "next"]
  <1>1. /\ children' = <<>> /\ stack' = <<f>> /\ state' = <<>> /\ loaded' = FALSE
        /\ UNCHANGED <<versionOf, stored, order, failed, misuse>>
    BY DEF Restart
  <1>2. f.call = "load" /\ f.events = stored /\ f.last = Null /\ f.at = "next"
    OBVIOUS
  <1> HIDE DEF f
  <1>3. /\ Recorded' = {} /\ Seen' = {} /\ Going' = Kept
        /\ applied' = [o \in Owners |-> <<>>]
    BY RestartShape
  <1>4. Kept' = Kept /\ Number' = Number
    BY <1>1, SameSets DEF Number
  <1>5. Len(stack') = 1 /\ stack'[1] = f
    BY <1>1
  <1>6. OnceOK'
    <2>1. Increasing(stored)'
      BY <1>1, <1>4 DEF OnceOK, Increasing
    <2>2. Apart(stack)'
      BY <1>5 DEF Apart
    <2>3. failed' \cap (Kept' \cup Recorded' \cup Going') = {}
      BY <1>1, <1>3, <1>4 DEF OnceOK
    <2>4. \A o \in Owners : Len(applied'[o]) = 0
      BY <1>3
    <2>5. Len(children') = 0
      BY <1>1
    <2> QED
      BY <2>1, <2>2, <2>3, <2>4, <2>5 DEF OnceOK
  <1>7. LoadedOK'
    BY <1>1 DEF LoadedOK
  <1>8. LoadingOK'
    <2>1. state' \o f.events = stored'
      BY <1>1, <1>2, TypesOf, ConcatEmptySeq
    <2> QED
      BY <1>1, <1>2, <1>3, <1>5, <2>1 DEF LoadingOK
  <1> QED
    BY <1>6, <1>7, <1>8

LEMMA IncreasingConcat ==
    ASSUME NEW s \in Seq(Events), NEW t \in Seq(Events), Increasing(s), Increasing(t),
           \A d \in ToSet(s), e \in ToSet(t) : Number[d] < Number[e]
    PROVE  Increasing(s \o t)
  <1>1. /\ Len(s) \in Nat /\ Len(t) \in Nat /\ Len(s \o t) = Len(s) + Len(t)
        /\ \A i \in 1..Len(s) : (s \o t)[i] = s[i]
        /\ \A i \in 1..Len(t) : (s \o t)[Len(s) + i] = t[i]
    BY ConcatProperties
  <1>2. \A i \in 1..(Len(s) + Len(t)) :
            i \in 1..Len(s) \/ (i - Len(s) \in 1..Len(t) /\ i = Len(s) + (i - Len(s)))
    BY <1>1
  <1>3. /\ \A i \in 1..Len(s) : s[i] \in ToSet(s)
        /\ \A i \in 1..Len(t) : t[i] \in ToSet(t)
    BY EntriesAre
  <1> SUFFICES ASSUME NEW i \in 1..Len(s \o t), NEW j \in 1..Len(s \o t), i < j
               PROVE  Number[(s \o t)[i]] < Number[(s \o t)[j]]
    BY DEF Increasing
  <1>4. CASE i \in 1..Len(s) /\ j \in 1..Len(s)
    BY <1>1, <1>4 DEF Increasing
  <1>5. CASE i \in 1..Len(s) /\ j \notin 1..Len(s)
    <2>1. (s \o t)[i] \in ToSet(s) /\ (s \o t)[j] \in ToSet(t)
      BY <1>1, <1>2, <1>3, <1>5
    <2> QED
      BY <2>1
  <1>6. CASE i \notin 1..Len(s)
    <2>1. PICK k \in 1..Len(t), l \in 1..Len(t) : k = i - Len(s) /\ l = j - Len(s)
      <3>1. i - Len(s) \in 1..Len(t) /\ j - Len(s) \in 1..Len(t)
        BY <1>1, <1>6
      <3> QED
        BY <3>1
    <2>2. k < l /\ (s \o t)[i] = t[k] /\ (s \o t)[j] = t[l]
      BY <1>1, <1>2, <1>6, <2>1
    <2> QED
      BY <2>2 DEF Increasing
  <1> QED
    BY <1>4, <1>5, <1>6

\* Events with rising numbers that are all among others with rising numbers have their order.
LEMMA IncreasingIsInOrder ==
    ASSUME NEW h \in Seq(Events), NEW s \in Seq(Events), Increasing(h), Increasing(s),
           ToSet(h) \subseteq ToSet(s), \A e \in ToSet(s) : Number[e] \in Nat
    PROVE  InOrderOf(h, s)
  <1> SUFFICES ASSUME NEW i \in 1..Len(h), NEW j \in 1..Len(h), i < j
               PROVE  \E k, l \in 1..Len(s) : k < l /\ s[k] = h[i] /\ s[l] = h[j]
    BY DEF InOrderOf
  <1>1. PICK k \in 1..Len(s) : s[k] = h[i]
    BY EntriesAre
  <1>2. PICK l \in 1..Len(s) : s[l] = h[j]
    BY EntriesAre
  <1>3. Number[s[k]] < Number[s[l]] /\ Number[s[k]] \in Nat /\ Number[s[l]] \in Nat
    <2>1. Number[h[i]] < Number[h[j]]
      BY DEF Increasing
    <2>2. s[k] \in ToSet(s) /\ s[l] \in ToSet(s)
      BY EntriesAre
    <2> QED
      BY <1>1, <1>2, <2>1, <2>2
  <1>4. l < k => Number[s[l]] < Number[s[k]]
    BY DEF Increasing
  <1>5. k < l
    <2>1. k # l
      BY <1>3
    <2>2. ~(l < k)
      BY <1>3, <1>4
    <2> QED
      BY <2>1, <2>2
  <1> QED
    BY <1>1, <1>2, <1>5

\* Without misuse the events stored and those to be stored rise in number.
LEMMA ChangesRise ==
    ASSUME Shape, OnceOK, LoadedOK, LoadingOK
    PROVE  /\ Increasing(GetChanges) /\ Increasing(stored \o GetChanges)
           /\ ToSet(stored \o GetChanges) = Kept \cup Recorded
           /\ Recorded # {} => loaded
  <1>1. PICK changes \in Seq(Events) : changes = GetChanges
    BY ChangesAre
  <1>2. ToSet(changes) = Recorded /\ (Recorded # {} => loaded)
    BY <1>1, ChangesAre, TypesOf DEF LoadingOK
  <1>3. Increasing(changes)
    <2> SUFFICES ASSUME NEW m \in 1..Len(changes), NEW n \in 1..Len(changes), m < n
                 PROVE  Number[changes[m]] < Number[changes[n]]
      BY DEF Increasing
    <2>1. changes[m] \in Recorded /\ changes[n] \in Recorded
      BY <1>2, EntriesAre
    <2>2. Number[changes[m]] <= Number[changes[n]] /\ changes[m] # changes[n]
      BY <1>1, ChangesIncrease
    <2>3. loaded
      BY <1>2, <2>1
    <2>4. Number[changes[m]] # Number[changes[n]]
      BY <2>1, <2>2, <2>3, SessionNumbers
    <2>5. Number[changes[m]] \in Nat /\ Number[changes[n]] \in Nat
      BY <2>1, <2>3, TypesOf, SessionNumbers
    <2> QED
      BY <2>2, <2>4, <2>5
  <1>4. \A d \in ToSet(stored), e \in ToSet(changes) : Number[d] < Number[e]
    BY <1>2 DEF LoadedOK, Kept
  <1>5. Increasing(stored \o changes)
    BY <1>3, <1>4, TypesOf, IncreasingConcat DEF OnceOK
  <1>6. ToSet(stored \o changes) = Kept \cup Recorded
    BY <1>2, TypesOf, EntriesOfConcat DEF Kept
  <1> QED
    BY <1>1, <1>2, <1>3, <1>5, <1>6

LEMMA SaveProper ==
    ASSUME Shape, OnceOK, LoadedOK, LoadingOK, Save, ~misuse'
    PROVE  OnceOK' /\ LoadedOK' /\ LoadingOK'
  <1>1. /\ stored' = stored \o GetChanges /\ stack = <<>>
        /\ UNCHANGED <<current, children, registered, bus>>
        /\ UNCHANGED <<stack, versionOf, restarts, order, state, failed, loaded>>
    BY DEF Save
  <1>2. /\ Recorded' = {} /\ Recorded # {} /\ Kept' = Kept \cup Recorded
        /\ applied' = [o \in Owners |-> <<>>]
    BY SaveShape
  <1>3. loaded /\ Increasing(stored \o GetChanges)
    BY <1>2, ChangesRise
  <1>4. Number' = Number /\ Count' = Count /\ Seen' = Seen /\ Going' = Going
    BY <1>1, SameSets, SameVersions
  <1>5. Going = {}
    BY <1>1 DEF Going, EventsOf
  <1>6. OnceOK'
    <2>1. Increasing(stored)'
      <3>1. PICK s : s = stored \o GetChanges
        OBVIOUS
      <3>2. \A i, j \in 1..Len(s) : i < j => Number[s[i]] < Number[s[j]]
        BY <1>3, <3>1 DEF Increasing
      <3>3. \A i, j \in 1..Len(stored') : i < j => Number'[stored'[i]] < Number'[stored'[j]]
        BY <1>1, <1>4, <3>1, <3>2
      <3> QED
        BY <3>3 DEF Increasing
    <2>2. Apart(stack)'
      BY <1>1 DEF Apart
    <2>3. failed' \cap (Kept' \cup Recorded' \cup Going') = {}
      BY <1>1, <1>2, <1>4, <1>5 DEF OnceOK
    <2>4. \A o \in Owners : Len(applied'[o]) = 0
      BY <1>2
    <2>5. \A i, j \in 1..Len(children') : children'[i] = children'[j] => i = j
      BY <1>1 DEF OnceOK
    <2> QED
      BY <2>1, <2>2, <2>3, <2>4, <2>5 DEF OnceOK
  <1>7. LoadedOK'
    <2>1. NoLoad'
      BY <1>1 DEF NoLoad
    <2>2. Increasing(state)' /\ \A e \in Seen' : Number'[e] <= Count'
      BY <1>1, <1>3, <1>4 DEF LoadedOK, Increasing
    <2>3. \A e \in Kept' : Number'[e] <= Count'
      <3>1. \A e \in Recorded : Number[e] <= Count
        BY <1>3, SessionNumbers
      <3> QED
        BY <1>2, <1>3, <1>4, <3>1 DEF LoadedOK
    <2>4. Seen' \ (failed' \cup Going') = Kept' \cup Recorded'
      BY <1>1, <1>2, <1>3, <1>4 DEF LoadedOK
    <2> QED
      BY <1>2, <1>4, <1>5, <2>1, <2>2, <2>3, <2>4 DEF LoadedOK
  <1>8. LoadingOK'
    BY <1>1, <1>3 DEF LoadingOK
  <1> QED
    BY <1>6, <1>7, <1>8

LEMMA ApplyProper ==
    ASSUME Shape, OnceOK, LoadedOK, LoadingOK, ~misuse', NEW o \in Owners, NEW e \in Events, Apply(o, e)
    PROVE  OnceOK' /\ LoadedOK' /\ LoadingOK'
  <1>1. /\ Fresh(e) /\ GiveVersion(e)
        /\ HandledAs(e) \/ RefusedAs(e)
        /\ UNCHANGED <<version, applied, children, registered, bus, stored, restarts, loaded>>
    BY ApplyShape DEF Apply
  <1>2. loaded /\ loaded'
    BY <1>1, TypesOf DEF GiveVersion
  <1>3. /\ e \notin Past
        /\ order' \in Seq(Events) /\ Len(order') = Len(order) + 1
        /\ order'[Len(order) + 1] = e /\ \A i \in 1..Len(order) : order'[i] = order[i]
        /\ Count' = Count + 1 /\ Number'[e] = Count + 1
        /\ \A d \in Past : Number'[d] = Number[d]
    BY <1>1, VersionGiven
  <1>4. Kept' = Kept /\ Recorded' = Recorded
    BY <1>1, SameSets
  <1>5. /\ Kept \subseteq Past /\ Recorded \subseteq Past /\ Going \subseteq Past
        /\ Seen \subseteq Past /\ failed \subseteq Past
    BY TypesOf
  <1>6. /\ Count \in Nat /\ Len(order) \in Nat /\ \A d \in Past : Number[d] \in Nat
        /\ \A d \in Recorded \cup Going : Number[d] <= Count
    BY <1>2, SessionNumbers
  <1>7. /\ Apart(stack') /\ NoLoad'
        /\ failed' \cap (Kept \cup Recorded \cup Going') = {}
        /\ Recorded \cap Going' = {} /\ Going' \subseteq Seen'
        /\ Seen' \ (failed' \cup Going') = Kept \cup Recorded
        /\ Going' \subseteq Going \cup {e} /\ Seen' \subseteq Seen \cup {e}
    <2>1. /\ Apart(stack) /\ NoLoad /\ failed \cap (Kept \cup Recorded \cup Going) = {}
          /\ Recorded \cap Going = {} /\ Going \subseteq Seen
          /\ Seen \ (failed \cup Going) = Kept \cup Recorded
      BY <1>2 DEF OnceOK, LoadedOK
    <2>2. CASE HandledAs(e)
      <3>1. Apart(stack') /\ NoLoad'
        BY <2>1, <2>2 DEF HandledAs
      <3>2. Going' = Going \cup {e} /\ Seen' = Seen \cup {e} /\ failed' = failed
        BY <2>2 DEF HandledAs
      <3> QED
        BY <1>3, <1>5, <2>1, <3>1, <3>2
    <2>3. CASE RefusedAs(e)
      <3>1. Apart(stack')
        BY <2>1, <2>3 DEF RefusedAs
      <3>2. NoLoad'
        BY <2>1, <2>3 DEF RefusedAs, NoLoad
      <3>3. Going' = Going /\ Seen' = Seen /\ failed' = failed \cup {e}
        BY <2>3 DEF RefusedAs
      <3> QED
        BY <1>3, <1>5, <2>1, <3>1, <3>2, <3>3
    <2> QED
      BY <1>1, <2>2, <2>3
  <1>8. OnceOK'
    <2>1. Increasing(stored)'
      <3>1. \A i \in 1..Len(stored) : stored[i] \in Past
        BY <1>5, TypesOf, EntriesAre DEF Kept
      <3> QED
        BY <1>1, <1>3, <3>1 DEF OnceOK, Increasing
    <2>2. Apart(stack)'
      BY <1>7 DEF Apart, ToSet
    <2> QED
      BY <1>1, <1>4, <1>7, <2>1, <2>2 DEF OnceOK
  <1>9. /\ \A d \in Kept : Number'[d] <= Count'
        /\ \A d \in Kept : \A x \in Recorded \cup Going' : Number'[d] < Number'[x]
    <2>1. \A d \in Kept : Number[d] <= Count /\ \A x \in Recorded \cup Going : Number[d] < Number[x]
      BY <1>2 DEF LoadedOK
    <2>2. \A d \in Kept : Number'[d] <= Count + 1 /\ Number'[d] < Number'[e]
      BY <1>3, <1>5, <1>6, <2>1
    <2>3. \A d \in Kept : \A x \in Recorded \cup Going : Number'[d] < Number'[x]
      BY <1>3, <1>5, <2>1
    <2> QED
      BY <1>3, <1>7, <2>2, <2>3
  <1>10. \A i \in 1..Len(order') : order'[i] \in Recorded \cup Going' =>
             Number'[order'[i]] = Count' - (Len(order') - i)
    <2> SUFFICES ASSUME NEW i \in 1..Len(order'), order'[i] \in Recorded \cup Going'
                 PROVE  Number'[order'[i]] = Count' - (Len(order') - i)
      OBVIOUS
    <2>1. CASE i = Len(order) + 1
      BY <1>3, <1>6, <2>1
    <2>2. CASE i # Len(order) + 1
      <3>1. i \in 1..Len(order) /\ order'[i] = order[i]
        BY <1>3, <1>6, <2>2
      <3>2. order[i] \in Past
        BY <3>1, TypesOf, EntriesAre DEF Past
      <3>3. order[i] \in Recorded \cup Going
        BY <1>3, <1>7, <3>1, <3>2
      <3>4. Number[order[i]] = Count - (Len(order) - i)
        BY <1>2, <3>1, <3>3 DEF LoadedOK
      <3> QED
        BY <1>3, <1>6, <3>1, <3>2, <3>4
    <2> QED
      BY <2>1, <2>2
  <1>11. \A d \in Seen' : Number'[d] <= Count'
    <2>1. \A d \in Seen : Number[d] <= Count
      BY <1>2 DEF LoadedOK
    <2> QED
      BY <1>3, <1>5, <1>6, <1>7, <2>1
  <1>12. Increasing(state)'
    <2>1. PICK n \in Nat : n = Len(state)
      BY TypesOf
    <2>2. /\ \A i \in 1..n : state[i] \in Past /\ Number[state[i]] <= Count
          /\ \A i, j \in 1..n : i < j => Number[state[i]] < Number[state[j]]
      <3>1. \A i \in 1..n : state[i] \in Seen
        BY <2>1, TypesOf, EntriesAre DEF Seen
      <3> QED
        BY <1>2, <1>5, <2>1, <3>1 DEF LoadedOK, Increasing
    <2>3. CASE HandledAs(e)
      <3>1. /\ Len(state') = n + 1 /\ state'[n + 1] = e
            /\ \A i \in 1..n : state'[i] = state[i]
        <4>1. PICK s \in Seq(Events) : s = state
          BY TypesOf
        <4>2. /\ Len(Append(s, e)) = Len(s) + 1 /\ Append(s, e)[Len(s) + 1] = e
              /\ \A i \in 1..Len(s) : Append(s, e)[i] = s[i]
          BY AppendProperties
        <4> QED
          BY <2>1, <2>3, <4>1, <4>2 DEF HandledAs
      <3>2. \A i \in 1..Len(state') : i \in 1..n \/ i = n + 1
        BY <3>1
      <3>3. \A i, j \in 1..Len(state') : i < j => i \in 1..n
        BY <3>1
      <3>4. \A i \in 1..n : Number'[state'[i]] = Number[state[i]]
        BY <1>3, <2>2, <3>1
      <3>5. \A i \in 1..n : Number[state[i]] < Count + 1
        BY <1>6, <2>2
      <3>6. ASSUME NEW i \in 1..Len(state'), NEW j \in 1..Len(state'), i < j
            PROVE  Number'[state'[i]] < Number'[state'[j]]
        <4>1. i \in 1..n
          BY <3>3, <3>6
        <4>2. CASE j \in 1..n
          BY <2>2, <3>4, <3>6, <4>1, <4>2
        <4>3. CASE j = n + 1
          BY <1>3, <3>1, <3>4, <3>5, <4>1, <4>3
        <4> QED
          BY <3>2, <4>2, <4>3
      <3> QED
        BY <3>6 DEF Increasing
    <2>4. CASE RefusedAs(e)
      <3>1. state' = state
        BY <2>4 DEF RefusedAs
      <3> QED
        BY <1>3, <2>1, <2>2, <3>1 DEF Increasing
    <2> QED
      BY <1>1, <2>3, <2>4
  <1>13. LoadedOK'
    BY <1>4, <1>7, <1>9, <1>10, <1>11, <1>12 DEF LoadedOK
  <1>14. LoadingOK'
    BY <1>2 DEF LoadingOK
  <1> QED
    BY <1>8, <1>13, <1>14

\* Misuse is never undone.
LEMMA MisuseStays ==
    ASSUME [Next]_vars, ~misuse'
    PROVE  ~misuse
  BY DEF Next, vars, history, RegisterEvent, SetEventBus, RegisterChildEventProvider, Apply, GiveVersion,
         HandlerReturns, SubscribersReturn, ClientThrows, LoadNext, LoadEnds, Save, Restart

LEMMA ProperNext ==
    ASSUME IInv, [Next]_vars
    PROVE  Proper'
  <1> SUFFICES ASSUME ~misuse'
               PROVE  OnceOK' /\ LoadedOK' /\ LoadingOK'
    BY DEF Proper
  <1>1. Shape /\ OnceOK /\ LoadedOK /\ LoadingOK
    BY MisuseStays DEF IInv, Proper
  <1>2. ASSUME NEW o \in Owners, NEW type \in Types, RegisterEvent(o, type)
        PROVE  OnceOK' /\ LoadedOK' /\ LoadingOK'
    <2>1. Root \in Owners
      BY DEF Owners
    <2>2. registered[Root] \subseteq registered'[Root]
      BY <1>1, <1>2, <2>1, RegisterEventTypes
    <2> QED
      BY <1>1, <1>2, <2>2, QuietProper DEF RegisterEvent, history
  <1>3. ASSUME NEW b \in BOOLEAN, SetEventBus(b)
        PROVE  OnceOK' /\ LoadedOK' /\ LoadingOK'
    BY <1>1, <1>3, QuietProper DEF SetEventBus, history
  <1>4. ASSUME NEW n \in Entities, RegisterChildEventProvider(n)
        PROVE  OnceOK' /\ LoadedOK' /\ LoadingOK'
    BY <1>1, <1>4, RegisterChildProper
  <1>5. ASSUME NEW o \in Owners, NEW e \in Events, Apply(o, e)
        PROVE  OnceOK' /\ LoadedOK' /\ LoadingOK'
    BY <1>1, <1>5, ApplyProper
  <1>6. CASE HandlerReturns \/ SubscribersReturn
    <2>1. PICK f : f = Top
      OBVIOUS
    <2>2. CASE /\ At("handler") /\ bus /\ f.call # "entity"
               /\ Goto([f EXCEPT !.at = "subscribers"]) /\ UNCHANGED applied
      BY <1>1, <1>6, <2>1, <2>2, ReturnsCases, PublishProper
    <2>3. CASE Finish(f) /\ f.call # "load"
      BY <1>1, <1>6, <2>1, <2>3, ReturnsCases, RecordProper
    <2>4. CASE Finish(f) /\ f.call = "load"
      BY <1>1, <1>6, <2>1, <2>4, ReturnsCases, LoadTurnProper
    <2> QED
      BY <1>6, <2>1, <2>2, <2>3, <2>4, ReturnsCases
  <1>7. CASE ClientThrows
    BY <1>1, <1>7, ThrowProper
  <1>8. CASE LoadNext
    BY <1>1, <1>8, LoadNextProper
  <1>9. CASE LoadEnds
    BY <1>1, <1>9, LoadEndsProper
  <1>10. CASE Save
    BY <1>1, <1>10, SaveProper
  <1>11. CASE Restart
    BY <1>1, <1>11, RestartProper
  <1>12. CASE UNCHANGED vars
    BY <1>1, <1>12, QuietProper DEF vars, object, history
  <1> QED
    BY <1>2, <1>3, <1>4, <1>5, <1>6, <1>7, <1>8, <1>9, <1>10, <1>11, <1>12 DEF Next

LEMMA IInvNext == IInv /\ [Next]_vars => IInv'
  BY ShapeNext, ProperNext DEF IInv

LEMMA IInvHolds == Spec => []IInv
  BY InitIInv, IInvNext, PTL DEF Spec
-----------------------------------------------------------------------------
(* What the invariant is for. *)

\* Versions stay ints, and every call under way, every list of changes and the store
\* consist of events: whatever the handlers and the subscribers do or throw.
THEOREM TypeOKHolds == Spec => []TypeOK
  <1>1. IInv => TypeOK
    BY DEF IInv, Shape
  <1> QED
    BY <1>1, IInvHolds, PTL

LEMMA InvImpliesChangesInOrder == IInv => ChangesInOrder
  <1> SUFFICES ASSUME IInv, ~misuse,
                      NEW m \in 1..Len(GetChanges), NEW n \in 1..Len(GetChanges), m < n
               PROVE  \E k, l \in 1..Len(order) :
                          k < l /\ order[k] = GetChanges[m] /\ order[l] = GetChanges[n]
    BY DEF ChangesInOrder, InOrderOf
  <1>1. Shape /\ OnceOK /\ LoadedOK /\ LoadingOK
    BY DEF IInv, Proper
  <1>2. PICK d \in Recorded, e \in Recorded : d = GetChanges[m] /\ e = GetChanges[n]
    BY <1>1, ChangesAre, EntriesAre
  <1>3. Number[d] < Number[e] /\ loaded
    BY <1>1, <1>2, ChangesRise DEF Increasing
  <1>4. /\ Count \in Nat /\ Len(order) \in Nat
        /\ \A x \in Recorded : \E i \in 1..Len(order) :
               x = order[i] /\ Number[x] = Count - (Len(order) - i)
    BY <1>1, <1>3, SessionNumbers
  <1>5. PICK k \in 1..Len(order) : d = order[k] /\ Number[d] = Count - (Len(order) - k)
    BY <1>4
  <1>6. PICK l \in 1..Len(order) : e = order[l] /\ Number[e] = Count - (Len(order) - l)
    BY <1>4
  <1>7. k < l
    BY <1>3, <1>4, <1>5, <1>6
  <1> QED
    BY <1>2, <1>5, <1>6, <1>7

\* getChanges() returns the events of the root and of the entities in the order in which
\* apply gave them their versions, for any nesting of applies, and up to and over the
\* overflow of the version.
THEOREM ChangesInOrderHolds == Spec => []ChangesInOrder
  BY IInvHolds, InvImpliesChangesInOrder, PTL

LEMMA InvImpliesVersionsDistinct == IInv => VersionsDistinct
  <1> SUFFICES ASSUME IInv, ~misuse, NEW d \in ToSet(stored) \cup Pending,
                      NEW e \in ToSet(stored) \cup Pending, d # e
               PROVE  versionOf[d] # versionOf[e]
    BY DEF VersionsDistinct
  <1>1. Shape /\ OnceOK /\ LoadedOK /\ LoadingOK
    BY DEF IInv, Proper
  <1>2. PICK changes \in Seq(Events) : changes = GetChanges
    BY <1>1, ChangesAre
  <1>3. PICK s \in Seq(Events) : s = stored \o changes
    BY <1>1, TypesOf, ConcatProperties
  <1>4. Increasing(s) /\ ToSet(s) = Kept \cup Recorded /\ Pending = Recorded
    BY <1>1, <1>2, <1>3, ChangesRise, ChangesAre DEF Pending
  <1>5. d \in ToSet(s) /\ e \in ToSet(s)
    BY <1>4 DEF Kept
  <1>6. PICK i \in 1..Len(s) : s[i] = d
    BY <1>5, EntriesAre
  <1>7. PICK j \in 1..Len(s) : s[j] = e
    BY <1>5, EntriesAre
  <1>8. d \in Past /\ e \in Past
    BY <1>1, <1>4, <1>5, TypesOf
  <1>9. /\ Number[d] \in Nat /\ Number[e] \in Nat
        /\ Number[d] = IF versionOf[d] = -Half THEN Half ELSE versionOf[d]
        /\ Number[e] = IF versionOf[e] = -Half THEN Half ELSE versionOf[e]
    BY <1>1, <1>8, TypesOf, NumberedVersion
  <1>10. i < j \/ j < i
    BY <1>6, <1>7
  <1>11. Number[d] # Number[e]
    BY <1>4, <1>6, <1>7, <1>9, <1>10 DEF Increasing
  <1> QED
    BY <1>9, <1>11

\* No version is given twice to what is stored or will be: not after an apply that threw,
\* not between the nested ones, not by an object restored without the events that were lost.
THEOREM VersionsDistinctHolds == Spec => []VersionsDistinct
  BY IInvHolds, InvImpliesVersionsDistinct, PTL

LEMMA InvImpliesStateIsReplayable == IInv => StateIsReplayable
  <1> SUFFICES ASSUME IInv, ~misuse, loaded
               PROVE  /\ ToSet(stored \o GetChanges) = ToSet(state) \ (failed \cup UnderWay)
                      /\ InOrderOf(stored \o GetChanges, state)
    BY DEF StateIsReplayable
  <1>1. Shape /\ OnceOK /\ LoadedOK /\ LoadingOK
    BY DEF IInv, Proper
  <1>2. PICK changes \in Seq(Events) : changes = GetChanges
    BY <1>1, ChangesAre
  <1>3. PICK s \in Seq(Events) : s = stored \o changes
    BY <1>1, TypesOf, ConcatProperties
  <1>4. Increasing(s) /\ ToSet(s) = Kept \cup Recorded
    BY <1>1, <1>2, <1>3, ChangesRise
  <1>5. Going = UnderWay
    BY DEF Going, EventsOf, UnderWay
  <1>6. ToSet(s) = ToSet(state) \ (failed \cup UnderWay) /\ Increasing(state)
    BY <1>1, <1>4, <1>5 DEF LoadedOK, Seen
  <1>7. \A e \in ToSet(state) : Number[e] \in Nat
    BY <1>1, TypesOf, SessionNumbers DEF Seen
  <1>8. InOrderOf(s, state)
    BY <1>1, <1>4, <1>6, <1>7, TypesOf, IncreasingIsInOrder
  <1> QED
    BY <1>2, <1>3, <1>6, <1>8

\* Storing the changes loses nothing of what a loaded object has been through but the
\* events whose apply threw, and replays the rest in the order the handlers saw them.
THEOREM StateIsReplayableHolds == Spec => []StateIsReplayable
  BY IInvHolds, InvImpliesStateIsReplayable, PTL

\* loadFromHistory ends well only after the root's handlers had all the stored events.
THEOREM LoadedIsTheHistoryHolds == Spec => LoadedIsTheHistory
  <1>1. IInv /\ [Next]_vars =>
            [~loaded /\ loaded' /\ ~misuse =>
                /\ state' = stored
                /\ \A e \in ToSet(stored) : TypeOf[e] \in registered[Root]]_vars
    <2> SUFFICES ASSUME IInv, Next, ~loaded, loaded', ~misuse
                 PROVE  /\ state' = stored
                        /\ \A e \in ToSet(stored) : TypeOf[e] \in registered[Root]
      OBVIOUS
    <2>1. LoadEnds
      BY DEF Next, history, RegisterEvent, SetEventBus, RegisterChildEventProvider, Apply,
             HandlerReturns, SubscribersReturn, ClientThrows, LoadNext, Save, Restart
    <2>2. Shape /\ OnceOK /\ LoadedOK /\ LoadingOK
      BY DEF IInv, Proper
    <2>3. /\ state = stored /\ Seen = Kept
          /\ \A e \in Seen : TypeOf[e] \in registered[Root]
      BY <2>1, <2>2, LoadEndsAtStored
    <2>4. state' = state
      BY <2>1 DEF LoadEnds
    <2> QED
      BY <2>3, <2>4 DEF Kept
  <1> QED
    BY <1>1, IInvHolds, PTL DEF Spec, LoadedIsTheHistory
=============================================================================
