--------------------------- MODULE PublicationProofs ---------------------------
(***************************************************************************)
(* For any threads, events, subscribers, priorities and bounds: what the   *)
(* sort does to a snapshot, and the order in which subscribers are called. *)
(***************************************************************************)
EXTENDS Publication, FiniteSetTheorems, SequenceTheorems, TLAPS

\* Who may stand in a list that is sorted.
Ranked == Subscribers \cup Vetoers

\* A list is sorted by priority when no entry comes before one of a lower number.
Ordered(s) == \A i, j \in 1..Len(s) : i < j => Priority[s[i]] <= Priority[s[j]]

-----------------------------------------------------------------------------
(* The sort. *)

\* Earlier is a strict order of the positions of a list.
LEMMA EarlierIsStrictOrder ==
    ASSUME NEW s \in Seq(Ranked)
    PROVE  \A i, j \in 1..Len(s) :
               /\ ~ Earlier(s, i, i)
               /\ i # j => Earlier(s, i, j) \/ Earlier(s, j, i)
               /\ \A k \in 1..Len(s) :
                      Earlier(s, i, j) /\ Earlier(s, j, k) => Earlier(s, i, k)
  <1>1. \A i \in 1..Len(s) : Priority[s[i]] \in Int
    BY PublicationAssumption DEF Ranked
  <1>2. Len(s) \in Nat
    OBVIOUS
  <1> QED
    BY <1>1, <1>2 DEF Earlier

LEMMA PlaceType ==
    ASSUME NEW s \in Seq(Ranked), NEW i \in 1..Len(s)
    PROVE  /\ Place(s, i) \in 1..Len(s)
           /\ IsFiniteSet({j \in 1..Len(s) : Earlier(s, j, i)})
  <1> DEFINE before == {j \in 1..Len(s) : Earlier(s, j, i)}
             others == (1..Len(s)) \ {i}
  <1>0. Len(s) \in Nat
    OBVIOUS
  <1>1. IsFiniteSet(1..Len(s)) /\ Cardinality(1..Len(s)) = Len(s)
    BY <1>0, FS_Interval
  <1>2. IsFiniteSet(others) /\ Cardinality(others) = Len(s) - 1
    BY <1>1, FS_RemoveElement
  <1>3. before \in SUBSET others
    BY EarlierIsStrictOrder
  <1>4. IsFiniteSet(before) /\ Cardinality(before) <= Cardinality(others)
    BY <1>2, <1>3, FS_Subset
  <1>5. Cardinality(before) \in Nat
    BY <1>4, FS_CardinalityType
  <1> QED
    BY <1>0, <1>2, <1>4, <1>5 DEF Place

\* Who is earlier gets the lower place.
LEMMA PlaceFollowsEarlier ==
    ASSUME NEW s \in Seq(Ranked), NEW i \in 1..Len(s), NEW j \in 1..Len(s),
           Earlier(s, i, j)
    PROVE  Place(s, i) < Place(s, j)
  <1> DEFINE before(k) == {l \in 1..Len(s) : Earlier(s, l, k)}
  <1>1. before(i) \in SUBSET before(j) /\ i \in before(j) /\ i \notin before(i)
    BY EarlierIsStrictOrder
  <1>2. IsFiniteSet(before(i)) /\ IsFiniteSet(before(j))
    BY PlaceType
  <1>3. Cardinality(before(i)) \in Nat /\ Cardinality(before(j)) \in Nat
    BY <1>2, FS_CardinalityType
  <1>4. /\ Cardinality(before(i)) <= Cardinality(before(j))
        /\ Cardinality(before(i)) = Cardinality(before(j)) => before(i) = before(j)
    BY <1>1, <1>2, FS_Subset
  <1>5. Place(s, i) = Cardinality(before(i)) + 1 /\ Place(s, j) = Cardinality(before(j)) + 1
    BY DEF Place
  <1> HIDE DEF before
  <1> QED
    BY <1>1, <1>3, <1>4, <1>5

\* Every place is taken, by one position: the sort keeps each entry, once.
LEMMA PlaceIsBijection ==
    ASSUME NEW s \in Seq(Ranked)
    PROVE  /\ \A i, j \in 1..Len(s) : Place(s, i) = Place(s, j) => i = j
           /\ \A k \in 1..Len(s) : \E i \in 1..Len(s) : Place(s, i) = k
  <1> DEFINE D == 1..Len(s)
             f == [i \in D |-> Place(s, i)]
  <1>1. \A i, j \in D : Place(s, i) = Place(s, j) => i = j
    <2> SUFFICES ASSUME NEW i \in D, NEW j \in D, i # j
                 PROVE  Place(s, i) # Place(s, j)
      OBVIOUS
    <2>1. Earlier(s, i, j) \/ Earlier(s, j, i)
      BY EarlierIsStrictOrder
    <2>2. Place(s, i) \in 1..Len(s) /\ Place(s, j) \in 1..Len(s)
      BY PlaceType
    <2> QED
      BY <2>1, <2>2, PlaceFollowsEarlier
  <1>2. f \in Injection(D, D)
    BY <1>1, PlaceType DEF Injection, IsInjective
  <1>3. IsFiniteSet(D)
    BY FS_Interval
  <1>4. f \in Surjection(D, D)
    BY <1>2, <1>3, FS_Injection
  <1> QED
    BY <1>1, <1>4 DEF Surjection

\* The position whose entry the sort puts at place k.
From(s, k) == CHOOSE i \in 1..Len(s) : Place(s, i) = k

LEMMA FromPlace ==
    ASSUME NEW s \in Seq(Ranked), NEW k \in 1..Len(s)
    PROVE  From(s, k) \in 1..Len(s) /\ Place(s, From(s, k)) = k
  BY PlaceIsBijection DEF From

LEMMA SortedType ==
    ASSUME NEW S, S \subseteq Ranked, NEW s \in Seq(S)
    PROVE  /\ Sorted(s) \in Seq(S) /\ Len(Sorted(s)) = Len(s)
           /\ \A k \in 1..Len(s) : Sorted(s)[k] = s[From(s, k)]
  <1>1. s \in Seq(Ranked) /\ Len(s) \in Nat
    BY SeqMonotonic
  <1>2. \A k \in 1..Len(s) : s[From(s, k)] \in S
    BY <1>1, FromPlace
  <1>3. Sorted(s) = [k \in 1..Len(s) |-> s[From(s, k)]]
    BY DEF Sorted, From
  <1>4. Sorted(s) \in [1..Len(s) -> S]
    BY <1>2, <1>3
  <1> QED
    BY <1>1, <1>3, <1>4

\* The sort puts the lower priority first ...
LEMMA SortedIsOrdered ==
    ASSUME NEW S, S \subseteq Ranked, NEW s \in Seq(S)
    PROVE  Ordered(Sorted(s))
  <1>1. s \in Seq(Ranked) /\ Len(s) \in Nat
    BY SeqMonotonic
  <1>2. /\ Len(Sorted(s)) = Len(s)
        /\ \A k \in 1..Len(s) : Sorted(s)[k] = s[From(s, k)]
    BY SortedType
  <1> SUFFICES ASSUME NEW k \in 1..Len(s), NEW l \in 1..Len(s), k < l
               PROVE  Priority[s[From(s, k)]] <= Priority[s[From(s, l)]]
    BY <1>2 DEF Ordered
  <1>3. /\ From(s, k) \in 1..Len(s) /\ From(s, l) \in 1..Len(s)
        /\ Place(s, From(s, k)) = k /\ Place(s, From(s, l)) = l
    BY <1>1, FromPlace
  <1>4. ~ Earlier(s, From(s, l), From(s, k))
    BY <1>1, <1>3, PlaceFollowsEarlier
  <1>5. \A i \in 1..Len(s) : Priority[s[i]] \in Int
    BY <1>1, PublicationAssumption DEF Ranked
  <1> QED
    BY <1>3, <1>4, <1>5 DEF Earlier

\* ... and leaves those of the same priority in the order they had.
LEMMA SortedIsStable ==
    ASSUME NEW S, S \subseteq Ranked, NEW s \in Seq(S), NEW x, NEW y,
           Priority[x] = Priority[y], Before(s, x, y)
    PROVE  Before(Sorted(s), x, y)
  <1>1. s \in Seq(Ranked)
    BY SeqMonotonic
  <1>2. PICK i, j \in 1..Len(s) : i < j /\ s[i] = x /\ s[j] = y
    BY DEF Before
  <1>3. Earlier(s, i, j)
    BY <1>2 DEF Earlier
  <1>4. Place(s, i) \in 1..Len(s) /\ Place(s, j) \in 1..Len(s) /\ Place(s, i) < Place(s, j)
    BY <1>1, <1>3, PlaceType, PlaceFollowsEarlier
  <1>5. From(s, Place(s, i)) = i /\ From(s, Place(s, j)) = j
    <2>1. \A k \in 1..Len(s) : From(s, k) \in 1..Len(s) /\ Place(s, From(s, k)) = k
      BY <1>1, FromPlace
    <2>2. \A k, l \in 1..Len(s) : Place(s, k) = Place(s, l) => k = l
      BY <1>1, PlaceIsBijection
    <2> QED
      BY <1>4, <2>1, <2>2, Zenon
  <1>6. /\ Len(Sorted(s)) = Len(s)
        /\ Sorted(s)[Place(s, i)] = x /\ Sorted(s)[Place(s, j)] = y
    BY <1>2, <1>4, <1>5, SortedType
  <1> QED
    BY <1>4, <1>6 DEF Before

\* A subscription is sorted once any has had a priority, else it is as it is.
LEMMA SnapshotType ==
    ASSUME NEW S, S \subseteq Ranked, NEW s \in Seq(S)
    PROVE  Snapshot(s) \in Seq(S)
  BY SortedType DEF Snapshot

LEMMA ConcatKeepsBefore ==
    ASSUME NEW S, NEW s \in Seq(S), NEW r \in Seq(S), NEW x, NEW y,
           Before(s, x, y) \/ Before(r, x, y)
    PROVE  Before(s \o r, x, y)
  <1>1. /\ Len(s) \in Nat /\ Len(r) \in Nat /\ Len(s \o r) = Len(s) + Len(r)
        /\ \A i \in 1..Len(s) : (s \o r)[i] = s[i]
        /\ \A i \in 1..Len(r) : (s \o r)[Len(s) + i] = r[i]
    OBVIOUS
  <1>2. CASE Before(s, x, y)
    BY <1>1, <1>2 DEF Before
  <1>3. CASE Before(r, x, y)
    <2>1. PICK i, j \in 1..Len(r) : i < j /\ r[i] = x /\ r[j] = y
      BY <1>3 DEF Before
    <2>2. \A k \in 1..Len(r) : Len(s) + k \in 1..(Len(s) + Len(r))
      BY <1>1
    <2>3. Len(s) + i < Len(s) + j
      BY <1>1, <2>1
    <2> QED
      BY <1>1, <2>1, <2>2, <2>3 DEF Before
  <1> QED
    BY <1>2, <1>3
-----------------------------------------------------------------------------
(* The lists. *)

LEMMA ConcatContains ==
    ASSUME NEW S, NEW s \in Seq(S), NEW r \in Seq(S), NEW x, Contains(s \o r, x)
    PROVE  Contains(s, x) \/ Contains(r, x)
  <1>1. /\ Len(s) \in Nat /\ Len(r) \in Nat /\ Len(s \o r) = Len(s) + Len(r)
        /\ \A i \in 1..(Len(s) + Len(r)) :
               (s \o r)[i] = IF i <= Len(s) THEN s[i] ELSE r[i - Len(s)]
    BY ConcatProperties
  <1>2. PICK i \in 1..(Len(s) + Len(r)) : (s \o r)[i] = x
    BY <1>1 DEF Contains
  <1>3. i <= Len(s) \/ i - Len(s) \in 1..Len(r)
    BY <1>1
  <1> QED
    BY <1>1, <1>2, <1>3 DEF Contains

LEMMA WithoutType ==
    ASSUME NEW S, NEW s \in Seq(S), NEW x, Contains(s, x)
    PROVE  /\ Without(s, x) \in Seq(S)
           /\ \A y : Contains(Without(s, x), y) => Contains(s, y)
  <1>1. PICK i \in 1..Len(s) : i = CHOOSE j \in 1..Len(s) : s[j] = x
    BY DEF Contains
  <1>2. Without(s, x) = SubSeq(s, 1, i - 1) \o SubSeq(s, i + 1, Len(s))
    BY <1>1 DEF Without, RemoveAt
  <1> DEFINE p == SubSeq(s, 1, i - 1)
             q == SubSeq(s, i + 1, Len(s))
  <1>3. /\ p \in Seq(S) /\ Len(p) = i - 1
        /\ \A j \in 1..(i - 1) : p[j] = s[j]
    BY SubSeqProperties
  <1>4. /\ q \in Seq(S) /\ Len(q) = Len(s) - i
        /\ \A j \in 1..(Len(s) - i) : q[j] = s[i + j]
    BY SubSeqProperties
  <1> HIDE DEF p, q
  <1>5. /\ p \o q \in Seq(S) /\ Len(p \o q) = Len(p) + Len(q)
        /\ \A j \in 1..(Len(p) + Len(q)) :
               (p \o q)[j] = IF j <= Len(p) THEN p[j] ELSE q[j - Len(p)]
    BY <1>3, <1>4, ConcatProperties
  <1>6. Without(s, x) = p \o q
    BY <1>2 DEF p, q
  <1>7. \A j \in 1..Len(p \o q) : \E k \in 1..Len(s) : (p \o q)[j] = s[k]
    <2> TAKE j \in 1..Len(p \o q)
    <2>1. CASE j <= Len(p)
      BY <1>3, <1>5, <2>1
    <2>2. CASE j > Len(p)
      <3>1. j - Len(p) \in 1..(Len(s) - i) /\ i + (j - Len(p)) \in 1..Len(s)
        BY <1>3, <1>4, <1>5, <2>2
      <3>2. (p \o q)[j] = s[i + (j - Len(p))]
        BY <1>3, <1>4, <1>5, <2>2, <3>1
      <3> QED
        BY <3>1, <3>2
    <2> QED
      BY <1>3, <1>5, <2>1, <2>2
  <1> QED
    BY <1>5, <1>6, <1>7 DEF Contains

LEMMA ResubscribedType ==
    ASSUME NEW S, NEW s \in Seq(S), NEW x \in S
    PROVE  /\ Resubscribed(s, x) \in Seq(S)
           /\ \A y : Contains(Resubscribed(s, x), y) => Contains(s, y) \/ y = x
  <1> DEFINE r == IF Contains(s, x) THEN Without(s, x) ELSE s
  <1>1. r \in Seq(S) /\ \A y : Contains(r, y) => Contains(s, y)
    BY WithoutType
  <1> HIDE DEF r
  <1>2. \A y : Contains(Append(r, x), y) => Contains(r, y) \/ y = x
    BY <1>1, AppendProperties DEF Contains
  <1>3. Append(r, x) \in Seq(S)
    BY <1>1
  <1> QED
    BY <1>1, <1>2, <1>3 DEF Resubscribed, r
-----------------------------------------------------------------------------
(***************************************************************************)
(* The inductive invariant.  An event belongs to one activation at most,   *)
(* on one stack or in the queue; the activation's point and what is left   *)
(* in its two lists say what has become of its event.                      *)
(***************************************************************************)

\* Who holds activations: the threads, and Null for the queue of the dispatch thread.
Owners == Threads \cup {Null}
Held(u) == IF u = Null THEN queue ELSE stack[u]

Apart ==
    \A u, v \in Owners : \A i \in 1..Len(Held(u)), j \in 1..Len(Held(v)) :
        Held(u)[i].event = Held(v)[j].event => u = v /\ i = j

\* The activations that agree with what has become of their events.
Consistent ==
    {f \in Frames :
        LET e == f.event
        IN /\ f.pc = "start" => status[e] = "Unpublished"
           /\ f.pc \in {"vetoing", "inVetoer"} =>
                  status[e] = "Initiated" /\ passed[e] \o f.veto = judges[e]
           /\ f.pc = "inVetoer" => f.veto # <<>>
           /\ f.pc = "queued" => status[e] = "Queued"
           /\ f.pc \in {"calling", "inSubscriber"} => status[e] = "Publishing"
           /\ f.pc # "inSubscriber" => called[e] \o f.todo = audience[e]
           /\ f.pc = "inSubscriber" =>
                  f.todo # <<>> /\ called[e] \o Tail(f.todo) = audience[e]}

Staged == \A u \in Owners : \A i \in 1..Len(Held(u)) : Held(u)[i] \in Consistent

\* What the dispatch thread has not come to yet.
Waiting ==
    \A i \in 1..Len(queue) :
        queue[i].pc = "start" /\ queue[i].veto = judges[queue[i].event]

OnDispatchThread ==
    edt # Null =>
        \A t \in Threads \ {edt} : \A i \in 1..Len(stack[t]) : stack[t][i].pc = "start"

\* What the status of an event says of it, also when its activation is gone.
EventOK(e) ==
    /\ status[e] \in {"Unpublished", "Initiated", "Vetoed", "Queued"} =>
           called[e] = <<>> /\ ~ Contains(cache, e)
    /\ status[e] = "Unpublished" => passed[e] = <<>>
    /\ status[e] \in {"Queued", "Publishing", "Completed"} => passed[e] = judges[e]
    /\ IsPrefix(called[e], audience[e])
    /\ status[e] = "Completed" => called[e] = audience[e]

EventsOK == \A e \in Events : EventOK(e)

\* A step that concerns no event but e.
Concerns(e) ==
    \A d \in Events \ {e} :
        /\ status'[d] = status[d] /\ audience'[d] = audience[d] /\ judges'[d] = judges[d]
        /\ passed'[d] = passed[d] /\ called'[d] = called[d]
        /\ Contains(cache', d) => Contains(cache, d)

-----------------------------------------------------------------------------
(* How the activations move, and what that keeps of the invariant. *)

StacksOK == /\ queue \in Seq(Frames) /\ stack \in [Threads -> Seq(Frames)]
            /\ Apart /\ Staged /\ Waiting /\ OnDispatchThread

IInv == TypeOK /\ StacksOK /\ EventsOK

LEMMA HeldType ==
    ASSUME StacksOK
    PROVE  /\ Held(Null) = queue
           /\ \A t \in Threads : Held(t) = stack[t]
           /\ \A u \in Owners : Held(u) \in Seq(Frames)
  BY PublicationAssumption DEF StacksOK, Owners, Held

LEMMA OthersStayConsistent ==
    ASSUME NEW e \in Events, Concerns(e), NEW f \in Consistent, f.event # e
    PROVE  f \in Consistent' /\ judges'[f.event] = judges[f.event]
  <1>1. f.event \in Events \ {e}
    BY DEF Frames, Consistent
  <1> QED
    BY <1>1 DEF Concerns, Consistent

\* A move shifts the activations of each owner and concerns one event, which has one
\* activation then, at place m of v, or none, when m is 0.
Moved(e, shift, v, m) ==
    \A u \in Owners : \A i \in 1..Len(Held(u)') :
        IF u = v /\ i = m
        THEN Held(u)'[i] \in Consistent' /\ Held(u)'[i].event = e
        ELSE /\ i + shift[u] \in 1..Len(Held(u))
             /\ Held(u)'[i] = Held(u)[i + shift[u]]
             /\ Held(u)[i + shift[u]].event # e

LEMMA MovedStacks ==
    ASSUME StacksOK, NEW e, e \in Events, Concerns(e), NEW shift, NEW v, NEW m,
           \A u \in Owners : shift[u] \in Int, Moved(e, shift, v, m)
    PROVE  /\ Apart' /\ Staged'
           /\ \A u \in Owners : \A i \in 1..Len(Held(u)') :
                  \/ u = v /\ i = m
                  \/ judges'[Held(u)'[i].event] = judges[Held(u)'[i].event]
  <1>1. ASSUME NEW u \in Owners, NEW i \in 1..Len(Held(u)'), ~ (u = v /\ i = m)
        PROVE  /\ i + shift[u] \in 1..Len(Held(u))
               /\ Held(u)'[i] = Held(u)[i + shift[u]]
               /\ Held(u)'[i].event # e
               /\ Held(u)'[i] \in Consistent'
               /\ judges'[Held(u)'[i].event] = judges[Held(u)'[i].event]
    <2>1. /\ i + shift[u] \in 1..Len(Held(u))
          /\ Held(u)'[i] = Held(u)[i + shift[u]]
          /\ Held(u)[i + shift[u]].event # e
      BY <1>1 DEF Moved
    <2>2. Held(u)[i + shift[u]] \in Consistent
      BY <2>1 DEF StacksOK, Staged
    <2> QED
      BY <2>1, <2>2, OthersStayConsistent
  <1>2. ASSUME NEW u \in Owners, NEW i \in 1..Len(Held(u)'), u = v /\ i = m
        PROVE  Held(u)'[i] \in Consistent' /\ Held(u)'[i].event = e
    BY <1>2 DEF Moved
  <1>3. Staged'
    <2> SUFFICES ASSUME NEW u \in Owners, NEW i \in 1..Len(Held(u)')
                 PROVE  Held(u)'[i] \in Consistent'
      BY DEF Staged, Owners
    <2> QED
      BY <1>1, <1>2
  <1>4. Apart'
    <2> SUFFICES ASSUME NEW u \in Owners, NEW w \in Owners,
                        NEW i \in 1..Len(Held(u)'), NEW j \in 1..Len(Held(w)'),
                        Held(u)'[i].event = Held(w)'[j].event
                 PROVE  u = w /\ i = j
      BY DEF Apart, Owners
    <2>1. CASE (u = v /\ i = m) \/ (w = v /\ j = m)
      BY <1>1, <1>2, <2>1
    <2>2. CASE ~ (u = v /\ i = m) /\ ~ (w = v /\ j = m)
      <3>1. u = w /\ i + shift[u] = j + shift[w]
        <4>1. /\ i + shift[u] \in 1..Len(Held(u)) /\ j + shift[w] \in 1..Len(Held(w))
              /\ Held(u)[i + shift[u]].event = Held(w)[j + shift[w]].event
          BY <1>1, <2>2
        <4> QED
          <5>1. \A k \in 1..Len(Held(u)), l \in 1..Len(Held(w)) :
                    Held(u)[k].event = Held(w)[l].event => u = w /\ k = l
            BY Zenon DEF StacksOK, Apart
          <5> QED
            BY <4>1, <5>1, Zenon
      <3>2. i \in Int /\ j \in Int /\ shift[u] \in Int
        OBVIOUS
      <3> QED
        BY <3>1, <3>2
    <2> QED
      BY <2>1, <2>2
  <1> QED
    BY <1>1, <1>3, <1>4

\* The event of the first activation of t is nowhere else.
LEMMA TopIsApart ==
    ASSUME StacksOK, NEW t \in Threads, stack[t] # <<>>
    PROVE  /\ stack[t] \in Seq(Frames) /\ Len(stack[t]) \in Nat \ {0}
           /\ Top(t) = stack[t][1] /\ Top(t) \in Consistent
           /\ Top(t).event \in Events
           /\ \A u \in Owners : \A i \in 1..Len(Held(u)) :
                  Held(u)[i].event = Top(t).event => u = t /\ i = 1
  <1>1. stack[t] \in Seq(Frames) /\ Len(stack[t]) \in Nat \ {0} /\ Top(t) = stack[t][1]
    BY DEF StacksOK, Top
  <1>2. t \in Owners /\ Held(t) = stack[t] /\ 1 \in 1..Len(Held(t))
    BY <1>1, HeldType DEF Owners
  <1>3. Held(t)[1] \in Consistent
    BY <1>2 DEF StacksOK, Staged
  <1>4. \A u \in Owners : \A i \in 1..Len(Held(u)) :
            Held(u)[i].event = Held(t)[1].event => u = t /\ i = 1
    BY <1>2 DEF StacksOK, Apart
  <1> QED
    BY <1>1, <1>2, <1>3, <1>4 DEF Consistent, Frames

\* The innermost activation of t goes on as f.
LEMMA GotoStacks ==
    ASSUME StacksOK, NEW t \in Threads, stack[t] # <<>>, NEW f \in Consistent',
           f.event = Top(t).event, Goto(t, f), UNCHANGED swing,
           Concerns(f.event), edt \in {Null, t}
    PROVE  StacksOK'
  <1> DEFINE s == stack[t]
             n == <<f>> \o Tail(s)
             zero == [u \in Owners |-> 0]
  <1>1. /\ s \in Seq(Frames) /\ Len(s) \in Nat \ {0} /\ f.event \in Events
        /\ \A u \in Owners : \A i \in 1..Len(Held(u)) :
               Held(u)[i].event = f.event => u = t /\ i = 1
    BY TopIsApart
  <1>2. /\ n \in Seq(Frames) /\ Len(n) = Len(s)
        /\ n[1] = f /\ \A i \in 2..Len(s) : n[i] = s[i]
    BY <1>1 DEF Consistent
  <1>3. stack' = [stack EXCEPT ![t] = n] /\ queue' = queue /\ edt' = edt
    BY DEF Goto, swing
  <1> HIDE DEF n
  <1>4. stack' \in [Threads -> Seq(Frames)] /\ queue' \in Seq(Frames)
    BY <1>2, <1>3 DEF StacksOK
  <1>5. /\ Held(t)' = n /\ Held(t) = s
        /\ \A u \in Owners \ {t} : Held(u)' = Held(u) /\ Held(u) \in Seq(Frames)
        /\ t \in Owners /\ Null \in Owners \ {t} /\ Held(Null)' = queue
    BY <1>3, PublicationAssumption DEF Held, Owners, StacksOK
  <1>6. Moved(f.event, zero, t, 1)
    BY <1>1, <1>2, <1>5 DEF Moved
  <1>7. /\ Apart' /\ Staged'
        /\ \A i \in 1..Len(queue) : judges'[queue[i].event] = judges[queue[i].event]
    <2>1. \A u \in Owners : zero[u] \in Int
      OBVIOUS
    <2> HIDE DEF zero
    <2>2. /\ Apart' /\ Staged'
          /\ \A u \in Owners : \A i \in 1..Len(Held(u)') :
                 \/ u = t /\ i = 1
                 \/ judges'[Held(u)'[i].event] = judges[Held(u)'[i].event]
      BY <1>1, <1>5, <1>6, <2>1, MovedStacks
    <2> QED
      BY <1>5, <2>2
  <1>8. Waiting' /\ OnDispatchThread'
    BY <1>3, <1>7 DEF Waiting, OnDispatchThread, StacksOK
  <1> QED
    BY <1>4, <1>7, <1>8 DEF StacksOK

\* The innermost activation of t is over.
LEMMA ReturnStacks ==
    ASSUME StacksOK, NEW t \in Threads, stack[t] # <<>>,
           Return(t), UNCHANGED swing, Concerns(Top(t).event)
    PROVE  StacksOK'
  <1> DEFINE s == stack[t]
             n == Tail(s)
             shift == [u \in Owners |-> IF u = t THEN 1 ELSE 0]
  <1>1. /\ s \in Seq(Frames) /\ Len(s) \in Nat \ {0} /\ Top(t).event \in Events
        /\ \A u \in Owners : \A i \in 1..Len(Held(u)) :
               Held(u)[i].event = Top(t).event => u = t /\ i = 1
    BY TopIsApart
  <1>2. /\ n \in Seq(Frames) /\ Len(n) = Len(s) - 1
        /\ \A i \in 1..Len(n) : n[i] = s[i + 1]
    BY <1>1
  <1>3. stack' = [stack EXCEPT ![t] = n] /\ queue' = queue /\ edt' = edt
    BY DEF Return, swing
  <1> HIDE DEF n
  <1>4. stack' \in [Threads -> Seq(Frames)] /\ queue' \in Seq(Frames)
    BY <1>2, <1>3 DEF StacksOK
  <1>5. /\ Held(t)' = n /\ Held(t) = s
        /\ \A u \in Owners \ {t} : Held(u)' = Held(u) /\ Held(u) \in Seq(Frames)
        /\ t \in Owners /\ Null \in Owners \ {t} /\ Held(Null)' = queue
    BY <1>3, PublicationAssumption DEF Held, Owners, StacksOK
  <1>6. Moved(Top(t).event, shift, t, 0)
    BY <1>1, <1>2, <1>5 DEF Moved
  <1>7. /\ Apart' /\ Staged'
        /\ \A i \in 1..Len(queue) : judges'[queue[i].event] = judges[queue[i].event]
    <2>1. \A u \in Owners : shift[u] \in Int
      OBVIOUS
    <2> HIDE DEF shift
    <2>2. /\ Apart' /\ Staged'
          /\ \A u \in Owners : \A i \in 1..Len(Held(u)') :
                 \/ u = t /\ i = 0
                 \/ judges'[Held(u)'[i].event] = judges[Held(u)'[i].event]
      BY <1>1, <1>5, <1>6, <2>1, MovedStacks
    <2> QED
      BY <1>5, <2>2
  <1>8. Waiting'
    BY <1>3, <1>7 DEF Waiting, StacksOK
  <1>9. OnDispatchThread'
    BY <1>1, <1>2, <1>3 DEF OnDispatchThread, StacksOK
  <1> QED
    BY <1>4, <1>7, <1>8, <1>9 DEF StacksOK

\* An event without an activation gets one.
LEMMA PushStacks ==
    ASSUME StacksOK, NEW t \in Threads, NEW f \in Consistent', f.event \notin ActiveEvents,
           stack' = [stack EXCEPT ![t] = <<f>> \o @], UNCHANGED swing,
           Concerns(f.event), f.pc = "start"
    PROVE  StacksOK'
  <1> DEFINE s == stack[t]
             n == <<f>> \o s
             shift == [u \in Owners |-> IF u = t THEN -1 ELSE 0]
  <1>1. /\ s \in Seq(Frames) /\ Len(s) \in Nat /\ f \in Frames /\ f.event \in Events
        /\ \A u \in Owners : \A i \in 1..Len(Held(u)) : Held(u)[i].event # f.event
    <2>1. \A u \in Owners : \A i \in 1..Len(Held(u)) : Held(u)[i].event \in ActiveEvents
      BY DEF Held, Owners, ActiveEvents, EventsIn
    <2>2. s \in Seq(Frames) /\ f \in Frames
      BY DEF StacksOK, Consistent
    <2> QED
      BY <2>1, <2>2 DEF Frames
  <1>2. /\ n \in Seq(Frames) /\ Len(n) = Len(s) + 1
        /\ n[1] = f /\ \A i \in 2..Len(n) : n[i] = s[i - 1]
    BY <1>1
  <1>3. stack' = [stack EXCEPT ![t] = n] /\ queue' = queue /\ edt' = edt
    BY DEF swing
  <1> HIDE DEF n
  <1>4. stack' \in [Threads -> Seq(Frames)] /\ queue' \in Seq(Frames)
    BY <1>2, <1>3 DEF StacksOK
  <1>5. /\ Held(t)' = n /\ Held(t) = s
        /\ \A u \in Owners \ {t} : Held(u)' = Held(u) /\ Held(u) \in Seq(Frames)
        /\ t \in Owners /\ Null \in Owners \ {t} /\ Held(Null)' = queue
    BY <1>3, PublicationAssumption DEF Held, Owners, StacksOK
  <1>6. Moved(f.event, shift, t, 1)
    <2> SUFFICES ASSUME NEW u \in Owners, NEW i \in 1..Len(Held(u)')
                 PROVE  IF u = t /\ i = 1
                        THEN Held(u)'[i] \in Consistent' /\ Held(u)'[i].event = f.event
                        ELSE /\ i + shift[u] \in 1..Len(Held(u))
                             /\ Held(u)'[i] = Held(u)[i + shift[u]]
                             /\ Held(u)[i + shift[u]].event # f.event
      BY DEF Moved
    <2>1. CASE u = t
      <3>1. /\ i = 1 => Held(u)'[i] = f
            /\ i # 1 => i - 1 \in 1..Len(s) /\ Held(u)'[i] = s[i - 1]
        BY <1>1, <1>2, <1>5, <2>1
      <3>2. shift[u] = -1 /\ i + (-1) = i - 1
        BY <2>1
      <3> HIDE DEF shift
      <3> QED
        BY <1>1, <1>5, <2>1, <3>1, <3>2
    <2>2. CASE u # t
      BY <1>1, <1>5, <2>2
    <2> QED
      BY <2>1, <2>2
  <1>7. /\ Apart' /\ Staged'
        /\ \A i \in 1..Len(queue) : judges'[queue[i].event] = judges[queue[i].event]
    <2>1. \A u \in Owners : shift[u] \in Int
      OBVIOUS
    <2> HIDE DEF shift
    <2>2. /\ Apart' /\ Staged'
          /\ \A u \in Owners : \A i \in 1..Len(Held(u)') :
                 \/ u = t /\ i = 1
                 \/ judges'[Held(u)'[i].event] = judges[Held(u)'[i].event]
      BY <1>1, <1>5, <1>6, <2>1, MovedStacks
    <2> QED
      BY <1>5, <2>2
  <1>8. Waiting'
    BY <1>3, <1>7 DEF Waiting, StacksOK
  <1>9. OnDispatchThread'
    BY <1>1, <1>2, <1>3 DEF OnDispatchThread, StacksOK
  <1> QED
    BY <1>4, <1>7, <1>8, <1>9 DEF StacksOK

\* The innermost activation of t goes to the end of the queue, as f.
LEMMA EnqueueStacks ==
    ASSUME StacksOK, NEW t \in Threads, stack[t] # <<>>, NEW f \in Consistent',
           f.event = Top(t).event, f.pc = "start", f.veto = judges'[f.event],
           Return(t), queue' = Append(queue, f), UNCHANGED edt, Concerns(f.event)
    PROVE  StacksOK'
  <1> DEFINE s == stack[t]
             n == Tail(s)
             q == Append(queue, f)
             shift == [u \in Owners |-> IF u = t THEN 1 ELSE 0]
  <1>1. /\ s \in Seq(Frames) /\ Len(s) \in Nat \ {0} /\ f.event \in Events
        /\ f \in Frames /\ queue \in Seq(Frames) /\ Len(queue) \in Nat
        /\ \A u \in Owners : \A i \in 1..Len(Held(u)) :
               Held(u)[i].event = f.event => u = t /\ i = 1
    <2>1. f \in Frames /\ queue \in Seq(Frames)
      BY DEF StacksOK, Consistent
    <2> QED
      BY <2>1, TopIsApart
  <1>2. /\ n \in Seq(Frames) /\ Len(n) = Len(s) - 1
        /\ \A i \in 1..Len(n) : n[i] = s[i + 1]
        /\ q \in Seq(Frames) /\ Len(q) = Len(queue) + 1
        /\ q[Len(queue) + 1] = f /\ \A i \in 1..Len(queue) : q[i] = queue[i]
    BY <1>1
  <1>3. stack' = [stack EXCEPT ![t] = n] /\ queue' = q /\ edt' = edt
    BY DEF Return
  <1> HIDE DEF n, q
  <1>4. stack' \in [Threads -> Seq(Frames)] /\ queue' \in Seq(Frames)
    BY <1>2, <1>3 DEF StacksOK
  <1>5. /\ Held(t)' = n /\ Held(t) = s /\ Held(Null) = queue /\ Held(Null)' = q
        /\ \A u \in Owners \ {t, Null} : Held(u)' = Held(u) /\ Held(u) \in Seq(Frames)
        /\ t \in Owners /\ Null \in Owners \ {t}
    BY <1>3, PublicationAssumption DEF Held, Owners, StacksOK
  <1>6. Moved(f.event, shift, Null, Len(queue) + 1)
    <2>1. Null # t
      BY <1>5
    <2> SUFFICES ASSUME NEW u \in Owners, NEW i \in 1..Len(Held(u)')
                 PROVE  IF u = Null /\ i = Len(queue) + 1
                        THEN Held(u)'[i] \in Consistent' /\ Held(u)'[i].event = f.event
                        ELSE /\ i + shift[u] \in 1..Len(Held(u))
                             /\ Held(u)'[i] = Held(u)[i + shift[u]]
                             /\ Held(u)[i + shift[u]].event # f.event
      BY DEF Moved
    <2>2. CASE u = t
      BY <1>1, <1>2, <1>5, <2>1, <2>2
    <2>3. CASE u = Null
      BY <1>1, <1>2, <1>5, <2>1, <2>3
    <2>4. CASE u \notin {t, Null}
      BY <1>1, <1>5, <2>4
    <2> QED
      BY <2>2, <2>3, <2>4
  <1>7. /\ Apart' /\ Staged'
        /\ \A i \in 1..Len(queue) : judges'[queue[i].event] = judges[queue[i].event]
    <2>1. \A u \in Owners : shift[u] \in Int
      OBVIOUS
    <2> HIDE DEF shift
    <2>2. /\ Apart' /\ Staged'
          /\ \A u \in Owners : \A i \in 1..Len(Held(u)') :
                 \/ u = Null /\ i = Len(queue) + 1
                 \/ judges'[Held(u)'[i].event] = judges[Held(u)'[i].event]
      BY <1>1, <1>5, <1>6, <2>1, MovedStacks
    <2> QED
      BY <1>1, <1>2, <1>5, <2>2
  <1>8. Waiting'
    <2> SUFFICES ASSUME NEW i \in 1..Len(q)
                 PROVE  q[i].pc = "start" /\ q[i].veto = judges'[q[i].event]
      BY <1>3 DEF Waiting
    <2>1. CASE i = Len(queue) + 1
      BY <1>2, <2>1
    <2>2. CASE i \in 1..Len(queue)
      BY <1>2, <1>7, <2>2 DEF Waiting, StacksOK
    <2> QED
      BY <1>1, <1>2, <2>1, <2>2
  <1>9. OnDispatchThread'
    BY <1>1, <1>2, <1>3 DEF OnDispatchThread, StacksOK
  <1> QED
    BY <1>4, <1>7, <1>8, <1>9 DEF StacksOK

\* The oldest activation of the queue goes on, as f, on the dispatch thread t.
LEMMA DequeueStacks ==
    ASSUME StacksOK, NEW t \in Threads, t = edt, queue # <<>>, NEW f \in Consistent',
           f.event = Head(queue).event,
           stack' = [stack EXCEPT ![t] = <<f>> \o @], queue' = Tail(queue),
           UNCHANGED edt, Concerns(f.event)
    PROVE  StacksOK'
  <1> DEFINE s == stack[t]
             n == <<f>> \o s
             q == Tail(queue)
             shift == [u \in Owners |-> IF u = t THEN -1 ELSE IF u = Null THEN 1 ELSE 0]
  <1>1. /\ s \in Seq(Frames) /\ Len(s) \in Nat /\ queue \in Seq(Frames)
        /\ Len(queue) \in Nat \ {0} /\ Head(queue) = queue[1]
        /\ f \in Frames /\ f.event \in Events
    BY DEF StacksOK, Consistent, Frames
  <1>2. /\ n \in Seq(Frames) /\ Len(n) = Len(s) + 1
        /\ n[1] = f /\ \A i \in 2..Len(n) : n[i] = s[i - 1]
        /\ q \in Seq(Frames) /\ Len(q) = Len(queue) - 1
        /\ \A i \in 1..Len(q) : q[i] = queue[i + 1]
    BY <1>1
  <1>3. stack' = [stack EXCEPT ![t] = n] /\ queue' = q /\ edt' = edt
    OBVIOUS
  <1> HIDE DEF n, q
  <1>4. stack' \in [Threads -> Seq(Frames)] /\ queue' \in Seq(Frames)
    BY <1>2, <1>3 DEF StacksOK
  <1>5. /\ Held(t)' = n /\ Held(t) = s /\ Held(Null) = queue /\ Held(Null)' = q
        /\ \A u \in Owners \ {t, Null} : Held(u)' = Held(u) /\ Held(u) \in Seq(Frames)
        /\ t \in Owners /\ Null \in Owners \ {t}
    BY <1>3, PublicationAssumption DEF Held, Owners, StacksOK
  <1>6. \A u \in Owners : \A i \in 1..Len(Held(u)) :
            Held(u)[i].event = f.event => u = Null /\ i = 1
    BY <1>1, <1>5 DEF StacksOK, Apart
  <1>7. Moved(f.event, shift, t, 1)
    <2>1. Null # t
      BY <1>5
    <2> SUFFICES ASSUME NEW u \in Owners, NEW i \in 1..Len(Held(u)')
                 PROVE  IF u = t /\ i = 1
                        THEN Held(u)'[i] \in Consistent' /\ Held(u)'[i].event = f.event
                        ELSE /\ i + shift[u] \in 1..Len(Held(u))
                             /\ Held(u)'[i] = Held(u)[i + shift[u]]
                             /\ Held(u)[i + shift[u]].event # f.event
      BY DEF Moved
    <2>2. CASE u = t
      <3>1. Held(u)' = n /\ Held(u) = s /\ shift[u] = -1 /\ i \in 1..Len(s) + 1
        BY <1>2, <1>5, <2>2
      <3>2. CASE i = 1
        BY <1>2, <2>2, <3>1, <3>2
      <3>3. CASE i # 1
        <4>1. i + shift[u] = i - 1 /\ i - 1 \in 1..Len(s) /\ n[i] = s[i - 1]
          BY <1>1, <1>2, <3>1, <3>3
        <4>2. s[i - 1].event # f.event
          BY <1>6, <2>1, <2>2, <3>1, <4>1
        <4> QED
          BY <3>1, <3>3, <4>1, <4>2
      <3> QED
        BY <3>2, <3>3
    <2>3. CASE u = Null
      BY <1>1, <1>2, <1>5, <1>6, <2>1, <2>3
    <2>4. CASE u \notin {t, Null}
      BY <1>5, <1>6, <2>4
    <2> QED
      BY <2>2, <2>3, <2>4
  <1>8. /\ Apart' /\ Staged'
        /\ \A i \in 1..Len(q) : judges'[q[i].event] = judges[q[i].event]
    <2>1. \A u \in Owners : shift[u] \in Int
      OBVIOUS
    <2> HIDE DEF shift
    <2>2. /\ Apart' /\ Staged'
          /\ \A u \in Owners : \A i \in 1..Len(Held(u)') :
                 \/ u = t /\ i = 1
                 \/ judges'[Held(u)'[i].event] = judges[Held(u)'[i].event]
      BY <1>1, <1>5, <1>7, <2>1, MovedStacks
    <2> QED
      BY <1>5, <2>2
  <1>9. Waiting'
    <2> SUFFICES ASSUME NEW i \in 1..Len(q)
                 PROVE  q[i].pc = "start" /\ q[i].veto = judges'[q[i].event]
      BY <1>3 DEF Waiting
    <2>1. i + 1 \in 1..Len(queue) /\ q[i] = queue[i + 1]
      BY <1>1, <1>2
    <2> QED
      BY <1>8, <2>1 DEF Waiting, StacksOK
  <1>10. OnDispatchThread'
    BY <1>3 DEF OnDispatchThread, StacksOK
  <1> QED
    BY <1>4, <1>8, <1>9, <1>10 DEF StacksOK
-----------------------------------------------------------------------------
(* The steps, one lemma for each. *)

LEMMA EmptyFirst ==
    ASSUME NEW S, NEW s \in Seq(S)
    PROVE  <<>> \o s = s /\ s \o <<>> = s /\ IsPrefix(<<>>, s)
  <1>1. <<>> \o s = s /\ s \o <<>> = s
    BY ConcatEmptySeq
  <1>2. SubSeq(s, 1, 0) = <<>> /\ SubSeq(<<>>, 1, 0) = <<>> /\ Len(s) \in Nat
    OBVIOUS
  <1> QED
    BY <1>1, <1>2 DEF IsPrefix

\* The head of a list moves to the end of another.
LEMMA HeadMoves ==
    ASSUME NEW S, NEW s \in Seq(S), NEW r \in Seq(S), r # <<>>
    PROVE  /\ Append(s, Head(r)) \in Seq(S) /\ Tail(r) \in Seq(S)
           /\ Append(s, Head(r)) \o Tail(r) = s \o r
           /\ Append(s, Head(r)) # <<>>
  <1>1. Head(r) \in S /\ Tail(r) \in Seq(S) /\ r = <<Head(r)>> \o Tail(r)
    OBVIOUS
  <1>2. Append(s, Head(r)) = s \o <<Head(r)>>
    BY <1>1, AppendIsConcat
  <1>3. <<Head(r)>> \in Seq(S)
    BY <1>1
  <1>4. (s \o <<Head(r)>>) \o Tail(r) = s \o r
    BY <1>1, <1>3, ConcatAssociative
  <1>5. Append(s, Head(r)) \in Seq(S) /\ Append(s, Head(r)) # <<>>
    BY <1>1, AppendProperties
  <1> QED
    BY <1>1, <1>2, <1>4, <1>5

LEMMA ConcatIsPrefix ==
    ASSUME NEW S, NEW s \in Seq(S), NEW r \in Seq(S)
    PROVE  IsPrefix(s, s \o r)
  <1>1. /\ Len(s) \in Nat /\ Len(s \o r) = Len(s) + Len(r) /\ Len(r) \in Nat
        /\ s \o r \in Seq(S)
    OBVIOUS
  <1>2. SubSeq(s, 1, Len(s)) = s
    BY SubSeqFull
  <1>3. SubSeq(s \o r, 1, Len(s)) = s
    OBVIOUS
  <1> QED
    BY <1>1, <1>2, <1>3 DEF IsPrefix

LEMMA EventsStep ==
    ASSUME EventsOK, NEW e \in Events, Concerns(e), EventOK(e)'
    PROVE  EventsOK'
  <1>1. ASSUME NEW d \in Events \ {e}
        PROVE  EventOK(d)'
    BY <1>1 DEF EventsOK, EventOK, Concerns
  <1> QED
    BY <1>1 DEF EventsOK

\* A step that moves no activation and stamps no event.
LEMMA QuietStep ==
    ASSUME StacksOK, EventsOK, UNCHANGED <<swing, stack, status, cache, history>>
    PROVE  StacksOK' /\ EventsOK'
  <1>1. \A u : Held(u)' = Held(u)
    BY DEF Held, swing
  <1>2. Consistent' = Consistent
    BY DEF Consistent, history
  <1>3. Apart' /\ Staged' /\ Waiting' /\ OnDispatchThread'
    BY <1>1, <1>2 DEF StacksOK, Apart, Staged, Waiting, OnDispatchThread, Owners, swing, history
  <1>4. EventsOK'
    BY DEF EventsOK, EventOK, history
  <1> QED
    BY <1>3, <1>4 DEF StacksOK, swing

\* The innermost activation of t, f, and its event, e.
LEMMA TopFacts ==
    ASSUME IInv, NEW t \in Threads, stack[t] # <<>>
    PROVE  \E f \in Consistent, e \in Events :
               /\ f = Top(t) /\ e = f.event /\ f \in Frames
               /\ f.todo \in Seq(Subscribers) /\ f.veto \in Seq(Vetoers)
               /\ f.pc # "start" => edt \in {Null, t}
               /\ EventOK(e)
               /\ audience[e] \in Seq(Subscribers) /\ called[e] \in Seq(Subscribers)
               /\ judges[e] \in Seq(Vetoers) /\ passed[e] \in Seq(Vetoers)
  <1>1. /\ Top(t) \in Consistent /\ Top(t).event \in Events
        /\ Top(t) = stack[t][1] /\ 1 \in 1..Len(stack[t])
    BY TopIsApart DEF IInv
  <1>2. Top(t).pc # "start" => edt \in {Null, t}
    BY <1>1 DEF IInv, StacksOK, OnDispatchThread
  <1>3. /\ Top(t) \in Frames
        /\ Top(t).todo \in Seq(Subscribers) /\ Top(t).veto \in Seq(Vetoers)
    BY <1>1 DEF Consistent, Frames
  <1>4. \A e \in Events :
            /\ EventOK(e)
            /\ audience[e] \in Seq(Subscribers) /\ called[e] \in Seq(Subscribers)
            /\ judges[e] \in Seq(Vetoers) /\ passed[e] \in Seq(Vetoers)
    BY DEF IInv, EventsOK, TypeOK
  <1> QED
    BY <1>1, <1>2, <1>3, <1>4

LEMMA AskVetoerInv ==
    ASSUME IInv, NEW t \in Threads, AskVetoer(t)
    PROVE  IInv'
  <1>1. stack[t] # <<>>
    BY DEF AskVetoer, At
  <1>2. PICK f \in Consistent, e \in Events :
            /\ f = Top(t) /\ e = f.event /\ f \in Frames
            /\ f.pc # "start" => edt \in {Null, t}
            /\ EventOK(e)
    BY <1>1, TopFacts
  <1> DEFINE g == [f EXCEPT !.pc = "inVetoer"]
  <1>3. /\ f.pc = "vetoing" /\ f.veto # <<>> /\ Goto(t, g)
        /\ UNCHANGED <<tables, lock, cleanups, swing, status, cache, history>>
    BY <1>2 DEF AskVetoer, At
  <1>4. g \in Consistent' /\ g.event = e
    BY <1>2, <1>3 DEF Consistent, Frames, Points, history
  <1>5. Concerns(e) /\ EventOK(e)'
    BY <1>2, <1>3 DEF Concerns, EventOK, history
  <1> HIDE DEF g
  <1>6. StacksOK'
    BY <1>1, <1>2, <1>3, <1>4, <1>5, GotoStacks DEF IInv
  <1>7. EventsOK'
    BY <1>5, EventsStep DEF IInv
  <1>8. TypeOK'
    BY <1>3, <1>6 DEF IInv, TypeOK, StacksOK, tables, swing, history
  <1> QED
    BY <1>6, <1>7, <1>8 DEF IInv

\* What has passed and what is left make up the judges, before and after.
LEMMA PassVetoInv ==
    ASSUME IInv, NEW t \in Threads, PassVeto(t)
    PROVE  IInv'
  <1>1. stack[t] # <<>>
    BY DEF PassVeto, At
  <1>2. PICK f \in Consistent, e \in Events :
            /\ f = Top(t) /\ e = f.event /\ f \in Frames
            /\ f.todo \in Seq(Subscribers) /\ f.veto \in Seq(Vetoers)
            /\ f.pc # "start" => edt \in {Null, t}
            /\ EventOK(e) /\ passed[e] \in Seq(Vetoers)
    BY <1>1, TopFacts
  <1> DEFINE g == [f EXCEPT !.pc = "vetoing", !.veto = Tail(@)]
             p == Append(passed[e], Head(f.veto))
  <1>3. /\ f.pc = "inVetoer" /\ Goto(t, g)
        /\ passed' = [passed EXCEPT ![e] = p]
        /\ UNCHANGED <<tables, lock, cleanups, swing, status, cache, audience, judges, called>>
    BY <1>2 DEF PassVeto, At
  <1>4. f.veto # <<>> /\ status[e] = "Initiated" /\ passed[e] \o f.veto = judges[e]
    BY <1>2, <1>3 DEF Consistent
  <1>5. /\ p \in Seq(Vetoers) /\ Tail(f.veto) \in Seq(Vetoers)
        /\ p \o Tail(f.veto) = judges[e]
    <2>1. passed[e] \in Seq(Vetoers) /\ f.veto \in Seq(Vetoers) /\ f.veto # <<>>
      BY <1>2, <1>4
    <2>2. /\ p \in Seq(Vetoers) /\ Tail(f.veto) \in Seq(Vetoers)
          /\ p \o Tail(f.veto) = passed[e] \o f.veto
      BY <2>1, HeadMoves, Zenon
    <2> QED
      BY <1>4, <2>2
  <1> HIDE DEF p
  <1>6. passed'[e] = p /\ passed' \in [Events -> Seq(Vetoers)]
    BY <1>3, <1>5 DEF IInv, TypeOK
  <1>7. g \in Consistent' /\ g.event = e
    <2>1. g \in Frames /\ g.event = e /\ g.pc = "vetoing" /\ g.veto = Tail(f.veto)
          /\ g.todo = f.todo
      BY <1>2, <1>5 DEF Frames, Points
    <2>2. called[e] \o g.todo = audience[e]
      BY <1>2, <1>3, <2>1 DEF Consistent
    <2> HIDE DEF g
    <2> QED
      BY <1>3, <1>4, <1>5, <1>6, <2>1, <2>2 DEF Consistent
  <1>8. Concerns(e) /\ EventOK(e)'
    BY <1>2, <1>3, <1>4, <1>6 DEF Concerns, EventOK, IInv, TypeOK
  <1> HIDE DEF g
  <1>9. StacksOK'
    BY <1>1, <1>2, <1>3, <1>7, <1>8, GotoStacks DEF IInv
  <1>10. EventsOK'
    BY <1>8, EventsStep DEF IInv
  <1>11. TypeOK'
    BY <1>3, <1>6, <1>9 DEF IInv, TypeOK, StacksOK, tables, swing
  <1> QED
    BY <1>9, <1>10, <1>11 DEF IInv

LEMMA VetoInv ==
    ASSUME IInv, NEW t \in Threads, Veto(t)
    PROVE  IInv'
  <1>1. stack[t] # <<>>
    BY DEF Veto, At
  <1>2. PICK f \in Consistent, e \in Events :
            f = Top(t) /\ e = f.event /\ EventOK(e)
    BY <1>1, TopFacts
  <1>3. /\ f.pc = "inVetoer" /\ Return(t)
        /\ status' = [status EXCEPT ![e] = "Vetoed"]
        /\ UNCHANGED <<tables, lock, cleanups, swing, cache, history>>
    BY <1>2 DEF Veto, At, Stamp
  <1>4. status[e] = "Initiated"
    BY <1>2, <1>3 DEF Consistent
  <1>5. status' \in [Events -> Statuses] /\ status'[e] = "Vetoed"
    BY <1>3 DEF IInv, TypeOK, Statuses
  <1>6. Concerns(e) /\ EventOK(e)'
    BY <1>2, <1>3, <1>4, <1>5 DEF Concerns, EventOK, history, IInv, TypeOK
  <1>7. StacksOK'
    BY <1>1, <1>2, <1>3, <1>6, ReturnStacks DEF IInv
  <1>8. EventsOK'
    BY <1>6, EventsStep DEF IInv
  <1>9. TypeOK'
    BY <1>3, <1>5, <1>7 DEF IInv, TypeOK, StacksOK, tables, swing, history
  <1> QED
    BY <1>7, <1>8, <1>9 DEF IInv

\* What a failed publication has done stays as it is.
LEMMA CallbackThrowsInv ==
    ASSUME IInv, NEW t \in Threads, CallbackThrows(t)
    PROVE  IInv'
  <1>1. stack[t] # <<>>
    BY DEF CallbackThrows, At
  <1>2. PICK f \in Consistent, e \in Events :
            f = Top(t) /\ e = f.event /\ EventOK(e)
    BY <1>1, TopFacts
  <1>3. Return(t) /\ UNCHANGED <<tables, lock, cleanups, swing, status, cache, history>>
    BY DEF CallbackThrows
  <1>4. Concerns(e) /\ EventOK(e)'
    BY <1>2, <1>3 DEF Concerns, EventOK, history
  <1>5. StacksOK'
    BY <1>1, <1>2, <1>3, <1>4, ReturnStacks DEF IInv
  <1>6. EventsOK'
    BY <1>4, EventsStep DEF IInv
  <1>7. TypeOK'
    BY <1>3, <1>5 DEF IInv, TypeOK, StacksOK, tables, swing, history
  <1> QED
    BY <1>5, <1>6, <1>7 DEF IInv

\* No vetoer is left: all have passed.
LEMMA QueueInv ==
    ASSUME IInv, NEW t \in Threads, Queue(t)
    PROVE  IInv'
  <1>1. stack[t] # <<>>
    BY DEF Queue, At
  <1>2. PICK f \in Consistent, e \in Events :
            /\ f = Top(t) /\ e = f.event /\ f \in Frames
            /\ f.pc # "start" => edt \in {Null, t}
            /\ EventOK(e) /\ passed[e] \in Seq(Vetoers)
    BY <1>1, TopFacts
  <1> DEFINE g == [f EXCEPT !.pc = "queued"]
  <1>3. /\ f.pc = "vetoing" /\ f.veto = <<>> /\ Goto(t, g)
        /\ status' = [status EXCEPT ![e] = "Queued"]
        /\ UNCHANGED <<tables, lock, cleanups, swing, cache, history>>
    BY <1>2 DEF Queue, At, Stamp
  <1>4. status[e] = "Initiated" /\ passed[e] \o f.veto = judges[e]
    BY <1>2, <1>3 DEF Consistent
  <1>5. passed[e] = judges[e]
    BY <1>2, <1>3, <1>4, EmptyFirst
  <1>6. status' \in [Events -> Statuses] /\ status'[e] = "Queued"
    BY <1>3 DEF IInv, TypeOK, Statuses
  <1>7. g \in Consistent' /\ g.event = e
    BY <1>2, <1>3, <1>6 DEF Consistent, Frames, Points, history
  <1>8. Concerns(e) /\ EventOK(e)'
    BY <1>2, <1>3, <1>4, <1>5, <1>6 DEF Concerns, EventOK, history, IInv, TypeOK
  <1> HIDE DEF g
  <1>9. StacksOK'
    BY <1>1, <1>2, <1>3, <1>7, <1>8, GotoStacks DEF IInv
  <1>10. EventsOK'
    BY <1>8, EventsStep DEF IInv
  <1>11. TypeOK'
    BY <1>3, <1>6, <1>9 DEF IInv, TypeOK, StacksOK, tables, swing, history
  <1> QED
    BY <1>9, <1>10, <1>11 DEF IInv

LEMMA NewestType ==
    ASSUME NEW S, NEW s \in Seq(S)
    PROVE  Newest(s) \in Seq(S) /\ \A x : Contains(Newest(s), x) => Contains(s, x)
  <1> DEFINE n == IF Len(s) < CacheSize THEN Len(s) ELSE CacheSize
  <1>1. n \in Int /\ n <= Len(s) /\ Len(s) \in Nat
    BY PublicationAssumption
  <1> HIDE DEF n
  <1>2. /\ SubSeq(s, 1, n) \in Seq(S)
        /\ \A i \in 1..Len(SubSeq(s, 1, n)) : i \in 1..Len(s) /\ SubSeq(s, 1, n)[i] = s[i]
    BY <1>1, SubSeqProperties
  <1> QED
    BY <1>2 DEF Newest, Contains, n

\* Nobody is to be called, or the calls begin.
LEMMA AddEventToCacheInv ==
    ASSUME IInv, NEW t \in Threads, AddEventToCache(t)
    PROVE  IInv'
  <1>1. stack[t] # <<>>
    BY DEF AddEventToCache, At
  <1>2. PICK f \in Consistent, e \in Events :
            /\ f = Top(t) /\ e = f.event /\ f \in Frames
            /\ f.pc # "start" => edt \in {Null, t}
            /\ EventOK(e) /\ called[e] \in Seq(Subscribers)
    BY <1>1, TopFacts
  <1> DEFINE g == [f EXCEPT !.pc = "calling"]
             c == Newest(<<e>> \o cache)
  <1>3. /\ f.pc = "queued" /\ cache' = c
        /\ IF f.todo = <<>>
           THEN status' = [status EXCEPT ![e] = "Completed"] /\ Return(t)
           ELSE status' = [status EXCEPT ![e] = "Publishing"] /\ Goto(t, g)
        /\ UNCHANGED <<tables, lock, cleanups, swing, history>>
    BY <1>2 DEF AddEventToCache, At, Stamp
  <1>4. /\ status[e] = "Queued" /\ called[e] \o f.todo = audience[e]
        /\ called[e] = <<>> /\ passed[e] = judges[e]
    BY <1>2, <1>3 DEF Consistent, EventOK
  <1>5. c \in Seq(Events) /\ \A d \in Events : Contains(c, d) => Contains(cache, d) \/ d = e
    <2>1. cache \in Seq(Events) /\ <<e>> \o cache \in Seq(Events)
      BY DEF IInv, TypeOK
    <2>2. \A d : Contains(<<e>> \o cache, d) => Contains(cache, d) \/ d = e
      BY <2>1 DEF Contains
    <2> QED
      BY <2>1, <2>2, NewestType
  <1> HIDE DEF c
  <1>6. /\ status' \in [Events -> Statuses]
        /\ status'[e] = IF f.todo = <<>> THEN "Completed" ELSE "Publishing"
    BY <1>3 DEF IInv, TypeOK, Statuses
  <1>7. Concerns(e)
    BY <1>3, <1>5 DEF Concerns, history, IInv, TypeOK
  <1>8. EventOK(e)'
    <2>1. f.todo = <<>> => called[e] = audience[e]
      BY <1>2, <1>4, EmptyFirst
    <2> QED
      BY <1>2, <1>3, <1>4, <1>6, <2>1 DEF EventOK, history
  <1>9. StacksOK'
    <2>1. CASE f.todo = <<>>
      BY <1>1, <1>2, <1>3, <1>7, <2>1, ReturnStacks DEF IInv
    <2>2. CASE f.todo # <<>>
      <3>1. g \in Consistent' /\ g.event = e
        BY <1>2, <1>3, <1>4, <1>6, <2>2 DEF Consistent, Frames, Points, history
      <3> HIDE DEF g
      <3> QED
        BY <1>1, <1>2, <1>3, <1>7, <2>2, <3>1, GotoStacks DEF IInv
    <2> QED
      BY <2>1, <2>2
  <1>10. EventsOK'
    BY <1>7, <1>8, EventsStep DEF IInv
  <1>11. TypeOK'
    BY <1>3, <1>5, <1>6, <1>9 DEF IInv, TypeOK, StacksOK, tables, swing, history
  <1> QED
    BY <1>9, <1>10, <1>11 DEF IInv

\* Who has been called and who is left make up the audience, before and after.
LEMMA CallSubscriberInv ==
    ASSUME IInv, NEW t \in Threads, CallSubscriber(t)
    PROVE  IInv'
  <1>1. stack[t] # <<>>
    BY DEF CallSubscriber, At
  <1>2. PICK f \in Consistent, e \in Events :
            /\ f = Top(t) /\ e = f.event /\ f \in Frames
            /\ f.todo \in Seq(Subscribers)
            /\ f.pc # "start" => edt \in {Null, t}
            /\ EventOK(e) /\ called[e] \in Seq(Subscribers)
    BY <1>1, TopFacts
  <1> DEFINE g == [f EXCEPT !.pc = "inSubscriber"]
             c == Append(called[e], Head(f.todo))
  <1>3. /\ f.pc = "calling" /\ f.todo # <<>> /\ Goto(t, g)
        /\ called' = [called EXCEPT ![e] = c]
        /\ UNCHANGED <<tables, lock, cleanups, swing, status, cache, audience, judges, passed>>
    BY <1>2 DEF CallSubscriber, At
  <1>4. status[e] = "Publishing" /\ called[e] \o f.todo = audience[e]
    BY <1>2, <1>3 DEF Consistent
  <1>5. /\ c \in Seq(Subscribers) /\ Tail(f.todo) \in Seq(Subscribers)
        /\ c \o Tail(f.todo) = audience[e]
    <2>1. called[e] \in Seq(Subscribers) /\ f.todo \in Seq(Subscribers) /\ f.todo # <<>>
      BY <1>2, <1>3
    <2>2. /\ c \in Seq(Subscribers) /\ Tail(f.todo) \in Seq(Subscribers)
          /\ c \o Tail(f.todo) = called[e] \o f.todo
      BY <2>1, HeadMoves, Zenon
    <2> QED
      BY <1>4, <2>2
  <1> HIDE DEF c
  <1>6. IsPrefix(c, audience[e])
    BY <1>5, ConcatIsPrefix
  <1>7. called'[e] = c /\ called' \in [Events -> Seq(Subscribers)]
    BY <1>3, <1>5 DEF IInv, TypeOK
  <1>8. g \in Consistent' /\ g.event = e
    <2>1. g \in Frames /\ g.event = e /\ g.pc = "inSubscriber" /\ g.todo = f.todo
      BY <1>2 DEF Frames, Points
    <2> HIDE DEF g
    <2> QED
      BY <1>3, <1>4, <1>5, <1>7, <2>1 DEF Consistent
  <1>9. Concerns(e) /\ EventOK(e)'
    BY <1>2, <1>3, <1>4, <1>6, <1>7 DEF Concerns, EventOK, IInv, TypeOK
  <1> HIDE DEF g
  <1>10. StacksOK'
    BY <1>1, <1>2, <1>3, <1>8, <1>9, GotoStacks DEF IInv
  <1>11. EventsOK'
    BY <1>9, EventsStep DEF IInv
  <1>12. TypeOK'
    BY <1>3, <1>7, <1>10 DEF IInv, TypeOK, StacksOK, tables, swing
  <1> QED
    BY <1>10, <1>11, <1>12 DEF IInv

LEMMA SubscriberReturnsInv ==
    ASSUME IInv, NEW t \in Threads, SubscriberReturns(t)
    PROVE  IInv'
  <1>1. stack[t] # <<>>
    BY DEF SubscriberReturns, At
  <1>2. PICK f \in Consistent, e \in Events :
            /\ f = Top(t) /\ e = f.event /\ f \in Frames
            /\ f.todo \in Seq(Subscribers)
            /\ f.pc # "start" => edt \in {Null, t}
            /\ EventOK(e)
    BY <1>1, TopFacts
  <1> DEFINE g == [f EXCEPT !.pc = "calling", !.todo = Tail(@)]
  <1>3. /\ f.pc = "inSubscriber" /\ Goto(t, g)
        /\ UNCHANGED <<tables, lock, cleanups, swing, status, cache, history>>
    BY <1>2 DEF SubscriberReturns, At
  <1>4. /\ status[e] = "Publishing" /\ f.todo # <<>>
        /\ called[e] \o Tail(f.todo) = audience[e]
    BY <1>2, <1>3 DEF Consistent
  <1>5. g \in Consistent' /\ g.event = e
    <2>1. Tail(f.todo) \in Seq(Subscribers)
      BY <1>2, <1>4
    <2>2. g \in Frames /\ g.event = e /\ g.pc = "calling" /\ g.todo = Tail(f.todo)
      BY <1>2, <2>1 DEF Frames, Points
    <2> HIDE DEF g
    <2> QED
      BY <1>3, <1>4, <2>2 DEF Consistent, history
  <1>6. Concerns(e) /\ EventOK(e)'
    BY <1>2, <1>3 DEF Concerns, EventOK, history
  <1> HIDE DEF g
  <1>7. StacksOK'
    BY <1>1, <1>2, <1>3, <1>5, <1>6, GotoStacks DEF IInv
  <1>8. EventsOK'
    BY <1>6, EventsStep DEF IInv
  <1>9. TypeOK'
    BY <1>3, <1>7 DEF IInv, TypeOK, StacksOK, tables, swing, history
  <1> QED
    BY <1>7, <1>8, <1>9 DEF IInv

\* No subscriber is left: all have been called.
LEMMA CompleteInv ==
    ASSUME IInv, NEW t \in Threads, Complete(t)
    PROVE  IInv'
  <1>1. stack[t] # <<>>
    BY DEF Complete, At
  <1>2. PICK f \in Consistent, e \in Events :
            /\ f = Top(t) /\ e = f.event
            /\ EventOK(e) /\ called[e] \in Seq(Subscribers)
    BY <1>1, TopFacts
  <1>3. /\ f.pc = "calling" /\ f.todo = <<>> /\ Return(t)
        /\ status' = [status EXCEPT ![e] = "Completed"]
        /\ UNCHANGED <<tables, lock, cleanups, swing, cache, history>>
    BY <1>2 DEF Complete, At, Stamp
  <1>4. status[e] = "Publishing" /\ called[e] \o f.todo = audience[e]
    BY <1>2, <1>3 DEF Consistent
  <1>5. called[e] = audience[e]
    BY <1>2, <1>3, <1>4, EmptyFirst
  <1>6. status' \in [Events -> Statuses] /\ status'[e] = "Completed"
    BY <1>3 DEF IInv, TypeOK, Statuses
  <1>7. Concerns(e) /\ EventOK(e)'
    BY <1>2, <1>3, <1>4, <1>5, <1>6 DEF Concerns, EventOK, history, IInv, TypeOK
  <1>8. StacksOK'
    BY <1>1, <1>2, <1>3, <1>7, ReturnStacks DEF IInv
  <1>9. EventsOK'
    BY <1>7, EventsStep DEF IInv
  <1>10. TypeOK'
    BY <1>3, <1>6, <1>8 DEF IInv, TypeOK, StacksOK, tables, swing, history
  <1> QED
    BY <1>8, <1>9, <1>10 DEF IInv

\* The snapshot of the subscribers becomes the audience, and all of it is to be called.
LEMMA PublishInv ==
    ASSUME IInv, NEW t \in Threads, NEW e \in Events, Publish(t, e)
    PROVE  IInv'
  <1> DEFINE order == Snapshot(lists["exact"] \o lists["class"])
             g == [event |-> e, pc |-> "start", todo |-> order, veto |-> <<>>]
  <1>1. /\ Unstarted(e)
        /\ stack' = [stack EXCEPT ![t] = <<g>> \o @]
        /\ audience' = [audience EXCEPT ![e] = order]
        /\ UNCHANGED <<tables, lock, cleanups, swing, status, cache, judges, passed, called>>
    BY DEF Publish
  <1>2. order \in Seq(Subscribers)
    <2>1. lists["exact"] \in Seq(Subscribers) /\ lists["class"] \in Seq(Subscribers)
      BY DEF IInv, TypeOK, Maps
    <2>2. lists["exact"] \o lists["class"] \in Seq(Subscribers)
      BY <2>1
    <2> QED
      BY <2>2, SnapshotType DEF Ranked
  <1> HIDE DEF order
  <1>3. audience'[e] = order /\ audience' \in [Events -> Seq(Subscribers)]
    BY <1>1, <1>2 DEF IInv, TypeOK
  <1>4. status[e] = "Unpublished" /\ e \notin ActiveEvents /\ called[e] = <<>>
    BY <1>1 DEF Unstarted, IInv, EventsOK, EventOK
  <1>5. /\ g \in Frames /\ g.event = e /\ g.pc = "start" /\ g.todo = order
    BY <1>2 DEF Frames, Points
  <1> HIDE DEF g
  <1>6. <<>> \o order = order /\ IsPrefix(<<>>, order)
    BY <1>2, EmptyFirst
  <1>7. g \in Consistent'
    BY <1>1, <1>3, <1>4, <1>5, <1>6 DEF Consistent
  <1>8. Concerns(e) /\ EventOK(e)'
    BY <1>1, <1>3, <1>4, <1>6 DEF Concerns, IInv, TypeOK, EventsOK, EventOK
  <1>9. StacksOK'
    BY <1>1, <1>4, <1>5, <1>7, <1>8, PushStacks DEF IInv
  <1>10. EventsOK'
    BY <1>8, EventsStep DEF IInv
  <1>11. TypeOK'
    BY <1>1, <1>3, <1>9 DEF IInv, TypeOK, StacksOK, tables, swing
  <1> QED
    BY <1>9, <1>10, <1>11 DEF IInv

\* The snapshot of the vetoers; the activation goes on here or into the queue.
LEMMA InitiateInv ==
    ASSUME IInv, NEW t \in Threads, Initiate(t)
    PROVE  IInv'
  <1>1. stack[t] # <<>>
    BY DEF Initiate, At
  <1>2. PICK f \in Consistent, e \in Events :
            /\ f = Top(t) /\ e = f.event /\ f \in Frames
            /\ EventOK(e) /\ called[e] \in Seq(Subscribers)
    BY <1>1, TopFacts
  <1> DEFINE v == Snapshot(vetoers)
             g == [f EXCEPT !.veto = v]
             h == [g EXCEPT !.pc = "vetoing"]
  <1>3. /\ f.pc = "start"
        /\ judges' = [judges EXCEPT ![e] = v]
        /\ IF edt \in {t, Null}
           THEN Goto(t, h) /\ status' = [status EXCEPT ![e] = "Initiated"] /\ UNCHANGED queue
           ELSE Return(t) /\ queue' = Append(queue, g) /\ UNCHANGED status
        /\ UNCHANGED <<tables, lock, cleanups, edt, cache, audience, passed, called>>
    BY <1>2 DEF Initiate, At, Stamp
  <1>4. v \in Seq(Vetoers)
    BY SnapshotType DEF IInv, TypeOK, Ranked
  <1> HIDE DEF v
  <1>5. judges'[e] = v /\ judges' \in [Events -> Seq(Vetoers)]
    BY <1>3, <1>4 DEF IInv, TypeOK
  <1>6. /\ status[e] = "Unpublished" /\ called[e] \o f.todo = audience[e]
        /\ called[e] = <<>> /\ passed[e] = <<>> /\ ~ Contains(cache, e)
    BY <1>2, <1>3 DEF Consistent, EventOK
  <1>7. <<>> \o v = v
    BY <1>4, EmptyFirst
  <1>8. /\ status' \in [Events -> Statuses]
        /\ status'[e] \in {"Unpublished", "Initiated"}
        /\ edt \in {t, Null} => status'[e] = "Initiated"
        /\ edt \notin {t, Null} => status'[e] = "Unpublished"
    BY <1>3, <1>6 DEF IInv, TypeOK, Statuses
  <1>9. Concerns(e)
    BY <1>3 DEF Concerns, IInv, TypeOK
  <1>10. EventOK(e)'
    BY <1>2, <1>3, <1>6, <1>8 DEF EventOK
  <1>11. StacksOK'
    <2>1. CASE edt \in {t, Null}
      <3>1. /\ h \in Frames /\ h.event = e /\ h.pc = "vetoing"
            /\ h.veto = v /\ h.todo = f.todo
        BY <1>2, <1>4 DEF Frames, Points
      <3> HIDE DEF h
      <3>2. h \in Consistent'
        BY <1>3, <1>5, <1>6, <1>7, <1>8, <2>1, <3>1 DEF Consistent
      <3>3. UNCHANGED swing
        BY <1>3, <2>1 DEF swing
      <3> QED
        BY <1>1, <1>2, <1>3, <1>9, <2>1, <3>1, <3>2, <3>3, GotoStacks DEF IInv
    <2>2. CASE edt \notin {t, Null}
      <3>1. /\ g \in Frames /\ g.event = e /\ g.pc = "start"
            /\ g.veto = v /\ g.todo = f.todo
        BY <1>2, <1>3, <1>4 DEF Frames, Points
      <3> HIDE DEF g
      <3>2. g \in Consistent'
        BY <1>3, <1>5, <1>6, <1>8, <2>2, <3>1 DEF Consistent
      <3> QED
        BY <1>1, <1>2, <1>3, <1>5, <1>9, <2>2, <3>1, <3>2, EnqueueStacks DEF IInv
    <2> QED
      BY <2>1, <2>2
  <1>12. EventsOK'
    BY <1>9, <1>10, EventsStep DEF IInv
  <1>13. TypeOK'
    BY <1>3, <1>5, <1>8, <1>11 DEF IInv, TypeOK, StacksOK, tables
  <1> QED
    BY <1>11, <1>12, <1>13 DEF IInv

\* The veto listeners of the snapshot were taken when the activation was queued.
LEMMA DispatchInv ==
    ASSUME IInv, NEW t \in Threads, Dispatch(t)
    PROVE  IInv'
  <1>1. PICK f \in Frames : f = Head(queue) /\ f = queue[1] /\ 1 \in 1..Len(queue)
    BY DEF Dispatch, IInv, TypeOK
  <1>2. f \in Consistent /\ f.pc = "start" /\ f.veto = judges[f.event]
    <2>1. Held(Null) = queue /\ Null \in Owners
      BY HeldType DEF IInv, Owners
    <2> QED
      BY <1>1, <2>1 DEF IInv, StacksOK, Staged, Waiting
  <1>3. PICK e \in Events : e = f.event
    BY DEF Frames
  <1>4. /\ EventOK(e) /\ judges[e] \in Seq(Vetoers)
    BY DEF IInv, EventsOK, TypeOK
  <1> DEFINE g == [f EXCEPT !.pc = "vetoing"]
  <1>5. /\ t = edt /\ queue # <<>>
        /\ stack' = [stack EXCEPT ![t] = <<g>> \o @] /\ queue' = Tail(queue)
        /\ status' = [status EXCEPT ![e] = "Initiated"]
        /\ UNCHANGED <<tables, lock, cleanups, edt, cache, history>>
    BY <1>1, <1>3 DEF Dispatch, Stamp
  <1>6. /\ status[e] = "Unpublished" /\ called[e] \o f.todo = audience[e]
        /\ passed[e] = <<>>
    BY <1>2, <1>3, <1>4 DEF Consistent, EventOK
  <1>7. <<>> \o judges[e] = judges[e]
    BY <1>4, EmptyFirst
  <1>8. status' \in [Events -> Statuses] /\ status'[e] = "Initiated"
    BY <1>5 DEF IInv, TypeOK, Statuses
  <1>9. g \in Consistent' /\ g.event = e
    <2>1. /\ g \in Frames /\ g.event = e /\ g.pc = "vetoing"
          /\ g.todo = f.todo /\ g.veto = judges[e]
      BY <1>2, <1>3 DEF Frames, Points
    <2> HIDE DEF g
    <2> QED
      BY <1>5, <1>6, <1>7, <1>8, <2>1 DEF Consistent, history
  <1>10. Concerns(e) /\ EventOK(e)'
    BY <1>4, <1>5, <1>6, <1>8 DEF Concerns, EventOK, history, IInv, TypeOK
  <1> HIDE DEF g
  <1>11. StacksOK'
    BY <1>1, <1>3, <1>5, <1>9, <1>10, DequeueStacks DEF IInv
  <1>12. EventsOK'
    BY <1>10, EventsStep DEF IInv
  <1>13. TypeOK'
    BY <1>5, <1>8, <1>11 DEF IInv, TypeOK, StacksOK, tables, history
  <1> QED
    BY <1>11, <1>12, <1>13 DEF IInv

\* Subscriptions, and the cleanup task taking and leaving the lock.
LEMMA QuietInv ==
    ASSUME IInv, NEW t \in Threads,
           \/ \E m \in Maps, s \in Subscribers : Subscribe(t, m, s) \/ Unsubscribe(t, m, s)
           \/ \E v \in Vetoers : SubscribeVetoListener(t, v) \/ UnsubscribeVetoListener(t, v)
           \/ BeginCleanup(t) \/ EndCleanup(t)
    PROVE  IInv'
  <1>1. UNCHANGED <<swing, stack, status, cache, history>>
    BY DEF Subscribe, Unsubscribe, SubscribeVetoListener, UnsubscribeVetoListener,
           BeginCleanup, EndCleanup
  <1>2. StacksOK' /\ EventsOK'
    BY <1>1, QuietStep DEF IInv
  <1>3. TypeOK'
    <2>1. ASSUME NEW m \in Maps, NEW s \in Subscribers, Subscribe(t, m, s)
          PROVE  TypeOK'
      <3>1. Resubscribed(lists[m], s) \in Seq(Subscribers)
        BY ResubscribedType DEF IInv, TypeOK
      <3> QED
        BY <2>1, <3>1 DEF Subscribe, IInv, TypeOK, swing, history
    <2>2. ASSUME NEW m \in Maps, NEW s \in Subscribers, Unsubscribe(t, m, s)
          PROVE  TypeOK'
      <3>1. Without(lists[m], s) \in Seq(Subscribers)
        BY <2>2, WithoutType DEF Unsubscribe, IInv, TypeOK
      <3> QED
        BY <2>2, <3>1 DEF Unsubscribe, IInv, TypeOK, swing, history
    <2>3. ASSUME NEW v \in Vetoers, SubscribeVetoListener(t, v)
          PROVE  TypeOK'
      <3>1. Resubscribed(vetoers, v) \in Seq(Vetoers)
        BY ResubscribedType DEF IInv, TypeOK
      <3> QED
        BY <2>3, <3>1 DEF SubscribeVetoListener, IInv, TypeOK, swing, history
    <2>4. ASSUME NEW v \in Vetoers, UnsubscribeVetoListener(t, v)
          PROVE  TypeOK'
      <3>1. Without(vetoers, v) \in Seq(Vetoers)
        BY <2>4, WithoutType DEF UnsubscribeVetoListener, IInv, TypeOK
      <3> QED
        BY <2>4, <3>1 DEF UnsubscribeVetoListener, IInv, TypeOK, swing, history
    <2>5. CASE BeginCleanup(t)
      <3>1. cleanups' \in 0..MaxCleanups
        BY <2>5, PublicationAssumption DEF BeginCleanup, IInv, TypeOK
      <3> QED
        BY <2>5, <3>1 DEF BeginCleanup, IInv, TypeOK, tables, swing, history
    <2>6. CASE EndCleanup(t)
      BY <2>6 DEF EndCleanup, IInv, TypeOK, tables, swing, history
    <2> QED
      BY <2>1, <2>2, <2>3, <2>4, <2>5, <2>6
  <1> QED
    BY <1>2, <1>3 DEF IInv

LEMMA NextInv == IInv /\ [Next]_vars => IInv'
  <1> SUFFICES ASSUME IInv, [Next]_vars
               PROVE  IInv'
    OBVIOUS
  <1>1. ASSUME NEW t \in Threads,
               \/ Initiate(t) \/ Dispatch(t) \/ AskVetoer(t) \/ PassVeto(t) \/ Veto(t)
               \/ Queue(t) \/ AddEventToCache(t) \/ CallSubscriber(t)
               \/ SubscriberReturns(t) \/ CallbackThrows(t) \/ Complete(t)
        PROVE  IInv'
    BY <1>1, InitiateInv, DispatchInv, AskVetoerInv, PassVetoInv, VetoInv, QueueInv,
       AddEventToCacheInv, CallSubscriberInv, SubscriberReturnsInv, CallbackThrowsInv,
       CompleteInv
  <1>2. ASSUME NEW t \in Threads, NEW e \in Events, Publish(t, e)
        PROVE  IInv'
    BY <1>2, PublishInv
  <1>3. ASSUME NEW t \in Threads,
               \/ \E m \in Maps, s \in Subscribers : Subscribe(t, m, s) \/ Unsubscribe(t, m, s)
               \/ \E v \in Vetoers : SubscribeVetoListener(t, v) \/ UnsubscribeVetoListener(t, v)
               \/ BeginCleanup(t) \/ EndCleanup(t)
        PROVE  IInv'
    BY <1>3, QuietInv
  <1>4. CASE UNCHANGED vars
    <2>1. StacksOK' /\ EventsOK'
      BY <1>4, QuietStep DEF IInv, vars
    <2>2. TypeOK'
      BY <1>4 DEF IInv, TypeOK, vars, tables, swing, history
    <2> QED
      BY <2>1, <2>2 DEF IInv
  <1> QED
    BY <1>1, <1>2, <1>3, <1>4 DEF Next, Proceed, ClientStep

LEMMA InitInv == Init => IInv
  <1> SUFFICES ASSUME Init
               PROVE  IInv
    OBVIOUS
  <1>1. TypeOK
    <2>1. \A S : <<>> \in Seq(S)
      OBVIOUS
    <2>2. 0 \in 0..MaxCleanups /\ "Unpublished" \in Statuses
      BY PublicationAssumption DEF Statuses
    <2> QED
      BY <2>1, <2>2 DEF Init, TypeOK
  <1>2. \A u \in Owners : Held(u) = <<>>
    BY DEF Init, Held, Owners
  <1>3. StacksOK
    BY <1>1, <1>2 DEF StacksOK, TypeOK, Apart, Staged, Waiting, OnDispatchThread, Init
  <1>4. ASSUME NEW e \in Events
        PROVE  EventOK(e)
    <2>1. ~ Contains(cache, e)
      BY DEF Init, Contains
    <2>2. IsPrefix(<<>>, <<>>)
      BY EmptyFirst DEF IsPrefix
    <2> QED
      BY <2>1, <2>2 DEF Init, EventOK
  <1> QED
    BY <1>1, <1>3, <1>4 DEF IInv, EventsOK

LEMMA AlwaysIInv == Spec => []IInv
  BY InitInv, NextInv, PTL DEF Spec
-----------------------------------------------------------------------------
(* The theorems. *)

\* The statuses, lists, queue and calls keep their types, however publish, the cleanup and
\* the dispatch thread interleave and the calls of subscribers and vetoers nest.
THEOREM TypeOKHolds == Spec => []TypeOK
  <1>1. IInv => TypeOK
    BY DEF IInv
  <1> QED
    BY <1>1, AlwaysIInv, PTL

\* The subscribers called are those of the snapshot that publish() took, in its order
\* and each once, on whichever thread and whatever is subscribed, unsubscribed or
\* published meanwhile.
THEOREM DeliversTheSnapshotHolds == Spec => []DeliversTheSnapshot
  <1>1. IInv => DeliversTheSnapshot
    <2> SUFFICES ASSUME IInv, NEW e \in Events
                 PROVE  /\ IsPrefix(called[e], audience[e])
                        /\ status[e] = "Completed" => called[e] = audience[e]
                        /\ \A t \in Threads : \A i \in 1..Len(stack[t]) :
                               LET f == stack[t][i]
                               IN f.event = e /\ f.pc # "inSubscriber" =>
                                      called[e] \o f.todo = audience[e]
                        /\ \A i \in 1..Len(queue) :
                               queue[i].event = e =>
                                   called[e] = <<>> /\ queue[i].todo = audience[e]
      BY DEF DeliversTheSnapshot
    <2>1. EventOK(e)
      BY DEF IInv, EventsOK
    <2>2. ASSUME NEW u \in Owners, NEW i \in 1..Len(Held(u)), Held(u)[i].event = e,
                 Held(u)[i].pc # "inSubscriber"
          PROVE  called[e] \o Held(u)[i].todo = audience[e]
      BY <2>2 DEF IInv, StacksOK, Staged, Consistent
    <2>3. ASSUME NEW i \in 1..Len(queue), queue[i].event = e
          PROVE  called[e] = <<>> /\ queue[i].todo = audience[e]
      <3>1. Held(Null) = queue /\ Null \in Owners /\ queue[i].pc = "start"
        BY HeldType DEF IInv, StacksOK, Owners, Waiting
      <3>2. /\ queue[i] \in Consistent
            /\ called[e] \o queue[i].todo = audience[e]
        BY <2>2, <2>3, <3>1 DEF IInv, StacksOK, Staged
      <3>3. called[e] = <<>> /\ queue[i].todo \in Seq(Subscribers)
        BY <2>1, <2>3, <3>1, <3>2 DEF Consistent, Frames, EventOK
      <3>4. <<>> \o queue[i].todo = queue[i].todo
        BY <3>3, EmptyFirst
      <3> QED
        BY <3>2, <3>3, <3>4
    <2>4. \A t \in Threads : t \in Owners /\ Held(t) = stack[t]
      BY HeldType DEF IInv, Owners
    <2> QED
      BY <2>1, <2>2, <2>3, <2>4 DEF EventOK
  <1> QED
    BY <1>1, AlwaysIInv, PTL

\* Nobody hears of an event, and no cache holds it, before every vetoer of its snapshot
\* has let it pass: a veto or an exception of one is final.
THEOREM VetoedIsNeverSeenHolds == Spec => []VetoedIsNeverSeen
  <1>1. IInv => VetoedIsNeverSeen
    BY DEF IInv, TypeOK, Statuses, EventsOK, EventOK, VetoedIsNeverSeen
  <1> QED
    BY <1>1, AlwaysIInv, PTL

\* A SwingEventService runs vetoers and subscribers on the event dispatch thread alone.
THEOREM CallsBackOnDispatchThreadHolds == Spec => []CallsBackOnDispatchThread
  <1>1. IInv => CallsBackOnDispatchThread
    BY DEF IInv, StacksOK, OnDispatchThread, CallsBackOnDispatchThread
  <1> QED
    BY <1>1, AlwaysIInv, PTL

\* What the innermost activation of t says of the status of its event.
LEMMA TopStatus ==
    ASSUME IInv, NEW t \in Threads, stack[t] # <<>>
    PROVE  /\ At(t, "start") => status[Top(t).event] = "Unpublished"
           /\ At(t, "vetoing") \/ At(t, "inVetoer") => status[Top(t).event] = "Initiated"
           /\ At(t, "queued") => status[Top(t).event] = "Queued"
           /\ At(t, "calling") \/ At(t, "inSubscriber") =>
                  status[Top(t).event] = "Publishing"
  <1>1. Top(t) \in Consistent
    BY TopIsApart DEF IInv
  <1> QED
    BY <1>1 DEF At, Consistent

\* A step stamps one event, with what its activation lets it be next.
LEMMA StepMovesOn ==
    ASSUME IInv, [Next]_vars, NEW e \in Events, status'[e] # status[e]
    PROVE  status'[e] \in NextStatus[status[e]]
  <1> USE DEF NextStatus
  <1>1. \A d, s : Stamp(d, s) => (d = e /\ status'[e] = s)
    BY DEF Stamp, IInv, TypeOK
  <1>2. ASSUME NEW t \in Threads, Initiate(t)
        PROVE  status'[e] \in NextStatus[status[e]]
    BY <1>1, <1>2, TopStatus DEF Initiate, At
  <1>3. ASSUME NEW t \in Threads, Dispatch(t)
        PROVE  status'[e] \in NextStatus[status[e]]
    <2>1. 1 \in 1..Len(queue) /\ Head(queue) = queue[1]
      BY <1>3 DEF Dispatch, IInv, TypeOK
    <2>2. Held(Null) = queue /\ Null \in Owners
      BY HeldType DEF IInv, Owners
    <2>3. Head(queue) \in Consistent /\ Head(queue).pc = "start"
      BY <2>1, <2>2 DEF IInv, StacksOK, Staged, Waiting
    <2> QED
      BY <1>1, <1>3, <2>3 DEF Dispatch, Consistent
  <1>4. ASSUME NEW t \in Threads, Veto(t) \/ Queue(t)
        PROVE  status'[e] \in NextStatus[status[e]]
    BY <1>1, <1>4, TopStatus DEF Veto, Queue, At
  <1>5. ASSUME NEW t \in Threads, AddEventToCache(t) \/ Complete(t)
        PROVE  status'[e] \in NextStatus[status[e]]
    BY <1>1, <1>5, TopStatus DEF AddEventToCache, Complete, At
  <1>6. ASSUME NEW t \in Threads,
               \/ AskVetoer(t) \/ PassVeto(t) \/ CallSubscriber(t) \/ SubscriberReturns(t)
               \/ CallbackThrows(t) \/ EndCleanup(t) \/ ClientStep(t)
        PROVE  status' = status
    BY <1>6 DEF AskVetoer, PassVeto, CallSubscriber, SubscriberReturns, CallbackThrows,
       EndCleanup, ClientStep, Subscribe, Unsubscribe, SubscribeVetoListener,
       UnsubscribeVetoListener, Publish, BeginCleanup
  <1> QED
    BY <1>2, <1>3, <1>4, <1>5, <1>6 DEF Next, Proceed, vars

\* The PublicationStatus of an event moves on, to the next state, and never back; a
\* vetoed or completed event is left alone.
THEOREM StatusMovesOnHolds == Spec => StatusMovesOn
  <1>1. IInv /\ [Next]_vars =>
            [\A e \in Events : status'[e] # status[e] => status'[e] \in NextStatus[status[e]]]_vars
    BY StepMovesOn
  <1> QED
    BY <1>1, AlwaysIInv, PTL DEF Spec, StatusMovesOn
-----------------------------------------------------------------------------
(* The order of the calls. *)

\* As long as nobody has had a priority, the lists need no sort.
PlainLists ==
    ~ prioritized =>
        \A m \in Maps : \A i \in 1..Len(lists[m]) : Priority[lists[m][i]] = 0

OrderInv == PlainLists /\ \A e \in Events : Ordered(audience[e])

\* The audience is fixed by publish(), from the lists as they are then.
LEMMA AudienceChanges ==
    ASSUME [Next]_vars
    PROVE  \/ UNCHANGED audience
           \/ \E t \in Threads, e \in Events :
                  /\ Publish(t, e)
                  /\ audience' = [audience EXCEPT ![e] =
                                     Snapshot(lists["exact"] \o lists["class"])]
  <1>1. ASSUME NEW t \in Threads, Proceed(t)
        PROVE  UNCHANGED audience
    BY <1>1 DEF Proceed, Initiate, Dispatch, AskVetoer, PassVeto, Veto, Queue,
       AddEventToCache, CallSubscriber, SubscriberReturns, CallbackThrows, Complete,
       EndCleanup, history
  <1>2. ASSUME NEW t \in Threads, NEW e \in Events, Publish(t, e)
        PROVE  audience' = [audience EXCEPT ![e] =
                               Snapshot(lists["exact"] \o lists["class"])]
    BY <1>2 DEF Publish
  <1>3. ASSUME NEW t \in Threads, ClientStep(t), ~ \E e \in Events : Publish(t, e)
        PROVE  UNCHANGED audience
    BY <1>3 DEF ClientStep, Subscribe, Unsubscribe, SubscribeVetoListener,
       UnsubscribeVetoListener, BeginCleanup, history
  <1> QED
    BY <1>1, <1>2, <1>3 DEF Next, vars, history

\* Before is kept when the two lists are put together and sorted.
THEOREM SnapshotIsFIFOHolds == Spec => SnapshotIsFIFO
  <1>1. ASSUME IInv, [Next]_vars, NEW e \in Events, NEW m \in Maps,
               NEW x \in Subscribers, NEW y \in Subscribers,
               audience'[e] # audience[e], Priority[x] = Priority[y],
               Before(lists[m], x, y)
        PROVE  Before(audience'[e], x, y)
    <2> DEFINE s == lists["exact"] \o lists["class"]
    <2>1. audience'[e] = Snapshot(s)
      <3>1. PICK d \in Events : audience' = [audience EXCEPT ![d] = Snapshot(s)]
        BY <1>1, AudienceChanges
      <3> HIDE DEF s
      <3> QED
        BY <1>1, <3>1 DEF IInv, TypeOK
    <2>2. lists["exact"] \in Seq(Subscribers) /\ lists["class"] \in Seq(Subscribers)
      BY <1>1 DEF IInv, TypeOK, Maps
    <2>3. Before(s, x, y)
      BY <1>1, <2>2, ConcatKeepsBefore DEF Maps
    <2>4. s \in Seq(Subscribers)
      BY <2>2
    <2> HIDE DEF s
    <2>5. Before(Sorted(s), x, y)
      BY <1>1, <2>3, <2>4, SortedIsStable DEF Ranked
    <2> QED
      BY <2>1, <2>3, <2>5 DEF Snapshot
  <1>2. IInv /\ [Next]_vars =>
            [\A e \in Events, m \in Maps, x, y \in Subscribers :
                audience'[e] # audience[e] /\ Priority[x] = Priority[y]
                    /\ Before(lists[m], x, y) => Before(audience'[e], x, y)]_vars
    BY <1>1
  <1> QED
    BY <1>2, AlwaysIInv, PTL DEF Spec, SnapshotIsFIFO

LEMMA NextPlainLists ==
    ASSUME IInv, PlainLists, [Next]_vars
    PROVE  PlainLists'
  <1> SUFFICES ASSUME ~ prioritized'
               PROVE  \A m \in Maps : \A i \in 1..Len(lists'[m]) : Priority[lists'[m][i]] = 0
    BY DEF PlainLists
  <1>1. \A m \in Maps : lists[m] \in Seq(Subscribers)
    BY DEF IInv, TypeOK
  <1>2. ~ prioritized =>
            \A m \in Maps : \A x : Contains(lists[m], x) => Priority[x] = 0
    BY DEF PlainLists, Contains
  <1>3. ASSUME NEW t \in Threads, NEW m \in Maps, NEW s \in Subscribers, Subscribe(t, m, s)
        PROVE  ~ prioritized /\ \A n \in Maps : \A x :
                   Contains(lists'[n], x) => Contains(lists[n], x) \/ Priority[x] = 0
    <2>1. Priority[s] = 0 /\ ~ prioritized
      BY <1>3 DEF Subscribe
    <2>2. \A x : Contains(Resubscribed(lists[m], s), x) => Contains(lists[m], x) \/ x = s
      BY <1>1, ResubscribedType
    <2> QED
      BY <1>3, <2>1, <2>2 DEF Subscribe, IInv, TypeOK
  <1>4. ASSUME NEW t \in Threads, NEW m \in Maps, NEW s \in Subscribers, Unsubscribe(t, m, s)
        PROVE  ~ prioritized /\ \A n \in Maps : \A x :
                   Contains(lists'[n], x) => Contains(lists[n], x) \/ Priority[x] = 0
    <2>1. \A x : Contains(Without(lists[m], s), x) => Contains(lists[m], x)
      BY <1>1, <1>4, WithoutType DEF Unsubscribe
    <2> QED
      BY <1>4, <2>1 DEF Unsubscribe, IInv, TypeOK
  <1>5. CASE UNCHANGED lists /\ (prioritized => prioritized')
    BY <1>5 DEF PlainLists
  <1>6. ASSUME ~ prioritized, \A n \in Maps : \A x :
                   Contains(lists'[n], x) => Contains(lists[n], x) \/ Priority[x] = 0
        PROVE  \A m \in Maps : \A i \in 1..Len(lists'[m]) : Priority[lists'[m][i]] = 0
    BY <1>2, <1>6 DEF Contains
  <1>7. ASSUME NEW t \in Threads, Proceed(t)
        PROVE  UNCHANGED <<lists, prioritized>>
    BY <1>7 DEF Proceed, Initiate, Dispatch, AskVetoer, PassVeto, Veto, Queue,
       AddEventToCache, CallSubscriber, SubscriberReturns, CallbackThrows, Complete,
       EndCleanup, tables
  <1>8. ASSUME NEW t \in Threads,
               \/ \E v \in Vetoers : SubscribeVetoListener(t, v) \/ UnsubscribeVetoListener(t, v)
               \/ \E e \in Events : Publish(t, e)
               \/ BeginCleanup(t)
        PROVE  UNCHANGED lists /\ (prioritized => prioritized')
    <2>1. ASSUME NEW v \in Vetoers, SubscribeVetoListener(t, v)
          PROVE  UNCHANGED lists /\ (prioritized => prioritized')
      BY <2>1 DEF SubscribeVetoListener
    <2>2. ASSUME NEW v \in Vetoers, UnsubscribeVetoListener(t, v)
          PROVE  UNCHANGED lists /\ (prioritized => prioritized')
      BY <2>2 DEF UnsubscribeVetoListener
    <2>3. ASSUME NEW e \in Events, Publish(t, e)
          PROVE  UNCHANGED lists /\ (prioritized => prioritized')
      BY <2>3 DEF Publish, tables
    <2>4. CASE BeginCleanup(t)
      BY <2>4 DEF BeginCleanup, tables
    <2> QED
      BY <1>8, <2>1, <2>2, <2>3, <2>4
  <1> QED
    BY <1>3, <1>4, <1>5, <1>6, <1>7, <1>8 DEF Next, ClientStep, vars, tables

\* A snapshot is in order: sorted, or of entries that are all without a priority.
LEMMA SnapshotIsOrdered ==
    ASSUME IInv, PlainLists
    PROVE  Ordered(Snapshot(lists["exact"] \o lists["class"]))
  <1> DEFINE s == lists["exact"] \o lists["class"]
  <1>1. lists["exact"] \in Seq(Subscribers) /\ lists["class"] \in Seq(Subscribers)
    BY DEF IInv, TypeOK, Maps
  <1>2. s \in Seq(Subscribers)
    BY <1>1
  <1>3. CASE prioritized
    <2> HIDE DEF s
    <2>1. Ordered(Sorted(s))
      BY <1>2, SortedIsOrdered DEF Ranked
    <2> QED
      BY <1>3, <2>1 DEF Snapshot, s
  <1>4. CASE ~ prioritized
    <2>1. /\ \A i \in 1..Len(lists["exact"]) : Priority[lists["exact"][i]] = 0
          /\ \A i \in 1..Len(lists["class"]) : Priority[lists["class"][i]] = 0
      BY <1>4 DEF PlainLists, Maps
    <2>2. \A i \in 1..Len(s) : Priority[s[i]] = 0
      <3>1. \A x : Contains(s, x) => Contains(lists["exact"], x) \/ Contains(lists["class"], x)
        BY <1>1, ConcatContains
      <3>2. \A x : Contains(lists["exact"], x) \/ Contains(lists["class"], x) =>
                Priority[x] = 0
        BY <2>1 DEF Contains
      <3> HIDE DEF s
      <3>3. \A i \in 1..Len(s) : Contains(s, s[i])
        BY DEF Contains
      <3> QED
        BY <3>1, <3>2, <3>3
    <2> HIDE DEF s
    <2>3. Ordered(s)
      BY <2>2 DEF Ordered
    <2> QED
      BY <1>4, <2>3 DEF Snapshot, s
  <1> QED
    BY <1>3, <1>4

LEMMA NextOrderInv == IInv /\ OrderInv /\ [Next]_vars => OrderInv'
  <1> SUFFICES ASSUME IInv, OrderInv, [Next]_vars
               PROVE  OrderInv'
    OBVIOUS
  <1>1. PlainLists'
    BY NextPlainLists DEF OrderInv
  <1>2. ASSUME NEW e \in Events
        PROVE  Ordered(audience'[e])
    <2> DEFINE s == Snapshot(lists["exact"] \o lists["class"])
    <2>1. Ordered(s)
      BY SnapshotIsOrdered DEF OrderInv
    <2>2. \/ UNCHANGED audience
          \/ \E d \in Events : audience' = [audience EXCEPT ![d] = s]
      BY AudienceChanges
    <2> HIDE DEF s
    <2>3. audience'[e] \in {audience[e], s}
      BY <2>2 DEF IInv, TypeOK
    <2> QED
      BY <2>1, <2>3 DEF OrderInv
  <1>3. (\A e \in Events : Ordered(audience[e]))'
    BY <1>2 DEF Ordered
  <1> QED
    BY <1>1, <1>3 DEF OrderInv

\* Subscribers are called in the order of their priorities, "no matter the call or the
\* resulting mix of subscribers": from the first prioritized subscriber or vetoer on
\* every snapshot is sorted, and before it there is nothing to sort.
THEOREM InPriorityOrderHolds == Spec => []InPriorityOrder
  <1>1. Init => OrderInv
    BY DEF Init, OrderInv, PlainLists, Ordered
  <1>2. Spec => []OrderInv
    BY <1>1, AlwaysIInv, NextOrderInv, PTL DEF Spec
  <1>3. IInv /\ OrderInv => InPriorityOrder
    <2> SUFFICES ASSUME IInv, OrderInv, NEW e \in Events,
                        NEW i \in 1..Len(called[e]), NEW j \in 1..Len(called[e]), i < j
                 PROVE  Priority[called[e][i]] <= Priority[called[e][j]]
      BY DEF InPriorityOrder
    <2>1. /\ called[e] \in Seq(Subscribers) /\ audience[e] \in Seq(Subscribers)
          /\ IsPrefix(called[e], audience[e])
      BY DEF IInv, TypeOK, EventsOK, EventOK
    <2>2. /\ Len(called[e]) \in Nat /\ Len(called[e]) <= Len(audience[e])
          /\ \A k \in 1..Len(called[e]) : called[e][k] = audience[e][k]
      <3>1. /\ Len(called[e]) <= Len(audience[e])
            /\ SubSeq(called[e], 1, Len(called[e])) = SubSeq(audience[e], 1, Len(called[e]))
        BY <2>1 DEF IsPrefix
      <3> QED
        BY <2>1, <3>1
    <2> QED
      BY <2>1, <2>2 DEF OrderInv, Ordered
  <1> QED
    BY <1>2, <1>3, AlwaysIInv, PTL
-----------------------------------------------------------------------------
(* Every step leaves an activation fewer steps. *)

LEMMA TailIsPart ==
    ASSUME NEW s \in Seq(Frames), s # <<>>
    PROVE  ToSet(Tail(s)) \subseteq ToSet(s)
  <1>1. /\ Tail(s) \in Seq(Frames) /\ Len(Tail(s)) = Len(s) - 1
        /\ \A i \in 1..Len(Tail(s)) : Tail(s)[i] = s[i + 1] /\ i + 1 \in 1..Len(s)
    OBVIOUS
  <1> QED
    BY <1>1 DEF ToSet

LEMMA PushedPart ==
    ASSUME NEW s \in Seq(Frames), NEW f
    PROVE  ToSet(<<f>> \o s) = {f} \cup ToSet(s)
  <1>1. \A i \in 1..Len(s) : s[i] = (<<f>> \o s)[i + 1] /\ i + 1 \in 1..Len(<<f>> \o s)
    OBVIOUS
  <1>2. \A i \in 1..Len(<<f>> \o s) :
            (<<f>> \o s)[i] = IF i = 1 THEN f ELSE s[i - 1]
    OBVIOUS
  <1>3. 1 \in 1..Len(<<f>> \o s) /\ (<<f>> \o s)[1] = f
    OBVIOUS
  <1>4. DOMAIN (<<f>> \o s) = 1..(Len(s) + 1) /\ DOMAIN s = 1..Len(s) /\ Len(s) \in Nat
    OBVIOUS
  <1>5. Len(<<f>> \o s) = Len(s) + 1
    OBVIOUS
  <1>6. PICK r : r = <<f>> \o s
    OBVIOUS
  <1>7. ToSet(r) = {r[i] : i \in 1..(Len(s) + 1)} /\ ToSet(s) = {s[i] : i \in 1..Len(s)}
    BY <1>4, <1>6 DEF ToSet
  <1>8. /\ \A i \in 1..Len(s) : s[i] = r[i + 1] /\ i + 1 \in 1..(Len(s) + 1)
        /\ \A i \in 1..(Len(s) + 1) : r[i] = f \/ \E j \in 1..Len(s) : r[i] = s[j]
        /\ r[1] = f /\ 1 \in 1..(Len(s) + 1)
    <2>1. \A i \in 1..(Len(s) + 1) : i # 1 => i - 1 \in 1..Len(s)
      BY <1>4
    <2> QED
      BY <1>1, <1>2, <1>3, <1>5, <1>6, <2>1
  <1>9. ToSet(r) = {f} \cup ToSet(s)
    BY <1>7, <1>8
  <1> QED
    BY <1>6, <1>9

LEMMA ActivationsAreHeld ==
    ASSUME StacksOK
    PROVE  \A f : f \in Activations <=> \E u \in Owners : \E i \in 1..Len(Held(u)) : f = Held(u)[i]
  <1>1. /\ queue \in Seq(Frames) /\ Held(Null) = queue
        /\ \A t \in Threads : stack[t] \in Seq(Frames) /\ Held(t) = stack[t]
    BY HeldType DEF StacksOK
  <1>2. \A f : f \in Activations <=>
            \/ \E i \in 1..Len(queue) : f = queue[i]
            \/ \E t \in Threads : \E i \in 1..Len(stack[t]) : f = stack[t][i]
    <2>1. ToSet(queue) = {queue[i] : i \in 1..Len(queue)}
      BY <1>1 DEF ToSet
    <2>2. \A t \in Threads : ToSet(stack[t]) = {stack[t][i] : i \in 1..Len(stack[t])}
      BY <1>1 DEF ToSet
    <2>3. \A f : f \in Activations <=>
              f \in ToSet(queue) \/ \E t \in Threads : f \in ToSet(stack[t])
      BY DEF Activations
    <2>4. \A f : f \in ToSet(queue) <=> \E i \in 1..Len(queue) : f = queue[i]
      BY <2>1
    <2>5. \A f : \A t \in Threads :
              f \in ToSet(stack[t]) <=> \E i \in 1..Len(stack[t]) : f = stack[t][i]
      BY <2>2
    <2> QED
      BY <2>3, <2>4, <2>5
  <1> QED
    BY <1>1, <1>2 DEF Owners

\* An event has one activation.
LEMMA OneActivation ==
    ASSUME StacksOK, NEW f \in Activations, NEW g \in Activations, f.event = g.event
    PROVE  f = g
  <1>1. PICK u \in Owners : \E i \in 1..Len(Held(u)) : f = Held(u)[i]
    BY ActivationsAreHeld
  <1>2. PICK i \in 1..Len(Held(u)) : f = Held(u)[i]
    BY <1>1
  <1>3. PICK v \in Owners : \E j \in 1..Len(Held(v)) : g = Held(v)[j]
    BY ActivationsAreHeld
  <1>4. PICK j \in 1..Len(Held(v)) : g = Held(v)[j]
    BY <1>3
  <1>5. u = v /\ i = j
    BY <1>2, <1>4 DEF StacksOK, Apart
  <1> QED
    BY <1>2, <1>4, <1>5

\* What the steps of the stacks and the queue make of the activations.
LEMMA ActivationsAfter ==
    ASSUME StacksOK, NEW t \in Threads
    PROVE  /\ stack[t] # <<>> /\ queue' = queue =>
                  /\ \A f : Goto(t, f) => Activations' \subseteq Activations \cup {f}
                  /\ Return(t) => Activations' \subseteq Activations
           /\ queue' = queue =>
                  \A f : stack' = [stack EXCEPT ![t] = <<f>> \o @]
                             => Activations' \subseteq Activations \cup {f}
  <1>1. stack \in [Threads -> Seq(Frames)]
    BY DEF StacksOK
  <1>2. ASSUME stack[t] # <<>>
        PROVE  /\ Tail(stack[t]) \in Seq(Frames)
               /\ ToSet(Tail(stack[t])) \subseteq ToSet(stack[t])
    BY <1>1, <1>2, TailIsPart
  <1>4. ASSUME NEW s, stack' = [stack EXCEPT ![t] = s], queue' = queue
        PROVE  Activations' \subseteq Activations \cup ToSet(s)
    BY <1>1, <1>4 DEF Activations
  <1>5. ASSUME stack[t] # <<>>, NEW f, Goto(t, f), queue' = queue
        PROVE  Activations' \subseteq Activations \cup {f}
    <2>1. ToSet(<<f>> \o Tail(stack[t])) = {f} \cup ToSet(Tail(stack[t]))
      BY <1>2, <1>5, PushedPart
    <2>2. Activations' \subseteq Activations \cup ToSet(<<f>> \o Tail(stack[t]))
      BY <1>4, <1>5 DEF Goto
    <2>3. ToSet(stack[t]) \subseteq Activations
      BY DEF Activations
    <2> QED
      BY <1>2, <1>5, <2>1, <2>2, <2>3
  <1>6. ASSUME stack[t] # <<>>, Return(t), queue' = queue
        PROVE  Activations' \subseteq Activations
    <2>1. Activations' \subseteq Activations \cup ToSet(Tail(stack[t]))
      BY <1>4, <1>6 DEF Return
    <2>2. ToSet(stack[t]) \subseteq Activations
      BY DEF Activations
    <2> QED
      BY <1>2, <1>6, <2>1, <2>2
  <1>7. ASSUME NEW f, stack' = [stack EXCEPT ![t] = <<f>> \o @], queue' = queue
        PROVE  Activations' \subseteq Activations \cup {f}
    <2>1. ToSet(<<f>> \o stack[t]) = {f} \cup ToSet(stack[t])
      BY <1>1, PushedPart
    <2>2. Activations' \subseteq Activations \cup ToSet(<<f>> \o stack[t])
      BY <1>4, <1>7
    <2>3. ToSet(stack[t]) \subseteq Activations
      BY DEF Activations
    <2> QED
      BY <2>1, <2>2, <2>3
  <1> QED
    BY <1>5, <1>6, <1>7

LEMMA TopIsAnActivation ==
    ASSUME StacksOK, NEW t \in Threads, stack[t] # <<>>
    PROVE  Top(t) \in Activations
  <1>1. t \in Owners /\ Held(t) = stack[t] /\ Top(t) = stack[t][1] /\ 1 \in 1..Len(stack[t])
    BY TopIsApart, HeldType DEF Owners
  <1> QED
    BY <1>1, ActivationsAreHeld

LEMMA ActivationsHaveEvents ==
    ASSUME StacksOK, NEW f \in Activations
    PROVE  f.event \in ActiveEvents
  <1>1. PICK u \in Owners : \E i \in 1..Len(Held(u)) : f = Held(u)[i]
    BY ActivationsAreHeld
  <1>2. f.event \in EventsIn(Held(u))
    BY <1>1 DEF EventsIn
  <1>3. \/ u = Null /\ Held(u) = queue
        \/ u \in Threads /\ Held(u) = stack[u]
    BY HeldType DEF Owners
  <1> QED
    BY <1>2, <1>3 DEF ActiveEvents

LEMMA EnqueuedActivation ==
    ASSUME StacksOK, NEW t \in Threads, stack[t] # <<>>, NEW h,
           Return(t), queue' = Append(queue, h)
    PROVE  Activations' \subseteq Activations \cup {h}
  <1>1. stack \in [Threads -> Seq(Frames)] /\ queue \in Seq(Frames)
    BY DEF StacksOK
  <1>2. ToSet(Tail(stack[t])) \subseteq ToSet(stack[t])
    BY <1>1, TailIsPart
  <1>3. ToSet(queue') \subseteq ToSet(queue) \cup {h}
    <2>1. DOMAIN Append(queue, h) = 1..(Len(queue) + 1) /\ DOMAIN queue = 1..Len(queue)
      BY <1>1
    <2>2. \A i \in 1..(Len(queue) + 1) :
              \/ Append(queue, h)[i] = h
              \/ i \in 1..Len(queue) /\ Append(queue, h)[i] = queue[i]
      BY <1>1
    <2>3. PICK r : r = Append(queue, h)
      OBVIOUS
    <2>4. \A x \in ToSet(r) : x \in ToSet(queue) \cup {h}
      BY <2>1, <2>2, <2>3 DEF ToSet
    <2> QED
      BY <2>3, <2>4
  <1>4. \A u \in Threads : ToSet(stack'[u]) \subseteq ToSet(stack[u])
    BY <1>1, <1>2 DEF Return
  <1> QED
    BY <1>3, <1>4 DEF Activations

LEMMA DispatchedActivation ==
    ASSUME StacksOK, NEW t \in Threads, NEW b, queue # <<>>,
           stack' = [stack EXCEPT ![t] = <<b>> \o @], queue' = Tail(queue)
    PROVE  Activations' \subseteq Activations \cup {b}
  <1>1. stack \in [Threads -> Seq(Frames)] /\ queue \in Seq(Frames)
    BY DEF StacksOK
  <1>2. ToSet(queue') \subseteq ToSet(queue)
    BY <1>1, TailIsPart
  <1>3. \A u \in Threads : ToSet(stack'[u]) \subseteq ToSet(stack[u]) \cup {b}
    BY <1>1, PushedPart
  <1> QED
    BY <1>2, <1>3 DEF Activations

\* What an activation under way makes of itself and of no other event's.
LeavesLess ==
    \A f \in Activations, g \in Activations' :
        f.event = g.event /\ f.pc # "start" => g = f \/ StepsLeft(g) < StepsLeft(f)

\* One activation goes on as b.
LEMMA OneGoesOn ==
    ASSUME StacksOK, NEW b, Activations' \subseteq Activations \cup {b},
           \A f \in Activations :
               f.event = b.event => f.pc = "start" \/ StepsLeft(b) < StepsLeft(f)
    PROVE  LeavesLess
  <1> SUFFICES ASSUME NEW f \in Activations, NEW g \in Activations',
                      f.event = g.event, f.pc # "start", g # f
               PROVE  StepsLeft(g) < StepsLeft(f)
    BY DEF LeavesLess
  <1>1. g \notin Activations
    BY OneActivation
  <1> QED
    BY <1>1

LEMMA NoneGoesOn ==
    ASSUME StacksOK, Activations' \subseteq Activations
    PROVE  LeavesLess
  BY OneActivation DEF LeavesLess

\* The steps that its top activation f makes on t.
LEMMA TopGoesOn ==
    ASSUME IInv, NEW t \in Threads, stack[t] # <<>>, NEW b,
           b.event = Top(t).event, Goto(t, b), queue' = queue,
           Top(t).pc = "start" \/ StepsLeft(b) < StepsLeft(Top(t))
    PROVE  LeavesLess
  <1>1. StacksOK
    BY DEF IInv
  <1>2. Top(t) \in Activations
    BY <1>1, TopIsAnActivation
  <1>3. \A f \in Activations : f.event = b.event => f = Top(t)
    BY <1>1, <1>2, OneActivation
  <1>4. Activations' \subseteq Activations \cup {b}
    BY <1>1, ActivationsAfter
  <1> QED
    BY <1>1, <1>3, <1>4, OneGoesOn

\* The number of steps left, stage by stage.
LEMMA StepsLeftAt ==
    ASSUME NEW f, NEW n, n = 2 * (Len(f.veto) + Len(f.todo))
    PROVE  /\ f.pc = "vetoing" => StepsLeft(f) = n + 3
           /\ f.pc = "inVetoer" => StepsLeft(f) = n + 2
           /\ f.pc = "queued" => StepsLeft(f) = n + 2
           /\ f.pc = "calling" => StepsLeft(f) = n + 1
           /\ f.pc = "inSubscriber" => StepsLeft(f) = n + 0
  BY DEF StepsLeft

\* The stages a publication goes through, and what each does to its snapshots.
LEMMA NextStage ==
    ASSUME NEW f, NEW b, Len(f.veto) \in Nat, Len(f.todo) \in Nat,
           Len(b.veto) \in Nat, Len(b.todo) \in Nat
    PROVE  /\ Len(b.veto) = Len(f.veto) /\ Len(b.todo) = Len(f.todo) =>
                  /\ f.pc = "vetoing" /\ b.pc \in {"inVetoer", "queued"}
                         => StepsLeft(b) < StepsLeft(f)
                  /\ f.pc = "queued" /\ b.pc = "calling" => StepsLeft(b) < StepsLeft(f)
                  /\ f.pc = "calling" /\ b.pc = "inSubscriber" => StepsLeft(b) < StepsLeft(f)
           /\ /\ Len(b.veto) = Len(f.veto) - 1 /\ Len(b.todo) = Len(f.todo)
              /\ f.pc = "inVetoer" /\ b.pc = "vetoing"
              => StepsLeft(b) < StepsLeft(f)
           /\ /\ Len(b.veto) = Len(f.veto) /\ Len(b.todo) = Len(f.todo) - 1
              /\ f.pc = "inSubscriber" /\ b.pc = "calling"
              => StepsLeft(b) < StepsLeft(f)
  <1> DEFINE n == 2 * (Len(f.veto) + Len(f.todo))
             m == 2 * (Len(b.veto) + Len(b.todo))
  <1>0. PICK i, j, k, l \in Nat :
            i = Len(f.veto) /\ j = Len(f.todo) /\ k = Len(b.veto) /\ l = Len(b.todo)
    OBVIOUS
  <1>1. n = 2 * (i + j) /\ m = 2 * (k + l)
    BY <1>0
  <1> HIDE DEF n, m
  <1>2. /\ n \in Nat /\ m \in Nat
        /\ k = i /\ l = j => m = n
        /\ k = i - 1 /\ l = j => m = n - 2
        /\ k = i /\ l = j - 1 => m = n - 2
    BY <1>1
  <1> USE DEF n, m
  <1>3. /\ f.pc = "vetoing" => StepsLeft(f) = n + 3
        /\ f.pc = "inVetoer" => StepsLeft(f) = n + 2
        /\ f.pc = "queued" => StepsLeft(f) = n + 2
        /\ f.pc = "calling" => StepsLeft(f) = n + 1
        /\ f.pc = "inSubscriber" => StepsLeft(f) = n + 0
    BY StepsLeftAt
  <1>4. /\ b.pc = "vetoing" => StepsLeft(b) = m + 3
        /\ b.pc = "inVetoer" => StepsLeft(b) = m + 2
        /\ b.pc = "queued" => StepsLeft(b) = m + 2
        /\ b.pc = "calling" => StepsLeft(b) = m + 1
        /\ b.pc = "inSubscriber" => StepsLeft(b) = m + 0
    BY StepsLeftAt
  <1> HIDE DEF n, m
  <1> QED
    BY <1>0, <1>2, <1>3, <1>4

\* Each of the steps of an activation leaves fewer.
LEMMA StepLeavesLess ==
    ASSUME IInv, NEW t \in Threads, Proceed(t)
    PROVE  LeavesLess
  <1>1. StacksOK
    BY DEF IInv
  <1>2. ASSUME stack[t] # <<>>
        PROVE  /\ Top(t).todo \in Seq(Subscribers) /\ Top(t).veto \in Seq(Vetoers)
               /\ At(t, "inVetoer") => Top(t).veto # <<>>
               /\ At(t, "inSubscriber") => Top(t).todo # <<>>
               /\ DOMAIN Top(t) = {"event", "pc", "todo", "veto"}
    BY <1>1, <1>2, TopIsApart DEF Consistent, Frames, At
  <1>3. ASSUME stack[t] # <<>>, Return(t), queue' = queue
        PROVE  LeavesLess
    BY <1>1, <1>3, ActivationsAfter, NoneGoesOn
  <1>4. \A T : \A s \in Seq(T) : Len(s) \in Nat /\ (s # <<>> => Len(Tail(s)) = Len(s) - 1)
    OBVIOUS
  <1>5. CASE AskVetoer(t)
    <2> DEFINE b == [Top(t) EXCEPT !.pc = "inVetoer"]
    <2>1. /\ stack[t] # <<>> /\ Top(t).pc = "vetoing" /\ Goto(t, b) /\ queue' = queue
      BY <1>5 DEF AskVetoer, At, swing
    <2>2. /\ b.event = Top(t).event /\ b.pc = "inVetoer"
          /\ b.veto = Top(t).veto /\ b.todo = Top(t).todo
      BY <1>2, <2>1
    <2> HIDE DEF b
    <2>m. /\ Len(Top(t).veto) \in Nat /\ Len(Top(t).todo) \in Nat
          /\ Len(b.veto) \in Nat /\ Len(b.todo) \in Nat
      BY <1>2, <1>4, <2>1, <2>2 DEF At
    <2>3. StepsLeft(b) < StepsLeft(Top(t))
      BY <1>2, <1>4, <2>1, <2>2, <2>m, NextStage
    <2> QED
      BY <2>1, <2>2, <2>3, TopGoesOn
  <1>6. CASE PassVeto(t)
    <2> DEFINE b == [Top(t) EXCEPT !.pc = "vetoing", !.veto = Tail(@)]
    <2>1. /\ stack[t] # <<>> /\ Top(t).pc = "inVetoer" /\ Goto(t, b) /\ queue' = queue
      BY <1>6 DEF PassVeto, At, swing
    <2>2. /\ b.event = Top(t).event /\ b.pc = "vetoing"
          /\ Len(b.veto) = Len(Top(t).veto) - 1 /\ b.todo = Top(t).todo
      BY <1>2, <1>4, <2>1 DEF At
    <2> HIDE DEF b
    <2>m. /\ Len(Top(t).veto) \in Nat /\ Len(Top(t).todo) \in Nat
          /\ Len(b.veto) \in Nat /\ Len(b.todo) \in Nat
      BY <1>2, <1>4, <2>1, <2>2 DEF At
    <2>3. StepsLeft(b) < StepsLeft(Top(t))
      BY <1>2, <1>4, <2>1, <2>2, <2>m, NextStage
    <2> QED
      BY <2>1, <2>2, <2>3, TopGoesOn
  <1>7. CASE Queue(t)
    <2> DEFINE b == [Top(t) EXCEPT !.pc = "queued"]
    <2>1. /\ stack[t] # <<>> /\ Top(t).pc = "vetoing" /\ Goto(t, b) /\ queue' = queue
      BY <1>7 DEF Queue, At, swing
    <2>2. /\ b.event = Top(t).event /\ b.pc = "queued"
          /\ b.veto = Top(t).veto /\ b.todo = Top(t).todo
      BY <1>2, <2>1
    <2> HIDE DEF b
    <2>m. /\ Len(Top(t).veto) \in Nat /\ Len(Top(t).todo) \in Nat
          /\ Len(b.veto) \in Nat /\ Len(b.todo) \in Nat
      BY <1>2, <1>4, <2>1, <2>2 DEF At
    <2>3. StepsLeft(b) < StepsLeft(Top(t))
      BY <1>2, <1>4, <2>1, <2>2, <2>m, NextStage
    <2> QED
      BY <2>1, <2>2, <2>3, TopGoesOn
  <1>8. CASE AddEventToCache(t)
    <2> DEFINE b == [Top(t) EXCEPT !.pc = "calling"]
    <2>1. /\ stack[t] # <<>> /\ Top(t).pc = "queued" /\ queue' = queue
          /\ Return(t) \/ Goto(t, b)
      BY <1>8 DEF AddEventToCache, At, swing
    <2>2. /\ b.event = Top(t).event /\ b.pc = "calling"
          /\ b.veto = Top(t).veto /\ b.todo = Top(t).todo
      BY <1>2, <2>1
    <2> HIDE DEF b
    <2>m. /\ Len(Top(t).veto) \in Nat /\ Len(Top(t).todo) \in Nat
          /\ Len(b.veto) \in Nat /\ Len(b.todo) \in Nat
      BY <1>2, <1>4, <2>1, <2>2 DEF At
    <2>3. StepsLeft(b) < StepsLeft(Top(t))
      BY <1>2, <1>4, <2>1, <2>2, <2>m, NextStage
    <2> QED
      BY <1>3, <2>1, <2>2, <2>3, TopGoesOn
  <1>9. CASE CallSubscriber(t)
    <2> DEFINE b == [Top(t) EXCEPT !.pc = "inSubscriber"]
    <2>1. /\ stack[t] # <<>> /\ Top(t).pc = "calling" /\ Goto(t, b) /\ queue' = queue
      BY <1>9 DEF CallSubscriber, At, swing
    <2>2. /\ b.event = Top(t).event /\ b.pc = "inSubscriber"
          /\ b.veto = Top(t).veto /\ b.todo = Top(t).todo
      BY <1>2, <2>1
    <2> HIDE DEF b
    <2>m. /\ Len(Top(t).veto) \in Nat /\ Len(Top(t).todo) \in Nat
          /\ Len(b.veto) \in Nat /\ Len(b.todo) \in Nat
      BY <1>2, <1>4, <2>1, <2>2 DEF At
    <2>3. StepsLeft(b) < StepsLeft(Top(t))
      BY <1>2, <1>4, <2>1, <2>2, <2>m, NextStage
    <2> QED
      BY <2>1, <2>2, <2>3, TopGoesOn
  <1>10. CASE SubscriberReturns(t)
    <2> DEFINE b == [Top(t) EXCEPT !.pc = "calling", !.todo = Tail(@)]
    <2>1. /\ stack[t] # <<>> /\ Top(t).pc = "inSubscriber" /\ Goto(t, b) /\ queue' = queue
      BY <1>10 DEF SubscriberReturns, At, swing
    <2>2. /\ b.event = Top(t).event /\ b.pc = "calling"
          /\ Len(b.todo) = Len(Top(t).todo) - 1 /\ b.veto = Top(t).veto
      BY <1>2, <1>4, <2>1 DEF At
    <2> HIDE DEF b
    <2>m. /\ Len(Top(t).veto) \in Nat /\ Len(Top(t).todo) \in Nat
          /\ Len(b.veto) \in Nat /\ Len(b.todo) \in Nat
      BY <1>2, <1>4, <2>1, <2>2 DEF At
    <2>3. StepsLeft(b) < StepsLeft(Top(t))
      BY <1>2, <1>4, <2>1, <2>2, <2>m, NextStage
    <2> QED
      BY <2>1, <2>2, <2>3, TopGoesOn
  <1>11. CASE Veto(t) \/ CallbackThrows(t) \/ Complete(t)
    BY <1>3, <1>11 DEF Veto, CallbackThrows, Complete, At, swing
  <1>12. CASE Initiate(t)
    <2> DEFINE h == [Top(t) EXCEPT !.veto = Snapshot(vetoers)]
               b == [h EXCEPT !.pc = "vetoing"]
    <2>1. /\ stack[t] # <<>> /\ Top(t).pc = "start"
          /\ \/ Goto(t, b) /\ queue' = queue
             \/ Return(t) /\ queue' = Append(queue, h)
      BY <1>12 DEF Initiate, At
    <2>2. b.event = Top(t).event /\ h.event = Top(t).event
      BY <1>2, <2>1
    <2> HIDE DEF b, h
    <2>3. CASE Goto(t, b) /\ queue' = queue
      BY <2>1, <2>2, <2>3, TopGoesOn
    <2>4. CASE Return(t) /\ queue' = Append(queue, h)
      <3>1. Activations' \subseteq Activations \cup {h}
        BY <1>1, <2>1, <2>4, EnqueuedActivation
      <3>2. Top(t) \in Activations
        BY <1>1, <2>1, TopIsAnActivation
      <3>3. \A f \in Activations : f.event = h.event => f = Top(t)
        BY <1>1, <2>2, <3>2, OneActivation
      <3> QED
        BY <1>1, <2>1, <3>1, <3>3, OneGoesOn
    <2> QED
      BY <2>1, <2>3, <2>4
  <1>13. CASE Dispatch(t)
    <2> DEFINE b == [Head(queue) EXCEPT !.pc = "vetoing"]
    <2>1. Head(queue) \in Activations /\ Head(queue).pc = "start" /\ b.event = Head(queue).event
      <3>1. queue # <<>> /\ queue \in Seq(Frames)
        BY <1>1, <1>13 DEF Dispatch, StacksOK
      <3>2. 1 \in 1..Len(queue) /\ Head(queue) = queue[1] /\ queue[1] \in Frames
        BY <3>1
      <3>3. Null \in Owners /\ Held(Null) = queue
        BY <1>1, HeldType DEF Owners
      <3>4. Head(queue) \in Activations
        BY <1>1, <3>2, <3>3, ActivationsAreHeld
      <3>5. Head(queue).pc = "start"
        BY <1>1, <3>2 DEF StacksOK, Waiting
      <3> QED
        BY <3>2, <3>4, <3>5 DEF Frames
    <2>2. /\ stack' = [stack EXCEPT ![t] = <<b>> \o @]
          /\ queue' = Tail(queue) /\ queue # <<>>
      BY <1>13 DEF Dispatch
    <2> HIDE DEF b
    <2>3. Activations' \subseteq Activations \cup {b}
      BY <1>1, <2>2, DispatchedActivation
    <2>4. \A f \in Activations : f.event = b.event => f.pc = "start"
      BY <1>1, <2>1, OneActivation
    <2> QED
      BY <1>1, <2>3, <2>4, OneGoesOn
  <1>14. CASE EndCleanup(t)
    <2>1. Activations' = Activations
      BY <1>14 DEF EndCleanup, swing, Activations
    <2> QED
      BY <1>1, <2>1, NoneGoesOn
  <1> QED
    BY <1>5, <1>6, <1>7, <1>8, <1>9, <1>10, <1>11, <1>12, <1>13, <1>14 DEF Proceed

\* Whatever a callback throws, publishes or subscribes, and whatever other threads do, an
\* activation of publish() that has its snapshots has a number of steps left that every step
\* of its own lowers and no other step changes.
THEOREM PublicationNearsItsEndHolds == Spec => PublicationNearsItsEnd
  <1>1. ASSUME IInv, [Next]_vars
        PROVE  LeavesLess
    <2>0. StacksOK
      BY <1>1 DEF IInv
    <2>1. ASSUME NEW t \in Threads, Proceed(t) PROVE LeavesLess
      BY <1>1, <2>1, StepLeavesLess
    <2>2. ASSUME NEW t \in Threads, NEW e \in Events, Publish(t, e) PROVE LeavesLess
      <3> DEFINE b == [event |-> e, pc |-> "start", veto |-> <<>>,
                       todo |-> Snapshot(lists["exact"] \o lists["class"])]
      <3>1. /\ stack' = [stack EXCEPT ![t] = <<b>> \o @] /\ queue' = queue
            /\ e \notin ActiveEvents /\ b.event = e
        BY <2>2 DEF Publish, Unstarted, swing
      <3> HIDE DEF b
      <3>2. Activations' \subseteq Activations \cup {b}
        BY <2>0, <3>1, ActivationsAfter
      <3>3. \A f \in Activations : f.event # e
        BY <3>1, ActivationsHaveEvents, <2>0
      <3> QED
        BY <2>0, <3>1, <3>2, <3>3, OneGoesOn
    <2>3. CASE \/ \E t \in Threads : ClientStep(t) /\ ~ \E e \in Events : Publish(t, e)
               \/ UNCHANGED vars
      <3>1. stack' = stack /\ queue' = queue
        BY <2>3 DEF ClientStep, Subscribe, Unsubscribe, SubscribeVetoListener,
           UnsubscribeVetoListener, BeginCleanup, swing, vars
      <3>2. Activations' = Activations
        BY <3>1 DEF Activations
      <3> QED
        BY <2>0, <3>2, NoneGoesOn
    <2> QED
      BY <1>1, <2>1, <2>2, <2>3 DEF Next
  <1>2. IInv /\ [Next]_vars =>
            [\A f \in Activations, g \in Activations' :
                f.event = g.event /\ f.pc # "start" => g = f \/ StepsLeft(g) < StepsLeft(f)]_vars
    BY <1>1 DEF LeavesLess
  <1> QED
    BY <1>2, AlwaysIInv, PTL DEF Spec, PublicationNearsItsEnd
=============================================================================
