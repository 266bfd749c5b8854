------------------------ MODULE SubscriberRegistryProofs ----------------------
(* Proofs about SubscriberRegistry, for every value of its constants. *)
EXTENDS SubscriberRegistry, FiniteSetTheorems, TLAPS

\* Every nonempty set of natural numbers has a least element.
LEMMA LeastNat ==
    ASSUME NEW T, T \subseteq Nat, T # {}
    PROVE  \E x \in T : \A y \in T : x <= y
<1>. DEFINE R == OpToRel(<, Nat)
<1>1. IsWellFoundedOn(R, Nat)
  BY NatLessThanWellFounded
<1>2. PICK x \in T : \A y \in T : ~ (<<y, x>> \in R)
  <2>. HIDE DEF R
  <2>. QED BY <1>1, WFMin, Zenon
<1>3. \A y \in T : <<y, x>> \in R <=> y < x
  BY DEF OpToRel
<1>. HIDE DEF R
<1>4. \A y \in T : y \in Nat /\ x \in Nat /\ ~ (y < x)
  BY <1>2, <1>3
<1>. QED BY <1>4

\* The first entry of a nonempty part of a list is in it.
LEMMA FirstIsMember ==
    ASSUME NEW S, S \subseteq Entries, S # {}
    PROVE  First(S) \in S
<1>. DEFINE T == {e.at : e \in S}
<1>1. T \subseteq Nat /\ T # {}
  BY RegistryAssumption DEF Entries
<1>2. PICK x \in T : \A y \in T : x <= y
  <2>. HIDE DEF T
  <2>. QED BY <1>1, LeastNat
<1>3. PICK e \in S : e.at = x
  OBVIOUS
<1>4. \A f \in S : e.at <= f.at
  BY <1>2, <1>3
<1>. QED BY <1>4 DEF First
-----------------------------------------------------------------------------
(* Type correctness. *)

LEMMA RemoveType ==
    ASSUME TypeOK, NEW equal \in SUBSET subs, NEW scanned \in SUBSET subs,
           Remove(equal, scanned)
    PROVE  /\ subs' \subseteq subs
           /\ count' \in Nat
           /\ ret' \in BOOLEAN
<1>1. CASE equal \cup scanned = {}
  BY <1>1 DEF Remove, TypeOK
<1>2. CASE equal \cup scanned # {}
  <2>1. \A n \in Nat : Decremented(n) \in Nat
    BY DEF Decremented, TypeOK
  <2>2. count \in Nat /\ Decremented(1) \in Nat
    BY <2>1 DEF TypeOK
  <2>. QED BY <1>2, <2>2 DEF Remove
<1>. QED BY <1>1, <1>2

LEMMA DropStaleType ==
    ASSUME TypeOK, IsFiniteSet(subs), NEW c, DropStale(c)
    PROVE  subs' \subseteq subs /\ count' \in Nat
<1>. DEFINE stale == {e \in subs : Stale(e) /\ e.key \in Matching(c)}
<1>1. Cardinality(stale) \in Nat
  BY FS_Subset, FS_CardinalityType
<1>. QED BY <1>1 DEF DropStale, Decremented, TypeOK

\* The lists are finite: they only grow by one entry at a time.
FiniteOK == IsFiniteSet(subs)

LEMMA TypeStep == TypeOK /\ FiniteOK /\ [Next]_vars => TypeOK' /\ FiniteOK'
<1>. SUFFICES ASSUME TypeOK, FiniteOK, [Next]_vars
              PROVE  TypeOK' /\ FiniteOK'
  OBVIOUS
<1>. USE RegistryAssumption
<1>0. \A S \in SUBSET subs : IsFiniteSet(S) /\ Cardinality(S) \in Nat
  BY FS_Subset, FS_CardinalityType DEF FiniteOK
<1>a. \A S : Cleaned(S) \subseteq S
  BY DEF Cleaned
<1>1. ASSUME NEW k \in Keys, NEW o \in Objects, NEW kind \in Kinds, Subscribe(k, o, kind)
      PROVE  TypeOK' /\ FiniteOK'
  <2>. DEFINE new == [key |-> k, obj |-> o, kind |-> kind, at |-> calls + 1]
              keep == subs \ (Cleaned(At(k)) \cup Replaced(k, o, kind))
              left == Decremented(Cardinality(Cleaned(At(k))))
  <2>1. new \in Entries /\ calls' \in 0..MaxSubs
    BY <1>1 DEF Subscribe, TypeOK, Entries
  <2>2. subs' = keep \cup {new}
    BY <1>1 DEF Subscribe
  <2>3. Cleaned(At(k)) \in SUBSET subs
    BY <1>a DEF At
  <2>4. left \in Nat
    BY <2>3, <1>0 DEF Decremented, TypeOK
  <2>5. count' \in Nat /\ timer' \in {"none", "scheduled", "dead"} /\ ret' \in BOOLEAN
    BY <1>1, <2>4 DEF Subscribe, TypeOK, MayStartCleanup
  <2>6. FiniteOK'
    <3>1. IsFiniteSet(keep)
      BY <1>0
    <3>. HIDE DEF keep, new
    <3>. QED BY <3>1, <2>2, FS_AddElement DEF FiniteOK
  <2>. QED BY <1>1, <2>1, <2>2, <2>5, <2>6 DEF TypeOK, Subscribe, settings
<1>2. ASSUME NEW k \in Keys, NEW o \in Objects, Unsubscribe(k, o)
      PROVE  TypeOK' /\ FiniteOK'
  <2>. DEFINE equal == {e \in At(k) : e.kind = "strong" /\ e.obj = o}
              scanned == Cleaned(At(k)) \cup {e \in At(k) : e.kind # "strong" /\ e.obj = o}
  <2>1. subs' \subseteq subs /\ count' \in Nat /\ ret' \in BOOLEAN
    <3>1. equal \in SUBSET subs /\ scanned \in SUBSET subs
      BY <1>a DEF At
    <3>2. Remove(equal, scanned)
      BY <1>2 DEF Unsubscribe
    <3>. QED BY <3>1, <3>2, RemoveType
  <2>. QED BY <1>2, <2>1, <1>0 DEF Unsubscribe, TypeOK, settings, history, FiniteOK
<1>3. ASSUME NEW k \in Keys, NEW o \in Objects, FindProxy(k, o)
      PROVE  TypeOK' /\ FiniteOK'
  <2>1. subs' \subseteq subs /\ count' \in Nat
    BY <1>3, DropStaleType DEF FindProxy, FiniteOK
  <2>. DEFINE found(m) == {e \in subs : Proxy(e) /\ e.obj = o /\ e.key \in m}
              exact == found({[map |-> "exact", cls |-> k.cls]})
  <2>2. exact # {} => First(exact) \in Entries
    BY FirstIsMember DEF TypeOK
  <2>3. lookup' \in [key : Keys, entry : Entries] \cup {NoLookup} /\ ret' \in BOOLEAN
    <3>1. lookup' = lookup \/ \E e \in Entries : lookup' = [key |-> k, entry |-> e]
      BY <1>3, <2>2 DEF FindProxy, TypeOK
    <3>2. ret' \in BOOLEAN
      BY <1>3 DEF FindProxy, TypeOK
    <3>. QED BY <3>1, <3>2 DEF TypeOK
  <2>. QED BY <1>3, <2>1, <2>3, <1>0 DEF FindProxy, TypeOK, settings, history, FiniteOK
<1>4. CASE RemoveFound
  <2>1. subs' \subseteq subs /\ count' \in Nat /\ ret' \in BOOLEAN
    BY <1>4, <1>a, RemoveType DEF RemoveFound, At
  <2>. QED BY <1>4, <2>1, <1>0 DEF RemoveFound, TypeOK, settings, history, FiniteOK
<1>5. ASSUME NEW c \in Classes, GetSubscribers(c)
      PROVE  TypeOK' /\ FiniteOK'
  <2>1. subs' \subseteq subs /\ count' \in Nat
    BY <1>5, DropStaleType DEF GetSubscribers, FiniteOK
  <2>. QED BY <1>5, <2>1, <1>0 DEF GetSubscribers, TypeOK, settings, history, FiniteOK
<1>6. CASE ClearAllSubscribers
  <2>1. count' \in Nat
    BY <1>6, <1>0 DEF ClearAllSubscribers, Decremented, TypeOK
  <2>. QED BY <1>6, <2>1, FS_EmptySet DEF ClearAllSubscribers, TypeOK, settings, history, FiniteOK
<1>7. ASSUME NEW o \in Objects, Collect(o)
      PROVE  TypeOK' /\ FiniteOK'
  BY <1>7 DEF Collect, TypeOK, settings, history, FiniteOK
<1>b. ASSUME SweepStale PROVE subs' \subseteq subs /\ count' \in Nat
  <2>1. Cleaned(subs) \in SUBSET subs
    BY <1>a
  <2>. QED BY <1>b, <2>1, <1>0 DEF SweepStale, Decremented, TypeOK
<1>8. CASE CleanupStep \/ CleanupThrows
  <2>1. CASE RunCleanup
    BY <2>1, <1>b, <1>0 DEF RunCleanup, TypeOK, settings, history, FiniteOK
  <2>2. CASE CleanupThrows
    <3>1. subs' \subseteq subs /\ count' \in Nat
      BY <2>2, <1>b DEF CleanupThrows, TypeOK
    <3>. QED BY <2>2, <3>1, <1>0 DEF CleanupThrows, TypeOK, settings, history, FiniteOK
  <2>3. CASE CancelCleanup \/ CleanupFails
    BY <2>3 DEF CancelCleanup, CleanupFails, TypeOK, settings, history, FiniteOK
  <2>. QED BY <1>8, <2>1, <2>2, <2>3 DEF CleanupStep
<1>9. CASE Tune
  BY <1>9 DEF Tune, TypeOK, FiniteOK, settings
<1>10. CASE UNCHANGED vars
  BY <1>10 DEF vars, settings, history, TypeOK, FiniteOK
<1>. QED BY <1>1, <1>2, <1>3, <1>4, <1>5, <1>6, <1>7, <1>8, <1>9, <1>10 DEF Next

LEMMA TypeInit == Init => TypeOK /\ FiniteOK
<1>. SUFFICES ASSUME Init PROVE TypeOK /\ FiniteOK
  OBVIOUS
<1>1. subs \subseteq Entries /\ FiniteOK /\ collected \subseteq Objects
  BY FS_EmptySet DEF Init, FiniteOK
<1>2. calls \in 0..MaxSubs /\ count \in Nat /\ timer \in {"none", "scheduled", "dead"}
  BY RegistryAssumption DEF Init
<1>3. start \in StartValues /\ stop \in StopValues /\ period \in PeriodValues
  BY RegistryAssumption DEF Init
<1>4. /\ lookup \in [key : Keys, entry : Entries] \cup {NoLookup}
      /\ ret \in BOOLEAN /\ proxied \in BOOLEAN /\ tuned \in BOOLEAN
  BY DEF Init
<1>. QED BY <1>1, <1>2, <1>3, <1>4 DEF TypeOK

\* Every reachable state is of the declared type and its lists are finite.
THEOREM TypeCorrect == Spec => [](TypeOK /\ FiniteOK)
  BY TypeInit, TypeStep, PTL DEF Spec
-----------------------------------------------------------------------------
(* A subscriber is in a list once. *)

\* No entry is numbered beyond the last subscribe call, so a new one comes last.
StampsOK == \A e \in subs : e.at <= calls

LEMMA SubsetKeepsSingle ==
    ASSUME SingleSubscription, StampsOK, subs' \subseteq subs, UNCHANGED calls
    PROVE  SingleSubscription' /\ StampsOK'
  BY DEF SingleSubscription, StampsOK

\* Only Subscribe adds an entry.
LEMMA OthersOnlyRemove ==
    ASSUME TypeOK, FiniteOK, [Next]_vars,
           ~ \E k \in Keys, o \in Objects, kind \in Kinds : Subscribe(k, o, kind)
    PROVE  subs' \subseteq subs /\ UNCHANGED calls
<1>1. ASSUME NEW c, DropStale(c) PROVE subs' \subseteq subs
  BY <1>1 DEF DropStale
<1>2. ASSUME NEW equal, NEW scanned, Remove(equal, scanned) PROVE subs' \subseteq subs
  BY <1>2 DEF Remove
<1>. QED
  BY <1>1, <1>2 DEF Next, vars, Unsubscribe, FindProxy, RemoveFound, GetSubscribers,
     ClearAllSubscribers, Collect, CleanupStep, CancelCleanup, RunCleanup,
     CleanupFails, CleanupThrows, SweepStale, Tune

LEMMA SingleStep ==
    TypeOK /\ FiniteOK /\ SingleSubscription /\ StampsOK /\ [Next]_vars
        => SingleSubscription' /\ StampsOK'
<1>. SUFFICES ASSUME TypeOK, FiniteOK, SingleSubscription, StampsOK, [Next]_vars
              PROVE  SingleSubscription' /\ StampsOK'
  OBVIOUS
<1>1. ASSUME NEW k \in Keys, NEW o \in Objects, NEW kind \in Kinds, Subscribe(k, o, kind)
      PROVE  SingleSubscription' /\ StampsOK'
  <2>. DEFINE new == [key |-> k, obj |-> o, kind |-> kind, at |-> calls + 1]
              keep == subs \ (Cleaned(At(k)) \cup Replaced(k, o, kind))
  <2>1. subs' = keep \cup {new} /\ calls' = calls + 1
    BY <1>1 DEF Subscribe
  <2>2. \A e \in keep : e \in subs /\ e.at \in Nat /\ e.at <= calls
    BY RegistryAssumption DEF StampsOK, TypeOK, Entries
  <2>3. kind # "strongProxy" => \A e \in keep : ~ (e.key = k /\ e.obj = o)
    BY DEF Replaced, At
  <2>4. calls \in Nat
    BY RegistryAssumption DEF TypeOK
  <2>5. StampsOK'
    BY <2>1, <2>2, <2>4 DEF StampsOK
  <2>6. ASSUME NEW e \in subs', NEW f \in subs',
               e.key = f.key, e.obj = f.obj, e.at < f.at
        PROVE  f.kind = "strongProxy"
    <3>. HIDE DEF keep
    <3>1. e # new
      BY <2>1, <2>2, <2>4, <2>6
    <3>2. CASE f = new
      BY <3>1, <3>2, <2>1, <2>3, <2>6
    <3>3. CASE f # new
      BY <3>1, <3>3, <2>1, <2>2, <2>6 DEF SingleSubscription
    <3>. QED BY <3>2, <3>3
  <2>. QED BY <2>5, <2>6 DEF SingleSubscription
<1>2. ASSUME ~ \E k \in Keys, o \in Objects, kind \in Kinds : Subscribe(k, o, kind)
      PROVE  SingleSubscription' /\ StampsOK'
  BY <1>2, OthersOnlyRemove, SubsetKeepsSingle
<1>. QED BY <1>1, <1>2

\* A list never holds a subscriber twice, strong proxies apart: subscribe() resolves
\* references and proxies before it compares.
THEOREM NeverTwiceInAList == Spec => []SingleSubscription
<1>1. Init => SingleSubscription /\ StampsOK
  BY DEF Init, SingleSubscription, StampsOK
<1>2. Spec => [](SingleSubscription /\ StampsOK)
  BY <1>1, SingleStep, TypeCorrect, PTL DEF Spec
<1>. QED BY <1>2, PTL
-----------------------------------------------------------------------------
(* The count and the cleanup timer. *)

\* What the history variables record.
NoStrongProxy == ~proxied => \A e \in subs : e.kind # "strongProxy"
AsConstructed == ~tuned => period = TRUE /\ start \in Nat /\ stop \in Nat

LEMMA HistoryStep ==
    TypeOK /\ FiniteOK /\ NoStrongProxy /\ AsConstructed /\ [Next]_vars
        => NoStrongProxy' /\ AsConstructed'
<1>. SUFFICES ASSUME TypeOK, FiniteOK, NoStrongProxy, AsConstructed, [Next]_vars
              PROVE  NoStrongProxy' /\ AsConstructed'
  OBVIOUS
<1>1. ASSUME NEW k \in Keys, NEW o \in Objects, NEW kind \in Kinds, Subscribe(k, o, kind)
      PROVE  NoStrongProxy' /\ AsConstructed'
  <2>1. \A e \in subs' : e \in subs \/ e.kind = kind
    BY <1>1 DEF Subscribe
  <2>2. /\ proxied' = (proxied \/ kind = "strongProxy")
        /\ UNCHANGED settings /\ UNCHANGED tuned
    BY <1>1 DEF Subscribe
  <2>3. NoStrongProxy'
    BY <2>1, <2>2 DEF NoStrongProxy
  <2>4. AsConstructed'
    BY <2>2 DEF AsConstructed, settings
  <2>. QED BY <2>3, <2>4
<1>2. CASE Tune
  BY <1>2 DEF Tune, NoStrongProxy, AsConstructed, settings
<1>3. ASSUME ~ \E k \in Keys, o \in Objects, kind \in Kinds : Subscribe(k, o, kind), ~ Tune
      PROVE  NoStrongProxy' /\ AsConstructed'
  <2>1. subs' \subseteq subs
    BY <1>3, OthersOnlyRemove
  <2>2. UNCHANGED <<settings, history>>
    BY <1>3 DEF Next, vars, Unsubscribe, FindProxy, RemoveFound, GetSubscribers,
       ClearAllSubscribers, Collect, CleanupStep, CancelCleanup, RunCleanup,
       CleanupFails, CleanupThrows
  <2>. QED BY <2>1, <2>2 DEF NoStrongProxy, AsConstructed, settings, history
<1>. QED BY <1>1, <1>2, <1>3

LEMMA HistoryHolds == Spec => [](NoStrongProxy /\ AsConstructed)
<1>1. Init => NoStrongProxy /\ AsConstructed
  BY RegistryAssumption DEF Init, NoStrongProxy, AsConstructed
<1>. QED BY <1>1, HistoryStep, TypeCorrect, PTL DEF Spec

\* With fixed settings an absent timer means the count is below the start threshold.
TimerOK == FixedSettings /\ timer = "none" => count < start

\* Taking weak entries out of the lists and as many from the count keeps the bound.
LEMMA DecrementKeepsBound ==
    ASSUME TypeOK, FiniteOK, count >= Cardinality(WeakEntries),
           NEW D, D \subseteq WeakEntries
    PROVE  /\ Cardinality(D) \in Nat
           /\ Decremented(Cardinality(D)) \in Nat
           /\ Decremented(Cardinality(D)) <= count
           /\ IsFiniteSet(WeakEntries \ D)
           /\ Cardinality(WeakEntries \ D) \in Nat
           /\ Decremented(Cardinality(D)) >= Cardinality(WeakEntries \ D)
<1>1. IsFiniteSet(WeakEntries)
  BY FS_Subset DEF WeakEntries, FiniteOK
<1>2. IsFiniteSet(D) /\ IsFiniteSet(WeakEntries \ D) /\ WeakEntries \cap D = D
  BY <1>1, FS_Subset
<1>3. Cardinality(WeakEntries \ D) = Cardinality(WeakEntries) - Cardinality(D)
  BY <1>1, <1>2, FS_Difference
<1>4. /\ Cardinality(D) \in Nat
      /\ Cardinality(WeakEntries) \in Nat
      /\ Cardinality(WeakEntries \ D) \in Nat
  BY <1>1, <1>2, FS_CardinalityType
<1>. QED BY <1>2, <1>3, <1>4 DEF Decremented, TypeOK

\* The effect that every step but Subscribe has on the weak entries and the count.
Shrinks ==
    /\ WeakEntries' \subseteq WeakEntries
    /\ count' \in Nat /\ count' <= count
    /\ count' >= Cardinality(WeakEntries')

LEMMA TakingOutShrinks ==
    ASSUME TypeOK, FiniteOK, count >= Cardinality(WeakEntries),
           NEW D, D \subseteq WeakEntries,
           subs' = subs \ D, count' = Decremented(Cardinality(D))
    PROVE  Shrinks
<1>1. WeakEntries' = WeakEntries \ D
  BY DEF WeakEntries, Weak
<1>. QED BY <1>1, DecrementKeepsBound DEF Shrinks

LEMMA RemoveShrinks ==
    ASSUME TypeOK, FiniteOK, count >= Cardinality(WeakEntries),
           \A e \in subs : e.kind # "strongProxy",
           NEW equal \in SUBSET subs, NEW scanned \in SUBSET subs, Remove(equal, scanned)
    PROVE  Shrinks
<1>. DEFINE hit == IF equal # {} THEN First(equal) ELSE First(scanned)
<1>1. CASE equal \cup scanned = {}
  <2>1. UNCHANGED <<subs, count>>
    BY <1>1 DEF Remove
  <2>2. WeakEntries' = WeakEntries
    BY <2>1 DEF WeakEntries, Weak
  <2>. QED BY <2>1, <2>2 DEF Shrinks, TypeOK
<1>2. CASE equal \cup scanned # {}
  <2>1. hit \in subs
    <3>1. equal # {} => First(equal) \in equal
      BY FirstIsMember DEF TypeOK
    <3>2. scanned # {} => First(scanned) \in scanned
      BY FirstIsMember DEF TypeOK
    <3>. QED BY <1>2, <3>1, <3>2
  <2>2. /\ subs' = subs \ {hit}
        /\ count' = IF hit.kind = "strong" THEN count ELSE Decremented(1)
    BY <1>2 DEF Remove
  <2>. HIDE DEF hit
  <2>3. CASE hit.kind = "strong"
    <3>1. WeakEntries' = WeakEntries
      BY <2>2, <2>3 DEF WeakEntries, Weak
    <3>. QED BY <2>2, <2>3, <3>1 DEF Shrinks, TypeOK
  <2>4. CASE hit.kind # "strong"
    <3>1. {hit} \subseteq WeakEntries
      BY <2>1, <2>4, RegistryAssumption DEF WeakEntries, Weak, TypeOK, Entries, AllKinds
    <3>2. Cardinality({hit}) = 1
      BY FS_Singleton
    <3>. QED BY <2>2, <2>4, <3>1, <3>2, TakingOutShrinks
  <2>. QED BY <2>3, <2>4
<1>. QED BY <1>1, <1>2

LEMMA DropStaleShrinks ==
    ASSUME TypeOK, FiniteOK, count >= Cardinality(WeakEntries), NEW c, DropStale(c)
    PROVE  Shrinks
<1>. DEFINE D == {e \in subs : Stale(e) /\ e.key \in Matching(c)}
<1>1. D \subseteq WeakEntries /\ subs' = subs \ D /\ count' = Decremented(Cardinality(D))
  BY DEF DropStale, WeakEntries, Stale
<1>. HIDE DEF D
<1>. QED BY <1>1, TakingOutShrinks

LEMMA OthersShrink ==
    ASSUME TypeOK, FiniteOK, count >= Cardinality(WeakEntries),
           \A e \in subs : e.kind # "strongProxy",
           [Next]_vars,
           ~ \E k \in Keys, o \in Objects, kind \in Kinds : Subscribe(k, o, kind)
    PROVE  Shrinks
<1>a. \A S \in SUBSET subs : Cleaned(S) \in SUBSET subs
  BY DEF Cleaned
<1>b. \A k : At(k) \in SUBSET subs
  BY DEF At
<1>1. ASSUME NEW k \in Keys, NEW o \in Objects, Unsubscribe(k, o) PROVE Shrinks
  <2>. DEFINE equal == {e \in At(k) : e.kind = "strong" /\ e.obj = o}
              scanned == Cleaned(At(k)) \cup {e \in At(k) : e.kind # "strong" /\ e.obj = o}
  <2>1. equal \in SUBSET subs /\ scanned \in SUBSET subs
    BY <1>a, <1>b
  <2>2. Remove(equal, scanned)
    BY <1>1 DEF Unsubscribe
  <2>. QED BY <2>1, <2>2, RemoveShrinks
<1>2. ASSUME NEW k \in Keys, NEW o \in Objects, FindProxy(k, o) PROVE Shrinks
  BY <1>2, DropStaleShrinks DEF FindProxy
<1>3. CASE RemoveFound
  <2>. DEFINE equal == At(lookup.key) \cap {lookup.entry}
              scanned == Cleaned(At(lookup.key))
  <2>1. equal \in SUBSET subs /\ scanned \in SUBSET subs
    BY <1>a, <1>b
  <2>2. Remove(equal, scanned)
    BY <1>3 DEF RemoveFound
  <2>. QED BY <2>1, <2>2, RemoveShrinks
<1>4. ASSUME NEW c \in Classes, GetSubscribers(c) PROVE Shrinks
  BY <1>4, DropStaleShrinks DEF GetSubscribers
<1>5. CASE ClearAllSubscribers
  <2>1. subs' = {} /\ count' = Decremented(Cardinality(WeakEntries))
    <3>1. \A e \in subs : e.kind \in {"strong", "weak", "weakProxy"}
      BY RegistryAssumption DEF TypeOK, Entries, AllKinds
    <3>2. {e \in subs : e.kind # "strong"} = WeakEntries
      BY <3>1 DEF WeakEntries, Weak
    <3>. QED BY <1>5, <3>2 DEF ClearAllSubscribers
  <2>2. WeakEntries' = {} /\ WeakEntries \ WeakEntries = {}
    BY <2>1 DEF WeakEntries
  <2>. QED BY <2>1, <2>2, DecrementKeepsBound DEF Shrinks
<1>6. CASE SweepStale
  <2>1. Cleaned(subs) \subseteq WeakEntries
    BY DEF Cleaned, Stale, WeakEntries
  <2>. QED BY <1>6, <2>1, TakingOutShrinks DEF SweepStale
<1>7. ASSUME UNCHANGED <<subs, count>> PROVE Shrinks
  <2>1. WeakEntries' = WeakEntries
    BY <1>7 DEF WeakEntries, Weak
  <2>. QED BY <1>7, <2>1 DEF Shrinks, TypeOK
<1>. QED
  BY <1>1, <1>2, <1>3, <1>4, <1>5, <1>6, <1>7
  DEF Next, vars, Collect, CleanupStep, CancelCleanup, RunCleanup, CleanupFails,
      CleanupThrows, Tune

\* What Subscribe does to the weak entries and the count.
LEMMA SubscribeCounts ==
    ASSUME TypeOK, FiniteOK, count >= Cardinality(WeakEntries),
           NEW k \in Keys, NEW o \in Objects, NEW kind \in Kinds, Subscribe(k, o, kind)
    PROVE  count' >= Cardinality(WeakEntries')
<1>. DEFINE new == [key |-> k, obj |-> o, kind |-> kind, at |-> calls + 1]
            D == Cleaned(At(k))
            gone == Replaced(k, o, kind)
            rest == (WeakEntries \ D) \ gone
<1>1. /\ subs' = (subs \ (D \cup gone)) \cup {new}
      /\ count' = IF Weak(new) THEN Decremented(Cardinality(D)) + 1
                              ELSE Decremented(Cardinality(D))
  BY DEF Subscribe
<1>2. D \subseteq WeakEntries
  BY DEF Cleaned, Stale, WeakEntries, At
<1>3. /\ Decremented(Cardinality(D)) \in Nat
      /\ IsFiniteSet(WeakEntries \ D)
      /\ Decremented(Cardinality(D)) >= Cardinality(WeakEntries \ D)
      /\ Cardinality(WeakEntries \ D) \in Nat
  BY <1>2, DecrementKeepsBound
<1>4. IsFiniteSet(rest) /\ Cardinality(rest) <= Cardinality(WeakEntries \ D)
      /\ Cardinality(rest) \in Nat
  <2>. HIDE DEF D, gone
  <2>. QED BY <1>3, FS_Subset, FS_CardinalityType
<1>5. WeakEntries' = IF Weak(new) THEN rest \cup {new} ELSE rest
  BY <1>1 DEF WeakEntries, Weak
<1>. HIDE DEF D, new, rest, gone
<1>6. CASE Weak(new)
  <2>1. Cardinality(rest \cup {new}) =
            IF new \in rest THEN Cardinality(rest) ELSE Cardinality(rest) + 1
    BY <1>4, FS_AddElement, Zenon
  <2>2. /\ count' = Decremented(Cardinality(D)) + 1
        /\ WeakEntries' = rest \cup {new}
    BY <1>1, <1>5, <1>6
  <2>3. Cardinality(rest) + 1 >= Cardinality(rest \cup {new})
    BY <2>1, <1>4
  <2>. QED BY <1>3, <1>4, <2>1, <2>2
<1>7. CASE ~ Weak(new)
  <2>1. count' = Decremented(Cardinality(D)) /\ WeakEntries' = rest
    BY <1>1, <1>5, <1>7
  <2>. QED BY <1>3, <1>4, <2>1
<1>. QED BY <1>6, <1>7

\* A history variable that is set stays set.
LEMMA ProxiedStays == [Next]_vars /\ ~proxied' => ~proxied
  BY DEF Next, vars, history, Subscribe, Unsubscribe, FindProxy, RemoveFound, GetSubscribers,
     ClearAllSubscribers, Collect, CleanupStep, CancelCleanup, RunCleanup, CleanupFails,
     CleanupThrows, Tune

LEMMA TunedStays ==
    ASSUME [Next]_vars, ~tuned'
    PROVE  ~tuned /\ UNCHANGED settings
<1>1. CASE Tune
  <2>1. tuned' = (tuned \/ settings' # settings)
    BY <1>1 DEF Tune
  <2>. QED BY <2>1
<1>2. CASE ~ Tune
  <2>1. UNCHANGED <<tuned, settings>>
    BY <1>2 DEF Next, vars, history, Subscribe, Unsubscribe, FindProxy, RemoveFound,
       GetSubscribers, ClearAllSubscribers, Collect, CleanupStep, CancelCleanup, RunCleanup,
       CleanupFails, CleanupThrows
  <2>. QED BY <2>1
<1>. QED BY <1>1, <1>2

LEMMA CountStep ==
    TypeOK /\ FiniteOK /\ NoStrongProxy /\ NeverUndercounts /\ [Next]_vars => NeverUndercounts'
<1>. SUFFICES ASSUME TypeOK, FiniteOK, NoStrongProxy, NeverUndercounts, [Next]_vars, ~proxied'
              PROVE  count' >= Cardinality(WeakEntries')
  BY DEF NeverUndercounts
<1>0. ~proxied
  BY ProxiedStays
<1>1. count >= Cardinality(WeakEntries) /\ \A e \in subs : e.kind # "strongProxy"
  BY <1>0 DEF NeverUndercounts, NoStrongProxy
<1>. QED BY <1>1, OthersShrink, SubscribeCounts DEF Shrinks

\* Until a strong proxy is subscribed the count that decides on cleanup never falls below the
\* number of weak entries, so no weak entry can escape the start threshold.
THEOREM CountCoversWeakEntries == Spec => []NeverUndercounts
<1>1. Init => NeverUndercounts
  <2>1. Init => WeakEntries = {} /\ count = 0
    BY DEF Init, WeakEntries
  <2>. QED BY <2>1, FS_EmptySet DEF NeverUndercounts
<1>. QED BY <1>1, CountStep, TypeCorrect, HistoryHolds, PTL DEF Spec

LEMMA TimerStep ==
    TypeOK /\ FiniteOK /\ NoStrongProxy /\ AsConstructed /\ NeverUndercounts /\ TimerOK
        /\ [Next]_vars => TimerOK'
<1>. SUFFICES ASSUME TypeOK, FiniteOK, NoStrongProxy, AsConstructed, NeverUndercounts, TimerOK,
                     [Next]_vars, FixedSettings', timer' = "none"
              PROVE  count' < start'
  BY DEF TimerOK
<1>1. /\ start' = start /\ start \in Nat /\ stop \in Nat /\ stop < start
      /\ period = TRUE /\ start # Null /\ FixedSettings
  <2>1. ~proxied' /\ ~tuned' /\ stop' < start'
    BY DEF FixedSettings
  <2>2. ~proxied
    BY <2>1, ProxiedStays
  <2>3. ~tuned /\ UNCHANGED settings
    BY <2>1, TunedStays
  <2>4. start' = start /\ stop' = stop
    BY <2>3 DEF settings
  <2>5. period = TRUE /\ start \in Nat /\ stop \in Nat
    BY <2>3 DEF AsConstructed
  <2>6. start # Null
    BY <2>5, RegistryAssumption
  <2>. QED BY <2>1, <2>2, <2>3, <2>4, <2>5, <2>6 DEF FixedSettings
<1>2. /\ count >= Cardinality(WeakEntries) /\ count \in Nat
      /\ \A e \in subs : e.kind # "strongProxy"
  BY <1>1 DEF NeverUndercounts, NoStrongProxy, FixedSettings, TypeOK
<1>3. timer = "none" => count < start
  BY <1>1 DEF TimerOK
<1>4. ASSUME NEW k \in Keys, NEW o \in Objects, NEW kind \in Kinds, Subscribe(k, o, kind)
      PROVE  count' < start'
  <2>. DEFINE left == Decremented(Cardinality(Cleaned(At(k))))
              new == [key |-> k, obj |-> o, kind |-> kind, at |-> calls + 1]
  <2>1. CASE Weak(new)
    <3>1. count' = left + 1 /\ MayStartCleanup(left + 1)
      BY <1>4, <2>1 DEF Subscribe
    <3>2. ~ (left + 1 >= start) /\ left + 1 \in Nat
      <4>1. Cleaned(At(k)) \subseteq WeakEntries
        BY DEF Cleaned, Stale, WeakEntries, At
      <4>2. left \in Nat
        BY <1>2, <4>1, DecrementKeepsBound
      <4>. HIDE DEF left
      <4>. QED BY <3>1, <1>1, <4>2 DEF MayStartCleanup, TypeOK
    <3>. QED BY <3>1, <3>2, <1>1
  <2>2. CASE ~ Weak(new)
    <3>1. count' = left /\ timer' = timer
      BY <1>4, <2>2 DEF Subscribe
    <3>2. left <= count /\ left \in Nat
      <4>1. Cleaned(At(k)) \subseteq WeakEntries
        BY DEF Cleaned, Stale, WeakEntries, At
      <4>. QED BY <1>2, <4>1, DecrementKeepsBound
    <3>. QED BY <3>1, <3>2, <1>1, <1>2, <1>3
  <2>. QED BY <2>1, <2>2
<1>5. CASE CancelCleanup
  BY <1>5, <1>1, <1>2 DEF CancelCleanup
<1>6. ASSUME ~ \E k \in Keys, o \in Objects, kind \in Kinds : Subscribe(k, o, kind),
             ~ CancelCleanup
      PROVE  count' < start'
  <2>1. count' <= count /\ count' \in Nat
    BY <1>2, <1>6, OthersShrink DEF Shrinks
  <2>2. timer = "none"
    BY <1>6 DEF Next, vars, Unsubscribe, FindProxy, RemoveFound, GetSubscribers,
       ClearAllSubscribers, Collect, CleanupStep, RunCleanup, CleanupFails,
       CleanupThrows, Tune
  <2>. QED BY <2>1, <2>2, <1>1, <1>2, <1>3
<1>. QED BY <1>4, <1>5, <1>6

\* The promise of the class javadoc: with the start threshold fixed above the stop
\* threshold, a cleanup timer is running whenever the weak entries exceed it, unless a
\* subscriber that threw has ended the timer's thread.
THEOREM CleanupTimerExists == Spec => []CleanupStartsWhenNeeded
<1>1. Init => TimerOK
  BY RegistryAssumption DEF Init, TimerOK, FixedSettings
<1>2. TypeOK /\ FiniteOK /\ AsConstructed /\ NeverUndercounts /\ TimerOK => CleanupStartsWhenNeeded
  <2>. SUFFICES ASSUME TypeOK, FiniteOK, AsConstructed, NeverUndercounts, TimerOK, FixedSettings,
                       Cardinality(WeakEntries) > start, timer = "none"
                PROVE  FALSE
    BY DEF CleanupStartsWhenNeeded, TypeOK
  <2>1. count < start /\ count >= Cardinality(WeakEntries) /\ count \in Nat
    BY DEF TimerOK, NeverUndercounts, FixedSettings, TypeOK
  <2>2. start \in Nat
    BY DEF AsConstructed, FixedSettings
  <2>3. Cardinality(WeakEntries) \in Nat
    BY FS_Subset, FS_CardinalityType DEF FiniteOK, WeakEntries
  <2>. QED BY <2>1, <2>2, <2>3
<1>3. Spec => []TimerOK
  BY <1>1, TimerStep, TypeCorrect, HistoryHolds, CountCoversWeakEntries, PTL DEF Spec
<1>. QED BY <1>2, <1>3, TypeCorrect, HistoryHolds, CountCoversWeakEntries, PTL
-----------------------------------------------------------------------------
(* Who leaves a list, and why. *)

\* removeFromSetResolveWeakReferences takes off one entry that it was to look for, if any.
LEMMA RemoveTakesOne ==
    ASSUME TypeOK, NEW equal \in SUBSET subs, NEW scanned \in SUBSET subs,
           Remove(equal, scanned)
    PROVE  \/ equal \cup scanned = {} /\ ret' = FALSE /\ subs' = subs
           \/ /\ ret' = TRUE
              /\ \E hit \in equal : subs' = subs \ {hit}
           \/ /\ equal = {} /\ ret' = TRUE
              /\ \E hit \in scanned : subs' = subs \ {hit}
<1>1. \A S \in SUBSET subs : S # {} => First(S) \in S
  BY FirstIsMember DEF TypeOK
<1>2. CASE equal # {}
  BY <1>1, <1>2 DEF Remove
<1>3. CASE equal = {} /\ scanned # {}
  BY <1>1, <1>3 DEF Remove
<1>4. CASE equal \cup scanned = {}
  BY <1>4 DEF Remove
<1>. QED BY <1>2, <1>3, <1>4

\* What may take e off its list.
MayLeave(e) ==
    \/ e.obj \in collected
    \/ Unsubscribe(e.key, e.obj)
    \/ RemoveFound /\ lookup.key = e.key /\ lookup.entry.obj = e.obj
    \/ ClearAllSubscribers
    \/ \E f \in subs' : f.key = e.key /\ f.obj = e.obj

LEMMA LeavesForAReason ==
    ASSUME TypeOK, Next, NEW e \in subs, e \notin subs'
    PROVE  MayLeave(e)
<1>1. \A S : \A f \in Cleaned(S) : f.obj \in collected
  BY DEF Cleaned, Stale
<1>2. ASSUME NEW k \in Keys, NEW o \in Objects, NEW kind \in Kinds, Subscribe(k, o, kind)
      PROVE  MayLeave(e)
  <2>. DEFINE new == [key |-> k, obj |-> o, kind |-> kind, at |-> calls + 1]
  <2>1. /\ subs' = (subs \ (Cleaned(At(k)) \cup Replaced(k, o, kind))) \cup {new}
        /\ new \in subs' /\ new.key = k /\ new.obj = o
    BY <1>2 DEF Subscribe
  <2>. HIDE DEF new
  <2>2. e \in Cleaned(At(k)) \/ e \in Replaced(k, o, kind)
    BY <2>1
  <2>3. e \in Replaced(k, o, kind) => e.key = k /\ e.obj = o
    BY DEF Replaced, At
  <2>. QED BY <1>1, <2>1, <2>2, <2>3 DEF MayLeave
<1>3. ASSUME NEW k \in Keys, NEW o \in Objects, Unsubscribe(k, o)
      PROVE  MayLeave(e)
  <2>. DEFINE equal == {f \in At(k) : f.kind = "strong" /\ f.obj = o}
              named == {f \in At(k) : f.kind # "strong" /\ f.obj = o}
              scanned == Cleaned(At(k)) \cup named
  <2>1. equal \in SUBSET subs /\ scanned \in SUBSET subs /\ Remove(equal, scanned)
    BY <1>3 DEF Unsubscribe, At, Cleaned
  <2>2. e \in equal \/ e \in scanned
    <3>. HIDE DEF equal, scanned
    <3>. QED BY <2>1, RemoveTakesOne
  <2>3. e \in Cleaned(At(k)) \/ (e.key = k /\ e.obj = o)
    BY <2>2 DEF At
  <2>. QED BY <1>1, <1>3, <2>3 DEF MayLeave
<1>4. CASE RemoveFound
  <2>. DEFINE equal == At(lookup.key) \cap {lookup.entry}
              scanned == Cleaned(At(lookup.key))
  <2>1. equal \in SUBSET subs /\ scanned \in SUBSET subs /\ Remove(equal, scanned)
    BY <1>4 DEF RemoveFound, At, Cleaned
  <2>2. e \in equal \/ e \in scanned
    <3>. HIDE DEF equal, scanned
    <3>1. subs' = subs \/ \E hit \in equal \cup scanned : subs' = subs \ {hit}
      BY <2>1, RemoveTakesOne, Zenon
    <3>. QED BY <3>1
  <2>3. e \in equal => lookup.key = e.key /\ lookup.entry.obj = e.obj
    BY DEF At
  <2>. QED BY <1>1, <1>4, <2>2, <2>3 DEF MayLeave
<1>5. ASSUME NEW c, DropStale(c) PROVE MayLeave(e)
  BY <1>5 DEF DropStale, Stale, MayLeave
<1>6. ASSUME SweepStale PROVE MayLeave(e)
  BY <1>1, <1>6 DEF SweepStale, MayLeave
<1>7. CASE ClearAllSubscribers
  BY <1>7 DEF MayLeave
<1>8. ASSUME UNCHANGED subs PROVE MayLeave(e)
  BY <1>8
<1>9. ASSUME NEW k \in Keys, NEW o \in Objects, FindProxy(k, o) PROVE MayLeave(e)
  BY <1>5, <1>9 DEF FindProxy
<1>10. ASSUME NEW c \in Classes, GetSubscribers(c) PROVE MayLeave(e)
  BY <1>5, <1>10 DEF GetSubscribers
<1>11. CASE (\E o \in Objects : Collect(o)) \/ CancelCleanup \/ CleanupFails \/ Tune
  BY <1>8, <1>11 DEF Collect, CancelCleanup, CleanupFails, Tune
<1>12. CASE RunCleanup \/ CleanupThrows
  BY <1>6, <1>8, <1>12 DEF RunCleanup, CleanupThrows
<1>. QED
  BY <1>2, <1>3, <1>4, <1>7, <1>9, <1>10, <1>11, <1>12 DEF Next, CleanupStep

\* A live subscriber stays subscribed until it is passed to an unsubscribe method for that
\* list or all are cleared: no subscription, lookup, cleaning or unsubscription of another
\* takes it off, of the same object in another list or of another object in this one.
THEOREM StaysSubscribedHolds == Spec => StaysSubscribed
<1>1. TypeOK /\ FiniteOK /\ [Next]_vars =>
        [\A k \in Keys, o \in Objects :
          Subscribed(k, o) /\ ~Subscribed(k, o)' =>
              \/ o \in collected
              \/ Unsubscribe(k, o)
              \/ RemoveFound /\ lookup.key = k /\ lookup.entry.obj = o
              \/ ClearAllSubscribers]_vars
  <2>. SUFFICES ASSUME TypeOK, Next, NEW k \in Keys, NEW o \in Objects,
                       Subscribed(k, o), ~Subscribed(k, o)'
                PROVE  \/ o \in collected
                       \/ Unsubscribe(k, o)
                       \/ RemoveFound /\ lookup.key = k /\ lookup.entry.obj = o
                       \/ ClearAllSubscribers
    OBVIOUS
  <2>1. PICK e \in subs : e.key = k /\ e.obj = o
    BY DEF Subscribed, At
  <2>2. \A f \in subs' : ~(f.key = k /\ f.obj = o)
    BY DEF Subscribed, At
  <2>3. MayLeave(e)
    BY <2>1, <2>2, LeavesForAReason
  <2>. QED BY <2>1, <2>2, <2>3 DEF MayLeave
<1>. QED BY <1>1, TypeCorrect, PTL DEF Spec, StaysSubscribed

\* unsubscribe() answers FALSE only for a subscriber that is not in the list; and what it
\* is called for it does, if the list has the subscriber once and no collected reference.
THEOREM UnsubscribeResultHolds == Spec => UnsubscribeResult
<1>1. TypeOK /\ FiniteOK /\ [Next]_vars =>
        [\A k \in Keys, o \in Objects :
          Unsubscribe(k, o) =>
              /\ ~ret' => ~Subscribed(k, o)
              /\ Cleaned(At(k)) = {} /\ (\A e, f \in At(k) : e.obj = o /\ f.obj = o => e = f)
                     => ~Subscribed(k, o)' /\ ret' = Subscribed(k, o)]_vars
  <2>. SUFFICES ASSUME TypeOK, NEW k \in Keys, NEW o \in Objects, Unsubscribe(k, o)
                PROVE  /\ ~ret' => ~Subscribed(k, o)
                       /\ Cleaned(At(k)) = {} /\ (\A e, f \in At(k) : e.obj = o /\ f.obj = o => e = f)
                              => ~Subscribed(k, o)' /\ ret' = Subscribed(k, o)
    OBVIOUS
  <2>. DEFINE equal == {f \in At(k) : f.kind = "strong" /\ f.obj = o}
              named == {f \in At(k) : f.kind # "strong" /\ f.obj = o}
              scanned == Cleaned(At(k)) \cup named
  <2>1. equal \in SUBSET subs /\ scanned \in SUBSET subs /\ Remove(equal, scanned)
    BY DEF Unsubscribe, At, Cleaned
  <2>2. Subscribed(k, o) <=> equal \cup named # {}
    BY DEF Subscribed
  <2>3. \/ equal \cup scanned = {} /\ ret' = FALSE /\ subs' = subs
        \/ ret' = TRUE /\ \E hit \in equal \cup scanned : subs' = subs \ {hit}
    <3>. HIDE DEF equal, scanned
    <3>. QED BY <2>1, RemoveTakesOne
  <2>4. ~ret' => ~Subscribed(k, o)
    BY <2>2, <2>3
  <2>5. ASSUME Cleaned(At(k)) = {}, \A e, f \in At(k) : e.obj = o /\ f.obj = o => e = f
        PROVE  ~Subscribed(k, o)' /\ ret' = Subscribed(k, o)
    <3>1. scanned = named
      BY <2>5
    <3>2. Subscribed(k, o)' <=> \E e \in subs' : e.key = k /\ e.obj = o
      BY DEF Subscribed, At
    <3>3. CASE equal \cup named = {}
      <4>1. ret' = FALSE /\ subs' = subs
        BY <2>3, <3>1, <3>3
      <4>2. ~ \E e \in subs : e.key = k /\ e.obj = o
        BY <3>3 DEF At
      <4>3. ~Subscribed(k, o)' /\ ~Subscribed(k, o)
        BY <2>2, <3>2, <3>3, <4>1, <4>2
      <4>4. Subscribed(k, o) \in BOOLEAN
        BY DEF Subscribed
      <4>. QED BY <4>1, <4>3, <4>4
    <3>4. CASE equal \cup named # {}
      <4>1. PICK hit \in equal \cup named : ret' = TRUE /\ subs' = subs \ {hit}
        BY <2>3, <3>1, <3>4
      <4>2. hit \in At(k) /\ hit.obj = o
        BY <4>1
      <4>3. \A e \in subs : e.key = k /\ e.obj = o => e = hit
        BY <2>5, <4>2 DEF At
      <4>4. ~Subscribed(k, o)' /\ Subscribed(k, o)
        BY <2>2, <3>2, <3>4, <4>1, <4>3
      <4>5. Subscribed(k, o) \in BOOLEAN
        BY DEF Subscribed
      <4>. QED BY <4>1, <4>4, <4>5
    <3>. QED BY <3>3, <3>4
  <2>. QED BY <2>4, <2>5
<1>. QED BY <1>1, TypeCorrect, PTL DEF Spec, UnsubscribeResult
-----------------------------------------------------------------------------
(* The tables as lists with places (SubscriberLists). *)

\* A place is one entry's: every subscribe call has its own number.
StampsDistinct == \A e, f \in subs : e.at = f.at => e = f

LEMMA StampsStep ==
    TypeOK /\ FiniteOK /\ StampsOK /\ StampsDistinct /\ [Next]_vars
        => StampsOK' /\ StampsDistinct'
<1>. SUFFICES ASSUME TypeOK, FiniteOK, StampsOK, StampsDistinct, [Next]_vars
              PROVE  StampsOK' /\ StampsDistinct'
  OBVIOUS
<1>1. ASSUME NEW k \in Keys, NEW o \in Objects, NEW kind \in Kinds, Subscribe(k, o, kind)
      PROVE  StampsOK' /\ StampsDistinct'
  <2>. DEFINE new == [key |-> k, obj |-> o, kind |-> kind, at |-> calls + 1]
              keep == subs \ (Cleaned(At(k)) \cup Replaced(k, o, kind))
  <2>1. subs' = keep \cup {new} /\ calls' = calls + 1
    BY <1>1 DEF Subscribe
  <2>2. \A e \in keep : e \in subs /\ e.at \in Nat /\ e.at <= calls
    BY RegistryAssumption DEF StampsOK, TypeOK, Entries
  <2>3. calls \in Nat
    BY RegistryAssumption DEF TypeOK
  <2>. HIDE DEF keep
  <2>. QED BY <2>1, <2>2, <2>3 DEF StampsOK, StampsDistinct
<1>2. ASSUME ~ \E k \in Keys, o \in Objects, kind \in Kinds : Subscribe(k, o, kind)
      PROVE  StampsOK' /\ StampsDistinct'
  <2>1. subs' \subseteq subs /\ UNCHANGED calls
    BY <1>2, OthersOnlyRemove
  <2>. QED BY <2>1 DEF StampsOK, StampsDistinct
<1>. QED BY <1>1, <1>2

LEMMA StampsHold == Spec => [](StampsOK /\ StampsDistinct)
<1>1. Init => StampsOK /\ StampsDistinct
  BY DEF Init, StampsOK, StampsDistinct
<1>. QED BY <1>1, StampsStep, TypeCorrect, PTL DEF Spec

\* The places of the refinement mapping.
AllPlaces == [k \in Keys |-> [o \in Objects |-> PlacesOf(k, o)]]

\* To take off nothing but entries of the dead moves nobody.
LEMMA DeadEntriesHaveNoPlace ==
    ASSUME collected' = collected, subs' \subseteq subs,
           \A e \in subs : e \notin subs' => e.obj \in collected
    PROVE  UNCHANGED Lists!slVars
<1>1. ASSUME NEW k \in Keys, NEW o \in Objects
      PROVE  PlacesOf(k, o)' = PlacesOf(k, o)
  <2>1. o \notin collected => {f \in At(k) : f.obj = o}' = {f \in At(k) : f.obj = o}
    BY DEF At
  <2>. QED BY <2>1 DEF PlacesOf
<1>2. AllPlaces' = AllPlaces
  BY <1>1 DEF AllPlaces
<1>. QED BY <1>2 DEF AllPlaces, Lists!slVars

\* To take one entry off gives up one place, or none that counts.
LEMMA OneEntryOff ==
    ASSUME TypeOK, StampsDistinct, collected' = collected,
           NEW hit \in subs, subs' = subs \ {hit}
    PROVE  Lists!SLNext \/ UNCHANGED Lists!slVars
<1>1. CASE hit.obj \in collected
  BY <1>1, DeadEntriesHaveNoPlace
<1>2. CASE hit.obj \notin collected
  <2>. DEFINE k == hit.key
              o == hit.obj
  <2>1. k \in Keys /\ o \in Objects /\ hit.at \in PlacesOf(k, o)
    BY <1>2 DEF TypeOK, Entries, PlacesOf, At
  <2>2. PlacesOf(k, o)' = PlacesOf(k, o) \ {hit.at}
    <3>1. \A e \in subs : e.at = hit.at <=> e = hit
      BY DEF StampsDistinct
    <3>. QED BY <1>2, <3>1 DEF PlacesOf, At
  <2>3. ASSUME NEW j \in Keys, NEW p \in Objects, <<j, p>> # <<k, o>>
        PROVE  PlacesOf(j, p)' = PlacesOf(j, p)
    BY <2>3 DEF PlacesOf, At
  <2>4. AllPlaces' = [AllPlaces EXCEPT ![k][o] = @ \ {hit.at}]
    BY <2>1, <2>2, <2>3 DEF AllPlaces
  <2>5. hit.at \in AllPlaces[k][o]
    BY <2>1 DEF AllPlaces
  <2>6. Lists!Leave(k, o)
    BY <2>4, <2>5 DEF Lists!Leave, AllPlaces
  <2>. QED BY <2>1, <2>6 DEF Lists!SLNext
<1>. QED BY <1>1, <1>2

\* A subscription comes last in its list, and takes nobody else's place.
LEMMA SubscriptionJoins ==
    ASSUME TypeOK, StampsOK, NEW k \in Keys, NEW o \in Objects, NEW kind \in Kinds,
           Subscribe(k, o, kind)
    PROVE  Lists!Join(k, o)
<1>. DEFINE n == calls + 1
            new == [key |-> k, obj |-> o, kind |-> kind, at |-> n]
            kept == IF kind = "strongProxy" THEN PlacesOf(k, o) ELSE {}
<1>1. /\ o \notin collected /\ UNCHANGED collected
      /\ subs' = (subs \ (Cleaned(At(k)) \cup Replaced(k, o, kind))) \cup {new}
  BY DEF Subscribe
<1>3. \A e \in Cleaned(At(k)) : e.obj \in collected
  BY DEF Cleaned, Stale
<1>4. PlacesOf(k, o)' = kept \cup {n}
  <2>1. CASE kind = "strongProxy"
    <3>. DEFINE own == {f \in At(k) : f.obj = o}
    <3>1. {f \in At(k) : f.obj = o}' = own \cup {new}
      BY <1>1, <1>3, <2>1 DEF Replaced, At
    <3>2. {e.at : e \in own \cup {new}} = {e.at : e \in own} \cup {n}
      <4>1. new.at = n
        OBVIOUS
      <4>. HIDE DEF own, new
      <4>. QED BY <4>1
    <3>. QED BY <1>1, <2>1, <3>1, <3>2 DEF PlacesOf
  <2>2. CASE kind # "strongProxy"
    <3>1. {f \in At(k) : f.obj = o}' = {new}
      BY <1>1, <2>2 DEF Replaced, At
    <3>2. {e.at : e \in {new}} = {n}
      OBVIOUS
    <3>. QED BY <1>1, <2>2, <3>1, <3>2 DEF PlacesOf
  <2>. QED BY <2>1, <2>2
<1>5. ASSUME NEW j \in Keys, NEW p \in Objects, <<j, p>> # <<k, o>>
      PROVE  PlacesOf(j, p)' = PlacesOf(j, p)
  <2>1. \A e : e.key = j /\ e.obj = p =>
            /\ e # new
            /\ e \notin Replaced(k, o, kind)
            /\ p \notin collected => e \notin Cleaned(At(k))
    BY <1>3, <1>5 DEF Replaced, At
  <2>2. p \notin collected => {e \in At(j) : e.obj = p}' = {e \in At(j) : e.obj = p}
    BY <1>1, <2>1 DEF At
  <2>. QED BY <1>1, <2>2 DEF PlacesOf
<1>. HIDE DEF n, kept
<1>6. AllPlaces' = [AllPlaces EXCEPT ![k][o] = kept \cup {n}]
  BY <1>4, <1>5 DEF AllPlaces
<1>7. kept \in {{}} \cup IF "strongProxy" \in Kinds THEN {AllPlaces[k][o]} ELSE {}
  BY DEF kept, AllPlaces
<1>8. \A p \in Objects : \A i \in AllPlaces[k][p] : i < n
  <2>1. \A e \in subs : e.at < n
    BY RegistryAssumption DEF n, StampsOK, TypeOK, Entries
  <2>. QED BY <2>1 DEF AllPlaces, PlacesOf, At
<1>9. n \in AllPlaces'[k][o]
  BY <1>4 DEF AllPlaces
<1>. QED BY <1>1, <1>6, <1>7, <1>8, <1>9 DEF Lists!Join, AllPlaces

\* For the subscribers that live, the tables with their references, proxies, stale entries,
\* cleanups and lookups are plain lists: a subscription comes last, and everybody keeps his
\* place until he subscribes anew, is unsubscribed, or all are cleared.
THEOREM ImplementsSubscriberLists == Spec => RefinesSubscriberLists
<1>1. Init => Lists!SLInit
  BY DEF Init, Lists!SLInit, PlacesOf, At
<1>2. TypeOK /\ FiniteOK /\ StampsOK /\ StampsDistinct /\ [Next]_vars
        => [Lists!SLNext]_Lists!slVars
  <2>. SUFFICES ASSUME TypeOK, FiniteOK, StampsOK, StampsDistinct, [Next]_vars
                PROVE  Lists!SLNext \/ UNCHANGED Lists!slVars
    OBVIOUS
  <2>1. ASSUME NEW k \in Keys, NEW o \in Objects, NEW kind \in Kinds, Subscribe(k, o, kind)
        PROVE  Lists!SLNext
    BY <2>1, SubscriptionJoins DEF Lists!SLNext
  <2>2. ASSUME NEW equal \in SUBSET subs, NEW scanned \in SUBSET subs,
               Remove(equal, scanned), UNCHANGED collected
        PROVE  Lists!SLNext \/ UNCHANGED Lists!slVars
    <3>1. subs' = subs \/ \E hit \in subs : subs' = subs \ {hit}
      BY <2>2, RemoveTakesOne
    <3>2. CASE subs' = subs
      BY <2>2, <3>2, DeadEntriesHaveNoPlace
    <3>3. CASE \E hit \in subs : subs' = subs \ {hit}
      BY <2>2, <3>3, OneEntryOff
    <3>. QED BY <3>1, <3>2, <3>3
  <2>3. ASSUME NEW k \in Keys, NEW o \in Objects, Unsubscribe(k, o)
        PROVE  Lists!SLNext \/ UNCHANGED Lists!slVars
    <3>. DEFINE equal == {e \in At(k) : e.kind = "strong" /\ e.obj = o}
                scanned == Cleaned(At(k)) \cup {e \in At(k) : e.kind # "strong" /\ e.obj = o}
    <3>1. /\ equal \in SUBSET subs /\ scanned \in SUBSET subs
          /\ Remove(equal, scanned) /\ UNCHANGED collected
      BY <2>3 DEF Unsubscribe, At, Cleaned
    <3>. HIDE DEF equal, scanned
    <3>. QED BY <3>1, <2>2
  <2>4. CASE RemoveFound
    <3>. DEFINE equal == At(lookup.key) \cap {lookup.entry}
                scanned == Cleaned(At(lookup.key))
    <3>1. /\ equal \in SUBSET subs /\ scanned \in SUBSET subs
          /\ Remove(equal, scanned) /\ UNCHANGED collected
      BY <2>4 DEF RemoveFound, At, Cleaned
    <3>. HIDE DEF equal, scanned
    <3>. QED BY <3>1, <2>2
  <2>5. CASE ClearAllSubscribers
    <3>1. \A k \in Keys, o \in Objects : PlacesOf(k, o)' = {}
      BY <2>5 DEF ClearAllSubscribers, PlacesOf, At
    <3>2. Lists!Clear
      BY <2>5, <3>1 DEF Lists!Clear, ClearAllSubscribers
    <3>. QED BY <3>2 DEF Lists!SLNext
  <2>6. ASSUME NEW o \in Objects, Collect(o)
        PROVE  Lists!SLNext
    <3>1. o \notin collected /\ collected' = collected \cup {o} /\ subs' = subs
      BY <2>6 DEF Collect
    <3>2. \A k \in Keys, p \in Objects :
              PlacesOf(k, p)' = IF p = o THEN {} ELSE PlacesOf(k, p)
      BY <3>1 DEF PlacesOf, At
    <3>3. AllPlaces' = [k \in Keys |-> [AllPlaces[k] EXCEPT ![o] = {}]]
      BY <3>2 DEF AllPlaces
    <3>4. Lists!Die(o)
      BY <3>1, <3>3 DEF Lists!Die, AllPlaces
    <3>. QED BY <3>4 DEF Lists!SLNext
  <2>7. ASSUME NEW c, DropStale(c), UNCHANGED collected PROVE UNCHANGED Lists!slVars
    <3>1. subs' \subseteq subs /\ \A e \in subs : e \notin subs' => e.obj \in collected
      BY <2>7 DEF DropStale, Stale
    <3>. QED BY <2>7, <3>1, DeadEntriesHaveNoPlace
  <2>8. ASSUME SweepStale \/ UNCHANGED subs, UNCHANGED collected PROVE UNCHANGED Lists!slVars
    <3>1. subs' \subseteq subs /\ \A e \in subs : e \notin subs' => e.obj \in collected
      BY <2>8 DEF SweepStale, Cleaned, Stale
    <3>. QED BY <2>8, <3>1, DeadEntriesHaveNoPlace
  <2>9. CASE \/ \E k \in Keys, o \in Objects : FindProxy(k, o)
             \/ \E c \in Classes : GetSubscribers(c)
    BY <2>7, <2>9 DEF FindProxy, GetSubscribers
  <2>10. CASE CleanupStep \/ CleanupThrows \/ Tune \/ UNCHANGED vars
    BY <2>8, <2>10 DEF CleanupStep, CancelCleanup, RunCleanup, CleanupFails, CleanupThrows, Tune, vars
  <2>. QED BY <2>1, <2>3, <2>4, <2>5, <2>6, <2>9, <2>10 DEF Next
<1>. QED
  BY <1>1, <1>2, TypeCorrect, StampsHold, PTL DEF Spec, RefinesSubscriberLists, Lists!SLSpec
=============================================================================
