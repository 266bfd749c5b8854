--------------------------- MODULE EventCacheProofs ---------------------------
(***************************************************************************)
(* Proofs about EventCache, for every value of its constants: any class    *)
(* hierarchy, any topics and patterns, any sizes, also negative ones.      *)
(***************************************************************************)
EXTENDS EventCache, SequenceTheorems, NaturalsInduction, WellFoundedInduction, TLAPS

\* Every nonempty set of natural numbers has a least element, which Min picks.
LEMMA MinIsLeast ==
    ASSUME NEW T, T \subseteq Nat, T # {}
    PROVE  Min(T) \in T /\ \A y \in T : Min(T) <= y
<1>. DEFINE R == OpToRel(<, Nat)
<1>1. IsWellFoundedOn(R, Nat)
  BY NatLessThanWellFounded
<1>2. PICK x \in T : \A y \in T : ~ (<<y, x>> \in R)
  <2>. HIDE DEF R
  <2>. QED BY <1>1, WFMin, Zenon
<1>3. \A y \in T : <<y, x>> \in R <=> y < x
  BY DEF OpToRel
<1>. HIDE DEF R
<1>4. \A y \in T : y \in Nat /\ x \in Nat /\ ~ (y < x)
  BY <1>2, <1>3
<1>5. \A y \in T : x <= y
  BY <1>4
<1>. QED BY <1>5, Zenon DEF Min
-----------------------------------------------------------------------------
(***************************************************************************)
(* What FirstSize finds.                                                   *)
(***************************************************************************)

\* It finds nothing if nothing on the path has a size.
LEMMA FirstSizeNone ==
    ASSUME NEW path \in Seq(Classes), NEW memo,
           \A i \in 1..Len(path) : memo[path[i]] = Null
    PROVE  FirstSize(memo, path) = Null
BY DEF FirstSize

\* It finds the first size that there is on the path.
LEMMA FirstSizeAt ==
    ASSUME NEW path \in Seq(Classes), NEW memo, NEW i \in 1..Len(path),
           memo[path[i]] # Null,
           \A j \in 1..Len(path) : j < i => memo[path[j]] = Null
    PROVE  FirstSize(memo, path) = memo[path[i]]
<1>. DEFINE set == {j \in DOMAIN path : memo[path[j]] # Null}
<1>1. set \subseteq Nat /\ i \in set
  OBVIOUS
<1>2. \A j \in set : i <= j
  OBVIOUS
<1>3. Min(set) \in set /\ Min(set) <= i
  <2>. HIDE DEF set
  <2>. QED BY <1>1, MinIsLeast
<1>4. Min(set) = i
  <2>1. i <= Min(set) /\ Min(set) \in Nat
    <3>. HIDE DEF set
    <3>. QED BY <1>1, <1>2, <1>3
  <2>. HIDE DEF set
  <2>. QED BY <1>3, <2>1
<1>5. FirstSize(memo, path) = IF set = {} THEN Null ELSE memo[path[Min(set)]]
  BY DEF FirstSize
<1>. HIDE DEF set
<1>. QED BY <1>1, <1>4, <1>5

\* A path that has a size has a first one.
LEMMA FirstSizeExists ==
    ASSUME NEW path \in Seq(Classes), NEW memo,
           ~ \A i \in 1..Len(path) : memo[path[i]] = Null
    PROVE  \E i \in 1..Len(path) :
               /\ memo[path[i]] # Null
               /\ \A j \in 1..Len(path) : j < i => memo[path[j]] = Null
<1>. DEFINE set == {j \in 1..Len(path) : memo[path[j]] # Null}
<1>1. set \subseteq Nat /\ set # {}
  OBVIOUS
<1>2. PICK i \in set : \A j \in set : i <= j
  <2>. HIDE DEF set
  <2>. QED BY <1>1, MinIsLeast
<1>3. \A j \in 1..Len(path) : j < i => ~ j \in set
  BY <1>1, <1>2
<1>. QED BY <1>2, <1>3

LEMMA FirstSizeType ==
    ASSUME NEW path \in Seq(Classes), NEW memo \in [Classes -> Size]
    PROVE  FirstSize(memo, path) \in Size
<1>1. CASE \A i \in 1..Len(path) : memo[path[i]] = Null
  BY <1>1, FirstSizeNone DEF Size
<1>2. CASE ~ \A i \in 1..Len(path) : memo[path[i]] = Null
  <2>1. PICK i \in 1..Len(path) :
               /\ memo[path[i]] # Null
               /\ \A j \in 1..Len(path) : j < i => memo[path[j]] = Null
    BY <1>2, FirstSizeExists
  <2>2. FirstSize(memo, path) = memo[path[i]]
    BY <2>1, FirstSizeAt
  <2>. QED BY <2>2
<1>. QED BY <1>1, <1>2

\* Cutting off a part of the path that has no size changes nothing.
LEMMA FirstSizeOfSuffix ==
    ASSUME NEW path \in Seq(Classes), NEW memo, NEW m \in 1..Len(path),
           \A j \in 1..Len(path) : j < m => memo[path[j]] = Null
    PROVE  FirstSize(memo, SubSeq(path, m, Len(path))) = FirstSize(memo, path)
<1>. DEFINE rest == SubSeq(path, m, Len(path))
<1>1. /\ rest \in Seq(Classes)
      /\ Len(rest) = Len(path) - m + 1
      /\ \A i \in 1..Len(rest) : rest[i] = path[m + i - 1]
  <2>1. Len(path) \in Nat /\ m \in Int /\ \A i \in m..Len(path) : path[i] \in Classes
    OBVIOUS
  <2>. QED BY <2>1, SubSeqProperties
<1>0. SUFFICES FirstSize(memo, rest) = FirstSize(memo, path)
  OBVIOUS
<1>. HIDE DEF rest
<1>4. Len(path) \in Nat /\ \A i \in 1..Len(path) : i \in Nat
  OBVIOUS
<1>2. CASE \A i \in 1..Len(path) : memo[path[i]] = Null
  <2>1. \A i \in 1..Len(rest) : memo[rest[i]] = Null
    <3>1. \A i \in 1..Len(rest) : m + i - 1 \in 1..Len(path)
      BY <1>1, <1>4
    <3>. QED BY <1>1, <1>2, <3>1
  <2>. QED BY <1>1, <1>2, <2>1, FirstSizeNone
<1>3. CASE ~ \A i \in 1..Len(path) : memo[path[i]] = Null
  <2>1. PICK i \in 1..Len(path) :
               /\ memo[path[i]] # Null
               /\ \A j \in 1..Len(path) : j < i => memo[path[j]] = Null
    BY <1>3, FirstSizeExists
  <2>2. FirstSize(memo, path) = memo[path[i]]
    BY <2>1, FirstSizeAt
  <2>3. i >= m
    BY <2>1
  <2>. DEFINE k == i - m + 1
  <2>7. k \in 1..Len(rest) /\ m + k - 1 = i
    BY <1>1, <1>4, <2>3
  <2>4. rest[k] = path[i]
    <3>. HIDE DEF k
    <3>. QED BY <1>1, <2>7
  <2>5. \A j \in 1..Len(rest) : j < k => memo[rest[j]] = Null
    <3>1. \A j \in 1..Len(rest) : j < k => m + j - 1 \in 1..Len(path) /\ m + j - 1 < i
      BY <1>1, <1>4
    <3>. HIDE DEF k
    <3>. QED BY <1>1, <2>1, <3>1
  <2>6. FirstSize(memo, rest) = memo[rest[k]]
    <3>. HIDE DEF k
    <3>. QED BY <1>1, <2>1, <2>7, <2>4, <2>5, FirstSizeAt
  <2>. QED BY <2>2, <2>4, <2>6
<1>. QED BY <1>2, <1>3
-----------------------------------------------------------------------------
(***************************************************************************)
(* What is memoized for a class while no interface has a size: its own     *)
(* size, or that of its nearest superclass with one, or nothing yet.       *)
(***************************************************************************)

Nearest(raw, c) == FirstSize(raw, <<c>> \o Supers[c])
NoInterfaceSet(raw) == \A c \in Classes : IsInterface(c) => raw[c] = Null
Faithful(raw, memo) ==
    \A c \in Classes : IF raw[c] # Null THEN memo[c] = raw[c] ELSE memo[c] \in {Null, Nearest(raw, c)}

\* The classes that a lookup passes, first those of the hierarchy, then the interfaces.
LEMMA PathParts ==
    ASSUME NEW c \in Classes
    PROVE  /\ <<c>> \o Supers[c] \in Seq(Classes) /\ Path(c) \in Seq(Classes)
           /\ Len(<<c>> \o Supers[c]) = 1 + Len(Supers[c])
           /\ Len(Path(c)) = 1 + Len(Supers[c]) + Len(Interfaces[c])
           /\ \A i \in 1..Len(Path(c)) :
                  IF i <= 1 + Len(Supers[c])
                  THEN Path(c)[i] = (<<c>> \o Supers[c])[i]
                  ELSE IsInterface(Path(c)[i])
           /\ (<<c>> \o Supers[c])[1] = c
           /\ \A i \in 2..1 + Len(Supers[c]) : (<<c>> \o Supers[c])[i] = Supers[c][i - 1]
<1>1. /\ Supers[c] \in Seq(Classes) /\ Interfaces[c] \in Seq(Classes) /\ <<c>> \in Seq(Classes)
      /\ Len(Supers[c]) \in Nat /\ Len(Interfaces[c]) \in Nat
      /\ Len(<<c>>) = 1 /\ <<c>>[1] = c
  BY CacheAssumption
<1>. DEFINE own == <<c>> \o Supers[c]
<1>2. /\ own \in Seq(Classes) /\ Len(own) = 1 + Len(Supers[c])
      /\ \A i \in 1..1 + Len(Supers[c]) : own[i] = IF i <= 1 THEN <<c>>[i] ELSE Supers[c][i - 1]
  BY <1>1, ConcatProperties
<1>. HIDE DEF own
<1>3. /\ own \o Interfaces[c] \in Seq(Classes)
      /\ Len(own \o Interfaces[c]) = Len(own) + Len(Interfaces[c])
      /\ \A i \in 1..Len(own) + Len(Interfaces[c]) :
             (own \o Interfaces[c])[i] =
                 IF i <= Len(own) THEN own[i] ELSE Interfaces[c][i - Len(own)]
  BY <1>1, <1>2, ConcatProperties
<1>4. Path(c) = own \o Interfaces[c]
  BY DEF Path, own
<1>5. ASSUME NEW i \in 1..Len(Path(c)), ~ (i <= 1 + Len(Supers[c]))
      PROVE  IsInterface(Path(c)[i])
  <2>1. PICK j \in 1..Len(Interfaces[c]) : Path(c)[i] = Interfaces[c][j]
    <3>1. Len(Path(c)) = Len(own) + Len(Interfaces[c])
      BY <1>3, <1>4
    <3>3. Len(own) \in Nat
      BY <1>1, <1>2
    <3>6. i \in 1..Len(own) + Len(Interfaces[c])
      BY <3>1, Zenon
    <3>7. ~ (i <= Len(own))
      BY <1>2, <1>5, Zenon
    <3>2. i \in Nat /\ i <= Len(own) + Len(Interfaces[c]) /\ ~ (i <= Len(own))
      BY <1>1, <3>3, <3>6, <3>7
    <3>4. i - Len(own) \in 1..Len(Interfaces[c])
      BY <1>1, <3>2, <3>3
    <3>5. Path(c)[i] = Interfaces[c][i - Len(own)]
      BY <1>3, <1>4, <3>1, <3>2
    <3>. QED BY <3>4, <3>5
  <2>. QED BY <2>1 DEF IsInterface, Contains
<1>6. \A i \in 1..Len(Path(c)) : i <= 1 + Len(Supers[c]) => Path(c)[i] = own[i]
  BY <1>1, <1>2, <1>3, <1>4
<1>7. own[1] = c /\ \A i \in 2..1 + Len(Supers[c]) : own[i] = Supers[c][i - 1]
  BY <1>1, <1>2
<1>. QED BY <1>1, <1>2, <1>3, <1>4, <1>5, <1>6, <1>7 DEF own

\* The superclasses of the i-th class on the way up are those that follow it.
LEMMA RestOfHierarchy ==
    ASSUME NEW c \in Classes, NEW m \in 1..1 + Len(Supers[c])
    PROVE  LET own == <<c>> \o Supers[c]
           IN <<own[m]>> \o Supers[own[m]] = SubSeq(own, m, Len(own))
<1>. DEFINE own == <<c>> \o Supers[c]
            sup == Supers[c]
            d == own[m]
<1>1. /\ own \in Seq(Classes) /\ Len(own) = 1 + Len(sup) /\ own[1] = c
      /\ \A i \in 2..1 + Len(sup) : own[i] = sup[i - 1]
      /\ sup \in Seq(Classes) /\ Len(sup) \in Nat
  BY PathParts, CacheAssumption
<1>2. SUFFICES <<d>> \o Supers[d] = SubSeq(own, m, Len(own))
  OBVIOUS
<1>3. Supers[d] = SubSeq(sup, m, Len(sup))
  <2>1. CASE m = 1
    <3>1. d = c /\ Supers[d] = sup
      BY <1>1, <2>1
    <3>2. SubSeq(sup, 1, Len(sup)) = sup
      BY <1>1, SubSeqFull
    <3>. QED BY <2>1, <3>1, <3>2
  <2>2. CASE m # 1
    <3>1. m \in 2..1 + Len(sup) /\ m - 1 \in 1..Len(sup) /\ d = sup[m - 1]
      BY <1>1, <2>2
    <3>2. Supers[sup[m - 1]] = SubSeq(sup, (m - 1) + 1, Len(sup))
      BY <3>1, CacheAssumption
    <3>. QED BY <3>1, <3>2
  <2>. QED BY <2>1, <2>2
<1>4. d \in Classes
  BY <1>1
<1>. HIDE DEF own, sup, d
<1>5. /\ Supers[d] \in Seq(Classes)
      /\ Len(Supers[d]) = IF m <= Len(sup) THEN Len(sup) - m + 1 ELSE 0
      /\ \A i \in 1..Len(sup) - m + 1 : Supers[d][i] = sup[m + i - 1]
  <2>1. m \in Int /\ Len(sup) \in Int /\ \A i \in m..Len(sup) : sup[i] \in Classes
    BY <1>1 DEF sup
  <2>. QED BY <1>3, <2>1, SubSeqProperties
<1>6. /\ SubSeq(own, m, Len(own)) \in Seq(Classes)
      /\ Len(SubSeq(own, m, Len(own))) = Len(own) - m + 1
      /\ \A i \in 1..Len(own) - m + 1 : SubSeq(own, m, Len(own))[i] = own[m + i - 1]
  <2>1. m \in Int /\ Len(own) \in Int /\ m <= Len(own) /\ \A i \in m..Len(own) : own[i] \in Classes
    BY <1>1 DEF sup
  <2>. QED BY <2>1, SubSeqProperties
<1>7. /\ <<d>> \o Supers[d] \in Seq(Classes)
      /\ Len(<<d>> \o Supers[d]) = 1 + Len(Supers[d])
      /\ \A i \in 1..1 + Len(Supers[d]) :
             (<<d>> \o Supers[d])[i] = IF i <= 1 THEN d ELSE Supers[d][i - 1]
  <2>1. <<d>> \in Seq(Classes) /\ Len(<<d>>) = 1 /\ \A i \in 1..1 : <<d>>[i] = d
    BY <1>4
  <2>2. Len(Supers[d]) \in Nat
    BY <1>5
  <2>. QED BY <1>5, <2>1, <2>2, ConcatProperties
<1>8. Len(<<d>> \o Supers[d]) = Len(own) - m + 1
  <2>1. m \in Nat /\ m <= 1 + Len(sup) /\ m >= 1 /\ Len(sup) \in Nat
    BY <1>1 DEF sup
  <2>2. Len(Supers[d]) = Len(sup) - m + 1
    BY <1>5, <2>1
  <2>. QED BY <1>1, <1>7, <2>1, <2>2
<1>9. ASSUME NEW i \in 1..Len(own) - m + 1
      PROVE  (<<d>> \o Supers[d])[i] = SubSeq(own, m, Len(own))[i]
  <2>1. CASE i = 1
    <3>1. m + 1 - 1 = m /\ 1 \in 1..1 + Len(Supers[d])
      BY <1>5, <1>1 DEF sup
    <3>2. (<<d>> \o Supers[d])[1] = d
      BY <1>7, <3>1
    <3>3. SubSeq(own, m, Len(own))[1] = own[m]
      BY <1>6, <2>1, <3>1
    <3>4. d = own[m]
      BY DEF d
    <3>5. (<<d>> \o Supers[d])[1] = SubSeq(own, m, Len(own))[1]
      BY <3>2, <3>3, <3>4, Zenon
    <3>. QED BY <2>1, <3>5, Zenon
  <2>2. CASE i # 1
    <3>1. /\ i - 1 \in 1..Len(sup) - m + 1 /\ i \in 1..1 + Len(Supers[d])
          /\ m + i - 1 \in 2..1 + Len(sup)
      BY <1>1, <1>7, <1>8, <2>2 DEF sup
    <3>2. (<<d>> \o Supers[d])[i] = sup[m + (i - 1) - 1]
      BY <1>5, <1>7, <3>1, <2>2
    <3>3. SubSeq(own, m, Len(own))[i] = sup[(m + i - 1) - 1]
      BY <1>1, <1>6, <3>1
    <3>4. m + (i - 1) - 1 = (m + i - 1) - 1
      BY <1>1 DEF sup
    <3>. QED BY <3>2, <3>3, <3>4
  <2>. QED BY <2>1, <2>2
<1>. QED BY <1>6, <1>7, <1>8, <1>9, SeqEqual

\* A faithful memo, and so also the settings themselves, lead a lookup to the nearest
\* setting: what it meets first is one, or was found by a lookup that went on from there.
LEMMA PathFindsNearest ==
    ASSUME NEW raw \in [Classes -> Size], NEW memo \in [Classes -> Size],
           NoInterfaceSet(raw), Faithful(raw, memo), NEW c \in Classes
    PROVE  FirstSize(memo, Path(c)) = Nearest(raw, c)
<1>. DEFINE own == <<c>> \o Supers[c]
            path == Path(c)
<1>1. /\ own \in Seq(Classes) /\ path \in Seq(Classes)
      /\ Len(own) = 1 + Len(Supers[c])
      /\ Len(path) = 1 + Len(Supers[c]) + Len(Interfaces[c])
      /\ \A i \in 1..Len(path) :
             IF i <= 1 + Len(Supers[c]) THEN path[i] = own[i] ELSE IsInterface(path[i])
  BY PathParts, Zenon
<1>9. /\ Len(Supers[c]) \in Nat /\ Len(Interfaces[c]) \in Nat
      /\ \A i \in 1..Len(path) : path[i] \in Classes
      /\ \A i \in 1..Len(own) : own[i] \in Classes
  <2>1. Supers[c] \in Seq(Classes) /\ Interfaces[c] \in Seq(Classes)
    BY CacheAssumption
  <2>2. \A s \in Seq(Classes) : \A i \in 1..Len(s) : s[i] \in Classes
    OBVIOUS
  <2>3. \A s \in Seq(Classes) : Len(s) \in Nat
    OBVIOUS
  <2>. QED BY <1>1, <2>1, <2>2, <2>3, Zenon
<1>2. ASSUME NEW i \in Classes, IsInterface(i)
      PROVE  memo[i] = Null
  <2>1. raw[i] = Null /\ Supers[i] = <<>>
    BY <1>2, CacheAssumption DEF NoInterfaceSet
  <2>2. <<i>> \o Supers[i] = <<i>>
    BY <2>1, ConcatEmptySeq
  <2>3. Nearest(raw, i) = Null
    <3>1. <<i>> \in Seq(Classes) /\ \A j \in 1..Len(<<i>>) : raw[<<i>>[j]] = Null
      BY <2>1
    <3>2. FirstSize(raw, <<i>>) = Null
      BY <3>1, FirstSizeNone
    <3>. QED BY <2>2, <3>2 DEF Nearest
  <2>. QED BY <2>1, <2>3 DEF Faithful
<1>3. \A i \in 1..Len(path) : memo[path[i]] # Null => i \in 1..Len(own) /\ path[i] = own[i]
  <2>1. ASSUME NEW i \in 1..Len(path), memo[path[i]] # Null
        PROVE  i \in 1..Len(own) /\ path[i] = own[i]
    <3>1. ~ IsInterface(path[i])
      BY <1>2, <1>9, <2>1, Zenon
    <3>2. i <= 1 + Len(Supers[c]) /\ path[i] = own[i]
      BY <1>1, <2>1, <3>1, Zenon
    <3>3. i \in Nat /\ 1 <= i
      BY <1>9
    <3>. HIDE DEF own, path
    <3>. QED BY <1>1, <1>9, <3>2, <3>3
  <2>. QED BY <2>1
<1>4. \A i \in 1..Len(own) : i \in 1..Len(path) /\ path[i] = own[i] /\ own[i] \in Classes
  <2>1. ASSUME NEW i \in 1..Len(own)
        PROVE  i \in 1..Len(path) /\ path[i] = own[i]
    <3>1. i \in 1..Len(path) /\ i <= 1 + Len(Supers[c])
      <4>1. i \in 1..1 + Len(Supers[c])
        BY <1>1, Zenon
      <4>2. i \in 1..1 + Len(Supers[c]) + Len(Interfaces[c]) /\ i <= 1 + Len(Supers[c])
        <5>1. Len(Supers[c]) \in Nat /\ Len(Interfaces[c]) \in Nat
          BY <1>9, Zenon
        <5>2. \A n, k \in Nat : \A j \in 1..1 + n : j \in 1..1 + n + k /\ j <= 1 + n
          OBVIOUS
        <5>. QED BY <4>1, <5>1, <5>2, Zenon
      <4>. QED BY <1>1, <4>2, Zenon
    <3>. QED BY <1>1, <3>1, Zenon
  <2>. QED BY <1>9, <2>1, Zenon
<1>5. \A d \in Classes : memo[d] = Null => raw[d] = Null
  BY DEF Faithful
<1>6. SUFFICES FirstSize(memo, path) = FirstSize(raw, own)
  BY DEF Nearest
<1>. HIDE DEF own, path
<1>7. CASE \A i \in 1..Len(path) : memo[path[i]] = Null
  <2>1. \A i \in 1..Len(own) : raw[own[i]] = Null
    BY <1>4, <1>5, <1>7
  <2>2. FirstSize(memo, path) = Null
    BY <1>1, <1>7, FirstSizeNone, Zenon
  <2>3. FirstSize(raw, own) = Null
    BY <1>1, <2>1, FirstSizeNone, Zenon
  <2>. QED BY <2>2, <2>3
<1>8. CASE ~ \A i \in 1..Len(path) : memo[path[i]] = Null
  <2>1. PICK m \in 1..Len(path) :
               /\ memo[path[m]] # Null
               /\ \A j \in 1..Len(path) : j < m => memo[path[j]] = Null
    BY <1>1, <1>8, FirstSizeExists
  <2>2. FirstSize(memo, path) = memo[path[m]]
    BY <1>1, <2>1, FirstSizeAt
  <2>3. m \in 1..Len(own) /\ path[m] = own[m]
    BY <1>3, <2>1
  <2>4. \A j \in 1..Len(own) : j < m => raw[own[j]] = Null
    BY <1>4, <1>5, <2>1
  <2>. DEFINE d == own[m]
  <2>5. d \in Classes
    BY <1>4, <2>3
  <2>6. CASE raw[d] # Null
    <3>1. FirstSize(raw, own) = raw[own[m]]
      BY <1>1, <2>3, <2>4, <2>6, FirstSizeAt
    <3>2. memo[d] = raw[d]
      BY <2>5, <2>6 DEF Faithful
    <3>. QED BY <2>2, <2>3, <3>1, <3>2
  <2>7. CASE raw[d] = Null
    <3>1. memo[d] = Nearest(raw, d)
      BY <2>1, <2>3, <2>5, <2>7 DEF Faithful
    <3>2. <<d>> \o Supers[d] = SubSeq(own, m, Len(own))
      BY <1>1, <2>3, RestOfHierarchy DEF own
    <3>3. FirstSize(raw, SubSeq(own, m, Len(own))) = FirstSize(raw, own)
      BY <1>1, <2>3, <2>4, FirstSizeOfSuffix
    <3>4. Nearest(raw, d) = FirstSize(raw, own)
      BY <3>2, <3>3 DEF Nearest
    <3>. QED BY <2>2, <2>3, <3>1, <3>4
  <2>. QED BY <2>6, <2>7
<1>. QED BY <1>7, <1>8

\* A class with a setting of its own is nearest to itself.
LEMMA NearestIsOwn ==
    ASSUME NEW raw, NEW c \in Classes, raw[c] # Null
    PROVE  Nearest(raw, c) = raw[c]
<1>1. /\ <<c>> \o Supers[c] \in Seq(Classes)
      /\ Len(<<c>> \o Supers[c]) = 1 + Len(Supers[c])
      /\ (<<c>> \o Supers[c])[1] = c
      /\ Len(Supers[c]) \in Nat
  BY PathParts, CacheAssumption
<1>. DEFINE own == <<c>> \o Supers[c]
<1>. HIDE DEF own
<1>2. 1 \in 1..Len(own) /\ own \in Seq(Classes) /\ own[1] = c
  BY <1>1 DEF own
<1>3. FirstSize(raw, own) = raw[own[1]]
  BY <1>2, FirstSizeAt
<1>. QED BY <1>2, <1>3 DEF Nearest, own

\* A lookup keeps a memo faithful.
LEMMA LookUpIsFaithful ==
    ASSUME NEW raw \in [Classes -> Size], NEW memo \in [Classes -> Size],
           NoInterfaceSet(raw), Faithful(raw, memo), NEW c \in Classes
    PROVE  Faithful(raw, [memo EXCEPT ![c] = FirstSize(memo, Path(c))])
<1>. DEFINE new == [memo EXCEPT ![c] = FirstSize(memo, Path(c))]
<1>1. new[c] = Nearest(raw, c) /\ \A d \in Classes \ {c} : new[d] = memo[d]
  BY PathFindsNearest
<1>2. raw[c] # Null => Nearest(raw, c) = raw[c]
  BY NearestIsOwn
<1>. HIDE DEF new
<1>3. \A d \in Classes :
          IF raw[d] # Null THEN new[d] = raw[d] ELSE new[d] \in {Null, Nearest(raw, d)}
  BY <1>1, <1>2 DEF Faithful
<1>. QED BY <1>3 DEF Faithful, new
-----------------------------------------------------------------------------
(***************************************************************************)
(* The inductive invariant.                                                *)
(***************************************************************************)

ClassMemoOK == NoInterfaceSet(rawClass) /\ ~classChanged => Faithful(rawClass, memoClass)

\* With patterns alone the memo stays out of date, as no lookup comes to its end.
TopicMemoOK ==
    /\ NoneSet(rawTopic) /\ ~NoneSet(rawPattern) => topicChanged
    /\ ~topicChanged =>
           \A t \in Topics :
               IF rawTopic[t] # Null THEN memoTopic[t] = rawTopic[t]
               ELSE memoTopic[t] \in {rawPattern[p] : p \in Applying(t)} \cup {Null}

\* addEventToCache has the list that is in the map, or one that no map has any more, or none.
ListOK == adding.at = "fetched" => (cache[adding.key] # Null <=> adding.list = "held")

Sizing == TypeOK /\ ClassMemoOK /\ TopicMemoOK
IInv == Sizing /\ ListOK /\ ClassCacheIsLatest

LEMMA InitInv == Init => IInv
<1>. SUFFICES ASSUME Init PROVE IInv
  OBVIOUS
<1>1. TypeOK
  BY CacheAssumption DEF Init, TypeOK, Size, Idle
<1>2. ClassMemoOK
  BY DEF Init, ClassMemoOK, Faithful
<1>3. TopicMemoOK
  BY DEF Init, TopicMemoOK, NoneSet
<1>4. ListOK
  BY DEF Init, ListOK, Idle
<1>5. ClassCacheIsLatest
  BY DEF Init, ClassCacheIsLatest, IsLatest, Keys
<1>. QED BY <1>1, <1>2, <1>3, <1>4, <1>5 DEF IInv, Sizing

\* A lookup of a class keeps types and memo, and answers with a size.
LEMMA LookUpClassKeeps ==
    ASSUME TypeOK, ClassMemoOK, NEW c \in Classes, LookUpClass(c)
    PROVE  /\ rawClass' \in [Classes -> Size] /\ memoClass' \in [Classes -> Size]
           /\ classChanged' \in BOOLEAN
           /\ ClassMemoOK'
<1>1. CASE NoneSet(rawClass)
  BY <1>1 DEF LookUpClass, TypeOK, ClassMemoOK, classSizes
<1>2. CASE ~ NoneSet(rawClass)
  <2>. DEFINE r == Refreshed
  <2>1. r \in [Classes -> Size]
    BY DEF Refreshed, TypeOK
  <2>2. NoInterfaceSet(rawClass) => Faithful(rawClass, r)
    BY DEF Refreshed, ClassMemoOK, Faithful
  <2>3. /\ memoClass' = [r EXCEPT ![c] = FirstSize(r, Path(c))]
        /\ classChanged' = FALSE /\ rawClass' = rawClass
    BY <1>2 DEF LookUpClass
  <2>4. FirstSize(r, Path(c)) \in Size
    <3>. HIDE DEF r
    <3>. QED BY <2>1, PathParts, FirstSizeType
  <2>5. rawClass \in [Classes -> Size]
    BY DEF TypeOK
  <2>. HIDE DEF r
  <2>6. NoInterfaceSet(rawClass) => Faithful(rawClass, memoClass')
    <3>1. \A raw, memo \in [Classes -> Size] :
              NoInterfaceSet(raw) /\ Faithful(raw, memo) =>
                  Faithful(raw, [memo EXCEPT ![c] = FirstSize(memo, Path(c))])
      BY LookUpIsFaithful
    <3>. QED BY <2>1, <2>2, <2>3, <2>5, <3>1
  <2>7. ClassMemoOK'
    BY <2>3, <2>6 DEF ClassMemoOK
  <2>. QED BY <2>1, <2>3, <2>4, <2>5, <2>7
<1>. QED BY <1>1, <1>2

LEMMA ClassSizeType ==
    ASSUME TypeOK, NEW c \in Classes
    PROVE  ClassSize(c) \in Sizes
<1>1. Refreshed \in [Classes -> Size]
  BY DEF Refreshed, TypeOK
<1>2. FirstSize(Refreshed, Path(c)) \in Size
  <2>1. \A memo \in [Classes -> Size] : FirstSize(memo, Path(c)) \in Size
    BY PathParts, FirstSizeType
  <2>. QED BY <1>1, <2>1
<1>. QED BY <1>2 DEF ClassSize, OrDefault, TypeOK, Size

\* A lookup of a topic keeps types and memo.
LEMMA LookUpTopicKeeps ==
    ASSUME TypeOK, TopicMemoOK, NEW t \in Topics, NEW answer \in Size, LookUpTopic(t, answer)
    PROVE  /\ rawTopic' \in [Topics -> Size] /\ memoTopic' \in [Topics -> Size]
           /\ rawPattern' \in [Patterns -> Size] /\ topicChanged' \in BOOLEAN
           /\ TopicMemoOK'
           /\ OrDefault(answer) \in Sizes
<1>0. OrDefault(answer) \in Sizes
  BY DEF OrDefault, TypeOK, Size
<1>1. CASE NoneSet(rawTopic) /\ NoneSet(rawPattern)
  <2>1. UNCHANGED topicSizes
    BY <1>1 DEF LookUpTopic
  <2>. QED BY <1>0, <2>1 DEF TypeOK, TopicMemoOK, topicSizes, Applying, NoneSet
<1>2. CASE ~ (NoneSet(rawTopic) /\ NoneSet(rawPattern))
  <2>1. /\ answer \in TopicAnswers(t)
        /\ memoTopic' = [RefreshedTopics EXCEPT ![t] = answer]
        /\ topicChanged' = FALSE
        /\ rawTopic' = rawTopic /\ rawPattern' = rawPattern
    BY <1>2 DEF LookUpTopic
  <2>2. RefreshedTopics \in [Topics -> Size]
    BY DEF RefreshedTopics, TypeOK
  <2>3. \A u \in Topics :
            IF rawTopic[u] # Null THEN RefreshedTopics[u] = rawTopic[u]
            ELSE RefreshedTopics[u] \in {rawPattern[p] : p \in Applying(u)} \cup {Null}
    BY DEF RefreshedTopics, TopicMemoOK
  <2>4. IF rawTopic[t] # Null THEN answer = rawTopic[t]
        ELSE answer \in {rawPattern[p] : p \in Applying(t)} \cup {Null}
    BY <2>1, <2>3 DEF TopicAnswers
  <2>5. memoTopic'[t] = answer /\ \A u \in Topics \ {t} : memoTopic'[u] = RefreshedTopics[u]
    BY <2>1, <2>2
  <2>6. \A u \in Topics : Applying(u)' = Applying(u)
    BY <2>1 DEF Applying
  <2>7. \A u \in Topics :
            IF rawTopic[u] # Null THEN memoTopic'[u] = rawTopic[u]
            ELSE memoTopic'[u] \in {rawPattern[p] : p \in Applying(u)} \cup {Null}
    BY <2>3, <2>4, <2>5
  <2>8. TopicMemoOK'
    <3>1. ~ (NoneSet(rawTopic) /\ ~NoneSet(rawPattern))
      BY <2>1 DEF TopicAnswers, TopicLookupFails, TopicMemoOK
    <3>2. ~ (NoneSet(rawTopic)' /\ ~NoneSet(rawPattern)')
      BY <2>1, <3>1 DEF NoneSet
    <3>. QED BY <2>1, <2>6, <2>7, <3>2 DEF TopicMemoOK
  <2>. QED BY <1>0, <2>1, <2>2, <2>8 DEF TypeOK
<1>. QED BY <1>1, <1>2
-----------------------------------------------------------------------------
(***************************************************************************)
(* One lemma per action.                                                   *)
(***************************************************************************)

LEMMA SetDefaultInv ==
    ASSUME IInv, NEW n \in Sizes, SetDefault(n)
    PROVE  IInv'
BY DEF SetDefault, IInv, Sizing, TypeOK, ClassMemoOK, TopicMemoOK, ListOK, ClassCacheIsLatest,
       IsLatest, classSizes, topicSizes, Applying, NoneSet

LEMMA SetClassSizeInv ==
    ASSUME IInv, NEW c \in Classes, NEW n \in Sizes, SetClassSize(c, n)
    PROVE  IInv'
<1>1. TypeOK'
  BY DEF SetClassSize, IInv, Sizing, TypeOK, topicSizes, Size
<1>2. ClassMemoOK'
  BY DEF SetClassSize, ClassMemoOK
<1>3. TopicMemoOK' /\ ListOK' /\ ClassCacheIsLatest'
  BY DEF SetClassSize, IInv, Sizing, TopicMemoOK, ListOK, ClassCacheIsLatest, IsLatest,
         topicSizes, Applying, NoneSet
<1>. QED BY <1>1, <1>2, <1>3 DEF IInv, Sizing

LEMMA SetTopicSizeInv ==
    ASSUME IInv, NEW t \in Topics, NEW n \in Sizes, SetTopicSize(t, n)
    PROVE  IInv'
<1>1. TypeOK'
  BY DEF SetTopicSize, IInv, Sizing, TypeOK, classSizes, Size
<1>2. TopicMemoOK'
  BY DEF SetTopicSize, TopicMemoOK
<1>3. ClassMemoOK' /\ ListOK' /\ ClassCacheIsLatest'
  BY DEF SetTopicSize, IInv, Sizing, ClassMemoOK, ListOK, ClassCacheIsLatest, IsLatest, classSizes
<1>. QED BY <1>1, <1>2, <1>3 DEF IInv, Sizing

LEMMA SetPatternSizeInv ==
    ASSUME IInv, NEW p \in Patterns, NEW n \in Sizes, SetPatternSize(p, n)
    PROVE  IInv'
<1>1. TypeOK'
  BY DEF SetPatternSize, IInv, Sizing, TypeOK, classSizes, Size
<1>2. TopicMemoOK'
  BY DEF SetPatternSize, TopicMemoOK
<1>3. ClassMemoOK' /\ ListOK' /\ ClassCacheIsLatest'
  BY DEF SetPatternSize, IInv, Sizing, ClassMemoOK, ListOK, ClassCacheIsLatest, IsLatest, classSizes
<1>. QED BY <1>1, <1>2, <1>3 DEF IInv, Sizing

LEMMA GetClassSizeInv ==
    ASSUME IInv, NEW c \in Classes, GetClassSize(c)
    PROVE  IInv'
<1>1. /\ LookUpClass(c)
      /\ UNCHANGED <<default, topicSizes, cache, published, adding>>
  BY DEF GetClassSize
<1>2. /\ rawClass' \in [Classes -> Size] /\ memoClass' \in [Classes -> Size]
      /\ classChanged' \in BOOLEAN
      /\ ClassMemoOK'
  BY <1>1, LookUpClassKeeps DEF IInv, Sizing
<1>3. TypeOK'
  BY <1>1, <1>2 DEF IInv, Sizing, TypeOK, topicSizes
<1>4. TopicMemoOK' /\ ListOK' /\ ClassCacheIsLatest'
  BY <1>1 DEF IInv, Sizing, TopicMemoOK, ListOK, ClassCacheIsLatest, IsLatest, topicSizes, Applying, NoneSet
<1>. QED BY <1>2, <1>3, <1>4 DEF IInv, Sizing

LEMMA GetTopicSizeInv ==
    ASSUME IInv, NEW t \in Topics, GetTopicSize(t)
    PROVE  IInv'
<1>1. UNCHANGED topicSizes \/ \E answer \in Size : LookUpTopic(t, answer)
  BY DEF GetTopicSize
<1>2. UNCHANGED <<default, classSizes, cache, published, adding>>
  BY DEF GetTopicSize
<1>3. /\ rawTopic' \in [Topics -> Size] /\ memoTopic' \in [Topics -> Size]
      /\ rawPattern' \in [Patterns -> Size] /\ topicChanged' \in BOOLEAN
      /\ TopicMemoOK'
  <2>1. CASE UNCHANGED topicSizes
    BY <2>1 DEF IInv, Sizing, TypeOK, TopicMemoOK, topicSizes, Applying, NoneSet
  <2>2. CASE \E answer \in Size : LookUpTopic(t, answer)
    BY <2>2, LookUpTopicKeeps DEF IInv, Sizing
  <2>. QED BY <1>1, <2>1, <2>2
<1>4. TypeOK'
  BY <1>2, <1>3 DEF IInv, Sizing, TypeOK, classSizes
<1>5. ClassMemoOK' /\ ListOK' /\ ClassCacheIsLatest'
  BY <1>2 DEF IInv, Sizing, ClassMemoOK, ListOK, ClassCacheIsLatest, IsLatest, classSizes
<1>. QED BY <1>3, <1>4, <1>5 DEF IInv, Sizing

LEMMA FindClassSizeInv ==
    ASSUME IInv, NEW c \in Instantiable, FindClassSize(c)
    PROVE  IInv'
<1>1. /\ adding' = [at |-> "sized", key |-> c, size |-> ClassSize(c)]
      /\ LookUpClass(c)
      /\ UNCHANGED <<default, topicSizes, cache, published>>
      /\ c \in Classes /\ c \in Keys
  BY DEF FindClassSize, Instantiable, Keys
<1>2. /\ rawClass' \in [Classes -> Size] /\ memoClass' \in [Classes -> Size]
      /\ classChanged' \in BOOLEAN
      /\ ClassMemoOK'
  BY <1>1, LookUpClassKeeps DEF IInv, Sizing
<1>3. ClassSize(c) \in Sizes
  BY <1>1, ClassSizeType DEF IInv, Sizing
<1>4. adding' \in Adds
  BY <1>1, <1>3 DEF Adds
<1>5. TypeOK'
  BY <1>1, <1>2, <1>4 DEF IInv, Sizing, TypeOK, topicSizes
<1>6. TopicMemoOK' /\ ClassCacheIsLatest'
  BY <1>1 DEF IInv, Sizing, TopicMemoOK, ClassCacheIsLatest, IsLatest, topicSizes, Applying, NoneSet
<1>7. ListOK'
  BY <1>1 DEF ListOK
<1>. QED BY <1>2, <1>5, <1>6, <1>7 DEF IInv, Sizing

LEMMA FindTopicSizeInv ==
    ASSUME IInv, NEW t \in Topics, FindTopicSize(t)
    PROVE  IInv'
<1>1. PICK answer \in Size :
          /\ LookUpTopic(t, answer)
          /\ adding' = [at |-> "sized", key |-> t, size |-> OrDefault(answer)]
  BY DEF FindTopicSize
<1>2. UNCHANGED <<default, classSizes, cache, published>> /\ t \in Keys
  BY DEF FindTopicSize, Keys
<1>3. /\ rawTopic' \in [Topics -> Size] /\ memoTopic' \in [Topics -> Size]
      /\ rawPattern' \in [Patterns -> Size] /\ topicChanged' \in BOOLEAN
      /\ TopicMemoOK'
      /\ OrDefault(answer) \in Sizes
  BY <1>1, LookUpTopicKeeps DEF IInv, Sizing
<1>4. adding' \in Adds
  BY <1>1, <1>2, <1>3 DEF Adds
<1>5. TypeOK'
  BY <1>2, <1>3, <1>4 DEF IInv, Sizing, TypeOK, classSizes
<1>6. ClassMemoOK' /\ ClassCacheIsLatest'
  BY <1>2 DEF IInv, Sizing, ClassMemoOK, ClassCacheIsLatest, IsLatest, classSizes
<1>7. ListOK'
  BY <1>1 DEF ListOK
<1>. QED BY <1>3, <1>5, <1>6, <1>7 DEF IInv, Sizing

LEMMA TopicSizeThrowsInv ==
    ASSUME IInv, NEW t \in Topics, TopicSizeThrows(t) \/ Abandon
    PROVE  IInv'
<1>1. UNCHANGED <<default, classSizes, topicSizes, cache, published>>
  BY DEF TopicSizeThrows, Abandon
<1>2. adding' \in Adds \cup {Idle} /\ adding'.at # "fetched"
  BY DEF TopicSizeThrows, Abandon, Adds, Idle
<1>3. TypeOK'
  BY <1>1, <1>2 DEF IInv, Sizing, TypeOK, classSizes, topicSizes
<1>4. ListOK'
  BY <1>2 DEF ListOK
<1>5. ClassMemoOK' /\ TopicMemoOK' /\ ClassCacheIsLatest'
  BY <1>1 DEF IInv, Sizing, ClassMemoOK, TopicMemoOK, ClassCacheIsLatest, IsLatest, classSizes,
              topicSizes, Applying, NoneSet
<1>. QED BY <1>3, <1>4, <1>5 DEF IInv, Sizing

LEMMA FetchListInv ==
    ASSUME IInv, FetchList
    PROVE  IInv'
<1>1. /\ adding.at = "sized" /\ adding \in Adds
      /\ adding' = [at |-> "fetched", key |-> adding.key, size |-> adding.size,
                    list |-> IF cache[adding.key] = Null THEN "none" ELSE "held"]
      /\ UNCHANGED <<default, classSizes, topicSizes, cache, published>>
  BY DEF FetchList, IInv, Sizing, TypeOK, Idle
<1>2. adding.key \in Keys /\ adding.size \in Sizes
  BY <1>1 DEF Adds
<1>3. adding' \in Adds
  BY <1>1, <1>2 DEF Adds
<1>4. TypeOK'
  BY <1>1, <1>3 DEF IInv, Sizing, TypeOK, classSizes, topicSizes
<1>5. ListOK'
  BY <1>1 DEF ListOK
<1>6. ClassMemoOK' /\ TopicMemoOK' /\ ClassCacheIsLatest'
  BY <1>1 DEF IInv, Sizing, ClassMemoOK, TopicMemoOK, ClassCacheIsLatest, IsLatest, classSizes,
              topicSizes, Applying, NoneSet
<1>. QED BY <1>4, <1>5, <1>6 DEF IInv, Sizing

LEMMA ClearInv ==
    ASSUME IInv, NEW keys, Clear(keys)
    PROVE  IInv'
<1>1. /\ \A k \in Keys : cache'[k] = IF k \in keys THEN Null ELSE cache[k]
      /\ cache' \in [Keys -> Seq(Nat) \cup {Null}]
      /\ UNCHANGED <<default, classSizes, topicSizes, published>>
  BY DEF Clear, IInv, Sizing, TypeOK
<1>2. adding' \in Adds \cup {Idle} /\ ListOK'
  <2>1. CASE adding.at = "fetched" /\ adding.key \in keys /\ adding.list = "held"
    <3>1. adding' = [adding EXCEPT !.list = "detached"]
      BY <2>1 DEF Clear
    <3>2. adding \in [at : {"fetched"}, key : Keys, size : Sizes, list : {"none", "held", "detached"}]
      BY <2>1 DEF IInv, Sizing, TypeOK, Adds, Idle
    <3>3. adding' \in Adds
      BY <3>1, <3>2 DEF Adds
    <3>4. adding'.key = adding.key /\ adding'.list = "detached" /\ adding.key \in Keys
      BY <3>1, <3>2
    <3>5. cache'[adding.key] = Null
      BY <1>1, <2>1, <3>4
    <3>. QED BY <3>3, <3>4, <3>5 DEF ListOK
  <2>2. CASE ~ (adding.at = "fetched" /\ adding.key \in keys /\ adding.list = "held")
    <3>1. adding' = adding /\ adding \in Adds \cup {Idle}
      BY <2>2 DEF Clear, IInv, Sizing, TypeOK
    <3>2. adding.at = "fetched" => (cache'[adding.key] # Null <=> adding.list = "held")
      <4>. SUFFICES ASSUME adding.at = "fetched"
                    PROVE  cache'[adding.key] # Null <=> adding.list = "held"
        OBVIOUS
      <4>1. adding.key \in Keys
        BY <3>1 DEF Adds, Idle
      <4>2. cache[adding.key] # Null <=> adding.list = "held"
        BY DEF IInv, ListOK
      <4>. QED BY <1>1, <2>2, <4>1, <4>2
    <3>. QED BY <3>1, <3>2 DEF ListOK
  <2>. QED BY <2>1, <2>2
<1>3. TypeOK'
  BY <1>1, <1>2 DEF IInv, Sizing, TypeOK, classSizes, topicSizes
<1>4. ClassMemoOK' /\ TopicMemoOK'
  BY <1>1 DEF IInv, Sizing, ClassMemoOK, TopicMemoOK, classSizes, topicSizes, Applying, NoneSet
<1>5. ClassCacheIsLatest'
  BY <1>1 DEF IInv, ClassCacheIsLatest, IsLatest, Keys
<1>. QED BY <1>2, <1>3, <1>4, <1>5 DEF IInv, Sizing

\* new is e and then the beginning of s, at most n entries in all.
IsHead(new, e, s, n) ==
    /\ new \in Seq(Nat) /\ Len(new) \in 1..n
    /\ new[1] = e
    /\ \A i \in 1..Len(new) : i # 1 => i - 1 \in 1..Len(s) /\ new[i] = s[i - 1]

\* What Newest keeps of a list: its head, at most n of it, and at least one if n is positive.
LEMMA NewestIsHead ==
    ASSUME NEW e \in Nat, NEW s \in Seq(Nat), NEW n \in Int, n > 0
    PROVE  IsHead(Newest(<<e>> \o s, n), e, s, n)
<1>. DEFINE all == <<e>> \o s
            m == IF Len(all) < n THEN Len(all) ELSE n
<1>1. /\ <<e>> \in Seq(Nat) /\ Len(<<e>>) = 1 /\ <<e>>[1] = e /\ Len(s) \in Nat
  OBVIOUS
<1>2. /\ all \in Seq(Nat) /\ Len(all) = 1 + Len(s)
      /\ \A i \in 1..1 + Len(s) : all[i] = IF i <= 1 THEN <<e>>[i] ELSE s[i - 1]
  BY <1>1, ConcatProperties
<1>3. all[1] = e /\ \A i \in 1..1 + Len(s) : i # 1 => all[i] = s[i - 1]
  BY <1>1, <1>2
<1>. HIDE DEF all
<1>4. m \in 1..Len(all) /\ m <= n
  BY <1>1, <1>2
<1>5. Newest(all, n) = SubSeq(all, 1, m)
  BY DEF Newest
<1>. HIDE DEF m
<1>6. /\ SubSeq(all, 1, m) \in Seq(Nat)
      /\ Len(SubSeq(all, 1, m)) = m
      /\ \A i \in 1..m : SubSeq(all, 1, m)[i] = all[i]
  <2>1. 1 \in Int /\ m \in Int /\ 1 <= m /\ \A i \in 1..m : all[i] \in Nat
    BY <1>1, <1>2, <1>4
  <2>2. /\ SubSeq(all, 1, m) \in Seq(Nat)
        /\ Len(SubSeq(all, 1, m)) = IF 1 <= m THEN m - 1 + 1 ELSE 0
        /\ \A i \in 1..m - 1 + 1 : SubSeq(all, 1, m)[i] = all[1 + i - 1]
    BY <2>1, SubSeqProperties
  <2>. QED BY <2>1, <2>2
<1>. DEFINE new == Newest(all, n)
<1>7. new \in Seq(Nat) /\ Len(new) = m /\ \A i \in 1..m : new[i] = all[i]
  BY <1>5, <1>6
<1>. HIDE DEF new
<1>8. new[1] = e /\ Len(new) \in 1..n
  BY <1>2, <1>1, <1>3, <1>4, <1>7
<1>9. \A i \in 1..Len(new) : i # 1 => i - 1 \in 1..Len(s) /\ new[i] = s[i - 1]
  <2>1. SUFFICES ASSUME NEW i \in 1..Len(new), i # 1
                 PROVE  i - 1 \in 1..Len(s) /\ new[i] = s[i - 1]
    OBVIOUS
  <2>2. i \in 1..m /\ i \in 1..1 + Len(s) /\ i - 1 \in 1..Len(s)
    BY <1>1, <1>2, <1>4, <1>7, <2>1
  <2>. QED BY <1>3, <1>7, <2>1, <2>2
<1>10. IsHead(new, e, s, n)
  BY <1>7, <1>8, <1>9 DEF IsHead
<1>. QED BY <1>10 DEF new, all

\* What AddToCache makes of the list it fetched: it is as long as the size allows and its
\* entries are one event further on than those of the list before, after the event itself.
LEMMA AddToCacheList ==
    ASSUME TypeOK, ListOK, AddToCache, NEW k, k = adding.key
    PROVE  /\ k \in Keys
           /\ published' = [published EXCEPT ![k] = published[k] + 1]
           /\ cache' \in [Keys -> Seq(Nat) \cup {Null}]
           /\ \A d \in Keys \ {k} : cache'[d] = cache[d]
           /\ k \notin Topics /\ IsLatest(k) => IsLatest(k)'
           /\ adding.size > 0 => cache'[k] = Null \/ Len(cache'[k]) \in 1..adding.size
<1>. DEFINE e == published[k] + 1
            kept == IF adding.size <= 0 THEN IF k \in Topics THEN cache[k] ELSE Null
                    ELSE CASE adding.list = "none" -> <<e>>
                           [] adding.list = "held" -> Newest(<<e>> \o cache[k], adding.size)
                           [] adding.list = "detached" -> cache[k]
<1>1. /\ adding \in [at : {"fetched"}, key : Keys, size : Sizes, list : {"none", "held", "detached"}]
      /\ adding.at = "fetched"
  BY DEF AddToCache, TypeOK, Adds, Idle
<1>2. /\ adding \in Adds /\ k \in Keys /\ adding.size \in Sizes
      /\ adding.list \in {"none", "held", "detached"}
      /\ (cache[k] # Null <=> adding.list = "held")
  BY <1>1 DEF Adds, ListOK
<1>3. cache' = [cache EXCEPT ![k] = kept] /\ published' = [published EXCEPT ![k] = e]
  BY DEF AddToCache
<1>4. /\ cache \in [Keys -> Seq(Nat) \cup {Null}] /\ published \in [Keys -> Nat]
      /\ adding.size \in Int /\ Null \notin Int
  BY <1>2, CacheAssumption DEF TypeOK
<1>5. e \in Nat /\ published[k] \in Nat /\ published'[k] = e
  BY <1>2, <1>3, <1>4
<1>6. cache'[k] = kept /\ \A d \in Keys \ {k} : cache'[d] = cache[d]
  BY <1>2, <1>3, <1>4
<1>. DEFINE Good ==
        /\ kept \in Seq(Nat) \cup {Null}
        /\ k \notin Topics /\ IsLatest(k) => IsLatest(k)'
        /\ adding.size > 0 => cache'[k] = Null \/ Len(cache'[k]) \in 1..adding.size
<1>13. SUFFICES Good
  <2>1. ASSUME Good
        PROVE  cache' \in [Keys -> Seq(Nat) \cup {Null}]
    <3>1. kept \in Seq(Nat) \cup {Null}
      BY <2>1
    <3>. HIDE DEF kept
    <3>. QED BY <1>3, <1>4, <3>1
  <2>. HIDE DEF kept, e
  <2>. QED BY <1>2, <1>3, <1>6, <2>1 DEF e
<1>7. CASE adding.size <= 0
  <2>1. kept = IF k \in Topics THEN cache[k] ELSE Null
    BY <1>7
  <2>2. ~ (adding.size > 0)
    BY <1>4, <1>7
  <2>3. k \notin Topics => cache'[k] = Null
    BY <1>6, <2>1
  <2>4. kept \in Seq(Nat) \cup {Null}
    BY <1>2, <1>4, <2>1
  <2>5. k \notin Topics => IsLatest(k)'
    BY <2>3 DEF IsLatest
  <2>. QED BY <2>2, <2>4, <2>5
<1>8. CASE ~ (adding.size <= 0) /\ adding.list = "none"
  <2>1. kept = <<e>>
    BY <1>8
  <2>2. cache'[k] = <<e>> /\ Len(<<e>>) = 1 /\ <<e>>[1] = e
    BY <1>6, <2>1
  <2>3. IsLatest(k)'
    BY <1>5, <2>2 DEF IsLatest
  <2>4. Len(cache'[k]) \in 1..adding.size
    BY <1>4, <1>8, <2>2
  <2>5. kept \in Seq(Nat)
    <3>. HIDE DEF kept, e
    <3>1. <<e>> \in Seq(Nat)
      BY <1>5
    <3>. QED BY <2>1, <3>1
  <2>. QED BY <2>3, <2>4, <2>5
<1>9. CASE ~ (adding.size <= 0) /\ adding.list = "held"
  <2>1. kept = Newest(<<e>> \o cache[k], adding.size)
    BY <1>9
  <2>2. cache[k] # Null /\ cache[k] \in Seq(Nat) /\ adding.size > 0
    BY <1>2, <1>4, <1>9
  <2>. DEFINE new == Newest(<<e>> \o cache[k], adding.size)
  <2>3. /\ new \in Seq(Nat) /\ Len(new) \in 1..adding.size
        /\ new[1] = e
        /\ \A i \in 1..Len(new) : i # 1 => i - 1 \in 1..Len(cache[k]) /\ new[i] = cache[k][i - 1]
    <3>1. IsHead(new, e, cache[k], adding.size)
      <4>. HIDE DEF e
      <4>. QED BY <1>4, <1>5, <2>2, NewestIsHead DEF new
    <3>. HIDE DEF new, e
    <3>. QED BY <3>1 DEF IsHead
  <2>. HIDE DEF new
  <2>4. cache'[k] = new /\ kept = new
    BY <1>6, <2>1 DEF new
  <2>5. ASSUME IsLatest(k)
        PROVE  IsLatest(k)'
    <3>1. \A j \in 1..Len(cache[k]) : cache[k][j] = published[k] + 1 - j
      BY <2>2, <2>5 DEF IsLatest
    <3>2. ASSUME NEW i \in 1..Len(new)
          PROVE  new[i] = published'[k] + 1 - i
      <4>. DEFINE n == published[k]
      <4>1. n \in Nat /\ published'[k] = n + 1 /\ i \in Nat
        BY <1>5, <2>3
      <4>. HIDE DEF n
      <4>2. CASE i = 1
        BY <1>5, <2>3, <4>1, <4>2
      <4>3. CASE i # 1
        <5>1. new[i] = cache[k][i - 1] /\ i - 1 \in 1..Len(cache[k])
          BY <2>3, <4>3
        <5>2. cache[k][i - 1] = n + 1 - (i - 1)
          BY <3>1, <5>1 DEF n
        <5>. QED BY <4>1, <5>1, <5>2
      <4>. QED BY <4>2, <4>3
    <3>3. IsLatest(k)' <=>
              (cache'[k] # Null => \A i \in 1..Len(cache'[k]) : cache'[k][i] = published'[k] + 1 - i)
      BY DEF IsLatest
    <3>. QED BY <2>4, <3>2, <3>3
  <2>. QED BY <2>3, <2>4, <2>5
<1>10. CASE ~ (adding.size <= 0) /\ adding.list = "detached"
  <2>1. kept = cache[k] /\ cache[k] = Null
    BY <1>2, <1>10
  <2>2. cache'[k] = Null
    BY <1>6, <2>1
  <2>3. IsLatest(k)'
    BY <2>2 DEF IsLatest
  <2>. QED BY <2>1, <2>2, <2>3
<1>. QED BY <1>2, <1>7, <1>8, <1>9, <1>10

LEMMA AddToCacheInv ==
    ASSUME IInv, AddToCache
    PROVE  IInv'
<1>0. TypeOK /\ ListOK
  BY DEF IInv, Sizing
<1>. PICK k : k = adding.key
  OBVIOUS
<1>1. /\ k \in Keys
      /\ published' = [published EXCEPT ![k] = published[k] + 1]
      /\ cache' \in [Keys -> Seq(Nat) \cup {Null}]
      /\ \A d \in Keys \ {k} : cache'[d] = cache[d]
      /\ k \notin Topics /\ IsLatest(k) => IsLatest(k)'
  BY <1>0, AddToCacheList
<1>2. adding' = Idle /\ UNCHANGED <<default, classSizes, topicSizes>>
  BY DEF AddToCache
<1>3. published' \in [Keys -> Nat] /\ \A d \in Keys \ {k} : published'[d] = published[d]
  BY <1>0, <1>1 DEF TypeOK
<1>4. TypeOK'
  BY <1>0, <1>1, <1>2, <1>3 DEF TypeOK, classSizes, topicSizes
<1>5. ListOK'
  BY <1>2 DEF ListOK, Idle
<1>6. ClassMemoOK' /\ TopicMemoOK'
  BY <1>2 DEF IInv, Sizing, ClassMemoOK, TopicMemoOK, classSizes, topicSizes, Applying, NoneSet
<1>7. ClassCacheIsLatest'
  <2>1. \A c \in Instantiable : c \in Keys /\ c \notin Topics
    BY CacheAssumption DEF Instantiable, Keys
  <2>2. ASSUME NEW c \in Instantiable, c # k
        PROVE  IsLatest(c)'
    <3>1. cache'[c] = cache[c] /\ published'[c] = published[c] /\ IsLatest(c)
      BY <1>1, <1>3, <2>1, <2>2 DEF IInv, ClassCacheIsLatest
    <3>. QED BY <3>1 DEF IsLatest
  <2>3. ASSUME NEW c \in Instantiable, c = k
        PROVE  IsLatest(c)'
    <3>1. k \notin Topics /\ IsLatest(k)
      BY <2>1, <2>3 DEF IInv, ClassCacheIsLatest
    <3>2. IsLatest(k)'
      BY <1>1, <3>1
    <3>. QED BY <2>3, <3>2
  <2>. QED BY <2>2, <2>3 DEF ClassCacheIsLatest
<1>. QED BY <1>4, <1>5, <1>6, <1>7 DEF IInv, Sizing

LEMMA NextInv == IInv /\ [Next]_vars => IInv'
<1>. SUFFICES ASSUME IInv, [Next]_vars PROVE IInv'
  OBVIOUS
<1>1. CASE \E n \in Sizes : SetDefault(n)
  BY <1>1, SetDefaultInv
<1>2. CASE \E c \in Classes, n \in Sizes : SetClassSize(c, n)
  BY <1>2, SetClassSizeInv
<1>3. CASE \E t \in Topics, n \in Sizes : SetTopicSize(t, n)
  BY <1>3, SetTopicSizeInv
<1>4. CASE \E p \in Patterns, n \in Sizes : SetPatternSize(p, n)
  BY <1>4, SetPatternSizeInv
<1>5. CASE \E c \in Classes : GetClassSize(c) \/ Clear(Assignable(c))
  BY <1>5, GetClassSizeInv, ClearInv
<1>6. CASE \E c \in Instantiable : FindClassSize(c)
  BY <1>6, FindClassSizeInv
<1>7. CASE \E t \in Topics :
              GetTopicSize(t) \/ FindTopicSize(t) \/ TopicSizeThrows(t) \/ Clear({t})
  BY <1>7, GetTopicSizeInv, FindTopicSizeInv, TopicSizeThrowsInv, ClearInv
<1>8. CASE \E p \in Patterns : Clear(Matches[p])
  BY <1>8, ClearInv
<1>9. CASE Clear(Keys)
  BY <1>9, ClearInv
<1>10. CASE FetchList
  BY <1>10, FetchListInv
<1>11. CASE AddToCache
  BY <1>11, AddToCacheInv
<1>13. CASE Abandon
  <2>1. adding \in [at : {"failed"}, key : Topics]
    BY <1>13 DEF Abandon, IInv, Sizing, TypeOK, Adds, Idle
  <2>. QED BY <1>13, <2>1, TopicSizeThrowsInv
<1>12. CASE UNCHANGED vars
  BY <1>12 DEF vars, classSizes, topicSizes, IInv, Sizing, TypeOK, ClassMemoOK, TopicMemoOK, ListOK,
               ClassCacheIsLatest, IsLatest, Applying, NoneSet
<1>. QED BY <1>1, <1>2, <1>3, <1>4, <1>5, <1>6, <1>7, <1>8, <1>9, <1>10, <1>11, <1>12,
            <1>13 DEF Next

\* The invariant holds in every state of every behaviour.
LEMMA AlwaysIInv == Spec => []IInv
BY InitInv, NextInv, PTL DEF Spec
-----------------------------------------------------------------------------
(***************************************************************************)
(* The theorems.                                                           *)
(***************************************************************************)

\* The variables keep their types: every lookup answers with a size that was set, and the
\* lists hold numbers of events only.
THEOREM TypeOKHolds == Spec => []TypeOK
<1>1. IInv => TypeOK
  BY DEF IInv, Sizing
<1>. QED BY <1>1, AlwaysIInv, PTL

\* setCacheSizeForEventClass, getCacheSizeForEventClass: in any hierarchy the size of a
\* class is the one set for it or for its nearest superclass with one, however it was
\* memoized before, unless an interface has a size.
THEOREM ClassSizeFollowsHierarchyHolds == Spec => []ClassSizeFollowsHierarchy
<1>1. IInv => ClassSizeFollowsHierarchy
  <2>. SUFFICES ASSUME IInv, NoInterfaceSet(rawClass), NEW c \in Classes
                PROVE  ClassSize(c) = NearestSetting(c)
    BY DEF ClassSizeFollowsHierarchy, NoInterfaceSet
  <2>. DEFINE r == Refreshed
  <2>1. rawClass \in [Classes -> Size] /\ r \in [Classes -> Size]
    BY DEF IInv, Sizing, TypeOK, Refreshed
  <2>2. Faithful(rawClass, r)
    BY DEF IInv, Sizing, ClassMemoOK, Refreshed, Faithful
  <2>. HIDE DEF r
  <2>3. FirstSize(r, Path(c)) = Nearest(rawClass, c)
    BY <2>1, <2>2, PathFindsNearest
  <2>4. CASE NoneSet(rawClass)
    <3>1. \A d \in Classes : rawClass[d] = Null
      BY <2>1, <2>4 DEF NoneSet
    <3>2. /\ <<c>> \o Supers[c] \in Seq(Classes)
          /\ \A i \in 1..Len(<<c>> \o Supers[c]) : (<<c>> \o Supers[c])[i] \in Classes
      <4>1. <<c>> \o Supers[c] \in Seq(Classes)
        BY PathParts
      <4>2. \A s \in Seq(Classes) : \A i \in 1..Len(s) : s[i] \in Classes
        OBVIOUS
      <4>. QED BY <4>1, <4>2, Zenon
    <3>3. FirstSize(rawClass, <<c>> \o Supers[c]) = Null
      <4>1. \A i \in 1..Len(<<c>> \o Supers[c]) : rawClass[(<<c>> \o Supers[c])[i]] = Null
        BY <3>1, <3>2, Zenon
      <4>. QED BY <3>2, <4>1, FirstSizeNone, Zenon
    <3>4. NearestSetting(c) = default
      BY <3>3, Zenon DEF NearestSetting, OrDefault
    <3>5. ClassSize(c) = default
      BY <2>4 DEF ClassSize
    <3>. QED BY <3>4, <3>5
  <2>5. CASE ~ NoneSet(rawClass)
    <3>1. ClassSize(c) = OrDefault(FirstSize(r, Path(c)))
      BY <2>5 DEF ClassSize, r
    <3>. QED BY <2>3, <3>1, Zenon DEF NearestSetting, Nearest
  <2>. QED BY <2>4, <2>5
<1>. QED BY <1>1, AlwaysIInv, PTL

\* getCacheSizeForTopic: a topic's own size goes before any pattern's, and a pattern's
\* counts only while it matches and is set, however the sizes were memoized.  While only
\* patterns have sizes there is no answer: putAll( null ) throws.
THEOREM TopicSizeFollowsSettingsHolds == Spec => []TopicSizeFollowsSettings
<1>1. IInv => TopicSizeFollowsSettings
  <2>. SUFFICES ASSUME IInv, NEW t \in Topics
                PROVE  IF NoneSet(rawTopic) /\ ~NoneSet(rawPattern) THEN TopicAnswers(t) = {}
                       ELSE IF rawTopic[t] # Null THEN TopicAnswers(t) = {rawTopic[t]}
                       ELSE IF Applying(t) = {} THEN TopicAnswers(t) = {Null}
                       ELSE /\ TopicAnswers(t) # {}
                            /\ TopicAnswers(t) \subseteq {rawPattern[p] : p \in Applying(t)}
    BY DEF TopicSizeFollowsSettings
  <2>1. IF rawTopic[t] # Null THEN RefreshedTopics[t] = rawTopic[t]
        ELSE RefreshedTopics[t] \in {rawPattern[p] : p \in Applying(t)} \cup {Null}
    BY DEF RefreshedTopics, IInv, Sizing, TopicMemoOK
  <2>2. TopicLookupFails <=> NoneSet(rawTopic) /\ ~NoneSet(rawPattern)
    BY DEF TopicLookupFails, IInv, Sizing, TopicMemoOK
  <2>. QED BY <2>1, <2>2 DEF TopicAnswers
<1>. QED BY <1>1, AlwaysIInv, PTL

\* addEventToCache, clearCache: the list of a class is its latest events without a gap,
\* also when it is cleared or its size changes between the steps of a publication.
THEOREM ClassCacheIsLatestHolds == Spec => []ClassCacheIsLatest
<1>1. IInv => ClassCacheIsLatest
  BY DEF IInv
<1>. QED BY <1>1, AlwaysIInv, PTL

\* addEventToCache: the publication of an event cuts its list to the size found for it.
THEOREM AdjustedOnPublicationHolds == Spec => AdjustedOnPublication
<1>1. IInv /\ [Next]_vars =>
          [adding.at = "fetched" /\ adding' = Idle /\ adding.size > 0 =>
              \/ cache'[adding.key] = Null
              \/ Len(cache'[adding.key]) \in 1..adding.size]_vars
  <2>. SUFFICES ASSUME IInv, Next, adding.at = "fetched", adding' = Idle, adding.size > 0
                PROVE  \/ cache'[adding.key] = Null
                       \/ Len(cache'[adding.key]) \in 1..adding.size
    OBVIOUS
  <2>1. adding' # adding
    BY DEF Idle
  <2>2. AddToCache
    <3>1. ASSUME NEW keys, Clear(keys) PROVE FALSE
      <4>1. CASE adding.at = "fetched" /\ adding.key \in keys /\ adding.list = "held"
        <5>1. adding' = [adding EXCEPT !.list = "detached"]
          BY <3>1, <4>1 DEF Clear
        <5>2. adding \in [at : {"fetched"}, key : Keys, size : Sizes,
                          list : {"none", "held", "detached"}]
          BY <4>1 DEF IInv, Sizing, TypeOK, Adds, Idle
        <5>3. adding'.at = "fetched"
          BY <5>1, <5>2
        <5>. QED BY <5>3 DEF Idle
      <4>2. CASE ~ (adding.at = "fetched" /\ adding.key \in keys /\ adding.list = "held")
        BY <2>1, <3>1, <4>2 DEF Clear
      <4>. QED BY <4>1, <4>2
    <3>2. \A c \in Classes : ~ GetClassSize(c) /\ \A n \in Sizes : ~ SetClassSize(c, n)
      BY <2>1 DEF GetClassSize, SetClassSize
    <3>3. \A t \in Topics : ~ GetTopicSize(t) /\ \A n \in Sizes : ~ SetTopicSize(t, n)
      BY <2>1 DEF GetTopicSize, SetTopicSize
    <3>4. \A n \in Sizes : ~ SetDefault(n) /\ \A p \in Patterns : ~ SetPatternSize(p, n)
      BY <2>1 DEF SetDefault, SetPatternSize
    <3>5. adding # Idle /\ adding.at # "sized"
      BY <2>1
    <3>6. ~ FetchList /\ ~ Abandon /\ (\A c \in Instantiable : ~ FindClassSize(c))
          /\ (\A t \in Topics : ~ FindTopicSize(t) /\ ~ TopicSizeThrows(t))
      BY <3>5 DEF FetchList, Abandon, FindClassSize, FindTopicSize, TopicSizeThrows
    <3>. QED BY <3>1, <3>2, <3>3, <3>4, <3>6 DEF Next
  <2>. PICK k : k = adding.key
    OBVIOUS
  <2>3. cache'[k] = Null \/ Len(cache'[k]) \in 1..adding.size
    BY <2>2, AddToCacheList DEF IInv, Sizing
  <2>. QED BY <2>3
<1>. QED BY <1>1, AlwaysIInv, PTL DEF Spec, AdjustedOnPublication
=============================================================================
