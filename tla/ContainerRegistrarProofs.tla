----------------------- MODULE ContainerRegistrarProofs -----------------------
(***************************************************************************)
(* For any components, suppliers, registrars and keys: a subscriber is     *)
(* never subscribed anywhere but to the service its registrar remembers,   *)
(* wherever a supplier throws; until one throws an action reaches the      *)
(* registrars of the container of its source, and no others, and a popup   *)
(* menu shown has the service of its invoker.                              *)
(*                                                                         *)
(* IInv carries the first result.  The others need facts about the walks   *)
(* up the hierarchy, which are recursive functions: a fact about every     *)
(* step of a walk is shown for the set of steps it holds at (AllSteps).    *)
(* WInv then says that every registrar outside the popup menus, or in the  *)
(* one shown last, has the service of its container or is still to be told.*)
(***************************************************************************)
EXTENDS ContainerRegistrar, FiniteSetTheorems, NaturalsInduction, TLAPS

\* The event dispatch thread's place in a move, and what it still has to do.
EdtType ==
    /\ edt \in [at : {"idle", "notify", "unsubscribe", "find", "subscribe"},
                registrar : Registrars \cup {Null}, left : SUBSET Keys,
                tell : SUBSET Registrars,
                attach : Components \cup {Null}, to : Components \cup {Null}]
    /\ listening \subseteq Registrars

\* One service and one set of subscriptions for each registrar.
TablesType ==
    /\ service = [r \in Registrars |-> service[r]]
    /\ subs = [r \in Registrars |-> subs[r]]
    /\ \A r \in Registrars : \A x \in subs[r] : x = <<x[1], x[2]>> /\ x[2] \in Keys

\* No service, no subscriptions.
NoneWithout == \A r \in Registrars : service[r] = Null => subs[r] = {}

\* How far the update in progress is.
Progress ==
    /\ edt.at \in {"unsubscribe", "find", "subscribe"} => edt.registrar \in Registrars
    /\ edt.at \in {"unsubscribe", "subscribe"} => service[edt.registrar] # Null
    /\ edt.at = "unsubscribe" => \A x \in subs[edt.registrar] : x[2] \in edt.left
    /\ edt.at = "find" => subs[edt.registrar] = {}

IInv == EdtType /\ TablesType /\ OneServiceAtATime /\ NoneWithout /\ Progress

\* Nothing is subscribed and nothing is under way at the start.
LEMMA InitIInv == Init => IInv
  BY ContainerAssumption
  DEF Init, IInv, EdtType, TablesType, OneServiceAtATime, NoneWithout, Progress, Idle

\* The registrars told are registrars.
LEMMA NotifyType ==
    ASSUME NEW tell \in SUBSET Registrars, NEW c \in Components \cup {Null},
           NEW p \in Components \cup {Null}
    PROVE  /\ Notify(tell, c, p) \in
                [at : {"idle", "notify", "unsubscribe", "find", "subscribe"},
                 registrar : Registrars \cup {Null}, left : SUBSET Keys,
                 tell : SUBSET Registrars,
                 attach : Components \cup {Null}, to : Components \cup {Null}]
           /\ Notify(tell, c, p).at = "notify"
  BY DEF Notify, Idle

\* A step that leaves the services and the subscriptions alone and the event
\* dispatch thread outside an update preserves the invariant.
LEMMA OutsideUpdate ==
    ASSUME IInv, EdtType', UNCHANGED <<service, subs>>, edt'.at \in {"idle", "notify"}
    PROVE  IInv'
  BY DEF IInv, TablesType, OneServiceAtATime, NoneWithout, Progress

LEMMA StutterIInv ==
    ASSUME IInv, UNCHANGED <<service, subs, listening, edt>>
    PROVE  IInv'
  BY DEF IInv, EdtType, TablesType, OneServiceAtATime, NoneWithout, Progress

\* The steps of a move that call no update.
LEMMA MoveIInv ==
    ASSUME IInv, NEW c \in Movable, NEW p \in Parents \cup {Null}, Move(c, p)
    PROVE  IInv'
  <1> DEFINE tell == IF parent[c] = Null THEN {} ELSE Told(c, parent[c])
             who == IF p = Null THEN Null ELSE c
  <1>1. /\ edt' = Notify(tell, who, p)
        /\ UNCHANGED <<service, subs, listening>>
    BY DEF Move
  <1>2. listening \subseteq Registrars
    BY DEF IInv, EdtType
  <1>3. tell \in SUBSET Registrars
    BY <1>2 DEF Told
  <1>4. who \in Components \cup {Null} /\ p \in Components \cup {Null}
    BY ContainerAssumption
  <1> HIDE DEF tell, who
  <1>5. EdtType' /\ edt'.at = "notify"
    BY <1>1, <1>2, <1>3, <1>4, NotifyType DEF EdtType
  <1> QED
    BY <1>1, <1>5, OutsideUpdate

LEMMA ShowIInv ==
    ASSUME IInv, NEW m \in Popups, NEW i \in Invokers, Show(m, i)
    PROVE  IInv'
  <1>1. edt' = Notify({}, m, Layer) /\ UNCHANGED <<service, subs, listening>>
    BY DEF Show
  <1>2. m \in Components /\ Layer \in Components /\ listening \subseteq Registrars
    BY ContainerAssumption DEF IInv, EdtType
  <1>3. EdtType' /\ edt'.at = "notify"
    BY <1>1, <1>2, NotifyType DEF EdtType
  <1> QED
    BY <1>1, <1>3, OutsideUpdate

LEMMA AttachIInv ==
    ASSUME IInv, Attach
    PROVE  IInv'
  <1>1. EdtType' /\ edt'.at = "notify"
    <2>1. Told(edt.attach, edt.to) \in SUBSET Registrars
      BY DEF Told, IInv, EdtType
    <2> QED
      BY <2>1, NotifyType DEF Attach, IInv, EdtType
  <1> QED
    BY <1>1, OutsideUpdate DEF Attach

LEMMA IdleIInv ==
    ASSUME IInv, edt' = Idle, UNCHANGED <<service, subs, listening>>
    PROVE  IInv'
  <1>1. EdtType' /\ edt'.at = "idle"
    BY DEF IInv, EdtType, Idle
  <1> QED
    BY <1>1, OutsideUpdate

LEMMA ConstructIInv ==
    ASSUME IInv, NEW r \in Registrars, Construct(r)
    PROVE  IInv'
  <1>1. EdtType' /\ edt'.at = "notify"
    BY NotifyType DEF Construct, IInv, EdtType
  <1> QED
    BY <1>1, OutsideUpdate DEF Construct

\* The update of a registrar without a service has nothing to unsubscribe.
LEMMA BeginUpdateIInv ==
    ASSUME IInv, NEW r \in Registrars, BeginUpdate(r)
    PROVE  IInv'
  <1>1. EdtType' /\ edt'.registrar = r /\ edt'.left = Keys
    BY DEF BeginUpdate, IInv, EdtType
  <1>2. TablesType' /\ OneServiceAtATime' /\ NoneWithout'
    BY DEF BeginUpdate, IInv, TablesType, OneServiceAtATime, NoneWithout
  <1>3. Progress'
    <2>1. edt'.at = IF service[r] = Null THEN "find" ELSE "unsubscribe"
      BY DEF BeginUpdate, IInv, EdtType
    <2>2. \A x \in subs[r] : x[2] \in Keys
      BY DEF IInv, TablesType
    <2>3. service[r] = Null => subs[r] = {}
      BY DEF IInv, NoneWithout
    <2>4. UNCHANGED <<service, subs>>
      BY DEF BeginUpdate
    <2> QED
      BY <1>1, <2>1, <2>2, <2>3, <2>4 DEF Progress
  <1> QED
    BY <1>1, <1>2, <1>3 DEF IInv

\* When the last key is gone nothing is subscribed, and the search begins.
LEMMA UnsubscribeIInv ==
    ASSUME IInv, NEW k \in Keys, Unsubscribe(k)
    PROVE  IInv'
  <1> DEFINE r == edt.registrar
  <1>1. r \in Registrars /\ service[r] # Null /\ service' = service
    BY DEF IInv, Progress, Unsubscribe
  <1>2. /\ subs' = [subs EXCEPT ![r] = @ \ {<<service[r], k>>}]
        /\ edt' = IF edt.left = {k} THEN [edt EXCEPT !.left = Keys, !.at = "find"]
                  ELSE [edt EXCEPT !.left = @ \ {k}]
        /\ edt.at = "unsubscribe" /\ listening' = listening
    BY DEF Unsubscribe
  <1>3. EdtType' /\ edt'.registrar = r
    BY <1>2 DEF IInv, EdtType
  <1>4. /\ subs'[r] = subs[r] \ {<<service[r], k>>}
        /\ \A q \in Registrars : subs'[q] \subseteq subs[q]
        /\ subs' = [q \in Registrars |-> subs'[q]]
    BY <1>1, <1>2 DEF IInv, TablesType
  <1>5. TablesType' /\ OneServiceAtATime' /\ NoneWithout'
    BY <1>1, <1>4 DEF IInv, TablesType, OneServiceAtATime, NoneWithout
  <1>6. \A x \in subs'[r] : x[2] \in edt.left \ {k}
    BY <1>1, <1>2, <1>4 DEF IInv, TablesType, OneServiceAtATime, Progress
  <1>7. Progress'
    <2>1. CASE edt.left = {k}
      <3>1. edt'.at = "find" /\ subs'[r] = {}
        BY <1>2, <1>6, <2>1 DEF IInv, EdtType
      <3> QED
        BY <3>1, <1>1, <1>3 DEF Progress
    <2>2. CASE edt.left # {k}
      <3>1. edt'.at = "unsubscribe" /\ edt'.left = edt.left \ {k}
        BY <1>2, <2>2 DEF IInv, EdtType
      <3> QED
        BY <3>1, <1>1, <1>3, <1>6 DEF Progress
    <2> QED
      BY <2>1, <2>2
  <1> QED
    BY <1>3, <1>5, <1>7 DEF IInv

\* The service changes while nothing is subscribed.
LEMMA FindIInv ==
    ASSUME IInv, Find
    PROVE  IInv'
  <1> DEFINE r == edt.registrar
  <1>1. r \in Registrars /\ subs[r] = {} /\ subs' = subs
    BY DEF IInv, Progress, Find
  <1>2. /\ service' = [service EXCEPT ![r] = EventService(JComp[r])]
        /\ service' = [q \in Registrars |-> service'[q]]
        /\ \A q \in Registrars \ {r} : service'[q] = service[q]
    BY <1>1 DEF Find, IInv, TablesType
  <1>3. /\ service'[r] = Null => edt'.at = "notify"
        /\ service'[r] # Null => edt'.at = "subscribe" /\ edt'.registrar = r
        /\ EdtType'
    BY <1>1 DEF Find, Updated, IInv, EdtType
  <1>4. TablesType' /\ OneServiceAtATime' /\ NoneWithout'
    BY <1>1, <1>2 DEF IInv, TablesType, OneServiceAtATime, NoneWithout
  <1>5. Progress'
    BY <1>1, <1>3 DEF Progress
  <1> QED
    BY <1>3, <1>4, <1>5 DEF IInv

\* What is subscribed is subscribed to the service remembered.
LEMMA SubscribeIInv ==
    ASSUME IInv, NEW k \in Keys, Subscribe(k)
    PROVE  IInv'
  <1> DEFINE r == edt.registrar
  <1>1. r \in Registrars /\ service[r] # Null /\ service' = service
    BY DEF IInv, Progress, Subscribe
  <1>2. /\ subs' = [q \in Registrars |-> subs'[q]]
        /\ subs'[r] = subs[r] \cup {<<service[r], k>>}
        /\ \A q \in Registrars \ {r} : subs'[q] = subs[q]
    BY <1>1 DEF Subscribe, IInv, TablesType
  <1>3. EdtType' /\ edt'.at \in {"notify", "subscribe"}
                 /\ (edt'.at = "subscribe" => edt'.registrar = r)
    <2>1. EdtType /\ edt.at = "subscribe"
      BY DEF IInv, Subscribe
    <2>2. CASE edt.left = {k}
      <3>1. /\ edt' = [edt EXCEPT !.at = "notify", !.registrar = Null, !.left = {}]
            /\ listening' = listening \cup {r}
        BY <2>2 DEF Subscribe, Updated
      <3> QED
        BY <1>1, <2>1, <3>1 DEF EdtType
    <2>3. CASE edt.left # {k}
      <3>1. edt' = [edt EXCEPT !.left = @ \ {k}] /\ listening' = listening
        BY <2>3 DEF Subscribe
      <3> QED
        BY <2>1, <3>1 DEF EdtType
    <2> QED
      BY <2>2, <2>3
  <1>4. TablesType' /\ OneServiceAtATime' /\ NoneWithout'
    BY <1>1, <1>2 DEF IInv, TablesType, OneServiceAtATime, NoneWithout
  <1>5. Progress'
    BY <1>1, <1>3 DEF Progress
  <1> QED
    BY <1>3, <1>4, <1>5 DEF IInv

\* Every step preserves the invariant.
LEMMA NextIInv == IInv /\ [Next]_vars => IInv'
  <1> SUFFICES ASSUME IInv, [Next]_vars
               PROVE  IInv'
    OBVIOUS
  <1>1. ASSUME NEW c \in Movable, NEW p \in Parents \cup {Null}, Move(c, p)
        PROVE  IInv'
    BY <1>1, MoveIInv
  <1>2. ASSUME NEW m \in Popups, NEW i \in Invokers, Show(m, i)
        PROVE  IInv'
    BY <1>2, ShowIInv
  <1>3. CASE Attach
    BY <1>3, AttachIInv
  <1>4. CASE Return \/ FindThrows
    BY <1>4, IdleIInv DEF Return, FindThrows
  <1>5. ASSUME NEW r \in Registrars, Construct(r) \/ BeginUpdate(r)
        PROVE  IInv'
    BY <1>5, ConstructIInv, BeginUpdateIInv
  <1>6. ASSUME NEW k \in Keys, Unsubscribe(k) \/ Subscribe(k)
        PROVE  IInv'
    BY <1>6, UnsubscribeIInv, SubscribeIInv
  <1>7. CASE Find
    BY <1>7, FindIInv
  <1>8. ASSUME NEW c \in Components, NEW k \in Keys, ActionPerformed(c, k)
        PROVE  IInv'
    BY <1>8, StutterIInv DEF ActionPerformed
  <1>9. CASE UNCHANGED vars
    BY <1>9, StutterIInv DEF vars
  <1> QED
    BY <1>1, <1>2, <1>3, <1>4, <1>5, <1>6, <1>7, <1>8, <1>9 DEF Next

\* For any hierarchy of components and any registrars, a subscriber is subscribed
\* to no service but the one its registrar will unsubscribe it from, also after a
\* supplier has thrown in the middle of a move.
THEOREM OneServiceHolds == Spec => []OneServiceAtATime
  <1>1. IInv => OneServiceAtATime
    BY DEF IInv
  <1> QED
    BY <1>1, InitIInv, NextIInv, PTL DEF Spec
-----------------------------------------------------------------------------
(***************************************************************************)
(* Walks up the hierarchy, for any parents par and any invokers inv.       *)
(***************************************************************************)
Size == Cardinality(Components)
CN == Components \cup {Null}

\* One component up, and no further from where there is none.
OneUp(par, d) == IF d = Null THEN Null ELSE par[d]

\* The walk by which Contains goes up, and the walk of the finder.
Ups(par, d) ==
    CHOOSE up : up = [n \in 0..Size |-> IF n = 0 THEN d
                                        ELSE IF up[n - 1] = Null THEN Null
                                        ELSE par[up[n - 1]]]

FindStep(par, inv, f, n) ==
    [c \in CN |-> IF c = Null \/ n = 0 THEN Null
                  ELSE IF c \in Suppliers THEN c
                  ELSE IF c \notin Popups /\ par[c] = Null THEN IF c \in Heavy THEN Null ELSE c
                  ELSE f[n - 1][IF c \in Popups THEN inv[c] ELSE par[c]]]

FindsUpTo(M, par, inv) == CHOOSE f : f = [n \in 0..M |-> FindStep(par, inv, f, n)]

Finds(par, inv) == FindsUpTo(Size, par, inv)

\* What the model's recursive functions are.
LEMMA ContainsByUps ==
    ASSUME NEW c, NEW d
    PROVE  /\ Contains(c, d) <=> \E n \in DOMAIN Ups(parent, d) : Ups(parent, d)[n] = c
           /\ Contains(c, d)' <=> \E n \in DOMAIN Ups(parent', d) : Ups(parent', d)[n] = c
  <1>1. Contains(c, d) <=> \E n \in DOMAIN Ups(parent, d) : Ups(parent, d)[n] = c
    BY DEF Contains, Ups, Size
  <1>2. Contains(c, d)' <=> \E n \in DOMAIN Ups(parent', d) : Ups(parent', d)[n] = c
    BY DEF Contains, Ups, Size
  <1> QED
    BY <1>1, <1>2

LEMMA ServiceByFinds ==
    ASSUME NEW c
    PROVE  /\ EventService(c) = Finds(parent, invoker)[Size][c]
           /\ EventService(c)' = Finds(parent', invoker')[Size][c]
  <1>1. Found = Finds(parent, invoker)
    BY DEF Found, Above, Finds, FindsUpTo, FindStep, Size, CN
  <1>2. Found' = Finds(parent', invoker')
    BY DEF Found, Above, Finds, FindsUpTo, FindStep, Size, CN
  <1> QED
    BY <1>1, <1>2 DEF EventService, Size

LEMMA LeastNatural ==
    ASSUME NEW T, T \subseteq Nat, T # {}
    PROVE  \E x \in T : \A y \in T : x <= y
  <1> DEFINE R == OpToRel(<, Nat)
  <1>1. IsWellFoundedOn(R, Nat)
    BY NatLessThanWellFounded
  <1>2. PICK x \in T : \A y \in T : ~ (<<y, x>> \in R)
    <2> HIDE DEF R
    <2> QED
      BY <1>1, WFMin, Zenon
  <1>3. \A y \in T : <<y, x>> \in R <=> y < x
    BY DEF OpToRel
  <1> HIDE DEF R
  <1>4. \A y \in T : y \in Nat /\ x \in Nat /\ ~ (y < x)
    BY <1>2, <1>3
  <1> QED
    BY <1>4

\* A set of numbers up to a bound is everything if it has 0 and the successors of its
\* members: the form in which facts about the walks are shown, step by step.
LEMMA AllSteps ==
    ASSUME NEW N \in Nat, NEW S, 0 \in S, \A n \in 1..N : n - 1 \in S => n \in S
    PROVE  0..N \subseteq S
  <1> SUFFICES ASSUME (0..N) \ S # {}
               PROVE  FALSE
    OBVIOUS
  <1>1. (0..N) \ S \subseteq Nat
    OBVIOUS
  <1>2. PICK x \in (0..N) \ S : \A y \in (0..N) \ S : x <= y
    BY <1>1, LeastNatural
  <1>3. x \in 1..N /\ x - 1 \in 0..N /\ ~ (x <= x - 1)
    BY <1>2
  <1> QED
    BY <1>2, <1>3

LEMMA SizeIsNat == Size \in Nat
  BY ContainerAssumption, FS_CardinalityType DEF Size

LEMMA UpsSteps ==
    ASSUME NEW par \in [Components -> CN], NEW d \in CN
    PROVE  /\ Ups(par, d) \in [0..Size -> CN] /\ Ups(par, d)[0] = d
           /\ \A n \in 1..Size : Ups(par, d)[n] = OneUp(par, Ups(par, d)[n - 1])
  <1> DEFINE Upto(m, f) == f \in [0..m -> CN] /\ f[0] = d /\ \A n \in 1..m : f[n] = OneUp(par, f[n - 1])
             S == {m \in Nat : \E f : Upto(m, f)}
  <1>1. 0 \in S
    <2>1. Upto(0, [n \in 0..0 |-> d])
      OBVIOUS
    <2> QED
      BY <2>1
  <1>2. ASSUME NEW m \in 1..Size, m - 1 \in S
        PROVE  m \in S
    <2>1. PICK f : Upto(m - 1, f)
      BY <1>2
    <2> DEFINE g == [n \in 0..m |-> IF n = m THEN OneUp(par, f[m - 1]) ELSE f[n]]
    <2>2. m \in Nat /\ m - 1 \in 0..(m - 1) /\ f[m - 1] \in CN
      BY <2>1, SizeIsNat
    <2>3. OneUp(par, f[m - 1]) \in CN
      BY <2>2 DEF OneUp, CN
    <2>4. \A n \in 0..m : n # m => n \in 0..(m - 1)
      BY <2>2
    <2>5. g \in [0..m -> CN]
      BY <2>1, <2>3, <2>4
    <2>6. \A n \in 1..m : n - 1 \in 0..(m - 1) /\ n - 1 # m /\ n - 1 \in 0..m /\ (n # m => n \in 1..(m - 1))
      BY <2>2
    <2>7. \A n \in 1..m : g[n] = OneUp(par, g[n - 1])
      BY <2>1, <2>4, <2>6
    <2>8. g[0] = d
      BY <2>1, <2>2
    <2> QED
      BY <2>2, <2>5, <2>7, <2>8
  <1>3. Size \in S
    <2> HIDE DEF S
    <2> QED
      BY <1>1, <1>2, AllSteps, SizeIsNat
  <1>4. PICK f : Upto(Size, f)
    BY <1>3
  <1> DEFINE up == Ups(par, d)
             Next1(g) == [n \in 0..Size |-> IF n = 0 THEN d ELSE IF g[n - 1] = Null THEN Null ELSE par[g[n - 1]]]
  <1>5. f = Next1(f)
    BY <1>4, SizeIsNat DEF OneUp
  <1>6. up = Next1(up)
    BY <1>5 DEF Ups
  <1> HIDE DEF up
  <1>7. DOMAIN up = 0..Size /\ up[0] = d /\ \A n \in 1..Size : up[n] = OneUp(par, up[n - 1])
    BY <1>6, SizeIsNat DEF OneUp
  <1> DEFINE G == {n \in Nat : up[n] \in CN}
  <1>8. 0..Size \subseteq G
    <2>1. 0 \in G
      BY <1>7
    <2>2. ASSUME NEW n \in 1..Size, n - 1 \in G
          PROVE  n \in G
      <3>1. n \in Nat /\ up[n] = OneUp(par, up[n - 1]) /\ up[n - 1] \in CN
        BY <1>7, <2>2, SizeIsNat
      <3> QED
        BY <3>1 DEF OneUp, CN
    <2> HIDE DEF G
    <2> QED
      BY <2>1, <2>2, AllSteps, SizeIsNat
  <1> QED
    BY <1>6, <1>7, <1>8 DEF up

\* A walk of the finder ends at a component or finds nothing.
LEMMA FindsUpToSteps ==
    ASSUME NEW par \in [Components -> CN], NEW inv \in [Popups -> CN], NEW M \in Nat
    PROVE  /\ FindsUpTo(M, par, inv) \in [0..M -> [CN -> CN]]
           /\ \A n \in 0..M : FindsUpTo(M, par, inv)[n] = FindStep(par, inv, FindsUpTo(M, par, inv), n)
  <1> DEFINE Upto(m, f) == f \in [0..m -> [CN -> CN]] /\ \A n \in 0..m : f[n] = FindStep(par, inv, f, n)
             S == {m \in Nat : \E f : Upto(m, f)}
  <1>1. \A c \in CN : (IF c \in Popups THEN inv[c] ELSE par[c]) \in CN \/ c = Null
    BY DEF CN
  <1>2. ASSUME NEW f, NEW n \in Nat, n = 0 \/ f[n - 1] \in [CN -> CN]
        PROVE  FindStep(par, inv, f, n) \in [CN -> CN]
    BY <1>1, <1>2 DEF FindStep, CN
  <1>3. 0 \in S
    <2> DEFINE g == [n \in 0..0 |-> FindStep(par, inv, <<>>, 0)]
    <2>1. FindStep(par, inv, <<>>, 0) = FindStep(par, inv, g, 0)
      BY DEF FindStep
    <2>2. FindStep(par, inv, <<>>, 0) \in [CN -> CN]
      BY <1>2
    <2>3. Upto(0, g)
      BY <2>1, <2>2
    <2> QED
      BY <2>3
  <1>4. ASSUME NEW m \in 1..M, m - 1 \in S
        PROVE  m \in S
    <2>1. PICK f : Upto(m - 1, f)
      BY <1>4
    <2> DEFINE new == FindStep(par, inv, f, m)
               g == [n \in 0..m |-> IF n = m THEN new ELSE f[n]]
    <2>2. m \in Nat /\ m - 1 \in 0..(m - 1) /\ \A n \in 0..m : n # m => n \in 0..(m - 1)
      OBVIOUS
    <2>3. new \in [CN -> CN]
      <3>1. f[m - 1] \in [CN -> CN]
        BY <2>1, <2>2
      <3> QED
        BY <1>2, <2>2, <3>1
    <2> HIDE DEF new
    <2>4. g \in [0..m -> [CN -> CN]]
      BY <2>1, <2>2, <2>3
    <2>5. ASSUME NEW n \in 0..m
          PROVE  g[n] = FindStep(par, inv, g, n)
      <3>1. n = 0 \/ (n - 1 \in 0..m /\ n - 1 # m)
        BY <2>2
      <3>2. n = 0 \/ g[n - 1] = f[n - 1]
        BY <3>1
      <3>3. FindStep(par, inv, g, n) = FindStep(par, inv, f, n)
        BY <3>2 DEF FindStep
      <3>4. g[n] = FindStep(par, inv, f, n)
        BY <2>1, <2>2 DEF new
      <3> QED
        BY <3>3, <3>4
    <2> HIDE DEF g
    <2> QED
      BY <2>2, <2>4, <2>5
  <1>5. M \in S
    <2> HIDE DEF S
    <2> QED
      BY <1>3, <1>4, AllSteps
  <1>6. PICK f : Upto(M, f)
    BY <1>5
  <1> DEFINE F == FindsUpTo(M, par, inv)
  <1>7. f = [n \in 0..M |-> FindStep(par, inv, f, n)]
    BY <1>6
  <1>8. F = [n \in 0..M |-> FindStep(par, inv, F, n)]
    BY <1>7 DEF FindsUpTo
  <1> HIDE DEF F
  <1>9. \A n \in 0..M : F[n] = FindStep(par, inv, F, n)
    BY <1>8
  <1> DEFINE G == {n \in Nat : F[n] \in [CN -> CN]}
  <1>10. 0..M \subseteq G
    <2>1. 0 \in G
      BY <1>2, <1>9
    <2>2. ASSUME NEW n \in 1..M, n - 1 \in G
          PROVE  n \in G
      <3>1. n \in Nat /\ F[n] = FindStep(par, inv, F, n) /\ F[n - 1] \in [CN -> CN]
        BY <1>9, <2>2
      <3> QED
        BY <1>2, <3>1
    <2> HIDE DEF G
    <2> QED
      BY <2>1, <2>2, AllSteps
  <1>11. F \in [0..M -> [CN -> CN]]
    <2>1. \A n \in 0..M : F[n] \in [CN -> CN]
      BY <1>10
    <2> QED
      BY <1>8, <2>1
  <1> QED
    BY <1>9, <1>11 DEF F

LEMMA FindsSteps ==
    ASSUME NEW par \in [Components -> CN], NEW inv \in [Popups -> CN]
    PROVE  /\ Finds(par, inv) \in [0..Size -> [CN -> CN]]
           /\ \A n \in 0..Size : Finds(par, inv)[n] = FindStep(par, inv, Finds(par, inv), n)
  BY FindsUpToSteps, SizeIsNat DEF Finds

\* The walk from the parent of d is the rest of the walk from d.
LEMMA UpsShift ==
    ASSUME NEW par \in [Components -> CN], NEW d \in Components
    PROVE  \A n \in 1..Size : Ups(par, d)[n] = Ups(par, par[d])[n - 1]
  <1> DEFINE U == Ups(par, d)
             V == Ups(par, par[d])
             G == {n \in Nat : n = 0 \/ U[n] = V[n - 1]}
  <1>1. d \in CN /\ par[d] \in CN /\ d # Null
    BY ContainerAssumption DEF CN
  <1>2. /\ U[0] = d /\ \A n \in 1..Size : U[n] = OneUp(par, U[n - 1])
        /\ V[0] = par[d] /\ \A n \in 1..Size : V[n] = OneUp(par, V[n - 1])
    BY <1>1, UpsSteps
  <1> HIDE DEF U, V
  <1>3. ASSUME NEW n \in 1..Size, n - 1 \in G
        PROVE  n \in G
    <2>1. n \in Nat /\ U[n] = OneUp(par, U[n - 1])
      BY <1>2, SizeIsNat
    <2>2. CASE n = 1
      BY <1>1, <1>2, <2>1, <2>2 DEF OneUp
    <2>3. CASE n # 1
      <3>1. n - 1 \in 1..Size /\ n - 1 # 0
        BY <2>3, SizeIsNat
      <3>2. U[n - 1] = V[(n - 1) - 1] /\ V[n - 1] = OneUp(par, V[(n - 1) - 1])
        BY <1>2, <1>3, <3>1
      <3> QED
        BY <2>1, <3>2
    <2> QED
      BY <2>2, <2>3
  <1>4. 0 \in G
    OBVIOUS
  <1>5. 0..Size \subseteq G
    <2> HIDE DEF G
    <2> QED
      BY <1>3, <1>4, AllSteps, SizeIsNat
  <1>6. \A n \in 1..Size : n \in 0..Size /\ n # 0
    BY SizeIsNat
  <1> QED
    BY <1>5, <1>6 DEF U, V

\* A walk is the same when the parents of the components on it are.
LEMMA UpsSame ==
    ASSUME NEW par \in [Components -> CN], NEW par2 \in [Components -> CN], NEW d \in CN,
           \A n \in 0..Size : Ups(par, d)[n] # Null => par2[Ups(par, d)[n]] = par[Ups(par, d)[n]]
    PROVE  Ups(par2, d) = Ups(par, d)
  <1> DEFINE U == Ups(par, d)
             V == Ups(par2, d)
             G == {n \in Nat : V[n] = U[n]}
  <1>1. /\ U[0] = d /\ \A n \in 1..Size : U[n] = OneUp(par, U[n - 1])
        /\ V[0] = d /\ \A n \in 1..Size : V[n] = OneUp(par2, V[n - 1])
        /\ U \in [0..Size -> CN] /\ V \in [0..Size -> CN]
        /\ \A n \in 0..Size : U[n] # Null => par2[U[n]] = par[U[n]]
    BY UpsSteps
  <1> HIDE DEF U, V
  <1>2. ASSUME NEW n \in 1..Size, n - 1 \in G
        PROVE  n \in G
    <2>1. n \in Nat /\ n - 1 \in 0..Size /\ V[n - 1] = U[n - 1]
      BY <1>2, SizeIsNat
    <2>2. V[n] = U[n]
      BY <1>1, <2>1 DEF OneUp
    <2> QED
      BY <2>1, <2>2
  <1>3. 0 \in G
    BY <1>1
  <1>4. 0..Size \subseteq G
    <2> HIDE DEF G
    <2> QED
      BY <1>2, <1>3, AllSteps, SizeIsNat
  <1>5. \A n \in 0..Size : V[n] = U[n]
    BY <1>4
  <1>6. U = [n \in 0..Size |-> U[n]] /\ V = [n \in 0..Size |-> V[n]]
    BY <1>1
  <1>7. V = U
    BY <1>5, <1>6
  <1> QED
    BY <1>7 DEF U, V

\* The finder goes up by the parents as long as there is no popup menu on the way.
LEMMA FindsSame ==
    ASSUME NEW par \in [Components -> CN], NEW par2 \in [Components -> CN],
           NEW inv \in [Popups -> CN], NEW inv2 \in [Popups -> CN], NEW d \in CN,
           \A n \in 0..Size : LET u == Ups(par, d)[n]
                              IN u # Null => u \notin Popups /\ par2[u] = par[u]
    PROVE  Finds(par2, inv2)[Size][d] = Finds(par, inv)[Size][d]
  <1> DEFINE Alike(n, c) == \A i \in 0..n : Ups(par, c)[i] # Null =>
                Ups(par, c)[i] \notin Popups /\ par2[Ups(par, c)[i]] = par[Ups(par, c)[i]]
             F == Finds(par, inv)
             G == Finds(par2, inv2)
             S == {n \in Nat : \A c \in CN : Alike(n, c) => G[n][c] = F[n][c]}
  <1>1. /\ \A n \in 0..Size : F[n] = FindStep(par, inv, F, n)
        /\ \A n \in 0..Size : G[n] = FindStep(par2, inv2, G, n)
    BY FindsSteps
  <1> HIDE DEF F, G
  <1>2. 0 \in S
    <2>1. F[0] = FindStep(par, inv, F, 0) /\ G[0] = FindStep(par2, inv2, G, 0)
      BY <1>1, SizeIsNat
    <2>2. \A c \in CN : F[0][c] = Null /\ G[0][c] = Null
      BY <2>1 DEF FindStep
    <2> QED
      BY <2>2
  <1>3. ASSUME NEW n \in 1..Size, n - 1 \in S
        PROVE  n \in S
    <2> SUFFICES ASSUME NEW c \in CN, Alike(n, c)
                 PROVE  G[n][c] = F[n][c]
      BY SizeIsNat
    <2>1. n \in Nat /\ n # 0 /\ n \in 0..Size /\ 0 \in 0..n
      BY SizeIsNat
    <2>2. F[n] = FindStep(par, inv, F, n) /\ G[n] = FindStep(par2, inv2, G, n)
      BY <1>1, <2>1
    <2>3. CASE c = Null
      BY <2>3, <2>2 DEF FindStep
    <2>4. CASE c # Null
      <3>1. Ups(par, c)[0] = c /\ c \in Components
        BY <2>4, UpsSteps DEF CN
      <3>2. c \notin Popups /\ par2[c] = par[c]
        BY <2>1, <2>4, <3>1
      <3> HIDE DEF Alike
      <3>3. F[n][c] = IF c \in Suppliers THEN c
                      ELSE IF par[c] = Null THEN IF c \in Heavy THEN Null ELSE c
                      ELSE F[n - 1][par[c]]
        BY <2>1, <2>4, <2>2, <3>2 DEF FindStep
      <3>4. G[n][c] = IF c \in Suppliers THEN c
                      ELSE IF par[c] = Null THEN IF c \in Heavy THEN Null ELSE c
                      ELSE G[n - 1][par[c]]
        BY <2>1, <2>4, <2>2, <3>2 DEF FindStep
      <3>5. par[c] \in CN
        BY <3>1
      <3>6. Alike(n - 1, par[c])
        <4>1. \A i \in 0..(n - 1) : i + 1 \in 1..Size /\ i + 1 \in 0..n /\ (i + 1) - 1 = i
          BY <2>1, SizeIsNat
        <4>2. \A m \in 1..Size : Ups(par, c)[m] = Ups(par, par[c])[m - 1]
          BY <3>1, UpsShift
        <4>3. \A i \in 0..(n - 1) : Ups(par, c)[i + 1] = Ups(par, par[c])[i]
          <5> TAKE i \in 0..(n - 1)
          <5> DEFINE m == i + 1
          <5>1. m \in 1..Size /\ m - 1 = i
            BY <4>1
          <5> HIDE DEF m
          <5>2. Ups(par, c)[m] = Ups(par, par[c])[i]
            BY <4>2, <5>1
          <5> QED
            BY <5>2 DEF m
        <4> QED
          BY <4>1, <4>3 DEF Alike
      <3>7. G[n - 1][par[c]] = F[n - 1][par[c]]
        BY <1>3, <3>5, <3>6
      <3> QED
        BY <3>3, <3>4, <3>7
    <2> QED
      BY <2>3, <2>4
  <1>4. 0..Size \subseteq S
    <2> HIDE DEF S
    <2> QED
      BY <1>2, <1>3, AllSteps, SizeIsNat
  <1>5. Alike(Size, d)
    OBVIOUS
  <1>6. Size \in S
    BY <1>4, SizeIsNat
  <1> HIDE DEF Alike
  <1>7. G[Size][d] = F[Size][d]
    BY <1>5, <1>6
  <1> QED
    BY <1>7 DEF F, G

\* What a walk of the finder has found a longer walk finds.
LEMMA FindsGrow ==
    ASSUME NEW par \in [Components -> CN], NEW inv \in [Popups -> CN], NEW M \in Nat
    PROVE  \A n \in 1..M, c \in CN :
               FindsUpTo(M, par, inv)[n - 1][c] # Null
                   => FindsUpTo(M, par, inv)[n][c] = FindsUpTo(M, par, inv)[n - 1][c]
  <1> DEFINE F == FindsUpTo(M, par, inv)
             up(c) == IF c \in Popups THEN inv[c] ELSE par[c]
             G == {n \in Nat : n = 0 \/ \A c \in CN : F[n - 1][c] # Null => F[n][c] = F[n - 1][c]}
  <1>1. \A n \in 0..M : F[n] = FindStep(par, inv, F, n)
    BY FindsUpToSteps
  <1> HIDE DEF F
  <1>2. 0 \in G
    OBVIOUS
  <1>3. ASSUME NEW n \in 1..M, n - 1 \in G
        PROVE  n \in G
    <2> SUFFICES ASSUME NEW c \in CN, F[n - 1][c] # Null
                 PROVE  F[n][c] = F[n - 1][c]
      OBVIOUS
    <2>1. F[n] = FindStep(par, inv, F, n) /\ F[n - 1] = FindStep(par, inv, F, n - 1)
      BY <1>1
    <2>2. c # Null /\ n - 1 # 0 /\ n # 0
      BY <2>1 DEF FindStep
    <2>3. up(c) \in CN
      BY <2>2 DEF CN
    <2>4. F[(n - 1) - 1][up(c)] # Null => F[n - 1][up(c)] = F[(n - 1) - 1][up(c)]
      BY <1>3, <2>2, <2>3
    <2>5. /\ F[n][c] = IF c \in Suppliers THEN c
                       ELSE IF c \notin Popups /\ par[c] = Null THEN IF c \in Heavy THEN Null ELSE c
                       ELSE F[n - 1][up(c)]
          /\ F[n - 1][c] = IF c \in Suppliers THEN c
                           ELSE IF c \notin Popups /\ par[c] = Null THEN IF c \in Heavy THEN Null ELSE c
                           ELSE F[(n - 1) - 1][up(c)]
      BY <2>1, <2>2 DEF FindStep
    <2> HIDE DEF up
    <2> QED
      BY <2>4, <2>5
  <1>4. 0..M \subseteq G
    <2> HIDE DEF G
    <2> QED
      BY <1>2, <1>3, AllSteps
  <1> QED
    BY <1>4 DEF F

\* There are no more components to be found from than there are components: a walk longer
\* than their number finds nothing more.  Until the walks stop finding more, each length
\* finds from one component more at least.
LEMMA FindsStop ==
    ASSUME NEW par \in [Components -> CN], NEW inv \in [Popups -> CN], NEW M \in Nat,
           NEW n \in 1..M, n > Size
    PROVE  FindsUpTo(M, par, inv)[n] = FindsUpTo(M, par, inv)[n - 1]
  <1> DEFINE F == FindsUpTo(M, par, inv)
             From(i) == {c \in Components : F[i][c] # Null}
             G == {i \in Nat : i = 0 \/ F[i] = F[i - 1] \/ Cardinality(From(i)) >= i}
  <1>1. /\ F \in [0..M -> [CN -> CN]]
        /\ \A i \in 0..M : F[i] = FindStep(par, inv, F, i)
        /\ \A i \in 1..M, c \in CN : F[i - 1][c] # Null => F[i][c] = F[i - 1][c]
    BY FindsUpToSteps, FindsGrow
  <1> HIDE DEF F
  <1>2. \A i : /\ IsFiniteSet(From(i)) /\ Cardinality(From(i)) \in Nat
               /\ Cardinality(From(i)) <= Size
    BY ContainerAssumption, FS_Subset, FS_CardinalityType DEF Size
  <1>3. 0 \in G
    OBVIOUS
  <1>4. ASSUME NEW i \in 1..M, i - 1 \in G
        PROVE  i \in G
    <2>1. i \in 0..M /\ i - 1 \in 0..M /\ i # 0
      OBVIOUS
    <2>2. CASE i # 1 /\ F[i - 1] = F[(i - 1) - 1]
      <3>1. F[i] = FindStep(par, inv, F, i) /\ F[i - 1] = FindStep(par, inv, F, i - 1)
        BY <1>1, <2>1
      <3>2. FindStep(par, inv, F, i) = FindStep(par, inv, F, i - 1)
        BY <2>1, <2>2 DEF FindStep
      <3> QED
        BY <3>1, <3>2
    <2>3. CASE Cardinality(From(i - 1)) >= i - 1
      <3>1. CASE From(i) = From(i - 1)
        <4>1. ASSUME NEW c \in CN
              PROVE  F[i][c] = F[i - 1][c]
          <5>1. F[i - 1][c] # Null => F[i][c] = F[i - 1][c]
            BY <1>1
          <5>2. c = Null => F[i][c] = Null
            BY <1>1, <2>1 DEF FindStep
          <5>3. c \in Components => (F[i][c] # Null <=> F[i - 1][c] # Null)
            BY <3>1
          <5>4. c = Null \/ c \in Components
            BY DEF CN
          <5> QED
            BY <5>1, <5>2, <5>3, <5>4
        <4>2. F[i] \in [CN -> CN] /\ F[i - 1] \in [CN -> CN]
          BY <1>1, <2>1
        <4>3. F[i] = F[i - 1]
          BY <4>1, <4>2
        <4> QED
          BY <4>3
      <3>2. CASE From(i) # From(i - 1)
        <4>1. From(i - 1) \subseteq From(i)
          BY <1>1 DEF CN
        <4> HIDE DEF From
        <4>2. Cardinality(From(i - 1)) < Cardinality(From(i))
          BY <1>2, <3>2, <4>1, FS_Subset
        <4>3. Cardinality(From(i)) >= i
          BY <1>2, <2>3, <4>2
        <4> QED
          BY <4>3
      <3> QED
        BY <3>1, <3>2
    <2> HIDE DEF From
    <2>4. Cardinality(From(i - 1)) \in Nat
      BY <1>2
    <2> QED
      BY <1>4, <2>2, <2>3, <2>4
  <1>5. 0..M \subseteq G
    <2> HIDE DEF G
    <2> QED
      BY <1>3, <1>4, AllSteps
  <1> HIDE DEF From
  <1>6. n \in G /\ ~ (Cardinality(From(n)) >= n)
    BY <1>2, <1>5, SizeIsNat
  <1> QED
    BY <1>6 DEF F

\* The bound the model puts on the finder's walk cuts nothing off, for any hierarchy and any
\* invokers: what getEventService finds at all it finds in as many steps as there are components.
THEOREM LongerWalks ==
    ASSUME NEW par \in [Components -> CN], NEW inv \in [Popups -> CN], NEW M \in Nat
    PROVE  \A n \in 0..M : n >= Size => FindsUpTo(M, par, inv)[n] = Finds(par, inv)[Size]
  <1> DEFINE F == FindsUpTo(M, par, inv)
             H == Finds(par, inv)
             G == {n \in Nat : IF n <= Size THEN F[n] = H[n] ELSE F[n] = H[Size]}
  <1>1. /\ \A n \in 0..M : F[n] = FindStep(par, inv, F, n)
        /\ \A n \in 0..Size : H[n] = FindStep(par, inv, H, n)
        /\ \A n \in 1..M : n > Size => F[n] = F[n - 1]
    BY FindsUpToSteps, FindsSteps, FindsStop
  <1> HIDE DEF F, H
  <1>2. 0 \in G
    <2>1. F[0] = FindStep(par, inv, F, 0) /\ H[0] = FindStep(par, inv, H, 0)
      BY <1>1, SizeIsNat
    <2>2. F[0] = H[0]
      BY <2>1 DEF FindStep
    <2> QED
      BY <2>2, SizeIsNat
  <1>3. ASSUME NEW n \in 1..M, n - 1 \in G
        PROVE  n \in G
    <2>1. CASE n <= Size
      <3>1. n \in 0..M /\ n \in 0..Size /\ n # 0 /\ n - 1 <= Size
        BY <2>1, SizeIsNat
      <3>2. F[n - 1] = H[n - 1]
        BY <1>3, <3>1
      <3>3. FindStep(par, inv, F, n) = FindStep(par, inv, H, n)
        BY <3>1, <3>2 DEF FindStep
      <3> QED
        BY <1>1, <2>1, <3>1, <3>3
    <2>2. CASE n > Size
      <3>1. F[n] = F[n - 1]
        BY <1>1, <2>2
      <3>2. F[n - 1] = H[Size]
        BY <1>3, <2>2, SizeIsNat
      <3> QED
        BY <2>2, <3>1, <3>2, SizeIsNat
    <2> QED
      BY <2>1, <2>2, SizeIsNat
  <1>4. 0..M \subseteq G
    <2> HIDE DEF G
    <2> QED
      BY <1>2, <1>3, AllSteps
  <1>5. \A n \in 0..M : n >= Size => F[n] = H[Size]
    BY <1>4, SizeIsNat
  <1> QED
    BY <1>5 DEF F, H

\* The walk from a component on the way is the rest of the walk.
LEMMA UpsRest ==
    ASSUME NEW par \in [Components -> CN], NEW d \in CN, NEW i \in 0..Size
    PROVE  \A n \in 0..Size : i + n <= Size =>
               Ups(par, Ups(par, d)[i])[n] = Ups(par, d)[i + n]
  <1> DEFINE U == Ups(par, d)
             V == Ups(par, U[i])
             G == {n \in Nat : i + n <= Size => V[n] = U[i + n]}
  <1>1. /\ U \in [0..Size -> CN] /\ \A n \in 1..Size : U[n] = OneUp(par, U[n - 1])
        /\ V[0] = U[i] /\ \A n \in 1..Size : V[n] = OneUp(par, V[n - 1])
    <2>1. U \in [0..Size -> CN] /\ \A n \in 1..Size : U[n] = OneUp(par, U[n - 1])
      BY UpsSteps
    <2> HIDE DEF U
    <2>2. U[i] \in CN
      BY <2>1
    <2> QED
      BY <2>1, <2>2, UpsSteps
  <1> HIDE DEF U, V
  <1>2. 0 \in G
    BY <1>1, SizeIsNat
  <1>3. ASSUME NEW n \in 1..Size, n - 1 \in G
        PROVE  n \in G
    <2>1. n \in Nat /\ i \in Nat
      BY SizeIsNat
    <2>2. CASE i + n <= Size
      <3>1. i + (n - 1) <= Size /\ i + n \in 1..Size /\ (i + n) - 1 = i + (n - 1)
        BY <2>1, <2>2, SizeIsNat
      <3>2. V[n - 1] = U[i + (n - 1)]
        BY <1>3, <3>1
      <3>3. V[n] = OneUp(par, V[n - 1]) /\ U[i + n] = OneUp(par, U[i + (n - 1)])
        BY <1>1, <3>1
      <3> QED
        BY <2>1, <3>2, <3>3
    <2> QED
      BY <2>1, <2>2
  <1>4. 0..Size \subseteq G
    <2> HIDE DEF G
    <2> QED
      BY <1>2, <1>3, AllSteps, SizeIsNat
  <1> QED
    BY <1>4 DEF U, V

\* A walk that comes to popup menu m, past no supplier and no other popup menu, goes on
\* from the invoker of m and ends where the walk from there ends.
LEMMA FindsByInvoker ==
    ASSUME NEW par \in [Components -> CN], NEW inv \in [Popups -> CN], NEW d \in CN,
           NEW m \in Popups, NEW k \in 0..Size, Ups(par, d)[k] = m,
           \A n \in 0..(k - 1) : Ups(par, d)[n] \notin Suppliers \cup Popups,
           m \notin Suppliers
    PROVE  Finds(par, inv)[Size][d] = Finds(par, inv)[Size][inv[m]]
  <1> DEFINE U == Ups(par, d)
             M == Size + k + 1
             F == FindsUpTo(M, par, inv)
             G == {n \in Nat : n <= k => F[M][d] = F[M - n][U[n]]}
  <1>1. M \in Nat /\ k \in Nat /\ M - k \in 1..M /\ (M - k) - 1 = Size /\ M \in 0..M /\ M >= Size
    BY SizeIsNat
  <1>2. \A n \in 0..M : F[n] = FindStep(par, inv, F, n)
    <2> HIDE DEF M
    <2> QED
      BY <1>1, FindsUpToSteps
  <1>3. F[M] = Finds(par, inv)[Size] /\ F[Size] = Finds(par, inv)[Size]
    <2>1. Size \in 0..M
      BY SizeIsNat
    <2> HIDE DEF M
    <2> QED
      BY <1>1, <2>1, LongerWalks, SizeIsNat
  <1>4. /\ U \in [0..Size -> CN] /\ U[0] = d /\ U[k] = m
        /\ \A n \in 1..Size : U[n] = OneUp(par, U[n - 1])
        /\ \A n \in 0..(k - 1) : U[n] \notin Suppliers \cup Popups
    BY UpsSteps
  <1>5. m \in Components /\ m # Null
    BY ContainerAssumption
  <1> HIDE DEF F, U
  <1>6. \A n \in 0..k : U[n] # Null
    <2> DEFINE B == {n \in Nat : n <= k => U[k - n] # Null}
    <2>1. 0 \in B
      BY <1>1, <1>4, <1>5
    <2>2. ASSUME NEW n \in 1..k, n - 1 \in B
          PROVE  n \in B
      <3>1. k - (n - 1) \in 1..Size /\ (k - (n - 1)) - 1 = k - n /\ n - 1 <= k /\ n \in Nat
        BY SizeIsNat
      <3>2. U[k - (n - 1)] = OneUp(par, U[k - n]) /\ U[k - (n - 1)] # Null
        BY <1>4, <2>2, <3>1
      <3> QED
        BY <3>1, <3>2 DEF OneUp
    <2>3. 0..k \subseteq B
      <3> HIDE DEF B
      <3> QED
        BY <1>1, <2>1, <2>2, AllSteps
    <2> SUFFICES ASSUME NEW n \in 0..k
                 PROVE  U[n] # Null
      OBVIOUS
    <2>4. k - n \in 0..k /\ k - (k - n) = n
      BY <1>1
    <2>5. k - n \in B
      BY <2>3, <2>4
    <2> QED
      BY <2>4, <2>5
  <1>7. 0 \in G
    BY <1>1, <1>4
  <1>8. ASSUME NEW n \in 1..k, n - 1 \in G
        PROVE  n \in G
    <2>1. /\ n \in 1..Size /\ n - 1 \in 0..Size /\ n - 1 \in 0..(k - 1) /\ n - 1 \in 0..k /\ n \in 0..k
          /\ M - (n - 1) \in 1..M /\ (M - (n - 1)) - 1 = M - n
      BY SizeIsNat
    <2>2. PICK u \in CN : u = U[n - 1]
      BY <1>4, <2>1
    <2>3. u # Null /\ u \in Components /\ u \notin Suppliers /\ u \notin Popups
      BY <1>4, <1>6, <2>1, <2>2 DEF CN
    <2>4. U[n] = par[u] /\ par[u] # Null
      BY <1>4, <1>6, <2>1, <2>2, <2>3 DEF OneUp
    <2>5. PICK j \in 1..M : j = M - (n - 1) /\ j - 1 = M - n
      BY <2>1
    <2> HIDE DEF M
    <2>6. j \in 0..M /\ j # 0
      OBVIOUS
    <2>7. F[j] = FindStep(par, inv, F, j)
      BY <1>2, <2>6
    <2>8. F[j][u] = F[j - 1][par[u]]
      BY <2>3, <2>4, <2>6, <2>7 DEF FindStep
    <2>9. F[M][d] = F[j][u]
      BY <1>8, <2>1, <2>2, <2>5
    <2> QED
      BY <2>4, <2>5, <2>8, <2>9
  <1>9. k \in G
    <2>1. 0..k \subseteq G
      <3> HIDE DEF G
      <3> QED
        BY <1>1, <1>7, <1>8, AllSteps
    <2> QED
      BY <1>1, <2>1
  <1>10. F[M][d] = F[M - k][m]
    BY <1>1, <1>4, <1>9
  <1>11. F[M - k][m] = F[Size][inv[m]]
    <2>1. PICK j \in 1..M : j = M - k /\ j - 1 = Size
      BY <1>1
    <2> HIDE DEF M
    <2>2. j \in 0..M /\ j # 0
      BY <1>1
    <2>3. F[j] = FindStep(par, inv, F, j)
      BY <1>2, <2>2
    <2>4. F[j][m] = F[j - 1][inv[m]]
      BY <1>5, <2>2, <2>3 DEF FindStep, CN
    <2> QED
      BY <2>1, <2>4
  <1> QED
    BY <1>3, <1>10, <1>11
-----------------------------------------------------------------------------
TreeType == parent \in [Components -> CN] /\ invoker \in [Popups -> CN]

LEMMA ServiceIsComponent ==
    ASSUME TreeType, NEW c \in CN
    PROVE  EventService(c) \in CN
  <1>1. Finds(parent, invoker)[Size] \in [CN -> CN]
    BY FindsSteps, SizeIsNat DEF TreeType
  <1> QED
    BY <1>1, ServiceByFinds

\* What is in a popup menu, past no supplier and no other popup menu, has the service of
\* the component the menu is shown for.
LEMMA ServiceOfInvoker ==
    ASSUME TreeType, NEW m \in Popups, NEW d \in Components, Contains(m, d), LeavesBy(m, d)
    PROVE  EventService(d) = EventService(invoker[m])
  <1> DEFINE U == Ups(parent, d)
  <1>1. /\ parent \in [Components -> CN] /\ invoker \in [Popups -> CN] /\ d \in CN
        /\ m \in Components /\ Null \notin Components /\ Size \in Nat
    BY ContainerAssumption, SizeIsNat DEF TreeType, CN
  <1>2. U \in [0..Size -> CN]
    BY <1>1, UpsSteps
  <1>3. \A c : Contains(c, d) <=> \E n \in 0..Size : U[n] = c
    BY <1>2, ContainsByUps
  <1>4. PICK k \in 0..Size : U[k] = m /\ \A n \in 0..(k - 1) : U[n] # m
    <2> DEFINE T == {n \in 0..Size : U[n] = m}
    <2>1. T \subseteq Nat /\ T # {}
      BY <1>3
    <2> HIDE DEF T
    <2>2. PICK k \in T : \A n \in T : k <= n
      BY <2>1, LeastNatural
    <2>3. k \in 0..Size /\ U[k] = m
      BY <2>2 DEF T
    <2>4. \A n \in 0..(k - 1) : n \in 0..Size /\ ~ (k <= n)
      BY <1>1, <2>3
    <2> QED
      BY <2>2, <2>3, <2>4 DEF T
  <1>5. ASSUME NEW n \in 0..k
        PROVE  U[n] \in Components => U[n] \notin Suppliers /\ (U[n] \in Popups => U[n] = m)
    <2>1. k - n \in 0..Size /\ n \in 0..Size /\ n + (k - n) = k /\ n + (k - n) <= Size
      BY <1>1
    <2>2. Ups(parent, U[n])[k - n] = m
      <3>1. Ups(parent, U[n])[k - n] = U[n + (k - n)]
        BY <1>1, <2>1, UpsRest
      <3> QED
        BY <1>4, <2>1, <3>1
    <2>3. U[n] \in CN
      BY <1>2, <2>1
    <2>4. DOMAIN Ups(parent, U[n]) = 0..Size
      <3> HIDE DEF U
      <3> QED
        BY <1>1, <2>3, UpsSteps
    <2>5. PICK u : u = U[n]
      OBVIOUS
    <2> HIDE DEF U
    <2>6. Contains(m, u) /\ Contains(u, d)
      BY <1>3, <2>1, <2>2, <2>4, <2>5, ContainsByUps
    <2> QED
      BY <2>5, <2>6 DEF LeavesBy
  <1>6. m \notin Suppliers
    <2>1. k \in 0..k
      BY <1>1
    <2> QED
      BY <1>1, <1>4, <1>5, <2>1
  <1>7. \A n \in 0..(k - 1) : U[n] \notin Suppliers \cup Popups
    <2> SUFFICES ASSUME NEW n \in 0..(k - 1)
                 PROVE  U[n] \notin Suppliers \cup Popups
      OBVIOUS
    <2>1. n \in 0..k /\ U[n] # m
      BY <1>1, <1>4
    <2>2. Suppliers \cup Popups \subseteq Components
      BY ContainerAssumption
    <2> QED
      BY <1>5, <2>1, <2>2
  <1>8. Finds(parent, invoker)[Size][d] = Finds(parent, invoker)[Size][invoker[m]]
    BY <1>1, <1>4, <1>6, <1>7, FindsByInvoker
  <1> QED
    BY <1>8, ServiceByFinds

\* Nothing changes for a component that is not below what is moved, wherever the popup
\* menus are shown that it is not in.
LEMMA ElsewhereTheSame ==
    ASSUME TreeType, TreeType', NEW d \in Components,
           \A c \in Components : Contains(c, d) => parent'[c] = parent[c]
    PROVE  /\ InPopup(d)' <=> InPopup(d)
           /\ ~InPopup(d) => EventService(d)' = EventService(d)
  <1> DEFINE U == Ups(parent, d)
  <1>1. d \in CN /\ parent \in [Components -> CN] /\ parent' \in [Components -> CN]
        /\ invoker \in [Popups -> CN] /\ invoker' \in [Popups -> CN]
    BY DEF TreeType, CN
  <1>2. U \in [0..Size -> CN]
    BY <1>1, UpsSteps
  <1>3. \A c : Contains(c, d) <=> \E n \in 0..Size : U[n] = c
    BY <1>2, ContainsByUps
  <1>4. \A n \in 0..Size : U[n] # Null => parent'[U[n]] = parent[U[n]]
    <2> HIDE DEF U
    <2> QED
      BY <1>2, <1>3 DEF CN
  <1>5. Ups(parent', d) = U
    BY <1>1, <1>4, UpsSame
  <1>6. \A c : Contains(c, d)' <=> \E n \in 0..Size : U[n] = c
    <2>1. \A c : Contains(c, d)' <=> \E n \in DOMAIN Ups(parent', d) : Ups(parent', d)[n] = c
      BY ContainsByUps, Zenon
    <2>2. DOMAIN U = 0..Size
      BY <1>2
    <2> HIDE DEF U
    <2> QED
      BY <1>5, <2>1, <2>2
  <1> HIDE DEF U
  <1>7. InPopup(d)' <=> InPopup(d)
    BY <1>3, <1>6 DEF InPopup
  <1>8. ASSUME ~InPopup(d)
        PROVE  EventService(d)' = EventService(d)
    <2>1. \A n \in 0..Size : U[n] # Null => U[n] \notin Popups /\ parent'[U[n]] = parent[U[n]]
      BY <1>3, <1>4, <1>8 DEF InPopup
    <2>2. Finds(parent', invoker')[Size][d] = Finds(parent, invoker)[Size][d]
      BY <1>1, <2>1, FindsSame DEF U
    <2> QED
      BY <2>2, ServiceByFinds
  <1> QED
    BY <1>7, <1>8

\* Where m itself is added makes no difference to what is below m.
LEMMA BelowTheMoved ==
    ASSUME TreeType, TreeType', NEW m \in Components, NEW d \in Components,
           \A c \in Components \ {m} : parent'[c] = parent[c], Contains(m, d)'
    PROVE  Contains(m, d)
  <1> DEFINE U == Ups(parent, d)
             V == Ups(parent', d)
             G(k) == {n \in Nat : n <= k => U[n] = V[n]}
  <1>1. /\ parent \in [Components -> CN] /\ parent' \in [Components -> CN] /\ d \in CN
        /\ Size \in Nat
    BY SizeIsNat DEF TreeType, CN
  <1>2. /\ U \in [0..Size -> CN] /\ U[0] = d /\ \A n \in 1..Size : U[n] = OneUp(parent, U[n - 1])
        /\ V \in [0..Size -> CN] /\ V[0] = d /\ \A n \in 1..Size : V[n] = OneUp(parent', V[n - 1])
    BY <1>1, UpsSteps
  <1>3. \E n \in 0..Size : V[n] = m
    <2>1. \E n \in DOMAIN V : V[n] = m
      BY ContainsByUps
    <2> QED
      BY <1>2, <2>1
  <1> HIDE DEF U, V
  <1>4. PICK k \in 0..Size : V[k] = m /\ \A n \in 0..(k - 1) : V[n] # m
    <2> DEFINE T == {n \in 0..Size : V[n] = m}
    <2>1. T \subseteq Nat /\ T # {}
      BY <1>3
    <2> HIDE DEF T
    <2>2. PICK k \in T : \A n \in T : k <= n
      BY <2>1, LeastNatural
    <2>3. k \in 0..Size /\ V[k] = m
      BY <2>2 DEF T
    <2>4. \A n \in 0..(k - 1) : n \in 0..Size /\ ~ (k <= n)
      BY <1>1, <2>3
    <2> QED
      BY <2>2, <2>3, <2>4 DEF T
  <1>5. 0 \in G(k)
    BY <1>2
  <1>6. ASSUME NEW n \in 1..k, n - 1 \in G(k)
        PROVE  n \in G(k)
    <2>1. n \in 1..Size /\ n - 1 \in 0..(k - 1) /\ n - 1 \in 0..Size /\ n - 1 <= k /\ n \in Nat
      BY <1>1
    <2>2. U[n - 1] = V[n - 1] /\ V[n - 1] # m /\ V[n - 1] \in CN
      BY <1>2, <1>4, <1>6, <2>1
    <2>3. OneUp(parent, U[n - 1]) = OneUp(parent', V[n - 1])
      BY <2>2 DEF OneUp, CN
    <2> QED
      BY <1>2, <2>1, <2>3
  <1>7. k \in G(k)
    <2>1. 0..k \subseteq G(k)
      <3> HIDE DEF G
      <3> QED
        BY <1>1, <1>5, <1>6, AllSteps
    <2> QED
      BY <1>1, <2>1
  <1>8. \E n \in DOMAIN U : U[n] = m
    BY <1>1, <1>2, <1>4, <1>7
  <1> QED
    BY <1>8, ContainsByUps DEF U

-----------------------------------------------------------------------------
(***************************************************************************)
(* The rest of the invariant: the types, how far an update is, and what    *)
(* every registrar outside a popup menu either has or is about to get.     *)
(***************************************************************************)
TypesInv ==
    /\ TreeType
    /\ service \in [Registrars -> CN]
    /\ subs \in [Registrars -> SUBSET (Components \X Keys)]
    /\ moves \in 0..MaxMoves
    /\ heard.registrars \subseteq listening
    /\ shown \in Popups \cup {Null} /\ threw \in BOOLEAN

UpdateInv ==
    /\ edt.at = "idle" => edt = Idle
    /\ edt.at = "find" => edt.left = Keys
    /\ edt.at = "subscribe" =>
        /\ service[edt.registrar] = EventService(JComp[edt.registrar])
        /\ subs[edt.registrar] = {service[edt.registrar]} \X (Keys \ edt.left)

\* Registrar r is to be updated, or is being updated.
Due(r) == r \in edt.tell \/ (edt.at \in {"unsubscribe", "find", "subscribe"} /\ edt.registrar = r)

\* Registrar r has the service of its container, and its subscriber all its subscriptions.
Whole(r) ==
    /\ service[r] = EventService(JComp[r])
    /\ subs[r] = IF service[r] = Null THEN {} ELSE {service[r]} \X Keys

\* Registrar r is in no popup menu, or in the one shown last, which has joined its window.
Reached(r) ==
    \/ ~InPopup(JComp[r])
    \/ shown # Null /\ edt.attach = Null /\ Contains(shown, JComp[r])

ToldInv == ~threw => \A r \in listening : Reached(r) => Due(r) \/ Whole(r)

\* What is to join a container after a popup menu has been shown is that menu.
AttachInv == shown # Null /\ edt.attach # Null => edt.attach = shown

HeardInv == (heard # Silence => edt = Idle) /\ ActionReachesItsContainer

WInv == TypesInv /\ UpdateInv /\ ToldInv /\ AttachInv /\ HeardInv

LEMMA SameTree ==
    ASSUME UNCHANGED tree, NEW c
    PROVE  /\ EventService(c)' = EventService(c) /\ InPopup(c)' = InPopup(c)
           /\ \A m : Contains(m, c)' <=> Contains(m, c)
  <1>1. parent' = parent /\ invoker' = invoker
    BY DEF tree
  <1>2. EventService(c)' = EventService(c)
    BY <1>1, ServiceByFinds
  <1>3. \A m : Contains(m, c)' <=> Contains(m, c)
    BY <1>1, ContainsByUps
  <1> QED
    BY <1>2, <1>3 DEF InPopup

\* With the event dispatch thread idle, or done with the listeners, nothing is due.
LEMMA NothingDue ==
    ASSUME WInv, edt = Idle \/ (edt.at = "notify" /\ edt.tell = {}), ~threw,
           NEW r \in listening, Reached(r)
    PROVE  Whole(r)
  <1>1. Idle.at = "idle" /\ Idle.tell = {}
    BY DEF Idle
  <1>2. ~Due(r)
    BY <1>1 DEF Due
  <1> QED
    BY <1>2 DEF WInv, ToldInv

\* While a move or an update is under way no action is fired.
LEMMA SilentUnderWay ==
    ASSUME WInv, edt.at # "idle"
    PROVE  heard = Silence
  BY DEF WInv, HeardInv, Idle

LEMMA SilenceIsHeard ==
    ASSUME heard' = Silence
    PROVE  HeardInv'
  BY DEF HeardInv, ActionReachesItsContainer

\* A change of the hierarchy: whoever is below a component with another parent is told,
\* and so is whoever is in a popup menu that joins its window.
LEMMA TreeChange ==
    ASSUME IInv, WInv, edt = Idle \/ (edt.at = "notify" /\ edt.tell = {}),
           TypesInv', AttachInv', heard' = Silence,
           UNCHANGED <<service, subs, listening, threw>>, edt'.at = "notify",
           \A r \in listening, c \in Components :
               Contains(c, JComp[r]) /\ parent'[c] # parent[c] => r \in edt'.tell,
           \A r \in listening :
               shown' # Null /\ edt'.attach = Null /\ Contains(shown, JComp[r])' =>
                   r \in edt'.tell \/ (UNCHANGED tree /\ Reached(r))
    PROVE  WInv'
  <1>1. UpdateInv'
    BY DEF UpdateInv
  <1>2. ASSUME ~threw, NEW r \in listening, Reached(r)'
        PROVE  Due(r)' \/ Whole(r)'
    <2>1. CASE r \in edt'.tell
      BY <2>1 DEF Due
    <2>2. CASE r \notin edt'.tell /\ ~InPopup(JComp[r])'
      <3>1. JComp[r] \in Components
        BY ContainerAssumption DEF IInv, EdtType
      <3>2. \A c \in Components : Contains(c, JComp[r]) => parent'[c] = parent[c]
        BY <2>2
      <3>3. PICK d \in Components : d = JComp[r]
        BY <3>1
      <3>4. TreeType /\ TreeType'
        BY DEF WInv, TypesInv
      <3>5. /\ InPopup(d)' <=> InPopup(d)
            /\ ~InPopup(d) => EventService(d)' = EventService(d)
        BY <3>2, <3>3, <3>4, ElsewhereTheSame
      <3>6. ~InPopup(d) /\ EventService(d)' = EventService(d)
        BY <2>2, <3>3, <3>5
      <3>7. Whole(r)
        BY <1>2, <3>3, <3>6, NothingDue DEF Reached
      <3> QED
        BY <3>3, <3>6, <3>7 DEF Whole
    <2>3. CASE r \notin edt'.tell /\ InPopup(JComp[r])'
      <3>1. UNCHANGED tree /\ Reached(r)
        BY <1>2, <2>3 DEF Reached
      <3>2. Whole(r) /\ EventService(JComp[r])' = EventService(JComp[r])
        BY <1>2, <3>1, NothingDue, SameTree
      <3> QED
        BY <3>2 DEF Whole
    <2> QED
      BY <2>1, <2>2, <2>3
  <1>3. ToldInv'
    BY <1>2 DEF ToldInv
  <1> QED
    BY <1>1, <1>3, SilenceIsHeard DEF WInv

LEMMA MoveWInv ==
    ASSUME IInv, WInv, NEW c \in Movable, NEW p \in Parents \cup {Null}, Move(c, p)
    PROVE  WInv'
  <1> DEFINE tell == IF parent[c] = Null THEN {} ELSE Told(c, parent[c])
  <1>1. /\ edt = Idle /\ moves < MaxMoves /\ moves' = moves + 1
        /\ parent' = [parent EXCEPT ![c] = Null]
        /\ edt' = Notify(tell, IF p = Null THEN Null ELSE c, p)
        /\ shown' = Null /\ heard' = Silence
        /\ UNCHANGED <<invoker, service, subs, listening, threw>>
    BY DEF Move
  <1>2. edt'.tell = tell /\ edt'.at = "notify"
    BY <1>1 DEF Notify, Idle
  <1>3. c \in Components /\ parent \in [Components -> CN]
    BY ContainerAssumption DEF WInv, TypesInv, TreeType
  <1>4. TypesInv'
    BY <1>1, <1>3, ContainerAssumption DEF WInv, TypesInv, TreeType, CN, Silence
  <1>5. ASSUME NEW r \in listening, NEW x \in Components, Contains(x, JComp[r]),
               parent'[x] # parent[x]
        PROVE  r \in edt'.tell
    <2>1. x = c /\ parent[c] # Null
      BY <1>1, <1>3, <1>5
    <2> QED
      BY <1>2, <1>5, <2>1 DEF Told
  <1>6. shown' = Null /\ AttachInv'
    BY <1>1 DEF AttachInv
  <1> QED
    BY <1>1, <1>2, <1>4, <1>5, <1>6, TreeChange

LEMMA ShowWInv ==
    ASSUME IInv, WInv, NEW m \in Popups, NEW i \in Invokers, Show(m, i)
    PROVE  WInv'
  <1>1. /\ edt = Idle /\ moves < MaxMoves /\ moves' = moves + 1
        /\ invoker' = [invoker EXCEPT ![m] = i] /\ edt' = Notify({}, m, Layer)
        /\ shown' = m /\ heard' = Silence
        /\ UNCHANGED <<parent, service, subs, listening, threw>>
    BY DEF Show
  <1>2. edt'.at = "notify" /\ edt'.attach = m
    BY <1>1 DEF Notify, Idle
  <1>3. i \in CN
    BY ContainerAssumption DEF CN
  <1>4. TypesInv'
    BY <1>1, <1>3, ContainerAssumption DEF WInv, TypesInv, TreeType, Silence
  <1>5. AttachInv' /\ edt'.attach # Null
    BY <1>1, <1>2, ContainerAssumption DEF AttachInv
  <1> QED
    BY <1>1, <1>2, <1>4, <1>5, TreeChange

LEMMA AttachWInv ==
    ASSUME IInv, WInv, Attach
    PROVE  WInv'
  <1>1. /\ edt.at = "notify" /\ edt.tell = {} /\ edt.attach # Null
        /\ parent' = [parent EXCEPT ![edt.attach] = edt.to]
        /\ edt' = Notify(Told(edt.attach, edt.to), Null, Null)
        /\ UNCHANGED <<invoker, service, subs, listening, moves, heard, shown, threw>>
    BY DEF Attach, history
  <1>2. edt'.tell = Told(edt.attach, edt.to) /\ edt'.at = "notify" /\ edt'.attach = Null
    BY <1>1 DEF Notify, Idle
  <1>3. edt.attach \in Components /\ edt.to \in CN
    BY <1>1 DEF IInv, EdtType, CN
  <1>4. heard' = Silence
    BY <1>1, SilentUnderWay
  <1>5. TypesInv'
    BY <1>1, <1>3 DEF WInv, TypesInv, TreeType
  <1>6. ASSUME NEW r \in listening, NEW x \in Components, Contains(x, JComp[r]),
               parent'[x] # parent[x]
        PROVE  r \in edt'.tell
    <2>1. x = edt.attach
      BY <1>1, <1>6 DEF WInv, TypesInv, TreeType
    <2> QED
      BY <1>2, <1>6, <2>1 DEF Told
  <1>7. ASSUME NEW r \in listening, shown' # Null, Contains(shown, JComp[r])'
        PROVE  r \in edt'.tell
    <2>1. PICK m \in Components : m = shown /\ m = edt.attach
      BY <1>1, <1>3, <1>7 DEF WInv, AttachInv
    <2>2. PICK d \in Components : d = JComp[r]
      BY ContainerAssumption DEF IInv, EdtType
    <2>3. \A c \in Components \ {m} : parent'[c] = parent[c]
      BY <1>1, <2>1 DEF WInv, TypesInv, TreeType
    <2>4. Contains(m, d)'
      BY <1>1, <1>7, <2>1, <2>2
    <2>5. Contains(m, d)
      BY <1>5, <2>3, <2>4, BelowTheMoved DEF WInv, TypesInv
    <2> QED
      BY <1>2, <2>1, <2>2, <2>5 DEF Told
  <1>8. AttachInv'
    BY <1>2 DEF AttachInv
  <1> QED
    BY <1>1, <1>2, <1>4, <1>5, <1>6, <1>7, <1>8, TreeChange

LEMMA ReturnWInv ==
    ASSUME IInv, WInv, Return
    PROVE  WInv'
  <1>1. /\ edt.at = "notify" /\ edt.tell = {} /\ edt.attach = Null /\ edt' = Idle /\ UNCHANGED tree
        /\ UNCHANGED <<parent, invoker, service, subs, listening, moves, heard, shown, threw>>
    BY DEF Return, history, tree
  <1>2. heard' = Silence /\ TypesInv'
    BY <1>1, SilentUnderWay DEF WInv, TypesInv, TreeType
  <1>3. UpdateInv' /\ AttachInv'
    BY <1>1 DEF UpdateInv, AttachInv, Idle
  <1>4. ASSUME ~threw, NEW r \in listening, Reached(r)'
        PROVE  Whole(r)'
    <2>1. Reached(r)
      BY <1>1, <1>4, SameTree DEF Reached
    <2>2. Whole(r)
      BY <1>1, <1>4, <2>1, NothingDue
    <2> QED
      BY <1>1, <2>2, SameTree DEF Whole
  <1>5. ToldInv'
    BY <1>1, <1>4 DEF ToldInv
  <1> QED
    BY <1>2, <1>3, <1>5, SilenceIsHeard DEF WInv

LEMMA ConstructWInv ==
    ASSUME IInv, WInv, NEW r \in Registrars, Construct(r)
    PROVE  WInv'
  <1>1. /\ edt = Idle /\ UNCHANGED tree /\ edt' = Notify({r}, Null, Null) /\ heard' = Silence
        /\ UNCHANGED <<parent, invoker, service, subs, listening, moves, shown, threw>>
    BY DEF Construct, history, tree
  <1>2. edt'.at = "notify"
    BY <1>1 DEF Notify, Idle
  <1>3. TypesInv'
    BY <1>1 DEF WInv, TypesInv, TreeType, Silence
  <1>4. AttachInv' /\ edt.attach = Null
    BY <1>1 DEF AttachInv, Notify, Idle
  <1>5. ASSUME NEW x \in listening, shown' # Null, Contains(shown, JComp[x])'
        PROVE  Reached(x)
    BY <1>1, <1>4, <1>5, SameTree DEF Reached
  <1> QED
    BY <1>1, <1>2, <1>3, <1>4, <1>5, TreeChange

\* A step of the update of registrar q: the others keep what they have or are to get.
LEMMA UpdateStep ==
    ASSUME IInv, WInv, NEW q \in Registrars, edt.at # "idle",
           UNCHANGED <<parent, invoker, moves, heard, shown, threw>>, TypesInv', UpdateInv',
           edt'.attach = edt.attach,
           listening' \subseteq listening \cup {q},
           \A r \in listening \ {q} : service'[r] = service[r] /\ subs'[r] = subs[r],
           \A r \in listening \ {q} : Due(r) => Due(r)',
           Due(q)' \/ Whole(q)'
    PROVE  WInv'
  <1>1. heard = Silence /\ heard' = Silence /\ UNCHANGED tree
    BY SilentUnderWay DEF tree
  <1>2. ASSUME ~threw, NEW r \in listening \ {q}, Reached(r)'
        PROVE  Due(r)' \/ Whole(r)'
    <2>1. EventService(JComp[r])' = EventService(JComp[r]) /\ Reached(r)
      BY <1>1, <1>2, SameTree DEF Reached
    <2>2. Due(r) \/ Whole(r)
      BY <1>2, <2>1 DEF WInv, ToldInv
    <2>3. Whole(r) => Whole(r)'
      BY <2>1 DEF Whole
    <2> QED
      BY <2>2, <2>3
  <1>3. ToldInv'
    BY <1>2 DEF ToldInv
  <1>4. AttachInv'
    BY DEF WInv, AttachInv
  <1> QED
    BY <1>1, <1>3, <1>4, SilenceIsHeard DEF WInv

LEMMA BeginUpdateWInv ==
    ASSUME IInv, WInv, NEW q \in Registrars, BeginUpdate(q)
    PROVE  WInv'
  <1>1. /\ edt.at = "notify" /\ q \in edt.tell
        /\ edt' = [edt EXCEPT !.registrar = q, !.tell = @ \ {q}, !.left = Keys,
                              !.at = IF service[q] = Null THEN "find" ELSE "unsubscribe"]
        /\ UNCHANGED <<parent, invoker, service, subs, listening, moves, heard, shown, threw>>
    BY DEF BeginUpdate, history, tree
  <1>2. /\ edt'.registrar = q /\ edt'.attach = edt.attach /\ edt'.tell = edt.tell \ {q} /\ edt'.left = Keys
        /\ edt'.at \in {"find", "unsubscribe"}
    BY <1>1 DEF IInv, EdtType
  <1>3. TypesInv'
    BY <1>1 DEF WInv, TypesInv, TreeType
  <1>4. UpdateInv'
    BY <1>2 DEF UpdateInv
  <1>5. Due(q)' /\ \A r \in listening \ {q} : Due(r) => Due(r)'
    BY <1>1, <1>2 DEF Due
  <1> QED
    BY <1>1, <1>3, <1>4, <1>5, UpdateStep

LEMMA UnsubscribeWInv ==
    ASSUME IInv, WInv, NEW k \in Keys, Unsubscribe(k)
    PROVE  WInv'
  <1>1. PICK q \in Registrars : q = edt.registrar
    BY DEF IInv, Progress, Unsubscribe
  <1>2. /\ edt.at = "unsubscribe"
        /\ subs' = [subs EXCEPT ![q] = @ \ {<<service[q], k>>}]
        /\ edt' = IF edt.left = {k} THEN [edt EXCEPT !.left = Keys, !.at = "find"]
                  ELSE [edt EXCEPT !.left = @ \ {k}]
        /\ UNCHANGED <<parent, invoker, service, listening, moves, heard, shown, threw>>
    BY <1>1 DEF Unsubscribe, history, tree
  <1>3. /\ edt'.registrar = q /\ edt'.attach = edt.attach /\ edt'.tell = edt.tell
        /\ edt'.at \in {"find", "unsubscribe"} /\ (edt'.at = "find" => edt'.left = Keys)
    BY <1>1, <1>2 DEF IInv, EdtType
  <1>4. subs' \in [Registrars -> SUBSET (Components \X Keys)]
        /\ \A r \in listening \ {q} : subs'[r] = subs[r]
    BY <1>1, <1>2 DEF WInv, TypesInv, IInv, EdtType
  <1>5. TypesInv'
    BY <1>2, <1>4 DEF WInv, TypesInv, TreeType
  <1>6. UpdateInv'
    BY <1>3 DEF UpdateInv
  <1>7. Due(q)' /\ \A r \in listening \ {q} : Due(r) => Due(r)'
    BY <1>1, <1>2, <1>3 DEF Due
  <1> QED
    BY <1>1, <1>2, <1>4, <1>5, <1>6, <1>7, UpdateStep

LEMMA FindWInv ==
    ASSUME IInv, WInv, Find
    PROVE  WInv'
  <1>1. PICK q \in Registrars : q = edt.registrar
    BY DEF IInv, Progress, Find
  <1>2. /\ edt.at = "find"
        /\ service' = [service EXCEPT ![q] = EventService(JComp[q])]
        /\ IF service'[q] = Null THEN Updated(q)
           ELSE edt' = [edt EXCEPT !.at = "subscribe"] /\ UNCHANGED listening
        /\ UNCHANGED <<parent, invoker, subs, moves, heard, shown, threw>> /\ UNCHANGED tree
    BY <1>1 DEF Find, history, tree
  <1>3. PICK d \in CN : d = JComp[q]
    BY ContainerAssumption DEF CN
  <1>4. EventService(d) \in CN /\ EventService(d)' = EventService(d)
    BY <1>2, ServiceIsComponent, SameTree DEF WInv, TypesInv
  <1>5. /\ service' \in [Registrars -> CN] /\ service'[q] = EventService(d)
        /\ \A r \in listening \ {q} : service'[r] = service[r]
    BY <1>2, <1>3, <1>4 DEF WInv, TypesInv, IInv, EdtType
  <1>6. /\ edt'.attach = edt.attach /\ edt'.tell = edt.tell /\ listening \subseteq listening'
        /\ listening' \subseteq listening \cup {q}
        /\ service'[q] = Null => edt'.at = "notify"
        /\ service'[q] # Null => edt'.at = "subscribe" /\ edt'.registrar = q /\ edt'.left = Keys
    BY <1>1, <1>2 DEF Updated, IInv, EdtType, WInv, UpdateInv
  <1>7. subs[q] = {}
    BY <1>1, <1>2 DEF IInv, Progress
  <1>8. TypesInv'
    BY <1>2, <1>5, <1>6 DEF WInv, TypesInv, TreeType
  <1>9. UpdateInv'
    <2>1. CASE service'[q] = Null
      BY <1>6, <2>1 DEF UpdateInv
    <2>2. CASE service'[q] # Null
      <3>1. subs'[q] = {service'[q]} \X (Keys \ Keys)
        BY <1>2, <1>7
      <3>2. edt'.at = "subscribe" /\ edt'.registrar = q /\ edt'.left = Keys
        BY <1>6, <2>2
      <3> QED
        BY <1>3, <1>4, <1>5, <3>1, <3>2 DEF UpdateInv
    <2> QED
      BY <2>1, <2>2
  <1>10. Due(q)' \/ Whole(q)'
    <2>1. CASE service'[q] = Null
      BY <1>2, <1>3, <1>4, <1>5, <1>7, <2>1 DEF Whole
    <2>2. CASE service'[q] # Null
      BY <1>6, <2>2 DEF Due
    <2> QED
      BY <2>1, <2>2
  <1>11. \A r \in listening \ {q} : Due(r) => Due(r)'
    BY <1>1, <1>6 DEF Due
  <1> QED
    BY <1>1, <1>2, <1>5, <1>6, <1>8, <1>9, <1>10, <1>11, UpdateStep

\* After a supplier has thrown nothing is said of who was to be told.
LEMMA FindThrowsWInv ==
    ASSUME IInv, WInv, FindThrows
    PROVE  WInv'
  <1>1. /\ edt.at = "find" /\ edt' = Idle /\ threw' = TRUE
        /\ UNCHANGED <<parent, invoker, service, subs, listening, moves, heard, shown>>
    BY DEF FindThrows, tree
  <1>2. heard' = Silence /\ TypesInv'
    BY <1>1, SilentUnderWay DEF WInv, TypesInv, TreeType
  <1>3. UpdateInv' /\ ToldInv' /\ AttachInv'
    BY <1>1 DEF UpdateInv, ToldInv, AttachInv, Idle
  <1> QED
    BY <1>2, <1>3, SilenceIsHeard DEF WInv

LEMMA SubscribeWInv ==
    ASSUME IInv, WInv, NEW k \in Keys, Subscribe(k)
    PROVE  WInv'
  <1>1. PICK q \in Registrars : q = edt.registrar
    BY DEF IInv, Progress, Subscribe
  <1>2. /\ edt.at = "subscribe" /\ k \in edt.left
        /\ subs' = [subs EXCEPT ![q] = @ \cup {<<service[q], k>>}]
        /\ IF edt.left = {k} THEN Updated(q)
           ELSE edt' = [edt EXCEPT !.left = @ \ {k}] /\ UNCHANGED listening
        /\ UNCHANGED <<parent, invoker, service, moves, heard, shown, threw>> /\ UNCHANGED tree
    BY <1>1 DEF Subscribe, history, tree
  <1>3. PICK d \in CN : d = JComp[q]
    BY ContainerAssumption DEF CN
  <1>4. PICK s \in Components : s = service[q]
    BY <1>1, <1>2 DEF WInv, TypesInv, IInv, Progress, CN
  <1>5. /\ s = EventService(d) /\ EventService(d)' = EventService(d)
        /\ subs[q] = {s} \X (Keys \ edt.left) /\ s # Null
    BY <1>1, <1>2, <1>3, <1>4, SameTree, ContainerAssumption DEF WInv, UpdateInv
  <1>6. edt.left \subseteq Keys
    BY DEF IInv, EdtType
  <1>7. subs'[q] = {s} \X (Keys \ (edt.left \ {k}))
    <2>1. subs'[q] = subs[q] \cup {<<s, k>>}
      BY <1>2, <1>4 DEF WInv, TypesInv
    <2> QED
      BY <1>2, <1>5, <2>1
  <1>8. /\ subs' \in [Registrars -> SUBSET (Components \X Keys)]
        /\ \A r \in listening \ {q} : subs'[r] = subs[r]
    BY <1>2, <1>4 DEF WInv, TypesInv, IInv, EdtType
  <1>9. /\ edt'.attach = edt.attach /\ edt'.tell = edt.tell /\ listening \subseteq listening'
        /\ listening' \subseteq listening \cup {q}
        /\ edt.left = {k} => edt'.at = "notify"
        /\ edt.left # {k} => edt'.at = "subscribe" /\ edt'.registrar = q
                             /\ edt'.left = edt.left \ {k}
    BY <1>1, <1>2 DEF Updated, IInv, EdtType
  <1>10. TypesInv'
    BY <1>2, <1>8, <1>9 DEF WInv, TypesInv, TreeType
  <1>11. UpdateInv'
    <2>1. CASE edt.left = {k}
      BY <1>9, <2>1 DEF UpdateInv
    <2>2. CASE edt.left # {k}
      <3>1. edt'.at = "subscribe" /\ edt'.registrar = q /\ edt'.left = edt.left \ {k}
        BY <1>9, <2>2
      <3> QED
        BY <1>2, <1>3, <1>4, <1>5, <1>7, <3>1 DEF UpdateInv
    <2> QED
      BY <2>1, <2>2
  <1>12. Due(q)' \/ Whole(q)'
    <2>1. CASE edt.left = {k}
      <3>1. subs'[q] = {s} \X Keys
        BY <1>7, <2>1
      <3> QED
        BY <1>2, <1>3, <1>4, <1>5, <3>1 DEF Whole
    <2>2. CASE edt.left # {k}
      BY <1>9, <2>2 DEF Due
    <2> QED
      BY <2>1, <2>2
  <1>13. \A r \in listening \ {q} : Due(r) => Due(r)'
    BY <1>1, <1>9 DEF Due
  <1> QED
    BY <1>1, <1>2, <1>8, <1>9, <1>10, <1>11, <1>12, <1>13, UpdateStep

\* An action is fired with nothing under way: every registrar outside the popup menus has
\* what it was last told, so the action reaches it if their walks end at the same service.
LEMMA ActionPerformedWInv ==
    ASSUME IInv, WInv, NEW c \in Components, NEW k \in Keys, ActionPerformed(c, k)
    PROVE  WInv'
  <1>1. /\ edt = Idle /\ edt' = edt /\ UNCHANGED tree
        /\ UNCHANGED <<parent, invoker, service, subs, listening, moves, shown, threw>>
    BY DEF ActionPerformed, history, tree
  <1>2. PICK s \in CN : s = EventService(c)
    BY ServiceIsComponent DEF WInv, TypesInv, CN
  <1>3. /\ s # Null
        /\ heard' = [service |-> s, key |-> k,
                     registrars |-> {r \in listening : <<s, k>> \in subs[r]}]
    BY <1>2 DEF ActionPerformed
  <1>4. /\ heard'.service = s
        /\ heard'.registrars = {r \in listening : <<s, k>> \in subs[r]}
    BY <1>3
  <1>5. TypesInv' /\ UpdateInv' /\ AttachInv'
    BY <1>1, <1>4 DEF WInv, TypesInv, TreeType, UpdateInv, AttachInv, Idle
  <1>6. ASSUME ~threw, NEW r \in listening, Reached(r)'
        PROVE  Whole(r) /\ EventService(JComp[r])' = EventService(JComp[r])
    <2>1. EventService(JComp[r])' = EventService(JComp[r]) /\ Reached(r)
      BY <1>1, <1>6, SameTree DEF Reached
    <2> QED
      BY <1>1, <1>6, <2>1, NothingDue
  <1>7. ToldInv'
    BY <1>1, <1>6 DEF ToldInv, Whole
  <1>8. ActionReachesItsContainer'
    <2> SUFFICES ASSUME ~threw', NEW r \in listening', ~InPopup(JComp[r])'
                 PROVE  r \in heard'.registrars <=> EventService(JComp[r])' = heard'.service
      BY DEF ActionReachesItsContainer
    <2>1. Whole(r) /\ EventService(JComp[r])' = EventService(JComp[r])
      BY <1>1, <1>6 DEF Reached
    <2>2. <<s, k>> \in subs[r] <=> service[r] = s
      BY <1>3, <2>1 DEF Whole
    <2> QED
      BY <1>1, <1>4, <2>1, <2>2 DEF Whole
  <1> QED
    BY <1>1, <1>5, <1>7, <1>8 DEF WInv, HeardInv

LEMMA StutterWInv ==
    ASSUME WInv, UNCHANGED vars
    PROVE  WInv'
  <1>1. UNCHANGED tree
        /\ UNCHANGED <<parent, invoker, service, subs, listening, edt, moves, heard, shown, threw>>
    BY DEF vars, tree, history
  <1>2. \A r : EventService(JComp[r])' = EventService(JComp[r])
               /\ Reached(r)' = Reached(r) /\ InPopup(JComp[r])' = InPopup(JComp[r])
    BY <1>1, SameTree DEF Reached
  <1>3. TypesInv' /\ UpdateInv' /\ AttachInv'
    BY <1>1, <1>2 DEF WInv, TypesInv, TreeType, UpdateInv, AttachInv
  <1>4. ToldInv'
    BY <1>1, <1>2 DEF WInv, ToldInv, Due, Whole
  <1>5. HeardInv'
    BY <1>1, <1>2 DEF WInv, HeardInv, ActionReachesItsContainer
  <1> QED
    BY <1>3, <1>4, <1>5 DEF WInv

LEMMA InitWInv == Init => WInv
  <1> SUFFICES ASSUME Init
               PROVE  WInv
    OBVIOUS
  <1>1. TypesInv
    <2>1. TreeType
      BY ContainerAssumption DEF Init, TreeType, CN
    <2>2. service \in [Registrars -> CN] /\ subs \in [Registrars -> SUBSET (Components \X Keys)]
      BY DEF Init, CN
    <2>3. moves \in 0..MaxMoves /\ heard.registrars \subseteq listening
      BY ContainerAssumption DEF Init, Silence
    <2> QED
      BY <2>1, <2>2, <2>3 DEF Init, TypesInv
  <1>2. UpdateInv /\ ToldInv /\ AttachInv /\ HeardInv
    BY DEF Init, UpdateInv, ToldInv, AttachInv, HeardInv, ActionReachesItsContainer, Idle
  <1> QED
    BY <1>1, <1>2 DEF WInv

\* Every step preserves the rest of the invariant.
LEMMA NextWInv == IInv /\ WInv /\ [Next]_vars => WInv'
  <1> SUFFICES ASSUME IInv, WInv, [Next]_vars
               PROVE  WInv'
    OBVIOUS
  <1>1. ASSUME NEW c \in Movable, NEW p \in Parents \cup {Null}, Move(c, p)
        PROVE  WInv'
    BY <1>1, MoveWInv
  <1>2. ASSUME NEW m \in Popups, NEW i \in Invokers, Show(m, i)
        PROVE  WInv'
    BY <1>2, ShowWInv
  <1>3. CASE Attach \/ Return
    BY <1>3, AttachWInv, ReturnWInv
  <1>4. ASSUME NEW r \in Registrars, Construct(r) \/ BeginUpdate(r)
        PROVE  WInv'
    BY <1>4, ConstructWInv, BeginUpdateWInv
  <1>5. ASSUME NEW k \in Keys, Unsubscribe(k) \/ Subscribe(k)
        PROVE  WInv'
    BY <1>5, UnsubscribeWInv, SubscribeWInv
  <1>6. CASE Find \/ FindThrows
    BY <1>6, FindWInv, FindThrowsWInv
  <1>7. ASSUME NEW c \in Components, NEW k \in Keys, ActionPerformed(c, k)
        PROVE  WInv'
    BY <1>7, ActionPerformedWInv
  <1>8. CASE UNCHANGED vars
    BY <1>8, StutterWInv
  <1> QED
    BY <1>1, <1>2, <1>3, <1>4, <1>5, <1>6, <1>7, <1>8 DEF Next

\* For any hierarchy the parents, invokers, services and subscriptions are those of
\* components, and an update unsubscribes from and subscribes to an existing service only.
THEOREM TypeOKHolds == Spec => []TypeOK
  <1>1. IInv /\ WInv => TypeOK
    <2> SUFFICES ASSUME IInv, WInv
                 PROVE  TypeOK
      OBVIOUS
    <2>1. /\ edt.at \in {"idle", "notify", "unsubscribe", "find", "subscribe"}
          /\ edt.left \subseteq Keys /\ edt.tell \subseteq Registrars
          /\ {edt.attach, edt.to} \subseteq Components \cup {Null}
          /\ listening \subseteq Registrars
      BY DEF IInv, EdtType
    <2>2. edt.at \in {"unsubscribe", "subscribe"} => service[edt.registrar] # Null
      BY DEF IInv, Progress
    <2> QED
      BY <2>1, <2>2 DEF TypeOK, WInv, TypesInv, TreeType, CN
  <1> QED
    BY <1>1, InitIInv, NextIInv, InitWInv, NextWInv, PTL DEF Spec

\* For any hierarchy, suppliers, registrars and moves, and with other threads between any
\* two steps of a move: until a supplier throws, an action reaches the registrars outside
\* the popup menus whose container is that of its source, and no others.
THEOREM ActionReachesItsContainerHolds == Spec => []ActionReachesItsContainer
  <1>1. WInv => ActionReachesItsContainer
    BY DEF WInv, HeardInv
  <1> QED
    BY <1>1, InitIInv, NextIInv, InitWInv, NextWInv, PTL DEF Spec

\* For any hierarchy and any menus, and wherever the menus are shown: until a supplier
\* throws, what is in a popup menu shown is subscribed to the service of its invoker,
\* completely, but for what a supplier or another popup menu in it keeps for itself.
THEOREM PopupFollowsInvokerHolds == Spec => []PopupFollowsInvoker
  <1>1. IInv /\ WInv => PopupFollowsInvoker
    <2> SUFFICES ASSUME IInv, WInv, edt = Idle, shown # Null, ~threw, NEW r \in listening,
                        Contains(shown, JComp[r]), LeavesBy(shown, JComp[r])
                 PROVE  /\ service[r] = EventService(invoker[shown])
                        /\ subs[r] = IF EventService(invoker[shown]) = Null THEN {}
                                     ELSE {EventService(invoker[shown])} \X Keys
      BY DEF PopupFollowsInvoker
    <2>1. edt.attach = Null
      BY DEF Idle
    <2>2. Whole(r)
      BY <2>1, NothingDue DEF Reached
    <2>3. JComp[r] \in Components /\ shown \in Popups /\ TreeType
      BY ContainerAssumption DEF IInv, EdtType, WInv, TypesInv
    <2>4. EventService(JComp[r]) = EventService(invoker[shown])
      BY <2>3, ServiceOfInvoker
    <2> QED
      BY <2>2, <2>4 DEF Whole
  <1> QED
    BY <1>1, InitIInv, NextIInv, InitWInv, NextWInv, PTL DEF Spec
=============================================================================
