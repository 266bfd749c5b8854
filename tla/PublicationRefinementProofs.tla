---------------------- MODULE PublicationRefinementProofs ----------------------
(***************************************************************************)
(* The publication implements AtomicPublication, for any threads, events,  *)
(* subscribers, priorities and bounds, with and without a dispatch thread: *)
(* publish() begins an event, each call of a subscriber is the next call   *)
(* of its audience, and the return from publish() ends the event as        *)
(* vetoed, completed or failed.  Every other step changes nothing there.   *)
(***************************************************************************)
EXTENDS PublicationProofs

\* The events that have an activation, on the stacks and in the queue.
LEMMA ActiveEventsDef ==
    \A e : e \in ActiveEvents <=>
        \/ e \in EventsIn(queue)
        \/ \E t \in Threads : e \in EventsIn(stack[t])
  BY DEF ActiveEvents

LEMMA EventsInLists ==
    ASSUME NEW s \in Seq(Frames), NEW f \in Frames
    PROVE  /\ EventsIn(<<f>> \o s) = EventsIn(s) \cup {f.event}
           /\ EventsIn(Append(s, f)) = EventsIn(s) \cup {f.event}
           /\ s # <<>> => EventsIn(s) = EventsIn(Tail(s)) \cup {Head(s).event}
  <1>1. Len(s) \in Nat
    OBVIOUS
  <1>2. EventsIn(<<f>> \o s) = EventsIn(s) \cup {f.event}
    <2> DEFINE n == <<f>> \o s
    <2>1. /\ Len(n) = Len(s) + 1 /\ n[1] = f
          /\ \A i \in 1..Len(s) : n[i + 1] = s[i]
      OBVIOUS
    <2> HIDE DEF n
    <2>2. \A i \in 1..Len(n) : i # 1 => (i - 1 \in 1..Len(s) /\ n[i] = s[i - 1])
      BY <1>1, <2>1
    <2>3. \A i \in 1..Len(s) : i + 1 \in 1..Len(n)
      BY <1>1, <2>1
    <2>4. EventsIn(n) \subseteq EventsIn(s) \cup {f.event}
      BY <2>1, <2>2 DEF EventsIn
    <2>5. 1 \in 1..Len(n)
      BY <1>1, <2>1
    <2>6. EventsIn(s) \cup {f.event} \subseteq EventsIn(n)
      BY <2>1, <2>3, <2>5 DEF EventsIn
    <2> QED
      BY <2>4, <2>6 DEF n
  <1>3. EventsIn(Append(s, f)) = EventsIn(s) \cup {f.event}
    <2> DEFINE n == Append(s, f)
    <2>1. /\ Len(n) = Len(s) + 1 /\ n[Len(s) + 1] = f
          /\ \A i \in 1..Len(s) : n[i] = s[i]
      OBVIOUS
    <2> HIDE DEF n
    <2>2. 1..Len(n) = (1..Len(s)) \cup {Len(s) + 1}
      BY <1>1, <2>1
    <2> QED
      BY <2>1, <2>2 DEF EventsIn, n
  <1>4. ASSUME s # <<>>
        PROVE  EventsIn(s) = EventsIn(Tail(s)) \cup {Head(s).event}
    <2> DEFINE n == Tail(s)
    <2>1. /\ Len(n) = Len(s) - 1 /\ Len(n) \in Nat /\ Head(s) = s[1]
          /\ \A i \in 1..Len(n) : n[i] = s[i + 1]
      BY <1>4
    <2> HIDE DEF n
    <2>2. \A i \in 1..Len(s) : i # 1 => (i - 1 \in 1..Len(n) /\ s[i] = n[i - 1])
      BY <1>1, <2>1
    <2>3. \A i \in 1..Len(n) : i + 1 \in 1..Len(s)
      BY <1>1, <2>1
    <2>4. EventsIn(s) \subseteq EventsIn(n) \cup {Head(s).event}
      BY <2>1, <2>2 DEF EventsIn
    <2>5. 1 \in 1..Len(s)
      BY <1>1, <2>1
    <2>6. EventsIn(n) \cup {Head(s).event} \subseteq EventsIn(s)
      BY <2>1, <2>3, <2>5 DEF EventsIn
    <2> QED
      BY <2>4, <2>6 DEF n
  <1> QED
    BY <1>2, <1>3, <1>4

\* The event of the innermost activation of t, which is nowhere else.
LEMMA TopIsActive ==
    ASSUME IInv, NEW t \in Threads, stack[t] # <<>>
    PROVE  /\ Top(t).event \in ActiveEvents /\ Top(t).event \in Events
           /\ Top(t) \in Frames
           /\ EventsIn(stack[t]) = EventsIn(Tail(stack[t])) \cup {Top(t).event}
           /\ Top(t).event \notin EventsIn(Tail(stack[t]))
           /\ Top(t).event \notin EventsIn(queue)
           /\ \A u \in Threads \ {t} : Top(t).event \notin EventsIn(stack[u])
  <1>1. /\ stack[t] \in Seq(Frames) /\ Len(stack[t]) \in Nat \ {0}
        /\ Top(t) = stack[t][1] /\ Top(t) \in Consistent
        /\ Top(t).event \in Events
        /\ \A u \in Owners : \A i \in 1..Len(Held(u)) :
               Held(u)[i].event = Top(t).event => u = t /\ i = 1
    BY TopIsApart DEF IInv
  <1>2. EventsIn(stack[t]) = EventsIn(Tail(stack[t])) \cup {Top(t).event}
    BY <1>1, EventsInLists DEF Top, Consistent
  <1>3. /\ Null \in Owners /\ Held(Null) = queue /\ Null # t
        /\ \A u \in Threads : u \in Owners /\ Held(u) = stack[u]
    BY HeldType, PublicationAssumption DEF IInv, Owners
  <1>4. Top(t).event \notin EventsIn(queue)
    BY <1>1, <1>3 DEF EventsIn
  <1>5. \A u \in Threads \ {t} : Top(t).event \notin EventsIn(stack[u])
    BY <1>1, <1>3 DEF EventsIn
  <1>6. Top(t).event \notin EventsIn(Tail(stack[t]))
    <2> DEFINE s == stack[t]
               n == Tail(s)
    <2>1. /\ Len(n) = Len(s) - 1
          /\ \A i \in 1..Len(n) : n[i] = s[i + 1]
      BY <1>1
    <2> HIDE DEF n
    <2>2. \A i \in 1..Len(n) : i + 1 \in 1..Len(s) /\ i + 1 # 1
      BY <1>1, <2>1
    <2>3. \A i \in 1..Len(s) : s[i].event = Top(t).event => i = 1
      BY <1>1, <1>3
    <2> HIDE DEF s
    <2>4. \A i \in 1..Len(n) : n[i].event # Top(t).event
      BY <2>1, <2>2, <2>3
    <2> QED
      BY <2>4 DEF EventsIn, n, s
  <1> QED
    BY <1>1, <1>2, <1>4, <1>5, <1>6, ActiveEventsDef DEF Consistent
-----------------------------------------------------------------------------
(* What the moves of the activations do to the set of active events. *)

LEMMA GotoKeepsActive ==
    ASSUME IInv, NEW t \in Threads, stack[t] # <<>>, NEW f \in Frames,
           f.event = Top(t).event, Goto(t, f), UNCHANGED swing
    PROVE  ActiveEvents' = ActiveEvents
  <1>1. Tail(stack[t]) \in Seq(Frames)
    BY DEF IInv, TypeOK
  <1>2. EventsIn(<<f>> \o Tail(stack[t])) = EventsIn(stack[t])
    <2>1. EventsIn(<<f>> \o Tail(stack[t])) = EventsIn(Tail(stack[t])) \cup {f.event}
      BY <1>1, EventsInLists
    <2>2. EventsIn(stack[t]) = EventsIn(Tail(stack[t])) \cup {Top(t).event}
      BY TopIsActive
    <2> QED
      BY <2>1, <2>2
  <1>3. /\ \A u \in Threads : EventsIn(stack'[u]) = EventsIn(stack[u])
        /\ EventsIn(queue') = EventsIn(queue)
    BY <1>2 DEF Goto, swing, IInv, TypeOK
  <1> QED
    BY <1>3 DEF ActiveEvents

LEMMA ReturnEndsOne ==
    ASSUME IInv, NEW t \in Threads, stack[t] # <<>>, Return(t), UNCHANGED swing
    PROVE  ActiveEvents' = ActiveEvents \ {Top(t).event}
  <1>1. /\ \A u \in Threads \ {t} : EventsIn(stack'[u]) = EventsIn(stack[u])
        /\ EventsIn(stack'[t]) = EventsIn(Tail(stack[t]))
        /\ EventsIn(queue') = EventsIn(queue)
    BY DEF Return, swing, IInv, TypeOK
  <1>2. \A e : e \in ActiveEvents' <=>
            e \in EventsIn(queue') \/ \E u \in Threads : e \in EventsIn(stack'[u])
    BY DEF ActiveEvents
  <1> QED
    BY <1>1, <1>2, TopIsActive, ActiveEventsDef

LEMMA EnqueueKeepsActive ==
    ASSUME IInv, NEW t \in Threads, stack[t] # <<>>, NEW f \in Frames,
           f.event = Top(t).event, Return(t), queue' = Append(queue, f)
    PROVE  ActiveEvents' = ActiveEvents
  <1>1. /\ \A u \in Threads \ {t} : EventsIn(stack'[u]) = EventsIn(stack[u])
        /\ EventsIn(stack'[t]) = EventsIn(Tail(stack[t]))
    BY DEF Return, IInv, TypeOK
  <1>2. EventsIn(queue') = EventsIn(queue) \cup {f.event}
    BY EventsInLists DEF IInv, TypeOK
  <1>3. \A e : e \in ActiveEvents' <=>
            e \in EventsIn(queue') \/ \E u \in Threads : e \in EventsIn(stack'[u])
    BY DEF ActiveEvents
  <1>4. EventsIn(stack[t]) = EventsIn(Tail(stack[t])) \cup {f.event}
    BY TopIsActive
  <1>5. \A e : (\E u \in Threads : e \in EventsIn(stack[u])) <=>
            (e = f.event \/ \E u \in Threads : e \in EventsIn(stack'[u]))
    BY <1>1, <1>4
  <1> QED
    BY <1>2, <1>3, <1>5, ActiveEventsDef

LEMMA PushAddsOne ==
    ASSUME IInv, NEW t \in Threads, NEW f \in Frames,
           stack' = [stack EXCEPT ![t] = <<f>> \o @]
    PROVE  /\ queue' = queue => ActiveEvents' = ActiveEvents \cup {f.event}
           /\ queue # <<>> /\ queue' = Tail(queue) /\ f.event = Head(queue).event =>
                  ActiveEvents' = ActiveEvents
  <1>1. /\ \A u \in Threads \ {t} : EventsIn(stack'[u]) = EventsIn(stack[u])
        /\ EventsIn(stack'[t]) = EventsIn(stack[t]) \cup {f.event}
    BY EventsInLists DEF IInv, TypeOK
  <1>2. \A e : e \in ActiveEvents' <=>
            e \in EventsIn(queue') \/ \E u \in Threads : e \in EventsIn(stack'[u])
    BY DEF ActiveEvents
  <1>3. queue # <<>> => EventsIn(queue) = EventsIn(Tail(queue)) \cup {Head(queue).event}
    BY EventsInLists DEF IInv, TypeOK
  <1> QED
    BY <1>1, <1>2, <1>3, ActiveEventsDef
-----------------------------------------------------------------------------
(* The steps of the abstract publication. *)

\* A step within a publication, or in client code.
LEMMA InnerStep ==
    ASSUME ActiveEvents' = ActiveEvents, UNCHANGED <<audience, called>>,
           \A d \in Events \ ActiveEvents : status'[d] = status[d]
    PROVE  UNCHANGED Atomic!apVars
  <1>1. \A d \in Events : Outcome(d)' = Outcome(d)
    BY DEF Outcome
  <1> QED
    BY <1>1 DEF Atomic!apVars

\* publish() returns, or throws.
LEMMA EndStep ==
    ASSUME IInv', NEW e \in Events, e \in ActiveEvents,
           ActiveEvents' = ActiveEvents \ {e}, UNCHANGED <<audience, called>>,
           status'[e] # "Unpublished", \A d \in Events \ {e} : status'[d] = status[d]
    PROVE  Atomic!APNext
  <1>1. \A d \in Events \ {e} : Outcome(d)' = Outcome(d)
    BY DEF Outcome
  <1>2. Outcome(e) = "open" /\ Outcome(e)' = Ending[status'[e]]
    BY DEF Outcome
  <1>3. EventOK(e)'
    BY DEF IInv, EventsOK
  <1>4. /\ status'[e] = "Vetoed" => called[e] = <<>>
        /\ status'[e] = "Completed" => called[e] = audience[e]
    BY <1>3 DEF EventOK
  <1>5. PICK result \in {"vetoed", "completed", "failed"} :
            /\ Outcome(e)' = result
            /\ result = "vetoed" => called[e] = <<>>
            /\ result = "completed" => called[e] = audience[e]
    <2>1. status'[e] \in Statuses \ {"Unpublished"}
      BY DEF IInv, TypeOK
    <2> QED
      BY <1>2, <1>4, <2>1 DEF Ending, Statuses
  <1>6. [d \in Events |-> Outcome(d)'] =
            [[d \in Events |-> Outcome(d)] EXCEPT ![e] = result]
    BY <1>1, <1>5
  <1>7. Atomic!End(e, result)
    BY <1>2, <1>5, <1>6 DEF Atomic!End
  <1> QED
    BY <1>7 DEF Atomic!APNext

\* publish() is called.
LEMMA BeginStep ==
    ASSUME IInv, IInv', NEW t \in Threads, NEW e \in Events, Publish(t, e)
    PROVE  Atomic!APNext
  <1> DEFINE g == [event |-> e, pc |-> "start",
                   todo |-> Snapshot(lists["exact"] \o lists["class"]), veto |-> <<>>]
  <1>1. /\ Unstarted(e) /\ UNCHANGED <<swing, status, called>>
        /\ stack' = [stack EXCEPT ![t] = <<g>> \o @]
        /\ \A d \in Events \ {e} : audience'[d] = audience[d]
    BY DEF Publish, IInv, TypeOK
  <1>2. g \in Frames /\ g.event = e
    <2>1. stack'[t] \in Seq(Frames) /\ stack'[t] = <<g>> \o stack[t] /\ stack[t] \in Seq(Frames)
      BY <1>1 DEF IInv, TypeOK
    <2> HIDE DEF g
    <2>2. stack'[t][1] = g /\ 1 \in 1..Len(stack'[t])
      BY <2>1
    <2> QED
      BY <2>1, <2>2 DEF g
  <1> HIDE DEF g
  <1>3. ActiveEvents' = ActiveEvents \cup {e}
    BY <1>1, <1>2, PushAddsOne DEF swing
  <1>4. Outcome(e) = "none" /\ Outcome(e)' = "open"
    BY <1>1, <1>3 DEF Unstarted, Outcome, Ending
  <1>5. \A d \in Events \ {e} : Outcome(d)' = Outcome(d)
    BY <1>1, <1>3 DEF Outcome
  <1>6. [d \in Events |-> Outcome(d)'] =
            [[d \in Events |-> Outcome(d)] EXCEPT ![e] = "open"]
    BY <1>4, <1>5
  <1>7. audience' \in [Events -> Seq(Subscribers)]
    BY DEF IInv, TypeOK
  <1>8. Atomic!Begin(e)
    BY <1>1, <1>4, <1>6, <1>7 DEF Atomic!Begin
  <1> QED
    BY <1>8 DEF Atomic!APNext

\* A subscriber is called: the next of the audience.
LEMMA CallStep ==
    ASSUME IInv, NEW t \in Threads, CallSubscriber(t)
    PROVE  Atomic!APNext
  <1>1. stack[t] # <<>>
    BY DEF CallSubscriber, At
  <1>2. PICK f \in Consistent, e \in Events :
            /\ f = Top(t) /\ e = f.event /\ f \in Frames
            /\ f.todo \in Seq(Subscribers) /\ called[e] \in Seq(Subscribers)
    BY <1>1, TopFacts
  <1> DEFINE g == [f EXCEPT !.pc = "inSubscriber"]
  <1>3. /\ f.pc = "calling" /\ f.todo # <<>> /\ Goto(t, g)
        /\ called' = [called EXCEPT ![e] = Append(@, Head(f.todo))]
        /\ UNCHANGED <<swing, status, audience>>
    BY <1>2 DEF CallSubscriber, At
  <1>4. called[e] \o f.todo = audience[e]
    BY <1>2, <1>3 DEF Consistent
  <1>5. /\ Len(called[e]) < Len(audience[e])
        /\ Head(f.todo) = audience[e][Len(called[e]) + 1]
    <2> DEFINE c == called[e]
               r == f.todo
    <2>1. c \in Seq(Subscribers) /\ r \in Seq(Subscribers) /\ r # <<>> /\ c \o r = audience[e]
      BY <1>2, <1>3, <1>4
    <2> HIDE DEF c, r
    <2>2. /\ Len(c) \in Nat /\ Len(r) \in Nat \ {0} /\ Head(r) = r[1]
          /\ Len(c \o r) = Len(c) + Len(r)
      <3>1. Len(c) \in Nat /\ Len(r) \in Nat \ {0} /\ Head(r) = r[1]
        BY <2>1
      <3>2. Len(c \o r) = Len(c) + Len(r)
        BY <2>1, ConcatProperties
      <3> QED
        BY <3>1, <3>2
    <2>3. (c \o r)[Len(c) + 1] = r[1]
      BY <2>1, <2>2
    <2>4. Len(c) < Len(c \o r)
      BY <2>2
    <2> QED
      BY <2>1, <2>2, <2>3, <2>4 DEF c, r
  <1>6. g \in Frames /\ g.event = e
    BY <1>2 DEF Frames, Points
  <1> HIDE DEF g
  <1>7. ActiveEvents' = ActiveEvents
    BY <1>1, <1>2, <1>3, <1>6, GotoKeepsActive
  <1>8. e \in ActiveEvents
    BY <1>1, <1>2, TopIsActive
  <1>9. Outcome(e) = "open" /\ \A d \in Events : Outcome(d)' = Outcome(d)
    BY <1>3, <1>7, <1>8 DEF Outcome
  <1>10. called' = [called EXCEPT ![e] = Append(@, audience[e][Len(@) + 1])]
    BY <1>3, <1>5
  <1>11. Atomic!CallNext(e)
    BY <1>3, <1>5, <1>9, <1>10 DEF Atomic!CallNext
  <1> QED
    BY <1>11 DEF Atomic!APNext

LEMMA ReturnStep ==
    ASSUME IInv, IInv', NEW t \in Threads,
           \/ Veto(t) \/ CallbackThrows(t) \/ Complete(t)
           \/ AddEventToCache(t) /\ Top(t).todo = <<>>
    PROVE  Atomic!APNext
  <1>1. /\ stack[t] # <<>> /\ Return(t) /\ UNCHANGED <<swing, audience, called>>
        /\ ~ At(t, "start")
    BY DEF Veto, CallbackThrows, Complete, AddEventToCache, At, history
  <1>2. PICK f \in Consistent, e \in Events : f = Top(t) /\ e = f.event
    BY <1>1, TopFacts
  <1>3. ActiveEvents' = ActiveEvents \ {e} /\ e \in ActiveEvents
    BY <1>1, <1>2, ReturnEndsOne, TopIsActive
  <1>4. f.pc \in Points \ {"start"} /\ status[e] # "Unpublished"
    BY <1>1, <1>2 DEF At, Consistent, Frames, Points
  <1>5. /\ status'[e] # "Unpublished"
        /\ \A d \in Events \ {e} : status'[d] = status[d]
    BY <1>2, <1>4 DEF Veto, CallbackThrows, Complete, AddEventToCache, Stamp, IInv, TypeOK
  <1> QED
    BY <1>1, <1>3, <1>5, EndStep

\* Steps that leave the activations as they are, or move one, with its event.
LEMMA MoveStep ==
    ASSUME IInv, IInv', NEW t \in Threads,
           \/ Initiate(t) \/ Dispatch(t) \/ AskVetoer(t) \/ PassVeto(t) \/ Queue(t)
           \/ AddEventToCache(t) /\ Top(t).todo # <<>>
           \/ SubscriberReturns(t)
    PROVE  UNCHANGED Atomic!apVars
  <1>1. UNCHANGED <<audience, called>>
    BY DEF Initiate, Dispatch, AskVetoer, PassVeto, Queue, AddEventToCache,
           SubscriberReturns, history
  <1>2. ASSUME stack[t] # <<>>, NEW f, Goto(t, f), f.event = Top(t).event, UNCHANGED swing,
               \A d \in Events \ {f.event} : status'[d] = status[d]
        PROVE  UNCHANGED Atomic!apVars
    <2>1. f \in Frames
      <3>1. stack'[t] = <<f>> \o Tail(stack[t]) /\ stack'[t] \in Seq(Frames)
            /\ Tail(stack[t]) \in Seq(Frames)
        BY <1>2 DEF Goto, IInv, TypeOK
      <3>2. stack'[t][1] = f /\ 1 \in 1..Len(stack'[t])
        BY <3>1
      <3> QED
        BY <3>1, <3>2
    <2>2. ActiveEvents' = ActiveEvents /\ f.event \in ActiveEvents
      BY <1>2, <2>1, GotoKeepsActive, TopIsActive
    <2> QED
      BY <1>1, <1>2, <2>2, InnerStep
  <1>3. CASE AskVetoer(t) \/ PassVeto(t) \/ Queue(t) \/ SubscriberReturns(t)
    <2>1. stack[t] # <<>>
      BY <1>3 DEF AskVetoer, PassVeto, Queue, SubscriberReturns, At
    <2>2. Top(t) \in Frames
      BY <2>1, TopIsActive
    <2>3. PICK f : Goto(t, f) /\ f.event = Top(t).event
      <3>1. /\ [Top(t) EXCEPT !.pc = "inVetoer"].event = Top(t).event
            /\ [Top(t) EXCEPT !.pc = "vetoing", !.veto = Tail(@)].event = Top(t).event
            /\ [Top(t) EXCEPT !.pc = "queued"].event = Top(t).event
            /\ [Top(t) EXCEPT !.pc = "calling", !.todo = Tail(@)].event = Top(t).event
        BY <2>2 DEF Frames
      <3>2. CASE AskVetoer(t)
        BY <3>1, <3>2 DEF AskVetoer
      <3>3. CASE PassVeto(t)
        BY <3>1, <3>3 DEF PassVeto
      <3>4. CASE Queue(t)
        BY <3>1, <3>4 DEF Queue
      <3>5. CASE SubscriberReturns(t)
        BY <3>1, <3>5 DEF SubscriberReturns
      <3> QED
        BY <1>3, <3>2, <3>3, <3>4, <3>5
    <2>4. UNCHANGED swing /\ \A d \in Events \ {Top(t).event} : status'[d] = status[d]
      BY <1>3 DEF AskVetoer, PassVeto, Queue, SubscriberReturns, Stamp, IInv, TypeOK
    <2> QED
      BY <1>2, <2>1, <2>3, <2>4
  <1>4. CASE AddEventToCache(t) /\ Top(t).todo # <<>>
    <2>1. stack[t] # <<>>
      BY <1>4 DEF AddEventToCache, At
    <2>2. Top(t) \in Frames
      BY <2>1, TopIsActive
    <2>3. PICK f : Goto(t, f) /\ f.event = Top(t).event
      BY <1>4, <2>2 DEF AddEventToCache, Frames
    <2>4. UNCHANGED swing /\ \A d \in Events \ {Top(t).event} : status'[d] = status[d]
      BY <1>4 DEF AddEventToCache, Stamp, IInv, TypeOK
    <2> QED
      BY <1>2, <2>1, <2>3, <2>4
  <1>5. CASE Initiate(t)
    <2>1. stack[t] # <<>>
      BY <1>5 DEF Initiate, At
    <2>2. Top(t) \in Frames
      BY <2>1, TopIsActive
    <2>3. CASE edt \in {t, Null}
      <3> DEFINE g == [[Top(t) EXCEPT !.veto = Snapshot(vetoers)] EXCEPT !.pc = "vetoing"]
      <3>1. PICK f : Goto(t, f) /\ f.event = Top(t).event
        <4>1. g.event = Top(t).event
          BY <2>2 DEF Frames
        <4>2. Goto(t, g)
          BY <1>5, <2>3 DEF Initiate
        <4> QED
          BY <4>1, <4>2
      <3>2. UNCHANGED swing /\ \A d \in Events \ {Top(t).event} : status'[d] = status[d]
        BY <1>5, <2>3 DEF Initiate, Stamp, swing, IInv, TypeOK
      <3> QED
        BY <1>2, <2>1, <3>1, <3>2
    <2>4. CASE edt \notin {t, Null}
      <3> DEFINE f == [Top(t) EXCEPT !.veto = Snapshot(vetoers)]
      <3>1. Return(t) /\ queue' = Append(queue, f) /\ UNCHANGED status
        BY <1>5, <2>4 DEF Initiate
      <3>2. f \in Frames /\ f.event = Top(t).event
        <4>1. Snapshot(vetoers) \in Seq(Vetoers)
          BY SnapshotType DEF IInv, TypeOK, Ranked
        <4> QED
          BY <2>2, <4>1 DEF Frames
      <3> HIDE DEF f
      <3>3. ActiveEvents' = ActiveEvents
        BY <2>1, <3>1, <3>2, EnqueueKeepsActive
      <3> QED
        BY <1>1, <3>1, <3>3, InnerStep
    <2> QED
      BY <2>3, <2>4
  <1>6. CASE Dispatch(t)
    <2> DEFINE f == [Head(queue) EXCEPT !.pc = "vetoing"]
    <2>1. /\ queue # <<>> /\ queue' = Tail(queue)
          /\ stack' = [stack EXCEPT ![t] = <<f>> \o @]
          /\ Stamp(Head(queue).event, "Initiated")
      BY <1>6 DEF Dispatch
    <2>2. Head(queue) \in Frames /\ queue \in Seq(Frames) /\ Head(queue) = queue[1]
          /\ 1 \in 1..Len(queue)
      BY <2>1 DEF IInv, TypeOK
    <2>3. f \in Frames /\ f.event = Head(queue).event
      BY <2>2 DEF Frames, Points
    <2> HIDE DEF f
    <2>4. ActiveEvents' = ActiveEvents
      BY <2>1, <2>3, PushAddsOne
    <2>5. Head(queue).event \in ActiveEvents
      BY <2>2, ActiveEventsDef DEF EventsIn
    <2>6. \A d \in Events \ ActiveEvents : status'[d] = status[d]
      BY <2>1, <2>5 DEF Stamp, IInv, TypeOK
    <2> QED
      BY <1>1, <2>4, <2>6, InnerStep
  <1> QED
    BY <1>3, <1>4, <1>5, <1>6

\* Subscriptions, and the cleanup task taking and leaving the lock.
LEMMA OtherStep ==
    ASSUME NEW t \in Threads,
           \/ \E m \in Maps, s \in Subscribers : Subscribe(t, m, s) \/ Unsubscribe(t, m, s)
           \/ \E v \in Vetoers : SubscribeVetoListener(t, v) \/ UnsubscribeVetoListener(t, v)
           \/ BeginCleanup(t) \/ EndCleanup(t)
    PROVE  UNCHANGED Atomic!apVars
  <1>1. UNCHANGED <<queue, stack, status, audience, called>>
    BY DEF Subscribe, Unsubscribe, SubscribeVetoListener, UnsubscribeVetoListener,
           BeginCleanup, EndCleanup, swing, history
  <1>2. ActiveEvents' = ActiveEvents
    BY <1>1 DEF ActiveEvents
  <1> QED
    BY <1>1, <1>2, InnerStep

\* Whatever the threads do, for its events the publication is the abstract one: an
\* audience fixed at once, a veto before anyone is called, each of the audience called
\* in order and once, completed after the last and then left alone.
THEOREM PublicationRefines == Spec => RefinesAtomicPublication
  <1>1. Init => Atomic!APInit
    <2> SUFFICES ASSUME Init
                 PROVE  Atomic!APInit
      OBVIOUS
    <2>1. ActiveEvents = {}
      BY DEF Init, ActiveEvents, EventsIn
    <2>2. [e \in Events |-> Outcome(e)] = [e \in Events |-> "none"]
      BY <2>1 DEF Init, Outcome, Ending
    <2> QED
      BY <2>2 DEF Init, Atomic!APInit
  <1>2. IInv /\ IInv' /\ [Next]_vars => [Atomic!APNext]_Atomic!apVars
    <2> SUFFICES ASSUME IInv, IInv', [Next]_vars
                 PROVE  Atomic!APNext \/ UNCHANGED Atomic!apVars
      OBVIOUS
    <2>1. ASSUME NEW t \in Threads,
                 \/ Veto(t) \/ CallbackThrows(t) \/ Complete(t)
                 \/ AddEventToCache(t) /\ Top(t).todo = <<>>
          PROVE  Atomic!APNext
      BY <2>1, ReturnStep
    <2>2. ASSUME NEW t \in Threads, NEW e \in Events, Publish(t, e)
          PROVE  Atomic!APNext
      BY <2>2, BeginStep
    <2>3. ASSUME NEW t \in Threads, CallSubscriber(t)
          PROVE  Atomic!APNext
      BY <2>3, CallStep
    <2>4. ASSUME NEW t \in Threads,
                 \/ Initiate(t) \/ Dispatch(t) \/ AskVetoer(t) \/ PassVeto(t) \/ Queue(t)
                 \/ AddEventToCache(t) /\ Top(t).todo # <<>>
                 \/ SubscriberReturns(t)
          PROVE  UNCHANGED Atomic!apVars
      BY <2>4, MoveStep
    <2>5. ASSUME NEW t \in Threads,
                 \/ \E m \in Maps, s \in Subscribers : Subscribe(t, m, s) \/ Unsubscribe(t, m, s)
                 \/ \E v \in Vetoers :
                        SubscribeVetoListener(t, v) \/ UnsubscribeVetoListener(t, v)
                 \/ BeginCleanup(t) \/ EndCleanup(t)
          PROVE  UNCHANGED Atomic!apVars
      BY <2>5, OtherStep
    <2>6. CASE UNCHANGED vars
      <3>1. UNCHANGED <<queue, stack, status, audience, called>>
        BY <2>6 DEF vars, swing, history
      <3>2. ActiveEvents' = ActiveEvents
        BY <3>1 DEF ActiveEvents
      <3> QED
        BY <3>1, <3>2, InnerStep
    <2> QED
      BY <2>1, <2>2, <2>3, <2>4, <2>5, <2>6 DEF Next, Proceed, ClientStep
  <1> QED
    BY <1>1, <1>2, AlwaysIInv, PTL DEF Spec, RefinesAtomicPublication, Atomic!APSpec
=============================================================================
