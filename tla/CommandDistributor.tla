--------------------------- MODULE CommandDistributor ---------------------------
(***************************************************************************)
(* CommandDistributor: handlers are registered for a command class by      *)
(* subscriptions to exactly that class of an EventService, and a command   *)
(* is sent by publishing it.  Each call makes several calls of the service *)
(* without a lock around them.  The service is one that publishes at once  *)
(* (ThreadSafeEventService).  The module is about the commands of one      *)
(* class; "exact" and "inherited" are the service's two subscription lists *)
(* that concern it, taken as sets: the order of the calls is the subject   *)
(* of Publication, and anybody may be first here.  "vetoing" are the veto  *)
(* listeners that concern the class: other clients', as the distributor    *)
(* has none.                                                               *)
(*                                                                         *)
(* Subscriptions are weak: a handler that nobody refers to is collected,   *)
(* and is gone from the lists.  AnnotatedCommandHandlerRegistrar registers *)
(* handlers (Anonymous) to which it keeps no reference.  Other clients of  *)
(* the service subscribe to the class, themselves or by a ProxySubscriber. *)
(***************************************************************************)
EXTENDS Integers, FiniteSets

CONSTANTS
    Threads,
    Commands,
    Handlers,
    Anonymous,    \* the handlers that createSubscriber() makes
    Proxied,      \* Proxied[h]: whom h is a proxy of, Null if it is no ProxySubscriber
    Vetoers,
    Null

Proxies == {h \in Handlers : Proxied[h] # Null}

ASSUME DistributorAssumption ==
    /\ Proxied \in [Handlers -> Handlers \cup {Null}]
    /\ Null \notin Handlers \cup Vetoers
    /\ Anonymous \subseteq Handlers \ Proxies

VARIABLES
    exact,        \* the subscribers of subscribersByExactEventClass
    inherited,    \* those of subscribersByEventClass
    vetoing,      \* the veto listeners subscribed to the class, in either way
    held,         \* the handlers that someone outside the service refers to
    collected,    \* the handlers the garbage collector has taken
    call,         \* call[t]: the call that t is making
    outcome,      \* outcome[m]: how far the sending of command m has come
    \* history variables
    known,        \* the handlers whose register() has returned
    owed,         \* owed[m]: known when send(m) was called
    seen,         \* seen[m]: the subscribers that send(m) counted
    called,       \* called[m]: the handlers called with m
    objector      \* objector[m]: the veto listener that vetoed m, or Null

history == <<known, owed, seen, called, objector>>
vars == <<exact, inherited, vetoing, held, collected, call, outcome, history>>

Idle == [op |-> "none"]
Calls == [op : {"register"}, handler : Handlers, todo : SUBSET Handlers]
         \cup [op : {"send"}, command : Commands]
         \cup [op : {"publish"}, command : Commands, todo : SUBSET Handlers]
         \cup [op : {"ask"}, command : Commands, todo : SUBSET Handlers,
               judges : (SUBSET Vetoers) \ {{}}]
         \cup [op : {"deliver"}, command : Commands, todo : (SUBSET Handlers) \ {{}}]

\* What the sender knows: NoHandlerForCommandException ("refused"), a normal return, or
\* the exception of a handler or a veto listener ("failed").
Outcomes == {"unsent", "sending", "refused", "returned", "failed"}

TypeOK ==
    /\ exact \subseteq Handlers /\ inherited \subseteq Handlers /\ vetoing \subseteq Vetoers
    /\ held \subseteq Handlers /\ collected \subseteq Handlers
    /\ call \in [Threads -> Calls \cup {Idle}]
    /\ outcome \in [Commands -> Outcomes]
    /\ known \subseteq Handlers
    /\ owed \in [Commands -> SUBSET Handlers] /\ seen \in [Commands -> SUBSET Handlers]
    /\ called \in [Commands -> SUBSET Handlers]
    /\ objector \in [Commands -> Vetoers \cup {Null}]
-----------------------------------------------------------------------------
Goto(t, c) == call' = [call EXCEPT ![t] = c]
Set(m, o) == outcome' = [outcome EXCEPT ![m] = o]

\* getSubscribers(Class): without the entries that the garbage collector has cleared.
Live(S) == {h \in S : {h, Proxied[h]} \cap collected = {}}
Subscribers == Live(exact) \cup Live(inherited)

\* register() makes a call of unsubscribe for each subscriber it finds, and the compiler
\* takes the one that is given an object subscribed by proxy.
Register(t, h) ==
    /\ call[t] = Idle /\ h \notin collected \cup Proxies
    /\ h \in Anonymous => h \notin held
    /\ held' = held \cup {h}
    /\ Goto(t, [op |-> "register", handler |-> h, todo |-> Subscribers])
    /\ UNCHANGED <<exact, inherited, vetoing, collected, outcome, history>>

\* Mutant of UnsubscribeByProxy: the handler itself is unsubscribed.
UnsubscribeExactly(h) ==
    /\ exact' = exact \ {h}
    /\ UNCHANGED inherited

\* unsubscribe(Class, Object): a ProxySubscriber of h is unsubscribed from the class.
UnsubscribeByProxy(h) ==
    LET proxies == {x \in Subscribers : Proxied[x] = h}
    IN /\ IF proxies = {}
          THEN UNCHANGED inherited
          ELSE \E x \in proxies : inherited' = inherited \ {x}
       /\ UNCHANGED exact

Displace(t, h) ==
    /\ call[t].op = "register" /\ h \in call[t].todo
    /\ UnsubscribeByProxy(h)
    /\ Goto(t, [call[t] EXCEPT !.todo = @ \ {h}])
    /\ UNCHANGED <<vetoing, held, collected, outcome, history>>

\* subscribeExactly, the end of register().
SubscribeExactly(t) ==
    /\ call[t].op = "register" /\ call[t].todo = {}
    /\ exact' = exact \cup {call[t].handler}
    /\ known' = known \cup {call[t].handler}
    /\ held' = held \ (Anonymous \cap {call[t].handler})
    /\ Goto(t, Idle)
    /\ UNCHANGED <<inherited, vetoing, collected, outcome, owed, seen, called, objector>>

\* unregister(): unsubscribe(Class, EventSubscriber) looks in the other list.
Unregister(t, h) ==
    /\ call[t] = Idle /\ h \in held /\ h \in inherited
    /\ inherited' = inherited \ {h}
    /\ UNCHANGED <<exact, vetoing, held, collected, call, outcome, history>>

\* Mutant of Send: the command is published whether or not anybody handles it.
SendUnchecked(t, m) ==
    /\ call[t] = Idle /\ outcome[m] = "unsent"
    /\ owed' = [owed EXCEPT ![m] = known]
    /\ Set(m, "sending") /\ Goto(t, [op |-> "send", command |-> m])
    /\ UNCHANGED <<exact, inherited, vetoing, held, collected, known, seen, called, objector>>

\* send(): the check, which throws NoHandlerForCommandException.
Send(t, m) ==
    /\ call[t] = Idle /\ outcome[m] = "unsent"
    /\ owed' = [owed EXCEPT ![m] = known]
    /\ seen' = [seen EXCEPT ![m] = Subscribers]
    /\ IF Subscribers = {}
       THEN Set(m, "refused") /\ UNCHANGED call
       ELSE Set(m, "sending") /\ Goto(t, [op |-> "send", command |-> m])
    /\ UNCHANGED <<exact, inherited, vetoing, held, collected, known, called, objector>>

\* publish(): its own snapshot of the subscribers, which holds them from now on.
Publish(t) ==
    /\ call[t].op = "send"
    /\ Goto(t, [op |-> "publish", command |-> call[t].command, todo |-> Subscribers])
    /\ UNCHANGED <<exact, inherited, vetoing, held, collected, outcome, history>>

\* send() ends, normally or by an exception that publish() passes on.
Ends(t, o) == Set(call[t].command, o) /\ Goto(t, Idle)

\* checkVetoSubscribers() and what follows it, when those in J have still to be asked.
GoOn(t, J) ==
    LET m == call[t].command
        subscribers == call[t].todo
    IN \/ /\ J # {}
          /\ Goto(t, [op |-> "ask", command |-> m, todo |-> subscribers, judges |-> J])
          /\ UNCHANGED outcome
       \/ /\ J = {} /\ subscribers # {}
          /\ Goto(t, [op |-> "deliver", command |-> m, todo |-> subscribers])
          /\ UNCHANGED outcome
       \/ J = {} /\ subscribers = {} /\ Ends(t, "returned")

\* The snapshot of the veto listeners, in a critical section of its own.
GetVetoSubscribers(t) ==
    /\ call[t].op = "publish"
    /\ GoOn(t, vetoing)
    /\ UNCHANGED <<exact, inherited, vetoing, held, collected, history>>

PassVeto(t, v) ==
    /\ call[t].op = "ask" /\ v \in call[t].judges
    /\ GoOn(t, call[t].judges \ {v})
    /\ UNCHANGED <<exact, inherited, vetoing, held, collected, history>>

\* A veto: publish() returns, and send() with it, as if the command had been delivered.
Veto(t, v) ==
    /\ call[t].op = "ask" /\ v \in call[t].judges
    /\ objector' = [objector EXCEPT ![call[t].command] = v]
    /\ Ends(t, "returned")
    /\ UNCHANGED <<exact, inherited, vetoing, held, collected, known, owed, seen, called>>

\* A veto listener throws: so does send(), with an EventBusException.
VetoerThrows(t, v) ==
    /\ call[t].op = "ask" /\ v \in call[t].judges
    /\ Ends(t, "failed")
    /\ UNCHANGED <<exact, inherited, vetoing, held, collected, history>>

\* Mutant of CallHandler: the loop runs on when the last has been called.
CallHandlerOn(t, h) ==
    /\ call[t].op = "deliver" /\ h \in call[t].todo
    /\ called' = [called EXCEPT ![call[t].command] = @ \cup {h}]
    /\ Goto(t, [call[t] EXCEPT !.todo = @ \ {h}])
    /\ UNCHANGED <<exact, inherited, vetoing, held, collected, outcome>>
    /\ UNCHANGED <<known, owed, seen, objector>>

\* A handler is called and returns; the last one ends the call.
CallHandler(t, h) ==
    /\ call[t].op = "deliver" /\ h \in call[t].todo
    /\ called' = [called EXCEPT ![call[t].command] = @ \cup {h}]
    /\ IF call[t].todo = {h}
       THEN Ends(t, "returned")
       ELSE Goto(t, [call[t] EXCEPT !.todo = @ \ {h}]) /\ UNCHANGED outcome
    /\ UNCHANGED <<exact, inherited, vetoing, held, collected, known, owed, seen, objector>>

\* A handler throws: send() throws an EventBusException, the others are not called.
HandlerThrows(t, h) ==
    /\ call[t].op = "deliver" /\ h \in call[t].todo
    /\ called' = [called EXCEPT ![call[t].command] = @ \cup {h}]
    /\ Ends(t, "failed")
    /\ UNCHANGED <<exact, inherited, vetoing, held, collected, known, owed, seen, objector>>

\* External: another client of the service subscribes to the class.
Subscribe(h) ==
    /\ h \notin Anonymous /\ {h, Proxied[h]} \cap collected = {} /\ h \notin inherited
    /\ inherited' = inherited \cup {h}
    /\ held' = held \cup {h}
    /\ UNCHANGED <<exact, vetoing, collected, call, outcome, history>>

\* External: another client subscribes a veto listener, or one goes.
ChangeVetoing(v) ==
    /\ vetoing' = IF v \in vetoing THEN vetoing \ {v} ELSE vetoing \cup {v}
    /\ UNCHANGED <<exact, inherited, held, collected, call, outcome, history>>

\* External: the last reference to a handler outside the service is dropped.
Drop(h) ==
    /\ h \in held \ Proxies
    /\ \A t \in Threads : call[t].op = "register" => call[t].handler # h
    /\ held' = held \ {h}
    /\ UNCHANGED <<exact, inherited, vetoing, collected, call, outcome, history>>

\* External: the garbage collector takes a handler that no snapshot holds; a proxy does not hold its own.
Collect(h) ==
    /\ h \in Subscribers \ (held \cup Proxies)
    /\ \A t \in Threads : call[t].op \notin {"none", "send"} => h \notin call[t].todo
    /\ collected' = collected \cup {h}
    /\ UNCHANGED <<exact, inherited, vetoing, held, call, outcome, history>>

Init ==
    /\ exact = {} /\ inherited = {} /\ vetoing = {}
    /\ held = {} /\ collected = {} /\ known = {}
    /\ call = [t \in Threads |-> Idle]
    /\ outcome = [m \in Commands |-> "unsent"]
    /\ owed = [m \in Commands |-> {}] /\ seen = [m \in Commands |-> {}]
    /\ called = [m \in Commands |-> {}] /\ objector = [m \in Commands |-> Null]

Next ==
    \/ \E t \in Threads :
           \/ \E h \in Handlers :
                  \/ Register(t, h) \/ Displace(t, h) \/ Unregister(t, h)
                  \/ CallHandler(t, h) \/ HandlerThrows(t, h)
           \/ \E m \in Commands : Send(t, m)
           \/ \E v \in Vetoers : PassVeto(t, v) \/ Veto(t, v) \/ VetoerThrows(t, v)
           \/ SubscribeExactly(t) \/ Publish(t) \/ GetVetoSubscribers(t)
    \/ \E h \in Handlers : Subscribe(h) \/ Drop(h) \/ Collect(h)
    \/ \E v \in Vetoers : ChangeVetoing(v)

Spec == Init /\ [][Next]_vars
-----------------------------------------------------------------------------
(***************************************************************************)
(* Properties.                                                             *)
(***************************************************************************)

\* When send() has returned or has refused a command, and no veto listener vetoed it, every
\* handler registered before has been called with it or has been collected: those that a
\* later register() was to replace and those unregistered are called too.  A vetoed command
\* has been given to nobody, although send() returned.
OwedAreCalled ==
    \A m \in Commands :
        outcome[m] \in {"refused", "returned"} =>
            IF objector[m] = Null
            THEN owed[m] \subseteq called[m] \cup collected
            ELSE called[m] = {}

\* A command is lost, that is send() returns normally and nobody has been called, only if
\* there was a subscriber when it counted, and then a veto listener vetoed the command, or
\* whoever of those counted had been registered has been collected since; the others have
\* unsubscribed or been displaced.
LostOnlyAfterTheCheck ==
    \A m \in Commands :
        outcome[m] = "returned" /\ called[m] = {} =>
            /\ seen[m] # {}
            /\ objector[m] # Null \/ seen[m] \cap owed[m] \subseteq collected
=============================================================================
