------------------------ MODULE CommandDistributorProofs ------------------------
(* Proofs about CommandDistributor, for every value of its constants. *)
EXTENDS CommandDistributor, TLAPS

\* The calls of a thread, by kind; only these have the fields that the actions use.
LEMMA CallKinds ==
    ASSUME TypeOK, NEW t \in Threads
    PROVE  /\ call[t].op = "register" => call[t].handler \in Handlers
                                         /\ call[t].todo \subseteq Handlers
           /\ call[t].op = "send" => call[t].command \in Commands
           /\ call[t].op \in {"publish", "ask", "deliver"} =>
                 call[t].command \in Commands /\ call[t].todo \subseteq Handlers
           /\ call[t].op = "deliver" => call[t].todo # {}
           /\ call[t].op = "ask" => call[t].judges \subseteq Vetoers
BY DEF TypeOK, Calls, Idle

\* What follows the snapshot of veto listeners, or the return of one, has its type.
LEMMA GoOnType ==
    ASSUME TypeOK, NEW t \in Threads, NEW J \in SUBSET Vetoers, GoOn(t, J),
           call[t].command \in Commands, call[t].todo \subseteq Handlers
    PROVE  /\ call' \in [Threads -> Calls \cup {Idle}]
           /\ outcome' \in [Commands -> Outcomes]
<1>. DEFINE m == call[t].command
            subscribers == call[t].todo
<1>1. CASE J # {}
  <2>1. [op |-> "ask", command |-> m, todo |-> subscribers, judges |-> J] \in Calls
    BY <1>1 DEF Calls
  <2>. QED BY <1>1, <2>1 DEF GoOn, Goto, TypeOK
<1>2. CASE J = {} /\ subscribers # {}
  <2>1. [op |-> "deliver", command |-> m, todo |-> subscribers] \in Calls
    BY <1>2 DEF Calls
  <2>. QED BY <1>2, <2>1 DEF GoOn, Goto, TypeOK
<1>3. CASE J = {} /\ subscribers = {}
  BY <1>3 DEF GoOn, Ends, Goto, Set, TypeOK, Outcomes
<1>. QED BY <1>1, <1>2, <1>3

\* Type correctness: no call of register(), unregister() or send(), in any interleaving
\* with each other and with the garbage collector, leaves the types of the variables.
THEOREM TypeCorrect == Spec => []TypeOK
<1>1. Init => TypeOK
  BY DEF Init, TypeOK, Idle, Outcomes
<1>2. TypeOK /\ [Next]_vars => TypeOK'
  <2> SUFFICES ASSUME TypeOK, [Next]_vars
               PROVE  TypeOK'
    OBVIOUS
  <2> USE DEF TypeOK, Goto, Set, Ends, history
  <2>0. Subscribers \subseteq Handlers
    BY DEF Subscribers, Live
  <2>1. ASSUME NEW t \in Threads, NEW h \in Handlers, Register(t, h)
        PROVE  TypeOK'
    <3>1. [op |-> "register", handler |-> h, todo |-> Subscribers] \in Calls
      BY <2>0 DEF Calls
    <3>. QED BY <2>1, <3>1 DEF Register
  <2>2. ASSUME NEW t \in Threads, NEW h \in Handlers, Displace(t, h)
        PROVE  TypeOK'
    <3>1. [call[t] EXCEPT !.todo = @ \ {h}] \in Calls
      BY <2>2 DEF Displace, Calls, Idle
    <3>2. inherited' \subseteq Handlers /\ exact' = exact
      BY <2>2 DEF Displace, UnsubscribeByProxy
    <3>. QED BY <2>2, <3>1, <3>2 DEF Displace
  <2>3. ASSUME NEW t \in Threads, NEW h \in Handlers, Unregister(t, h)
        PROVE  TypeOK'
    BY <2>3 DEF Unregister
  <2>4. ASSUME NEW t \in Threads, NEW h \in Handlers, CallHandler(t, h)
        PROVE  TypeOK'
    <3>1. call[t].command \in Commands
      BY <2>4, CallKinds DEF CallHandler
    <3>2. call[t].todo # {h} => [call[t] EXCEPT !.todo = @ \ {h}] \in Calls
      BY <2>4 DEF CallHandler, Calls, Idle
    <3>3. call' \in [Threads -> Calls \cup {Idle}]
      BY <2>4, <3>2 DEF CallHandler
    <3>4. outcome' \in [Commands -> Outcomes]
      BY <2>4, <3>1 DEF CallHandler, Outcomes
    <3>. QED BY <2>4, <3>1, <3>3, <3>4 DEF CallHandler
  <2>5. ASSUME NEW t \in Threads, NEW h \in Handlers, HandlerThrows(t, h)
        PROVE  TypeOK'
    <3>1. call[t].command \in Commands
      BY <2>5, CallKinds DEF HandlerThrows
    <3>. QED BY <2>5, <3>1 DEF HandlerThrows, Outcomes
  <2>6. ASSUME NEW t \in Threads, NEW m \in Commands, Send(t, m)
        PROVE  TypeOK'
    <3>1. [op |-> "send", command |-> m] \in Calls
      BY DEF Calls
    <3>2. outcome' \in [Commands -> Outcomes] /\ call' \in [Threads -> Calls \cup {Idle}]
      BY <2>6, <3>1 DEF Send, Outcomes
    <3>. QED BY <2>0, <2>6, <3>2 DEF Send
  <2>7. ASSUME NEW t \in Threads, SubscribeExactly(t)
        PROVE  TypeOK'
    <3>1. call[t].handler \in Handlers
      BY <2>7, CallKinds DEF SubscribeExactly
    <3>. QED BY <2>7, <3>1 DEF SubscribeExactly
  <2>8. ASSUME NEW t \in Threads, Publish(t)
        PROVE  TypeOK'
    <3>1. call[t].command \in Commands
      BY <2>8, CallKinds DEF Publish
    <3>2. [op |-> "publish", command |-> call[t].command, todo |-> Subscribers] \in Calls
      BY <2>0, <3>1 DEF Calls
    <3>. QED BY <2>8, <3>2 DEF Publish
  <2>9. ASSUME NEW h \in Handlers, Subscribe(h) \/ Drop(h) \/ Collect(h)
        PROVE  TypeOK'
    BY <2>9 DEF Subscribe, Drop, Collect
  <2>10. CASE UNCHANGED vars
    BY <2>10 DEF vars
  <2>11. ASSUME NEW t \in Threads, GetVetoSubscribers(t)
         PROVE  TypeOK'
    <3>1. call[t].command \in Commands /\ call[t].todo \subseteq Handlers
      BY <2>11, CallKinds DEF GetVetoSubscribers
    <3>2. vetoing \in SUBSET Vetoers /\ GoOn(t, vetoing)
      BY <2>11 DEF GetVetoSubscribers
    <3>3. call' \in [Threads -> Calls \cup {Idle}] /\ outcome' \in [Commands -> Outcomes]
      BY <3>1, <3>2, GoOnType
    <3>. QED BY <2>11, <3>3 DEF GetVetoSubscribers
  <2>12. ASSUME NEW t \in Threads, NEW v \in Vetoers, PassVeto(t, v)
         PROVE  TypeOK'
    <3>1. call[t].command \in Commands /\ call[t].todo \subseteq Handlers
      BY <2>12, CallKinds DEF PassVeto
    <3>2. call[t].judges \ {v} \in SUBSET Vetoers /\ GoOn(t, call[t].judges \ {v})
      BY <2>12, CallKinds DEF PassVeto
    <3>3. call' \in [Threads -> Calls \cup {Idle}] /\ outcome' \in [Commands -> Outcomes]
      BY <3>1, <3>2, GoOnType
    <3>. QED BY <2>12, <3>3 DEF PassVeto
  <2>13. ASSUME NEW t \in Threads, NEW v \in Vetoers, Veto(t, v) \/ VetoerThrows(t, v)
         PROVE  TypeOK'
    <3>1. call[t].command \in Commands
      BY <2>13, CallKinds DEF Veto, VetoerThrows
    <3>. QED BY <2>13, <3>1 DEF Veto, VetoerThrows, Outcomes
  <2>14. ASSUME NEW v \in Vetoers, ChangeVetoing(v)
         PROVE  TypeOK'
    BY <2>14 DEF ChangeVetoing
  <2>. QED
    BY <2>1, <2>2, <2>3, <2>4, <2>5, <2>6, <2>7, <2>8, <2>9, <2>10, <2>11, <2>12,
       <2>13, <2>14 DEF Next
<1>. QED BY <1>1, <1>2, PTL DEF Spec
-----------------------------------------------------------------------------
(***************************************************************************)
(* The inductive invariant of OwedAreCalled and LostOnlyAfterTheCheck.     *)
(***************************************************************************)

\* register() is for handlers, not proxies, and what it has subscribed stays in the map.
Registered ==
    /\ known \subseteq exact
    /\ known \cap Proxies = {}
    /\ \A t \in Threads : call[t].op = "register" => call[t].handler \notin Proxies

\* A command that is being sent has not been sent before, has been counted for, and until it
\* is delivered nobody has been called with it; only one that has returned was vetoed.  No
\* two threads send one command.
OnItsWay == {"send", "publish", "ask", "deliver"}
Sending ==
    /\ \A t \in Threads :
           /\ call[t].op \in OnItsWay =>
                 /\ outcome[call[t].command] = "sending"
                 /\ seen[call[t].command] # {}
           /\ call[t].op \in {"send", "publish", "ask"} => called[call[t].command] = {}
    /\ \A t, u \in Threads :
           call[t].op \in OnItsWay /\ call[u].op \in OnItsWay /\ t # u =>
               call[t].command # call[u].command
    /\ \A m \in Commands : objector[m] # Null => outcome[m] = "returned"
    /\ \A m \in Commands : outcome[m] = "unsent" => called[m] = {}

\* Whoever is owed a command has it, will be called with it, or is collected.
Owed ==
    /\ \A m \in Commands : owed[m] \subseteq known
    /\ \A t \in Threads :
           call[t].op \in {"publish", "ask", "deliver"} =>
               owed[call[t].command] \subseteq
                   called[call[t].command] \cup call[t].todo \cup collected

DInv == TypeOK /\ Registered /\ Sending /\ Owed /\ OwedAreCalled /\ LostOnlyAfterTheCheck

\* A handler once registered is among the subscribers until it is collected.
LEMMA KnownIsSubscribed ==
    ASSUME TypeOK, Registered, NEW h \in known, h \notin collected
    PROVE  h \in Subscribers
<1>1. Proxied[h] = Null
  BY DEF Registered, TypeOK, Proxies
<1>2. Null \notin collected
  BY DistributorAssumption DEF TypeOK
<1>. QED BY <1>1, <1>2 DEF Registered, TypeOK, Subscribers, Live

\* Steps that leave the commands and what is registered alone keep the invariant: the
\* collected only grow, and no call that sends a command is begun or changed.
LEMMA Quiet ==
    ASSUME DInv, TypeOK', Registered',
           \A t \in Threads : call'[t].op \in OnItsWay => call'[t] = call[t],
           UNCHANGED <<outcome, owed, seen, called, objector>>,
           known \subseteq known', collected \subseteq collected'
    PROVE  DInv'
<1>1. Sending'
  BY DEF DInv, Sending, OnItsWay
<1>2. Owed'
  BY DEF DInv, Owed, OnItsWay
<1>3. OwedAreCalled' /\ LostOnlyAfterTheCheck'
  BY DEF DInv, OwedAreCalled, LostOnlyAfterTheCheck
<1>. QED BY <1>1, <1>2, <1>3 DEF DInv

\* A step of the sending of one command m by thread t keeps the invariant if it is right
\* about m: t goes on with m in a stage that Sending and Owed allow, or ends it as
\* OwedAreCalled and LostOnlyAfterTheCheck allow.
LEMMA SendingStep ==
    ASSUME DInv, TypeOK', NEW t \in Threads, NEW m \in Commands,
           call[t].op \in OnItsWay, call[t].command = m,
           exact' = exact, known' = known, owed' = owed, seen' = seen, collected' = collected,
           \A u \in Threads \ {t} : call'[u] = call[u],
           \A n \in Commands \ {m} : /\ outcome'[n] = outcome[n] /\ called'[n] = called[n]
                                     /\ objector'[n] = objector[n],
           \/ /\ call'[t].op \in OnItsWay /\ call'[t].command = m /\ outcome'[m] = "sending"
              /\ objector'[m] = Null
              /\ call'[t].op # "deliver" => called'[m] = {}
              /\ call'[t].op # "send" =>
                    owed[m] \subseteq called'[m] \cup call'[t].todo \cup collected
           \/ /\ call'[t] = Idle /\ outcome'[m] \in {"returned", "failed"}
              /\ objector'[m] # Null => outcome'[m] = "returned" /\ called'[m] = {}
              /\ outcome'[m] = "returned" /\ objector'[m] = Null =>
                    owed[m] \subseteq called'[m] \cup collected
    PROVE  DInv'
<1>. TypeOK /\ Registered /\ Sending /\ Owed /\ OwedAreCalled /\ LostOnlyAfterTheCheck
  BY DEF DInv
<1>1. \A u \in Threads : call[u].op \in OnItsWay => call[u].command \in Commands
  BY CallKinds DEF OnItsWay
<1>2. \A u \in Threads \ {t} : call[u].op \in OnItsWay => call[u].command # m
  BY DEF Sending
<1>3. seen[m] # {}
  BY DEF Sending
<1>4. call'[t].op # "register"
  BY DEF OnItsWay, Idle
<1>5. Registered'
  BY <1>4 DEF Registered
<1>6. Sending'
  <2>1. \A u \in Threads :
           /\ call'[u].op \in OnItsWay =>
                 /\ outcome'[call'[u].command] = "sending"
                 /\ seen'[call'[u].command] # {}
           /\ call'[u].op \in {"send", "publish", "ask"} => called'[call'[u].command] = {}
    BY <1>1, <1>2, <1>3 DEF Sending, OnItsWay, Idle
  <2>2. \A u, w \in Threads :
           call'[u].op \in OnItsWay /\ call'[w].op \in OnItsWay /\ u # w =>
               call'[u].command # call'[w].command
    BY <1>2 DEF Sending, OnItsWay, Idle
  <2>3. \A n \in Commands : objector'[n] # Null => outcome'[n] = "returned"
    BY DEF Sending
  <2>4. \A n \in Commands : outcome'[n] = "unsent" => called'[n] = {}
    BY DEF Sending
  <2>. QED BY <2>1, <2>2, <2>3, <2>4 DEF Sending
<1>7. Owed'
  BY <1>1, <1>2 DEF Owed, OnItsWay, Idle
<1>8. OwedAreCalled'
  BY DEF OwedAreCalled
<1>9. LostOnlyAfterTheCheck'
  BY <1>3 DEF LostOnlyAfterTheCheck
<1>. QED BY <1>5, <1>6, <1>7, <1>8, <1>9 DEF DInv

\* The invariant is inductive, one step for each action that matters to it.
LEMMA DInvIsInductive ==
    ASSUME DInv, TypeOK', [Next]_vars
    PROVE  DInv'
<1> USE DEF Goto, Set, Ends, history
<1>. TypeOK /\ Registered /\ Sending /\ Owed /\ OwedAreCalled /\ LostOnlyAfterTheCheck
  BY DEF DInv
<1>1. ASSUME NEW t \in Threads, NEW h \in Handlers, Register(t, h)
      PROVE  DInv'
  <2>1. Registered'
    BY <1>1 DEF Register, Registered, TypeOK
  <2>2. \A u \in Threads : call'[u].op \in OnItsWay => call'[u] = call[u]
    BY <1>1 DEF Register, TypeOK, OnItsWay
  <2>. QED BY <1>1, <2>1, <2>2, Quiet DEF Register
<1>2. ASSUME NEW t \in Threads, NEW h \in Handlers, Displace(t, h)
      PROVE  DInv'
  <2>0. call'[t].op = "register" /\ call'[t].handler = call[t].handler
    BY <1>2 DEF Displace, TypeOK, Calls, Idle
  <2>1. Registered'
    BY <1>2, <2>0 DEF Displace, UnsubscribeByProxy, Registered, TypeOK
  <2>2. \A u \in Threads : call'[u].op \in OnItsWay => call'[u] = call[u]
    BY <1>2, <2>0 DEF Displace, TypeOK, OnItsWay
  <2>. QED BY <1>2, <2>1, <2>2, Quiet DEF Displace
<1>3. ASSUME NEW t \in Threads, SubscribeExactly(t)
      PROVE  DInv'
  <2>1. Registered'
    BY <1>3 DEF SubscribeExactly, Registered, TypeOK, Idle
  <2>2. \A u \in Threads : call'[u].op \in OnItsWay => call'[u] = call[u]
    BY <1>3 DEF SubscribeExactly, TypeOK, Idle, OnItsWay
  <2>. QED BY <1>3, <2>1, <2>2, Quiet DEF SubscribeExactly
<1>4. ASSUME NEW t \in Threads, NEW h \in Handlers, Unregister(t, h)
      PROVE  DInv'
  BY <1>4, Quiet DEF Unregister, Registered
<1>5. ASSUME NEW h \in Handlers, Subscribe(h) \/ Drop(h) \/ Collect(h)
      PROVE  DInv'
  BY <1>5, Quiet DEF Subscribe, Drop, Collect, Registered
<1>6. ASSUME NEW v \in Vetoers, ChangeVetoing(v)
      PROVE  DInv'
  BY <1>6, Quiet DEF ChangeVetoing, Registered
<1>7. ASSUME NEW t \in Threads, NEW m \in Commands, Send(t, m)
      PROVE  DInv'
  <2>1. Registered'
    BY <1>7 DEF Send, Registered, TypeOK
  <2>2. /\ outcome'[m] \in {"refused", "sending"}
        /\ \A n \in Commands \ {m} :
               /\ outcome'[n] = outcome[n]
               /\ owed'[n] = owed[n] /\ seen'[n] = seen[n]
        /\ owed'[m] = known /\ seen'[m] = Subscribers
        /\ UNCHANGED <<known, called, collected, objector>>
        /\ outcome[m] = "unsent"
    BY <1>7 DEF Send, TypeOK
  <2>3. \A u \in Threads : call[u].op \in OnItsWay => call[u].command # m
    BY <1>7 DEF Send, Sending
  <2>4. \A u \in Threads \ {t} : call'[u] = call[u]
    BY <1>7 DEF Send, TypeOK
  <2>5. \/ /\ call'[t] = [op |-> "send", command |-> m] /\ outcome'[m] = "sending"
           /\ Subscribers # {}
        \/ call'[t] = Idle
    BY <1>7 DEF Send, TypeOK
  <2>6. \A u \in Threads : call[u].op \in OnItsWay => call[u].command \in Commands
    BY CallKinds DEF OnItsWay
  <2>7. called[m] = {} /\ objector[m] = Null
    BY <2>2 DEF Sending
  <2>8. Sending'
    <3>1. \A u \in Threads :
             /\ call'[u].op \in OnItsWay =>
                   /\ outcome'[call'[u].command] = "sending"
                   /\ seen'[call'[u].command] # {}
             /\ call'[u].op \in {"send", "publish", "ask"} => called'[call'[u].command] = {}
      BY <2>2, <2>3, <2>4, <2>5, <2>6, <2>7 DEF Sending, Idle, OnItsWay
    <3>2. \A u, w \in Threads :
             call'[u].op \in OnItsWay /\ call'[w].op \in OnItsWay /\ u # w =>
                 call'[u].command # call'[w].command
      BY <2>3, <2>4, <2>5 DEF Sending, Idle, OnItsWay
    <3>3. \A n \in Commands : objector'[n] # Null => outcome'[n] = "returned"
      BY <2>2, <2>7 DEF Sending
    <3>4. \A n \in Commands : outcome'[n] = "unsent" => called'[n] = {}
      BY <2>2 DEF Sending
    <3>. QED BY <3>1, <3>2, <3>3, <3>4 DEF Sending
  <2>9. Owed'
    BY <2>2, <2>3, <2>4, <2>5, <2>6 DEF Owed, Idle, OnItsWay
  <2>10. outcome'[m] = "refused" => known \subseteq collected
    <3>1. outcome'[m] = "refused" => Subscribers = {}
      BY <1>7 DEF Send, TypeOK
    <3>. QED BY <3>1, KnownIsSubscribed
  <2>11. OwedAreCalled' /\ LostOnlyAfterTheCheck'
    BY <2>2, <2>7, <2>10 DEF OwedAreCalled, LostOnlyAfterTheCheck
  <2>. QED BY <2>1, <2>8, <2>9, <2>11 DEF DInv
<1>8. ASSUME NEW t \in Threads, Publish(t)
      PROVE  DInv'
  <2>. DEFINE m == call[t].command
  <2>0. m \in Commands /\ call[t].op \in OnItsWay
    BY <1>8, CallKinds DEF Publish, OnItsWay
  <2>1. known \subseteq collected \cup Subscribers
    BY KnownIsSubscribed
  <2>2. call'[t] = [op |-> "publish", command |-> m, todo |-> Subscribers]
    BY <1>8 DEF Publish, TypeOK
  <2>3. \A u \in Threads \ {t} : call'[u] = call[u]
    BY <1>8 DEF Publish, TypeOK
  <2>4. outcome[m] = "sending" /\ called[m] = {} /\ objector[m] = Null /\ owed[m] \subseteq known
    BY <1>8, <2>0 DEF Publish, Sending, Owed
  <2>5. UNCHANGED <<exact, outcome, known, owed, seen, called, collected, objector>>
    BY <1>8 DEF Publish
  <2>. QED BY <2>0, <2>1, <2>2, <2>3, <2>4, <2>5, SendingStep DEF OnItsWay
<1>9. ASSUME NEW t \in Threads, NEW J, GoOn(t, J), call[t].op \in {"publish", "ask"},
             UNCHANGED <<exact, collected, known, owed, seen, called, objector>>
      PROVE  DInv'
  <2>. DEFINE m == call[t].command
  <2>0. m \in Commands /\ call[t].op \in OnItsWay
    BY <1>9, CallKinds DEF OnItsWay
  <2>1. /\ outcome[m] = "sending" /\ called[m] = {} /\ objector[m] = Null
        /\ owed[m] \subseteq called[m] \cup call[t].todo \cup collected
    BY <1>9, <2>0 DEF Sending, Owed
  <2>2. \A u \in Threads \ {t} : call'[u] = call[u]
    BY <1>9 DEF GoOn, TypeOK
  <2>3. \A n \in Commands \ {m} : outcome'[n] = outcome[n]
    BY <1>9 DEF GoOn, TypeOK
  <2>4. \/ /\ call'[t].op \in {"ask", "deliver"} /\ call'[t].command = m
           /\ call'[t].todo = call[t].todo /\ outcome'[m] = outcome[m]
        \/ call'[t] = Idle /\ outcome'[m] = "returned" /\ call[t].todo = {}
    BY <1>9, <2>0 DEF GoOn, TypeOK
  <2>5. call'[t].op = "deliver" \/ called'[m] = {}
    BY <1>9, <2>1
  <2>. QED BY <1>9, <2>0, <2>1, <2>2, <2>3, <2>4, <2>5, SendingStep DEF OnItsWay
<1>10. ASSUME NEW t \in Threads, NEW v \in Vetoers, Veto(t, v) \/ VetoerThrows(t, v)
       PROVE  DInv'
  <2>. DEFINE m == call[t].command
  <2>0. m \in Commands /\ call[t].op \in OnItsWay
    BY <1>10, CallKinds DEF Veto, VetoerThrows, OnItsWay
  <2>1. called[m] = {} /\ objector[m] = Null
    BY <1>10, <2>0 DEF Sending, Veto, VetoerThrows, OnItsWay
  <2>2. /\ call'[t] = Idle
        /\ \A u \in Threads \ {t} : call'[u] = call[u]
        /\ \A n \in Commands \ {m} : outcome'[n] = outcome[n] /\ objector'[n] = objector[n]
    BY <1>10 DEF Veto, VetoerThrows, TypeOK
  <2>3. \/ outcome'[m] = "returned" /\ objector'[m] = v
        \/ outcome'[m] = "failed" /\ objector'[m] = Null
    BY <1>10, <2>0, <2>1 DEF Veto, VetoerThrows, TypeOK
  <2>4. v # Null
    BY DistributorAssumption
  <2>5. UNCHANGED <<exact, known, owed, seen, called, collected>>
    BY <1>10 DEF Veto, VetoerThrows
  <2>. QED BY <2>0, <2>1, <2>2, <2>3, <2>4, <2>5, SendingStep
<1>11. ASSUME NEW t \in Threads, NEW h \in Handlers, CallHandler(t, h) \/ HandlerThrows(t, h)
       PROVE  DInv'
  <2>. DEFINE m == call[t].command
  <2>0. m \in Commands /\ call[t].op \in OnItsWay
    BY <1>11, CallKinds DEF CallHandler, HandlerThrows, OnItsWay
  <2>1. /\ outcome[m] = "sending" /\ objector[m] = Null
        /\ owed[m] \subseteq called[m] \cup call[t].todo \cup collected
    BY <1>11, <2>0 DEF Sending, Owed, CallHandler, HandlerThrows, OnItsWay
  <2>2. /\ called'[m] = called[m] \cup {h}
        /\ \A n \in Commands \ {m} : called'[n] = called[n] /\ outcome'[n] = outcome[n]
    BY <1>11, <2>0 DEF CallHandler, HandlerThrows, TypeOK
  <2>3. \A u \in Threads \ {t} : call'[u] = call[u]
    BY <1>11 DEF CallHandler, HandlerThrows, TypeOK
  <2>4. \/ /\ call'[t].op = "deliver" /\ call'[t].command = m
           /\ call'[t].todo = call[t].todo \ {h} /\ outcome'[m] = outcome[m]
        \/ call'[t] = Idle /\ outcome'[m] = "returned" /\ call[t].todo = {h}
        \/ call'[t] = Idle /\ outcome'[m] = "failed"
    BY <1>11, <2>0 DEF CallHandler, HandlerThrows, TypeOK, Calls, Idle
  <2>5. UNCHANGED <<exact, known, owed, seen, collected, objector>>
    BY <1>11 DEF CallHandler, HandlerThrows
  <2>. QED BY <2>0, <2>1, <2>2, <2>3, <2>4, <2>5, SendingStep DEF OnItsWay
<1>12. CASE UNCHANGED vars
  BY <1>12, Quiet DEF vars, Registered
<1>13. ASSUME NEW t \in Threads, GetVetoSubscribers(t)
       PROVE  DInv'
  BY <1>13, <1>9 DEF GetVetoSubscribers
<1>14. ASSUME NEW t \in Threads, NEW v \in Vetoers, PassVeto(t, v)
       PROVE  DInv'
  BY <1>14, <1>9 DEF PassVeto
<1>. QED
  BY <1>1, <1>2, <1>3, <1>4, <1>5, <1>6, <1>7, <1>8, <1>10, <1>11, <1>12, <1>13, <1>14 DEF Next

\* Every reachable state satisfies the invariant.
THEOREM DInvHolds == Spec => []DInv
<1>1. Init => DInv
  BY DEF Init, DInv, TypeOK, Registered, Sending, Owed, OwedAreCalled,
         LostOnlyAfterTheCheck, Idle, Outcomes, OnItsWay
<1>2. DInv /\ TypeOK' /\ [Next]_vars => DInv'
  BY DInvIsInductive
<1>. QED BY <1>1, <1>2, TypeCorrect, PTL DEF Spec

\* When send() ends without the exception of a handler or a veto listener and the command was
\* not vetoed, it has been given to every handler whose register() had returned and that has
\* not been collected: neither a later register() nor unregister() takes one off.  A
\* vetoed command has been given to none.
THEOREM OwedHandlersAreCalled == Spec => []OwedAreCalled
<1>1. DInv => OwedAreCalled
  BY DEF DInv
<1>. QED BY <1>1, DInvHolds, PTL

\* send() returns with nobody called only after a veto, or when the collector has come between
\* its check and its publication.
THEOREM LostBetweenCheckAndPublication == Spec => []LostOnlyAfterTheCheck
<1>1. DInv => LostOnlyAfterTheCheck
  BY DEF DInv
<1>. QED BY <1>1, DInvHolds, PTL
=============================================================================
