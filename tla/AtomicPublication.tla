--------------------------- MODULE AtomicPublication ---------------------------
(***************************************************************************)
(* What a publication promises, without threads, locks, caches or nested   *)
(* calls: one step fixes who hears an event; then either it is vetoed and  *)
(* nobody hears it, or that audience hears it in that order, each once,    *)
(* and it is completed after the last.  A subscriber or vetoer that throws *)
(* ends a publication early, and what it has delivered stays delivered.    *)
(***************************************************************************)
EXTENDS Integers, Sequences

CONSTANTS Events, Subscribers

VARIABLES
    audience,   \* audience[e]: who is to hear e, in order
    called,     \* called[e]: who has been called with e, in order
    outcome     \* outcome[e]: "none", "open" and the ways a publication ends

apVars == <<audience, called, outcome>>

Outcomes == {"none", "open", "vetoed", "completed", "failed"}

Begin(e) ==
    /\ outcome[e] = "none"
    /\ audience' \in [Events -> Seq(Subscribers)]
    /\ \A d \in Events \ {e} : audience'[d] = audience[d]
    /\ outcome' = [outcome EXCEPT ![e] = "open"]
    /\ UNCHANGED called

CallNext(e) ==
    /\ outcome[e] = "open"
    /\ Len(called[e]) < Len(audience[e])
    /\ called' = [called EXCEPT ![e] = Append(@, audience[e][Len(@) + 1])]
    /\ UNCHANGED <<audience, outcome>>

End(e, result) ==
    /\ outcome[e] = "open"
    /\ result = "vetoed" => called[e] = <<>>
    /\ result = "completed" => called[e] = audience[e]
    /\ outcome' = [outcome EXCEPT ![e] = result]
    /\ UNCHANGED <<audience, called>>

APInit ==
    /\ audience = [e \in Events |-> <<>>]
    /\ called = [e \in Events |-> <<>>]
    /\ outcome = [e \in Events |-> "none"]

APNext ==
    \E e \in Events :
        \/ Begin(e)
        \/ CallNext(e)
        \/ \E result \in {"vetoed", "completed", "failed"} : End(e, result)

APSpec == APInit /\ [][APNext]_apVars
=============================================================================
