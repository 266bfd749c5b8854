---------------------------- MODULE SubscriberLists ----------------------------
(***************************************************************************)
(* What the lists of an event service are to the subscribers that live:    *)
(* who joins a list comes last in it, once; it keeps its place until it    *)
(* joins anew, leaves, or all lists are cleared; and who dies is in none.  *)
(* Nothing is said of how an object is held, of stale entries, counts,     *)
(* cleanups, or lookups.                                                   *)
(***************************************************************************)
EXTENDS Integers

CONSTANTS
    Keys,      \* the lists
    Objects,   \* the subscribers
    Doubles    \* may an object be in a list more than once

VARIABLES
    places,    \* places[k][o]: the places that o has in list k; the higher comes later
    dead       \* the objects that nobody holds any more

slVars == <<places, dead>>

\* o goes to the end of the list, to a place behind all that are taken, and gives up the
\* places it had or, with Doubles, not.
Join(k, o) ==
    /\ o \notin dead
    /\ \E n \in places'[k][o], kept \in {{}} \cup IF Doubles THEN {places[k][o]} ELSE {} :
           /\ \A p \in Objects : \A i \in places[k][p] : i < n
           /\ places' = [places EXCEPT ![k][o] = kept \cup {n}]
    /\ UNCHANGED dead

\* One place is given up.
Leave(k, o) ==
    /\ \E n \in places[k][o] : places' = [places EXCEPT ![k][o] = @ \ {n}]
    /\ UNCHANGED dead

Clear ==
    /\ places' = [k \in Keys |-> [o \in Objects |-> {}]]
    /\ UNCHANGED dead

Die(o) ==
    /\ o \notin dead
    /\ dead' = dead \cup {o}
    /\ places' = [k \in Keys |-> [places[k] EXCEPT ![o] = {}]]

SLInit ==
    /\ places = [k \in Keys |-> [o \in Objects |-> {}]]
    /\ dead = {}

SLNext ==
    \/ \E k \in Keys, o \in Objects : Join(k, o) \/ Leave(k, o)
    \/ Clear
    \/ \E o \in Objects : Die(o)

SLSpec == SLInit /\ [][SLNext]_slVars
=============================================================================
