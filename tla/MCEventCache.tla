----------------------------- MODULE MCEventCache -----------------------------
(* Instances of EventCache for TLC: class X extends A, and A implements I. *)
EXTENDS EventCache

CONSTANTS A, X, I, t1, t2, p1, p2, Often

MCSupers == [c \in Classes |-> IF c = X THEN <<A>> ELSE <<>>]
MCInterfaces == [c \in Classes |-> IF c = A /\ I \in Classes THEN <<I>> ELSE <<>>]
MCMatches == [p \in Patterns |-> IF p = p1 THEN {t1} ELSE Topics]
MCMaxEvents == [k \in Keys |-> IF k \in Often THEN 3 ELSE 0]

\* The sizes of classes and those of topics have nothing in common but the default: no state
\* in which sizes of both kinds are set is gone on from.
OneKind == NoneSet(rawClass) \/ (NoneSet(rawTopic) /\ NoneSet(rawPattern))
=============================================================================
