-------------------------- MODULE MCSubscriberRegistry ------------------------
(* Small instances of SubscriberRegistry for TLC. *)
EXTENDS SubscriberRegistry, TLC

CONSTANTS c1, c2, o1, o2

OneClass == (c1 :> {c1})
TwoClasses == (c1 :> {c1}) @@ (c2 :> {c1, c2}) \* c2 extends c1
=============================================================================
