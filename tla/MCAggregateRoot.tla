---------------------------- MODULE MCAggregateRoot ----------------------------
(* Instances of AggregateRoot for TLC: r1, r2, r3 are events of the root, c1 of an entity. *)
EXTENDS AggregateRoot

CONSTANTS n1, root, child, r1, r2, r3, c1

MCTypeOf == [e \in Events |-> IF e = c1 THEN child ELSE root]
MCConstructed == [o \in Owners |-> IF o = Root THEN {root} ELSE {child}]
Symmetric == Permutations({r1, r2, r3})

\* Misuse is for good, and every property but the type invariant is about its absence.
Used == ~misuse
=============================================================================
