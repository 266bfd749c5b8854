-------------------------- MODULE MCAnnotatedObjects --------------------------
(* Two annotated objects with methods that share a list of a service nobody has  *)
(* made at the start; the one's is weakly, the other's strongly referenced.       *)
EXTENDS AnnotatedObjects, TLC

CONSTANTS t1, t2, a, b, a1, b1, b2, custom

MCNames == {Bus, Swing, custom}
MCLists == {"exact", "class"}
MCOwner == (a1 :> a) @@ (b1 :> b) @@ (b2 :> b)
MCList == (a1 :> "exact") @@ (b1 :> "class") @@ (b2 :> "exact")
MCName == (a1 :> custom) @@ (b1 :> Bus) @@ (b2 :> custom)
MCStrong == {b2}
MCCopies == [k \in MCLists |-> <<"exact", "class">>]
ThreadSymmetry == Permutations({t1, t2})
=============================================================================
