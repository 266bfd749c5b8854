-------------------------- MODULE MCCommandDistributor --------------------------
(* Instances of CommandDistributor for TLC: p is a proxy of h1, a1 is anonymous. *)
EXTENDS CommandDistributor, TLC

CONSTANTS h1, a1, p, v1, v2, t1, t2, m1

MCProxied == [h \in Handlers |-> IF h = p THEN h1 ELSE Null]
Symmetric == Permutations(Threads) \cup Permutations(Vetoers)
=============================================================================
