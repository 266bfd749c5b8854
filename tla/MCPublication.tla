---------------------------- MODULE MCPublication ----------------------------
(* Instances of Publication for TLC. *)
EXTENDS Publication

CONSTANTS t1, t2, e1, e2, s1, s2, s3, v1

NoPriority == [x \in Subscribers \cup Vetoers |-> 0]

\* A subscriber without a priority and two that come after it.
Priorities ==
    [x \in Subscribers \cup Vetoers |->
        IF x \in {s2, s3} THEN 5 ELSE 0]

=============================================================================
