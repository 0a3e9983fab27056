--------------------------- MODULE MCLocalTriggers ---------------------------
(* Instances of LocalTriggers: which trigger each delivery is for.            *)
EXTENDS LocalTriggers

CONSTANTS t1, t2

\* Two deliveries of one trigger, the others of another.
MCTriggerOf == [d \in Deliveries |-> IF d <= 2 THEN t1 ELSE t2]
=============================================================================
