------------------------- MODULE MCDeliveryTracker -------------------------
(* Tasks in one process, or in two. *)
EXTENDS DeliveryTracker

CONSTANTS p, q, a, b, c

Together == [t \in Task |-> p]
Apart == [t \in Task |-> IF t = c THEN q ELSE p]
=============================================================================
