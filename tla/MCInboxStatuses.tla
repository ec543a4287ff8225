-------------------------- MODULE MCInboxStatuses --------------------------
(* An instance of InboxStatuses for TLC: a Create and its Delete. *)
EXTENDS InboxStatuses, TLC

CONSTANTS c1, d1, w1, w2

KindOf == [i \in Id |-> IF i = c1 THEN "create" ELSE "delete"]
Symmetry == Permutations({w1, w2})
=============================================================================
