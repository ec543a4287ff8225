--------------------------- MODULE MCInboxFollows ---------------------------
(* Instances of InboxFollows for TLC: a Follow and its Undo. *)
EXTENDS InboxFollows, TLC

CONSTANTS f1, u1, w1, w2

KindOf == [i \in Id |-> IF i = f1 THEN "follow" ELSE "undo"]
Symmetry == Permutations({w1, w2})
=============================================================================
