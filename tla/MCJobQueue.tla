---------------------------- MODULE MCJobQueue ----------------------------
(* Instances of JobQueue for TLC. *)
EXTENDS JobQueue, TLC

CONSTANTS u1, u2, x1, x2, n1, z1, w1, w2, r1, r2, r3

\* Two rows of one until_executed class, two of one until_executing class
\* that is not kept when dead, one "retry: false", one of an unknown class.
TaskSet == {"unique", "executing", "never", "unknown"}
TaskOfRow == [i \in Id |-> CASE i \in {u1, u2} -> "unique"
                              [] i \in {x1, x2} -> "executing"
                              [] i = n1 -> "never"
                              [] i = z1 -> "unknown"]

RetriesOf  == [t \in TaskSet |-> CASE t \in {"unique", "executing"} -> 1
                                 [] t = "never" -> -1 [] OTHER -> 0]
KeepDeadOf == [t \in TaskSet |-> t = "unique"]
LocksOf    == [t \in TaskSet |-> CASE t = "unique" -> "until_executed"
                                 [] t = "executing" -> "until_executing"
                                 [] OTHER -> "none"]
TtlOf      == [t \in TaskSet |-> IF t \in {"unique", "executing"} THEN 1 ELSE 0]
Symmetry == Permutations({u1, u2}) \cup Permutations({r1, r2})
KnownTasks == TaskSet \ {"unknown"}

\* With one slot each, the loops are alike.
Exchange == [m \in {w1, w2, r1, r3} |-> CASE m = w1 -> w2 [] m = w2 -> w1
                                         [] m = r1 -> r3 [] m = r3 -> r1]
LoopSymmetry == Permutations({u1, u2}) \cup {Exchange}

OwnerTwo   == [r \in Runner |-> IF r = r3 THEN w2 ELSE w1]
==========================================================================
