---------------------------- MODULE JobPromises ----------------------------
(***************************************************************************)
(* What the queues promise, without leases, loops or leftovers of either:  *)
(* docs/operating/jobs.md ("a restart loses none of it", "A job that has  *)
(* failed as many times as its worker allows is dead").                    *)
(*                                                                         *)
(* A job is unqueued, live, dead or gone.  A live job may be performed any *)
(* number of times, in any overlap; it leaves the queue only once it has   *)
(* been performed to its end, or has failed often enough to be given up,   *)
(* and is kept as dead only by a worker class that keeps its dead jobs.    *)
(* JobQueue shows that the queue of src/jobs/mod.rs implements this, and   *)
(* InboxQueue that the one of src/api/ap/inbox.rs does, whatever their     *)
(* processes, their database and their clocks do.                          *)
(***************************************************************************)
EXTENDS Integers

CONSTANTS Id,        \* job ids
          Allowed,   \* Allowed[i]: retries after the first failure, -1 for "retry: false"
          Kept,      \* Kept[i]: whether job i is kept in the dead set
          Runnable   \* the jobs whose worker class the process knows

VARIABLES phase,     \* phase[i]: "unqueued", "live", "dead" or "gone"
          finished,  \* the jobs performed to their end (or discarded) at least once
          failures   \* failures[i]: how many performs of job i have failed

promises == <<phase, finished, failures>>

Init == /\ phase = [i \in Id |-> "unqueued"]
        /\ finished = {}
        /\ failures = [i \in Id |-> 0]

\* Job i has failed more often than its worker allows.
SpentRetries(i) == failures[i] > 0 /\ failures[i] > Allowed[i]

Become(S, from, to) ==
    /\ \A i \in S : phase[i] = from
    /\ phase' = [i \in Id |-> IF i \in S THEN to ELSE phase[i]]
    /\ UNCHANGED <<finished, failures>>

Queue(S) == Become(S, "unqueued", "live")

Forget(S) == Become(S, "dead", "gone")

Complete(i) == i \in finished /\ Become({i}, "live", "gone")

GiveUp(i) == SpentRetries(i) /\ ~Kept[i] /\ Become({i}, "live", "gone")

Bury(i) == /\ (SpentRetries(i) /\ Kept[i]) \/ i \notin Runnable
           /\ Become({i}, "live", "dead")

PerformOk(i) == /\ phase[i] # "unqueued"
                /\ i \in Runnable
                /\ finished' = finished \cup {i}
                /\ UNCHANGED <<phase, failures>>

PerformFails(i) == /\ phase[i] # "unqueued"
                   /\ i \in Runnable
                   /\ failures' = [failures EXCEPT ![i] = @ + 1]
                   /\ UNCHANGED <<phase, finished>>

Next == \/ \E S \in SUBSET Id : Queue(S) \/ Forget(S)
        \/ \E i \in Id : \/ Complete(i) \/ GiveUp(i) \/ Bury(i)
                         \/ PerformOk(i) \/ PerformFails(i)

Spec == Init /\ [][Next]_promises

\* What follows of every queue that keeps these promises: a job that has left
\* was performed to its end or had spent its retries, and a dead one had spent
\* them and is of a class that keeps its dead (or of none that is known).
LeavesSettled == \A i \in Id :
    /\ phase[i] = "gone" => i \in finished \/ SpentRetries(i) \/ i \notin Runnable
    /\ phase[i] = "dead" => (SpentRetries(i) /\ Kept[i]) \/ i \notin Runnable
=============================================================================
