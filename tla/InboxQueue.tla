----------------------------- MODULE InboxQueue -----------------------------
(***************************************************************************)
(* The ingress queue of src/src/api/ap/inbox.rs over eunha.inbox_jobs      *)
(* (src/migrations/005_inbox_jobs.sql): activities that arrived are        *)
(* claimed in batches, under a lease that nothing renews and no stop hands *)
(* back, performed, and recorded by id alone, whatever the record's own    *)
(* fate.  So an activity may be performed again beside a slower perform of *)
(* it, or after one that ended well: InboxStatuses and InboxFollows extend *)
(* this module with what the performs do.                                  *)
(*                                                                         *)
(* Backoffs are left out: a free row may be claimed at any time.           *)
(***************************************************************************)
EXTENDS Integers, FiniteSets

CONSTANTS
    Id,           \* row ids: an activity delivered twice is two rows
    Loop,         \* the queue's loops, each in a process of its own
    Batch,        \* inbox_batch
    Concurrency,  \* inbox_concurrency
    MaxAttempts,  \* max_attempts
    MaxFaults     \* bound: faults, of whatever kind

ASSUME QueueAssumption ==
    /\ IsFiniteSet(Id)
    /\ Batch \in Nat \ {0} /\ Concurrency \in Nat \ {0}
    /\ MaxAttempts \in Nat \ {0}
    /\ MaxFaults \in Nat

VARIABLES
    rows,      \* rows[i]: row i of eunha.inbox_jobs
    task,      \* task[w][i]: row i in the batch loop w is working on
    faults,    \* dropped loops, lost records, overrun leases and misfortunes
    \* History, read by no action.
    finished,  \* the rows performed to Ok
    failures   \* failures[i]: performs of row i that ended in Err

queue == <<rows, task, faults, finished, failures>>

\* `lock`: locked_at is NULL, within the last ten minutes, or older.
Row == [st : {"none", "queued", "failed", "gone"}, attempts : Nat,
        lock : {"free", "held", "lapsed"}]
NoRow == [st |-> "none", attempts |-> 0, lock |-> "free"]

\* `count`: the attempts the claim returned.
Task == [ph : {"none", "waiting", "working", "ok", "err"}, count : Nat]
NoTask == [ph |-> "none", count |-> 0]

Init == /\ rows = [i \in Id |-> NoRow]
        /\ task = [w \in Loop |-> [i \in Id |-> NoTask]]
        /\ faults = 0
        /\ finished = {}
        /\ failures = [i \in Id |-> 0]

Exists(i) == rows[i].st \in {"queued", "failed"}
ClaimableIfFree(i) == rows[i].st = "queued" /\ rows[i].lock = "free"
Claimable(i) == rows[i].st = "queued" /\ rows[i].lock # "held"
At(w, i, ph) == task[w][i].ph = ph
Idle(w) == \A i \in Id : At(w, i, "none")
Running(w) == {i \in Id : task[w][i].ph \in {"working", "ok", "err"}}
Fault == faults < MaxFaults /\ faults' = faults + 1

-----------------------------------------------------------------------------
Enqueue(i) ==
    /\ rows[i].st = "none"
    /\ rows' = [rows EXCEPT ![i].st = "queued"]
    /\ UNCHANGED <<task, faults, finished, failures>>

\* One statement, when the batch before is through.  (A claim whose answer is
\* lost is a claim, then a loop dropped.)
Claim(w, S) ==
    /\ S # {} /\ Cardinality(S) <= Batch
    /\ Idle(w)
    /\ \A i \in S : Claimable(i)
    /\ rows' = [i \in Id |-> IF i \in S THEN [rows[i] EXCEPT !.lock = "held"] ELSE rows[i]]
    /\ task' = [task EXCEPT ![w] = [i \in Id |->
                    IF i \in S THEN [ph |-> "waiting", count |-> rows[i].attempts]
                    ELSE NoTask]]
    /\ UNCHANGED <<faults, finished, failures>>

Enter(w, i, from, to) == At(w, i, from) /\ task' = [task EXCEPT ![w][i].ph = to]

\* for_each_concurrent takes up another activity of the batch.
Begin(w, i) ==
    /\ Cardinality(Running(w)) < Concurrency
    /\ Enter(w, i, "waiting", "working")
    /\ UNCHANGED <<rows, faults, finished, failures>>

PerformOk(w, i) ==
    /\ Enter(w, i, "working", "ok")
    /\ finished' = finished \cup {i}
    /\ UNCHANGED <<rows, faults, failures>>

PerformFails(w, i) ==
    /\ Enter(w, i, "working", "err")
    /\ failures' = [failures EXCEPT ![i] = @ + 1]
    /\ UNCHANGED <<rows, faults, finished>>

Gone == [NoRow EXCEPT !.st = "gone"]

\* Mutant: given up one failure early.
FailedEarly(i, next) == [rows[i] EXCEPT !.attempts = next, !.lock = "free",
                         !.st = IF next >= MaxAttempts - 1 THEN "failed" ELSE @]
\* The attempts are those of the claim and one more, whatever the row says.
Failed(i, next) == [rows[i] EXCEPT !.attempts = next, !.lock = "free",
                                   !.st = IF next >= MaxAttempts THEN "failed" ELSE @]

\* By id alone: the row may have been claimed again, given up or deleted since.
Record(w, i) ==
    /\ task[w][i].ph \in {"ok", "err"}
    /\ rows' = [rows EXCEPT ![i] = IF ~Exists(i) THEN rows[i]
                                   ELSE IF At(w, i, "ok") THEN Gone
                                   ELSE Failed(i, task[w][i].count + 1)]
    /\ task' = [task EXCEPT ![w][i] = NoTask]
    /\ UNCHANGED <<faults, finished, failures>>

\* `let _ =`: the statement failed, and the row stays locked.
RecordLost(w, i) ==
    /\ task[w][i].ph \in {"ok", "err"}
    /\ Fault
    /\ task' = [task EXCEPT ![w][i] = NoTask]
    /\ UNCHANGED <<rows, finished, failures>>

\* Ten minutes since the claim.
Lapse(i) == /\ rows[i].lock = "held"
            /\ rows' = [rows EXCEPT ![i].lock = "lapsed"]

LeaseEnds(i) == /\ \A w \in Loop : At(w, i, "none")
                /\ Lapse(i)
                /\ UNCHANGED <<task, faults, finished, failures>>

\* A batch slower than its lease.
Overrun(i) == /\ \E w \in Loop : ~At(w, i, "none")
              /\ Lapse(i) /\ Fault
              /\ UNCHANGED <<task, finished, failures>>

\* The process dies, or a stop passes its grace: the batch is dropped, its rows
\* stay locked, and a restarted loop takes the dropped one's place.
Drop(w) == /\ ~Idle(w)
           /\ Fault
           /\ task' = [task EXCEPT ![w] = [i \in Id |-> NoTask]]
           /\ UNCHANGED <<rows, finished, failures>>

\* A fault of what is being performed, of which the queue knows nothing.
Misfortune == Fault /\ UNCHANGED <<rows, task, finished, failures>>

\* run_inbox_cleanup: those that failed a week ago.
Cleanup(S) ==
    /\ S # {} /\ \A i \in S : rows[i].st = "failed"
    /\ rows' = [i \in Id |-> IF i \in S THEN Gone ELSE rows[i]]
    /\ UNCHANGED <<task, faults, finished, failures>>

\* The steps that begin, end or drop no perform.
Rows == \/ \E i \in Id : Enqueue(i) \/ LeaseEnds(i) \/ Overrun(i)
        \/ \E S \in SUBSET Id : Cleanup(S) \/ \E w \in Loop : Claim(w, S)
        \/ \E w \in Loop, i \in Id : Record(w, i) \/ RecordLost(w, i)

Next == \/ Rows
        \/ \E w \in Loop, i \in Id : Begin(w, i) \/ PerformOk(w, i) \/ PerformFails(w, i)
        \/ \E w \in Loop : Drop(w)
        \/ Misfortune

Spec == Init /\ [][Next]_queue

\* A loop always claims again (IdleBackoff bounds its sleep), the oldest due
\* rows first; leases end.
RowFairness ==
    \A i \in Id :
       /\ SF_queue(\E w \in Loop, S \in SUBSET Id : i \in S /\ Claim(w, S))
       /\ WF_queue(LeaseEnds(i))
       /\ \A w \in Loop : WF_queue(Record(w, i))

-----------------------------------------------------------------------------
(* Properties *)

TypeOK == /\ rows \in [Id -> Row]
          /\ task \in [Loop -> [Id -> Task]]
          /\ faults \in 0..MaxFaults
          /\ finished \in SUBSET Id
          /\ failures \in [Id -> Nat]

Phase(i) == CASE rows[i].st = "none" -> "unqueued" [] rows[i].st = "queued" -> "live"
              [] rows[i].st = "failed" -> "dead"   [] OTHER -> "gone"

\* The queue is one of JobPromises' queues, whose every job is kept when dead
\* and has MaxAttempts - 1 retries: an activity leaves it only performed, or
\* after max_attempts failures, though leases lapse unrenewed, stale records
\* land on rows claimed anew, lower their attempts or free their locks, and
\* records get lost (process_inbox_job).
Promises == INSTANCE JobPromises WITH
    phase <- [i \in Id |-> Phase(i)], Allowed <- [i \in Id |-> MaxAttempts - 1],
    Kept <- [i \in Id |-> TRUE], Runnable <- Id
KeepsActivities == Promises!Spec

\* Every activity accepted is performed or given up in the end: no row stays
\* locked by a batch that was dropped or by a record that was lost, though
\* run_inbox_queue hands nothing back.
EveryActivitySettles ==
    \A i \in Id : rows[i].st = "queued" ~> rows[i].st \in {"failed", "gone"}
=============================================================================
