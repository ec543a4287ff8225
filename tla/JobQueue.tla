------------------------------ MODULE JobQueue ------------------------------
(***************************************************************************)
(* The job queue of src/src/jobs/mod.rs over the table eunha.jobs          *)
(* (src/migrations/022_jobs.sql): processes queue rows; job loops claim    *)
(* the due ones under a lease, perform them, renew the lease while they    *)
(* do, and record how they came out; loops stop, hand back, or die.        *)
(*                                                                         *)
(* Every SQL statement is one atomic step, and so is what a task does      *)
(* between two statements.  Times are countdowns, moved by Tick.           *)
(***************************************************************************)
EXTENDS Integers, FiniteSets

CONSTANTS
    Id,          \* row ids (BIGSERIAL): each is inserted at most once
    Task,        \* worker classes with their arguments: what a unique lock is of
    TaskOf,      \* TaskOf[i]: the worker class and arguments row i carries
    Retries,     \* Retries[t]: Options.retry as retry_columns stores it, -1 for Never
    KeepDead,    \* KeepDead[t]: Options.dead
    LockOf,      \* LockOf[t]: "none", "until_executed" or "until_executing"
    Ttl,         \* Ttl[t]: the lock's TTL
    Known,       \* the tasks whose worker class is in this build's registry
    Worker,      \* job loops by their name: a restarted loop has a new name
    Runner,      \* the loops' job_concurrency slots
    Owner,       \* Owner[r]: the loop slot r belongs to
    None,        \* no loop, no row
    Delays,      \* the delays jobs are queued with
    RetryDelays, \* what retry_delay may return
    Lease,       \* LEASE
    Heartbeat,   \* the longest time between two renewals, with the database's answer
    Finish,      \* the longest a prompt task takes from the perform's end to its record
    Prompt,      \* the phases no task is slow in: Working when the process is healthy
    MaxErrors,   \* bound: statements of a loop that fail
    MaxRows      \* bound: rows ever inserted

Working == {"performing", "exhausted", "delete", "retry", "bury"}
Writes  == {"delete", "retry", "bury"}

ASSUME ConstantsAssumption ==
    /\ TaskOf \in [Id -> Task]
    /\ Retries \in [Task -> Int]
    /\ \A t \in Task : Retries[t] >= -1
    /\ KeepDead \in [Task -> BOOLEAN]
    /\ \A t \in Task : Retries[t] = -1 => ~KeepDead[t]
    /\ LockOf \in [Task -> {"none", "until_executed", "until_executing"}]
    /\ Ttl \in [Task -> Nat]
    /\ Known \subseteq Task
    /\ Owner \in [Runner -> Worker] /\ IsFiniteSet(Runner)
    /\ None \notin Worker \cup Id
    /\ Delays \subseteq Nat /\ RetryDelays \subseteq Nat
    /\ Prompt \subseteq Working
    /\ MaxErrors \in Nat /\ MaxRows \in Nat

\* LEASE (300 s) leaves room for a renewal every HEARTBEAT (60 s) and for a
\* task's last steps.
ASSUME TimingAssumption ==
    /\ Lease \in Nat /\ Heartbeat \in Nat /\ Finish \in Nat
    /\ Heartbeat + Finish < Lease

VARIABLES
    rows,      \* rows[i]: row i of eunha.jobs
    asking,    \* tasks whose producer has cleared the lapsed lock and not inserted yet
    loop,      \* loop[w]: "off", "up", "stopping", "handing_back" or "gone"
    run,       \* run[r]: the job slot r is executing
    errors,    \* statements that have failed
    \* History, read by no action: what was really performed.
    finished,  \* the rows performed to Ok or Discard
    failures,  \* failures[i]: performs of row i that returned Err
    begun      \* the rows claimed at least once

vars == <<rows, asking, loop, run, errors, finished, failures, begun>>
history == <<finished, failures, begun>>

\* `locked_at` NULL is `by` = None; `lease` is what is left of the lease and
\* `ttl` what is left until unique_until.
Row == [st : {"none", "queued", "dead", "gone"}, attempts : Nat, due : Nat,
        by : Worker \cup {None}, lease : Nat, key : BOOLEAN, ttl : Nat]

NoRow == [st |-> "none", attempts |-> 0, due |-> 0, by |-> None, lease |-> 0,
          key |-> FALSE, ttl |-> 0]

\* `count` is the attempts the claim returned; `left` counts down to the next
\* renewal while performing, and the time a prompt task has left afterwards.
Idle == [job |-> None, ph |-> "idle", count |-> 0, left |-> 0]

Run == {Idle} \cup [job : Id, ph : Working, count : Nat, left : Nat]

Init == /\ rows = [i \in Id |-> NoRow]
        /\ asking = {}
        /\ loop = [w \in Worker |-> "off"]
        /\ run = [r \in Runner |-> Idle]
        /\ errors = 0
        /\ finished = {}
        /\ failures = [i \in Id |-> 0]
        /\ begun = {}

Exists(i) == rows[i].st \in {"queued", "dead"}
Unique(t) == LockOf[t] # "none"
Busy(r) == run[r].ph # "idle"
Slots(w) == {r \in Runner : Owner[r] = w}
Due(i) == rows[i].st = "queued" /\ rows[i].due = 0
\* Mutant: only rows handed back are claimed, never those whose lease lapsed.
ClaimableIfFree(i) == Due(i) /\ rows[i].by = None
Claimable(i) == Due(i) /\ (rows[i].by = None \/ rows[i].lease = 0)

-----------------------------------------------------------------------------
(* Queueing *)

RoomFor(S) == Cardinality({i \in Id : rows[i].st # "none"} \cup S) <= MaxRows

Inserted(t, delay) ==
    [st |-> "queued", attempts |-> 0, due |-> delay, by |-> None, lease |-> 0,
     key |-> Unique(t), ttl |-> IF Unique(t) THEN delay + Ttl[t] ELSE 0]

\* perform_async/_in/_at and perform_bulk of a class with no lock.
InsertPlain(S, delay) ==
    /\ S # {} /\ RoomFor(S)
    /\ \A i \in S : ~Unique(TaskOf[i])
    /\ rows' = [i \in Id |-> IF i \in S THEN Inserted(TaskOf[i], delay) ELSE rows[i]]
    /\ UNCHANGED <<asking, loop, run, errors, history>>

\* A producer's first statement: a lock past its TTL is given up by its row.
\* (Any number of producers may be between their two statements: the second
\* one need not withdraw t.)
ClearLapsed(t) ==
    /\ Unique(t)
    /\ rows' = [i \in Id |-> IF TaskOf[i] = t /\ rows[i].ttl = 0
                             THEN [rows[i] EXCEPT !.key = FALSE] ELSE rows[i]]
    /\ asking' = asking \cup {t}
    /\ UNCHANGED <<loop, run, errors, history>>

\* Its second: INSERT ... ON CONFLICT (unique_key) DO NOTHING.
InsertUnique(i, delay) ==
    LET t == TaskOf[i] IN
    /\ t \in asking
    /\ rows[i].st = "none" /\ RoomFor({i})
    /\ \A j \in Id : TaskOf[j] = t => ~rows[j].key
    /\ rows' = [rows EXCEPT ![i] = Inserted(t, delay)]
    /\ asking' \in {asking, asking \ {t}}
    /\ UNCHANGED <<loop, run, errors, history>>

InsertConflicts(t) ==
    /\ t \in asking
    /\ \E j \in Id : TaskOf[j] = t /\ rows[j].key
    /\ asking' = asking \ {t}
    /\ UNCHANGED <<rows, loop, run, errors, history>>

-----------------------------------------------------------------------------
(* Claiming: `claim` takes due rows that are free or whose lease has lapsed, *)
(* in an order drawn afresh each time (queue_order), for at most as many     *)
(* slots as are free; rows another statement has locked are skipped.         *)

ClaimedRow(i, w) ==
    [rows[i] EXCEPT !.by = w, !.lease = Lease,
                    !.key = @ /\ LockOf[TaskOf[i]] # "until_executing"]

\* Mutant: retry_count counted from the attempt before.
StartedOneShort(i) == [job |-> i, ph |-> "performing", count |-> rows[i].attempts - 1,
                       left |-> Heartbeat]

Started(i) == [job |-> i, ph |-> IF TaskOf[i] \in Known THEN "performing" ELSE "bury",
               count |-> rows[i].attempts,
               left |-> IF TaskOf[i] \in Known THEN Heartbeat ELSE Finish]

Take(w, S) ==
    /\ S # {}
    /\ rows' = [i \in Id |-> IF i \in S THEN ClaimedRow(i, w) ELSE rows[i]]
    /\ begun' = begun \cup S
    /\ UNCHANGED <<asking, loop, finished, failures>>

\* A task is spawned in a free slot for each row: g[r] is the row of slot r.
Spawn(R, g, S) ==
    /\ \A r \in R : ~Busy(r)
    /\ \A i \in S : \E r \in R : g[r] = i
    /\ \A r, q \in R : g[r] = g[q] => r = q
    /\ run' = [r \in Runner |-> IF r \in R THEN Started(g[r]) ELSE run[r]]

Claim(w, S) ==
    /\ loop[w] = "up"
    /\ Take(w, S)
    /\ \E R \in SUBSET Slots(w) : \E g \in [R -> S] : Spawn(R, g, S)
    /\ UNCHANGED errors

\* The statement takes effect and its answer is lost, or the loop is dropped
\* while it waits for it: the rows stay claimed and nothing runs them.
ClaimLost(w, S) ==
    /\ loop[w] \in {"up", "gone"}
    /\ errors < MaxErrors
    /\ Cardinality(S) <= Cardinality({r \in Slots(w) : ~Busy(r)})
    /\ Take(w, S)
    /\ errors' = errors + 1
    /\ UNCHANGED run

-----------------------------------------------------------------------------
(* Executing *)

Heartbeats(r) ==
    LET i == run[r].job IN
    /\ run[r].ph = "performing" /\ run[r].left = 0
    /\ run' = [run EXCEPT ![r].left = Heartbeat]
    /\ rows' = IF Exists(i) /\ rows[i].by = Owner[r]
               THEN [rows EXCEPT ![i].lease = Lease] ELSE rows
    /\ UNCHANGED <<asking, loop, errors, history>>

Enter(r, ph) == run' = [run EXCEPT ![r].ph = ph, ![r].left = Finish]

\* Ok, or a Discard.
PerformReturns(r) ==
    /\ run[r].ph = "performing"
    /\ Enter(r, "delete")
    /\ finished' = finished \cup {run[r].job}
    /\ UNCHANGED <<rows, asking, loop, errors, failures, begun>>

\* Mutants: the last retry is lost; one retry too many.
AfterFailureEarly(i, count) ==
    IF count + 1 >= Retries[TaskOf[i]] THEN "exhausted" ELSE "retry"
AfterFailureLate(i, count) ==
    IF count > Retries[TaskOf[i]] THEN "exhausted" ELSE "retry"

\* `fail`: which way out depends on the attempts the claim returned.
AfterFailure(i, count) ==
    LET t == TaskOf[i] IN
    IF Retries[t] < 0 THEN "delete"
    ELSE IF count >= Retries[t] THEN "exhausted" ELSE "retry"

PerformFails(r) ==
    LET i == run[r].job IN
    /\ run[r].ph = "performing"
    /\ Enter(r, AfterFailure(i, run[r].count))
    /\ failures' = [failures EXCEPT ![i] = @ + 1]
    /\ UNCHANGED <<rows, asking, loop, errors, finished, begun>>

\* Mutant: keep_dead is not looked at.
HookReturnsForgetting(r) ==
    /\ run[r].ph = "exhausted"
    /\ Enter(r, "delete")
    /\ UNCHANGED <<rows, asking, loop, errors, history>>

\* The retries_exhausted hook returns.
HookReturns(r) ==
    /\ run[r].ph = "exhausted"
    /\ run' = [run EXCEPT ![r].ph = IF KeepDead[TaskOf[run[r].job]] THEN "bury" ELSE "delete"]
    /\ UNCHANGED <<rows, asking, loop, errors, history>>

\* Mutant: a retry gives up the unique lock, as bury does.
RetriedUnlocked(i, delay) == [rows[i] EXCEPT !.attempts = @ + 1, !.due = delay,
                                             !.key = FALSE, !.by = None, !.lease = 0]

\* The statement that records the outcome: by id alone, whoever holds the row.
Retried(i, delay) == [rows[i] EXCEPT !.attempts = @ + 1, !.due = delay,
                                     !.by = None, !.lease = 0]

Buried(i) == [rows[i] EXCEPT !.st = "dead", !.attempts = @ + 1, !.key = FALSE,
                             !.ttl = 0, !.by = None, !.lease = 0]

Deleted == [NoRow EXCEPT !.st = "gone"]

Written(r, delay) ==
    LET i == run[r].job IN
    IF ~Exists(i) THEN rows[i]
    ELSE CASE run[r].ph = "delete" -> Deleted
           [] run[r].ph = "retry"  -> Retried(i, delay)
           [] run[r].ph = "bury"   -> Buried(i)

Record(r) ==
    /\ run[r].ph \in Writes
    /\ \E delay \in RetryDelays :
          rows' = [rows EXCEPT ![run[r].job] = Written(r, delay)]
    /\ run' = [run EXCEPT ![r] = Idle]
    /\ UNCHANGED <<asking, loop, errors, history>>

\* "could not record how a job came out": the row stays claimed.
RecordFails(r) ==
    /\ run[r].ph \in Writes
    /\ errors < MaxErrors
    /\ errors' = errors + 1
    /\ run' = [run EXCEPT ![r] = Idle]
    /\ UNCHANGED <<rows, asking, loop, history>>

\* prune_dead: the rows dead for six months, and those past the newest ten
\* thousand; which these are is left open.
PruneDead(S) ==
    /\ S # {}
    /\ rows' = [i \in Id |-> IF i \in S THEN Deleted ELSE rows[i]]
    /\ UNCHANGED <<asking, loop, run, errors, history>>

-----------------------------------------------------------------------------
(* Loops starting, stopping and dying *)

SetLoop(w, from, to) == loop[w] \in from /\ loop' = [loop EXCEPT ![w] = to]

Start(w) == SetLoop(w, {"off"}, "up") /\ UNCHANGED <<rows, asking, run, errors, history>>

Stop(w) == SetLoop(w, {"up"}, "stopping") /\ UNCHANGED <<rows, asking, run, errors, history>>

\* Every job in flight finished within SHUTDOWN_TIMEOUT.
Leave(w) ==
    /\ \A r \in Slots(w) : ~Busy(r)
    /\ SetLoop(w, {"stopping"}, "gone")
    /\ UNCHANGED <<rows, asking, run, errors, history>>

\* Mutant: the tasks' handles are dropped without aborting the tasks.
AbortNothing(w) ==
    /\ \E r \in Slots(w) : Busy(r)
    /\ SetLoop(w, {"stopping"}, "handing_back")
    /\ UNCHANGED <<rows, asking, run, errors, history>>

\* SHUTDOWN_TIMEOUT passed: the tasks are aborted.  A record already sent to
\* the database (Late) still takes effect, unless writes are prompt.
Abort(w) ==
    /\ \E r \in Slots(w) : Busy(r)
    /\ SetLoop(w, {"stopping"}, "handing_back")
    /\ \E Late \in SUBSET {r \in Slots(w) : run[r].ph \in Writes \ Prompt} :
         run' = [r \in Runner |-> IF Owner[r] = w /\ r \notin Late THEN Idle ELSE run[r]]
    /\ UNCHANGED <<rows, asking, errors, history>>

HandBack(w) ==
    /\ SetLoop(w, {"handing_back"}, "gone")
    /\ rows' = [i \in Id |-> IF rows[i].by = w
                             THEN [rows[i] EXCEPT !.by = None, !.lease = 0] ELSE rows[i]]
    /\ UNCHANGED <<asking, run, errors, history>>

\* STOP_GRACE passed while the loop was held up in a statement: the loop is
\* dropped where it stands, and the tasks it had spawned go on without it.
GraceDrop(w) ==
    /\ SetLoop(w, {"stopping", "handing_back"}, "gone")
    /\ UNCHANGED <<rows, asking, run, errors, history>>

\* The process dies.
Crash(w) ==
    /\ loop[w] \notin {"off", "gone"} \/ \E r \in Slots(w) : Busy(r)
    /\ loop' = [loop EXCEPT ![w] = "gone"]
    /\ run' = [r \in Runner |-> IF Owner[r] = w THEN Idle ELSE run[r]]
    /\ UNCHANGED <<rows, asking, errors, history>>

-----------------------------------------------------------------------------
Less(n) == IF n = 0 THEN 0 ELSE n - 1

\* A prompt task's step is never overdue; any other may be.
Tick ==
    /\ \A r \in Runner : run[r].ph \in Prompt => run[r].left > 0
    /\ rows' = [i \in Id |-> [rows[i] EXCEPT !.due = Less(@), !.lease = Less(@),
                                             !.ttl = Less(@)]]
    /\ run' = [r \in Runner |-> [run[r] EXCEPT !.left = Less(@)]]
    /\ UNCHANGED <<asking, loop, errors, history>>

Producers == \/ \E S \in SUBSET {i \in Id : rows[i].st = "none"}, delay \in Delays :
                   InsertPlain(S, delay)
             \/ \E t \in Task : ClearLapsed(t) \/ InsertConflicts(t)
             \/ \E i \in Id, delay \in Delays : InsertUnique(i, delay)

ClaimableSets == SUBSET {i \in Id : Claimable(i)}

Claims(w) == \E S \in ClaimableSets : Claim(w, S) \/ ClaimLost(w, S)

Tasks(r) == \/ Heartbeats(r) \/ PerformReturns(r) \/ PerformFails(r)
            \/ HookReturns(r) \/ Record(r) \/ RecordFails(r)

Lifecycle(w) == \/ Start(w) \/ Stop(w) \/ Leave(w) \/ Abort(w)
                \/ HandBack(w) \/ GraceDrop(w) \/ Crash(w)

Next == \/ Producers
        \/ \E w \in Worker : Claims(w) \/ Lifecycle(w)
        \/ \E r \in Runner : Tasks(r)
        \/ \E S \in SUBSET {i \in Id : rows[i].st = "dead"} : PruneDead(S)
        \/ Tick

Spec == Init /\ [][Next]_vars

\* Loops keep polling (IdleBackoff's ceiling bounds the wait), the oldest due
\* row of each queue comes first and every queue has a chance to be first in
\* queue_order: no due row is passed over for ever.  Performs and hooks end,
\* a stop is bounded by SHUTDOWN_TIMEOUT and STOP_GRACE, and a supervisor
\* starts the processes.
Fairness ==
    /\ WF_vars(Tick)
    /\ \A w \in Worker : /\ WF_vars(Start(w))
                         /\ WF_vars(Leave(w) \/ Abort(w))
                         /\ WF_vars(HandBack(w) \/ GraceDrop(w))
    /\ \A i \in Id : SF_vars(\E w \in Worker : \E S \in ClaimableSets : i \in S /\ Claim(w, S))
    /\ \A r \in Runner : /\ WF_vars(Heartbeats(r))
                         /\ WF_vars(PerformReturns(r) \/ PerformFails(r))
                         /\ WF_vars(HookReturns(r))
                         /\ WF_vars(Record(r))

FairSpec == Spec /\ Fairness

-----------------------------------------------------------------------------
(* Properties *)

TypeOK == /\ rows \in [Id -> Row]
          /\ asking \in SUBSET Task
          /\ loop \in [Worker -> {"off", "up", "stopping", "handing_back", "gone"}]
          /\ run \in [Runner -> Run]
          /\ errors \in Nat
          /\ finished \in SUBSET Id
          /\ failures \in [Id -> Nat]
          /\ begun \in SUBSET Id

\* While every task is prompt, no job is being executed twice at once, by one
\* loop or by several: not after a crash, a stop that hands its jobs back, a
\* lost answer or a lapsed lease (claim, execute's renewals, run's hand-back).
OneRunner == Prompt = Working =>
    \A r, q \in Runner : Busy(r) /\ run[r].job = run[q].job => r = q

\* No statement has failed, no loop has died or been made to hand its jobs
\* back, and every task is prompt.
Undisturbed == /\ Prompt = Working /\ errors = 0
               /\ \A w \in Worker : loop[w] \in {"off", "up", "stopping"}

\* How often a worker class may fail: its retries and the last one, or once.
Tries(t) == IF Retries[t] < 0 THEN 1 ELSE Retries[t] + 1

\* That a job may be performed again after it was performed to its end, or
\* oftener than its worker allows, is the price of a restart: undisturbed, no
\* row stays claimed that nobody executes (it would wait for its lease to
\* lapse), a job performed to its end is not performed again, and one that is
\* given up has failed exactly Tries times (execute, fail, claim).
OnceUndisturbed == Undisturbed => \A i \in Id :
    /\ rows[i].by # None => \E r \in Runner : Busy(r) /\ run[r].job = i
    /\ i \in finished => \A r \in Runner : run[r].job = i => run[r].ph = "delete"
    /\ TaskOf[i] \in Known =>
          /\ failures[i] <= Tries(TaskOf[i])
          /\ rows[i].st = "dead" => i \notin finished /\ failures[i] = Tries(TaskOf[i])
          /\ rows[i].st = "gone" => i \in finished \/ failures[i] = Tries(TaskOf[i])

\* While every task is prompt, a row never counts more failures than its
\* worker's retries and the last one (fail's snapshot of attempts against the
\* row's own); undisturbed, it has failed just so often when it is given up.
AttemptsBounded ==
    /\ Prompt = Working => \A i \in Id :
          TaskOf[i] \in Known => rows[i].attempts <= Retries[TaskOf[i]] + 1
    /\ OnceUndisturbed

\* However late or stale a task is, the retries_exhausted hook of a job is
\* run, and the job is given up, only after more failed performs than its
\* worker allows retries (fail compares the claim's attempts).
GivenUpOnlyWhenSpent ==
    \A r \in Runner : run[r].ph \in {"exhausted", "bury"} /\ TaskOf[run[r].job] \in Known
        => failures[run[r].job] > Retries[TaskOf[run[r].job]]

\* A row that has its unique lock: until_executed while it is queued,
\* until_executing until it is first claimed, neither past its TTL.
Locks(i) == /\ rows[i].st = "queued" /\ rows[i].ttl > 0
            /\ \/ LockOf[TaskOf[i]] = "until_executed"
               \/ LockOf[TaskOf[i]] = "until_executing" /\ i \notin begun

\* No two queued jobs hold the same unique lock, whatever retries, lapses,
\* take-overs and racing producers came between ("is queued at most once for
\* the same arguments", docs/operating/jobs.md).
UniqueQueued == \A i, j \in Id : Locks(i) /\ Locks(j) /\ TaskOf[i] = TaskOf[j] => i = j

\* A job as its promises see it: a queued row is live whoever holds it.
Phase == [i \in Id |-> IF rows[i].st = "none" THEN "unqueued"
                       ELSE IF rows[i].st = "queued" THEN "live" ELSE rows[i].st]

\* The queue implements its promises: a restart, a crash, a slow or stale
\* task loses no job and gives none up early.
Promise == INSTANCE JobPromises WITH
    Allowed  <- [i \in Id |-> Retries[TaskOf[i]]],
    Kept     <- [i \in Id |-> KeepDead[TaskOf[i]]],
    Runnable <- {i \in Id : TaskOf[i] \in Known},
    phase    <- Phase

KeepsPromises == Promise!Spec

\* Every queued job is settled in the end, unless the last loop there is goes
\* first: crashes, failed statements and stopped loops only delay it, for its
\* lease lapses (claim).
EveryJobSettles ==
    \A i \in Id : rows[i].st = "queued" ~> \/ rows[i].st \in {"dead", "gone"}
                                          \/ \A w \in Worker : loop[w] = "gone"

-----------------------------------------------------------------------------
(* Inductive invariants: what JobQueueProofs rests on. *)

\* What a busy slot remembers of its row, whatever has become of the row since.
RunOK == \A r \in Runner : Busy(r) =>
    LET t == TaskOf[run[r].job] IN
    /\ rows[run[r].job].st # "none"
    /\ t \in Known \/ run[r].ph = "bury"
    /\ run[r].ph = "retry" => run[r].count < Retries[t]
    /\ run[r].ph = "exhausted" => Retries[t] >= 0
    /\ run[r].ph = "bury" /\ t \in Known => KeepDead[t]

\* While every task is prompt, its row is still queued and leased to its loop,
\* the lease outlasts what the task has left, and the attempts are as claimed.
LeaseHeld == \A r \in Runner : Busy(r) =>
    LET i == run[r].job IN
    /\ rows[i].st = "queued" /\ rows[i].by = Owner[r]
    /\ rows[i].attempts = run[r].count
    /\ rows[i].lease > run[r].left + (IF run[r].ph = "performing" THEN Finish ELSE 0)

Distinct == \A r, q \in Runner : Busy(r) /\ run[r].job = run[q].job => r = q

\* A loop that hands its jobs back has aborted every task it had.
HandingBackIdle == \A r \in Runner : loop[Owner[r]] = "handing_back" => ~Busy(r)

AttemptsOK == \A i \in Id : TaskOf[i] \in Known =>
    /\ rows[i].attempts <= Retries[TaskOf[i]] + 1
    /\ rows[i].st = "queued" /\ rows[i].attempts > 0 => rows[i].attempts <= Retries[TaskOf[i]]

PromptInv == Prompt = Working =>
    RunOK /\ LeaseHeld /\ Distinct /\ HandingBackIdle /\ AttemptsOK

\* unique_key is unique, and is still there while the lock is.
KeyInv ==
    /\ \A i \in Id : rows[i].key => rows[i].st = "queued"
    /\ \A i, j \in Id : rows[i].key /\ rows[j].key /\ TaskOf[i] = TaskOf[j] => i = j
    /\ \A i \in Id : Locks(i) => rows[i].key

\* Failures seen but not yet counted in the row's attempts.
Uncounted(i) == {r \in Runner : /\ run[r].job = i
                                /\ run[r].ph \in {"exhausted", "retry", "bury"}}

SpentInv ==
    /\ \A i \in Id : TaskOf[i] \in Known =>
          rows[i].attempts + Cardinality(Uncounted(i)) <= failures[i]
    /\ \A r \in Runner : Busy(r) /\ TaskOf[run[r].job] \in Known =>
          run[r].count <= failures[run[r].job]
    /\ GivenUpOnlyWhenSpent
    /\ \A r \in Runner : run[r].ph = "delete" =>
          \/ run[r].job \in finished
          \/ /\ failures[run[r].job] > 0
             /\ failures[run[r].job] > Retries[TaskOf[run[r].job]]
             /\ ~KeepDead[TaskOf[run[r].job]]

\* The invariant behind OnceUndisturbed, of one row.
Settles(i) ==
    /\ rows[i].by # None => \E r \in Runner : Busy(r) /\ run[r].job = i
    /\ i \in finished => \/ rows[i].st = "gone"
                         \/ \E r \in Runner : run[r].job = i /\ run[r].ph = "delete"
    /\ rows[i].st = "none" => failures[i] = 0
    /\ TaskOf[i] \in Known =>
          /\ rows[i].st \in {"queued", "dead"} =>
                \/ failures[i] <= rows[i].attempts
                \/ /\ failures[i] <= rows[i].attempts + 1
                   /\ \E r \in Runner : run[r].job = i /\ run[r].ph \in Working \ {"performing"}
          /\ rows[i].st = "gone" => failures[i] <= Tries(TaskOf[i])

UndisturbedInv == Undisturbed => \A i \in Id : Settles(i)

=============================================================================
