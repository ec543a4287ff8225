---------------------------- MODULE WorkerBatch ----------------------------
(***************************************************************************)
(* The walk that fetches the replies to one remote status                  *)
(* (src/src/federation/replies.rs): requests that open its thread start it *)
(* (api/mastodon/statuses/context.rs), it queues a job for each reply, and *)
(* walk and replies are one batch (worker_batch.rs), whose end finishes    *)
(* the refresh the clients poll (async_refresh.rs).                        *)
(*                                                                         *)
(* The jobs' queue is JobPromises: they may be performed again, after a    *)
(* failure, a death or a lost record.  A step is one pipeline of commands  *)
(* to Redis, which goes out in one write, or one SQL statement.            *)
(***************************************************************************)
EXTENDS Integers, FiniteSets

CONSTANTS
    Request,     \* requests for the thread's context; also their batches and walks
    Reply,       \* the replies there are, and the jobs that fetch them
    None,        \* the batch of a reply no walk has found yet
    MaxRetries,  \* the retries of all three workers
    MaxFaults,   \* bound: performs cut short, and performs after a lost record
    MaxLost      \* bound: commands that failed, jobs not pushed, requests dropped

ASSUME BatchAssumption ==
    /\ IsFiniteSet(Request) /\ IsFiniteSet(Reply)
    /\ Request \cap Reply = {} /\ None \notin Request
    /\ MaxRetries \in Nat /\ MaxFaults \in Nat /\ MaxLost \in Nat

Job == Request \cup Reply

VARIABLES
    phase, finished, failures,  \* the queue, as in JobPromises
    req,       \* req[q]: where request q is
    refresh,   \* the refresh's status: "none", "running" or "finished"
    results,   \* its result_count
    hash,      \* hash[q]: the key worker_batch:{id} of q's batch
    home,      \* home[r]: the batch in the arguments of reply r's job
    touched,   \* the root's fetched_replies_at has been touched
    held,      \* the replies that are statuses here
    task,      \* task[j]: where the perform of job j is
    faults, lost,
    \* History, read by no action.
    joined,    \* the jobs added to their batch
    left,      \* the jobs that have left it
    again,     \* again[q]: how often jobs that had left batch q left it again
    begun,     \* the jobs a perform of which has begun
    repeated   \* one has begun again

queue == <<phase, finished, failures>>
web == <<req, home>>
keys == <<refresh, results, hash>>
past == <<left, again>>
history == <<joined, past, begun, repeated>>
vars == <<queue, web, keys, touched, held, task, faults, lost, history>>

Queue == INSTANCE JobPromises WITH
    Id <- Job, Allowed <- [j \in Job |-> MaxRetries], Kept <- [j \in Job |-> TRUE],
    Runnable <- Job

\* `ttl`: the hash expires; `key`: it has async_refresh_key, and with it the
\* threshold, 1.0, which is also the default.
Hash == [there : BOOLEAN, ttl : BOOLEAN, key : BOOLEAN, pending : Int, processed : Nat]
NoHash == [there |-> FALSE, ttl |-> FALSE, key |-> FALSE, pending |-> 0, processed |-> 0]

\* `out`: what the queue will hear; `new`: the reply is to be counted; `found`:
\* replies still to be pushed; `over`, `key`: what remove_job read.
Step == {"idle", "touch", "walk", "push", "fetch", "leave", "count", "finish",
         "cleanup", "record"}
Task == [pc : Step, out : {"ok", "err", "none"}, new : BOOLEAN, found : SUBSET Reply,
         over : BOOLEAN, key : BOOLEAN]
NoTask == [pc |-> "idle", out |-> "none", new |-> FALSE, found |-> {},
           over |-> FALSE, key |-> FALSE]

Init == /\ Queue!Init
        /\ req = [q \in Request |-> "off"]
        /\ refresh = "none" /\ results = 0
        /\ hash = [q \in Request |-> NoHash]
        /\ home = [r \in Reply |-> None]
        /\ touched = FALSE
        /\ held = {}
        /\ task = [j \in Job |-> NoTask]
        /\ faults = 0 /\ lost = 0
        /\ joined = {} /\ left = {} /\ again = [q \in Request |-> 0]
        /\ begun = {} /\ repeated = FALSE

BatchOf(j) == IF j \in Request THEN j ELSE home[j]
Lose == lost < MaxLost /\ lost' = lost + 1

-----------------------------------------------------------------------------
(* The context's request *)

Ask(q, from, to) == req[q] = from /\ req' = [req EXCEPT ![q] = to]

\* get_context reads the root.
Load(q) == /\ Ask(q, "off", IF touched THEN "done" ELSE "look")
           /\ UNCHANGED <<queue, home, keys, touched, held, task, faults, lost, history>>

\* AsyncRefresh::new, should_fetch_replies.
Look(q) == /\ Ask(q, "look", IF refresh = "running" THEN "done" ELSE "create")
           /\ UNCHANGED <<queue, home, keys, touched, held, task, faults, lost, history>>

\* AsyncRefresh::create.
CreateRefresh(q) ==
    /\ Ask(q, "create", "connect")
    /\ \/ refresh' = "running" /\ results' = 0 /\ UNCHANGED lost
       \/ Lose /\ UNCHANGED <<refresh, results>>
    /\ UNCHANGED <<queue, home, hash, touched, held, task, faults, history>>

Connect(q) ==
    /\ Ask(q, "connect", "join")
    /\ \/ hash' = [hash EXCEPT ![q].there = TRUE, ![q].key = TRUE] /\ UNCHANGED lost
       \/ Lose /\ UNCHANGED hash
    /\ UNCHANGED <<queue, home, refresh, results, touched, held, task, faults, history>>

Added(h, n) == [h EXCEPT !.there = TRUE, !.ttl = TRUE, !.pending = @ + n]

\* add_jobs.
AddJobs(q, S) ==
    /\ joined' = joined \cup S
    /\ \/ hash' = [hash EXCEPT ![q] = Added(@, Cardinality(S))] /\ UNCHANGED lost
       \/ Lose /\ UNCHANGED hash

Join(q) == /\ Ask(q, "join", "push")
           /\ AddJobs(q, {q})
           /\ UNCHANGED <<queue, home, refresh, results, touched, held, task, faults, past, begun, repeated>>

\* jobs::push, whose error is logged.
Push(j) == \/ Queue!Queue({j}) /\ UNCHANGED lost
           \/ Lose /\ UNCHANGED queue

PushWalk(q) == /\ Ask(q, "push", "done")
               /\ Push(q)
               /\ UNCHANGED <<home, keys, touched, held, task, faults, history>>

\* The client goes away, and the handler is dropped between two commands.
DropRequest(q) ==
    /\ req[q] \in {"connect", "join", "push"}
    /\ req' = [req EXCEPT ![q] = "done"]
    /\ Lose
    /\ UNCHANGED <<queue, home, keys, touched, held, task, faults, history>>

-----------------------------------------------------------------------------
(* The performs *)

Enter(j, from, pc) == task[j].pc = from /\ task' = [task EXCEPT ![j].pc = pc]
Leaves(j, out, new) == [task[j] EXCEPT !.pc = "leave", !.out = out, !.new = new, !.found = {}]

Fault == faults < MaxFaults /\ faults' = faults + 1

\* Mutant: a job that has failed too often is tried again.
BeginAlways(j) ==
    /\ phase[j] = "live"
    /\ IF j \in finished THEN Fault ELSE UNCHANGED faults
    /\ Enter(j, "idle", IF j \in Request THEN "touch" ELSE "fetch")
    /\ begun' = begun \cup {j}
    /\ repeated' = (repeated \/ j \in begun)
    /\ UNCHANGED <<queue, web, keys, touched, held, lost, joined, past>>

\* Not beside another perform of the job.
Begin(j) ==
    /\ phase[j] = "live" /\ ~Queue!SpentRetries(j)
    /\ IF j \in finished THEN Fault ELSE UNCHANGED faults
    /\ Enter(j, "idle", IF j \in Request THEN "touch" ELSE "fetch")
    /\ begun' = begun \cup {j}
    /\ repeated' = (repeated \/ j \in begun)
    /\ UNCHANGED <<queue, web, keys, touched, held, lost, joined, past>>

\* walk_replies: the UPDATE that lets one walk through; its error is no row.
Touch(q) ==
    /\ task[q].pc = "touch"
    /\ \/ ~touched /\ touched' = TRUE /\ task' = [task EXCEPT ![q].pc = "walk"]
       \/ task' = [task EXCEPT ![q] = Leaves(q, "ok", FALSE)] /\ UNCHANGED touched
    /\ UNCHANGED <<queue, web, keys, held, faults, lost, history>>

\* push_fetch_reply_workers.
Find(q, S) ==
    /\ task[q].pc = "walk"
    /\ S # {} /\ \A r \in S : home[r] = None
    /\ AddJobs(q, S)
    /\ home' = [r \in Reply |-> IF r \in S THEN q ELSE home[r]]
    /\ task' = [task EXCEPT ![q].pc = "push", ![q].found = S]
    /\ UNCHANGED <<queue, req, refresh, results, touched, held, faults, past, begun, repeated>>

PushReply(q, r) ==
    /\ task[q].pc = "push" /\ r \in task[q].found
    /\ Push(r)
    /\ task' = [task EXCEPT ![q].found = @ \ {r},
                            ![q].pc = IF task[q].found = {r} THEN "walk" ELSE "push"]
    /\ UNCHANGED <<web, keys, touched, held, faults, history>>

\* Its end, or a page or the root that was not answered.
WalkEnds(q) ==
    /\ task[q].pc = "walk"
    /\ \E out \in {"ok", "err"} : task' = [task EXCEPT ![q] = Leaves(q, out, FALSE)]
    /\ UNCHANGED <<queue, web, keys, touched, held, faults, lost, history>>

\* Mutant: a reply that is held already is counted, too.
FetchCounts(r) ==
    /\ task[r].pc = "fetch"
    /\ \/ /\ held' = held \cup {r}
          /\ task' = [task EXCEPT ![r] = Leaves(r, "ok", TRUE)]
       \/ task' = [task EXCEPT ![r] = Leaves(r, "err", FALSE)] /\ UNCHANGED held
    /\ UNCHANGED <<queue, web, keys, touched, faults, lost, history>>

\* fetch_remote_status_by_url: created, held before, not wanted, or failed.
Fetch(r) ==
    /\ task[r].pc = "fetch"
    /\ \/ /\ r \notin held /\ held' = held \cup {r}
          /\ task' = [task EXCEPT ![r] = Leaves(r, "ok", TRUE)]
       \/ /\ \E out \in {"ok", "err"} : task' = [task EXCEPT ![r] = Leaves(r, out, FALSE)]
          /\ UNCHANGED held
    /\ UNCHANGED <<queue, web, keys, touched, faults, lost, history>>

-----------------------------------------------------------------------------
(* remove_job *)

\* Mutant: processed, but still pending.
GoneProcessed(h) == [h EXCEPT !.there = TRUE, !.processed = @ + 1]
Gone(h) == [h EXCEPT !.there = TRUE, !.pending = @ - 1, !.processed = @ + 1]

\* Mutant: the share is taken of the jobs still pending.
OverAtHalf(h) == h.pending = 0 \/ h.processed >= h.pending
\* Mutant: only the job that brings pending to nought ends the batch.
OverAtNought(h) == h.pending = 0
\* processed >= threshold * (processed + pending).
Over(h) == h.pending = 0 \/ h.processed >= h.processed + h.pending

\* Where remove_job goes on once the results are counted.
Ending(over, key) == IF ~over THEN "record" ELSE IF key THEN "finish" ELSE "cleanup"

Leave(j) ==
    /\ task[j].pc = "leave"
    /\ \/ LET h == Gone(hash[BatchOf(j)]) IN
          /\ hash' = [hash EXCEPT ![BatchOf(j)] = h]
          /\ task' = [task EXCEPT ![j].over = Over(h), ![j].key = h.key,
                         ![j].pc = IF task[j].new /\ h.key THEN "count"
                                   ELSE Ending(Over(h), h.key)]
          /\ UNCHANGED lost
       \/ /\ Lose
          /\ task' = [task EXCEPT ![j].pc = "record"]
          /\ UNCHANGED hash
    /\ left' = left \cup {j}
    /\ again' = [again EXCEPT ![BatchOf(j)] = @ + IF j \in left THEN 1 ELSE 0]
    /\ UNCHANGED <<queue, web, refresh, results, touched, held, faults, joined, begun, repeated>>

\* increment_result_count.
Count(j) ==
    /\ Enter(j, "count", Ending(task[j].over, task[j].key))
    /\ \/ results' = results + 1 /\ UNCHANGED lost
       \/ Lose /\ UNCHANGED results
    /\ UNCHANGED <<queue, web, refresh, hash, touched, held, faults, history>>

\* async_refresh::finish.
Finish(j) ==
    /\ Enter(j, "finish", "cleanup")
    /\ \/ refresh' = "finished" /\ UNCHANGED lost
       \/ Lose /\ UNCHANGED refresh
    /\ UNCHANGED <<queue, web, results, hash, touched, held, faults, history>>

Cleanup(j) ==
    /\ Enter(j, "cleanup", "record")
    /\ \/ hash' = [hash EXCEPT ![BatchOf(j)] = NoHash] /\ UNCHANGED lost
       \/ Lose /\ UNCHANGED hash
    /\ UNCHANGED <<queue, web, refresh, results, touched, held, faults, history>>

Record(j) ==
    /\ task[j].pc = "record"
    /\ task' = [task EXCEPT ![j] = NoTask]
    /\ CASE task[j].out = "ok"  -> Queue!PerformOk(j)
         [] task[j].out = "err" -> Queue!PerformFails(j)
         [] OTHER -> UNCHANGED queue
    /\ UNCHANGED <<web, keys, touched, held, faults, lost, history>>

\* The process dies with it; or it is aborted, and its Membership, if it has not
\* been taken yet, leaves in a task of its own, uncounted.  The replies a walk had
\* still to push are in the batch and never in the queue.
Cut(j) ==
    /\ task[j].pc # "idle"
    /\ Fault
    /\ IF task[j].found # {} THEN Lose ELSE UNCHANGED lost
    /\ \/ task' = [task EXCEPT ![j] = NoTask]
       \/ /\ task[j].pc \in {"touch", "walk", "push", "fetch"}
          /\ task' = [task EXCEPT ![j] = Leaves(j, "none", FALSE)]
    /\ UNCHANGED <<queue, web, keys, touched, held, history>>

\* The hour is over.
Expire(q) ==
    /\ hash[q].ttl /\ Lose
    /\ hash' = [hash EXCEPT ![q] = NoHash]
    /\ UNCHANGED <<queue, web, refresh, results, touched, held, task, faults, history>>

Settle(j) == /\ Queue!Complete(j) \/ Queue!Bury(j)
             /\ UNCHANGED <<web, keys, touched, held, task, faults, lost, history>>

-----------------------------------------------------------------------------
Requests(q) == Load(q) \/ Look(q) \/ CreateRefresh(q) \/ Connect(q) \/ Join(q) \/ PushWalk(q)

Walks(q) == \/ Touch(q) \/ WalkEnds(q)
            \/ \E S \in SUBSET Reply : Find(q, S)
            \/ \E r \in Reply : PushReply(q, r)

Removes(j) == Leave(j) \/ Count(j) \/ Finish(j) \/ Cleanup(j)

Performs(j) == \/ j \in Request /\ Walks(j)
               \/ j \in Reply /\ Fetch(j)
               \/ Removes(j) \/ Record(j)

Next == \/ \E q \in Request : Requests(q) \/ DropRequest(q) \/ Expire(q)
        \/ \E j \in Job : Begin(j) \/ Performs(j) \/ Cut(j) \/ Settle(j)

\* Requests and performs go on once begun, and the queue performs a live job
\* until it settles.
Fairness == /\ \A q \in Request : WF_vars(req[q] # "off" /\ Requests(q))
            /\ \A j \in Job : /\ WF_vars(Performs(j))
                              /\ WF_vars(j \notin finished /\ Begin(j))
                              /\ WF_vars(Settle(j))

Spec == Init /\ [][Next]_vars
FairSpec == Spec /\ Fairness

-----------------------------------------------------------------------------
(* Properties *)

TypeOK ==
    /\ phase \in [Job -> {"unqueued", "live", "dead", "gone"}]
    /\ finished \in SUBSET Job /\ failures \in [Job -> 0..MaxRetries + 1]
    /\ req \in [Request -> {"off", "look", "create", "connect", "join", "push", "done"}]
    /\ refresh \in {"none", "running", "finished"} /\ results \in Nat
    /\ hash \in [Request -> Hash]
    /\ \A q \in Request : ~hash[q].there => hash[q] = NoHash
    /\ home \in [Reply -> Request \cup {None}]
    /\ touched \in BOOLEAN /\ held \in SUBSET Reply
    /\ task \in [Job -> Task]
    /\ faults \in 0..MaxFaults /\ lost \in 0..MaxLost
    /\ {joined, left, begun} \subseteq SUBSET Job
    /\ again \in [Request -> Nat] /\ repeated \in BOOLEAN

Joined(q) == {j \in joined : BatchOf(j) = q}
Outstanding(q) == Joined(q) \ left
Started == {q \in Request : req[q] \notin {"off", "look"} /\ q \in joined}

\* As long as no job is performed again, and one request started the walk, clients
\* are told that it is finished only once walk and replies have left: every job
\* is in the batch before it can leave it (add_jobs before push).
FinishedWhenDone ==
    refresh = "finished" /\ lost = 0 /\ Cardinality(Started) <= 1 /\ ~repeated
    => \A q \in Request : Outstanding(q) = {}

\* Until a batch ends it counts the jobs still in it, less those that left again
\* for another attempt: so it ends with no more jobs in it than left again ("a
\* job that leaves twice - once for each attempt - counts twice").
EarlyByRepeats ==
    \A q \in Request : hash[q].key /\ lost = 0 =>
        Cardinality(Outstanding(q)) = hash[q].pending + again[q]

\* When all has settled no key of a batch is left, not even one that came back,
\* without an expiry, because a job left after the end.  It takes two faults to
\* leave one: a job performed again after a lost record, whose process then dies
\* between leaving the batch and the end (remove_job, cleanup).
LeftByFaults ==
    /\ lost = 0
    /\ \A q \in Request : req[q] \in {"off", "look", "done"}
    /\ \A j \in Job : task[j].pc = "idle" /\ phase[j] # "live"
    => 2 * Cardinality({q \in Request : hash[q].there}) <= faults

\* A reply is counted in the results once, however often it is fetched, and
\* never if it was held before.
ResultsCounted == results <= Cardinality(held)

\* A refresh that is running is finished, whatever fails, is retried or dies:
\* unless Redis or the queue did not take a command, or the request was dropped.
RefreshEnds == refresh = "running" ~> refresh # "running" \/ lost > 0
=============================================================================
