------------------------- MODULE WorkerBatchProofs -------------------------
(***************************************************************************)
(* Theorems about WorkerBatch, for any number of requests, of replies, of  *)
(* retries and of faults: what a batch counts, when it ends, what it       *)
(* leaves behind, that nothing at rest is still shown as running, and that *)
(* its jobs are performed as the queue performs any.                       *)
(***************************************************************************)
EXTENDS WorkerBatch, FiniteSetTheorems, TLAPS

-----------------------------------------------------------------------------
(* Types, and which jobs are where *)

Before == {"touch", "walk", "push", "fetch", "leave"}
After == {"count", "finish", "cleanup", "record"}

\* A job is in its batch before the queue has it, and the queue before a perform.
Placed ==
    /\ \A r \in Reply : r \in joined <=> home[r] # None
    /\ \A r \in Reply : home[r] # None => home[r] \in joined
    /\ \A q \in Request : task[q].found \subseteq {r \in Reply : home[r] = q}
    /\ \A j \in Job : phase[j] # "unqueued" => j \in joined
    /\ \A q \in Request : q \in joined => req[q] \in {"push", "done"}
    /\ \A q \in Request : req[q] = "push" => q \in joined

\* And the queue hears nothing of a job but from its perform.
Queued == \A j \in Job : task[j].pc # "idle" => phase[j] # "unqueued" /\ ~Queue!SpentRetries(j)

Base == /\ TypeOK
        /\ Placed
        /\ Queued

\* Perform j goes on to `t`, and no other moves.
Moves(j, t) == /\ task' \in [Job -> Task]
               /\ task'[j] = t
               /\ \A k \in Job : k # j => task'[k] = task[k]

\* What a perform becomes as it goes on: these are facts of records.
LEMMA EnterType ==
    ASSUME NEW u \in Task, NEW pc \in Step
    PROVE  /\ [u EXCEPT !.pc = pc] \in Task /\ [u EXCEPT !.pc = pc].pc = pc
           /\ [u EXCEPT !.pc = pc].new = u.new /\ [u EXCEPT !.pc = pc].out = u.out
           /\ [u EXCEPT !.pc = pc].found = u.found
           /\ [u EXCEPT !.pc = pc].over = u.over /\ [u EXCEPT !.pc = pc].key = u.key
BY DEF Task

LEMMA PerformType == ASSUME TypeOK, NEW j \in Job PROVE task[j] \in Task
BY DEF TypeOK

LEMMA SetMoves == ASSUME TypeOK, NEW j \in Job, NEW t \in Task, task' = [task EXCEPT ![j] = t]
                  PROVE  Moves(j, t)
  BY DEF Moves, TypeOK

LEMMA EnterMoves ==
    ASSUME TypeOK, NEW j \in Job, NEW pc \in Step, task' = [task EXCEPT ![j].pc = pc]
    PROVE  Moves(j, [task[j] EXCEPT !.pc = pc])
<1>1. [task[j] EXCEPT !.pc = pc] \in Task
  BY PerformType, EnterType
<1> QED BY <1>1 DEF Moves, TypeOK

LEMMA LeavesType ==
    ASSUME TypeOK, NEW j \in Job, NEW out \in {"ok", "err", "none"}, NEW new \in BOOLEAN
    PROVE  /\ Leaves(j, out, new) \in Task
           /\ Leaves(j, out, new).pc = "leave" /\ Leaves(j, out, new).out = out
           /\ Leaves(j, out, new).new = new /\ Leaves(j, out, new).found = {}
<1>1. task[j] \in Task
  BY PerformType
<1> QED BY <1>1 DEF Task, Leaves, Step

LEMMA NoTaskType == NoTask \in Task /\ NoTask.pc = "idle" /\ NoTask.found = {} /\ ~NoTask.new
  BY DEF NoTask, Task, Step

QueueType == /\ phase \in [Job -> {"unqueued", "live", "dead", "gone"}]
             /\ finished \in SUBSET Job /\ failures \in [Job -> 0..MaxRetries + 1]
WebType == /\ req \in [Request -> {"off", "look", "create", "connect", "join", "push", "done"}]
           /\ refresh \in {"none", "running", "finished"} /\ results \in Nat
           /\ home \in [Reply -> Request \cup {None}]
HashType == /\ hash \in [Request -> Hash]
            /\ \A q \in Request : ~hash[q].there => hash[q] = NoHash
TaskType == task \in [Job -> Task]
PastType == /\ touched \in BOOLEAN /\ held \in SUBSET Reply
            /\ faults \in 0..MaxFaults /\ lost \in 0..MaxLost
            /\ {joined, left, begun} \subseteq SUBSET Job
            /\ again \in [Request -> Nat] /\ repeated \in BOOLEAN

LEMMA Types == TypeOK <=> QueueType /\ WebType /\ HashType /\ TaskType /\ PastType
  BY DEF TypeOK, QueueType, WebType, HashType, TaskType, PastType

LEMMA TypesNext == ASSUME QueueType', WebType', HashType', TaskType', PastType' PROVE TypeOK'
  BY DEF TypeOK, QueueType, WebType, HashType, TaskType, PastType

LEMMA TypesKept == /\ QueueType /\ UNCHANGED queue => QueueType'
                   /\ WebType /\ UNCHANGED <<web, refresh, results>> => WebType'
                   /\ HashType /\ UNCHANGED hash => HashType'
                   /\ TaskType /\ UNCHANGED task => TaskType'
                   /\ PastType /\ UNCHANGED <<touched, held, faults, lost, history>> => PastType'
  BY DEF QueueType, WebType, HashType, TaskType, PastType, queue, web, history, past

LEMMA AddedType ==
    ASSUME NEW h \in Hash, NEW n \in Int
    PROVE  /\ Added(h, n) \in Hash /\ Added(h, n).there
           /\ Added(h, n).key = h.key /\ Added(h, n).pending = h.pending + n
<1>1. PICK m \in Int : m = h.pending + n
  BY DEF Hash
<1>2. Added(h, n) = [h EXCEPT !.there = TRUE, !.ttl = TRUE, !.pending = m]
  BY <1>1 DEF Added
<1>3. [h EXCEPT !.there = TRUE, !.ttl = TRUE, !.pending = m] \in Hash
  BY DEF Hash
<1> QED BY <1>1, <1>2, <1>3 DEF Hash

\* The requests, up to the first push.
LEMMA TypeRequests == ASSUME Base, NEW q \in Request, Requests(q) \/ DropRequest(q) PROVE TypeOK'
<1> USE DEF Ask, Lose
<1>t. QueueType /\ WebType /\ HashType /\ TaskType /\ PastType
  BY Types DEF Base
<1>b. lost + 1 \in 0..MaxLost \/ ~(lost < MaxLost)
  BY <1>t, BatchAssumption DEF PastType
<1>1. CASE Load(q) \/ Look(q) \/ DropRequest(q)
  <2>1. WebType'
    BY <1>1, <1>t DEF Load, Look, DropRequest, WebType, keys, history
  <2>2. PastType'
    BY <1>1, <1>t, <1>b DEF Load, Look, DropRequest, PastType, history, past
  <2> QED BY <1>1, <1>t, <2>1, <2>2, TypesNext, TypesKept DEF Load, Look, DropRequest, keys
<1>2. CASE CreateRefresh(q)
  <2>1. WebType'
    BY <1>2, <1>t DEF CreateRefresh, WebType
  <2>2. PastType'
    BY <1>2, <1>t, <1>b DEF CreateRefresh, PastType, history, past
  <2> QED BY <1>2, <1>t, <2>1, <2>2, TypesNext, TypesKept DEF CreateRefresh
<1>3. CASE Connect(q)
  <2>1. WebType'
    BY <1>3, <1>t DEF Connect, WebType
  <2>2. PastType'
    BY <1>3, <1>t, <1>b DEF Connect, PastType, history, past
  <2>3. HashType'
    <3>1. CASE UNCHANGED hash
      BY <3>1, <1>t, TypesKept
    <3>2. CASE hash' = [hash EXCEPT ![q].there = TRUE, ![q].key = TRUE]
      <4> DEFINE h == [hash[q] EXCEPT !.there = TRUE, !.key = TRUE]
      <4>1. hash[q] \in Hash
        BY <1>t DEF HashType
      <4>2. h \in Hash /\ h.there
        BY <4>1 DEF Hash
      <4>3. hash' = [hash EXCEPT ![q] = h]
        BY <3>2
      <4> HIDE DEF h
      <4> QED BY <4>2, <4>3, <1>t DEF HashType
    <3> QED BY <1>3, <3>1, <3>2 DEF Connect
  <2> QED BY <1>3, <1>t, <2>1, <2>2, <2>3, TypesNext, TypesKept DEF Connect
<1>4. CASE Join(q)
  <2>1. WebType'
    BY <1>4, <1>t DEF Join, WebType
  <2>2. PastType'
    BY <1>4, <1>t, <1>b DEF Join, AddJobs, PastType, past, Job
  <2>3. HashType'
    <3>1. Cardinality({q}) = 1
      BY FS_Singleton
    <3>2. CASE UNCHANGED hash
      BY <3>2, <1>t, TypesKept
    <3>3. CASE hash' = [hash EXCEPT ![q] = Added(@, 1)]
      BY <3>3, <1>t, AddedType DEF HashType
    <3> QED BY <1>4, <3>1, <3>2, <3>3 DEF Join, AddJobs
  <2> QED BY <1>4, <1>t, <2>1, <2>2, <2>3, TypesNext, TypesKept DEF Join
<1>5. CASE PushWalk(q)
  <2>1. WebType'
    BY <1>5, <1>t DEF PushWalk, WebType, keys
  <2>2. PastType'
    BY <1>5, <1>t, <1>b DEF PushWalk, Push, PastType, history, past
  <2>3. QueueType'
    BY <1>5, <1>t DEF PushWalk, Push, QueueType, queue, Job, Queue!Queue, Queue!Become
  <2> QED BY <1>5, <1>t, <2>1, <2>2, <2>3, TypesNext, TypesKept DEF PushWalk, keys
<1> QED BY <1>1, <1>2, <1>3, <1>4, <1>5 DEF Requests

LEMMA PlacedRequests ==
    ASSUME Base, NEW q \in Request, Requests(q) \/ DropRequest(q) PROVE Placed' /\ Queued'
<1> USE DEF Ask, Base, TypeOK
<1>1. CASE Load(q) \/ Look(q) \/ DropRequest(q) \/ CreateRefresh(q) \/ Connect(q)
  <2>1. /\ UNCHANGED <<queue, home, task, joined>>
        /\ \E to : req' = [req EXCEPT ![q] = to]
        /\ req[q] \in {"off", "look", "create", "connect", "join"} \/ req'[q] = "done"
        /\ req'[q] # "push"
    BY <1>1 DEF Load, Look, DropRequest, CreateRefresh, Connect, history
  <2>2. Placed'
    BY <2>1 DEF Placed, queue
  <2> QED BY <2>1, <2>2 DEF Queued, queue, Queue!SpentRetries
<1>4. CASE Join(q)
  <2>1. /\ UNCHANGED <<queue, home, task>>
        /\ req' = [req EXCEPT ![q] = "push"] /\ joined' = joined \cup {q}
    BY <1>4 DEF Join, AddJobs
  <2>2. Placed'
    BY <2>1, BatchAssumption DEF Placed, queue, Job
  <2> QED BY <2>1, <2>2 DEF Queued, queue, Queue!SpentRetries
<1>5. CASE PushWalk(q)
  <2>1. /\ UNCHANGED <<home, task, joined, finished, failures>>
        /\ req[q] = "push" /\ req' = [req EXCEPT ![q] = "done"]
        /\ phase'[q] \in {phase[q], "live"} /\ \A j \in Job : j # q => phase'[j] = phase[j]
    BY <1>5 DEF PushWalk, Push, history, queue, Queue!Queue, Queue!Become
  <2>2. Placed'
    BY <2>1 DEF Placed, Job
  <2>3. Queued'
    BY <2>1 DEF Queued, Queue!SpentRetries
  <2> QED BY <2>2, <2>3
<1> QED BY <1>1, <1>4, <1>5 DEF Requests

-----------------------------------------------------------------------------
(* The performs *)

\* What a step of a perform does to the tasks, and to what is said of them.
LEMMA TypePerforms ==
    ASSUME Base, NEW j \in Job, Begin(j) \/ (j \in Request /\ Walks(j)) \/ (j \in Reply /\ Fetch(j))
    PROVE  TypeOK'
<1> USE DEF Enter, Lose, Fault
<1>t. QueueType /\ WebType /\ HashType /\ TaskType /\ PastType /\ TypeOK
  BY Types DEF Base
<1>b. lost + 1 \in 0..MaxLost \/ ~(lost < MaxLost)
  BY <1>t, BatchAssumption DEF PastType
<1>f. faults + 1 \in 0..MaxFaults \/ ~(faults < MaxFaults)
  BY <1>t, BatchAssumption DEF PastType
<1>1. CASE Begin(j)
  <2>1. TaskType'
    <3>1. PICK pc \in {"touch", "fetch"} : task' = [task EXCEPT ![j].pc = pc]
      BY <1>1 DEF Begin
    <3> QED BY <1>t, <3>1, EnterMoves DEF TaskType, Moves, Step
  <2>2. PastType'
    BY <1>1, <1>t, <1>f DEF Begin, PastType, past
  <2> QED BY <1>1, <1>t, <2>1, <2>2, TypesNext, TypesKept DEF Begin, keys, web
<1>2. CASE j \in Request /\ Touch(j)
  <2>1. TaskType'
    <3>1. CASE task' = [task EXCEPT ![j].pc = "walk"]
      BY <1>t, <3>1, EnterMoves DEF TaskType, Moves, Step
    <3>2. CASE task' = [task EXCEPT ![j] = Leaves(j, "ok", FALSE)]
      BY <1>t, <3>2, SetMoves, LeavesType DEF TaskType, Moves
    <3> QED BY <1>2, <3>1, <3>2 DEF Touch
  <2>2. PastType'
    BY <1>2, <1>t DEF Touch, PastType, history, past
  <2> QED BY <1>2, <1>t, <2>1, <2>2, TypesNext, TypesKept DEF Touch, keys
<1>3. CASE j \in Request /\ WalkEnds(j)
  <2>1. PICK out \in {"ok", "err"} : task' = [task EXCEPT ![j] = Leaves(j, out, FALSE)]
    BY <1>3 DEF WalkEnds
  <2>2. TaskType'
    BY <1>t, <2>1, SetMoves, LeavesType DEF TaskType, Moves
  <2> QED BY <1>3, <1>t, <2>2, TypesNext, TypesKept DEF WalkEnds, keys
<1>4. ASSUME j \in Request, NEW S \in SUBSET Reply, Find(j, S) PROVE TypeOK'
  <2>0. IsFiniteSet(S) /\ Cardinality(S) \in Nat
    BY BatchAssumption, FS_Subset, FS_CardinalityType
  <2>1. TaskType'
    <3>1. [task[j] EXCEPT !.pc = "push", !.found = S] \in Task
      BY <1>t DEF TaskType, Task, Step
    <3>2. task' = [task EXCEPT ![j] = [task[j] EXCEPT !.pc = "push", !.found = S]]
      BY <1>4, <1>t DEF Find, TaskType
    <3> QED BY <1>t, <3>1, <3>2, SetMoves DEF TaskType, Moves
  <2>2. PastType'
    BY <1>4, <1>t, <1>b DEF Find, AddJobs, PastType, past, Job
  <2>3. HashType'
    <3>2. CASE UNCHANGED hash
      BY <3>2, <1>t, TypesKept
    <3>3. CASE hash' = [hash EXCEPT ![j] = Added(@, Cardinality(S))]
      BY <3>3, <2>0, <1>4, <1>t, AddedType DEF HashType
    <3> QED BY <1>4, <3>2, <3>3 DEF Find, AddJobs
  <2>4. WebType'
    BY <1>4, <1>t DEF Find, WebType
  <2> QED BY <1>4, <1>t, <2>1, <2>2, <2>3, <2>4, TypesNext, TypesKept DEF Find
<1>5. ASSUME j \in Request, NEW r \in Reply, PushReply(j, r) PROVE TypeOK'
  <2>1. TaskType'
    <3> DEFINE t == [task[j] EXCEPT !.found = @ \ {r},
                                    !.pc = IF task[j].found = {r} THEN "walk" ELSE "push"]
    <3>1. t \in Task
      BY <1>t DEF TaskType, Task, Step
    <3>2. task' = [task EXCEPT ![j] = t]
      BY <1>5, <1>t DEF PushReply, TaskType
    <3> QED BY <1>t, <3>1, <3>2, SetMoves DEF TaskType, Moves
  <2>2. PastType'
    BY <1>5, <1>t, <1>b DEF PushReply, Push, PastType, history, past
  <2>3. QueueType'
    BY <1>5, <1>t DEF PushReply, Push, QueueType, queue, Job, Queue!Queue, Queue!Become
  <2> QED BY <1>5, <1>t, <2>1, <2>2, <2>3, TypesNext, TypesKept DEF PushReply, keys
<1>6. CASE j \in Reply /\ Fetch(j)
  <2>1. PICK out \in {"ok", "err"}, new \in BOOLEAN :
            task' = [task EXCEPT ![j] = Leaves(j, out, new)]
    BY <1>6 DEF Fetch
  <2>2. TaskType'
    BY <1>t, <2>1, SetMoves, LeavesType DEF TaskType, Moves
  <2>3. PastType'
    BY <1>6, <1>t DEF Fetch, PastType, history, past, Job
  <2> QED BY <1>6, <1>t, <2>2, <2>3, TypesNext, TypesKept DEF Fetch, keys
<1> QED BY <1>1, <1>2, <1>3, <1>4, <1>5, <1>6 DEF Walks

LEMMA NoHashType == /\ NoHash \in Hash /\ ~NoHash.there /\ ~NoHash.key
                    /\ NoHash.pending = 0
  BY DEF NoHash, Hash

LEMMA GoneType ==
    ASSUME NEW h \in Hash
    PROVE  /\ Gone(h) \in Hash /\ Gone(h).there /\ Gone(h).key = h.key
           /\ Gone(h).pending = h.pending - 1 /\ Gone(h).processed = h.processed + 1
<1>1. PICK m \in Int : m = h.pending - 1
  BY DEF Hash
<1>2. PICK n \in Nat : n = h.processed + 1
  BY DEF Hash
<1>3. Gone(h) = [h EXCEPT !.there = TRUE, !.pending = m, !.processed = n]
  BY <1>1, <1>2 DEF Gone
<1>4. [h EXCEPT !.there = TRUE, !.pending = m, !.processed = n] \in Hash
  BY DEF Hash
<1> QED BY <1>1, <1>2, <1>3, <1>4 DEF Hash

LEMMA EndingType == ASSUME NEW over \in BOOLEAN, NEW key \in BOOLEAN
                    PROVE  Ending(over, key) \in {"finish", "cleanup", "record"}
  BY DEF Ending

\* Whoever is at work is in a batch.
LEMMA Homed == ASSUME Base, NEW j \in Job, j \in joined PROVE BatchOf(j) \in Request
  BY BatchAssumption DEF Base, TypeOK, Placed, Job, BatchOf

LEMMA AtWork == ASSUME Base, NEW j \in Job, task[j].pc # "idle"
                PROVE  j \in joined /\ BatchOf(j) \in Request
  BY Homed DEF Base, Queued, Placed

\* A perform takes its job out of the batch.
LEMMA LeaveStep ==
    ASSUME Base, NEW j \in Job, Leave(j)
    PROVE  /\ task[j].pc = "leave" /\ BatchOf(j) \in Request
           /\ \E t \in Task :
                 /\ Moves(j, t) /\ t.new = task[j].new /\ t.out = task[j].out
                 /\ t.found = task[j].found
                 /\ \/ /\ hash' = [hash EXCEPT ![BatchOf(j)] = Gone(hash[BatchOf(j)])]
                       /\ t.over = Over(Gone(hash[BatchOf(j)])) /\ t.key = hash[BatchOf(j)].key
                       /\ t.pc = IF task[j].new /\ t.key THEN "count" ELSE Ending(t.over, t.key)
                       /\ UNCHANGED lost
                    \/ Lose /\ UNCHANGED hash /\ t.pc = "record"
<1>1. task[j].pc = "leave" /\ BatchOf(j) \in Request /\ TypeOK
  BY AtWork DEF Leave, Base
<1> DEFINE b == BatchOf(j)  h == Gone(hash[b])
           pc == IF task[j].new /\ h.key THEN "count" ELSE Ending(Over(h), h.key)
<1>2. h \in Hash /\ h.key = hash[b].key /\ Over(h) \in BOOLEAN /\ h.key \in BOOLEAN
  <2>1. hash[b] \in Hash
    BY <1>1 DEF TypeOK
  <2>2. h \in Hash /\ h.key = hash[b].key
    BY <2>1, GoneType
  <2> QED BY <2>2 DEF Hash, Over
<1>3. pc \in Step
  BY <1>2, EndingType DEF Step
<1>4. CASE hash' = [hash EXCEPT ![b] = h] /\ UNCHANGED lost
           /\ task' = [task EXCEPT ![j].over = Over(h), ![j].key = h.key, ![j].pc = pc]
  <2> DEFINE t == [task[j] EXCEPT !.over = Over(h), !.key = h.key, !.pc = pc]
  <2> HIDE DEF h, pc
  <2>1. t \in Task /\ t.over = Over(h) /\ t.key = h.key /\ t.pc = pc
        /\ t.new = task[j].new /\ t.out = task[j].out /\ t.found = task[j].found
    <3>1. task[j] \in Task
      BY <1>1, PerformType
    <3> QED BY <1>2, <1>3, <3>1 DEF Task
  <2>2. task' = [task EXCEPT ![j] = t]
    BY <1>1, <1>4 DEF TypeOK
  <2>3. Moves(j, t)
    BY <1>1, <2>1, <2>2, SetMoves
  <2>4. t.pc = IF task[j].new /\ t.key THEN "count" ELSE Ending(t.over, t.key)
    BY <2>1 DEF pc
  <2> QED BY <1>1, <1>2, <1>4, <2>1, <2>3, <2>4 DEF h
<1>5. CASE Lose /\ UNCHANGED hash /\ task' = [task EXCEPT ![j].pc = "record"]
  <2> DEFINE t == [task[j] EXCEPT !.pc = "record"]
  <2>1. Moves(j, t)
    BY <1>1, <1>5, EnterMoves DEF Step
  <2>2. t \in Task /\ t.pc = "record" /\ t.new = task[j].new /\ t.out = task[j].out
        /\ t.found = task[j].found
    BY <1>1 DEF TypeOK, Task, Step
  <2> QED BY <1>1, <1>5, <2>1, <2>2
<1> QED BY <1>4, <1>5 DEF Leave

LEMMA TypeRemoves == ASSUME Base, NEW j \in Job, Removes(j) \/ Record(j) \/ Cut(j) PROVE TypeOK'
<1> USE DEF Lose, Fault
<1>t. QueueType /\ WebType /\ HashType /\ TaskType /\ PastType /\ TypeOK
  BY Types DEF Base
<1>b. lost + 1 \in 0..MaxLost \/ ~(lost < MaxLost)
  BY <1>t, BatchAssumption DEF PastType
<1>f. faults + 1 \in 0..MaxFaults \/ ~(faults < MaxFaults)
  BY <1>t, BatchAssumption DEF PastType
<1>1. CASE Leave(j)
  <2>1. TaskType'
    BY <1>1, LeaveStep DEF TaskType, Moves
  <2>2. PastType'
    <3>1. again' \in [Request -> Nat]
      <4>1. PICK n \in {0, 1} : again' = [again EXCEPT ![BatchOf(j)] = @ + n]
        BY <1>1 DEF Leave
      <4>2. again \in [Request -> Nat] /\ BatchOf(j) \in Request
        BY <1>1, <1>t, LeaveStep DEF PastType
      <4> HIDE <1>1, <1>t
      <4> QED BY <4>1, <4>2
    <3> QED BY <1>1, <1>t, <1>b, <3>1 DEF Leave, PastType, Job
  <2>3. HashType'
    <3>1. CASE UNCHANGED hash
      BY <1>t, <3>1, TypesKept
    <3>2. CASE hash' = [hash EXCEPT ![BatchOf(j)] = Gone(hash[BatchOf(j)])]
      BY <1>1, <1>t, <3>2, LeaveStep, GoneType DEF HashType
    <3> QED BY <1>1, <3>1, <3>2, LeaveStep
  <2> QED BY <1>1, <1>t, <2>1, <2>2, <2>3, TypesNext, TypesKept DEF Leave
<1>2. CASE Count(j)
  <2>1. TaskType'
    <3>1. PICK pc \in Step : task' = [task EXCEPT ![j].pc = pc]
      <4>1. Ending(task[j].over, task[j].key) \in Step
        BY <1>t, EndingType DEF TaskType, Task, Step
      <4> QED BY <4>1, <1>2 DEF Count, Enter
    <3> QED BY <1>t, <3>1, EnterMoves DEF TaskType, Moves
  <2>2. PastType'
    BY <1>2, <1>t, <1>b DEF Count, PastType, history, past
  <2>3. WebType'
    BY <1>2, <1>t DEF Count, WebType, web
  <2> QED BY <1>2, <1>t, <2>1, <2>2, <2>3, TypesNext, TypesKept DEF Count
<1>3. CASE Finish(j)
  <2>1. TaskType'
    BY <1>3, <1>t, EnterMoves DEF Finish, Enter, TaskType, Moves, Step
  <2>2. PastType'
    BY <1>3, <1>t, <1>b DEF Finish, PastType, history, past
  <2>3. WebType'
    BY <1>3, <1>t DEF Finish, WebType, web
  <2> QED BY <1>3, <1>t, <2>1, <2>2, <2>3, TypesNext, TypesKept DEF Finish
<1>4. CASE Cleanup(j)
  <2>1. TaskType'
    BY <1>4, <1>t, EnterMoves DEF Cleanup, Enter, TaskType, Moves, Step
  <2>2. PastType'
    BY <1>4, <1>t, <1>b DEF Cleanup, PastType, history, past
  <2>3. HashType'
    BY <1>4, <1>t, NoHashType DEF Cleanup, HashType
  <2> QED BY <1>4, <1>t, <2>1, <2>2, <2>3, TypesNext, TypesKept DEF Cleanup
<1>5. CASE Record(j)
  <2>1. TaskType'
    BY <1>5, <1>t, SetMoves, NoTaskType DEF Record, TaskType, Moves
  <2>2. QueueType'
    <3>1. CASE UNCHANGED queue
      BY <1>t, <3>1, TypesKept
    <3>2. CASE Queue!PerformOk(j)
      BY <1>t, <3>2 DEF QueueType, Queue!PerformOk
    <3>3. CASE Queue!PerformFails(j)
      <4>1. failures[j] + 1 \in 0..MaxRetries + 1
        <5>1. task[j].pc # "idle"
          BY <1>5 DEF Record
        <5>2. ~(failures[j] > 0 /\ failures[j] > MaxRetries)
          BY <5>1 DEF Base, Queued, Queue!SpentRetries
        <5> QED BY <5>2, <1>t, BatchAssumption DEF QueueType
      <4> QED BY <1>t, <3>3, <4>1 DEF QueueType, Queue!PerformFails
    <3> QED BY <1>5, <3>1, <3>2, <3>3 DEF Record
  <2> QED BY <1>5, <1>t, <2>1, <2>2, TypesNext, TypesKept DEF Record, keys
<1>6. CASE Cut(j)
  <2>1. TaskType'
    BY <1>6, <1>t, SetMoves, NoTaskType, LeavesType DEF Cut, TaskType, Moves
  <2>2. PastType'
    BY <1>6, <1>t, <1>b, <1>f DEF Cut, PastType, history, past
  <2> QED BY <1>6, <1>t, <2>1, <2>2, TypesNext, TypesKept DEF Cut, keys
<1> QED BY <1>1, <1>2, <1>3, <1>4, <1>5, <1>6 DEF Removes

LEMMA TypeOthers ==
    ASSUME Base, (\E q \in Request : Expire(q)) \/ (\E j \in Job : Settle(j)) PROVE TypeOK'
<1>t. QueueType /\ WebType /\ HashType /\ TaskType /\ PastType /\ TypeOK
  BY Types DEF Base
<1>1. ASSUME NEW q \in Request, Expire(q) PROVE TypeOK'
  <2>1. PastType'
    BY <1>1, <1>t, BatchAssumption DEF Expire, Lose, PastType, history, past
  <2>2. HashType'
    BY <1>1, <1>t, NoHashType DEF Expire, HashType
  <2> QED BY <1>1, <1>t, <2>1, <2>2, TypesNext, TypesKept DEF Expire
<1>2. ASSUME NEW j \in Job, Settle(j) PROVE TypeOK'
  <2>1. QueueType'
    BY <1>2, <1>t DEF Settle, QueueType, Queue!Complete, Queue!Bury, Queue!Become
  <2> QED BY <1>2, <1>t, <2>1, TypesNext, TypesKept DEF Settle, keys
<1> QED BY <1>1, <1>2

LEMMA PlacedKept ==
    ASSUME Base, UNCHANGED <<joined, home, req, phase, failures>>,
           \A q \in Request : task'[q].found \subseteq task[q].found,
           \A j \in Job : task'[j].pc # "idle" => task[j].pc # "idle"
    PROVE  Placed' /\ Queued'
<1>1. Placed'
  BY DEF Base, Placed
<1> QED BY <1>1 DEF Base, Queued, Queue!SpentRetries

LEMMA PlacedMoves ==
    ASSUME Base, UNCHANGED <<joined, home, req, phase, failures>>,
           NEW j \in Job, NEW t, Moves(j, t), task[j].pc # "idle", t.found \subseteq task[j].found
    PROVE  Placed' /\ Queued'
  BY PlacedKept DEF Moves, Job

LEMMA EnterFields ==
    ASSUME TypeOK, NEW j \in Job, NEW pc \in Step
    PROVE  LET t == [task[j] EXCEPT !.pc = pc] IN
           /\ t.pc = pc /\ t.found = task[j].found /\ t.new = task[j].new /\ t.out = task[j].out
           /\ t.over = task[j].over /\ t.key = task[j].key
  BY PerformType, EnterType

LEMMA PlacedPerforms ==
    ASSUME Base, NEW j \in Job, Begin(j) \/ (j \in Request /\ Walks(j)) \/ (j \in Reply /\ Fetch(j))
    PROVE  Placed' /\ Queued'
<1> USE DEF Enter
<1>t. TypeOK /\ Placed /\ Queued
  BY DEF Base
<1>1. CASE Begin(j)
  <2>1. PICK pc \in {"touch", "fetch"} : task' = [task EXCEPT ![j].pc = pc]
    BY <1>1 DEF Begin
  <2>2. Moves(j, [task[j] EXCEPT !.pc = pc])
    BY <1>t, <2>1, EnterMoves DEF Step
  <2>3. task'[j].found = task[j].found
    BY <1>t, <2>2, EnterFields DEF Moves, Step
  <2>4. Placed'
    BY <1>1, <1>t, <2>2, <2>3 DEF Begin, Moves, Placed, queue, web, past, Job
  <2>5. Queued'
    BY <1>1, <1>t, <2>2 DEF Begin, Moves, Queued, queue, Queue!SpentRetries
  <2> QED BY <2>4, <2>5
<1>2. CASE j \in Request /\ Touch(j)
  <2>1. PICK t : Moves(j, t) /\ t.found \subseteq task[j].found
    <3>1. CASE task' = [task EXCEPT ![j].pc = "walk"]
      <4>1. Moves(j, [task[j] EXCEPT !.pc = "walk"])
        BY <1>t, <3>1, EnterMoves DEF Step
      <4>2. [task[j] EXCEPT !.pc = "walk"].found = task[j].found
        BY <1>t, EnterFields DEF Step
      <4> QED BY <4>1, <4>2
    <3>2. CASE task' = [task EXCEPT ![j] = Leaves(j, "ok", FALSE)]
      BY <1>t, <3>2, SetMoves, LeavesType
    <3> QED BY <1>2, <3>1, <3>2 DEF Touch
  <2> QED BY <1>2, <2>1, PlacedMoves DEF Touch, queue, web, history
<1>3. CASE j \in Request /\ WalkEnds(j)
  <2>1. PICK t : Moves(j, t) /\ t.found \subseteq task[j].found
    <3>1. PICK out \in {"ok", "err"} : task' = [task EXCEPT ![j] = Leaves(j, out, FALSE)]
      BY <1>3 DEF WalkEnds
    <3> QED BY <1>t, <3>1, SetMoves, LeavesType
  <2> QED BY <1>3, <2>1, PlacedMoves DEF WalkEnds, queue, web, history
<1>4. ASSUME j \in Request, NEW S \in SUBSET Reply, Find(j, S) PROVE Placed' /\ Queued'
  <2> DEFINE t == [task[j] EXCEPT !.found = S, !.pc = "push"]
  <2>1. t \in Task /\ t.found = S
    <3>1. task[j] \in Task
      BY <1>t, PerformType
    <3> QED BY <3>1 DEF Task, Step
  <2>2. task' = [task EXCEPT ![j] = t]
    BY <1>4, <1>t DEF Find, TypeOK
  <2>3. Moves(j, t) /\ task[j].pc # "idle"
    BY <1>4, <1>t, <2>1, <2>2, SetMoves DEF Find
  <2> HIDE DEF t
  <2>4. /\ joined' = joined \cup S /\ UNCHANGED <<req, phase, failures>>
        /\ \A r \in Reply : home'[r] = IF r \in S THEN j ELSE home[r]
        /\ \A r \in S : home[r] = None
    BY <1>4 DEF Find, AddJobs, queue
  <2>5. j \in joined /\ None # j
    BY <2>3, AtWork, BatchAssumption, <1>4
  <2>6. Placed'
    <3>1. \A q \in Request : task'[q].found \subseteq {r \in Reply : home'[r] = q}
      BY <1>t, <2>1, <2>3, <2>4, BatchAssumption DEF Placed, Moves, Job
    <3>2. \A q \in Request : q \in joined' <=> q \in joined
      BY <2>4, BatchAssumption
    <3>3. \A r \in Reply : (r \in joined' <=> home'[r] # None)
                        /\ (home'[r] # None => home'[r] \in joined')
      BY <1>t, <2>4, <2>5 DEF Placed
    <3> QED BY <1>t, <2>4, <3>1, <3>2, <3>3 DEF Placed
  <2>7. Queued'
    BY <1>t, <2>3, <2>4 DEF Moves, Queued, Queue!SpentRetries
  <2> QED BY <2>6, <2>7
<1>5. ASSUME j \in Request, NEW r \in Reply, PushReply(j, r) PROVE Placed' /\ Queued'
  <2> DEFINE t == [task[j] EXCEPT !.found = @ \ {r},
                                  !.pc = IF task[j].found = {r} THEN "walk" ELSE "push"]
  <2>1. t \in Task /\ t.found = task[j].found \ {r}
    <3>1. task[j] \in Task /\ task[j].found \ {r} \in SUBSET Reply
      BY <1>t, PerformType DEF Task
    <3> QED BY <3>1 DEF Task, Step
  <2>2. task' = [task EXCEPT ![j] = t]
    BY <1>5, <1>t DEF PushReply, TypeOK
  <2>3. Moves(j, t) /\ task[j].pc # "idle" /\ r \in task[j].found
    BY <1>5, <1>t, <2>1, <2>2, SetMoves DEF PushReply
  <2> HIDE DEF t
  <2>4. /\ UNCHANGED <<joined, req, home, failures>>
        /\ phase'[r] \in {phase[r], "live"} /\ \A k \in Job : k # r => phase'[k] = phase[k]
    BY <1>5 DEF PushReply, Push, history, web, queue, Queue!Queue, Queue!Become, Job
  <2>5. r \in joined
    BY <1>5, <1>t, <2>3, BatchAssumption DEF Placed, TypeOK
  <2>6. Placed'
    BY <1>t, <2>1, <2>3, <2>4, <2>5 DEF Placed, Moves, Job
  <2>7. Queued'
    BY <1>t, <2>3, <2>4 DEF Moves, Queued, Queue!SpentRetries, Job
  <2> QED BY <2>6, <2>7
<1>6. CASE j \in Reply /\ Fetch(j)
  <2>1. PICK t : Moves(j, t) /\ t.found \subseteq task[j].found
    <3>1. PICK out \in {"ok", "err"}, new \in BOOLEAN :
              task' = [task EXCEPT ![j] = Leaves(j, out, new)]
      BY <1>6 DEF Fetch
    <3> QED BY <1>t, <3>1, SetMoves, LeavesType
  <2> QED BY <1>6, <2>1, PlacedMoves DEF Fetch, queue, web, history
<1> QED BY <1>1, <1>2, <1>3, <1>4, <1>5, <1>6 DEF Walks

LEMMA PlacedRemoves ==
    ASSUME Base, NEW j \in Job, Removes(j) \/ Record(j) \/ Cut(j) PROVE Placed' /\ Queued'
<1> USE DEF Enter
<1>t. TypeOK /\ Placed /\ Queued
  BY DEF Base
<1>1. CASE Leave(j)
  BY <1>1, LeaveStep, PlacedMoves DEF Leave, queue, web
<1>2. CASE Count(j) \/ Finish(j) \/ Cleanup(j)
  <2>1. PICK pc \in Step : task' = [task EXCEPT ![j].pc = pc]
    <3>1. Ending(task[j].over, task[j].key) \in Step
      BY <1>t, EndingType DEF TypeOK, Task, Step
    <3> QED BY <1>2, <3>1 DEF Count, Finish, Cleanup, Step
  <2>2. Moves(j, [task[j] EXCEPT !.pc = pc])
    BY <1>t, <2>1, EnterMoves
  <2>3. [task[j] EXCEPT !.pc = pc].found \subseteq task[j].found
    BY <1>t, EnterFields
  <2>4. task[j].pc # "idle" /\ UNCHANGED <<joined, home, req, phase, failures>>
    BY <1>2 DEF Count, Finish, Cleanup, queue, web, history
  <2> QED BY <2>2, <2>3, <2>4, PlacedMoves
<1>5. CASE Record(j)
  <2>1. Moves(j, NoTask) /\ task[j].pc # "idle" /\ UNCHANGED <<joined, req, home>>
    BY <1>5, <1>t, SetMoves, NoTaskType DEF Record, history, web
  <2>2. UNCHANGED phase /\ \A k \in Job : k # j => failures'[k] = failures[k]
    BY <1>5, <1>t DEF Record, queue, Queue!PerformOk, Queue!PerformFails, TypeOK
  <2>3. Placed'
    BY <1>t, <2>1, <2>2, NoTaskType DEF Placed, Moves, Job
  <2>4. Queued'
    BY <1>t, <2>1, <2>2, NoTaskType DEF Queued, Moves, Queue!SpentRetries
  <2> QED BY <2>3, <2>4
<1>6. CASE Cut(j)
  <2>1. PICK t : Moves(j, t) /\ t.found = {}
    BY <1>6, <1>t, SetMoves, NoTaskType, LeavesType DEF Cut
  <2> QED BY <1>6, <2>1, PlacedMoves DEF Cut, queue, web, history
<1> QED BY <1>1, <1>2, <1>5, <1>6 DEF Removes

LEMMA PlacedOthers ==
    ASSUME Base, (\E q \in Request : Expire(q)) \/ (\E j \in Job : Settle(j))
    PROVE  Placed' /\ Queued'
<1>1. ASSUME NEW q \in Request, Expire(q) PROVE Placed' /\ Queued'
  BY <1>1, PlacedKept DEF Expire, queue, web, history
<1>2. ASSUME NEW j \in Job, Settle(j) PROVE Placed' /\ Queued'
  <2>1. /\ UNCHANGED <<req, home, joined, task, failures>>
        /\ phase[j] = "live" /\ phase'[j] \in {"gone", "dead"}
        /\ \A k \in Job : k # j => phase'[k] = phase[k]
    BY <1>2 DEF Settle, web, history, Queue!Complete, Queue!Bury, Queue!Become
  <2>2. Placed'
    BY <2>1 DEF Base, Placed
  <2> QED BY <2>1, <2>2 DEF Base, Queued, Queue!SpentRetries
<1> QED BY <1>1, <1>2

LEMMA BaseInit == Init => Base
<1> SUFFICES ASSUME Init PROVE Base
  OBVIOUS
<1>1. TypeOK
  <2>1. HashType
    BY NoHashType DEF Init, HashType
  <2>2. TaskType
    BY NoTaskType DEF Init, TaskType
  <2>3. QueueType
    BY BatchAssumption DEF Init, Queue!Init, QueueType
  <2>4. WebType
    BY DEF Init, WebType
  <2>5. PastType
    <3>1. 0 \in 0..MaxFaults /\ 0 \in 0..MaxLost
      BY BatchAssumption
    <3>2. {{}, {}, {}} \subseteq SUBSET Job
      OBVIOUS
    <3>3. [q \in Request |-> 0] \in [Request -> Nat]
      OBVIOUS
    <3> QED BY <3>1, <3>2, <3>3 DEF Init, PastType
  <2> QED BY <2>1, <2>2, <2>3, <2>4, <2>5, Types
<1> QED BY <1>1, NoTaskType DEF Init, Base, Placed, Queued, Queue!Init, Job

LEMMA BaseStep == Base /\ [Next]_vars => Base'
<1> SUFFICES ASSUME Base, [Next]_vars PROVE Base'
  OBVIOUS
<1>1. ASSUME NEW q \in Request, Requests(q) \/ DropRequest(q) PROVE Base'
  BY <1>1, TypeRequests, PlacedRequests DEF Base
<1>2. ASSUME NEW j \in Job, Begin(j) \/ Performs(j) \/ Cut(j) PROVE Base'
  BY <1>2, TypePerforms, PlacedPerforms, TypeRemoves, PlacedRemoves DEF Base, Performs
<1>3. ASSUME (\E q \in Request : Expire(q)) \/ (\E j \in Job : Settle(j)) PROVE Base'
  BY <1>3, TypeOthers, PlacedOthers DEF Base
<1>4. CASE UNCHANGED vars
  BY <1>4 DEF vars, queue, web, keys, history, past, Base, TypeOK, Placed, Queued,
              Queue!SpentRetries
<1> QED BY <1>1, <1>2, <1>3, <1>4 DEF Next

\* The variables have their types: no retry is made that the workers do not allow,
\* and a key that is gone holds nothing (remove_job, cleanup).
THEOREM TypeCorrect == Spec => []TypeOK
<1>1. Base => TypeOK
  BY DEF Base
<1> QED BY <1>1, BaseInit, BaseStep, PTL DEF Spec

-----------------------------------------------------------------------------
(* What each step of a perform does to the tasks *)

Others(j) == \A k \in Job : k # j => task'[k] = task[k]

LEMMA BeginEffect ==
    ASSUME Base, NEW j \in Job, Begin(j)
    PROVE  /\ task[j].pc = "idle" /\ Others(j)
           /\ task'[j].pc = IF j \in Request THEN "touch" ELSE "fetch"
<1>1. PICK pc \in {"touch", "fetch"} : /\ pc = IF j \in Request THEN "touch" ELSE "fetch"
                                       /\ task' = [task EXCEPT ![j].pc = pc]
                                       /\ task[j].pc = "idle"
  BY DEF Begin, Enter
<1>2. Moves(j, [task[j] EXCEPT !.pc = pc])
  BY <1>1, EnterMoves DEF Step, Base
<1>3. [task[j] EXCEPT !.pc = pc].pc = pc
  BY EnterFields DEF Base, Step
<1> QED BY <1>1, <1>2, <1>3 DEF Moves, Others

LEMMA WalkEffect ==
    ASSUME Base, NEW q \in Request, Touch(q) \/ WalkEnds(q)
    PROVE  /\ task[q].pc \in {"touch", "walk"} /\ Others(q)
           /\ \/ task[q].pc = "touch" /\ task'[q].pc = "walk"
              \/ /\ task'[q].pc = "leave" /\ ~task'[q].new /\ task'[q].out # "none"
                 /\ task'[q].found = {}
<1>t. TypeOK /\ q \in Job
  BY DEF Base, Job
<1>1. CASE task[q].pc = "touch" /\ task' = [task EXCEPT ![q].pc = "walk"]
  <2>1. Moves(q, [task[q] EXCEPT !.pc = "walk"])
    BY <1>1, <1>t, EnterMoves DEF Step
  <2>2. [task[q] EXCEPT !.pc = "walk"].pc = "walk"
    BY <1>t, EnterFields DEF Step
  <2> QED BY <1>1, <2>1, <2>2 DEF Moves, Others
<1>2. ASSUME NEW out \in {"ok", "err"}, task' = [task EXCEPT ![q] = Leaves(q, out, FALSE)]
      PROVE  /\ Others(q) /\ task'[q].pc = "leave" /\ ~task'[q].new /\ task'[q].out # "none"
             /\ task'[q].found = {}
  <2>1. /\ Leaves(q, out, FALSE) \in Task /\ Leaves(q, out, FALSE).pc = "leave"
        /\ ~Leaves(q, out, FALSE).new /\ Leaves(q, out, FALSE).out = out
        /\ Leaves(q, out, FALSE).found = {}
    BY <1>t, LeavesType
  <2>2. Moves(q, Leaves(q, out, FALSE))
    BY <1>t, <1>2, <2>1, SetMoves
  <2> QED BY <2>1, <2>2 DEF Moves, Others
<1>3. CASE Touch(q)
  BY <1>1, <1>2, <1>3 DEF Touch
<1>4. CASE WalkEnds(q)
  BY <1>2, <1>4 DEF WalkEnds
<1> QED BY <1>3, <1>4

LEMMA FindEffect ==
    ASSUME Base, NEW q \in Request, NEW S \in SUBSET Reply, Find(q, S)
    PROVE  /\ task[q].pc = "walk" /\ task'[q].pc = "push" /\ task'[q].found = S /\ Others(q)
           /\ joined' = joined \cup S /\ S \cap joined = {} /\ q \in joined
           /\ \A r \in Reply : home'[r] = IF r \in S THEN q ELSE home[r]
<1>t. TypeOK /\ q \in Job
  BY DEF Base, Job
<1> DEFINE t == [task[q] EXCEPT !.found = S, !.pc = "push"]
<1>1. t \in Task /\ t.found = S /\ t.pc = "push"
  <2>1. task[q] \in Task
    BY <1>t, PerformType
  <2> QED BY <2>1 DEF Task, Step
<1>2. task' = [task EXCEPT ![q] = t] /\ task[q].pc = "walk"
  BY <1>t DEF Find, TypeOK
<1> HIDE DEF t
<1>3. Moves(q, t)
  BY <1>t, <1>1, <1>2, SetMoves
<1>4. q \in joined
  BY <1>t, <1>2, AtWork
<1>5. /\ joined' = joined \cup S /\ \A r \in S : home[r] = None
      /\ \A r \in Reply : home'[r] = IF r \in S THEN q ELSE home[r]
  BY DEF Find, AddJobs
<1> QED BY <1>1, <1>2, <1>3, <1>4, <1>5 DEF Moves, Others, Base, Placed

LEMMA PushReplyEffect ==
    ASSUME Base, NEW q \in Request, NEW r \in Reply, PushReply(q, r)
    PROVE  /\ task[q].pc = "push" /\ task'[q].pc = (IF task[q].found = {r} THEN "walk" ELSE "push")
           /\ task'[q].found = task[q].found \ {r} /\ r \in task[q].found /\ Others(q)
           /\ UNCHANGED <<finished, failures>>
           /\ phase'[r] \in {phase[r], "live"} /\ \A k \in Job : k # r => phase'[k] = phase[k]
           /\ UNCHANGED lost => phase'[r] = "live"
<1>t. TypeOK /\ q \in Job
  BY DEF Base, Job
<1> DEFINE pc == IF task[q].found = {r} THEN "walk" ELSE "push"
           t == [task[q] EXCEPT !.found = @ \ {r}, !.pc = pc]
<1>1. t \in Task /\ t.found = task[q].found \ {r} /\ t.pc = pc
  <2>1. task[q] \in Task /\ task[q].found \ {r} \in SUBSET Reply /\ pc \in Step
    BY <1>t, PerformType DEF Task, Step
  <2> HIDE DEF pc
  <2> QED BY <2>1 DEF Task
<1>2. task' = [task EXCEPT ![q] = t] /\ task[q].pc = "push" /\ r \in task[q].found
  BY <1>t DEF PushReply, TypeOK
<1>3. /\ UNCHANGED <<finished, failures>>
      /\ phase'[r] \in {phase[r], "live"} /\ \A k \in Job : k # r => phase'[k] = phase[k]
      /\ UNCHANGED lost => phase'[r] = "live"
  BY <1>t DEF PushReply, Push, Lose, queue, Queue!Queue, Queue!Become, Job, TypeOK
<1> HIDE DEF t
<1>4. Moves(q, t)
  BY <1>t, <1>1, <1>2, SetMoves
<1> QED BY <1>1, <1>2, <1>3, <1>4 DEF Moves, Others

LEMMA FetchEffect ==
    ASSUME Base, NEW r \in Reply, Fetch(r)
    PROVE  /\ task[r].pc = "fetch" /\ task'[r].pc = "leave" /\ Others(r)
           /\ task'[r].out # "none" /\ task'[r].found = {}
           /\ \/ r \notin held /\ held' = held \cup {r}
              \/ ~task'[r].new /\ UNCHANGED held
<1>t. TypeOK /\ r \in Job
  BY DEF Base, Job
<1>1. PICK out \in {"ok", "err"}, new \in BOOLEAN :
          /\ task' = [task EXCEPT ![r] = Leaves(r, out, new)]
          /\ \/ r \notin held /\ held' = held \cup {r}
             \/ ~new /\ UNCHANGED held
  BY DEF Fetch
<1>2. Moves(r, Leaves(r, out, new))
  BY <1>t, <1>1, SetMoves, LeavesType
<1> QED BY <1>t, <1>1, <1>2, LeavesType DEF Moves, Others, Fetch

\* The pipelines after the first.
LEMMA EndEffect ==
    ASSUME Base, NEW j \in Job, Count(j) \/ Finish(j) \/ Cleanup(j)
    PROVE  /\ Others(j)
           /\ task'[j].pc = CASE task[j].pc = "count" -> Ending(task[j].over, task[j].key)
                              [] task[j].pc = "finish" -> "cleanup"
                              [] task[j].pc = "cleanup" -> "record"
           /\ task[j].pc \in {"count", "finish", "cleanup"} /\ task'[j].pc \in Step
           /\ task'[j].found = task[j].found /\ task'[j].new = task[j].new
           /\ task'[j].over = task[j].over /\ task'[j].key = task[j].key
           /\ task'[j].out = task[j].out
<1>t. TypeOK
  BY DEF Base
<1>1. PICK pc \in Step :
        /\ task' = [task EXCEPT ![j].pc = pc]
        /\ task[j].pc \in {"count", "finish", "cleanup"}
        /\ pc = CASE task[j].pc = "count" -> Ending(task[j].over, task[j].key)
                  [] task[j].pc = "finish" -> "cleanup"
                  [] task[j].pc = "cleanup" -> "record"
  <2>1. Ending(task[j].over, task[j].key) \in Step
    BY <1>t, EndingType DEF TypeOK, Task, Step
  <2> QED BY <2>1 DEF Count, Finish, Cleanup, Enter, Step
<1>2. Moves(j, [task[j] EXCEPT !.pc = pc])
  BY <1>t, <1>1, EnterMoves
<1> DEFINE t == [task[j] EXCEPT !.pc = pc]
<1>3. /\ t.pc = pc /\ t.found = task[j].found /\ t.new = task[j].new
      /\ t.over = task[j].over /\ t.key = task[j].key /\ t.out = task[j].out
  BY <1>t, EnterFields
<1> HIDE DEF t
<1>4. Moves(j, t)
  BY <1>2 DEF t
<1> QED BY <1>1, <1>3, <1>4 DEF Moves, Others

LEMMA RecordEffect ==
    ASSUME Base, NEW j \in Job, Record(j)
    PROVE  /\ task[j].pc = "record" /\ task'[j] = NoTask /\ Others(j)
           /\ UNCHANGED phase
           /\ \A k \in Job : k # j => failures'[k] = failures[k] /\ (k \in finished' <=> k \in finished)
           /\ task[j].out = "none" => UNCHANGED <<finished, failures>>
<1>1. Moves(j, NoTask)
  BY SetMoves, NoTaskType DEF Base, Record
<1>2. TypeOK
  BY DEF Base
<1> QED BY <1>1, <1>2 DEF Moves, Others, Record, queue, Queue!PerformOk, Queue!PerformFails, TypeOK

LEMMA CutEffect ==
    ASSUME Base, NEW j \in Job, Cut(j)
    PROVE  /\ task[j].pc # "idle" /\ Others(j) /\ task'[j].found = {} /\ ~task'[j].new
           /\ faults' = faults + 1
           /\ UNCHANGED lost => task[j].found = {}
           /\ \/ task'[j] = NoTask
              \/ /\ task[j].pc \in {"touch", "walk", "push", "fetch"}
                 /\ task'[j].pc = "leave" /\ task'[j].out = "none"
<1>t. TypeOK
  BY DEF Base
<1>1. PICK t \in Task :
        /\ task' = [task EXCEPT ![j] = t] /\ t.found = {} /\ ~t.new
        /\ \/ t = NoTask
           \/ /\ task[j].pc \in {"touch", "walk", "push", "fetch"}
              /\ t.pc = "leave" /\ t.out = "none"
  <2>1. NoTask \in Task /\ NoTask.found = {} /\ ~NoTask.new
    BY NoTaskType
  <2>2. /\ Leaves(j, "none", FALSE) \in Task /\ Leaves(j, "none", FALSE).found = {}
        /\ ~Leaves(j, "none", FALSE).new /\ Leaves(j, "none", FALSE).pc = "leave"
        /\ Leaves(j, "none", FALSE).out = "none"
    BY <1>t, LeavesType
  <2> QED BY <2>1, <2>2 DEF Cut
<1>2. Moves(j, t)
  BY <1>t, <1>1, SetMoves
<1>3. UNCHANGED lost => task[j].found = {}
  BY <1>t DEF Cut, Lose, TypeOK
<1> QED BY <1>1, <1>2, <1>3 DEF Moves, Others, Cut, Fault

-----------------------------------------------------------------------------
(* What is counted in the results *)

\* The replies created and not yet counted.
Fresh == {j \in Job : task[j].new /\ task[j].pc \in {"leave", "count"}}

Counting == /\ results + Cardinality(Fresh) <= Cardinality(held)
            /\ \A j \in Job : task[j].pc = "count" => task[j].new

LEMMA JobsFinite == IsFiniteSet(Job) /\ \A S \in SUBSET Job : IsFiniteSet(S) /\ Cardinality(S) \in Nat
<1>1. IsFiniteSet(Job)
  BY BatchAssumption, FS_Union DEF Job
<1> QED BY <1>1, FS_Subset, FS_CardinalityType

LEMMA CountingStep ==
    ASSUME Base, Base', Counting,
           \/ Fresh' \subseteq Fresh /\ UNCHANGED held /\ results' \in {0, results}
           \/ \E j \in Job : /\ Fresh' \subseteq Fresh \cup {j} /\ UNCHANGED results
                             /\ j \notin held /\ held' = held \cup {j}
           \/ \E j \in Fresh : /\ Fresh' \subseteq Fresh \ {j} /\ UNCHANGED held
                               /\ results' = results + 1
    PROVE  results' + Cardinality(Fresh') <= Cardinality(held')
<1>t. results \in Nat /\ results' \in Nat /\ held \in SUBSET Job /\ held' \in SUBSET Job
  BY DEF Base, TypeOK, Job
<1>f. /\ IsFiniteSet(Fresh) /\ IsFiniteSet(Fresh') /\ IsFiniteSet(held)
      /\ Cardinality(Fresh) \in Nat /\ Cardinality(Fresh') \in Nat /\ Cardinality(held) \in Nat
  BY <1>t, JobsFinite DEF Fresh
<1>1. CASE Fresh' \subseteq Fresh /\ UNCHANGED held /\ results' \in {0, results}
  <2>1. Cardinality(Fresh') <= Cardinality(Fresh)
    BY <1>1, <1>f, FS_Subset
  <2> QED BY <1>1, <1>t, <1>f, <2>1 DEF Counting
<1>2. ASSUME NEW j \in Job, Fresh' \subseteq Fresh \cup {j}, UNCHANGED results,
             j \notin held, held' = held \cup {j}
      PROVE  results' + Cardinality(Fresh') <= Cardinality(held')
  <2>1. /\ IsFiniteSet(Fresh \cup {j})
        /\ Cardinality(Fresh \cup {j}) <= Cardinality(Fresh) + 1
        /\ Cardinality(Fresh \cup {j}) \in Nat
    <3>1. /\ IsFiniteSet(Fresh \cup {j})
          /\ Cardinality(Fresh \cup {j}) = IF j \in Fresh THEN Cardinality(Fresh)
                                           ELSE Cardinality(Fresh) + 1
      BY <1>f, FS_AddElement
    <3> QED BY <1>f, <3>1
  <2>2. Cardinality(Fresh') <= Cardinality(Fresh \cup {j})
    BY <1>2, <2>1, FS_Subset
  <2>3. Cardinality(held') = Cardinality(held) + 1
    BY <1>2, <1>f, FS_AddElement
  <2> QED BY <1>2, <1>t, <1>f, <2>1, <2>2, <2>3 DEF Counting
<1>3. ASSUME NEW j \in Fresh, Fresh' \subseteq Fresh \ {j}, UNCHANGED held, results' = results + 1
      PROVE  results' + Cardinality(Fresh') <= Cardinality(held')
  <2>1. IsFiniteSet(Fresh \ {j}) /\ Cardinality(Fresh \ {j}) = Cardinality(Fresh) - 1
    BY <1>f, FS_RemoveElement
  <2>2. Cardinality(Fresh') <= Cardinality(Fresh \ {j})
    BY <1>3, <2>1, FS_Subset
  <2> QED BY <1>3, <1>t, <1>f, <2>1, <2>2 DEF Counting
<1> QED BY <1>1, <1>2, <1>3

LEMMA CountingNext == Base /\ Base' /\ Counting /\ [Next]_vars => Counting'
<1> SUFFICES ASSUME Base, Base', Counting, [Next]_vars PROVE Counting'
  OBVIOUS
<1> DEFINE Same == Fresh' \subseteq Fresh /\ UNCHANGED held /\ results' \in {0, results}
           News == \A j \in Job : task'[j].pc = "count" => task'[j].new
<1>a. ASSUME UNCHANGED task PROVE News /\ Fresh' = Fresh
  BY <1>a DEF Counting, Fresh
<1>1. ASSUME NEW q \in Request, Requests(q) \/ DropRequest(q) \/ Expire(q) PROVE Same /\ News
  <2>1. UNCHANGED <<task, held>> /\ results' \in {0, results}
    BY <1>1 DEF Requests, Load, Look, CreateRefresh, Connect, Join, PushWalk, DropRequest, Expire, keys
  <2> QED BY <1>a, <2>1
<1>2. ASSUME NEW j \in Job, Settle(j) PROVE Same /\ News
  BY <1>a, <1>2 DEF Settle, keys
<1>3. ASSUME NEW j \in Job, Begin(j) PROVE Same /\ News
  BY <1>3, BeginEffect DEF Begin, Others, Fresh, Counting, keys
<1>4. ASSUME NEW q \in Request, Walks(q) PROVE Same /\ News
  <2>1. UNCHANGED <<held, results>>
    BY <1>4 DEF Walks, Touch, WalkEnds, Find, PushReply, keys
  <2>2. CASE Touch(q) \/ WalkEnds(q)
    BY <2>1, <2>2, WalkEffect DEF Others, Fresh, Counting
  <2>3. ASSUME NEW S \in SUBSET Reply, Find(q, S) PROVE Same /\ News
    BY <2>1, <2>3, FindEffect DEF Others, Fresh, Counting
  <2>4. ASSUME NEW r \in Reply, PushReply(q, r) PROVE Same /\ News
    BY <2>1, <2>4, PushReplyEffect DEF Others, Fresh, Counting
  <2> QED BY <1>4, <2>2, <2>3, <2>4 DEF Walks
<1>5. ASSUME NEW r \in Reply, Fetch(r)
      PROVE  /\ News
             /\ \/ Same
                \/ /\ Fresh' \subseteq Fresh \cup {r} /\ UNCHANGED results
                   /\ r \notin held /\ held' = held \cup {r}
  BY <1>5, FetchEffect DEF Fetch, Others, Fresh, Counting, keys, Job
<1>6. ASSUME NEW j \in Job, Leave(j) PROVE Same /\ News
  <2>1. PICK t \in Task : /\ Moves(j, t) /\ t.new = task[j].new
                          /\ t.pc = "count" => task[j].new
    BY <1>6, LeaveStep, EndingType DEF Task
  <2>2. task[j].pc = "leave"
    BY <1>6, LeaveStep
  <2> QED BY <1>6, <2>1, <2>2 DEF Leave, Moves, Fresh, Counting
<1>7. ASSUME NEW j \in Job, Count(j)
      PROVE  /\ News
             /\ \/ Same
                \/ j \in Fresh /\ Fresh' \subseteq Fresh \ {j} /\ UNCHANGED held
                   /\ results' = results + 1
  <2>1. task[j].pc = "count" /\ task'[j].pc \in {"finish", "cleanup", "record"}
    BY <1>7, EndEffect, EndingType DEF Count, Enter, Base, TypeOK, Task
  <2>2. Others(j)
    BY <1>7, EndEffect
  <2> QED BY <1>7, <2>1, <2>2 DEF Count, Others, Fresh, Counting
<1>8. ASSUME NEW j \in Job, Finish(j) \/ Cleanup(j) PROVE Same /\ News
  <2>1. task'[j].pc \in {"cleanup", "record"} /\ Others(j)
    BY <1>8, EndEffect DEF Finish, Cleanup, Enter
  <2> QED BY <1>8, <2>1 DEF Finish, Cleanup, Others, Fresh, Counting
<1>9. ASSUME NEW j \in Job, Record(j) \/ Cut(j) PROVE Same /\ News
  <2>1. UNCHANGED <<held, results>>
    BY <1>9 DEF Record, Cut, keys
  <2> QED BY <1>9, <2>1, RecordEffect, CutEffect, NoTaskType DEF Others, Fresh, Counting
<1>10. CASE UNCHANGED vars
  BY <1>10 DEF vars, keys, Fresh, Counting
<1> HIDE DEF Same
<1>11. News
  BY <1>1, <1>2, <1>3, <1>4, <1>5, <1>6, <1>7, <1>8, <1>9, <1>10
     DEF Next, Performs, Removes, Counting
<1>12. results' + Cardinality(Fresh') <= Cardinality(held')
  <2>1. ASSUME Same PROVE results' + Cardinality(Fresh') <= Cardinality(held')
    BY <2>1, CountingStep DEF Same
  <2>2. ASSUME NEW r \in Reply, Fetch(r) PROVE results' + Cardinality(Fresh') <= Cardinality(held')
    BY <2>1, <2>2, <1>5, CountingStep DEF Job
  <2>3. ASSUME NEW j \in Job, Count(j) PROVE results' + Cardinality(Fresh') <= Cardinality(held')
    BY <2>1, <2>3, <1>7, CountingStep
  <2>4. CASE UNCHANGED vars
    BY <2>4 DEF vars, keys, Fresh, Counting
  <2> QED BY <1>1, <1>2, <1>3, <1>4, <1>6, <1>8, <1>9, <2>1, <2>2, <2>3, <2>4
          DEF Next, Performs, Removes
<1> QED BY <1>11, <1>12 DEF Counting

\* A reply is counted as a result once at most, and only if it was created here, for
\* any number of walks, performs and deaths (Membership, increment_result_count).
THEOREM ResultsCorrect == Spec => []ResultsCounted
<1>1. Init => Counting
  <2> SUFFICES ASSUME Init PROVE Counting
    OBVIOUS
  <2>1. Fresh = {} /\ held = {} /\ results = 0 /\ \A j \in Job : task[j].pc = "idle"
    BY NoTaskType DEF Init, Fresh
  <2> QED BY <2>1, FS_EmptySet DEF Counting
<1>2. Base /\ Counting => ResultsCounted
  <2> SUFFICES ASSUME Base, Counting PROVE results <= Cardinality(held)
    BY DEF ResultsCounted
  <2>1. Fresh \in SUBSET Job /\ held \in SUBSET Job /\ results \in Nat
    BY DEF Base, TypeOK, Fresh, Job
  <2>2. Cardinality(Fresh) \in Nat /\ Cardinality(held) \in Nat
    BY <2>1, JobsFinite
  <2> QED BY <2>1, <2>2 DEF Counting
<1> QED BY <1>1, <1>2, BaseInit, BaseStep, CountingNext, PTL DEF Spec

-----------------------------------------------------------------------------
(* What a batch counts *)

\* Jobs leave what they have joined, and a batch is nothing before its first job.
Ordered == /\ left \subseteq joined
           /\ \A j \in Job : task[j].pc \in After => j \in left
           /\ \A q \in Request : q \notin joined => again[q] = 0 /\ hash[q].pending = 0

\* A hash never has more pending than are in the batch; until the batch ends, fewer
\* only by those that left again.
Tally == lost = 0 => \A q \in Request :
             /\ hash[q].pending <= Cardinality(Outstanding(q))
             /\ hash[q].key => Cardinality(Outstanding(q)) = hash[q].pending + again[q]

LEMMA OutstandingFinite == ASSUME Base, NEW q \in Request
                           PROVE  /\ IsFiniteSet(Outstanding(q)) /\ Outstanding(q) \in SUBSET Job
                                  /\ Cardinality(Outstanding(q)) \in Nat
<1>1. Outstanding(q) \in SUBSET Job
  BY DEF Base, TypeOK, Outstanding, Joined
<1> QED BY <1>1, JobsFinite

\* A step that moves no job in or out, and no pending count.
LEMMA NobodyMoves ==
    ASSUME Ordered, UNCHANGED <<joined, left, again, home>>,
           \A j \in Job : task'[j].pc \in After => task[j].pc \in After,
           \A q \in Request : /\ hash'[q].pending = hash[q].pending
                              /\ hash'[q].key => hash[q].key \/ q \notin joined,
           lost' = 0 => lost = 0, Base
    PROVE  Ordered' /\ (Tally => Tally')
<1>1. Ordered'
  BY DEF Ordered
<1>2. ASSUME NEW q \in Request PROVE Outstanding(q)' = Outstanding(q)
  BY DEF Outstanding, Joined, BatchOf
<1>3. ASSUME NEW q \in Request, q \notin joined PROVE Cardinality(Outstanding(q)) = 0
  <2>1. Outstanding(q) = {}
    BY <1>3 DEF Outstanding, Joined, BatchOf, Base, Placed, TypeOK, Job
  <2> QED BY <2>1, FS_EmptySet
<1>4. ASSUME Tally PROVE Tally'
  <2> SUFFICES ASSUME lost' = 0, NEW q \in Request
               PROVE  /\ hash'[q].pending <= Cardinality(Outstanding(q)')
                      /\ hash'[q].key => Cardinality(Outstanding(q)') = hash'[q].pending + again'[q]
    BY DEF Tally
  <2>1. CASE hash'[q].key => hash[q].key
    BY <1>2, <1>4, <2>1 DEF Tally
  <2>2. CASE q \notin joined
    BY <1>2, <1>3, <1>4, <2>2 DEF Tally, Ordered
  <2> QED BY <2>1, <2>2
<1> QED BY <1>1, <1>4

LEMMA LostGrows == Base /\ [Next]_vars => (lost' = 0 => lost = 0)
<1> SUFFICES ASSUME Base, [Next]_vars, lost' = 0 PROVE lost = 0
  OBVIOUS
<1>1. lost \in Nat
  BY DEF Base, TypeOK
<1>2. ASSUME NEW q \in Request, Requests(q) \/ DropRequest(q) \/ Expire(q)
      PROVE  lost' = lost \/ lost' = lost + 1
  BY <1>2 DEF Requests, Load, Look, CreateRefresh, Connect, Join, AddJobs, PushWalk, Push,
         DropRequest, Expire, Lose
<1>3. ASSUME NEW j \in Job, Begin(j) \/ Performs(j) PROVE lost' = lost \/ lost' = lost + 1
  <2>1. CASE Begin(j) \/ Walks(j) \/ Fetch(j)
    BY <2>1 DEF Begin, Walks, Touch, Find, AddJobs, PushReply, Push, WalkEnds, Fetch, Lose
  <2>2. CASE Removes(j) \/ Record(j)
    BY <2>2 DEF Removes, Leave, Count, Finish, Cleanup, Record, Lose
  <2> QED BY <1>3, <2>1, <2>2 DEF Performs
<1>4. ASSUME NEW j \in Job, Cut(j) \/ Settle(j) PROVE lost' = lost \/ lost' = lost + 1
  BY <1>4 DEF Cut, Settle, Lose
<1>5. CASE UNCHANGED vars
  BY <1>5 DEF vars
<1>6. lost' = lost \/ lost' = lost + 1
  BY <1>2, <1>3, <1>4, <1>5 DEF Next
<1> QED BY <1>1, <1>6

LEMMA TallyRequests ==
    ASSUME Base, Ordered, Tally, [Next]_vars, NEW q \in Request, Requests(q) \/ DropRequest(q)
    PROVE  Ordered' /\ Tally'
<1> USE DEF Ask
<1>1. CASE Load(q) \/ Look(q) \/ CreateRefresh(q) \/ PushWalk(q) \/ DropRequest(q)
  <2>1. UNCHANGED <<joined, left, again, home, task, hash>>
    BY <1>1 DEF Load, Look, CreateRefresh, PushWalk, DropRequest, keys, history, past
  <2> QED BY <2>1, NobodyMoves, LostGrows
<1>2. CASE Connect(q)
  <2>1. UNCHANGED <<joined, left, again, home, task>> /\ q \notin joined
    BY <1>2 DEF Connect, history, past, Base, Placed
  <2>2. \A p \in Request : /\ hash'[p].pending = hash[p].pending
                           /\ hash'[p].key => hash[p].key \/ p = q
    <3>1. hash \in [Request -> Hash]
      BY DEF Base, TypeOK
    <3>2. CASE hash' = [hash EXCEPT ![q].there = TRUE, ![q].key = TRUE]
      BY <3>1, <3>2 DEF Hash
    <3> QED BY <1>2, <3>2 DEF Connect
  <2> QED BY <2>1, <2>2, NobodyMoves, LostGrows
<1>3. CASE Join(q)
  <2>1. UNCHANGED <<left, again, home, task>> /\ joined' = joined \cup {q} /\ q \notin joined
    BY <1>3 DEF Join, AddJobs, past, Base, Placed
  <2>2. Ordered'
    <3>1. \A p \in Request : p \notin joined' => hash'[p] = hash[p]
      BY <1>3, <2>1 DEF Join, AddJobs, Base, TypeOK
    <3> QED BY <2>1, <3>1 DEF Ordered
  <2>3. ASSUME lost' = 0, NEW p \in Request
        PROVE  /\ hash'[p].pending <= Cardinality(Outstanding(p)')
               /\ hash'[p].key => Cardinality(Outstanding(p)') = hash'[p].pending + again'[p]
    <3>1. lost = 0 /\ hash' = [hash EXCEPT ![q] = Added(@, Cardinality({q}))]
      BY <1>3, <2>3, LostGrows DEF Join, AddJobs, Lose, Base, TypeOK
    <3>2. CASE p = q
      <4>1. Outstanding(q)' = {q}
        BY <2>1, BatchAssumption
           DEF Outstanding, Joined, BatchOf, Base, Placed, TypeOK, Job, Ordered
      <4>2. Cardinality({q}) = 1
        BY FS_Singleton
      <4>3. hash[q] \in Hash /\ hash'[q] = Added(hash[q], 1)
        BY <3>1, <4>2 DEF Base, TypeOK
      <4>4. hash'[q].pending = 1 /\ again'[q] = 0
        BY <2>1, <4>3, AddedType DEF Ordered
      <4> QED BY <3>2, <4>1, <4>2, <4>4
    <3>3. CASE p # q
      <4>1. Outstanding(p)' = Outstanding(p)
        BY <2>1, <3>3 DEF Outstanding, Joined, BatchOf
      <4> QED BY <2>1, <3>1, <3>3, <4>1 DEF Tally, Base, TypeOK
    <3> QED BY <3>2, <3>3
  <2> QED BY <2>2, <2>3 DEF Tally
<1> QED BY <1>1, <1>2, <1>3 DEF Requests

LEMMA TallyPerforms ==
    ASSUME Base, Ordered, Tally, [Next]_vars, NEW j \in Job,
           Begin(j) \/ (j \in Request /\ Walks(j)) \/ (j \in Reply /\ Fetch(j))
    PROVE  Ordered' /\ Tally'
<1>1. ASSUME NEW S \in SUBSET Reply, j \in Request, Find(j, S) PROVE Ordered' /\ Tally'
  <2>1. /\ UNCHANGED <<left, again>> /\ joined' = joined \cup S /\ S \cap joined = {}
        /\ \A r \in Reply : home'[r] = IF r \in S THEN j ELSE home[r]
        /\ j \in joined /\ task'[j].pc = "push" /\ Others(j)
    BY <1>1, FindEffect DEF Find, past
  <2>2. Ordered'
    <3>1. \A p \in Request : p \notin joined' => hash'[p] = hash[p]
      <4>1. CASE hash' = [hash EXCEPT ![j] = Added(@, Cardinality(S))]
        BY <1>1, <2>1, <4>1 DEF Base, TypeOK
      <4> QED BY <1>1, <4>1 DEF Find, AddJobs
    <3>2. \A k \in Job : task'[k].pc \in After => task[k].pc \in After
      BY <2>1 DEF Others, After
    <3> QED BY <2>1, <3>1, <3>2 DEF Ordered
  <2>3. ASSUME lost' = 0, NEW p \in Request
        PROVE  /\ hash'[p].pending <= Cardinality(Outstanding(p)')
               /\ hash'[p].key => Cardinality(Outstanding(p)') = hash'[p].pending + again'[p]
    <3>1. lost = 0 /\ hash' = [hash EXCEPT ![j] = Added(@, Cardinality(S))]
      BY <1>1, <2>3, LostGrows DEF Find, AddJobs, Lose, Base, TypeOK
    <3>2. CASE p = j
      <4>1. Outstanding(j)' = Outstanding(j) \cup S /\ Outstanding(j) \cap S = {}
        BY <1>1, <2>1, BatchAssumption DEF Outstanding, Joined, BatchOf, Ordered, Base, TypeOK, Job
      <4>2. IsFiniteSet(S) /\ Cardinality(S) \in Nat
        BY BatchAssumption, FS_Subset, FS_CardinalityType
      <4>3. Cardinality(Outstanding(j)') = Cardinality(Outstanding(j)) + Cardinality(S)
        <5>1. Cardinality(Outstanding(j) \cap S) = 0
          BY <4>1, FS_EmptySet
        <5>2. IsFiniteSet(Outstanding(j)) /\ Cardinality(Outstanding(j)) \in Nat
          BY <1>1, OutstandingFinite
        <5>3. Cardinality(Outstanding(j) \cup S)
                = Cardinality(Outstanding(j)) + Cardinality(S) - Cardinality(Outstanding(j) \cap S)
          BY <4>2, <5>2, FS_Union
        <5>4. Cardinality(Outstanding(j) \cup S) = Cardinality(Outstanding(j)) + Cardinality(S)
          BY <4>2, <5>1, <5>2, <5>3
        <5> QED BY <4>1, <5>4
      <4>4. hash[j] \in Hash /\ hash'[j] = Added(hash[j], Cardinality(S))
        BY <3>1, <1>1 DEF Base, TypeOK
      <4>5. /\ hash'[j].pending = hash[j].pending + Cardinality(S) /\ hash'[j].key = hash[j].key
            /\ hash[j].pending \in Int
        <5>1. hash[j].pending \in Int
          BY <4>4 DEF Hash
        <5>2. PICK n \in Int : n = Cardinality(S)
          BY <4>2
        <5>3. /\ Added(hash[j], n).pending = hash[j].pending + n
              /\ Added(hash[j], n).key = hash[j].key
          BY <4>4, AddedType
        <5>4. hash'[j] = Added(hash[j], n)
          BY <4>4, <5>2
        <5> HIDE <4>4
        <5> QED BY <5>1, <5>2, <5>3, <5>4
      <4>6. again'[j] = again[j] /\ again[j] \in Nat /\ Cardinality(Outstanding(j)) \in Nat
        BY <1>1, <2>1, OutstandingFinite DEF Base, TypeOK
      <4> QED BY <1>1, <3>1, <3>2, <4>2, <4>3, <4>5, <4>6 DEF Tally
    <3>3. CASE p # j
      <4>1. Outstanding(p)' = Outstanding(p)
        BY <2>1, <3>3, <1>1, BatchAssumption DEF Outstanding, Joined, BatchOf, Ordered, Base, Placed, TypeOK, Job
      <4> QED BY <2>1, <3>1, <3>3, <4>1 DEF Tally, Base, TypeOK
    <3> QED BY <3>2, <3>3
  <2> QED BY <2>2, <2>3 DEF Tally
<1>2. ASSUME ~ \E S \in SUBSET Reply : j \in Request /\ Find(j, S) PROVE Ordered' /\ Tally'
  <2>1. UNCHANGED <<joined, left, again, home, hash>>
    BY <1>2 DEF Begin, Walks, Touch, WalkEnds, PushReply, Fetch, web, keys, history, past
  <2>2. task'[j].pc \notin After /\ Others(j)
    BY <1>2, BeginEffect, WalkEffect, PushReplyEffect, FetchEffect DEF Walks, After
  <2> QED BY <2>1, <2>2, NobodyMoves, LostGrows DEF Others
<1> QED BY <1>1, <1>2

LEMMA TallyRemoves ==
    ASSUME Base, Ordered, Tally, [Next]_vars, NEW j \in Job, Removes(j) \/ Record(j) \/ Cut(j)
    PROVE  Ordered' /\ Tally'
<1>1. CASE Leave(j)
  <2>0. PICK b \in Request : b = BatchOf(j)
    BY <1>1, AtWork DEF Leave, BatchOf
  <2>1. /\ UNCHANGED <<joined, home>> /\ left' = left \cup {j} /\ b \in Request /\ j \in joined
        /\ Others(j)
        /\ again' = [again EXCEPT ![b] = @ + IF j \in left THEN 1 ELSE 0]
    BY <1>1, <2>0, LeaveStep, AtWork DEF Leave, web, Moves, Others
  <2>2. /\ b \in joined
        /\ \A p \in Request : p # b => hash'[p] = hash[p] /\ again'[p] = again[p]
    <3>1. b \in joined
      BY <2>0, <2>1, BatchAssumption DEF BatchOf, Base, Placed, Job, TypeOK
    <3>2. \A p \in Request : p # b => hash'[p] = hash[p] /\ again'[p] = again[p]
      BY <1>1, <2>0, <2>1 DEF Leave, Base, TypeOK
    <3> QED BY <3>1, <3>2
  <2>3. Ordered'
    BY <2>1, <2>2 DEF Ordered, Others
  <2>4. ASSUME lost' = 0, NEW p \in Request
        PROVE  /\ hash'[p].pending <= Cardinality(Outstanding(p)')
               /\ hash'[p].key => Cardinality(Outstanding(p)') = hash'[p].pending + again'[p]
    <3>1. lost = 0
      BY <2>4, LostGrows
    <3>2. CASE p = b
      <4>1. Outstanding(b)' = Outstanding(b) \ {j} /\ (j \in Outstanding(b) <=> j \notin left)
        BY <2>0, <2>1 DEF Outstanding, Joined, BatchOf
      <4>2. /\ hash[b] \in Hash /\ hash[b].pending \in Int
            /\ hash'[b].pending = hash[b].pending - 1 /\ hash'[b].key = hash[b].key
        <5>1. hash[b] \in Hash
          BY <2>1 DEF Base, TypeOK
        <5>2. hash' = [hash EXCEPT ![b] = Gone(hash[b])]
          BY <1>1, <2>0, <2>4, <3>1, LeaveStep DEF Lose
        <5>3. hash'[b] = Gone(hash[b])
          BY <5>2, <2>1 DEF Base, TypeOK
        <5> QED BY <5>1, <5>3, GoneType DEF Hash
      <4>3. again'[b] = (again[b] + IF j \in left THEN 1 ELSE 0) /\ again[b] \in Nat
        BY <2>1 DEF Base, TypeOK
      <4>4. Cardinality(Outstanding(b)) \in Nat /\ IsFiniteSet(Outstanding(b))
        BY <2>1, OutstandingFinite
      <4>5. Cardinality(Outstanding(b)') = Cardinality(Outstanding(b)) - IF j \in left THEN 0 ELSE 1
        <5>1. CASE j \in left
          <6>1. Outstanding(b)' = Outstanding(b)
            BY <4>1, <5>1
          <6> QED BY <4>4, <5>1, <6>1
        <5>2. CASE j \notin left
          BY <4>1, <4>4, <5>2, FS_RemoveElement
        <5> QED BY <5>1, <5>2
      <4>6. hash[b].pending <= Cardinality(Outstanding(b))
            /\ (hash[b].key => Cardinality(Outstanding(b)) = hash[b].pending + again[b])
        BY <2>1, <3>1 DEF Tally
      <4>7. CASE j \in left
        <5>1. Cardinality(Outstanding(b)') = Cardinality(Outstanding(b)) /\ again'[b] = again[b] + 1
          BY <4>3, <4>4, <4>5, <4>7
        <5> QED BY <3>2, <4>2, <4>3, <4>4, <4>6, <5>1
      <4>8. CASE j \notin left
        <5>1. Cardinality(Outstanding(b)') = Cardinality(Outstanding(b)) - 1 /\ again'[b] = again[b]
          BY <4>3, <4>4, <4>5, <4>8
        <5>2. hash'[b].pending <= Cardinality(Outstanding(b)')
          BY <4>2, <4>4, <4>6, <5>1
        <5>3. ASSUME hash'[b].key PROVE Cardinality(Outstanding(b)') = hash'[b].pending + again'[b]
          BY <4>2, <4>3, <4>4, <4>6, <5>1, <5>3
        <5> QED BY <3>2, <5>2, <5>3
      <4> QED BY <4>7, <4>8
    <3>3. CASE p # b
      <4>1. Outstanding(p)' = Outstanding(p)
        BY <2>0, <2>1, <3>3 DEF Outstanding, Joined, BatchOf
      <4> QED BY <2>2, <3>1, <3>3, <4>1 DEF Tally
    <3> QED BY <3>2, <3>3
  <2> QED BY <2>3, <2>4 DEF Tally
<1>2. CASE Cleanup(j)
  <2>1. UNCHANGED <<joined, left, again, home>> /\ Others(j) /\ j \in left
    BY <1>2, EndEffect DEF Cleanup, Enter, web, history, past, Ordered, After
  <2>2. \A p \in Request : \/ hash'[p] = hash[p]
                           \/ hash'[p].pending = 0 /\ ~hash'[p].key
    BY <1>2, NoHashType DEF Cleanup, Base, TypeOK
  <2>3. Ordered'
    BY <2>1, <2>2 DEF Ordered, Others
  <2>4. Tally'
    <3>1. \A p \in Request : Outstanding(p)' = Outstanding(p)
      BY <2>1 DEF Outstanding, Joined, BatchOf
    <3>2. \A p \in Request : Cardinality(Outstanding(p)) \in Nat
      BY OutstandingFinite
    <3> QED BY <2>1, <2>2, <3>1, <3>2, LostGrows DEF Tally
  <2> QED BY <2>3, <2>4
<1>3. CASE Count(j) \/ Finish(j)
  <2>1. UNCHANGED <<joined, left, again, home, hash>> /\ Others(j) /\ task[j].pc \in After
    BY <1>3, EndEffect DEF Count, Finish, Enter, web, history, past, After
  <2> QED BY <2>1, NobodyMoves, LostGrows DEF Others
<1>4. CASE Record(j) \/ Cut(j)
  <2>1. UNCHANGED <<joined, left, again, home, hash>>
    BY <1>4 DEF Record, Cut, web, keys, history, past
  <2>2. Others(j) /\ task'[j].pc \notin After
    BY <1>4, RecordEffect, CutEffect, NoTaskType DEF After
  <2> QED BY <2>1, <2>2, NobodyMoves, LostGrows DEF Others
<1> QED BY <1>1, <1>2, <1>3, <1>4 DEF Removes

LEMMA TallyOthers ==
    ASSUME Base, Ordered, Tally, [Next]_vars,
           \/ \E q \in Request : Expire(q)
           \/ \E j \in Job : Settle(j)
           \/ UNCHANGED vars
    PROVE  Ordered' /\ Tally'
<1>1. ASSUME NEW q \in Request, Expire(q) PROVE Ordered' /\ Tally'
  <2>1. lost' # 0 /\ UNCHANGED <<joined, left, again, home, task>>
    BY <1>1 DEF Expire, Lose, Base, TypeOK, web, history, past
  <2>2. \A p \in Request : hash'[p] = hash[p] \/ hash'[p].pending = 0
    BY <1>1, NoHashType DEF Expire, Base, TypeOK
  <2> QED BY <2>1, <2>2 DEF Ordered, Tally
<1>2. CASE \E j \in Job : Settle(j)
  <2>1. UNCHANGED <<joined, left, again, home, task, hash>>
    BY <1>2 DEF Settle, web, keys, history, past
  <2> QED BY <2>1, NobodyMoves, LostGrows
<1>3. CASE UNCHANGED vars
  <2>1. UNCHANGED <<joined, left, again, home, task, hash>>
    BY <1>3 DEF vars, web, keys, history, past
  <2> QED BY <2>1, NobodyMoves, LostGrows
<1> QED BY <1>1, <1>2, <1>3

LEMMA TallyInit == Init => Ordered /\ Tally
<1> SUFFICES ASSUME Init PROVE Ordered /\ Tally
  OBVIOUS
<1>1. \A q \in Request : Outstanding(q) = {}
  BY DEF Init, Outstanding, Joined
<1>2. \A q \in Request : hash[q].pending = 0 /\ ~hash[q].key
  BY NoHashType DEF Init
<1>3. Ordered
  BY <1>2, NoTaskType DEF Init, Ordered, After
<1> QED BY <1>1, <1>2, <1>3, FS_EmptySet DEF Tally

LEMMA TallyStep == Base /\ Ordered /\ Tally /\ [Next]_vars => Ordered' /\ Tally'
  BY TallyRequests, TallyPerforms, TallyRemoves, TallyOthers DEF Next, Performs

\* A batch that has not ended counts every job still in it, less the repeats, for any
\* number of jobs and of performs of each (add_jobs, remove_job).
THEOREM EarlyCorrect == Spec => []EarlyByRepeats
<1>1. Tally => EarlyByRepeats
  BY DEF Tally, EarlyByRepeats
<1> QED BY <1>1, BaseInit, BaseStep, TallyInit, TallyStep, PTL DEF Spec

-----------------------------------------------------------------------------
(* What the end of a batch means *)

\* As long as no job is performed again, none leaves before it is done, or twice.
Once == ~repeated => /\ left \subseteq begun
                     /\ \A j \in Job : /\ task[j].pc # "idle" => j \in begun
                                       /\ task[j].pc \in Before => j \notin left
                     /\ \A q \in Request : again[q] = 0

LEMMA OnceKept ==
    ASSUME Once, UNCHANGED <<left, again, begun, repeated>>,
           \A j \in Job : /\ task'[j].pc # "idle" => task[j].pc # "idle"
                          /\ task'[j].pc \in Before => task[j].pc \in Before
    PROVE  Once'
  BY DEF Once

LEMMA OnceStep == Base /\ Once /\ [Next]_vars => Once'
<1> SUFFICES ASSUME Base, Once, [Next]_vars PROVE Once'
  OBVIOUS
<1>1. ASSUME NEW q \in Request, Requests(q) \/ DropRequest(q) \/ Expire(q) PROVE Once'
  <2>1. UNCHANGED <<left, again, begun, repeated, task>>
    BY <1>1 DEF Requests, Load, Look, CreateRefresh, Connect, Join, PushWalk, DropRequest,
                Expire, history, past
  <2> QED BY <2>1, OnceKept
<1>2. ASSUME NEW j \in Job, Begin(j) PROVE Once'
  <2>1. /\ UNCHANGED <<left, again>> /\ begun' = begun \cup {j}
        /\ repeated' = (repeated \/ j \in begun)
    BY <1>2 DEF Begin, past
  <2>2. Others(j)
    BY <1>2, BeginEffect
  <2> QED BY <2>1, <2>2 DEF Once, Others
<1>3. ASSUME NEW q \in Request, Walks(q) PROVE Once'
  <2>0. q \in Job
    BY DEF Job
  <2>1. UNCHANGED <<left, again, begun, repeated>>
    BY <1>3 DEF Walks, Touch, WalkEnds, Find, PushReply, history, past
  <2>2. task[q].pc \in Before /\ Others(q)
    BY <1>3, WalkEffect, FindEffect, PushReplyEffect DEF Walks, Before
  <2> QED BY <2>0, <2>1, <2>2, OnceKept DEF Others, Before
<1>4. ASSUME NEW r \in Reply, Fetch(r) PROVE Once'
  <2>0. r \in Job
    BY DEF Job
  <2>1. UNCHANGED <<left, again, begun, repeated>>
    BY <1>4 DEF Fetch, history, past
  <2>2. task[r].pc \in Before /\ Others(r)
    BY <1>4, FetchEffect DEF Before
  <2> QED BY <2>0, <2>1, <2>2, OnceKept DEF Others, Before
<1>5. ASSUME NEW j \in Job, Leave(j) PROVE Once'
  <2>1. task[j].pc = "leave" /\ BatchOf(j) \in Request
        /\ Others(j) /\ task'[j].pc \in {"count", "finish", "cleanup", "record"}
    <3>1. task[j].pc = "leave" /\ BatchOf(j) \in Request
      BY <1>5, LeaveStep
    <3>2. PICK t \in Task :
            /\ Moves(j, t)
            /\ \/ t.pc = IF task[j].new /\ t.key THEN "count" ELSE Ending(t.over, t.key)
               \/ t.pc = "record"
      BY <1>5, LeaveStep
    <3>3. Ending(t.over, t.key) \in {"finish", "cleanup", "record"}
      BY EndingType DEF Task
    <3> QED BY <3>1, <3>2, <3>3 DEF Moves, Others
  <2>2. /\ left' = left \cup {j} /\ UNCHANGED <<begun, repeated>>
        /\ again' = [again EXCEPT ![BatchOf(j)] = @ + IF j \in left THEN 1 ELSE 0]
        /\ again \in [Request -> Nat]
    BY <1>5 DEF Leave, Base, TypeOK
  <2>3. ASSUME ~repeated' PROVE \A q \in Request : again'[q] = 0
    <3>1. j \notin left /\ \A q \in Request : again[q] = 0
      BY <2>1, <2>2, <2>3 DEF Once, Before
    <3> QED BY <2>1, <2>2, <3>1
  <2>4. \A k \in Job : k # j => task'[k] = task[k]
    BY <2>1 DEF Others
  <2>5. ASSUME ~repeated', NEW k \in Job
        PROVE  /\ task'[k].pc # "idle" => k \in begun'
               /\ task'[k].pc \in Before => k \notin left'
    BY <2>1, <2>2, <2>4, <2>5 DEF Once, Before
  <2>6. ~repeated' => left' \subseteq begun'
    BY <2>1, <2>2 DEF Once
  <2> QED BY <2>3, <2>5, <2>6 DEF Once
<1>6. ASSUME NEW j \in Job, Count(j) \/ Finish(j) \/ Cleanup(j) PROVE Once'
  <2>1. UNCHANGED <<left, again, begun, repeated>>
    BY <1>6 DEF Count, Finish, Cleanup, history, past
  <2>2. task[j].pc # "idle" /\ task'[j].pc \notin Before /\ Others(j)
    <3>1. Ending(task[j].over, task[j].key) \in {"finish", "cleanup", "record"}
      BY EndingType DEF Base, TypeOK, Task
    <3> QED BY <1>6, <3>1, EndEffect DEF Before
  <2> QED BY <2>1, <2>2, OnceKept DEF Others
<1>7. ASSUME NEW j \in Job, Record(j) \/ Cut(j) PROVE Once'
  <2>1. UNCHANGED <<left, again, begun, repeated>>
    BY <1>7 DEF Record, Cut, history, past
  <2>2. /\ Others(j)
        /\ task'[j].pc # "idle" => task[j].pc # "idle"
        /\ task'[j].pc \in Before => task[j].pc \in Before
    BY <1>7, RecordEffect, CutEffect, NoTaskType DEF Before
  <2> QED BY <2>1, <2>2, OnceKept DEF Others
<1>8. ASSUME NEW j \in Job, Settle(j) PROVE Once'
  <2>1. UNCHANGED <<left, again, begun, repeated, task>>
    BY <1>8 DEF Settle, history, past
  <2> QED BY <2>1, OnceKept
<1>9. CASE UNCHANGED vars
  <2>1. UNCHANGED <<left, again, begun, repeated, task>>
    BY <1>9 DEF vars, history, past
  <2> QED BY <2>1, OnceKept
<1> QED BY <1>1, <1>2, <1>3, <1>4, <1>5, <1>6, <1>7, <1>8, <1>9 DEF Next, Performs, Removes

\* A perform about to finish the refresh.
Ends(j) == task[j].pc = "finish" \/ (task[j].pc = "count" /\ task[j].over)
Alone == \A p, q \in Started : p = q

\* Whoever finishes the refresh has seen everyone out of its batch, and once it is
\* finished everyone is out of the only batch there is.
Final ==
    ~repeated /\ lost = 0 =>
        /\ \A j \in Job : Ends(j) => Outstanding(BatchOf(j)) = {}
        /\ refresh = "finished" =>
              Started # {} /\ (Alone => \A q \in Request : Outstanding(q) = {})

LEMMA FinalKept ==
    ASSUME Final, UNCHANGED <<joined, left, home>>, Started \subseteq Started',
           ~repeated' => ~repeated, lost' = 0 => lost = 0,
           lost' = 0 /\ refresh' = "finished" => refresh = "finished",
           \A j \in Job : Ends(j)' => Ends(j)
    PROVE  Final'
<1>1. \A j : BatchOf(j)' = BatchOf(j)
  BY DEF BatchOf
<1>2. \A q : Outstanding(q)' = Outstanding(q)
  BY <1>1 DEF Outstanding, Joined
<1>3. Alone' => Alone
  BY DEF Alone
<1>4. \A j : Outstanding(BatchOf(j))' = Outstanding(BatchOf(j))
  BY <1>1 DEF Outstanding, Joined
<1> QED BY <1>2, <1>3, <1>4 DEF Final

LEMMA RepeatedStays == Base /\ [Next]_vars => (~repeated' => ~repeated)
<1> SUFFICES ASSUME Base, [Next]_vars PROVE repeated' = repeated \/ repeated'
  BY DEF Base, TypeOK
<1>1. ASSUME NEW q \in Request, Requests(q) \/ DropRequest(q) \/ Expire(q)
      PROVE  repeated' = repeated
  BY <1>1 DEF Requests, Load, Look, CreateRefresh, Connect, Join, PushWalk, DropRequest,
              Expire, history
<1>2. ASSUME NEW j \in Job, Performs(j) \/ Cut(j) \/ Settle(j) PROVE repeated' = repeated
  BY <1>2 DEF Performs, Walks, Touch, WalkEnds, Find, PushReply, Fetch, Removes, Leave, Count,
              Finish, Cleanup, Record, Cut, Settle, history
<1>3. ASSUME NEW j \in Job, Begin(j) PROVE repeated' = repeated \/ repeated'
  BY <1>3 DEF Begin, Base, TypeOK
<1> QED BY <1>1, <1>2, <1>3 DEF Next, vars, history

LEMMA StartedGrows == Base /\ [Next]_vars => Started \subseteq Started'
<1> SUFFICES ASSUME Base, [Next]_vars PROVE Started \subseteq Started'
  OBVIOUS
<1>t. req \in [Request -> {"off", "look", "create", "connect", "join", "push", "done"}]
  BY DEF Base, TypeOK
<1>1. ASSUME NEW q \in Request, Requests(q) \/ DropRequest(q) PROVE Started \subseteq Started'
  <2>1. joined \subseteq joined'
    BY <1>1 DEF Requests, Load, Look, CreateRefresh, Connect, Join, AddJobs, PushWalk, DropRequest,
                history
  <2>2. PICK to : /\ req' = [req EXCEPT ![q] = to]
                  /\ req[q] \notin {"off", "look"} => to \notin {"off", "look"}
    BY <1>1 DEF Requests, Load, Look, CreateRefresh, Connect, Join, PushWalk, DropRequest, Ask
  <2> QED BY <1>t, <2>1, <2>2 DEF Started
<1>2. ASSUME NEW j \in Job, Begin(j) \/ Performs(j) \/ Cut(j) \/ Settle(j)
      PROVE  Started \subseteq Started'
  <2>1. req' = req /\ joined \subseteq joined'
    BY <1>2 DEF Begin, Performs, Walks, Touch, WalkEnds, Find, AddJobs, PushReply, Fetch, Removes,
                Leave, Count, Finish, Cleanup, Record, Cut, Settle, web, history
  <2> QED BY <2>1 DEF Started
<1>3. ASSUME NEW q \in Request, Expire(q) PROVE Started \subseteq Started'
  BY <1>3 DEF Expire, web, history, Started
<1>4. CASE UNCHANGED vars
  BY <1>4 DEF vars, web, history, Started
<1> QED BY <1>1, <1>2, <1>3, <1>4 DEF Next

\* Whoever is in a batch has its walk there too, and its walk was started.
LEMMA Batched == ASSUME Base, NEW j \in joined
                 PROVE  BatchOf(j) \in Request /\ BatchOf(j) \in joined /\ BatchOf(j) \in Started
<1>1. j \in Job
  BY DEF Base, TypeOK
<1>2. BatchOf(j) \in Request /\ BatchOf(j) \in joined
  BY <1>1, Homed DEF BatchOf, Base, Placed, Job
<1> QED BY <1>2 DEF Started, Base, Placed

LEMMA FinalRequests ==
    ASSUME Base, Final, [Next]_vars, NEW q \in Request, Requests(q) \/ DropRequest(q) \/ Expire(q)
    PROVE  Final'
<1>t. Started \subseteq Started' /\ (~repeated' => ~repeated) /\ (lost' = 0 => lost = 0)
  BY StartedGrows, RepeatedStays, LostGrows
<1>1. UNCHANGED task
  BY DEF Requests, Load, Look, CreateRefresh, Connect, Join, PushWalk, DropRequest, Expire
<1>e. \A j \in Job : Ends(j)' <=> Ends(j)
  BY <1>1 DEF Ends
<1>2. CASE ~Join(q)
  <2>1. /\ UNCHANGED <<joined, left, home>>
        /\ lost' = 0 /\ refresh' = "finished" => refresh = "finished"
    BY <1>2 DEF Requests, Load, Look, CreateRefresh, Connect, PushWalk, DropRequest, Expire, keys,
                history, past, web
  <2> QED BY <1>t, <1>e, <2>1, FinalKept
<1>3. CASE Join(q)
  <2>1. /\ UNCHANGED <<left, home, refresh>> /\ joined' = joined \cup {q} /\ q \notin joined
        /\ req' = [req EXCEPT ![q] = "push"]
    BY <1>3 DEF Join, AddJobs, past, Base, Placed, Ask
  <2>2. \A p \in Request : p # q => Outstanding(p)' = Outstanding(p)
    BY <2>1 DEF Outstanding, Joined, BatchOf
  <2>3. ASSUME ~repeated', lost' = 0, NEW j \in Job, Ends(j)' PROVE Outstanding(BatchOf(j))' = {}
    <3>1. j \in joined /\ Ends(j)
      BY <1>e, <2>3, AtWork DEF Ends
    <3>2. PICK p \in Request : p = BatchOf(j) /\ p \in joined
      BY <3>1, Batched
    <3>3. Outstanding(p) = {}
      BY <1>t, <2>3, <3>1, <3>2 DEF Final
    <3>4. BatchOf(j)' = p
      BY <2>1, <3>2 DEF BatchOf
    <3>5. Outstanding(p)' = {}
      BY <2>1, <2>2, <3>2, <3>3
    <3> QED BY <3>4, <3>5 DEF Outstanding, Joined
  <2>4. ASSUME ~repeated', lost' = 0, refresh' = "finished" PROVE Started' # {} /\ ~Alone'
    <3>1. q \in Started' /\ q \notin Started
      BY <2>1 DEF Started, Base, TypeOK
    <3>2. PICK p \in Started : TRUE
      BY <1>t, <2>1, <2>4 DEF Final
    <3>3. p \in Started' /\ p # q
      BY <1>t, <3>1, <3>2
    <3> QED BY <3>1, <3>3 DEF Alone
  <2> QED BY <2>3, <2>4 DEF Final
<1> QED BY <1>2, <1>3

LEMMA FinalFind ==
    ASSUME Base, Once, Final, [Next]_vars, NEW q \in Request, NEW S \in SUBSET Reply, Find(q, S)
    PROVE  Final'
<1> SUFFICES ASSUME ~repeated', lost' = 0
             PROVE  /\ \A j \in Job : Ends(j)' => Outstanding(BatchOf(j))' = {}
                    /\ refresh' = "finished" => Started' # {} /\ ~Alone'
  BY DEF Final
<1>t. Started \subseteq Started' /\ ~repeated /\ lost = 0
  BY StartedGrows, RepeatedStays, LostGrows
<1>1. /\ task[q].pc = "walk" /\ task'[q].pc = "push" /\ Others(q) /\ q \in joined
      /\ joined' = joined \cup S /\ S \cap joined = {} /\ UNCHANGED <<left, refresh>>
      /\ \A r \in Reply : home'[r] = IF r \in S THEN q ELSE home[r]
  <2>1. UNCHANGED <<left, refresh>>
    BY DEF Find, past
  <2> QED BY <2>1, FindEffect
<1>2. q \in Outstanding(q)
  <2>1. q \notin left
    BY <1>t, <1>1 DEF Once, Before, Job
  <2> QED BY <1>1, <2>1 DEF Outstanding, Joined, BatchOf
<1>3. ASSUME NEW j \in Job, Ends(j)' PROVE Outstanding(BatchOf(j))' = {}
  <2>1. Ends(j) /\ j \in joined
    BY <1>1, <1>3, AtWork DEF Ends, Others
  <2>2. PICK p \in Request : p = BatchOf(j) /\ p = BatchOf(j)'
    BY <1>1, <2>1, Batched DEF BatchOf, Job, Base, TypeOK
  <2>3. Outstanding(p) = {}
    BY <1>t, <2>1, <2>2 DEF Final
  <2>4. Outstanding(p)' = Outstanding(p)
    BY <1>1, <1>2, <2>3, BatchAssumption DEF Outstanding, Joined, BatchOf, Base, TypeOK, Job
  <2> QED BY <2>2, <2>3, <2>4 DEF Outstanding, Joined
<1>4. ASSUME refresh' = "finished" PROVE Started' # {} /\ ~Alone'
  BY <1>t, <1>1, <1>2, <1>4 DEF Final, Alone
<1> QED BY <1>3, <1>4

LEMMA FinalLeave ==
    ASSUME Base, Final, [Next]_vars, Once', Tally', Base', NEW j \in Job, Leave(j)
    PROVE  Final'
<1> SUFFICES ASSUME ~repeated', lost' = 0
             PROVE  /\ \A k \in Job : Ends(k)' => Outstanding(BatchOf(k))' = {}
                    /\ refresh' = "finished" =>
                          Started' # {} /\ (Alone' => \A q \in Request : Outstanding(q)' = {})
  BY DEF Final
<1>t. Started \subseteq Started' /\ ~repeated /\ lost = 0
  BY StartedGrows, RepeatedStays, LostGrows
<1>1. PICK b \in Request : b = BatchOf(j)
  BY LeaveStep
<1>2. /\ UNCHANGED <<joined, home, refresh>> /\ left \subseteq left'
      /\ b = BatchOf(j)' /\ \A k : BatchOf(k)' = BatchOf(k)
  BY <1>1 DEF Leave, web, BatchOf
<1>3. \A q : Outstanding(q)' \subseteq Outstanding(q)
  BY <1>2 DEF Outstanding, Joined
<1>4. PICK t \in Task :
        /\ Moves(j, t)
        /\ hash' = [hash EXCEPT ![b] = Gone(hash[b])]
        /\ t.over = Over(Gone(hash[b])) /\ t.key = hash[b].key
        /\ t.pc = IF task[j].new /\ t.key THEN "count" ELSE Ending(t.over, t.key)
  BY <1>t, <1>1, LeaveStep DEF Lose
<1>5. ASSUME Ends(j)' PROVE Outstanding(b)' = {}
  <2>1. t.over /\ t.key
    <3>1. t.pc = "finish" \/ (t.pc = "count" /\ t.over)
      BY <1>4, <1>5 DEF Ends, Moves
    <3>2. t.key \in BOOLEAN /\ t.over \in BOOLEAN
      BY DEF Task
    <3> QED BY <1>4, <3>1, <3>2 DEF Ending
  <2>2. hash[b] \in Hash /\ hash'[b] = Gone(hash[b])
    BY <1>1, <1>4 DEF Base, TypeOK
  <2>3. hash'[b].key /\ Over(hash'[b]) /\ hash'[b] \in Hash
    BY <1>4, <2>1, <2>2, GoneType
  <2>4. hash'[b].pending \in Int /\ hash'[b].pending <= 0
    <3>1. hash'[b].pending \in Int /\ hash'[b].processed \in Nat
      BY <2>3 DEF Hash
    <3> QED BY <2>3, <3>1 DEF Over
  <2>5. Cardinality(Outstanding(b)') = hash'[b].pending + again'[b] /\ again'[b] = 0
    BY <1>1, <2>3 DEF Tally, Once
  <2>6. Outstanding(b)' \in SUBSET Job
    BY DEF Outstanding, Joined, Base, TypeOK
  <2>7. IsFiniteSet(Outstanding(b)') /\ Cardinality(Outstanding(b)') \in Nat
    BY <2>6, JobsFinite
  <2>8. Cardinality(Outstanding(b)') = 0
    BY <2>4, <2>5, <2>7
  <2> QED BY <2>7, <2>8, FS_EmptySet
<1>6. ASSUME NEW k \in Job, Ends(k)' PROVE Outstanding(BatchOf(k))' = {}
  <2>1. CASE k = j
    BY <1>2, <1>5, <1>6, <2>1 DEF Outstanding, Joined
  <2>2. CASE k # j
    <3>1. Ends(k)
      BY <1>4, <1>6, <2>2 DEF Ends, Moves
    <3>2. PICK p : p = BatchOf(k) /\ p = BatchOf(k)'
      BY <1>2
    <3>3. Outstanding(p)' = {}
      BY <1>t, <1>3, <3>1, <3>2 DEF Final
    <3> QED BY <3>2, <3>3 DEF Outstanding, Joined
  <2> QED BY <2>1, <2>2
<1>7. Alone' => Alone
  BY <1>t DEF Alone
<1> QED BY <1>t, <1>2, <1>3, <1>6, <1>7 DEF Final

LEMMA FinalPerforms ==
    ASSUME Base, Once, Final, [Next]_vars, NEW j \in Job,
           \/ Begin(j) \/ Cut(j) \/ Settle(j) \/ Record(j) \/ Count(j) \/ Finish(j) \/ Cleanup(j)
           \/ j \in Request /\ Walks(j)
           \/ j \in Reply /\ Fetch(j)
    PROVE  Final'
<1>t. Started \subseteq Started' /\ (~repeated' => ~repeated) /\ (lost' = 0 => lost = 0)
  BY StartedGrows, RepeatedStays, LostGrows
<1>1. ASSUME NEW S \in SUBSET Reply, j \in Request, Find(j, S) PROVE Final'
  BY <1>1, FinalFind
<1>2. CASE Finish(j)
  <2> SUFFICES ASSUME ~repeated', lost' = 0
               PROVE  /\ \A k \in Job : Ends(k)' => Outstanding(BatchOf(k))' = {}
                      /\ Started' # {} /\ (Alone' => \A q \in Request : Outstanding(q)' = {})
    BY DEF Final
  <2>1. UNCHANGED <<joined, left, home, req>> /\ Others(j) /\ task[j].pc = "finish"
        /\ task'[j].pc = "cleanup"
    BY <1>2, EndEffect DEF Finish, Enter, web, history, past
  <2>2. \A k : BatchOf(k)' = BatchOf(k)
    BY <2>1 DEF BatchOf
  <2>3. \A q : Outstanding(q)' = Outstanding(q)
    BY <2>1, <2>2 DEF Outstanding, Joined
  <2>4. \A k \in Job : Ends(k) => Outstanding(BatchOf(k)) = {}
    BY <1>t DEF Final
  <2>5. ASSUME NEW k \in Job, Ends(k)' PROVE Outstanding(BatchOf(k))' = {}
    <3>1. Ends(k)
      BY <2>1, <2>5 DEF Ends, Others
    <3>2. Outstanding(BatchOf(k))' = Outstanding(BatchOf(k))
      BY <2>1, <2>2 DEF Outstanding, Joined
    <3> QED BY <2>4, <3>1, <3>2
  <2>6. j \in joined /\ Outstanding(BatchOf(j)) = {} /\ BatchOf(j) \in Started
    <3>1. Ends(j)
      BY <2>1 DEF Ends
    <3>2. j \in joined
      BY <2>1, AtWork
    <3> QED BY <2>4, <3>1, <3>2, Batched
  <2>7. Started' = Started
    BY <2>1 DEF Started
  <2>8. ASSUME Alone', NEW q \in Request, NEW k \in Outstanding(q) PROVE FALSE
    <3>1. k \in joined /\ BatchOf(k) = q
      BY <2>8 DEF Outstanding, Joined
    <3>2. q \in Started
      BY <3>1, Batched
    <3>3. q = BatchOf(j)
      BY <2>6, <2>7, <2>8, <3>2 DEF Alone
    <3> QED BY <2>6, <2>8, <3>3
  <2> QED BY <2>3, <2>5, <2>6, <2>7, <2>8
<1>3. CASE ~Finish(j) /\ ~ \E S \in SUBSET Reply : j \in Request /\ Find(j, S)
  <2>1. UNCHANGED <<joined, left, home, refresh>>
    BY <1>3 DEF Begin, Cut, Settle, Record, Count, Cleanup, Walks, Touch, WalkEnds, PushReply, Fetch,
                web, keys, history, past
  <2>2. Others(j) /\ (Ends(j)' => Ends(j))
    <3>1. CASE Begin(j) \/ Cut(j) \/ Record(j)
      BY <3>1, BeginEffect, CutEffect, RecordEffect, NoTaskType DEF Ends
    <3>2. CASE Settle(j)
      BY <3>2 DEF Settle, Others, Ends
    <3>3. CASE Count(j)
      <4>1. /\ Others(j) /\ task[j].pc = "count" /\ task'[j].over = task[j].over
            /\ task'[j].pc = Ending(task[j].over, task[j].key)
        BY <3>3, EndEffect DEF Count, Enter
      <4> QED BY <4>1 DEF Ends, Ending
    <3>5. CASE Cleanup(j)
      <4>1. Others(j) /\ task'[j].pc = "record"
        BY <3>5, EndEffect DEF Cleanup, Enter
      <4> QED BY <4>1 DEF Ends
    <3>4. CASE (j \in Request /\ Walks(j)) \/ (j \in Reply /\ Fetch(j))
      BY <1>3, <3>4, WalkEffect, PushReplyEffect, FetchEffect DEF Walks, Ends
    <3> QED BY <1>3, <3>1, <3>2, <3>3, <3>4, <3>5
  <2>3. \A k \in Job : Ends(k)' => Ends(k)
    BY <2>2 DEF Ends, Others
  <2> QED BY <1>t, <2>1, <2>3, FinalKept
<1> QED BY <1>1, <1>2, <1>3

LEMMA FinalStep ==
    Base /\ Base' /\ Once /\ Once' /\ Tally' /\ Final /\ [Next]_vars => Final'
<1> SUFFICES ASSUME Base, Base', Once, Once', Tally', Final, [Next]_vars PROVE Final'
  OBVIOUS
<1>1. CASE UNCHANGED vars
  <2>1. UNCHANGED <<joined, left, home, refresh, req, task, lost, repeated>>
    BY <1>1 DEF vars, web, keys, history, past
  <2>2. Started' = Started /\ \A j \in Job : Ends(j)' = Ends(j)
    BY <2>1 DEF Started, Ends
  <2> QED BY <2>1, <2>2, FinalKept
<1> QED BY <1>1, FinalRequests, FinalPerforms, FinalLeave DEF Next, Performs, Removes

\* The refresh that clients poll is finished only once the walk and every reply it
\* found have left the batch, for any number of replies and of faults, as long as one
\* request started it and no job is performed again (fetch_all_replies, remove_job).
THEOREM FinishedCorrect == Spec => []FinishedWhenDone
<1>1. Init => Once /\ Final
  BY NoTaskType DEF Init, Once, Final, Ends, Before
<1>2. Base /\ Final => FinishedWhenDone
  <2> SUFFICES ASSUME Base, Final, refresh = "finished", lost = 0, Cardinality(Started) <= 1, ~repeated
               PROVE  \A q \in Request : Outstanding(q) = {}
    BY DEF FinishedWhenDone
  <2>1. IsFiniteSet(Started) /\ Cardinality(Started) \in Nat
    BY BatchAssumption, FS_Subset, FS_CardinalityType DEF Started
  <2>2. Cardinality(Started) = 0 \/ Cardinality(Started) = 1
    BY <2>1
  <2>3. Alone
    BY <2>1, <2>2, FS_EmptySet, FS_Singleton DEF Alone
  <2> QED BY <2>3 DEF Final
<1> QED BY <1>1, <1>2, BaseInit, BaseStep, TallyInit, TallyStep, OnceStep, FinalStep, PTL DEF Spec

-----------------------------------------------------------------------------
(* What a batch leaves behind *)

\* Job j is still to be performed, or on its way into the queue, and will leave its
\* batch yet.
Expected(j) ==
    /\ j \in joined /\ j \notin finished /\ ~Queue!SpentRetries(j)
    /\ \/ phase[j] = "live"
       \/ /\ phase[j] = "unqueued"
          /\ IF j \in Request THEN req[j] = "push"
             ELSE task[home[j]].pc = "push" /\ j \in task[home[j]].found
    /\ task[j].pc \in After => task[j].out = "none"

\* Perform j is bound for cleanup.
Clearing(j) == \/ task[j].pc \in {"finish", "cleanup"}
               \/ task[j].pc = "count" /\ task[j].over

Watches(j) == Expected(j) \/ Clearing(j)
Watched(q) == req[q] = "join" \/ \E j \in Job : BatchOf(j) = q /\ Watches(j)

\* The keys nobody will remove, and the performs of jobs that had finished before.
Stray == {q \in Request : hash[q].there /\ ~Watched(q)}
Reruns == {j \in finished : task[j].pc # "idle"}

\* Whatever has not left its batch will, an unfinished perform is of a live job, and
\* a key is left behind only by a perform of a finished job that was cut: the perform
\* is one fault, and its cut another.
Tidy ==
    /\ \A j \in Job : j \in finished \/ failures[j] # 0 => phase[j] # "unqueued"
    /\ lost = 0 =>
         /\ \A j \in joined \ left : Expected(j)
         /\ \A j \in Job : task[j].pc # "idle" /\ j \notin finished => phase[j] = "live"
         /\ 2 * Cardinality(Stray) + Cardinality(Reruns) <= faults

LEMMA StrayFinite ==
    ASSUME Base, Base'
    PROVE  /\ IsFiniteSet(Stray) /\ Cardinality(Stray) \in Nat
           /\ IsFiniteSet(Stray') /\ Cardinality(Stray') \in Nat
           /\ IsFiniteSet(Reruns) /\ Cardinality(Reruns) \in Nat
           /\ IsFiniteSet(Reruns') /\ Cardinality(Reruns') \in Nat
<1>1. /\ Stray \in SUBSET Request /\ Reruns \in SUBSET Job
      /\ Stray' \in SUBSET Request /\ Reruns' \in SUBSET Job
  BY DEF Stray, Reruns, Base, TypeOK
<1>2. IsFiniteSet(Stray) /\ IsFiniteSet(Stray')
  BY <1>1, BatchAssumption, FS_Subset
<1> QED BY <1>1, <1>2, JobsFinite, FS_CardinalityType

\* A step that leaves no key behind, and one that does for two faults.
LEMMA StrayKept ==
    ASSUME Base, Base', Stray' \subseteq Stray, faults <= faults',
           \/ Reruns' \subseteq Reruns
           \/ \E j \in Job : Reruns' \subseteq Reruns \cup {j} /\ faults' = faults + 1,
           2 * Cardinality(Stray) + Cardinality(Reruns) <= faults
    PROVE  2 * Cardinality(Stray') + Cardinality(Reruns') <= faults'
<1>1. /\ Cardinality(Stray) \in Nat /\ Cardinality(Reruns) \in Nat
      /\ IsFiniteSet(Stray) /\ IsFiniteSet(Reruns)
      /\ Cardinality(Stray') \in Nat /\ Cardinality(Reruns') \in Nat
      /\ IsFiniteSet(Stray') /\ IsFiniteSet(Reruns')
  BY StrayFinite
<1>2. faults \in Nat /\ faults' \in Nat
  BY BatchAssumption DEF Base, TypeOK
<1>3. Cardinality(Stray') <= Cardinality(Stray)
  BY <1>1, FS_Subset
<1>4. CASE Reruns' \subseteq Reruns
  <2>1. Cardinality(Reruns') <= Cardinality(Reruns)
    BY <1>1, <1>4, FS_Subset
  <2> QED BY <1>1, <1>2, <1>3, <2>1
<1>5. ASSUME NEW j \in Job, Reruns' \subseteq Reruns \cup {j}, faults' = faults + 1
      PROVE  2 * Cardinality(Stray') + Cardinality(Reruns') <= faults'
  <2>1. /\ IsFiniteSet(Reruns \cup {j})
        /\ Cardinality(Reruns \cup {j}) = IF j \in Reruns THEN Cardinality(Reruns)
                                          ELSE Cardinality(Reruns) + 1
    BY <1>1, FS_AddElement
  <2>2. Cardinality(Reruns') <= Cardinality(Reruns \cup {j})
    BY <1>5, <2>1, FS_Subset
  <2>3. Cardinality(Reruns') <= Cardinality(Reruns) + 1
    BY <1>1, <2>1, <2>2
  <2> QED BY <1>1, <1>2, <1>3, <1>5, <2>3
<1> QED BY <1>4, <1>5

LEMMA StrayLeft ==
    ASSUME Base, Base', NEW q \in Request, NEW j \in Reruns,
           Stray' \subseteq Stray \cup {q}, Reruns' \subseteq Reruns \ {j}, faults' = faults + 1,
           2 * Cardinality(Stray) + Cardinality(Reruns) <= faults
    PROVE  2 * Cardinality(Stray') + Cardinality(Reruns') <= faults'
<1>1. /\ Cardinality(Stray) \in Nat /\ Cardinality(Reruns) \in Nat
      /\ IsFiniteSet(Stray) /\ IsFiniteSet(Reruns)
      /\ Cardinality(Stray') \in Nat /\ Cardinality(Reruns') \in Nat
  BY StrayFinite
<1>2. faults \in Nat /\ faults' \in Nat
  BY BatchAssumption DEF Base, TypeOK
<1>3. Cardinality(Stray') <= Cardinality(Stray) + 1
  <2>1. /\ IsFiniteSet(Stray \cup {q})
        /\ Cardinality(Stray \cup {q}) = IF q \in Stray THEN Cardinality(Stray)
                                         ELSE Cardinality(Stray) + 1
    BY <1>1, FS_AddElement
  <2>2. Cardinality(Stray') <= Cardinality(Stray \cup {q})
    BY <2>1, FS_Subset
  <2> QED BY <1>1, <2>1, <2>2
<1>4. Cardinality(Reruns') <= Cardinality(Reruns) - 1
  <2>1. IsFiniteSet(Reruns \ {j}) /\ Cardinality(Reruns \ {j}) = Cardinality(Reruns) - 1
    BY <1>1, FS_RemoveElement
  <2>2. Cardinality(Reruns') <= Cardinality(Reruns \ {j})
    BY <2>1, FS_Subset
  <2> QED BY <2>1, <2>2
<1> QED BY <1>1, <1>2, <1>3, <1>4

\* Whoever is expected is so until it leaves.
Expectant == lost' = 0 => \A k \in Job : Expected(k) => Expected(k)' \/ Leave(k)

\* A step of perform j, or of nobody, that begins none and settles none.
TidyStep(j) ==
    /\ UNCHANGED <<joined, left, home, req, phase, finished, failures, faults>>
    /\ Others(j)
    /\ \A q \in Request : hash'[q].there => hash[q].there

LEMMA TidyKept ==
    ASSUME Base, Base', Tidy, lost' = 0 => lost = 0, NEW j \in Job, TidyStep(j),
           lost' = 0 => /\ Expected(j) => Expected(j)'
                        /\ Clearing(j) => Clearing(j)',
           \A r \in Reply : task[j].pc = "push" /\ r \in task[j].found
                            => task'[j].pc = "push" /\ r \in task'[j].found,
           task'[j].pc # "idle" => task[j].pc # "idle"
    PROVE  Tidy' /\ Expectant
<1> USE DEF TidyStep
<1>1. \A k : BatchOf(k)' = BatchOf(k)
  BY DEF BatchOf
<1>2. ASSUME lost' = 0, NEW k \in Job PROVE /\ Expected(k) => Expected(k)'
                                            /\ Clearing(k) => Clearing(k)'
  <2>1. CASE k = j
    BY <1>2, <2>1
  <2>2. CASE k # j
    <3>1. task'[k] = task[k]
      BY <2>2 DEF Others
    <3>2. ASSUME k \notin Request, task[home[k]].pc = "push", k \in task[home[k]].found, k \in joined
          PROVE  task'[home[k]].pc = "push" /\ k \in task'[home[k]].found
      <4>1. k \in Reply /\ home[k] \in Job
        BY <3>2 DEF Base, Placed, TypeOK, Job
      <4> QED BY <3>2, <4>1 DEF Others
    <3> QED BY <3>1, <3>2 DEF Expected, Clearing, Queue!SpentRetries
  <2> QED BY <2>1, <2>2
<1>3. lost' = 0 => Stray' \subseteq Stray
  <2> SUFFICES ASSUME lost' = 0, NEW q \in Request, Watched(q) PROVE Watched(q)'
    BY DEF Stray
  <2> QED BY <1>1, <1>2 DEF Watched, Watches
<1>4. Reruns' \subseteq Reruns
  BY DEF Reruns, Others, Base, TypeOK
<1>5. lost' = 0 => 2 * Cardinality(Stray') + Cardinality(Reruns') <= faults'
  <2>1. faults \in Nat
    BY BatchAssumption DEF Base, TypeOK
  <2> QED BY <1>3, <1>4, <2>1, StrayKept DEF Tidy
<1>6. joined \subseteq Job
  BY DEF Base, TypeOK
<1> QED BY <1>2, <1>5, <1>6 DEF Tidy, Others, Expectant

LEMMA TidyRequests ==
    ASSUME Base, Base', Ordered, Tidy, [Next]_vars, NEW q \in Request, Requests(q) \/ DropRequest(q)
    PROVE  Tidy' /\ Expectant
<1>t. /\ (lost' = 0 => lost = 0) /\ q \in Job /\ q \notin Reply
      /\ joined \subseteq Job /\ faults \in Nat
  BY LostGrows, BatchAssumption DEF Job, Base, TypeOK
<1>u. UNCHANGED <<home, task, finished, failures, left, faults>>
  BY DEF Requests, Load, Look, CreateRefresh, Connect, Join, PushWalk, Push, DropRequest, web, queue,
         history, past, Queue!Queue, Queue!Become
<1>b. \A k : BatchOf(k)' = BatchOf(k)
  BY <1>u DEF BatchOf
<1>r. req \in [Request -> {"off", "look", "create", "connect", "join", "push", "done"}]
  BY DEF Base, TypeOK
<1>1. PICK to : req' = [req EXCEPT ![q] = to]
  BY DEF Requests, Load, Look, CreateRefresh, Connect, Join, PushWalk, DropRequest, Ask
<1>l. ASSUME lost' = 0 PROVE ~DropRequest(q)
  BY <1>l DEF DropRequest, Lose, Base, TypeOK
<1>a. ASSUME lost' = 0, req[q] = "join" PROVE Join(q) /\ req'[q] = "push"
  BY <1>a, <1>l, <1>r DEF Requests, Load, Look, CreateRefresh, Connect, Join, PushWalk, Ask
<1>p. ASSUME lost' = 0, req[q] = "push" PROVE phase'[q] = "live"
  <2>1. PushWalk(q)
    BY <1>p, <1>l DEF Requests, Load, Look, CreateRefresh, Connect, Join, Ask
  <2>2. Queue!Queue({q})
    BY <2>1, <1>p DEF PushWalk, Push, Lose, Base, TypeOK
  <2> QED BY <2>2, <1>t DEF Queue!Queue, Queue!Become
<1>2. /\ \A k \in Job : k # q => phase'[k] = phase[k]
      /\ phase'[q] = phase[q] \/ (phase[q] = "unqueued" /\ phase'[q] = "live")
  <2>1. CASE PushWalk(q)
    BY <2>1, <1>t DEF PushWalk, Push, queue, Queue!Queue, Queue!Become, Base, TypeOK
  <2> QED BY <2>1 DEF Requests, Load, Look, CreateRefresh, Connect, Join, DropRequest, queue
<1>3. joined' = joined \/ (Join(q) /\ joined' = joined \cup {q})
  BY DEF Requests, Load, Look, CreateRefresh, Connect, Join, AddJobs, PushWalk, DropRequest, history
<1>4. ASSUME lost' = 0, NEW k \in Job, Expected(k) PROVE Expected(k)'
  <2>1. CASE k = q
    BY <1>2, <1>3, <1>4, <1>p, <1>t, <1>u, <2>1 DEF Expected, Queue!SpentRetries
  <2>2. CASE k # q
    <3>1. phase'[k] = phase[k] /\ (k \in Request => req'[k] = req[k]) /\ k \in joined'
      BY <1>1, <1>2, <1>3, <1>4, <1>r, <2>2 DEF Expected
    <3> QED BY <1>4, <1>u, <3>1 DEF Expected, Queue!SpentRetries
  <2> QED BY <2>1, <2>2
<1>5. ASSUME lost' = 0, NEW k \in joined' \ left' PROVE Expected(k)'
  <2>1. CASE k \in joined
    BY <1>t, <1>4, <1>5, <1>u, <2>1 DEF Tidy
  <2>2. CASE k = q /\ Join(q)
    <3>1. req[q] = "join" /\ req'[q] = "push" /\ q \in joined' /\ UNCHANGED phase
      BY <1>r, <2>2, <1>5 DEF Join, Ask, queue
    <3>2. phase[q] = "unqueued" /\ q \notin joined
      BY <3>1, <1>t DEF Base, Placed
    <3>3. q \notin finished /\ failures[q] = 0 /\ task[q].pc = "idle"
      BY <3>2, <1>t DEF Tidy, Base, Queued
    <3> QED BY <1>t, <1>u, <2>2, <3>1, <3>2, <3>3 DEF Expected, After, Queue!SpentRetries
  <2> QED BY <1>3, <1>5, <2>1, <2>2
<1>6. lost' = 0 => Stray' \subseteq Stray
  <2> SUFFICES ASSUME lost' = 0, NEW p \in Request, hash'[p].there, ~Watched(p)'
               PROVE  hash[p].there /\ ~Watched(p)
    BY DEF Stray
  <2>1. \A k \in Job : Watches(k) => Watches(k)'
    BY <1>4, <1>u DEF Watches, Clearing
  <2>2. CASE p = q
    <3>1. ~Join(q) /\ ~Connect(q)
      <4>1. Connect(q) => Watched(q)'
        BY <1>r DEF Connect, Ask, Watched
      <4>2. Join(q) => Watched(q)'
        <5>1. ASSUME Join(q) PROVE q \in joined' /\ BatchOf(q)' = q
          BY <5>1 DEF Join, AddJobs, BatchOf
        <5>2. Join(q) => q \notin left
          BY <1>t DEF Join, Ask, Ordered, Base, Placed
        <5> QED BY <1>5, <1>t, <1>u, <5>1, <5>2 DEF Watched, Watches
      <4> QED BY <2>2, <4>1, <4>2
    <3>2. hash' = hash /\ req[q] # "join"
      BY <1>a, <3>1 DEF Requests, Load, Look, CreateRefresh, PushWalk, DropRequest, keys
    <3> QED BY <1>b, <2>1, <2>2, <3>2 DEF Watched
  <2>3. CASE p # q
    <3>1. hash'[p] = hash[p] /\ req'[p] = req[p]
      <4>1. hash'[p] = hash[p]
        BY <2>3 DEF Requests, Load, Look, CreateRefresh, Connect, Join, AddJobs, PushWalk, DropRequest,
           keys, Base, TypeOK
      <4> QED BY <1>1, <1>r, <2>3, <4>1
    <3> QED BY <1>b, <2>1, <3>1 DEF Watched
  <2> QED BY <2>2, <2>3
<1>7. Reruns' \subseteq Reruns
  BY <1>u DEF Reruns
<1>8. lost' = 0 => 2 * Cardinality(Stray') + Cardinality(Reruns') <= faults'
  BY <1>6, <1>7, <1>t, <1>u, StrayKept DEF Tidy
<1>9. \A k \in Job : k \in finished' \/ failures'[k] # 0 => phase'[k] # "unqueued"
  BY <1>2, <1>u DEF Tidy
<1>10. Expectant
  BY <1>4 DEF Expectant
<1> QED BY <1>2, <1>5, <1>8, <1>9, <1>10, <1>t, <1>u DEF Tidy

LEMMA TidyBegin ==
    ASSUME Base, Base', Tidy, [Next]_vars, NEW j \in Job, Begin(j)
    PROVE  Tidy' /\ Expectant
<1>t. (lost' = 0 => lost = 0) /\ joined \subseteq Job /\ faults \in Nat
  BY LostGrows, BatchAssumption DEF Base, TypeOK
<1>1. /\ UNCHANGED <<phase, finished, failures, req, home, hash, left, joined, lost>>
      /\ phase[j] = "live" /\ task[j].pc = "idle" /\ task'[j].pc \in {"touch", "fetch"}
      /\ Others(j)
      /\ faults' = IF j \in finished THEN faults + 1 ELSE faults
  <2>1. task[j].pc = "idle" /\ task'[j].pc \in {"touch", "fetch"} /\ Others(j)
    BY BeginEffect
  <2> QED BY <2>1 DEF Begin, Fault, queue, web, keys, past
<1>2. ASSUME NEW k \in Job PROVE /\ Expected(k) => Expected(k)'
                                 /\ Clearing(k) => Clearing(k)'
                                 /\ BatchOf(k)' = BatchOf(k)
  <2>1. CASE k = j
    BY <1>1, <2>1 DEF Expected, Clearing, After, BatchOf, Queue!SpentRetries
  <2>2. CASE k # j
    <3>1. task'[k] = task[k]
      BY <1>1, <2>2 DEF Others
    <3>2. ASSUME k \notin Request, task[home[k]].pc = "push", k \in joined
          PROVE  task'[home[k]] = task[home[k]]
      <4>1. home[k] \in Job
        BY <3>2 DEF Base, Placed, TypeOK, Job
      <4> QED BY <1>1, <3>2, <4>1 DEF Others
    <3> QED BY <1>1, <3>1, <3>2 DEF Expected, Clearing, BatchOf, Queue!SpentRetries
  <2> QED BY <2>1, <2>2
<1>3. Stray' \subseteq Stray
  BY <1>1, <1>2 DEF Stray, Watched, Watches
<1>4. \/ Reruns' \subseteq Reruns /\ faults <= faults'
      \/ Reruns' \subseteq Reruns \cup {j} /\ faults' = faults + 1 /\ faults <= faults'
  BY <1>1, <1>t DEF Reruns, Others, Base, TypeOK
<1>5. lost' = 0 => 2 * Cardinality(Stray') + Cardinality(Reruns') <= faults'
  BY <1>3, <1>4, <1>t, StrayKept DEF Tidy
<1>6. lost' = 0 => \A k \in joined' \ left' : Expected(k)'
  BY <1>1, <1>2, <1>t DEF Tidy
<1>7. lost' = 0 => \A k \in Job : task'[k].pc # "idle" /\ k \notin finished' => phase'[k] = "live"
  BY <1>1, <1>t DEF Tidy, Others
<1>8. Expectant
  BY <1>2 DEF Expectant
<1> QED BY <1>1, <1>5, <1>6, <1>7, <1>8 DEF Tidy

\* The walk and the fetch until they leave, but for what they find and push.
LEMMA TidyWorks ==
    ASSUME Base, Base', Tidy, [Next]_vars, NEW j \in Job,
           (j \in Request /\ (Touch(j) \/ WalkEnds(j))) \/ (j \in Reply /\ Fetch(j))
    PROVE  Tidy' /\ Expectant
<1>t. lost' = 0 => lost = 0
  BY LostGrows
<1>1. /\ Others(j) /\ task[j].pc \in {"touch", "walk", "fetch"}
      /\ task'[j].pc \notin After \cup {"idle"}
  BY WalkEffect, FetchEffect DEF After
<1>2. TidyStep(j)
  BY <1>1 DEF TidyStep, Touch, WalkEnds, Fetch, queue, web, keys, history, past
<1>3. (Expected(j) => Expected(j)') /\ (Clearing(j) => Clearing(j)')
  <2>1. ASSUME j \notin Request, j \in joined
        PROVE  task'[home[j]] = task[home[j]]
    <3>1. home[j] \in Job /\ home[j] # j
      BY <2>1, BatchAssumption DEF Base, Placed, TypeOK, Job
    <3> QED BY <1>1, <3>1 DEF Others
  <2> QED BY <1>1, <1>2, <2>1 DEF TidyStep, Expected, Clearing, Queue!SpentRetries
<1> QED BY <1>1, <1>2, <1>3, <1>t, TidyKept

LEMMA TidyFind ==
    ASSUME Base, Base', Tidy, [Next]_vars, NEW q \in Request, NEW S \in SUBSET Reply, Find(q, S)
    PROVE  Tidy' /\ Expectant
<1>t. /\ (lost' = 0 => lost = 0) /\ joined \subseteq Job /\ q \in Job /\ faults \in Nat
      /\ S \subseteq Job /\ S \cap Request = {} /\ q \notin S
  BY LostGrows, BatchAssumption DEF Base, TypeOK, Job
<1>1. /\ UNCHANGED <<phase, finished, failures, req, left, faults>>
      /\ task[q].pc = "walk" /\ task'[q].pc = "push" /\ task'[q].found = S /\ Others(q)
      /\ joined' = joined \cup S /\ S \cap joined = {} /\ S # {}
      /\ \A r \in Reply : home'[r] = IF r \in S THEN q ELSE home[r]
  <2>1. UNCHANGED <<phase, finished, failures, req, left, faults>> /\ S # {}
    BY DEF Find, queue, past
  <2> QED BY <2>1, FindEffect
<1>2. ASSUME NEW r \in S PROVE Expected(r)' /\ BatchOf(r)' = q
  <2>1. r \in Job /\ r \notin Request /\ r # q /\ r \notin joined
    BY <1>1, <1>2, <1>t
  <2>2. phase[r] = "unqueued"
    BY <2>1 DEF Base, Placed
  <2>3. r \notin finished /\ failures[r] = 0 /\ task[r].pc = "idle"
    BY <2>1, <2>2 DEF Tidy, Base, Queued
  <2> QED BY <1>1, <2>1, <2>2, <2>3 DEF Expected, Others, After, BatchOf, Queue!SpentRetries
<1>3. ASSUME NEW k \in Job \ S PROVE /\ Expected(k) => Expected(k)'
                                     /\ Clearing(k) => Clearing(k)'
                                     /\ BatchOf(k)' = BatchOf(k)
  <2>1. BatchOf(k)' = BatchOf(k) /\ (k \notin Request => home'[k] = home[k])
    BY <1>1, <1>3 DEF BatchOf, Job
  <2>2. task'[k].pc \in After \/ Clearing(k) => task'[k] = task[k]
    BY <1>1, <1>3 DEF Others, After, Clearing
  <2>3. ASSUME k \notin Request, k \in joined, task[home[k]].pc = "push"
        PROVE  task'[home[k]] = task[home[k]]
    <3>1. home[k] \in Job /\ home[k] # q
      BY <1>1, <2>3 DEF Base, Placed, TypeOK, Job
    <3> QED BY <1>1, <3>1 DEF Others
  <2> QED BY <1>1, <2>1, <2>2, <2>3 DEF Expected, Clearing, Queue!SpentRetries
<1>4. ASSUME NEW p \in Request, p \notin Stray PROVE p \notin Stray'
  <2>1. CASE p = q
    BY <1>1, <1>2, <1>t, <2>1 DEF Stray, Watched, Watches
  <2>2. CASE p # q
    <3>1. hash'[p] = hash[p]
      BY <2>2 DEF Find, AddJobs, Base, TypeOK
    <3>2. ASSUME Watched(p) PROVE Watched(p)'
      <4>1. CASE req[p] = "join"
        BY <1>1, <4>1 DEF Watched
      <4>2. ASSUME NEW k \in Job, BatchOf(k) = p, Watches(k) PROVE Watched(p)'
        <5>1. k \in joined
          BY <4>2, AtWork DEF Watches, Clearing, Expected
        <5> QED BY <1>1, <1>3, <4>2, <5>1 DEF Watched, Watches
      <4> QED BY <3>2, <4>1, <4>2 DEF Watched
    <3> QED BY <1>4, <3>1, <3>2 DEF Stray
  <2> QED BY <2>1, <2>2
<1>5. Stray' \subseteq Stray
  BY <1>4 DEF Stray
<1>6. Reruns' \subseteq Reruns
  BY <1>1 DEF Reruns, Others, Base, TypeOK
<1>7. lost' = 0 => 2 * Cardinality(Stray') + Cardinality(Reruns') <= faults'
  BY <1>1, <1>5, <1>6, <1>t, StrayKept DEF Tidy
<1>8. lost' = 0 => \A k \in joined' \ left' : Expected(k)'
  BY <1>1, <1>2, <1>3, <1>t DEF Tidy
<1>9. lost' = 0 => \A k \in Job : task'[k].pc # "idle" /\ k \notin finished' => phase'[k] = "live"
  BY <1>1, <1>t DEF Tidy, Others
<1>10. Expectant
  BY <1>2, <1>3 DEF Expectant
<1> QED BY <1>1, <1>7, <1>8, <1>9, <1>10 DEF Tidy

LEMMA TidyPush ==
    ASSUME Base, Base', Tidy, [Next]_vars, NEW q \in Request, NEW r \in Reply, PushReply(q, r)
    PROVE  Tidy' /\ Expectant
<1>t. /\ (lost' = 0 => lost = 0) /\ joined \subseteq Job /\ q \in Job /\ r \in Job /\ r \notin Request
      /\ faults \in Nat
  BY LostGrows, BatchAssumption DEF Base, TypeOK, Job
<1>1. /\ UNCHANGED <<finished, failures, req, left, joined, home, hash, faults>>
      /\ task[q].pc = "push" /\ task'[q].pc = (IF task[q].found = {r} THEN "walk" ELSE "push")
      /\ task'[q].found = task[q].found \ {r} /\ Others(q)
      /\ phase'[r] \in {phase[r], "live"} /\ \A k \in Job : k # r => phase'[k] = phase[k]
      /\ lost' = 0 => phase'[r] = "live"
  <2>1. UNCHANGED <<req, left, joined, home, hash, faults>>
    BY DEF PushReply, web, keys, history, past
  <2>2. lost' = 0 => UNCHANGED lost
    BY <1>t
  <2> QED BY <2>1, <2>2, PushReplyEffect
<1>2. ASSUME lost' = 0, NEW k \in Job PROVE Expected(k) => Expected(k)'
  <2>1. CASE k = q
    BY <1>1, <1>t, <2>1 DEF Expected, After, Queue!SpentRetries
  <2>2. CASE k = r
    <3>1. task'[r] = task[r]
      BY <1>1, <1>t DEF Others
    <3> QED BY <1>1, <1>2, <2>2, <3>1 DEF Expected, Queue!SpentRetries
  <2>3. CASE k # q /\ k # r
    <3>1. task'[k] = task[k] /\ phase'[k] = phase[k]
      BY <1>1, <2>3 DEF Others
    <3>2. ASSUME k \notin Request, k \in joined, task[home[k]].pc = "push", k \in task[home[k]].found
          PROVE  task'[home[k]].pc = "push" /\ k \in task'[home[k]].found
      <4>1. home[k] \in Job
        BY <3>2 DEF Base, Placed, TypeOK, Job
      <4>2. CASE home[k] = q
        BY <1>1, <2>3, <3>2, <4>2
      <4>3. CASE home[k] # q
        BY <1>1, <3>2, <4>1, <4>3 DEF Others
      <4> QED BY <4>2, <4>3
    <3> QED BY <1>1, <3>1, <3>2 DEF Expected, Queue!SpentRetries
  <2> QED BY <2>1, <2>2, <2>3
<1>3. ASSUME NEW k \in Job PROVE (Clearing(k) => Clearing(k)') /\ BatchOf(k)' = BatchOf(k)
  BY <1>1 DEF Clearing, Others, BatchOf
<1>4. lost' = 0 => Stray' \subseteq Stray
  BY <1>1, <1>2, <1>3 DEF Stray, Watched, Watches
<1>5. Reruns' \subseteq Reruns
  BY <1>1 DEF Reruns, Others, Base, TypeOK
<1>6. lost' = 0 => 2 * Cardinality(Stray') + Cardinality(Reruns') <= faults'
  BY <1>1, <1>4, <1>5, <1>t, StrayKept DEF Tidy
<1>7. \A k \in Job : phase[k] # "unqueued" => phase'[k] # "unqueued"
  BY <1>1
<1>8. lost' = 0 => \A k \in Job : task'[k].pc # "idle" /\ k \notin finished => phase'[k] = "live"
  BY <1>1, <1>t DEF Tidy, Others
<1>9. Expectant
  BY <1>2 DEF Expectant
<1> QED BY <1>1, <1>2, <1>6, <1>7, <1>8, <1>9, <1>t DEF Tidy

\* A batch that has not ended has someone still to leave it.
LEMMA NotOver ==
    ASSUME Base', Tally', lost' = 0, NEW b \in Request, ~Over(hash'[b])
    PROVE  \E k \in Job : k \in joined' \ left' /\ BatchOf(k)' = b
<1>1. hash'[b].pending \in Int /\ hash'[b].processed \in Nat
  BY DEF Base, TypeOK, Hash
<1>2. hash'[b].pending > 0
  <2>1. PICK m \in Int, n \in Nat : m = hash'[b].pending /\ n = hash'[b].processed
    BY <1>1
  <2>2. ~(m = 0 \/ n >= n + m)
    BY <2>1 DEF Over
  <2> QED BY <2>1, <2>2
<1>3. hash'[b].pending <= Cardinality(Outstanding(b)')
  BY DEF Tally
<1>4. Outstanding(b)' \in SUBSET Job
  BY DEF Outstanding, Joined, Base, TypeOK
<1>5. Outstanding(b)' # {}
  <2>1. Cardinality(Outstanding(b)') \in Nat
    BY <1>4, JobsFinite
  <2> QED BY <1>1, <1>2, <1>3, <2>1, FS_EmptySet
<1> QED BY <1>4, <1>5 DEF Outstanding, Joined

\* Who leaves last clears, and before that there is another to leave.
LEMMA TidyLeave ==
    ASSUME Base, Base', Ordered, Tidy, Tally', [Next]_vars, NEW j \in Job, Leave(j)
    PROVE  Tidy' /\ Expectant
<1>t. (lost' = 0 => lost = 0) /\ joined \subseteq Job /\ faults \in Nat
  BY LostGrows, BatchAssumption DEF Base, TypeOK
<1>1. PICK b \in Request : b = BatchOf(j)
  BY LeaveStep
<1>2. /\ UNCHANGED <<phase, finished, failures, req, home, joined, faults>>
      /\ left' = left \cup {j} /\ task[j].pc = "leave"
      /\ \A k : BatchOf(k)' = BatchOf(k)
      /\ \A p \in Request : p # b => hash'[p] = hash[p]
  <2>1. UNCHANGED <<phase, finished, failures, req, home, joined, faults>>
        /\ left' = left \cup {j} /\ task[j].pc = "leave"
    BY DEF Leave, queue, web
  <2>2. \A p \in Request : p # b => hash'[p] = hash[p]
    BY <1>1 DEF Leave, Base, TypeOK
  <2> QED BY <2>1, <2>2 DEF BatchOf
<1>3. PICK t \in Task :
        /\ Moves(j, t)
        /\ lost' = 0 => /\ hash' = [hash EXCEPT ![b] = Gone(hash[b])]
                        /\ t.over = Over(Gone(hash[b]))
                        /\ t.pc = IF task[j].new /\ t.key THEN "count" ELSE Ending(t.over, t.key)
  <2>1. PICK t \in Task :
          /\ Moves(j, t)
          /\ \/ /\ hash' = [hash EXCEPT ![b] = Gone(hash[b])]
                /\ t.over = Over(Gone(hash[b]))
                /\ t.pc = IF task[j].new /\ t.key THEN "count" ELSE Ending(t.over, t.key)
             \/ Lose
    BY <1>1, LeaveStep
  <2>2. Lose => lost' # 0
    BY DEF Lose, Base, TypeOK
  <2> QED BY <2>1, <2>2
<1>4. Others(j) /\ task'[j] = t
  BY <1>3 DEF Moves, Others
<1>5. ASSUME NEW k \in Job, k # j PROVE (Expected(k) => Expected(k)') /\ (Clearing(k) => Clearing(k)')
  <2>1. task'[k] = task[k]
    BY <1>4, <1>5 DEF Others
  <2>2. ASSUME k \notin Request, k \in joined, task[home[k]].pc = "push"
        PROVE  task'[home[k]] = task[home[k]]
    <3>1. home[k] \in Job /\ home[k] # j
      BY <1>2, <2>2 DEF Base, Placed, TypeOK, Job
    <3> QED BY <1>4, <3>1 DEF Others
  <2> QED BY <1>2, <2>1, <2>2 DEF Expected, Clearing, Queue!SpentRetries
<1>6. lost' = 0 => \A k \in joined' \ left' : Expected(k)'
  BY <1>2, <1>5, <1>t DEF Tidy
<1>7. ASSUME lost' = 0 PROVE Watched(b)'
  <2>1. hash[b] \in Hash /\ hash'[b] = Gone(hash[b]) /\ hash'[b] \in Hash
    BY <1>1, <1>3, <1>7 DEF Base, TypeOK
  <2>2. CASE t.over
    <3>1. Clearing(j)'
      BY <1>3, <1>4, <1>7, <2>2 DEF Clearing, Ending
    <3> QED BY <1>1, <1>2, <3>1 DEF Watched, Watches
  <2>3. CASE ~t.over
    <3>1. ~Over(hash'[b])
      BY <1>3, <1>7, <2>1, <2>3
    <3>2. PICK k \in Job : k \in joined' \ left' /\ BatchOf(k)' = b
      BY <1>7, <3>1, NotOver
    <3> QED BY <1>6, <1>7, <3>2 DEF Watched, Watches
  <2> QED BY <2>2, <2>3
<1>8. lost' = 0 => Stray' \subseteq Stray
  <2> SUFFICES ASSUME lost' = 0, NEW p \in Request, p # b, Watched(p) PROVE Watched(p)'
    BY <1>2, <1>7 DEF Stray
  <2> QED BY <1>1, <1>2, <1>5 DEF Watched, Watches
<1>9. Reruns' \subseteq Reruns
  BY <1>2, <1>4 DEF Reruns, Others, Base, TypeOK
<1>10. lost' = 0 => 2 * Cardinality(Stray') + Cardinality(Reruns') <= faults'
  BY <1>2, <1>8, <1>9, <1>t, StrayKept DEF Tidy
<1>11. lost' = 0 => \A k \in Job : task'[k].pc # "idle" /\ k \notin finished => phase'[k] = "live"
  BY <1>2, <1>4, <1>t DEF Tidy, Others
<1>12. Expectant
  BY <1>5 DEF Expectant
<1> QED BY <1>2, <1>6, <1>10, <1>11, <1>12 DEF Tidy

LEMMA TidyRemoves ==
    ASSUME Base, Base', Ordered, Tidy, [Next]_vars, NEW j \in Job,
           Count(j) \/ Finish(j) \/ Cleanup(j)
    PROVE  Tidy' /\ Expectant
<1>t. /\ (lost' = 0 => lost = 0) /\ joined \subseteq Job /\ faults \in Nat
      /\ task[j].pc \in {"count", "finish", "cleanup"} /\ Others(j)
      /\ task'[j].out = task[j].out /\ task'[j].over = task[j].over /\ task'[j].found = task[j].found
  BY LostGrows, BatchAssumption, EndEffect DEF Base, TypeOK
<1>1. UNCHANGED <<joined, left, home, req, phase, finished, failures, faults>>
  BY DEF Count, Finish, Cleanup, queue, web, history, past
<1>2. task[j].pc \in After /\ (task[j].pc \in After => task[j].out = "none" \/ ~Expected(j))
  BY <1>t DEF After, Expected
<1>3. Expected(j) => Expected(j)'
  <2>1. ASSUME j \notin Request, j \in joined, task[home[j]].pc = "push"
        PROVE  task'[home[j]] = task[home[j]]
    <3>1. home[j] \in Job /\ home[j] # j
      BY <1>t, <2>1 DEF Base, Placed, TypeOK, Job
    <3> QED BY <1>t, <3>1 DEF Others
  <2> QED BY <1>t, <1>1, <1>2, <2>1 DEF Expected, Queue!SpentRetries
<1>4. CASE Count(j) \/ Finish(j)
  <2>1. TidyStep(j)
    BY <1>t, <1>1, <1>4 DEF TidyStep, Count, Finish
  <2>2. Clearing(j) => Clearing(j)'
    <3>1. /\ task[j].pc = "count" => task'[j].pc = Ending(task[j].over, task[j].key)
          /\ task[j].pc = "finish" => task'[j].pc = "cleanup"
          /\ task[j].pc # "cleanup"
      BY <1>4, EndEffect DEF Count, Finish, Enter
    <3> QED BY <3>1 DEF Clearing, Ending
  <2> QED BY <1>t, <1>3, <2>1, <2>2, TidyKept
<1>5. CASE Cleanup(j)
  <2>1. PICK b \in Request : b = BatchOf(j)
    BY <1>t, AtWork
  <2>2. /\ \A p \in Request : p # b => hash'[p] = hash[p]
        /\ lost' = 0 => ~hash'[b].there
        /\ task'[j].pc = "record"
        /\ \A k : BatchOf(k)' = BatchOf(k)
    <3>1. hash' = [hash EXCEPT ![b] = NoHash] \/ (Lose /\ UNCHANGED hash)
      BY <1>5, <2>1 DEF Cleanup
    <3>2. Lose => lost' # 0
      BY DEF Lose, Base, TypeOK
    <3>3. task'[j].pc = "record"
      BY <1>5, EndEffect DEF Cleanup, Enter
    <3>4. hash \in [Request -> Hash]
      BY DEF Base, TypeOK
    <3> QED BY <1>1, <3>1, <3>2, <3>3, <3>4, NoHashType DEF BatchOf
  <2>3. ASSUME NEW k \in Job PROVE /\ Expected(k) => Expected(k)'
                                   /\ k # j /\ Clearing(k) => Clearing(k)'
    <3>1. CASE k = j
      BY <1>3, <3>1
    <3>2. CASE k # j
      <4>1. task'[k] = task[k]
        BY <1>t, <3>2 DEF Others
      <4>2. ASSUME k \notin Request, k \in joined, task[home[k]].pc = "push"
            PROVE  task'[home[k]] = task[home[k]]
        <5>1. home[k] \in Job /\ home[k] # j
          BY <1>t, <4>2 DEF Base, Placed, TypeOK, Job
        <5> QED BY <1>t, <5>1 DEF Others
      <4> QED BY <1>1, <4>1, <4>2 DEF Expected, Clearing, Queue!SpentRetries
    <3> QED BY <3>1, <3>2
  <2>4. lost' = 0 => Stray' \subseteq Stray
    <3> SUFFICES ASSUME lost' = 0, NEW p \in Request, p # b, Watched(p) PROVE Watched(p)'
      BY <2>2 DEF Stray
    <3> QED BY <1>1, <2>1, <2>2, <2>3 DEF Watched, Watches
  <2>5. Reruns' \subseteq Reruns
    BY <1>t, <1>1 DEF Reruns, Others, Base, TypeOK
  <2>6. lost' = 0 => 2 * Cardinality(Stray') + Cardinality(Reruns') <= faults'
    BY <1>1, <1>t, <2>4, <2>5, StrayKept DEF Tidy
  <2>7. lost' = 0 => \A k \in joined' \ left' : Expected(k)'
    BY <1>1, <1>t, <2>3 DEF Tidy
  <2>8. lost' = 0 => \A k \in Job : task'[k].pc # "idle" /\ k \notin finished => phase'[k] = "live"
    BY <1>1, <1>t DEF Tidy, Others
  <2>9. Expectant
    BY <2>3 DEF Expectant
  <2> QED BY <1>1, <2>6, <2>7, <2>8, <2>9 DEF Tidy
<1> QED BY <1>4, <1>5

LEMMA TidyRecord ==
    ASSUME Base, Base', Ordered, Tidy, [Next]_vars, NEW j \in Job, Record(j)
    PROVE  Tidy' /\ Expectant
<1>t. (lost' = 0 => lost = 0) /\ joined \subseteq Job /\ faults \in Nat
  BY LostGrows, BatchAssumption DEF Base, TypeOK
<1>1. /\ UNCHANGED <<joined, left, home, req, phase, hash, faults>>
      /\ task[j].pc = "record" /\ task'[j] = NoTask /\ Others(j)
      /\ \A k \in Job : k # j => failures'[k] = failures[k] /\ (k \in finished' <=> k \in finished)
      /\ task[j].out = "none" => UNCHANGED <<finished, failures>>
  <2>1. UNCHANGED <<joined, left, home, req, phase, hash, faults>>
    BY RecordEffect DEF Record, web, keys, history, past
  <2> QED BY <2>1, RecordEffect
<1>2. ASSUME NEW k \in Job PROVE /\ Expected(k) => Expected(k)'
                                 /\ Clearing(k) => Clearing(k)'
                                 /\ BatchOf(k)' = BatchOf(k)
  <2>1. ASSUME k \notin Request, k \in joined, task[home[k]].pc = "push"
        PROVE  task'[home[k]] = task[home[k]]
    <3>1. home[k] \in Job /\ home[k] # j
      BY <1>1, <2>1 DEF Base, Placed, TypeOK, Job
    <3> QED BY <1>1, <3>1 DEF Others
  <2>2. CASE k = j
    <3>1. Expected(j) => UNCHANGED <<finished, failures>>
      BY <1>1 DEF Expected, After
    <3>2. task'[j].pc = "idle"
      BY <1>1, NoTaskType
    <3> QED BY <1>1, <2>1, <2>2, <3>1, <3>2 DEF Expected, Clearing, BatchOf, After, Queue!SpentRetries
  <2>3. CASE k # j
    <3>1. task'[k] = task[k] /\ failures'[k] = failures[k] /\ (k \in finished' <=> k \in finished)
      BY <1>1, <2>3 DEF Others
    <3> QED BY <1>1, <2>1, <3>1 DEF Expected, Clearing, BatchOf, Queue!SpentRetries
  <2> QED BY <2>2, <2>3
<1>3. Stray' \subseteq Stray
  BY <1>1, <1>2 DEF Stray, Watched, Watches
<1>4. Reruns' \subseteq Reruns
  <2>1. task'[j].pc = "idle"
    BY <1>1, NoTaskType
  <2> QED BY <1>1, <2>1 DEF Reruns, Others, Base, TypeOK
<1>5. lost' = 0 => 2 * Cardinality(Stray') + Cardinality(Reruns') <= faults'
  BY <1>1, <1>3, <1>4, <1>t, StrayKept DEF Tidy
<1>6. lost' = 0 => \A k \in joined' \ left' : Expected(k)'
  BY <1>1, <1>2, <1>t DEF Tidy
<1>7. lost' = 0 => \A k \in Job : task'[k].pc # "idle" /\ k \notin finished' => phase'[k] = "live"
  <2>1. task'[j].pc = "idle"
    BY <1>1, NoTaskType
  <2> QED BY <1>1, <1>t, <2>1 DEF Tidy, Others
<1>8. \A k \in Job : k \in finished' \/ failures'[k] # 0 => phase'[k] # "unqueued"
  BY <1>1 DEF Tidy, Base, Queued
<1>9. Expectant
  BY <1>2 DEF Expectant
<1> QED BY <1>5, <1>6, <1>7, <1>8, <1>9 DEF Tidy

\* A perform is cut: if its job had not finished it will be performed again.
LEMMA TidyCut ==
    ASSUME Base, Base', Ordered, Tidy, [Next]_vars, NEW j \in Job, Cut(j)
    PROVE  Tidy' /\ Expectant
<1>t. (lost' = 0 => lost = 0) /\ joined \subseteq Job /\ faults \in Nat
  BY LostGrows, BatchAssumption DEF Base, TypeOK
<1>1. /\ UNCHANGED <<joined, left, home, req, phase, finished, failures, hash>>
      /\ task[j].pc # "idle" /\ Others(j) /\ faults' = faults + 1
      /\ task'[j].pc = "idle" \/ (task'[j].pc = "leave" /\ task[j].pc \in Before)
      /\ lost' = 0 => task[j].found = {}
  <2>1. UNCHANGED <<joined, left, home, req, phase, finished, failures, hash>>
    BY DEF Cut, queue, web, keys, history, past
  <2>2. lost' = 0 => UNCHANGED lost
    BY <1>t
  <2> QED BY <2>1, <2>2, CutEffect, NoTaskType DEF Before
<1>2. ASSUME lost' = 0, NEW k \in Job PROVE /\ Expected(k) => Expected(k)'
                                            /\ k # j /\ Clearing(k) => Clearing(k)'
                                            /\ BatchOf(k)' = BatchOf(k)
  <2>1. ASSUME k \notin Request, k \in joined, task[home[k]].pc = "push", k \in task[home[k]].found
        PROVE  task'[home[k]] = task[home[k]]
    <3>1. home[k] \in Job /\ home[k] # j
      BY <1>1, <1>2, <2>1 DEF Base, Placed, TypeOK, Job
    <3> QED BY <1>1, <3>1 DEF Others
  <2>2. CASE k = j
    <3>1. task'[j].pc \notin After
      BY <1>1 DEF After
    <3> QED BY <1>1, <2>1, <2>2, <3>1 DEF Expected, BatchOf, Queue!SpentRetries
  <2>3. CASE k # j
    <3>1. task'[k] = task[k]
      BY <1>1, <2>3 DEF Others
    <3> QED BY <1>1, <2>1, <3>1 DEF Expected, Clearing, BatchOf, Queue!SpentRetries
  <2> QED BY <2>2, <2>3
<1>3. PICK b \in Request : b = BatchOf(j)
  BY <1>1, AtWork
<1>4. ASSUME lost' = 0 PROVE Stray' \subseteq Stray \cup {b}
  <2> SUFFICES ASSUME NEW p \in Request, p # b, Watched(p) PROVE Watched(p)'
    BY <1>1 DEF Stray
  <2> QED BY <1>1, <1>2, <1>3, <1>4 DEF Watched, Watches
<1>5. ASSUME lost' = 0, j \notin finished PROVE Watched(b)'
  <2>1. j \in joined /\ phase[j] = "live" /\ ~Queue!SpentRetries(j)
    BY <1>1, <1>5, <1>t, AtWork DEF Tidy, Base, Queued
  <2>2. Expected(j)'
    BY <1>1, <1>5, <2>1 DEF Expected, After, Queue!SpentRetries
  <2> QED BY <1>1, <1>3, <2>2 DEF Watched, Watches, BatchOf
<1>6. ASSUME lost' = 0, ~Clearing(j) PROVE Stray' \subseteq Stray
  <2> SUFFICES ASSUME NEW p \in Request, Watched(p) PROVE Watched(p)'
    BY <1>1 DEF Stray
  <2> QED BY <1>1, <1>2, <1>6 DEF Watched, Watches
<1>7. Reruns' \subseteq Reruns
  BY <1>1 DEF Reruns, Others, Base, TypeOK
<1>8. ASSUME lost' = 0 PROVE 2 * Cardinality(Stray') + Cardinality(Reruns') <= faults'
  <2>1. 2 * Cardinality(Stray) + Cardinality(Reruns) <= faults
    BY <1>8, <1>t DEF Tidy
  <2>2. CASE Stray' \subseteq Stray
    BY <1>1, <1>7, <1>t, <2>1, <2>2, StrayKept
  <2>3. CASE ~(Stray' \subseteq Stray)
    <3>1. j \in finished /\ Clearing(j)
      BY <1>4, <1>5, <1>6, <1>8, <2>3 DEF Stray
    <3>2. task'[j].pc = "idle"
      BY <1>1, <3>1 DEF Clearing, Before
    <3>3. j \in Reruns /\ Reruns' \subseteq Reruns \ {j}
      BY <1>1, <1>7, <3>1, <3>2 DEF Reruns
    <3> QED BY <1>1, <1>4, <1>8, <2>1, <3>3, StrayLeft
  <2> QED BY <2>2, <2>3
<1>9. lost' = 0 => \A k \in joined' \ left' : Expected(k)'
  BY <1>1, <1>2, <1>t DEF Tidy
<1>10. lost' = 0 => \A k \in Job : task'[k].pc # "idle" /\ k \notin finished => phase'[k] = "live"
  BY <1>1, <1>t DEF Tidy, Others
<1>11. Expectant
  BY <1>2 DEF Expectant
<1> QED BY <1>1, <1>8, <1>9, <1>10, <1>11 DEF Tidy

LEMMA TidySettle ==
    ASSUME Base, Base', Tidy, [Next]_vars, NEW j \in Job, Settle(j)
    PROVE  Tidy' /\ Expectant
<1>t. (lost' = 0 => lost = 0) /\ joined \subseteq Job /\ faults \in Nat
  BY LostGrows, BatchAssumption DEF Base, TypeOK
<1>1. /\ UNCHANGED <<joined, left, home, req, task, finished, failures, hash, faults>>
      /\ j \in finished \/ Queue!SpentRetries(j)
      /\ phase[j] = "live" /\ phase'[j] # "unqueued" /\ \A k \in Job : k # j => phase'[k] = phase[k]
  <2>1. UNCHANGED <<joined, left, home, req, task, hash, faults>>
    BY DEF Settle, web, keys, history, past
  <2> QED BY <2>1 DEF Settle, Queue!Complete, Queue!Bury, Queue!Become
<1>2. ASSUME NEW k \in Job PROVE /\ Expected(k) => Expected(k)'
                                 /\ Clearing(k) => Clearing(k)'
                                 /\ BatchOf(k)' = BatchOf(k)
  <2>1. CASE k = j
    BY <1>1, <2>1 DEF Expected, Clearing, BatchOf
  <2>2. CASE k # j
    BY <1>1, <2>2 DEF Expected, Clearing, BatchOf, Queue!SpentRetries
  <2> QED BY <2>1, <2>2
<1>3. Stray' \subseteq Stray
  BY <1>1, <1>2 DEF Stray, Watched, Watches
<1>4. Reruns' \subseteq Reruns
  BY <1>1 DEF Reruns
<1>5. lost' = 0 => 2 * Cardinality(Stray') + Cardinality(Reruns') <= faults'
  BY <1>1, <1>3, <1>4, <1>t, StrayKept DEF Tidy
<1>6. lost' = 0 => \A k \in joined' \ left' : Expected(k)'
  BY <1>1, <1>2, <1>t DEF Tidy
<1>7. lost' = 0 => \A k \in Job : task'[k].pc # "idle" /\ k \notin finished => phase'[k] = "live"
  BY <1>1, <1>t DEF Tidy, Base, Queued
<1>8. Expectant
  BY <1>2 DEF Expectant
<1> QED BY <1>1, <1>5, <1>6, <1>7, <1>8 DEF Tidy

LEMMA TidyStepAll ==
    Base /\ Base' /\ Ordered /\ Tally' /\ Tidy /\ [Next]_vars => Tidy' /\ Expectant
<1> SUFFICES ASSUME Base, Base', Ordered, Tally', Tidy, [Next]_vars PROVE Tidy' /\ Expectant
  OBVIOUS
<1>1. ASSUME NEW q \in Request, Expire(q) PROVE Tidy' /\ Expectant
  <2>1. lost' # 0 /\ UNCHANGED <<phase, finished, failures>>
    BY <1>1 DEF Expire, Lose, queue, Base, TypeOK
  <2> QED BY <2>1 DEF Tidy, Expectant
<1>2. ASSUME NEW q \in Request, Walks(q) PROVE Tidy' /\ Expectant
  BY <1>2, TidyWorks, TidyFind, TidyPush DEF Walks, Job
<1>3. ASSUME NEW r \in Reply, Fetch(r) PROVE Tidy' /\ Expectant
  BY <1>3, TidyWorks DEF Job
<1>4. CASE UNCHANGED vars
  BY <1>4 DEF vars, queue, web, keys, history, past, Tidy, Stray, Reruns, Watched, Watches, Expected,
     Clearing, BatchOf, Queue!SpentRetries, Expectant
<1> QED BY <1>1, <1>2, <1>3, <1>4, TidyRequests, TidyBegin, TidyLeave, TidyRemoves, TidyRecord,
           TidyCut, TidySettle DEF Next, Performs, Removes

LEMMA TidyInit == Init => Tidy
<1> SUFFICES ASSUME Init PROVE Tidy
  OBVIOUS
<1>1. Stray = {} /\ Reruns = {} /\ joined = {} /\ faults = 0 /\ finished = {}
  BY NoHashType DEF Init, Stray, Reruns, Queue!Init
<1>2. \A j \in Job : task[j].pc = "idle" /\ failures[j] = 0
  BY NoTaskType DEF Init, Queue!Init
<1> QED BY <1>1, <1>2, FS_EmptySet DEF Tidy

LEMMA NothingExpected ==
    ASSUME Base, \A q \in Request : req[q] \in {"off", "look", "done"},
           \A j \in Job : task[j].pc = "idle" /\ phase[j] # "live"
    PROVE  \A j \in Job : ~Expected(j)
<1> SUFFICES ASSUME NEW j \in Job, Expected(j) PROVE FALSE
  OBVIOUS
<1>1. j \notin Request /\ task[home[j]].pc = "push"
  BY DEF Expected
<1>2. home[j] \in Job
  BY <1>1 DEF Expected, Base, Placed, TypeOK, Job
<1> QED BY <1>1, <1>2

\* When all has settled, whatever was repeated or cut, every key that is left was left by a
\* perform of a job that had finished before, and that was cut between leaving the batch
\* and the end: two faults for each (remove_job, cleanup).
THEOREM LeftCorrect == Spec => []LeftByFaults
<1>1. Base /\ Tidy => LeftByFaults
  <2> SUFFICES ASSUME Base, Tidy, lost = 0, \A q \in Request : req[q] \in {"off", "look", "done"},
                      \A j \in Job : task[j].pc = "idle" /\ phase[j] # "live"
               PROVE  2 * Cardinality({q \in Request : hash[q].there}) <= faults
    BY DEF LeftByFaults
  <2>1. \A j \in Job : ~Watches(j)
    <3>1. \A j \in Job : ~Clearing(j)
      BY DEF Clearing
    <3> QED BY <3>1, NothingExpected DEF Watches
  <2>2. Stray = {q \in Request : hash[q].there}
    BY <2>1 DEF Stray, Watched
  <2>3. Stray \in SUBSET Request /\ Reruns \in SUBSET Job
    BY DEF Stray, Reruns, Base, TypeOK
  <2>4. IsFiniteSet(Stray)
    BY <2>3, BatchAssumption, FS_Subset
  <2>5. Cardinality(Stray) \in Nat /\ Cardinality(Reruns) \in Nat
    BY <2>3, <2>4, JobsFinite, FS_CardinalityType
  <2>6. 2 * Cardinality(Stray) + Cardinality(Reruns) <= faults /\ faults \in Nat
    BY BatchAssumption DEF Tidy, Base, TypeOK
  <2>7. 2 * Cardinality(Stray) <= faults
    BY <2>5, <2>6
  <2> QED BY <2>2, <2>7
<1> QED BY <1>1, BaseInit, BaseStep, TallyInit, TallyStep, TidyInit, TidyStepAll, PTL DEF Spec

-----------------------------------------------------------------------------
(* A refresh that is running has someone to finish it *)

\* Job j will leave its batch yet, or has ended it.
Closer(j) == j \notin finished /\ (Expected(j) \/ Ends(j))

\* The end of q's batch will finish the refresh: its key knows of it, or will.
Promised(q) ==
    \/ req[q] = "connect"
    \/ /\ hash[q].key
       /\ \A j \in Job : BatchOf(j) = q => task[j].pc # "cleanup"
       /\ req[q] = "join" \/ \E j \in Job : BatchOf(j) = q /\ Closer(j)

Bound == lost = 0 =>
            /\ \A j \in Job : task[j].pc = "count" => task[j].key
            /\ refresh = "running" => \E q \in Request : Promised(q)

LEMMA PromisedKept ==
    ASSUME NEW q \in Request, Promised(q), req[q] \in {"connect", "join"} => req'[q] = req[q],
           hash[q].key => hash'[q].key,
           \A j \in Job : BatchOf(j)' = q /\ task'[j].pc = "cleanup"
                          => BatchOf(j) = q /\ task[j].pc = "cleanup",
           \A j \in Job : BatchOf(j) = q /\ Closer(j)
                          => \E k \in Job : BatchOf(k)' = q /\ Closer(k)'
    PROVE  Promised(q)'
<1>1. CASE req[q] = "connect"
  BY <1>1 DEF Promised
<1>2. CASE req[q] # "connect"
  <2>1. hash'[q].key /\ \A j \in Job : BatchOf(j)' = q => task'[j].pc # "cleanup"
    BY <1>2 DEF Promised
  <2>2. CASE req[q] = "join"
    BY <2>1, <2>2 DEF Promised
  <2>3. ASSUME NEW j \in Job, BatchOf(j) = q, Closer(j) PROVE Promised(q)'
    BY <2>1, <2>3 DEF Promised
  <2> QED BY <1>2, <2>2, <2>3 DEF Promised
<1> QED BY <1>1, <1>2

LEMMA AddedKey ==
    ASSUME Base, NEW q \in Request, NEW n,
           hash' = hash \/ hash' = [hash EXCEPT ![q] = Added(hash[q], n)]
    PROVE  \A p \in Request : hash'[p].key = hash[p].key
<1>1. hash \in [Request -> Hash]
  BY DEF Base, TypeOK
<1>2. Added(hash[q], n).key = hash[q].key
  BY <1>1 DEF Added, Hash
<1> QED BY <1>1, <1>2

LEMMA LeaveMoves == ASSUME Base, NEW k \in Job, Leave(k) PROVE task'[k] # task[k]
<1>1. PICK u \in Task : Moves(k, u) /\ task[k].pc = "leave" /\ u.pc \in After
  BY LeaveStep DEF After, Ending
<1> QED BY <1>1 DEF Moves, After

\* A step of perform j that neither leaves nor ends a batch.
LEMMA BoundKept ==
    ASSUME Base, Base', Bound, Expectant, lost' = 0 => lost = 0, NEW j \in Job, ~Leave(j),
           UNCHANGED <<req, refresh>>, finished' \subseteq finished \cup {j}, Others(j),
           \A q \in Request : hash[q].key => hash'[q].key,
           \A k \in joined : BatchOf(k)' = BatchOf(k),
           lost' = 0 => /\ j \notin finished /\ Ends(j) => Closer(j)'
                        /\ task'[j].pc = "cleanup" => task[j].pc = "cleanup"
                        /\ task'[j].pc = "count" => task'[j].key
    PROVE  Bound'
<1> SUFFICES ASSUME lost' = 0 PROVE /\ \A k \in Job : task'[k].pc = "count" => task'[k].key
                                    /\ refresh' = "running" => \E q \in Request : Promised(q)'
  BY DEF Bound
<1>1. ASSUME NEW k \in Job, task'[k].pc = "count" PROVE task'[k].key
  BY <1>1 DEF Bound, Others
<1>2. ASSUME NEW k \in Job, Closer(k) PROVE Closer(k)' /\ BatchOf(k)' = BatchOf(k)
  <2>1. k \in joined
    BY <1>2, AtWork DEF Closer, Expected, Ends
  <2>2. CASE Expected(k)
    <3>1. Expected(k)'
      BY <2>2, LeaveMoves DEF Expectant, Others
    <3> QED BY <2>1, <3>1 DEF Closer, Expected
  <2>3. CASE Ends(k) /\ k # j
    <3>1. task'[k] = task[k] /\ k \notin finished'
      BY <1>2, <2>3 DEF Others, Closer
    <3> QED BY <2>1, <2>3, <3>1 DEF Closer, Ends
  <2>4. CASE Ends(k) /\ k = j
    BY <1>2, <2>1, <2>4 DEF Closer
  <2> QED BY <1>2, <2>2, <2>3, <2>4 DEF Closer
<1>3. ASSUME NEW k \in Job, task'[k].pc = "cleanup"
      PROVE  task[k].pc = "cleanup" /\ BatchOf(k)' = BatchOf(k)
  <2>1. task[k].pc = "cleanup"
    BY <1>3 DEF Others
  <2> QED BY <2>1, AtWork
<1>4. ASSUME NEW q \in Request, Promised(q) PROVE Promised(q)'
  <2>1. \A k \in Job : BatchOf(k) = q /\ Closer(k) => \E i \in Job : BatchOf(i)' = q /\ Closer(i)'
    BY <1>2
  <2> QED BY <1>3, <1>4, <2>1, PromisedKept
<1> QED BY <1>1, <1>4 DEF Bound

LEMMA BoundRequests ==
    ASSUME Base, Base', Ordered, Tidy', Bound, Expectant, [Next]_vars,
           NEW q \in Request, Requests(q) \/ DropRequest(q)
    PROVE  Bound'
<1>t. /\ (lost' = 0 => lost = 0) /\ q \in Job
      /\ req \in [Request -> {"off", "look", "create", "connect", "join", "push", "done"}]
      /\ hash \in [Request -> Hash]
  BY LostGrows DEF Job, Base, TypeOK
<1>u. UNCHANGED <<home, task, finished, left>>
  BY DEF Requests, Load, Look, CreateRefresh, Connect, Join, PushWalk, Push, DropRequest, web, queue,
         history, past, Queue!Queue, Queue!Become
<1>b. \A k : BatchOf(k)' = BatchOf(k)
  BY <1>u DEF BatchOf
<1> SUFFICES ASSUME lost' = 0, refresh' = "running" PROVE \E p \in Request : Promised(p)'
  BY <1>t, <1>u DEF Bound
<1>l. \A k \in Job : Expected(k) => Expected(k)'
  BY <1>u, LeaveMoves DEF Expectant
<1>k. ASSUME NEW p \in Request, NEW k \in Job, BatchOf(k) = p, Closer(k)
      PROVE  \E i \in Job : BatchOf(i)' = p /\ Closer(i)'
  BY <1>b, <1>k, <1>l, <1>u DEF Closer, Ends
<1>1. ASSUME NEW p \in Request, Promised(p), hash[p].key => hash'[p].key,
             req[p] \in {"connect", "join"} => req'[p] = req[p]
      PROVE  Promised(p)'
  <2>1. \A k \in Job : BatchOf(k) = p /\ Closer(k) => \E i \in Job : BatchOf(i)' = p /\ Closer(i)'
    BY <1>k
  <2> QED BY <1>1, <1>b, <1>u, <2>1, PromisedKept
<1>2. CASE CreateRefresh(q)
  BY <1>2, <1>t DEF CreateRefresh, Ask, Promised
<1>3. CASE Connect(q)
  <2>1. req[q] = "connect" /\ req'[q] = "join" /\ hash'[q].key
    BY <1>3, <1>t DEF Connect, Ask, Lose, Hash, Base, TypeOK
  <2>2. ASSUME NEW j \in Job, BatchOf(j) = q, task[j].pc = "cleanup" PROVE FALSE
    BY <2>1, <2>2, AtWork, Batched DEF Base, Placed
  <2>3. Promised(q)'
    BY <1>b, <1>u, <2>1, <2>2 DEF Promised
  <2> QED BY <2>3
<1>4. CASE ~CreateRefresh(q) /\ ~Connect(q)
  <2>1. lost = 0 /\ refresh = "running" /\ ~DropRequest(q)
    BY <1>t, <1>4 DEF Requests, Load, Look, Join, PushWalk, DropRequest, keys, Lose, Base, TypeOK
  <2>2. PICK p \in Request : Promised(p)
    BY <2>1 DEF Bound
  <2>3. /\ hash[p].key => hash'[p].key
        /\ p = q /\ req[p] \in {"connect", "join"} => Join(q)
        /\ p # q => req'[p] = req[p]
    <3>1. hash' = hash \/ \E n : hash' = [hash EXCEPT ![q] = Added(hash[q], n)]
      BY <1>4, <2>1 DEF Requests, Load, Look, Join, AddJobs, PushWalk, keys
    <3>2. hash[p].key => hash'[p].key
      BY <3>1, AddedKey
    <3>3. /\ p = q /\ req[p] \in {"connect", "join"} => Join(q)
          /\ p # q => req'[p] = req[p]
      BY <1>t, <1>4, <2>1 DEF Requests, Load, Look, Join, Ask, PushWalk
    <3> QED BY <3>2, <3>3
  <2>4. CASE ~(p = q /\ Join(q))
    <3>1. req[p] \in {"connect", "join"} => req'[p] = req[p]
      BY <2>3, <2>4
    <3> QED BY <1>1, <2>2, <2>3, <3>1
  <2>5. CASE p = q /\ Join(q)
    <3>1. req[q] = "join" /\ q \in joined' /\ q \notin left'
      BY <1>t, <1>u, <2>5 DEF Join, Ask, AddJobs, Ordered, Base, Placed
    <3>2. Expected(q)' /\ BatchOf(q)' = q
      BY <3>1 DEF Tidy, BatchOf
    <3>3. Closer(q)'
      BY <3>2 DEF Closer, Expected
    <3>4. hash'[q].key /\ \A k \in Job : BatchOf(k)' = q => task'[k].pc # "cleanup"
      BY <1>b, <1>u, <2>2, <2>3, <2>5, <3>1 DEF Promised
    <3>5. Promised(q)'
      BY <1>t, <3>2, <3>3, <3>4 DEF Promised
    <3> QED BY <3>5
  <2> QED BY <2>4, <2>5
<1> QED BY <1>2, <1>3, <1>4

\* Whoever leaves a batch that has a key ends it, or leaves another in it.
LEMMA BoundLeave ==
    ASSUME Base, Base', Tidy', Tally', Bound, Expectant, [Next]_vars, NEW j \in Job, Leave(j)
    PROVE  Bound'
<1>t. lost' = 0 => lost = 0
  BY LostGrows
<1> SUFFICES ASSUME lost' = 0 PROVE /\ \A k \in Job : task'[k].pc = "count" => task'[k].key
                                    /\ refresh' = "running" => \E q \in Request : Promised(q)'
  BY DEF Bound
<1>1. PICK b \in Request : b = BatchOf(j)
  BY LeaveStep
<1>2. /\ UNCHANGED <<finished, req, home, refresh>> /\ task[j].pc = "leave"
      /\ \A k : BatchOf(k)' = BatchOf(k)
  BY DEF Leave, queue, web, BatchOf
<1>3. PICK t \in Task :
        /\ Moves(j, t)
        /\ hash' = [hash EXCEPT ![b] = Gone(hash[b])]
        /\ t.over = Over(Gone(hash[b])) /\ t.key = hash[b].key
        /\ t.pc = IF task[j].new /\ t.key THEN "count" ELSE Ending(t.over, t.key)
  <2>1. ~Lose
    BY DEF Lose, Base, TypeOK
  <2> QED BY <1>1, <2>1, LeaveStep
<1>4. Others(j) /\ task'[j] = t
  BY <1>3 DEF Moves, Others
<1>5. /\ hash[b] \in Hash /\ hash'[b] = Gone(hash[b]) /\ hash'[b].key = hash[b].key
      /\ \A p \in Request : p # b => hash'[p] = hash[p]
  <2>1. hash \in [Request -> Hash]
    BY DEF Base, TypeOK
  <2> QED BY <1>3, <2>1, GoneType
<1>6. ASSUME NEW k \in Job, task'[k].pc = "count" PROVE task'[k].key
  <2>1. k = j => t.key
    BY <1>3, <1>4, <1>6 DEF Ending
  <2> QED BY <1>4, <1>6, <1>t, <2>1 DEF Bound, Others
<1>7. ASSUME NEW k \in Job, k # j, Closer(k) PROVE Closer(k)' /\ BatchOf(k)' = BatchOf(k)
  <2>1. task'[k] = task[k]
    BY <1>4, <1>7 DEF Others
  <2>2. ~Leave(k)
    BY <2>1, LeaveMoves
  <2> QED BY <1>2, <1>7, <2>1, <2>2 DEF Expectant, Closer, Ends
<1>8. ASSUME refresh' = "running" PROVE \E q \in Request : Promised(q)'
  <2>1. PICK q \in Request : Promised(q)
    BY <1>2, <1>8, <1>t DEF Bound
  <2>2. b \in joined /\ req[b] \in {"push", "done"}
    BY <1>1, <1>2, AtWork, Batched DEF Base, Placed
  <2>3. q = b => hash[b].key
    BY <2>1, <2>2 DEF Promised
  <2>4. ASSUME NEW k \in Job, BatchOf(k)' = q, task'[k].pc = "cleanup"
        PROVE  BatchOf(k) = q /\ task[k].pc = "cleanup"
    <3>1. k = j => FALSE
      BY <1>1, <1>2, <1>3, <1>4, <2>3, <2>4 DEF Ending
    <3> QED BY <1>2, <1>4, <2>4, <3>1 DEF Others
  <2>5. ASSUME NEW k \in Job, BatchOf(k) = q, Closer(k)
        PROVE  \E i \in Job : BatchOf(i)' = q /\ Closer(i)'
    <3>1. CASE k # j
      BY <1>7, <2>5, <3>1
    <3>2. CASE k = j /\ t.over
      <4>1. t.key /\ q = b
        BY <1>1, <1>3, <2>3, <2>5, <3>2
      <4>2. Ends(j)'
        BY <1>3, <1>4, <3>2, <4>1 DEF Ends, Ending
      <4> QED BY <1>2, <2>5, <3>2, <4>2 DEF Closer
    <3>3. CASE k = j /\ ~t.over
      <4>1. PICK i \in Job : i \in joined' \ left' /\ BatchOf(i)' = b
        BY <1>3, <1>5, <3>3, NotOver
      <4>2. Expected(i)'
        BY <4>1 DEF Tidy
      <4>3. Closer(i)'
        BY <4>2 DEF Closer, Expected
      <4> QED BY <1>1, <2>5, <3>3, <4>1, <4>3
    <3> QED BY <3>1, <3>2, <3>3
  <2>6. /\ hash[q].key => hash'[q].key
        /\ req[q] \in {"connect", "join"} => req'[q] = req[q]
    BY <1>2, <1>5
  <2> QED BY <2>1, <2>4, <2>5, <2>6, PromisedKept
<1> QED BY <1>6, <1>8

\* Finish keeps the promise, and cleanup removes a key to which nothing is promised.
LEMMA BoundEnds ==
    ASSUME Base, Base', Bound, Expectant, [Next]_vars, NEW j \in Job,
           Finish(j) \/ Cleanup(j)
    PROVE  Bound'
<1>t. lost' = 0 => lost = 0
  BY LostGrows
<1> SUFFICES ASSUME lost' = 0 PROVE /\ \A k \in Job : task'[k].pc = "count" => task'[k].key
                                    /\ refresh' = "running" => \E q \in Request : Promised(q)'
  BY DEF Bound
<1>l. ~Lose
  BY DEF Lose, Base, TypeOK
<1>1. /\ UNCHANGED <<finished, req, home>> /\ Others(j) /\ task'[j].pc # "count"
      /\ \A k : BatchOf(k)' = BatchOf(k)
  <2>1. Others(j) /\ task'[j].pc # "count"
    BY EndEffect DEF Finish, Cleanup, Enter
  <2> QED BY <2>1 DEF Finish, Cleanup, queue, web, BatchOf
<1>2. ASSUME NEW k \in Job, task'[k].pc = "count" PROVE task'[k].key
  BY <1>1, <1>2, <1>t DEF Bound, Others
<1>3. CASE Finish(j)
  BY <1>2, <1>3, <1>l DEF Finish
<1>4. CASE Cleanup(j)
  <2>1. PICK b \in Request : b = BatchOf(j) /\ task[j].pc = "cleanup"
    BY <1>4, AtWork DEF Cleanup, Enter
  <2>2. task'[j].pc = "record" /\ UNCHANGED refresh
    BY <1>4, EndEffect DEF Cleanup, Enter
  <2>3. hash \in [Request -> Hash] /\ hash' = [hash EXCEPT ![b] = NoHash]
    BY <1>4, <1>l, <2>1 DEF Cleanup, Base, TypeOK
  <2>4. ASSUME refresh' = "running" PROVE \E q \in Request : Promised(q)'
    <3>1. PICK q \in Request : Promised(q)
      BY <1>t, <2>2, <2>4 DEF Bound
    <3>2. b \in joined /\ req[b] \in {"push", "done"}
      BY <2>1, AtWork, Batched DEF Base, Placed
    <3>3. q # b
      BY <2>1, <3>1, <3>2 DEF Promised
    <3>4. ASSUME NEW k \in Job, BatchOf(k) = q, Closer(k)
          PROVE  \E i \in Job : BatchOf(i)' = q /\ Closer(i)'
      <4>1. k # j /\ task'[k] = task[k]
        BY <1>1, <2>1, <3>3, <3>4 DEF Others
      <4>2. ~Leave(k)
        BY <4>1, LeaveMoves
      <4> QED BY <1>1, <3>4, <4>1, <4>2 DEF Expectant, Closer, Ends
    <3>5. ASSUME NEW k \in Job, BatchOf(k)' = q, task'[k].pc = "cleanup"
          PROVE  BatchOf(k) = q /\ task[k].pc = "cleanup"
      BY <1>1, <2>2, <3>5 DEF Others
    <3>6. /\ hash[q].key => hash'[q].key
          /\ req[q] \in {"connect", "join"} => req'[q] = req[q]
      BY <1>1, <2>3, <3>3
    <3> QED BY <3>1, <3>4, <3>5, <3>6, PromisedKept
  <2> QED BY <1>2, <2>4
<1> QED BY <1>3, <1>4

LEMMA BoundPerforms ==
    ASSUME Base, Base', Ordered, Tidy, Bound, Expectant, [Next]_vars, NEW j \in Job,
           Begin(j) \/ Performs(j) \/ Cut(j) \/ Settle(j),
           ~Leave(j), ~Finish(j), ~Cleanup(j)
    PROVE  Bound'
<1>t. lost' = 0 => lost = 0
  BY LostGrows
<1> DEFINE Going == /\ Others(j) /\ finished' \subseteq finished \cup {j}
                    /\ lost' = 0 => /\ j \notin finished /\ Ends(j) => Closer(j)'
                                    /\ task'[j].pc = "cleanup" => task[j].pc = "cleanup"
                                    /\ task'[j].pc = "count" => task'[j].key
<1>r. /\ UNCHANGED <<req, refresh>>
      /\ \A k \in joined : BatchOf(k)' = BatchOf(k)
      /\ \A q \in Request : hash[q].key => hash'[q].key
  <2>1. CASE UNCHANGED <<home, req, refresh, hash>>
    BY <2>1 DEF BatchOf
  <2>2. ASSUME NEW S \in SUBSET Reply, j \in Request, Find(j, S)
        PROVE  /\ UNCHANGED <<req, refresh>>
               /\ \A k \in joined : BatchOf(k)' = BatchOf(k)
               /\ \A q \in Request : hash[q].key => hash'[q].key
    <3>1. \A k \in joined : BatchOf(k)' = BatchOf(k)
      BY <2>2, FindEffect DEF BatchOf, Job, Base, TypeOK
    <3>2. hash' = hash \/ hash' = [hash EXCEPT ![j] = Added(hash[j], Cardinality(S))]
      BY <2>2 DEF Find, AddJobs
    <3>3. \A q \in Request : hash[q].key => hash'[q].key
      BY <2>2, <3>2, AddedKey
    <3> QED BY <2>2, <3>1, <3>3 DEF Find
  <2> QED BY <2>1, <2>2 DEF Begin, Performs, Walks, Touch, WalkEnds, PushReply, Fetch, Removes, Count,
             Record, Cut, Settle, web, keys
<1> SUFFICES Going
  BY <1>t, <1>r, BoundKept
<1>1. CASE Begin(j)
  <2>1. Others(j) /\ task[j].pc = "idle" /\ task'[j].pc \in {"touch", "fetch"}
    BY <1>1, BeginEffect
  <2>2. finished' = finished
    BY <1>1 DEF Begin, queue
  <2> QED BY <2>1, <2>2 DEF Ends
<1>2. CASE j \in Request /\ Walks(j)
  <2>1. Others(j) /\ ~Ends(j) /\ task'[j].pc \in {"walk", "push", "leave"}
    BY <1>2, WalkEffect, FindEffect, PushReplyEffect DEF Walks, Ends
  <2>2. finished' = finished
    BY <1>2, PushReplyEffect DEF Walks, Touch, WalkEnds, Find, queue
  <2> QED BY <2>1, <2>2
<1>3. CASE j \in Reply /\ Fetch(j)
  <2>1. Others(j) /\ ~Ends(j) /\ task'[j].pc = "leave"
    BY <1>3, FetchEffect DEF Ends
  <2>2. finished' = finished
    BY <1>3 DEF Fetch, queue
  <2> QED BY <2>1, <2>2
<1>4. CASE Count(j)
  <2>1. /\ Others(j) /\ task[j].pc = "count" /\ finished' = finished
        /\ task'[j].pc = Ending(task[j].over, task[j].key)
    BY <1>4, EndEffect DEF Count, Enter, queue
  <2>2. ASSUME lost' = 0 PROVE task'[j].pc = IF task[j].over THEN "finish" ELSE "record"
    BY <1>t, <2>1, <2>2 DEF Bound, Ending
  <2> QED BY <2>1, <2>2 DEF Ends, Closer
<1>5. CASE Record(j)
  <2>1. Others(j) /\ task[j].pc = "record" /\ task'[j].pc = "idle"
    BY <1>5, RecordEffect, NoTaskType
  <2>2. finished' \subseteq finished \cup {j}
    BY <1>5 DEF Record, queue, Queue!PerformOk, Queue!PerformFails
  <2> QED BY <2>1, <2>2 DEF Ends
<1>6. CASE Cut(j)
  <2>1. Others(j) /\ task[j].pc # "idle" /\ task'[j].pc \in {"idle", "leave"}
    BY <1>6, CutEffect, NoTaskType
  <2>2. UNCHANGED <<finished, phase, failures, joined>>
    BY <1>6 DEF Cut, queue, history
  <2>3. ASSUME lost' = 0, j \notin finished PROVE Closer(j)'
    <3>1. j \in joined /\ phase[j] = "live" /\ ~Queue!SpentRetries(j)
      BY <1>t, <2>1, <2>3, AtWork DEF Tidy, Base, Queued
    <3> QED BY <2>1, <2>2, <2>3, <3>1 DEF Closer, Expected, After, Queue!SpentRetries
  <2> QED BY <2>1, <2>2, <2>3
<1>7. CASE Settle(j)
  <2>1. UNCHANGED <<task, finished>>
    BY <1>7 DEF Settle, Queue!Complete, Queue!Bury, Queue!Become
  <2> QED BY <1>t, <2>1 DEF Others, Bound, Ends, Closer
<1> QED BY <1>1, <1>2, <1>3, <1>4, <1>5, <1>6, <1>7 DEF Performs, Removes

LEMMA BoundStep ==
    Base /\ Base' /\ Ordered /\ Tally' /\ Tidy /\ Tidy' /\ Expectant /\ Bound /\ [Next]_vars => Bound'
<1> SUFFICES ASSUME Base, Base', Ordered, Tally', Tidy, Tidy', Expectant, Bound, [Next]_vars
             PROVE  Bound'
  OBVIOUS
<1>1. ASSUME NEW q \in Request, Expire(q) PROVE Bound'
  BY <1>1 DEF Expire, Lose, Bound, Base, TypeOK
<1>2. CASE UNCHANGED vars
  BY <1>2 DEF vars, queue, web, keys, history, past, Bound, Promised, Closer, Expected, Ends,
     BatchOf, Queue!SpentRetries
<1> QED BY <1>1, <1>2, BoundRequests, BoundPerforms, BoundLeave, BoundEnds DEF Next

\* When everything has come to rest and no command was lost, no refresh is running, however
\* often jobs failed, were repeated or were cut: clients do not poll one forever
\* (async_refresh.rs finish, worker_batch.rs remove_job).
RefreshRests ==
    /\ lost = 0
    /\ \A q \in Request : req[q] \in {"off", "look", "done"}
    /\ \A j \in Job : task[j].pc = "idle" /\ phase[j] # "live"
    => refresh # "running"

\* For any number of requests, replies, failures and cut performs: what is at rest is not
\* still shown as running.
THEOREM RestCorrect == Spec => []RefreshRests
<1>1. Init => Bound
  BY NoTaskType DEF Init, Bound
<1>2. Base /\ Bound => RefreshRests
  <2> SUFFICES ASSUME Base, Bound, lost = 0, \A q \in Request : req[q] \in {"off", "look", "done"},
                      \A j \in Job : task[j].pc = "idle" /\ phase[j] # "live",
                      NEW q \in Request, Promised(q)
               PROVE  FALSE
    BY DEF RefreshRests, Bound
  <2>1. PICK j \in Job : Closer(j)
    BY DEF Promised
  <2>2. Expected(j)
    BY <2>1 DEF Closer, Ends
  <2> QED BY <2>2, NothingExpected
<1> QED BY <1>1, <1>2, BaseInit, BaseStep, TallyInit, TallyStep, TidyInit, TidyStepAll, BoundStep,
           PTL DEF Spec

-----------------------------------------------------------------------------
(* The jobs of a batch are jobs of a queue *)

LEMMA QueueStep == [Next]_vars => [Queue!Next]_queue
<1> SUFFICES ASSUME [Next]_vars PROVE Queue!Next \/ UNCHANGED queue
  BY DEF queue
<1>1. ASSUME NEW j \in Job, Push(j) PROVE Queue!Next \/ UNCHANGED queue
  <2>1. CASE Queue!Queue({j})
    BY <2>1 DEF Queue!Next
  <2> QED BY <1>1, <2>1 DEF Push
<1>2. ASSUME NEW j \in Job, Record(j) \/ Settle(j) PROVE Queue!Next \/ UNCHANGED queue
  BY <1>2 DEF Record, Settle, Queue!Next
<1>3. ASSUME NEW q \in Request, Requests(q) \/ DropRequest(q) \/ Expire(q)
      PROVE  Queue!Next \/ UNCHANGED queue
  BY <1>1, <1>3 DEF Requests, Load, Look, CreateRefresh, Connect, Join, PushWalk, DropRequest, Expire,
     Job
<1>4. ASSUME NEW j \in Job, Begin(j) \/ Performs(j) \/ Cut(j) PROVE Queue!Next \/ UNCHANGED queue
  BY <1>1, <1>2, <1>4 DEF Begin, Performs, Walks, Touch, WalkEnds, Find, PushReply, Fetch, Removes,
     Leave, Count, Finish, Cleanup, Cut, Job
<1> QED BY <1>2, <1>3, <1>4 DEF Next, vars

\* The walk and the replies it finds are performed as the queue performs its jobs: again after a
\* failure, a death or a lost record, and no longer once they have failed too often. What the
\* batch does with them asks nothing else of jobs/mod.rs (worker_batch.rs add_jobs, remove_job).
THEOREM JobsAreQueued == Spec => Queue!Spec
<1>1. Init => Queue!Init
  BY DEF Init
<1> QED BY <1>1, QueueStep, PTL DEF Spec, Queue!Spec, queue, Queue!promises
=============================================================================
