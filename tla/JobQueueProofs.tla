--------------------------- MODULE JobQueueProofs ---------------------------
(***************************************************************************)
(* Proofs about JobQueue, for every set of rows, loops and slots, every    *)
(* worker class's options, and every lease, renewal and delay.             *)
(***************************************************************************)
EXTENDS JobQueue, FiniteSetTheorems, TLAPS

-----------------------------------------------------------------------------
(* Typing *)

\* What the statements of src/jobs/mod.rs write into a row is a row.
LEMMA RowTypes ==
    ASSUME TypeOK, NEW i \in Id
    PROVE  /\ NoRow \in Row /\ Deleted \in Row
           /\ \A delay \in Delays : Inserted(TaskOf[i], delay) \in Row
           /\ \A w \in Worker : ClaimedRow(i, w) \in Row
           /\ \A delay \in RetryDelays : Retried(i, delay) \in Row
           /\ Buried(i) \in Row
           /\ [rows[i] EXCEPT !.key = FALSE] \in Row
           /\ [rows[i] EXCEPT !.lease = Lease] \in Row
           /\ [rows[i] EXCEPT !.by = None, !.lease = 0] \in Row
           /\ [rows[i] EXCEPT !.due = Less(@), !.lease = Less(@), !.ttl = Less(@)] \in Row
<1>1. rows[i] \in Row
  BY DEF TypeOK
<1>2. NoRow \in Row /\ Deleted \in Row
  BY TimingAssumption DEF NoRow, Deleted, Row
<1>3. ASSUME NEW delay \in Delays PROVE Inserted(TaskOf[i], delay) \in Row
  <2>1. TaskOf[i] \in Task /\ delay \in Nat /\ Ttl[TaskOf[i]] \in Nat
    BY ConstantsAssumption
  <2>2. Unique(TaskOf[i]) \in BOOLEAN
    BY DEF Unique
  <2>3. QED
    BY <2>1, <2>2, TimingAssumption DEF Inserted, Row
<1>4. ASSUME NEW w \in Worker PROVE ClaimedRow(i, w) \in Row
  BY <1>1, TimingAssumption DEF ClaimedRow, Row
<1>5. ASSUME NEW delay \in RetryDelays PROVE Retried(i, delay) \in Row
  <2>1. rows[i].attempts + 1 \in Nat /\ delay \in Nat
    BY <1>1, ConstantsAssumption DEF Row
  <2>2. QED
    BY <1>1, <2>1 DEF Retried, Row
<1>6. Buried(i) \in Row
  <2>1. rows[i].attempts + 1 \in Nat
    BY <1>1 DEF Row
  <2>2. QED
    BY <1>1, <2>1 DEF Buried, Row
<1>7. /\ [rows[i] EXCEPT !.key = FALSE] \in Row
      /\ [rows[i] EXCEPT !.lease = Lease] \in Row
      /\ [rows[i] EXCEPT !.by = None, !.lease = 0] \in Row
  BY <1>1, TimingAssumption DEF Row
<1>8. [rows[i] EXCEPT !.due = Less(@), !.lease = Less(@), !.ttl = Less(@)] \in Row
  <2>1. Less(rows[i].due) \in Nat /\ Less(rows[i].lease) \in Nat /\ Less(rows[i].ttl) \in Nat
    BY <1>1 DEF Less, Row
  <2>2. QED
    BY <1>1, <2>1 DEF Row
<1>9. QED
  BY <1>2, <1>3, <1>4, <1>5, <1>6, <1>7, <1>8

\* A busy slot executes a row, and stays a slot whatever phase it enters.
LEMMA BusyRun ==
    ASSUME TypeOK, NEW r \in Runner, Busy(r)
    PROVE  /\ run[r] \in [job : Id, ph : Working, count : Nat, left : Nat]
           /\ run[r].job \in Id /\ run[r].ph \in Working
           /\ run[r].count \in Nat /\ run[r].left \in Nat
<1>1. run[r] \in Run /\ run[r] # Idle
  BY DEF TypeOK, Busy, Idle
<1>2. run[r] \in [job : Id, ph : Working, count : Nat, left : Nat]
  BY <1>1 DEF Run
<1>3. QED
  BY <1>2

LEMMA FreeRun == ASSUME TypeOK, NEW r \in Runner, ~Busy(r) PROVE run[r] = Idle
<1>1. run[r] \in Run /\ run[r].ph \notin Working
  BY DEF TypeOK, Busy, Working
<1>2. run[r] \notin [job : Id, ph : Working, count : Nat, left : Nat]
  BY <1>1
<1>3. QED
  BY <1>1, <1>2 DEF Run

LEMMA RunSteps ==
    ASSUME TypeOK, NEW r \in Runner, Busy(r), NEW ph \in Working, NEW n \in Nat
    PROVE  /\ [run[r] EXCEPT !.ph = ph, !.left = n] \in Run
           /\ [run[r] EXCEPT !.ph = ph] \in Run
           /\ [run[r] EXCEPT !.left = n] \in Run
BY BusyRun DEF Run

LEMMA StartedRun == ASSUME TypeOK, NEW i \in Id PROVE Started(i) \in Run
<1>1. rows[i].attempts \in Nat
  BY DEF TypeOK, Row
<1>2. QED
  BY <1>1, TimingAssumption DEF Started, Run, Working

LEMMA LessNat == ASSUME NEW n \in Nat PROVE Less(n) \in Nat
BY DEF Less

LEMMA TickedRun ==
    ASSUME TypeOK, NEW r \in Runner PROVE [run[r] EXCEPT !.left = Less(@)] \in Run
<1>1. CASE Busy(r)
  <2>1. Less(run[r].left) \in Nat
    BY <1>1, BusyRun, LessNat
  <2>2. run[r].ph \in Working
    BY <1>1, BusyRun
  <2>3. QED
    BY <1>1, <2>1, <2>2, RunSteps
<1>2. CASE ~Busy(r)
  <2>1. run[r] = Idle
    BY <1>2, FreeRun
  <2>2. QED
    BY <2>1 DEF Idle, Run, Less
<1>3. QED
  BY <1>1, <1>2

\* Init produces a well-typed state and every step keeps it so.
LEMMA TypeInit == Init => TypeOK
<1> SUFFICES ASSUME Init PROVE TypeOK
  OBVIOUS
<1>1. NoRow \in Row /\ Idle \in Run
  BY DEF NoRow, Row, Run
<1>2. QED
  BY <1>1 DEF Init, TypeOK

LEMMA TypeTasks == ASSUME TypeOK, NEW r \in Runner, Tasks(r) PROVE TypeOK'
<1>0. Idle \in Run
  BY DEF Run
<1>1. CASE Heartbeats(r)
  <2>1. Busy(r)
    BY <1>1 DEF Heartbeats, Busy
  <2>2. [run[r] EXCEPT !.left = Heartbeat] \in Run
    BY <2>1, BusyRun, RunSteps, TimingAssumption
  <2>3. rows' \in [Id -> Row]
    BY <1>1, <2>1, BusyRun, RowTypes DEF Heartbeats, TypeOK
  <2>4. QED
    BY <1>1, <2>2, <2>3 DEF Heartbeats, TypeOK, history
<1>2. ASSUME Busy(r), NEW ph \in Working, Enter(r, ph) PROVE run' \in [Runner -> Run]
  <2>1. [run[r] EXCEPT !.ph = ph, !.left = Finish] \in Run
    BY <1>2, RunSteps, TimingAssumption
  <2>2. QED
    BY <1>2, <2>1 DEF Enter, TypeOK
<1>3. CASE PerformReturns(r)
  <2>1. Busy(r) /\ Enter(r, "delete") /\ "delete" \in Working
    BY <1>3 DEF PerformReturns, Busy, Working
  <2>2. run' \in [Runner -> Run] /\ run[r].job \in Id
    BY <1>2, <2>1, BusyRun
  <2>3. QED
    BY <1>3, <2>2 DEF PerformReturns, TypeOK
<1>4. CASE PerformFails(r)
  <2> DEFINE ph == AfterFailure(run[r].job, run[r].count)
  <2>1. Busy(r) /\ Enter(r, ph) /\ ph \in Working
    BY <1>4 DEF PerformFails, Busy, AfterFailure, Working
  <2> HIDE DEF ph
  <2>2. run' \in [Runner -> Run] /\ run[r].job \in Id
    BY <1>2, <2>1, BusyRun
  <2>3. failures' \in [Id -> Nat]
    BY <1>4, <2>2 DEF PerformFails, TypeOK
  <2>4. QED
    BY <1>4, <2>2, <2>3 DEF PerformFails, TypeOK
<1>5. CASE HookReturns(r)
  <2> DEFINE ph == IF KeepDead[TaskOf[run[r].job]] THEN "bury" ELSE "delete"
  <2>1. Busy(r) /\ ph \in Working
    BY <1>5 DEF HookReturns, Busy, Working
  <2>2. [run[r] EXCEPT !.ph = ph] \in Run
    BY <2>1, RunSteps
  <2>3. QED
    BY <1>5, <2>2 DEF HookReturns, TypeOK, history
<1>6. CASE Record(r)
  <2>1. PICK delay \in RetryDelays : rows' = [rows EXCEPT ![run[r].job] = Written(r, delay)]
    BY <1>6 DEF Record
  <2>2. run[r].job \in Id
    BY <1>6, BusyRun DEF Record, Busy, Writes
  <2>3. Written(r, delay) \in Row
    BY <1>6, <2>2, RowTypes DEF Record, Written, Writes, TypeOK
  <2>4. rows' \in [Id -> Row]
    BY <2>1, <2>3 DEF TypeOK
  <2>5. QED
    BY <1>0, <1>6, <2>4 DEF Record, TypeOK, history
<1>7. CASE RecordFails(r)
  BY <1>0, <1>7 DEF RecordFails, TypeOK, history
<1>8. QED
  BY <1>1, <1>3, <1>4, <1>5, <1>6, <1>7 DEF Tasks

LEMMA TypeLifecycle == ASSUME TypeOK, NEW w \in Worker, Lifecycle(w) PROVE TypeOK'
<1>0. Idle \in Run
  BY DEF Run
<1>1. ASSUME NEW from, NEW to \in {"up", "stopping", "handing_back", "gone"},
             SetLoop(w, from, to)
      PROVE  loop' \in [Worker -> {"off", "up", "stopping", "handing_back", "gone"}]
  BY <1>1 DEF SetLoop, TypeOK
<1>2. CASE Start(w) \/ Stop(w) \/ Leave(w) \/ GraceDrop(w)
  BY <1>1, <1>2 DEF Start, Stop, Leave, GraceDrop, TypeOK, history
<1>3. CASE Abort(w)
  <2>1. run' \in [Runner -> Run]
    BY <1>0, <1>3 DEF Abort, TypeOK
  <2>2. QED
    BY <1>1, <1>3, <2>1 DEF Abort, TypeOK, history
<1>4. CASE HandBack(w)
  <2>1. rows' \in [Id -> Row]
    BY <1>4, RowTypes DEF HandBack, TypeOK
  <2>2. QED
    BY <1>1, <1>4, <2>1 DEF HandBack, TypeOK, history
<1>5. CASE Crash(w)
  BY <1>0, <1>5 DEF Crash, TypeOK, history
<1>6. QED
  BY <1>2, <1>3, <1>4, <1>5 DEF Lifecycle

LEMMA TypeNext == TypeOK /\ [Next]_vars => TypeOK'
<1> SUFFICES ASSUME TypeOK, [Next]_vars PROVE TypeOK'
  OBVIOUS
<1>1. ASSUME NEW S \in SUBSET {i \in Id : rows[i].st = "none"}, NEW delay \in Delays,
             InsertPlain(S, delay)
      PROVE  TypeOK'
  BY <1>1, RowTypes DEF TypeOK, InsertPlain, history
<1>2. ASSUME NEW t \in Task, ClearLapsed(t) PROVE TypeOK'
  BY <1>2, RowTypes DEF TypeOK, ClearLapsed, history
<1>3. ASSUME NEW t \in Task, InsertConflicts(t) PROVE TypeOK'
  BY <1>3 DEF TypeOK, InsertConflicts, history
<1>4. ASSUME NEW i \in Id, NEW delay \in Delays, InsertUnique(i, delay) PROVE TypeOK'
  BY <1>4, RowTypes DEF TypeOK, InsertUnique, history
<1>5. ASSUME NEW w \in Worker, NEW S \in ClaimableSets, Take(w, S)
      PROVE  /\ rows' \in [Id -> Row] /\ begun' \in SUBSET Id
             /\ asking' \in SUBSET Task /\ loop' = loop
             /\ finished' \in SUBSET Id /\ failures' \in [Id -> Nat]
  BY <1>5, RowTypes DEF Take, ClaimableSets, TypeOK
<1>6. ASSUME NEW w \in Worker, NEW S \in ClaimableSets, Claim(w, S) PROVE TypeOK'
  <2>1. PICK R \in SUBSET Slots(w) : \E g \in [R -> S] : Spawn(R, g, S)
    BY <1>6 DEF Claim
  <2>2. PICK g \in [R -> S] : Spawn(R, g, S)
    BY <2>1
  <2>3. run' \in [Runner -> Run]
    BY <2>2, StartedRun DEF Spawn, ClaimableSets, TypeOK
  <2>4. QED
    BY <1>5, <1>6, <2>3 DEF Claim, TypeOK
<1>7. ASSUME NEW w \in Worker, NEW S \in ClaimableSets, ClaimLost(w, S) PROVE TypeOK'
  BY <1>5, <1>7 DEF ClaimLost, TypeOK
<1>8. ASSUME NEW S \in SUBSET {i \in Id : rows[i].st = "dead"}, PruneDead(S) PROVE TypeOK'
  BY <1>8, RowTypes DEF TypeOK, PruneDead, history
<1>9. CASE Tick
  BY <1>9, RowTypes, TickedRun DEF TypeOK, Tick, history
<1>10. CASE UNCHANGED vars
  BY <1>10 DEF TypeOK, vars
<1>11. QED
  BY <1>1, <1>2, <1>3, <1>4, <1>6, <1>7, <1>8, <1>9, <1>10, TypeTasks, TypeLifecycle
     DEF Next, Producers, Claims

\* The rows, the slots and the history keep their types.
THEOREM TypeCorrect == Spec => []TypeOK
BY TypeInit, TypeNext, PTL DEF Spec

-----------------------------------------------------------------------------
(* One runner for a job, while every task is prompt.                       *)
(*                                                                         *)
(* A slot that executes row i holds its lease, and the lease outlasts what *)
(* the task has left: Lease > Heartbeat + Finish when it is taken or       *)
(* renewed, and from then on the two run down together.  So the row is not *)
(* claimable, and no second slot is given it.                              *)

Prompts == RunOK /\ LeaseHeld /\ Distinct /\ HandingBackIdle /\ AttemptsOK

\* A step that changes no slot and no loop, and only rows nobody executes or
\* what their executor does not rely on, keeps the invariant.
LEMMA OtherRows ==
    ASSUME TypeOK, TypeOK', Prompts, UNCHANGED <<run, loop>>,
           \A i \in Id : rows[i].st = "queued" =>
               \/ /\ rows'[i].st = "queued" /\ rows'[i].attempts = rows[i].attempts
                  /\ rows'[i].by = rows[i].by /\ rows'[i].lease = rows[i].lease
               \/ \A r \in Runner : Busy(r) => run[r].job # i
    PROVE  RunOK' /\ LeaseHeld' /\ Distinct' /\ HandingBackIdle'
<1>1. \A r \in Runner : Busy(r)' = Busy(r)
  BY DEF Busy
<1>2. ASSUME NEW r \in Runner, Busy(r)
      PROVE  LET i == run[r].job IN
             /\ i \in Id /\ rows[i].st = "queued" /\ rows'[i].st = "queued"
             /\ rows'[i].attempts = rows[i].attempts
             /\ rows'[i].by = rows[i].by /\ rows'[i].lease = rows[i].lease
  BY <1>2, BusyRun DEF Prompts, LeaseHeld
<1>3. RunOK'
  BY <1>1, <1>2 DEF Prompts, RunOK
<1>4. LeaseHeld'
  BY <1>1, <1>2 DEF Prompts, LeaseHeld
<1>5. Distinct' /\ HandingBackIdle'
  BY <1>1 DEF Prompts, Distinct, HandingBackIdle
<1>6. QED
  BY <1>3, <1>4, <1>5

\* Nobody executes a row that can be claimed.
LEMMA ClaimableIdle ==
    ASSUME TypeOK, Prompts, NEW i \in Id, Claimable(i), NEW r \in Runner, Busy(r)
    PROVE  run[r].job # i
<1>1. SUFFICES ASSUME run[r].job = i PROVE FALSE
  OBVIOUS
<1>2. rows[i].by = Owner[r] /\ rows[i].lease > 0
  BY <1>1, BusyRun, TimingAssumption DEF Prompts, LeaseHeld, TypeOK, Row
<1>3. Owner[r] # None
  BY ConstantsAssumption
<1>4. QED
  BY <1>2, <1>3, TimingAssumption DEF Claimable

LEMMA PromptProducers == ASSUME TypeOK, TypeOK', Prompts, Producers PROVE Prompts'
<1>0. UNCHANGED <<run, loop>>
  BY DEF Producers, InsertPlain, ClearLapsed, InsertUnique, InsertConflicts
<1>1. \A i \in Id : rows[i].st # "none" =>
          /\ rows'[i].st = rows[i].st /\ rows'[i].attempts = rows[i].attempts
          /\ rows'[i].by = rows[i].by /\ rows'[i].lease = rows[i].lease
  <2>1. ASSUME NEW S \in SUBSET {i \in Id : rows[i].st = "none"}, NEW delay \in Delays,
               InsertPlain(S, delay), NEW i \in Id, rows[i].st # "none"
        PROVE  rows'[i] = rows[i]
    BY <2>1 DEF InsertPlain
  <2>2. ASSUME NEW t \in Task, ClearLapsed(t), NEW i \in Id
        PROVE  rows'[i] = rows[i] \/ rows'[i] = [rows[i] EXCEPT !.key = FALSE]
    BY <2>2 DEF ClearLapsed
  <2>3. ASSUME NEW j \in Id, NEW delay \in Delays, InsertUnique(j, delay),
               NEW i \in Id, rows[i].st # "none"
        PROVE  rows'[i] = rows[i]
    BY <2>3 DEF InsertUnique, TypeOK
  <2>4. ASSUME NEW t \in Task, InsertConflicts(t) PROVE rows' = rows
    BY <2>4 DEF InsertConflicts
  <2>5. ASSUME NEW i \in Id, rows'[i] = [rows[i] EXCEPT !.key = FALSE]
        PROVE  /\ rows'[i].st = rows[i].st /\ rows'[i].attempts = rows[i].attempts
               /\ rows'[i].by = rows[i].by /\ rows'[i].lease = rows[i].lease
    BY <2>5 DEF TypeOK, Row
  <2>6. QED
    BY <2>1, <2>2, <2>3, <2>4, <2>5 DEF Producers
<1>2. ASSUME NEW i \in Id, rows[i].st = "none"
      PROVE  \/ rows'[i].attempts = 0
             \/ rows'[i].attempts = rows[i].attempts /\ rows'[i].st = rows[i].st
  <2>1. ASSUME NEW S \in SUBSET {j \in Id : rows[j].st = "none"}, NEW delay \in Delays,
               InsertPlain(S, delay)
        PROVE  rows'[i] = rows[i] \/ rows'[i].attempts = 0
    BY <2>1 DEF InsertPlain, Inserted
  <2>2. ASSUME NEW t \in Task, ClearLapsed(t)
        PROVE  rows'[i].attempts = rows[i].attempts /\ rows'[i].st = rows[i].st
    BY <2>2 DEF ClearLapsed, TypeOK, Row
  <2>3. ASSUME NEW j \in Id, NEW delay \in Delays, InsertUnique(j, delay)
        PROVE  rows'[i] = rows[i] \/ rows'[i].attempts = 0
    BY <2>3 DEF InsertUnique, Inserted, TypeOK
  <2>4. ASSUME NEW t \in Task, InsertConflicts(t) PROVE rows' = rows
    BY <2>4 DEF InsertConflicts
  <2>5. QED
    BY <2>1, <2>2, <2>3, <2>4 DEF Producers
<1>3. RunOK' /\ LeaseHeld' /\ Distinct' /\ HandingBackIdle'
  BY <1>0, <1>1, OtherRows
<1>4. AttemptsOK'
  <2>1. ASSUME NEW i \in Id, TaskOf[i] \in Known
        PROVE  \/ rows'[i].attempts = 0
               \/ rows'[i].attempts = rows[i].attempts /\ rows'[i].st = rows[i].st
    BY <1>1, <1>2 DEF TypeOK, Row
  <2>2. \A i \in Id : Retries[TaskOf[i]] \in Int /\ Retries[TaskOf[i]] >= -1
    BY ConstantsAssumption
  <2>3. QED
    BY <2>1, <2>2 DEF AttemptsOK, Prompts
<1>5. QED
  BY <1>3, <1>4 DEF Prompts

LEMMA TakeRows ==
    ASSUME TypeOK, NEW w \in Worker, NEW S \in ClaimableSets, Take(w, S), NEW i \in Id
    PROVE  /\ rows'[i].st = rows[i].st /\ rows'[i].attempts = rows[i].attempts
           /\ i \in S => /\ rows[i].st = "queued" /\ Claimable(i)
                         /\ rows'[i].by = w /\ rows'[i].lease = Lease
           /\ i \notin S => rows'[i] = rows[i]
BY DEF Take, ClaimableSets, Claimable, Due, ClaimedRow, TypeOK, Row

LEMMA StartedFields ==
    ASSUME NEW i \in Id
    PROVE  /\ Started(i).job = i /\ Started(i).count = rows[i].attempts
           /\ \/ /\ Started(i).ph = "performing" /\ TaskOf[i] \in Known
                 /\ Started(i).left = Heartbeat
              \/ /\ Started(i).ph = "bury" /\ TaskOf[i] \notin Known
                 /\ Started(i).left = Finish
<1>1. CASE TaskOf[i] \in Known
  BY <1>1 DEF Started
<1>2. CASE TaskOf[i] \notin Known
  BY <1>2 DEF Started
<1>3. QED
  BY <1>1, <1>2

LEMMA PromptClaims ==
    ASSUME TypeOK, TypeOK', Prompts, NEW w \in Worker, Claims(w)
    PROVE  Prompts'
<1>0. PICK S \in ClaimableSets : Claim(w, S) \/ ClaimLost(w, S)
  BY DEF Claims
<1>1. Take(w, S)
  BY <1>0 DEF Claim, ClaimLost
<1>2. \A r \in Runner : Busy(r) => run[r].job \notin S
  BY ClaimableIdle DEF ClaimableSets
<1>3. AttemptsOK'
  BY <1>1, TakeRows DEF AttemptsOK, Prompts
<1>4. CASE ClaimLost(w, S)
  <2>1. UNCHANGED <<run, loop>>
    BY <1>4 DEF ClaimLost, Take
  <2>2. RunOK' /\ LeaseHeld' /\ Distinct' /\ HandingBackIdle'
    BY <1>1, <1>2, <2>1, TakeRows, OtherRows
  <2>3. QED
    BY <1>3, <2>2 DEF Prompts
<1>5. CASE Claim(w, S)
  <2>1. PICK R \in SUBSET Slots(w) : \E g \in [R -> S] : Spawn(R, g, S)
    BY <1>5 DEF Claim
  <2>2. PICK g \in [R -> S] : Spawn(R, g, S)
    BY <2>1
  <2>3. loop' = loop /\ loop[w] = "up" /\ S \subseteq Id /\ \A r \in R : Owner[r] = w
    BY <1>5, <2>1 DEF Claim, Take, ClaimableSets, Slots
  <2>4. \A r \in Runner \ R : run'[r] = run[r]
    BY <2>2 DEF Spawn
  <2>5. \A r \in R : r \in Runner /\ run'[r] = Started(g[r]) /\ g[r] \in S
    BY <2>2 DEF Spawn, Slots
  <2>6. ASSUME NEW r \in R
        PROVE  /\ run'[r].job = g[r] /\ run'[r].count = rows[g[r]].attempts
               /\ \/ /\ run'[r].ph = "performing" /\ TaskOf[g[r]] \in Known
                     /\ run'[r].left = Heartbeat
                  \/ /\ run'[r].ph = "bury" /\ TaskOf[g[r]] \notin Known
                     /\ run'[r].left = Finish
    BY <2>3, <2>5, StartedFields
  <2>7. RunOK'
    <3>1. ASSUME NEW r \in Runner, Busy(r)'
          PROVE  LET t == TaskOf[run'[r].job] IN
                 /\ rows'[run'[r].job].st # "none"
                 /\ t \in Known \/ run'[r].ph = "bury"
                 /\ run'[r].ph = "retry" => run'[r].count < Retries[t]
                 /\ run'[r].ph = "exhausted" => Retries[t] >= 0
                 /\ run'[r].ph = "bury" /\ t \in Known => KeepDead[t]
      <4>1. CASE r \in R
        BY <1>1, <2>3, <2>5, <2>6, <4>1, TakeRows
      <4>2. CASE r \notin R
        <5>1. Busy(r) /\ run'[r] = run[r]
          BY <2>4, <3>1, <4>2 DEF Busy
        <5>2. run[r].job \in Id
          BY <5>1, BusyRun
        <5>3. QED
          BY <1>1, <5>1, <5>2, TakeRows DEF Prompts, RunOK
      <4>3. QED
        BY <4>1, <4>2
    <3>2. QED
      BY <3>1 DEF RunOK
  <2>8. LeaseHeld'
    <3>1. ASSUME NEW r \in Runner, Busy(r)'
          PROVE  LET i == run'[r].job IN
                 /\ rows'[i].st = "queued" /\ rows'[i].by = Owner[r]
                 /\ rows'[i].attempts = run'[r].count
                 /\ rows'[i].lease > run'[r].left
                                     + (IF run'[r].ph = "performing" THEN Finish ELSE 0)
      <4>1. CASE r \in R
        BY <1>1, <2>3, <2>5, <2>6, <4>1, TakeRows, TimingAssumption
      <4>2. CASE r \notin R
        <5>1. Busy(r) /\ run'[r] = run[r]
          BY <2>4, <3>1, <4>2 DEF Busy
        <5>2. run[r].job \in Id /\ run[r].job \notin S
          BY <1>2, <5>1, BusyRun
        <5>3. rows'[run[r].job] = rows[run[r].job]
          BY <1>1, <5>2, TakeRows
        <5>4. QED
          BY <5>1, <5>3 DEF Prompts, LeaseHeld
      <4>3. QED
        BY <4>1, <4>2
    <3>2. QED
      BY <3>1 DEF LeaseHeld
  <2>9. Distinct'
    <3>1. ASSUME NEW r \in Runner, NEW q \in Runner, Busy(r)', run'[r].job = run'[q].job
          PROVE  r = q
      <4>1. Busy(q)'
        <5>1. run'[r].job \in Id
          BY <3>1, BusyRun, <2>4, <2>5, <2>6, <2>3 DEF Busy
        <5>2. run'[q].job # None
          BY <3>1, <5>1, ConstantsAssumption
        <5>3. CASE q \in R
          BY <2>6, <5>3 DEF Busy
        <5>4. CASE q \notin R
          BY <2>4, <5>2, <5>4, FreeRun DEF Busy, Idle
        <5>5. QED
          BY <5>3, <5>4
      <4>2. CASE r \in R /\ q \in R
        BY <2>2, <2>6, <3>1, <4>2 DEF Spawn
      <4>3. CASE r \notin R /\ q \notin R
        BY <2>4, <3>1, <4>3 DEF Prompts, Distinct, Busy
      <4>4. CASE r \in R /\ q \notin R
        BY <1>2, <2>4, <2>5, <2>6, <3>1, <4>1, <4>4 DEF Busy
      <4>5. CASE r \notin R /\ q \in R
        BY <1>2, <2>4, <2>5, <2>6, <3>1, <4>5 DEF Busy
      <4>6. QED
        BY <4>2, <4>3, <4>4, <4>5
    <3>2. QED
      BY <3>1 DEF Distinct
  <2>10. HandingBackIdle'
    BY <2>3, <2>4 DEF Prompts, HandingBackIdle, Busy
  <2>11. QED
    BY <1>3, <2>7, <2>8, <2>9, <2>10 DEF Prompts
<1>6. QED
  BY <1>0, <1>4, <1>5

\* A task that moves on without touching the table: `left` and `ph` of one slot.
LEMMA OneSlot ==
    ASSUME TypeOK, TypeOK', Prompts, NEW r \in Runner, Busy(r), UNCHANGED <<rows, loop>>,
           \A q \in Runner \ {r} : run'[q] = run[q],
           LET t == TaskOf[run[r].job] IN
           \/ run'[r] = Idle
           \/ /\ run'[r].job = run[r].job /\ run'[r].count = run[r].count
              /\ run'[r].left + (IF run'[r].ph = "performing" THEN Finish ELSE 0)
                 <= run[r].left + (IF run[r].ph = "performing" THEN Finish ELSE 0)
              /\ run'[r].ph # "performing" /\ t \in Known
              /\ run'[r].ph = "retry" => run[r].count < Retries[t]
              /\ run'[r].ph = "exhausted" => Retries[t] >= 0
              /\ run'[r].ph = "bury" => KeepDead[t]
    PROVE  Prompts'
<1>1. \A q \in Runner \ {r} : Busy(q)' = Busy(q)
  BY DEF Busy
<1>2. run[r].job \in Id /\ run[r].left \in Nat
  BY BusyRun
<1>3. Idle.ph = "idle" /\ Idle.job = None
  BY DEF Idle
<1>4. RunOK'
  <2>1. ASSUME NEW q \in Runner, Busy(q)', q # r
        PROVE  Busy(q) /\ run'[q] = run[q] /\ rows' = rows
    BY <1>1, <2>1
  <2>2. QED
    BY <1>3, <2>1 DEF Prompts, RunOK, Busy
<1>5. LeaseHeld'
  <2>1. ASSUME NEW q \in Runner, Busy(q)', q # r
        PROVE  Busy(q) /\ run'[q] = run[q] /\ rows' = rows
    BY <1>1, <2>1
  <2>2. ASSUME Busy(r)'
        PROVE  LET i == run'[r].job IN
               /\ rows'[i].st = "queued" /\ rows'[i].by = Owner[r]
               /\ rows'[i].attempts = run'[r].count
               /\ rows'[i].lease > run'[r].left
                                   + (IF run'[r].ph = "performing" THEN Finish ELSE 0)
    <3>1. run'[r] # Idle
      BY <1>3, <2>2 DEF Busy
    <3>2. /\ rows[run[r].job].st = "queued" /\ rows[run[r].job].by = Owner[r]
          /\ rows[run[r].job].attempts = run[r].count
          /\ rows[run[r].job].lease > run[r].left
                                      + (IF run[r].ph = "performing" THEN Finish ELSE 0)
      BY DEF Prompts, LeaseHeld
    <3>3. rows[run[r].job].lease \in Nat /\ run'[r].left \in Nat
      BY <1>2, <2>2, BusyRun DEF TypeOK, Row, Run, Idle, Busy
    <3>4. QED
      BY <1>2, <3>1, <3>2, <3>3, TimingAssumption
  <2>3. QED
    BY <2>1, <2>2 DEF Prompts, LeaseHeld
<1>6. Distinct'
  <2>1. ASSUME NEW q \in Runner, NEW p \in Runner, Busy(q)', run'[q].job = run'[p].job
        PROVE  q = p
    <3>1. \A x \in Runner : run'[x].job = run[x].job \/ run'[x] = Idle
      BY <1>1
    <3>2. Busy(q) /\ run'[q].job = run[q].job /\ run[q].job \in Id
      BY <1>1, <1>3, <2>1, <3>1, BusyRun DEF Busy
    <3>3. run'[p].job = run[p].job
      BY <1>3, <2>1, <3>1, <3>2, ConstantsAssumption
    <3>4. QED
      BY <2>1, <3>2, <3>3 DEF Prompts, Distinct
  <2>2. QED
    BY <2>1 DEF Distinct
<1>7. HandingBackIdle' /\ AttemptsOK'
  <2>1. \A q \in Runner : Busy(q)' => Busy(q)
    BY <1>1
  <2>2. QED
    BY <2>1 DEF Prompts, HandingBackIdle, AttemptsOK
<1>8. QED
  BY <1>4, <1>5, <1>6, <1>7 DEF Prompts

\* A task that records its outcome: the row is nobody else's.
LEMMA PromptRecord ==
    ASSUME TypeOK, TypeOK', Prompts, NEW r \in Runner, Record(r)
    PROVE  Prompts'
<1> DEFINE i == run[r].job
<1>1. Busy(r) /\ i \in Id /\ run[r].ph \in Writes
  BY BusyRun DEF Record, Busy, Writes
<1>2. PICK delay \in RetryDelays : rows' = [rows EXCEPT ![i] = Written(r, delay)]
  BY DEF Record
<1>3. run' = [run EXCEPT ![r] = Idle] /\ loop' = loop
  BY DEF Record
<1>4. ASSUME NEW q \in Runner, Busy(q)'
      PROVE  /\ Busy(q) /\ run'[q] = run[q] /\ run[q].job \in Id \ {i}
             /\ rows'[run[q].job] = rows[run[q].job]
  <2>1. q # r
    BY <1>3, <1>4 DEF Busy, Idle, TypeOK
  <2>2. Busy(q) /\ run'[q] = run[q]
    BY <1>3, <1>4, <2>1 DEF Busy, TypeOK
  <2>3. run[q].job # i
    BY <1>1, <2>1, <2>2 DEF Prompts, Distinct
  <2>4. QED
    BY <1>2, <2>2, <2>3, BusyRun DEF TypeOK
<1>5. RunOK'
  BY <1>4 DEF Prompts, RunOK
<1>6. LeaseHeld'
  BY <1>4 DEF Prompts, LeaseHeld
<1>7. Distinct'
  <2>1. ASSUME NEW q \in Runner, NEW p \in Runner, Busy(q)', run'[q].job = run'[p].job
        PROVE  q = p
    <3>1. run[q].job \in Id /\ run'[q].job = run[q].job /\ Busy(q)
      BY <1>4, <2>1
    <3>2. p # r
      BY <1>3, <2>1, <3>1, ConstantsAssumption DEF TypeOK, Idle
    <3>3. QED
      BY <1>3, <2>1, <3>1, <3>2 DEF Prompts, Distinct, TypeOK
  <2>2. QED
    BY <2>1 DEF Distinct
<1>8. HandingBackIdle'
  BY <1>3, <1>4 DEF Prompts, HandingBackIdle
<1>9. AttemptsOK'
  <2>1. rows[i].st = "queued" /\ rows[i].attempts = run[r].count /\ rows[i] \in Row
    BY <1>1 DEF Prompts, LeaseHeld, TypeOK
  <2>2. ASSUME TaskOf[i] \in Known
        PROVE  /\ rows'[i].attempts <= Retries[TaskOf[i]] + 1
               /\ rows'[i].st = "queued" /\ rows'[i].attempts > 0 =>
                     rows'[i].attempts <= Retries[TaskOf[i]]
    <3>0. rows'[i] = Written(r, delay) /\ Exists(i)
      BY <1>1, <1>2, <2>1 DEF TypeOK, Exists
    <3>1. /\ Retries[TaskOf[i]] \in Int /\ Retries[TaskOf[i]] >= -1
          /\ KeepDead[TaskOf[i]] => Retries[TaskOf[i]] # -1
      BY <1>1, ConstantsAssumption
    <3>2. CASE run[r].ph = "delete"
      BY <3>0, <3>1, <3>2 DEF Written, Deleted, NoRow
    <3>3. CASE run[r].ph = "retry"
      <4>1. run[r].count < Retries[TaskOf[i]]
        BY <1>1, <3>3 DEF Prompts, RunOK
      <4>2. rows'[i].attempts = rows[i].attempts + 1
        BY <2>1, <3>0, <3>3 DEF Written, Retried, Row
      <4>3. QED
        BY <2>1, <3>1, <4>1, <4>2 DEF Row
    <3>4. CASE run[r].ph = "bury"
      <4>1. KeepDead[TaskOf[i]]
        BY <1>1, <2>2, <3>4 DEF Prompts, RunOK
      <4>2. rows'[i].attempts = rows[i].attempts + 1 /\ rows'[i].st = "dead"
        BY <2>1, <3>0, <3>4 DEF Written, Buried, Row
      <4>3. rows[i].attempts > 0 => rows[i].attempts <= Retries[TaskOf[i]]
        BY <1>1, <2>1, <2>2 DEF Prompts, AttemptsOK
      <4>4. QED
        BY <2>1, <3>1, <4>1, <4>2, <4>3 DEF Row
    <3>5. QED
      BY <1>1, <3>2, <3>3, <3>4 DEF Writes
  <2>3. \A j \in Id : j # i => rows'[j] = rows[j]
    BY <1>2 DEF TypeOK
  <2>4. QED
    BY <2>2, <2>3 DEF Prompts, AttemptsOK
<1>10. QED
  BY <1>5, <1>6, <1>7, <1>8, <1>9 DEF Prompts

LEMMA PromptHeartbeats ==
    ASSUME TypeOK, TypeOK', Prompts, NEW r \in Runner, Heartbeats(r)
    PROVE  Prompts'
<1> DEFINE i == run[r].job
<1>1. Busy(r) /\ i \in Id /\ run[r].ph = "performing"
  BY BusyRun DEF Heartbeats, Busy
<1>2. rows[i].st = "queued" /\ rows[i].by = Owner[r] /\ rows[i] \in Row
  BY <1>1 DEF Prompts, LeaseHeld, TypeOK
<1>3. rows' = [rows EXCEPT ![i].lease = Lease] /\ loop' = loop
  BY <1>1, <1>2 DEF Heartbeats, Exists
<1>4. run' = [run EXCEPT ![r].left = Heartbeat]
  BY DEF Heartbeats
<1>5. \A q \in Runner : q # r => run'[q] = run[q]
  BY <1>4 DEF TypeOK
<1>6. /\ run'[r].job = i /\ run'[r].ph = "performing" /\ run'[r].count = run[r].count
      /\ run'[r].left = Heartbeat
  <2>1. run[r] \in [job : Id, ph : Working, count : Nat, left : Nat]
    BY <1>1, BusyRun
  <2>2. run'[r] = [run[r] EXCEPT !.left = Heartbeat]
    BY <1>4 DEF TypeOK
  <2>3. QED
    BY <1>1, <2>1, <2>2
<1>7. /\ rows'[i].st = "queued" /\ rows'[i].by = Owner[r]
      /\ rows'[i].attempts = rows[i].attempts /\ rows'[i].lease = Lease
      /\ \A j \in Id : j # i => rows'[j] = rows[j]
  BY <1>1, <1>2, <1>3 DEF TypeOK, Row
<1>8. \A q \in Runner : /\ Busy(q)' = Busy(q) /\ run'[q].job = run[q].job
                        /\ run'[q].ph = run[q].ph /\ run'[q].count = run[q].count
  BY <1>1, <1>5, <1>6 DEF Busy
<1>9. RunOK'
  BY <1>1, <1>7, <1>8, BusyRun DEF Prompts, RunOK
<1>10. LeaseHeld'
  <2>1. ASSUME NEW q \in Runner, Busy(q), q # r
        PROVE  run'[q] = run[q] /\ rows'[run[q].job] = rows[run[q].job]
    <3>1. run[q].job \in Id /\ run[q].job # i
      BY <2>1, BusyRun DEF Prompts, Distinct
    <3>2. QED
      BY <1>5, <1>7, <2>1, <3>1
  <2>2. rows'[i].attempts = run'[r].count /\ rows'[i].lease > run'[r].left + Finish
    BY <1>1, <1>6, <1>7, TimingAssumption DEF Prompts, LeaseHeld
  <2>3. QED
    BY <1>6, <1>7, <1>8, <2>1, <2>2 DEF Prompts, LeaseHeld
<1>11. Distinct' /\ HandingBackIdle'
  BY <1>3, <1>8 DEF Prompts, Distinct, HandingBackIdle
<1>12. AttemptsOK'
  BY <1>2, <1>7 DEF Prompts, AttemptsOK
<1>13. QED
  BY <1>9, <1>10, <1>11, <1>12 DEF Prompts

LEMMA PromptTasks ==
    ASSUME TypeOK, TypeOK', Prompts, NEW r \in Runner, Tasks(r)
    PROVE  Prompts'
<1> DEFINE t == TaskOf[run[r].job]
<1>0. ASSUME NEW ph \in Working, Busy(r), Enter(r, ph)
      PROVE  /\ run'[r].job = run[r].job /\ run'[r].count = run[r].count
             /\ run'[r].ph = ph /\ run'[r].left = Finish
             /\ \A q \in Runner \ {r} : run'[q] = run[q]
  BY <1>0, BusyRun DEF Enter, TypeOK
<1>1. Busy(r) => run[r].job \in Id /\ t \in Task
  BY BusyRun, ConstantsAssumption
<1>2. CASE PerformReturns(r)
  <2>1. Busy(r) /\ Enter(r, "delete") /\ run[r].ph = "performing" /\ UNCHANGED <<rows, loop>>
    BY <1>2 DEF PerformReturns, Busy
  <2>2. t \in Known
    BY <2>1 DEF Prompts, RunOK
  <2>3. run[r].left \in Nat /\ "delete" \in Working
    BY <2>1, BusyRun DEF Working
  <2> HIDE DEF t
  <2>4. QED
    BY <1>0, <2>1, <2>2, <2>3, OneSlot, TimingAssumption DEF t
<1>3. CASE PerformFails(r)
  <2> DEFINE ph == AfterFailure(run[r].job, run[r].count)
  <2>1. Busy(r) /\ Enter(r, ph) /\ run[r].ph = "performing" /\ UNCHANGED <<rows, loop>>
    BY <1>3 DEF PerformFails, Busy
  <2>2. t \in Known
    BY <2>1 DEF Prompts, RunOK
  <2>3. run[r].left \in Nat /\ run[r].count \in Nat /\ Retries[t] \in Int
    BY <1>1, <2>1, BusyRun, ConstantsAssumption
  <2>4. /\ ph \in {"delete", "exhausted", "retry"} /\ ph \in Working
        /\ ph = "retry" => run[r].count < Retries[t]
        /\ ph = "exhausted" => Retries[t] >= 0
    BY <2>3 DEF AfterFailure, Working
  <2> HIDE DEF ph
  <2>5. QED
    BY <1>0, <2>1, <2>2, <2>3, <2>4, OneSlot, TimingAssumption
<1>4. CASE HookReturns(r)
  <2> DEFINE ph == IF KeepDead[t] THEN "bury" ELSE "delete"
  <2>1. Busy(r) /\ run[r].ph = "exhausted" /\ UNCHANGED <<rows, loop>>
        /\ run' = [run EXCEPT ![r].ph = ph]
    BY <1>4 DEF HookReturns, Busy
  <2>2. t \in Known
    BY <2>1 DEF Prompts, RunOK
  <2>3. run[r].left \in Nat /\ run[r] \in [job : Id, ph : Working, count : Nat, left : Nat]
    BY <2>1, BusyRun
  <2>4. /\ run'[r].job = run[r].job /\ run'[r].count = run[r].count
        /\ run'[r].ph = ph /\ run'[r].left = run[r].left
        /\ \A q \in Runner \ {r} : run'[q] = run[q]
    BY <2>1, <2>3 DEF TypeOK
  <2>5. ph \in {"bury", "delete"} /\ (ph = "bury" => KeepDead[t])
    OBVIOUS
  <2> HIDE DEF ph
  <2>6. QED
    BY <2>1, <2>2, <2>3, <2>4, <2>5, OneSlot
<1>5. CASE RecordFails(r)
  <2>1. Busy(r) /\ run' = [run EXCEPT ![r] = Idle] /\ UNCHANGED <<rows, loop>>
    BY <1>5 DEF RecordFails, Busy, Writes
  <2>2. run'[r] = Idle /\ \A q \in Runner \ {r} : run'[q] = run[q]
    BY <2>1 DEF TypeOK
  <2>3. QED
    BY <2>1, <2>2, OneSlot
<1>6. QED
  BY <1>2, <1>3, <1>4, <1>5, PromptHeartbeats, PromptRecord DEF Tasks

\* Slots that are emptied, rows and attempts as they were.
LEMMA Emptied ==
    ASSUME TypeOK, TypeOK', Prompts, UNCHANGED rows,
           \A r \in Runner : run'[r] = run[r] \/ run'[r] = Idle,
           \A r \in Runner : loop'[Owner[r]] = "handing_back" => ~Busy(r)'
    PROVE  Prompts'
<1>1. Idle.ph = "idle" /\ Idle.job = None
  BY DEF Idle
<1>2. \A r \in Runner : Busy(r)' => Busy(r) /\ run'[r] = run[r] /\ run[r].job \in Id
  BY <1>1, BusyRun DEF Busy
<1>3. Distinct'
  <2>1. ASSUME NEW q \in Runner, NEW p \in Runner, Busy(q)', run'[q].job = run'[p].job
        PROVE  q = p
    <3>1. Busy(q) /\ run'[q].job = run[q].job /\ run[q].job \in Id
      BY <1>2, <2>1
    <3>2. run'[p].job = run[p].job
      BY <1>1, <2>1, <3>1, ConstantsAssumption
    <3>3. QED
      BY <2>1, <3>1, <3>2 DEF Prompts, Distinct
  <2>2. QED
    BY <2>1 DEF Distinct
<1>4. RunOK' /\ LeaseHeld'
  BY <1>2 DEF Prompts, RunOK, LeaseHeld
<1>5. HandingBackIdle' /\ AttemptsOK'
  BY DEF Prompts, HandingBackIdle, AttemptsOK
<1>6. QED
  BY <1>3, <1>4, <1>5 DEF Prompts

LEMMA PromptLifecycle ==
    ASSUME TypeOK, TypeOK', Prompts, Prompt = Working, NEW w \in Worker, Lifecycle(w)
    PROVE  Prompts'
<1>0. Owner \in [Runner -> Worker]
  BY ConstantsAssumption
<1>1. CASE Start(w) \/ Stop(w) \/ Leave(w) \/ GraceDrop(w)
  <2>1. UNCHANGED <<rows, run>>
    BY <1>1 DEF Start, Stop, Leave, GraceDrop
  <2>2. \A v \in Worker : loop'[v] = "handing_back" => loop[v] = "handing_back"
    BY <1>1 DEF Start, Stop, Leave, GraceDrop, SetLoop, TypeOK
  <2>3. \A r \in Runner : loop'[Owner[r]] = "handing_back" => ~Busy(r)'
    BY <1>0, <2>1, <2>2 DEF Prompts, HandingBackIdle, Busy
  <2>4. QED
    BY <2>1, <2>3, Emptied
<1>2. CASE Abort(w)
  <2>0. UNCHANGED rows
    BY <1>2 DEF Abort
  <2>1. \A r \in Runner : IF Owner[r] = w THEN run'[r] = Idle ELSE run'[r] = run[r]
    BY <1>2 DEF Abort, Writes, Working
  <2>2. \A v \in Worker : v # w /\ loop'[v] = "handing_back" => loop[v] = "handing_back"
    BY <1>2 DEF Abort, SetLoop, TypeOK
  <2>3. \A r \in Runner : loop'[Owner[r]] = "handing_back" => ~Busy(r)'
    BY <1>0, <2>1, <2>2 DEF Prompts, HandingBackIdle, Busy, Idle
  <2>4. QED
    BY <2>0, <2>1, <2>3, Emptied
<1>3. CASE Crash(w)
  <2>0. UNCHANGED rows
    BY <1>3 DEF Crash
  <2>1. \A r \in Runner : run'[r] = run[r] \/ run'[r] = Idle
    BY <1>3 DEF Crash
  <2>2. \A v \in Worker : loop'[v] = "handing_back" => loop[v] = "handing_back"
    BY <1>3 DEF Crash, TypeOK
  <2>3. \A r \in Runner : loop'[Owner[r]] = "handing_back" => ~Busy(r)'
    BY <1>0, <2>1, <2>2 DEF Prompts, HandingBackIdle, Busy, Idle
  <2>4. QED
    BY <2>0, <2>1, <2>3, Emptied
<1>4. CASE HandBack(w)
  <2>1. run' = run /\ loop[w] = "handing_back" /\ loop' = [loop EXCEPT ![w] = "gone"]
    BY <1>4 DEF HandBack, SetLoop
  <2>2. ASSUME NEW r \in Runner, Busy(r)
        PROVE  run[r].job \in Id /\ rows'[run[r].job] = rows[run[r].job]
    <3>1. Owner[r] # w /\ run[r].job \in Id
      BY <2>1, <2>2, BusyRun DEF Prompts, HandingBackIdle
    <3>2. rows[run[r].job].by = Owner[r]
      BY <2>2 DEF Prompts, LeaseHeld
    <3>3. QED
      BY <1>4, <3>1, <3>2 DEF HandBack
  <2>3. \A r \in Runner : Busy(r)' = Busy(r)
    BY <2>1 DEF Busy
  <2>4. RunOK' /\ LeaseHeld' /\ Distinct'
    BY <2>1, <2>2, <2>3 DEF Prompts, RunOK, LeaseHeld, Distinct
  <2>5. HandingBackIdle'
    BY <1>0, <2>1, <2>3 DEF Prompts, HandingBackIdle, TypeOK
  <2>6. ASSUME NEW i \in Id
        PROVE  rows'[i].attempts = rows[i].attempts /\ rows'[i].st = rows[i].st
    <3>1. rows'[i] = rows[i] \/ rows'[i] = [rows[i] EXCEPT !.by = None, !.lease = 0]
      BY <1>4 DEF HandBack
    <3>2. QED
      BY <3>1 DEF TypeOK, Row
  <2>7. AttemptsOK'
    BY <2>6 DEF Prompts, AttemptsOK
  <2>8. QED
    BY <2>4, <2>5, <2>7 DEF Prompts
<1>5. QED
  BY <1>1, <1>2, <1>3, <1>4 DEF Lifecycle

LEMMA PromptTick == ASSUME TypeOK, TypeOK', Prompts, Prompt = Working, Tick PROVE Prompts'
<1>1. ASSUME NEW i \in Id
      PROVE  /\ rows'[i].st = rows[i].st /\ rows'[i].attempts = rows[i].attempts
             /\ rows'[i].by = rows[i].by /\ rows'[i].lease = Less(rows[i].lease)
             /\ rows[i].lease \in Nat
  <2>1. rows'[i] = [rows[i] EXCEPT !.due = Less(@), !.lease = Less(@), !.ttl = Less(@)]
    BY DEF Tick
  <2>2. rows[i] \in Row
    BY DEF TypeOK
  <2>3. QED
    BY <2>1, <2>2 DEF Row
<1>2. ASSUME NEW r \in Runner, Busy(r)
      PROVE  /\ run'[r].job = run[r].job /\ run'[r].ph = run[r].ph
             /\ run'[r].count = run[r].count /\ run'[r].left = run[r].left - 1
             /\ run[r].left \in Nat /\ run[r].left > 0 /\ run[r].job \in Id
  <2>1. run[r] \in [job : Id, ph : Working, count : Nat, left : Nat]
    BY <1>2, BusyRun
  <2>2. run'[r] = [run[r] EXCEPT !.left = Less(@)] /\ run[r].left > 0
    BY <2>1 DEF Tick
  <2>3. Less(run[r].left) = run[r].left - 1
    BY <2>1, <2>2 DEF Less
  <2>4. QED
    BY <2>1, <2>2, <2>3
<1>3. ASSUME NEW r \in Runner, ~Busy(r) PROVE run'[r].job = None /\ ~Busy(r)'
  <2>1. run[r] = Idle
    BY <1>3, FreeRun
  <2>2. run'[r] = [Idle EXCEPT !.left = Less(@)]
    BY <2>1 DEF Tick
  <2>3. QED
    BY <2>2 DEF Idle, Busy
<1>4. \A r \in Runner : Busy(r)' = Busy(r)
  BY <1>2, <1>3 DEF Busy
<1>5. RunOK'
  BY <1>1, <1>2, <1>4 DEF Prompts, RunOK
<1>6. LeaseHeld'
  <2>1. ASSUME NEW r \in Runner, Busy(r)
        PROVE  LET i == run'[r].job IN
               /\ rows'[i].st = "queued" /\ rows'[i].by = Owner[r]
               /\ rows'[i].attempts = run'[r].count
               /\ rows'[i].lease > run'[r].left
                                   + (IF run'[r].ph = "performing" THEN Finish ELSE 0)
    <3> DEFINE i == run[r].job
    <3>1. rows[i].st = "queued" /\ rows[i].by = Owner[r] /\ rows[i].attempts = run[r].count
          /\ rows[i].lease > run[r].left + (IF run[r].ph = "performing" THEN Finish ELSE 0)
      BY <2>1 DEF Prompts, LeaseHeld
    <3>2. rows'[i].lease = rows[i].lease - 1
      BY <1>1, <1>2, <2>1, <3>1, TimingAssumption DEF Less
    <3>3. QED
      BY <1>1, <1>2, <2>1, <3>1, <3>2, TimingAssumption
  <2>2. QED
    BY <1>4, <2>1 DEF LeaseHeld
<1>7. Distinct'
  <2>1. ASSUME NEW q \in Runner, NEW p \in Runner, Busy(q)', run'[q].job = run'[p].job
        PROVE  q = p
    <3>1. Busy(q) /\ run'[q].job = run[q].job /\ run[q].job \in Id
      BY <1>2, <1>4, <2>1
    <3>2. Busy(p)
      BY <1>3, <2>1, <3>1, ConstantsAssumption
    <3>3. QED
      BY <1>2, <2>1, <3>1, <3>2 DEF Prompts, Distinct
  <2>2. QED
    BY <2>1 DEF Distinct
<1>8. HandingBackIdle' /\ AttemptsOK'
  BY <1>1, <1>4 DEF Tick, Prompts, HandingBackIdle, AttemptsOK
<1>9. QED
  BY <1>5, <1>6, <1>7, <1>8 DEF Prompts

LEMMA PromptPrune ==
    ASSUME TypeOK, TypeOK', Prompts,
           NEW S \in SUBSET {i \in Id : rows[i].st = "dead"}, PruneDead(S)
    PROVE  Prompts'
<1>1. \A i \in Id : rows'[i] = rows[i] \/ (rows[i].st = "dead" /\ rows'[i] = Deleted)
  BY DEF PruneDead
<1>2. UNCHANGED <<run, loop>>
  BY DEF PruneDead
<1>3. RunOK' /\ LeaseHeld' /\ Distinct' /\ HandingBackIdle'
  BY <1>1, <1>2, OtherRows
<1>4. Deleted.attempts = 0 /\ Deleted.st = "gone"
  BY DEF Deleted, NoRow
<1>5. \A t \in Task : Retries[t] \in Int /\ Retries[t] >= -1
  BY ConstantsAssumption
<1>6. AttemptsOK'
  BY <1>1, <1>4, <1>5, ConstantsAssumption DEF Prompts, AttemptsOK
<1>7. QED
  BY <1>3, <1>6 DEF Prompts

LEMMA PromptInit == Init => Prompts
<1> SUFFICES ASSUME Init PROVE Prompts
  OBVIOUS
<1>1. \A r \in Runner : ~Busy(r)
  BY DEF Init, Busy, Idle
<1>2. \A i \in Id : rows[i].attempts = 0 /\ TaskOf[i] \in Task
  BY ConstantsAssumption DEF Init, NoRow
<1>3. \A t \in Task : Retries[t] \in Int /\ Retries[t] >= -1
  BY ConstantsAssumption
<1>4. AttemptsOK
  BY <1>2, <1>3 DEF AttemptsOK
<1>5. QED
  BY <1>1, <1>4 DEF Prompts, RunOK, LeaseHeld, Distinct, HandingBackIdle

LEMMA PromptNext ==
    ASSUME Prompt = Working, TypeOK, TypeOK', Prompts, [Next]_vars
    PROVE  Prompts'
<1>1. CASE UNCHANGED vars
  BY <1>1 DEF vars, Prompts, RunOK, LeaseHeld, Distinct, HandingBackIdle, AttemptsOK, Busy
<1>2. CASE Next
  BY <1>2, PromptProducers, PromptClaims, PromptLifecycle, PromptTasks, PromptPrune, PromptTick
     DEF Next
<1>3. QED
  BY <1>1, <1>2

\* The inductive invariant of prompt processes: every slot holds the lease of
\* its row for longer than it still needs it.
THEOREM PromptCorrect == Spec => []PromptInv
<1>1. Init => PromptInv
  BY PromptInit DEF PromptInv, Prompts
<1>2. TypeOK /\ TypeOK' /\ PromptInv /\ [Next]_vars => PromptInv'
  BY PromptNext DEF PromptInv, Prompts
<1>3. QED
  BY <1>1, <1>2, TypeCorrect, PTL DEF Spec

\* While every task is prompt no job is executed twice at once, whatever
\* crashes, stops, hand-backs, lost answers and failed statements there are.
THEOREM OneRunnerCorrect == Spec => []OneRunner
<1>1. PromptInv => OneRunner
  BY DEF PromptInv, Distinct, OneRunner
<1>2. QED
  BY <1>1, PromptCorrect, PTL

\* ... and no row counts more failures than its worker's retries and the last.
LEMMA CountedCorrect ==
    Spec => [](Prompt = Working => \A i \in Id :
                 TaskOf[i] \in Known => rows[i].attempts <= Retries[TaskOf[i]] + 1)
<1>1. PromptInv => (Prompt = Working => \A i \in Id :
                      TaskOf[i] \in Known => rows[i].attempts <= Retries[TaskOf[i]] + 1)
  BY DEF PromptInv, AttemptsOK
<1>2. QED
  BY <1>1, PromptCorrect, PTL

-----------------------------------------------------------------------------
(***************************************************************************)
(* From here on nothing is assumed of the tasks' speed: they may be slow,  *)
(* and what they remember stale, and their rows may be anyone's by the     *)
(* time they write.  Unique locks, spent retries, and the refinement of    *)
(* JobPromises.                                                            *)
(***************************************************************************)

-----------------------------------------------------------------------------
(* What the statement that records an outcome does, to any row it may find. *)

LEMMA RecordedRow ==
    ASSUME TypeOK, NEW r \in Runner, Record(r), NEW i \in Id, i = run[r].job
    PROVE  \/ ~Exists(i) /\ rows'[i] = rows[i]
           \/ /\ Exists(i) /\ run[r].ph = "delete" /\ rows'[i].st = "gone"
              /\ rows'[i].attempts = 0 /\ rows'[i].key = FALSE /\ rows'[i].ttl = 0
           \/ /\ Exists(i) /\ run[r].ph = "retry" /\ rows'[i].st = rows[i].st
              /\ rows'[i].attempts = rows[i].attempts + 1
              /\ rows'[i].key = rows[i].key /\ rows'[i].ttl = rows[i].ttl
           \/ /\ Exists(i) /\ run[r].ph = "bury" /\ rows'[i].st = "dead"
              /\ rows'[i].attempts = rows[i].attempts + 1
              /\ rows'[i].key = FALSE /\ rows'[i].ttl = 0
<1>1. PICK delay \in RetryDelays : rows'[i] = Written(r, delay)
  BY DEF Record, TypeOK
<1>2. rows[i] \in Row /\ run[r].ph \in Writes
  BY DEF TypeOK, Record
<1>3. CASE ~Exists(i)
  BY <1>1, <1>3 DEF Written
<1>4. CASE Exists(i) /\ run[r].ph = "delete"
  BY <1>1, <1>4 DEF Written, Deleted, NoRow
<1>5. CASE Exists(i) /\ run[r].ph = "retry"
  <2>1. rows'[i] = Retried(i, delay)
    BY <1>1, <1>5 DEF Written
  <2>2. QED
    BY <1>2, <1>5, <2>1 DEF Retried, Row
<1>6. CASE Exists(i) /\ run[r].ph = "bury"
  <2>1. rows'[i] = Buried(i)
    BY <1>1, <1>6 DEF Written
  <2>2. QED
    BY <1>2, <1>6, <2>1 DEF Buried, Row
<1>7. QED
  BY <1>2, <1>3, <1>4, <1>5, <1>6 DEF Writes

LEMMA RecordStep ==
    ASSUME TypeOK, NEW r \in Runner, Record(r)
    PROVE  /\ Busy(r) /\ run[r].job \in Id /\ run[r].ph \in Writes
           /\ run'[r] = Idle /\ \A q \in Runner \ {r} : run'[q] = run[q]
           /\ \A j \in Id \ {run[r].job} : rows'[j] = rows[j]
           /\ finished' = finished /\ failures' = failures /\ begun' = begun
BY BusyRun DEF Record, Busy, Writes, TypeOK, history

-----------------------------------------------------------------------------
(* Unique locks *)

\* What every step but the insertion of a row with a lock does.
KeepsKey(i) == /\ rows'[i].key => rows[i].key /\ rows'[i].st = "queued"
               /\ Locks(i)' => Locks(i) /\ rows'[i].key = rows[i].key

LEMMA KeyStep == ASSUME KeyInv, \A i \in Id : KeepsKey(i) PROVE KeyInv'
<1>1. \A i \in Id : Locks(i)' => rows'[i].key
  BY DEF KeyInv, KeepsKey
<1>2. QED
  BY <1>1 DEF KeyInv, KeepsKey

LEMMA KeyProducers == ASSUME TypeOK, KeyInv, Producers PROVE KeyInv'
<1>1. ASSUME NEW S \in SUBSET {i \in Id : rows[i].st = "none"}, NEW delay \in Delays,
             InsertPlain(S, delay)
      PROVE  KeyInv'
  <2>1. ASSUME NEW i \in Id, i \in S PROVE ~rows'[i].key /\ rows'[i].ttl = 0
    BY <1>1, <2>1 DEF InsertPlain, Inserted
  <2>2. ASSUME NEW i \in Id, i \notin S PROVE rows'[i] = rows[i]
    BY <1>1, <2>2 DEF InsertPlain
  <2>3. begun' = begun
    BY <1>1 DEF InsertPlain, history
  <2>4. \A i \in Id : KeepsKey(i)
    BY <2>1, <2>2, <2>3 DEF KeepsKey, Locks, KeyInv
  <2>5. QED
    BY <2>4, KeyStep
<1>2. ASSUME NEW t \in Task, ClearLapsed(t) PROVE KeyInv'
  <2>1. begun' = begun
    BY <1>2 DEF ClearLapsed, history
  <2>2. ASSUME NEW i \in Id
        PROVE  \/ rows'[i] = rows[i]
               \/ rows[i].ttl = 0 /\ rows'[i].ttl = 0 /\ ~rows'[i].key
    BY <1>2 DEF ClearLapsed, TypeOK, Row
  <2>3. \A i \in Id : KeepsKey(i)
    BY <2>1, <2>2 DEF KeepsKey, Locks, KeyInv
  <2>4. QED
    BY <2>3, KeyStep
<1>3. ASSUME NEW i \in Id, NEW delay \in Delays, InsertUnique(i, delay) PROVE KeyInv'
  <2>1. begun' = begun /\ \A j \in Id \ {i} : rows'[j] = rows[j]
    BY <1>3 DEF InsertUnique, history, TypeOK
  <2>2. rows'[i].st = "queued" /\ \A j \in Id : TaskOf[j] = TaskOf[i] => ~rows[j].key
    BY <1>3 DEF InsertUnique, Inserted, TypeOK
  <2>3. Locks(i)' => rows'[i].key
    BY <1>3 DEF InsertUnique, Inserted, TypeOK, Locks, Unique
  <2>4. \A j \in Id \ {i} : Locks(j)' = Locks(j)
    BY <2>1 DEF Locks
  <2>5. QED
    BY <2>1, <2>2, <2>3, <2>4 DEF KeyInv
<1>4. ASSUME NEW t \in Task, InsertConflicts(t) PROVE KeyInv'
  BY <1>4 DEF InsertConflicts, KeyInv, Locks, history
<1>5. QED
  BY <1>1, <1>2, <1>3, <1>4 DEF Producers

LEMMA KeyNext == TypeOK /\ KeyInv /\ [Next]_vars => KeyInv'
<1> SUFFICES ASSUME TypeOK, KeyInv, [Next]_vars PROVE KeyInv'
  OBVIOUS
<1>0. ASSUME rows' = rows, begun' = begun PROVE KeyInv'
  BY <1>0 DEF KeyInv, Locks
<1>1. ASSUME NEW w \in Worker, Claims(w) PROVE KeyInv'
  <2>1. PICK S \in ClaimableSets : Take(w, S)
    BY <1>1 DEF Claims, Claim, ClaimLost
  <2>2. ASSUME NEW i \in Id
        PROVE  /\ rows'[i].st = rows[i].st /\ rows'[i].ttl = rows[i].ttl
               /\ begun \subseteq begun' /\ (i \in S => i \in begun')
               /\ i \in S => rows'[i].key = (rows[i].key /\ LockOf[TaskOf[i]] # "until_executing")
               /\ i \notin S => rows'[i].key = rows[i].key
    <3>1. rows[i] \in Row /\ begun' = begun \cup S
      BY <2>1 DEF Take, TypeOK
    <3>2. CASE i \in S
      <4>1. rows'[i] = ClaimedRow(i, w)
        BY <2>1, <3>2 DEF Take
      <4>2. rows'[i].st = rows[i].st /\ rows'[i].ttl = rows[i].ttl
        BY <3>1, <4>1 DEF ClaimedRow, Row
      <4>3. rows'[i].key = (rows[i].key /\ LockOf[TaskOf[i]] # "until_executing")
        BY <3>1, <4>1 DEF ClaimedRow, Row
      <4>4. QED
        BY <3>1, <3>2, <4>2, <4>3
    <3>3. CASE i \notin S
      BY <2>1, <3>1, <3>3 DEF Take
    <3>4. QED
      BY <3>2, <3>3
  <2>3. \A i \in Id : KeepsKey(i)
    BY <2>2 DEF KeepsKey, Locks, KeyInv
  <2>4. QED
    BY <2>3, KeyStep
<1>2. ASSUME NEW w \in Worker, Lifecycle(w) PROVE KeyInv'
  <2>1. CASE HandBack(w)
    <3>1. \A i \in Id : /\ rows'[i].st = rows[i].st /\ rows'[i].ttl = rows[i].ttl
                        /\ rows'[i].key = rows[i].key
      BY <2>1 DEF HandBack, TypeOK, Row
    <3>2. begun' = begun
      BY <2>1 DEF HandBack, history
    <3>3. \A i \in Id : KeepsKey(i)
      BY <3>1, <3>2 DEF KeepsKey, Locks, KeyInv
    <3>4. QED
      BY <3>3, KeyStep
  <2>2. CASE ~HandBack(w)
    BY <1>0, <1>2, <2>2
       DEF Lifecycle, Start, Stop, Leave, Abort, GraceDrop, Crash, history
  <2>3. QED
    BY <2>1, <2>2
<1>3. ASSUME NEW r \in Runner, Tasks(r) PROVE KeyInv'
  <2>1. CASE Heartbeats(r)
    <3>1. \A i \in Id : /\ rows'[i].st = rows[i].st /\ rows'[i].ttl = rows[i].ttl
                        /\ rows'[i].key = rows[i].key
      BY <2>1 DEF Heartbeats, TypeOK, Row
    <3>2. begun' = begun
      BY <2>1 DEF Heartbeats, history
    <3>3. \A i \in Id : KeepsKey(i)
      BY <3>1, <3>2 DEF KeepsKey, Locks, KeyInv
    <3>4. QED
      BY <3>3, KeyStep
  <2>2. CASE Record(r)
    <3>1. ASSUME NEW i \in Id, i = run[r].job PROVE KeepsKey(i)
      <4>1. \/ rows'[i].key = FALSE /\ rows'[i].st # "queued"
            \/ /\ rows'[i].st = rows[i].st /\ rows'[i].key = rows[i].key
               /\ rows'[i].ttl = rows[i].ttl
        BY <2>2, <3>1, RecordedRow
      <4>2. begun' = begun
        BY <2>2, RecordStep
      <4>3. QED
        BY <4>1, <4>2 DEF KeepsKey, Locks, KeyInv
    <3>2. ASSUME NEW i \in Id, i # run[r].job PROVE KeepsKey(i)
      BY <2>2, <3>2, RecordStep DEF KeepsKey, Locks, KeyInv
    <3>3. QED
      BY <3>1, <3>2, KeyStep
  <2>3. CASE PerformReturns(r) \/ PerformFails(r) \/ HookReturns(r) \/ RecordFails(r)
    BY <1>0, <2>3 DEF PerformReturns, PerformFails, HookReturns, RecordFails, history
  <2>4. QED
    BY <1>3, <2>1, <2>2, <2>3 DEF Tasks
<1>4. ASSUME NEW S \in SUBSET {i \in Id : rows[i].st = "dead"}, PruneDead(S) PROVE KeyInv'
  <2>1. \A i \in Id : rows'[i] = rows[i] \/ rows'[i] = Deleted
    BY <1>4 DEF PruneDead
  <2>2. begun' = begun
    BY <1>4 DEF PruneDead, history
  <2>3. \A i \in Id : KeepsKey(i)
    BY <2>1, <2>2 DEF KeepsKey, Locks, KeyInv, Deleted, NoRow
  <2>4. QED
    BY <2>3, KeyStep
<1>5. CASE Tick
  <2>1. \A i \in Id : /\ rows'[i].st = rows[i].st /\ rows'[i].ttl = Less(rows[i].ttl)
                      /\ rows'[i].key = rows[i].key /\ rows[i].ttl \in Nat
    BY <1>5 DEF Tick, TypeOK, Row
  <2>2. begun' = begun
    BY <1>5 DEF Tick, history
  <2>3. \A i \in Id : KeepsKey(i)
    BY <2>1, <2>2 DEF KeepsKey, Locks, KeyInv, Less
  <2>4. QED
    BY <2>3, KeyStep
<1>6. CASE UNCHANGED vars
  BY <1>0, <1>6 DEF vars
<1>7. QED
  BY <1>1, <1>2, <1>3, <1>4, <1>5, <1>6, KeyProducers DEF Next

\* unique_key is unique, and a queued row keeps it until its lock is over.
THEOREM KeyCorrect == Spec => []KeyInv
<1>1. Init => KeyInv
  BY DEF Init, KeyInv, Locks, NoRow
<1>2. QED
  BY <1>1, KeyNext, TypeCorrect, PTL DEF Spec

\* No two queued jobs hold the same unique lock, however their rows were
\* retried, taken over, given up and queued again.
THEOREM UniqueCorrect == Spec => []UniqueQueued
<1>1. KeyInv => UniqueQueued
  BY DEF KeyInv, UniqueQueued
<1>2. QED
  BY <1>1, KeyCorrect, PTL

-----------------------------------------------------------------------------
(* What becomes of a slot in one step *)

Same(r) == /\ Busy(r)
           /\ run'[r].job = run[r].job /\ run'[r].ph = run[r].ph
           /\ run'[r].count = run[r].count

Begins(r) == LET i == run'[r].job IN
    /\ i \in Id /\ rows[i].st = "queued" /\ run'[r].count = rows[i].attempts
    /\ \/ run'[r].ph = "performing" /\ TaskOf[i] \in Known
       \/ run'[r].ph = "bury" /\ TaskOf[i] \notin Known

MovesOn(r, to) == /\ Busy(r) /\ run'[r].job = run[r].job /\ run'[r].ph = to
                  /\ run'[r].count = run[r].count

Advances(r) ==
    \/ PerformReturns(r) /\ MovesOn(r, "delete")
    \/ PerformFails(r) /\ MovesOn(r, AfterFailure(run[r].job, run[r].count))
    \/ /\ HookReturns(r)
       /\ MovesOn(r, IF KeepDead[TaskOf[run[r].job]] THEN "bury" ELSE "delete")

SlotStep(r) == Busy(r)' => Same(r) \/ Begins(r) \/ Advances(r)

LEMMA Advancing ==
    ASSUME TypeOK, NEW r \in Runner,
           PerformReturns(r) \/ PerformFails(r) \/ HookReturns(r)
    PROVE  Advances(r) /\ \A q \in Runner \ {r} : run'[q] = run[q]
<1>1. Busy(r)
  BY DEF PerformReturns, PerformFails, HookReturns, Busy
<1>2. run[r] \in [job : Id, ph : Working, count : Nat, left : Nat]
  BY <1>1, BusyRun
<1>3. ASSUME NEW ph, Enter(r, ph)
      PROVE  MovesOn(r, ph) /\ \A q \in Runner \ {r} : run'[q] = run[q]
  BY <1>1, <1>2, <1>3 DEF Enter, MovesOn, TypeOK
<1>4. CASE PerformReturns(r)
  BY <1>3, <1>4 DEF PerformReturns, Advances
<1>5. CASE PerformFails(r)
  BY <1>3, <1>5 DEF PerformFails, Advances
<1>6. CASE HookReturns(r)
  BY <1>1, <1>2, <1>6 DEF HookReturns, Advances, MovesOn, TypeOK
<1>7. QED
  BY <1>4, <1>5, <1>6

LEMMA SlotSteps == ASSUME TypeOK, [Next]_vars PROVE \A r \in Runner : SlotStep(r)
<1>0. ASSUME NEW r \in Runner, run'[r] = run[r] PROVE SlotStep(r)
  BY <1>0 DEF SlotStep, Same, Busy
<1>1. ASSUME NEW r \in Runner, run'[r] = Idle PROVE SlotStep(r)
  BY <1>1 DEF SlotStep, Busy, Idle
<1>2. CASE Producers \/ UNCHANGED vars
      \/ \E S \in SUBSET {i \in Id : rows[i].st = "dead"} : PruneDead(S)
  BY <1>0, <1>2 DEF Producers, InsertPlain, ClearLapsed, InsertUnique, InsertConflicts,
                    PruneDead, vars
<1>3. ASSUME NEW w \in Worker, Lifecycle(w) PROVE \A r \in Runner : SlotStep(r)
  <2>1. \A r \in Runner : run'[r] = run[r] \/ run'[r] = Idle
    BY <1>3 DEF Lifecycle, Start, Stop, Leave, Abort, HandBack, GraceDrop, Crash
  <2>2. QED
    BY <1>0, <1>1, <2>1
<1>4. CASE Tick
  <2>1. ASSUME NEW r \in Runner, Busy(r) PROVE SlotStep(r)
    <3>1. run[r] \in [job : Id, ph : Working, count : Nat, left : Nat]
      BY <2>1, BusyRun
    <3>2. run'[r] = [run[r] EXCEPT !.left = Less(@)]
      BY <1>4 DEF Tick
    <3>3. QED
      BY <2>1, <3>1, <3>2 DEF SlotStep, Same
  <2>2. ASSUME NEW r \in Runner, ~Busy(r) PROVE SlotStep(r)
    <3>1. run[r] = Idle
      BY <2>2, FreeRun
    <3>2. run'[r] = [Idle EXCEPT !.left = Less(@)]
      BY <1>4, <3>1 DEF Tick
    <3>3. QED
      BY <3>2 DEF SlotStep, Busy, Idle
  <2>3. QED
    BY <2>1, <2>2
<1>5. ASSUME NEW w \in Worker, Claims(w) PROVE \A r \in Runner : SlotStep(r)
  <2>1. PICK S \in ClaimableSets : Claim(w, S) \/ ClaimLost(w, S)
    BY <1>5 DEF Claims
  <2>2. CASE ClaimLost(w, S)
    BY <1>0, <2>2 DEF ClaimLost
  <2>3. CASE Claim(w, S)
    <3>1. PICK R \in SUBSET Slots(w) : \E g \in [R -> S] : Spawn(R, g, S)
      BY <2>3 DEF Claim
    <3>2. PICK g \in [R -> S] : Spawn(R, g, S)
      BY <3>1
    <3>3. ASSUME NEW r \in Runner, r \in R PROVE SlotStep(r)
      <4>1. run'[r] = Started(g[r]) /\ g[r] \in S
        BY <3>2, <3>3 DEF Spawn
      <4>2. g[r] \in Id /\ rows[g[r]].st = "queued"
        BY <2>1, <4>1 DEF ClaimableSets, Claimable, Due
      <4>3. QED
        BY <4>1, <4>2, StartedFields DEF SlotStep, Begins
    <3>4. ASSUME NEW r \in Runner, r \notin R PROVE SlotStep(r)
      BY <1>0, <3>2, <3>4 DEF Spawn
    <3>5. QED
      BY <3>3, <3>4
  <2>4. QED
    BY <2>1, <2>2, <2>3
<1>6. ASSUME NEW r \in Runner, Tasks(r) PROVE \A q \in Runner : SlotStep(q)
  <2>1. CASE PerformReturns(r) \/ PerformFails(r) \/ HookReturns(r)
    BY <1>0, <2>1, Advancing DEF SlotStep
  <2>2. CASE Record(r) \/ RecordFails(r)
    BY <1>0, <1>1, <2>2 DEF Record, RecordFails, TypeOK
  <2>3. CASE Heartbeats(r)
    <3>1. Busy(r) /\ run' = [run EXCEPT ![r].left = Heartbeat]
      BY <2>3 DEF Heartbeats, Busy
    <3>2. SlotStep(r)
      BY <3>1, BusyRun DEF SlotStep, Same, TypeOK
    <3>3. QED
      BY <1>0, <3>1, <3>2 DEF TypeOK
  <2>4. QED
    BY <1>6, <2>1, <2>2, <2>3 DEF Tasks
<1>7. QED
  BY <1>2, <1>3, <1>4, <1>5, <1>6 DEF Next

\* What becomes of a row's attempts, and that a row once inserted stays known.
AttemptsStep(i) ==
    \/ rows'[i].attempts <= rows[i].attempts
    \/ /\ rows'[i].attempts = rows[i].attempts + 1
       /\ \E r \in Runner : Record(r) /\ run[r].job = i /\ run[r].ph \in {"retry", "bury"}

Remains(i) == rows[i].st # "none" => rows'[i].st # "none"

LEMMA RowSteps ==
    ASSUME TypeOK, [Next]_vars, NEW i \in Id PROVE AttemptsStep(i) /\ Remains(i)
<1>0. rows[i] \in Row /\ rows[i].attempts \in Nat
  BY DEF TypeOK, Row
<1>1. ASSUME rows'[i].attempts = rows[i].attempts, rows'[i].st = rows[i].st
      PROVE  AttemptsStep(i) /\ Remains(i)
  BY <1>0, <1>1 DEF AttemptsStep, Remains
<1>2. ASSUME rows'[i].attempts = 0, rows'[i].st # "none"
      PROVE  AttemptsStep(i) /\ Remains(i)
  BY <1>0, <1>2 DEF AttemptsStep, Remains
<1>3. CASE Producers
  <2>1. ASSUME NEW S \in SUBSET {j \in Id : rows[j].st = "none"}, NEW delay \in Delays,
               InsertPlain(S, delay)
        PROVE  rows'[i] = rows[i] \/ (rows'[i].attempts = 0 /\ rows'[i].st = "queued")
    BY <2>1 DEF InsertPlain, Inserted
  <2>2. ASSUME NEW t \in Task, ClearLapsed(t)
        PROVE  rows'[i].attempts = rows[i].attempts /\ rows'[i].st = rows[i].st
    BY <1>0, <2>2 DEF ClearLapsed, Row
  <2>3. ASSUME NEW j \in Id, NEW delay \in Delays, InsertUnique(j, delay)
        PROVE  rows'[i] = rows[i] \/ (rows'[i].attempts = 0 /\ rows'[i].st = "queued")
    BY <2>3 DEF InsertUnique, Inserted, TypeOK
  <2>4. ASSUME NEW t \in Task, InsertConflicts(t) PROVE rows' = rows
    BY <2>4 DEF InsertConflicts
  <2>5. QED
    BY <1>1, <1>2, <1>3, <2>1, <2>2, <2>3, <2>4 DEF Producers
<1>4. ASSUME NEW w \in Worker, Claims(w) PROVE AttemptsStep(i) /\ Remains(i)
  <2>1. PICK S \in ClaimableSets : Take(w, S)
    BY <1>4 DEF Claims, Claim, ClaimLost
  <2>2. QED
    BY <1>1, <2>1, TakeRows
<1>5. ASSUME NEW w \in Worker, Lifecycle(w) PROVE AttemptsStep(i) /\ Remains(i)
  <2>1. rows'[i] = rows[i] \/ rows'[i] = [rows[i] EXCEPT !.by = None, !.lease = 0]
    BY <1>5 DEF Lifecycle, Start, Stop, Leave, Abort, HandBack, GraceDrop, Crash
  <2>2. QED
    BY <1>0, <1>1, <2>1 DEF Row
<1>6. ASSUME NEW r \in Runner, Tasks(r) PROVE AttemptsStep(i) /\ Remains(i)
  <2>1. CASE Record(r)
    <3>1. CASE i = run[r].job
      <4>1. \/ rows'[i] = rows[i]
            \/ rows'[i].attempts = 0 /\ rows'[i].st = "gone"
            \/ /\ run[r].ph \in {"retry", "bury"} /\ rows'[i].st # "none"
               /\ rows'[i].attempts = rows[i].attempts + 1
        BY <2>1, <3>1, RecordedRow DEF Exists
      <4>2. CASE run[r].ph \in {"retry", "bury"} /\ rows'[i].st # "none"
                 /\ rows'[i].attempts = rows[i].attempts + 1
        BY <2>1, <3>1, <4>2 DEF AttemptsStep, Remains
      <4>3. QED
        BY <1>1, <1>2, <4>1, <4>2
    <3>2. CASE i # run[r].job
      BY <1>1, <2>1, <3>2, RecordStep
    <3>3. QED
      BY <3>1, <3>2
  <2>2. CASE Heartbeats(r)
    <3>1. rows'[i].attempts = rows[i].attempts /\ rows'[i].st = rows[i].st
      BY <1>0, <2>2 DEF Heartbeats, TypeOK, Row
    <3>2. QED
      BY <1>1, <3>1
  <2>3. CASE PerformReturns(r) \/ PerformFails(r) \/ HookReturns(r) \/ RecordFails(r)
    BY <1>1, <2>3 DEF PerformReturns, PerformFails, HookReturns, RecordFails
  <2>4. QED
    BY <1>6, <2>1, <2>2, <2>3 DEF Tasks
<1>7. ASSUME NEW S \in SUBSET {j \in Id : rows[j].st = "dead"}, PruneDead(S)
      PROVE  AttemptsStep(i) /\ Remains(i)
  <2>1. rows'[i] = rows[i] \/ rows'[i] = Deleted
    BY <1>7 DEF PruneDead
  <2>2. QED
    BY <1>1, <1>2, <2>1 DEF Deleted, NoRow
<1>8. CASE Tick
  BY <1>0, <1>1, <1>8 DEF Tick, Row
<1>9. CASE UNCHANGED vars
  BY <1>1, <1>9 DEF vars
<1>10. QED
  BY <1>3, <1>4, <1>5, <1>6, <1>7, <1>8, <1>9 DEF Next

\* Only a failed perform counts as one, and nothing performed is forgotten.
LEMMA HistorySteps ==
    ASSUME TypeOK, [Next]_vars, NEW i \in Id
    PROVE  /\ finished \subseteq finished'
           /\ \/ failures'[i] = failures[i]
              \/ failures'[i] = failures[i] + 1 /\ \E r \in Runner : PerformFails(r) /\ run[r].job = i
<1>1. ASSUME NEW r \in Runner, Tasks(r)
      PROVE  /\ finished \subseteq finished'
             /\ \/ failures' = failures
                \/ PerformFails(r) /\ failures' = [failures EXCEPT ![run[r].job] = @ + 1]
  BY <1>1 DEF Tasks, Heartbeats, PerformReturns, PerformFails, HookReturns, Record,
              RecordFails, history
<1>2. ASSUME NEW w \in Worker, Claims(w) \/ Lifecycle(w)
      PROVE  UNCHANGED <<finished, failures>>
  BY <1>2 DEF Claims, Claim, ClaimLost, Take, Lifecycle, Start, Stop, Leave, Abort,
              HandBack, GraceDrop, Crash, history
<1>3. CASE Producers \/ Tick \/ UNCHANGED vars
      \/ \E S \in SUBSET {j \in Id : rows[j].st = "dead"} : PruneDead(S)
  BY <1>3 DEF Producers, InsertPlain, ClearLapsed, InsertUnique, InsertConflicts, Tick,
              PruneDead, vars, history
<1>4. CASE \E r \in Runner : Tasks(r)
  BY <1>1, <1>4 DEF TypeOK
<1>5. QED
  BY <1>2, <1>3, <1>4 DEF Next

-----------------------------------------------------------------------------
(* Spent retries *)

LEMMA RunNext == TypeOK /\ RunOK /\ [Next]_vars => RunOK'
<1> SUFFICES ASSUME TypeOK, RunOK, [Next]_vars, NEW r \in Runner, Busy(r)'
             PROVE  LET t == TaskOf[run'[r].job] IN
                    /\ rows'[run'[r].job].st # "none"
                    /\ t \in Known \/ run'[r].ph = "bury"
                    /\ run'[r].ph = "retry" => run'[r].count < Retries[t]
                    /\ run'[r].ph = "exhausted" => Retries[t] >= 0
                    /\ run'[r].ph = "bury" /\ t \in Known => KeepDead[t]
  BY DEF RunOK
<1>1. Same(r) \/ Begins(r) \/ Advances(r)
  BY SlotSteps DEF SlotStep
<1>2. ASSUME Busy(r), run'[r].job = run[r].job
      PROVE  /\ run[r].job \in Id /\ TaskOf[run[r].job] \in Task
             /\ rows'[run'[r].job].st # "none"
  BY <1>2, BusyRun, RowSteps, ConstantsAssumption DEF Remains, RunOK
<1>3. CASE Same(r)
  BY <1>2, <1>3 DEF Same, RunOK
<1>4. CASE Begins(r)
  BY <1>4, RowSteps DEF Begins, Remains
<1>5. CASE Advances(r)
  <2>1. Busy(r) /\ run'[r].job = run[r].job /\ run'[r].count = run[r].count
    BY <1>5 DEF Advances, MovesOn
  <2>2. run[r].ph \in {"performing", "exhausted"} /\ TaskOf[run[r].job] \in Known
    BY <1>5, <2>1 DEF Advances, PerformReturns, PerformFails, HookReturns, RunOK
  <2>3. run[r].count \in Nat /\ Retries[TaskOf[run[r].job]] \in Int
    BY <1>2, <2>1, BusyRun, ConstantsAssumption
  <2>4. CASE PerformReturns(r) /\ MovesOn(r, "delete")
    BY <1>2, <2>1, <2>2, <2>4 DEF MovesOn
  <2>5. CASE PerformFails(r) /\ MovesOn(r, AfterFailure(run[r].job, run[r].count))
    BY <1>2, <2>1, <2>2, <2>3, <2>5 DEF MovesOn, AfterFailure
  <2>6. CASE /\ HookReturns(r)
             /\ MovesOn(r, IF KeepDead[TaskOf[run[r].job]] THEN "bury" ELSE "delete")
    BY <1>2, <2>1, <2>2, <2>6 DEF MovesOn
  <2>7. QED
    BY <1>5, <2>4, <2>5, <2>6 DEF Advances
<1>6. QED
  BY <1>1, <1>3, <1>4, <1>5

LEMMA RunCorrect == Spec => []RunOK
<1>1. Init => RunOK
  BY DEF Init, RunOK, Busy, Idle
<1>2. QED
  BY <1>1, RunNext, TypeCorrect, PTL DEF Spec

\* The first part of SpentInv, for one row.
Counted(i) == TaskOf[i] \in Known =>
                  rows[i].attempts + Cardinality(Uncounted(i)) <= failures[i]

LEMMA UncountedFinite ==
    ASSUME NEW i \in Id
    PROVE  /\ IsFiniteSet(Uncounted(i)) /\ Cardinality(Uncounted(i)) \in Nat
           /\ IsFiniteSet(Uncounted(i)') /\ Cardinality(Uncounted(i)') \in Nat
<1>1. Uncounted(i) \subseteq Runner /\ Uncounted(i)' \subseteq Runner
  BY DEF Uncounted
<1>2. IsFiniteSet(Runner)
  BY ConstantsAssumption
<1>3. QED
  BY <1>1, <1>2, FS_Subset, FS_CardinalityType

\* No slot comes to have an uncounted failure, but the one whose perform fails.
LEMMA UncountedStep ==
    ASSUME TypeOK, RunOK, [Next]_vars, NEW i \in Id, TaskOf[i] \in Known,
           NEW q \in Uncounted(i)', q \notin Uncounted(i)
    PROVE  PerformFails(q) /\ run[q].job = i
<1>1. q \in Runner /\ run'[q].job = i /\ run'[q].ph \in {"exhausted", "retry", "bury"}
  BY DEF Uncounted
<1>2. Same(q) \/ Begins(q) \/ Advances(q)
  BY <1>1, SlotSteps DEF SlotStep, Busy
<1>3. ~Same(q)
  BY <1>1 DEF Same, Uncounted
<1>4. ~Begins(q)
  BY <1>1 DEF Begins
<1>5. Advances(q) /\ run[q].job = i
  BY <1>1, <1>2, <1>3, <1>4 DEF Advances, MovesOn
<1>6. CASE PerformReturns(q) /\ MovesOn(q, "delete")
  BY <1>1, <1>6 DEF MovesOn
<1>7. CASE HookReturns(q)
  BY <1>1, <1>5, <1>7 DEF HookReturns, Uncounted
<1>8. QED
  BY <1>5, <1>6, <1>7 DEF Advances

LEMMA CountedNext ==
    ASSUME TypeOK, TypeOK', RunOK, [Next]_vars, NEW i \in Id, Counted(i)
    PROVE  Counted(i)'
<1> SUFFICES ASSUME TaskOf[i] \in Known
             PROVE  rows'[i].attempts + Cardinality(Uncounted(i)') <= failures'[i]
  BY DEF Counted
<1>1. /\ rows[i].attempts \in Nat /\ rows'[i].attempts \in Nat
      /\ failures[i] \in Nat /\ failures'[i] \in Nat
  BY DEF TypeOK, Row
<1>2. rows[i].attempts + Cardinality(Uncounted(i)) <= failures[i]
  BY DEF Counted
<1>3. CASE \E r \in Runner : PerformFails(r) /\ run[r].job = i
  <2>1. PICK r \in Runner : PerformFails(r) /\ run[r].job = i
    BY <1>3
  <2>2. rows' = rows /\ failures'[i] = failures[i] + 1
    BY <2>1 DEF PerformFails, TypeOK
  <2>3. Uncounted(i)' \subseteq Uncounted(i) \cup {r}
    <3>1. \A q \in Runner \ {r} : run'[q] = run[q]
      BY <2>1, Advancing
    <3>2. QED
      BY <3>1 DEF Uncounted
  <2>4. Cardinality(Uncounted(i) \cup {r}) <= Cardinality(Uncounted(i)) + 1
    <3>1. Cardinality(Uncounted(i) \cup {r}) = IF r \in Uncounted(i)
                                               THEN Cardinality(Uncounted(i))
                                               ELSE Cardinality(Uncounted(i)) + 1
      BY UncountedFinite, FS_AddElement
    <3>2. Cardinality(Uncounted(i)) \in Nat
      BY UncountedFinite
    <3>3. QED
      BY <3>1, <3>2
  <2>5. /\ Cardinality(Uncounted(i)') <= Cardinality(Uncounted(i) \cup {r})
        /\ Cardinality(Uncounted(i) \cup {r}) \in Nat
    <3>1. IsFiniteSet(Uncounted(i) \cup {r})
      BY UncountedFinite, FS_AddElement
    <3>2. QED
      BY <2>3, <3>1, FS_Subset, FS_CardinalityType
  <2>6. QED
    BY <1>1, <1>2, <2>2, <2>4, <2>5, UncountedFinite
<1>4. CASE ~ \E r \in Runner : PerformFails(r) /\ run[r].job = i
  <2>1. Uncounted(i)' \subseteq Uncounted(i)
    BY <1>4, UncountedStep DEF Uncounted
  <2>2. failures'[i] = failures[i]
    BY <1>4, HistorySteps
  <2>3. CASE rows'[i].attempts <= rows[i].attempts
    <3>1. Cardinality(Uncounted(i)') <= Cardinality(Uncounted(i))
      BY <2>1, UncountedFinite, FS_Subset
    <3>2. QED
      BY <1>1, <1>2, <2>2, <2>3, <3>1, UncountedFinite
  <2>4. ASSUME rows'[i].attempts = rows[i].attempts + 1, NEW r \in Runner, Record(r),
               run[r].job = i, run[r].ph \in {"retry", "bury"}
        PROVE  rows'[i].attempts + Cardinality(Uncounted(i)') <= failures'[i]
    <3>1. r \in Uncounted(i)
      BY <2>4 DEF Uncounted
    <3>2. r \notin Uncounted(i)'
      BY <2>4, RecordStep DEF Uncounted, Idle
    <3>3. Uncounted(i)' \subseteq Uncounted(i) \ {r}
      BY <2>1, <3>2
    <3>4. /\ IsFiniteSet(Uncounted(i) \ {r})
          /\ Cardinality(Uncounted(i) \ {r}) = Cardinality(Uncounted(i)) - 1
      BY <3>1, UncountedFinite, FS_RemoveElement
    <3>5. Cardinality(Uncounted(i)') <= Cardinality(Uncounted(i) \ {r})
      BY <3>3, <3>4, FS_Subset
    <3>6. QED
      BY <1>1, <1>2, <2>2, <2>4, <3>4, <3>5, UncountedFinite
  <2>5. QED
    BY <2>3, <2>4, RowSteps DEF AttemptsStep
<1>5. QED
  BY <1>3, <1>4

\* The rest of SpentInv, for one slot.
SlotSpent(r) ==
    LET i == run[r].job IN
    /\ Busy(r) /\ TaskOf[i] \in Known => run[r].count <= failures[i]
    /\ run[r].ph \in {"exhausted", "bury"} /\ TaskOf[i] \in Known
          => failures[i] > Retries[TaskOf[i]]
    /\ run[r].ph = "delete" =>
          \/ i \in finished
          \/ /\ failures[i] > 0 /\ failures[i] > Retries[TaskOf[i]]
             /\ ~KeepDead[TaskOf[i]]

LEMMA SpentParts ==
    SpentInv <=> (\A i \in Id : Counted(i)) /\ (\A r \in Runner : SlotSpent(r))
BY DEF SpentInv, GivenUpOnlyWhenSpent, Counted, SlotSpent

\* What a slot that goes on with its job shows of the failures seen so far.
LEMMA StaysSpent ==
    ASSUME TypeOK, TypeOK', RunOK, [Next]_vars, NEW r \in Runner, SlotSpent(r),
           Same(r) \/ Advances(r)
    PROVE  SlotSpent(r)'
<1>1. /\ Busy(r) /\ run'[r].job = run[r].job /\ run'[r].count = run[r].count
      /\ run[r].job \in Id /\ run[r].count \in Nat
  BY BusyRun DEF Same, Advances, MovesOn
<1> DEFINE i == run[r].job
<1>2. /\ TaskOf[i] \in Task /\ Retries[TaskOf[i]] \in Int /\ Retries[TaskOf[i]] >= -1
      /\ Retries[TaskOf[i]] = -1 => ~KeepDead[TaskOf[i]]
  BY <1>1, ConstantsAssumption
<1>3. failures[i] \in Nat /\ failures'[i] \in Nat
  BY <1>1 DEF TypeOK
<1>4. finished \subseteq finished' /\ failures[i] <= failures'[i]
  BY <1>1, <1>3, HistorySteps
<1>5. TaskOf[i] \in Known => run'[r].count <= failures'[i]
  BY <1>1, <1>3, <1>4 DEF SlotSpent
<1>6. CASE Same(r)
  BY <1>1, <1>2, <1>3, <1>4, <1>5, <1>6 DEF Same, SlotSpent
<1>7. CASE PerformReturns(r) /\ MovesOn(r, "delete")
  BY <1>1, <1>5, <1>7 DEF PerformReturns, MovesOn, SlotSpent
<1>8. CASE PerformFails(r) /\ MovesOn(r, AfterFailure(i, run[r].count))
  <2>1. failures'[i] = failures[i] + 1
    BY <1>1, <1>8 DEF PerformFails, TypeOK
  <2>2. TaskOf[i] \in Known /\ run[r].count <= failures[i]
    BY <1>1, <1>8 DEF PerformFails, RunOK, SlotSpent
  <2>3. run'[r].ph = AfterFailure(i, run[r].count)
    BY <1>8 DEF MovesOn
  <2>4. CASE Retries[TaskOf[i]] < 0
    <3>1. run'[r].ph = "delete" /\ ~KeepDead[TaskOf[i]]
      BY <1>2, <2>3, <2>4 DEF AfterFailure
    <3>2. failures'[i] > 0 /\ failures'[i] > Retries[TaskOf[i]]
      BY <1>2, <1>3, <2>1, <2>4
    <3>3. QED
      BY <1>1, <1>5, <3>1, <3>2 DEF SlotSpent
  <2>5. CASE Retries[TaskOf[i]] >= 0
    <3>1. run'[r].ph = IF run[r].count >= Retries[TaskOf[i]] THEN "exhausted" ELSE "retry"
      BY <1>2, <2>3, <2>5 DEF AfterFailure
    <3>2. run[r].count >= Retries[TaskOf[i]] => failures'[i] > Retries[TaskOf[i]]
      BY <1>1, <1>2, <1>3, <2>1, <2>2
    <3>3. QED
      BY <1>1, <1>5, <3>1, <3>2 DEF SlotSpent
  <2>6. QED
    BY <1>2, <2>4, <2>5
<1>9. CASE HookReturns(r) /\ MovesOn(r, IF KeepDead[TaskOf[i]] THEN "bury" ELSE "delete")
  <2>1. run[r].ph = "exhausted"
    BY <1>9 DEF HookReturns
  <2>2. TaskOf[i] \in Known /\ Retries[TaskOf[i]] >= 0
    BY <1>1, <2>1 DEF RunOK
  <2>3. failures[i] > Retries[TaskOf[i]]
    BY <2>1, <2>2 DEF SlotSpent
  <2>4. failures'[i] > Retries[TaskOf[i]] /\ failures'[i] > 0
    BY <1>2, <1>3, <1>4, <2>2, <2>3
  <2>5. run'[r].ph = IF KeepDead[TaskOf[i]] THEN "bury" ELSE "delete"
    BY <1>9 DEF MovesOn
  <2>6. QED
    BY <1>1, <1>5, <2>4, <2>5 DEF SlotSpent
<1>10. QED
  BY <1>6, <1>7, <1>8, <1>9 DEF Advances

LEMMA SpentNext == TypeOK /\ TypeOK' /\ RunOK /\ SpentInv /\ [Next]_vars => SpentInv'
<1> SUFFICES ASSUME TypeOK, TypeOK', RunOK, SpentInv, [Next]_vars PROVE SpentInv'
  OBVIOUS
<1>1. (\A i \in Id : Counted(i)) /\ \A r \in Runner : SlotSpent(r)
  BY SpentParts
<1>2. \A i \in Id : Counted(i)'
  BY <1>1, CountedNext
<1>3. ASSUME NEW r \in Runner PROVE SlotSpent(r)'
  <2>1. CASE ~Busy(r)'
    BY <2>1 DEF SlotSpent, Busy
  <2>2. CASE Busy(r)'
    <3>1. Same(r) \/ Begins(r) \/ Advances(r)
      BY <2>2, SlotSteps DEF SlotStep
    <3>2. CASE Begins(r)
      <4>1. ASSUME NEW i \in Id, i = run'[r].job, TaskOf[i] \in Known
            PROVE  run'[r].count <= failures'[i]
        <5>1. rows[i].attempts + Cardinality(Uncounted(i)) <= failures[i]
          BY <1>1, <4>1 DEF Counted
        <5>2. rows[i].attempts \in Nat /\ failures[i] \in Nat
          BY DEF TypeOK, Row
        <5>3. failures[i] <= failures'[i]
          BY <5>2, HistorySteps
        <5>4. failures'[i] \in Nat /\ run'[r].count = rows[i].attempts
          BY <3>2, <4>1 DEF TypeOK, Begins
        <5>5. QED
          BY <5>1, <5>2, <5>3, <5>4, UncountedFinite
      <4>2. QED
        BY <3>2, <4>1 DEF Begins, SlotSpent
    <3>3. CASE Same(r) \/ Advances(r)
      BY <1>1, <3>3, StaysSpent
    <3>4. QED
      BY <3>1, <3>2, <3>3
  <2>3. QED
    BY <2>1, <2>2
<1>4. SpentInv' <=> (\A i \in Id : Counted(i)') /\ (\A r \in Runner : SlotSpent(r)')
  BY DEF SpentInv, GivenUpOnlyWhenSpent, Counted, SlotSpent
<1>5. QED
  BY <1>2, <1>3, <1>4

\* A row never counts a failure that was not seen, and every task that is
\* about to give a job up has seen enough of them.
THEOREM SpentCorrect == Spec => []SpentInv
<1>1. Init => SpentInv
  <2> SUFFICES ASSUME Init PROVE SpentInv
    OBVIOUS
  <2>1. ASSUME NEW i \in Id PROVE Counted(i)
    <3>1. Uncounted(i) = {}
      BY DEF Init, Uncounted, Idle
    <3>2. rows[i].attempts = 0 /\ failures[i] = 0
      BY DEF Init, NoRow
    <3>3. QED
      BY <3>1, <3>2, FS_EmptySet DEF Counted
  <2>2. \A r \in Runner : SlotSpent(r)
    BY DEF Init, SlotSpent, Busy, Idle
  <2>3. QED
    BY <2>1, <2>2, SpentParts
<1>2. QED
  BY <1>1, SpentNext, TypeCorrect, RunCorrect, PTL DEF Spec

\* However late or stale a task is, a job is given up only after more failed
\* performs than its worker allows retries.
THEOREM GivenUpCorrect == Spec => []GivenUpOnlyWhenSpent
<1>1. SpentInv => GivenUpOnlyWhenSpent
  BY DEF SpentInv
<1>2. QED
  BY <1>1, SpentCorrect, PTL

-----------------------------------------------------------------------------
(* The refinement of JobPromises *)

LEMMA PhaseOf ==
    ASSUME TypeOK, NEW i \in Id
    PROVE  /\ rows[i].st \in {"none", "queued", "dead", "gone"}
           /\ Phase[i] = "unqueued" <=> rows[i].st = "none"
           /\ Phase[i] = "live" <=> rows[i].st = "queued"
           /\ Phase[i] = "dead" <=> rows[i].st = "dead"
           /\ Phase[i] = "gone" <=> rows[i].st = "gone"
<1>1. rows[i].st \in {"none", "queued", "dead", "gone"}
  BY DEF TypeOK, Row
<1>2. Phase[i] = IF rows[i].st = "none" THEN "unqueued"
                 ELSE IF rows[i].st = "queued" THEN "live" ELSE rows[i].st
  BY DEF Phase
<1>3. QED
  BY <1>1, <1>2

LEMMA PhaseAfter ==
    ASSUME NEW i \in Id
    PROVE  Phase'[i] = IF rows'[i].st = "none" THEN "unqueued"
                       ELSE IF rows'[i].st = "queued" THEN "live" ELSE rows'[i].st
BY DEF Phase

LEMMA PhaseStutters ==
    ASSUME \A i \in Id : rows'[i].st = rows[i].st
    PROVE  Phase' = Phase
BY DEF Phase

\* The rows of S turn from `from` to `to` and no other row changes its state.
LEMMA PhaseBecomes ==
    ASSUME TypeOK, NEW S \in SUBSET Id, NEW from, NEW to,
           \A i \in S : Phase[i] = from /\ Phase'[i] = to,
           \A i \in Id \ S : rows'[i].st = rows[i].st,
           UNCHANGED <<finished, failures>>
    PROVE  Promise!Become(S, from, to)
<1>1. \A i \in Id \ S : Phase'[i] = Phase[i]
  BY DEF Phase
<1>2. Phase' = [i \in Id |-> Phase'[i]]
  BY DEF Phase
<1>3. Phase' = [i \in Id |-> IF i \in S THEN to ELSE Phase[i]]
  BY <1>1, <1>2
<1>4. QED
  BY <1>3 DEF Promise!Become

Promised == [Promise!Next]_(Promise!promises)

LEMMA Stutters ==
    ASSUME \A i \in Id : rows'[i].st = rows[i].st, UNCHANGED <<finished, failures>>
    PROVE  Promised
BY PhaseStutters DEF Promised, Promise!promises

LEMMA ProducersPromised == ASSUME TypeOK, Producers PROVE Promised
<1>1. ASSUME NEW S \in SUBSET {i \in Id : rows[i].st = "none"}, NEW delay \in Delays,
             InsertPlain(S, delay)
      PROVE  Promised
  <2>1. \A i \in S : rows[i].st = "none" /\ rows'[i].st = "queued"
    BY <1>1 DEF InsertPlain, Inserted
  <2>2. \A i \in Id \ S : rows'[i].st = rows[i].st
    BY <1>1 DEF InsertPlain
  <2>3. UNCHANGED <<finished, failures>>
    BY <1>1 DEF InsertPlain, history
  <2>4. \A i \in S : Phase[i] = "unqueued" /\ Phase'[i] = "live"
    BY <2>1, PhaseOf, PhaseAfter
  <2>5. Promise!Queue(S)
    BY <2>2, <2>3, <2>4, PhaseBecomes DEF Promise!Queue
  <2>6. QED
    BY <2>5 DEF Promised, Promise!Next
<1>2. ASSUME NEW t \in Task, ClearLapsed(t) PROVE Promised
  <2>1. \A i \in Id : rows'[i].st = rows[i].st
    BY <1>2 DEF ClearLapsed, TypeOK, Row
  <2>2. QED
    BY <1>2, <2>1, Stutters DEF ClearLapsed, history
<1>3. ASSUME NEW t \in Task, InsertConflicts(t) PROVE Promised
  BY <1>3, Stutters DEF InsertConflicts, history
<1>4. ASSUME NEW i \in Id, NEW delay \in Delays, InsertUnique(i, delay) PROVE Promised
  <2>1. rows[i].st = "none" /\ rows'[i].st = "queued"
    BY <1>4 DEF InsertUnique, Inserted, TypeOK
  <2>2. \A j \in Id \ {i} : rows'[j].st = rows[j].st
    BY <1>4 DEF InsertUnique, TypeOK
  <2>3. UNCHANGED <<finished, failures>>
    BY <1>4 DEF InsertUnique, history
  <2>4. Phase[i] = "unqueued" /\ Phase'[i] = "live"
    BY <2>1, PhaseOf, PhaseAfter
  <2>5. Promise!Queue({i})
    BY <2>2, <2>3, <2>4, PhaseBecomes DEF Promise!Queue
  <2>6. QED
    BY <2>5 DEF Promised, Promise!Next
<1>5. QED
  BY <1>1, <1>2, <1>3, <1>4 DEF Producers

\* The one step that takes a job out of the queue.
LEMMA RecordPromised ==
    ASSUME TypeOK, RunOK, SpentInv, NEW r \in Runner, Record(r)
    PROVE  Promised
<1> SUFFICES ASSUME NEW i \in Id, i = run[r].job PROVE Promised
  BY RecordStep
<1>1. \A j \in Id \ {i} : rows'[j].st = rows[j].st
  BY RecordStep
<1>2. UNCHANGED <<finished, failures>>
  BY RecordStep
<1>3. Busy(r) /\ run[r].ph \in Writes /\ TaskOf[i] \in Task
  BY RecordStep, ConstantsAssumption
<1>4. rows[i].st \in {"none", "queued", "dead", "gone"} /\ Phase'[i] = IF rows'[i].st = "none"
          THEN "unqueued" ELSE IF rows'[i].st = "queued" THEN "live" ELSE rows'[i].st
  BY PhaseOf, PhaseAfter
<1>5. CASE rows'[i].st = rows[i].st
  BY <1>1, <1>2, <1>5, Stutters
<1>6. CASE Exists(i) /\ run[r].ph = "delete" /\ rows'[i].st = "gone"
  <2>1. CASE rows[i].st = "dead"
    <3>1. Phase[i] = "dead" /\ Phase'[i] = "gone"
      BY <1>4, <1>6, <2>1, PhaseOf
    <3>2. Promise!Forget({i})
      BY <1>1, <1>2, <3>1, PhaseBecomes DEF Promise!Forget
    <3>3. QED
      BY <3>2 DEF Promised, Promise!Next
  <2>2. CASE rows[i].st = "queued"
    <3>1. Phase[i] = "live" /\ Phase'[i] = "gone"
      BY <1>4, <1>6, <2>2, PhaseOf
    <3>2. Promise!Become({i}, "live", "gone")
      BY <1>1, <1>2, <3>1, PhaseBecomes
    <3>3. CASE i \in finished
      BY <3>2, <3>3 DEF Promise!Complete, Promised, Promise!Next
    <3>4. CASE i \notin finished
      <4>1. failures[i] > 0 /\ failures[i] > Retries[TaskOf[i]] /\ ~KeepDead[TaskOf[i]]
        BY <1>6, <3>4 DEF SpentInv
      <4>2. Promise!GiveUp(i)
        BY <3>2, <4>1 DEF Promise!GiveUp, Promise!SpentRetries
      <4>3. QED
        BY <4>2 DEF Promised, Promise!Next
    <3>5. QED
      BY <3>3, <3>4
  <2>3. QED
    BY <1>6, <2>1, <2>2 DEF Exists
<1>7. CASE rows[i].st = "queued" /\ run[r].ph = "bury" /\ rows'[i].st = "dead"
  <2>1. Phase[i] = "live" /\ Phase'[i] = "dead"
    BY <1>4, <1>7, PhaseOf
  <2>2. Promise!Become({i}, "live", "dead")
    BY <1>1, <1>2, <2>1, PhaseBecomes
  <2>3. CASE TaskOf[i] \in Known
    <3>1. KeepDead[TaskOf[i]] /\ Retries[TaskOf[i]] \in Int
          /\ Retries[TaskOf[i]] >= -1 /\ Retries[TaskOf[i]] # -1
      BY <1>3, <1>7, <2>3, ConstantsAssumption DEF RunOK
    <3>2. failures[i] > Retries[TaskOf[i]] /\ failures[i] \in Nat
      BY <1>7, <2>3 DEF SpentInv, GivenUpOnlyWhenSpent, TypeOK
    <3>3. failures[i] > 0
      BY <3>1, <3>2
    <3>4. Promise!Bury(i)
      BY <2>2, <3>1, <3>2, <3>3 DEF Promise!Bury, Promise!SpentRetries
    <3>5. QED
      BY <3>4 DEF Promised, Promise!Next
  <2>4. CASE TaskOf[i] \notin Known
    BY <2>2, <2>4 DEF Promise!Bury, Promised, Promise!Next
  <2>5. QED
    BY <2>3, <2>4
<1>8. QED
  BY <1>5, <1>6, <1>7, RecordedRow DEF Exists

LEMMA TasksPromised ==
    ASSUME TypeOK, RunOK, SpentInv, NEW r \in Runner, Tasks(r)
    PROVE  Promised
<1>1. CASE Record(r)
  BY <1>1, RecordPromised
<1>2. CASE Heartbeats(r)
  <2>1. \A i \in Id : rows'[i].st = rows[i].st
    BY <1>2 DEF Heartbeats, TypeOK, Row
  <2>2. QED
    BY <1>2, <2>1, Stutters DEF Heartbeats, history
<1>3. CASE HookReturns(r) \/ RecordFails(r)
  BY <1>3, Stutters DEF HookReturns, RecordFails, history
<1>4. CASE PerformReturns(r) \/ PerformFails(r)
  <2>1. /\ run[r].job \in Id /\ TaskOf[run[r].job] \in Known
        /\ rows[run[r].job].st # "none"
    BY <1>4, BusyRun DEF PerformReturns, PerformFails, Busy, RunOK
  <2>2. Phase[run[r].job] # "unqueued" /\ Phase' = Phase
    BY <1>4, <2>1, PhaseOf, PhaseStutters DEF PerformReturns, PerformFails
  <2>3. CASE PerformReturns(r)
    <3>1. Promise!PerformOk(run[r].job)
      BY <2>1, <2>2, <2>3 DEF PerformReturns, Promise!PerformOk
    <3>2. QED
      BY <2>1, <3>1 DEF Promised, Promise!Next
  <2>4. CASE PerformFails(r)
    <3>1. Promise!PerformFails(run[r].job)
      BY <2>1, <2>2, <2>4 DEF PerformFails, Promise!PerformFails
    <3>2. QED
      BY <2>1, <3>1 DEF Promised, Promise!Next
  <2>5. QED
    BY <1>4, <2>3, <2>4
<1>5. QED
  BY <1>1, <1>2, <1>3, <1>4 DEF Tasks

LEMMA StepPromised == TypeOK /\ RunOK /\ SpentInv /\ [Next]_vars => Promised
<1> SUFFICES ASSUME TypeOK, RunOK, SpentInv, [Next]_vars PROVE Promised
  OBVIOUS
<1>1. CASE Producers
  BY <1>1, ProducersPromised
<1>2. ASSUME NEW w \in Worker, Claims(w) PROVE Promised
  <2>1. PICK S \in ClaimableSets : Take(w, S)
    BY <1>2 DEF Claims, Claim, ClaimLost
  <2>2. QED
    BY <2>1, TakeRows, Stutters DEF Take
<1>3. ASSUME NEW w \in Worker, Lifecycle(w) PROVE Promised
  <2>1. \A i \in Id : rows'[i] = rows[i] \/ rows'[i] = [rows[i] EXCEPT !.by = None, !.lease = 0]
    BY <1>3 DEF Lifecycle, Start, Stop, Leave, Abort, HandBack, GraceDrop, Crash
  <2>2. ASSUME NEW i \in Id PROVE rows'[i].st = rows[i].st
    <3>1. rows[i] \in Row
      BY DEF TypeOK
    <3>2. [rows[i] EXCEPT !.by = None, !.lease = 0].st = rows[i].st
      BY <3>1 DEF Row
    <3> QED BY <2>1, <3>2
  <2>3. UNCHANGED <<finished, failures>>
    BY <1>3 DEF Lifecycle, Start, Stop, Leave, Abort, HandBack, GraceDrop, Crash, history
  <2>4. QED
    BY <2>2, <2>3, Stutters
<1>4. ASSUME NEW r \in Runner, Tasks(r) PROVE Promised
  BY <1>4, TasksPromised
<1>5. ASSUME NEW S \in SUBSET {i \in Id : rows[i].st = "dead"}, PruneDead(S) PROVE Promised
  <2>1. \A i \in S : rows[i].st = "dead" /\ rows'[i].st = "gone"
    BY <1>5 DEF PruneDead, Deleted, NoRow
  <2>2. \A i \in Id \ S : rows'[i].st = rows[i].st
    BY <1>5 DEF PruneDead
  <2>3. UNCHANGED <<finished, failures>>
    BY <1>5 DEF PruneDead, history
  <2>4. \A i \in S : Phase[i] = "dead" /\ Phase'[i] = "gone"
    BY <2>1, PhaseOf, PhaseAfter
  <2>5. Promise!Forget(S)
    BY <2>2, <2>3, <2>4, PhaseBecomes DEF Promise!Forget
  <2>6. QED
    BY <2>5 DEF Promised, Promise!Next
<1>6. CASE Tick
  <2>1. \A i \in Id : rows'[i].st = rows[i].st
    BY <1>6 DEF Tick, TypeOK, Row
  <2>2. QED
    BY <1>6, <2>1, Stutters DEF Tick, history
<1>7. CASE UNCHANGED vars
  BY <1>7, Stutters DEF vars
<1>8. QED
  BY <1>1, <1>2, <1>3, <1>4, <1>5, <1>6, <1>7 DEF Next

\* Whatever crashes, lapses, late records and slow tasks do, a job leaves the
\* queue only when it was performed or had spent its retries: JobQueue
\* implements JobPromises.
THEOREM PromisesKept == Spec => KeepsPromises
<1>1. Init => Promise!Init
  BY DEF Init, Promise!Init, Phase, NoRow
<1>2. TypeOK /\ RunOK /\ SpentInv /\ [Next]_vars => [Promise!Next]_(Promise!promises)
  BY StepPromised DEF Promised
<1>3. QED
  BY <1>1, <1>2, TypeCorrect, RunCorrect, SpentCorrect, PTL
     DEF Spec, KeepsPromises, Promise!Spec

-----------------------------------------------------------------------------
(* What the promises come to, and what they cost when nothing goes wrong *)

\* A failure once seen stays counted, so retries once spent stay spent.
LEMMA SettledNext ==
    TypeOK /\ Promised /\ Promise!LeavesSettled => Promise!LeavesSettled'
<1> SUFFICES ASSUME TypeOK, Promised, Promise!LeavesSettled, NEW i \in Id
             PROVE  /\ Phase'[i] = "gone" => \/ i \in finished'
                                             \/ Promise!SpentRetries(i)'
                                             \/ TaskOf[i] \notin Known
                    /\ Phase'[i] = "dead" => \/ Promise!SpentRetries(i)' /\ KeepDead[TaskOf[i]]
                                             \/ TaskOf[i] \notin Known
  BY DEF Promise!LeavesSettled
<1>1. /\ Phase[i] = "gone" => i \in finished \/ Promise!SpentRetries(i) \/ TaskOf[i] \notin Known
      /\ Phase[i] = "dead" => \/ Promise!SpentRetries(i) /\ KeepDead[TaskOf[i]]
                              \/ TaskOf[i] \notin Known
  BY DEF Promise!LeavesSettled
<1>2. failures[i] \in Nat /\ Retries[TaskOf[i]] \in Int
  BY ConstantsAssumption DEF TypeOK
<1>3. CASE UNCHANGED Promise!promises
  BY <1>1, <1>3 DEF Promise!promises, Promise!SpentRetries
<1>4. ASSUME NEW S \in SUBSET Id, Promise!Queue(S) \/ Promise!Forget(S)
      PROVE  /\ UNCHANGED <<finished, failures>>
             /\ Phase'[i] = Phase[i] \/ Phase'[i] = "live" \/ (Phase[i] = "dead" /\ Phase'[i] = "gone")
  BY <1>4 DEF Promise!Queue, Promise!Forget, Promise!Become
<1>5. ASSUME NEW j \in Id, Promise!Complete(j) \/ Promise!GiveUp(j) \/ Promise!Bury(j)
      PROVE  /\ UNCHANGED <<finished, failures>>
             /\ \/ Phase'[i] = Phase[i]
                \/ Phase'[i] = "gone" /\ (i \in finished \/ Promise!SpentRetries(i))
                \/ /\ Phase'[i] = "dead"
                   /\ \/ Promise!SpentRetries(i) /\ KeepDead[TaskOf[i]]
                      \/ TaskOf[i] \notin Known
  BY <1>5 DEF Promise!Complete, Promise!GiveUp, Promise!Bury, Promise!Become
<1>6. ASSUME NEW j \in Id, Promise!PerformOk(j) \/ Promise!PerformFails(j)
      PROVE  /\ finished \subseteq finished' /\ Phase' = Phase
             /\ Promise!SpentRetries(i) => Promise!SpentRetries(i)'
  BY <1>2, <1>6 DEF Promise!PerformOk, Promise!PerformFails, Promise!SpentRetries, TypeOK
<1>7. CASE \E S \in SUBSET Id : Promise!Queue(S) \/ Promise!Forget(S)
  BY <1>1, <1>4, <1>7 DEF Promise!SpentRetries
<1>8. CASE \E j \in Id : Promise!Complete(j) \/ Promise!GiveUp(j) \/ Promise!Bury(j)
  BY <1>1, <1>5, <1>8 DEF Promise!SpentRetries
<1>9. CASE \E j \in Id : Promise!PerformOk(j) \/ Promise!PerformFails(j)
  BY <1>1, <1>6, <1>9
<1> QED
  BY <1>3, <1>7, <1>8, <1>9 DEF Promised, Promise!Next

\* A job that has left the queue was performed to its end or had spent its
\* retries, and a dead job had spent them, whatever its tasks, its loops and
\* their statements did meanwhile.
THEOREM SettledCorrect == Spec => []Promise!LeavesSettled
<1>1. Init => Promise!LeavesSettled
  BY DEF Init, Promise!LeavesSettled, Phase, NoRow
<1>2. TypeOK /\ RunOK /\ SpentInv /\ Promise!LeavesSettled /\ [Next]_vars => Promise!LeavesSettled'
  BY StepPromised, SettledNext
<1> QED
  BY <1>1, <1>2, TypeCorrect, RunCorrect, SpentCorrect, PTL DEF Spec

\* What is left of Next where nothing has gone wrong, and nothing had before.
Quiet == \/ Producers \/ Tick \/ UNCHANGED vars
         \/ \E w \in Worker : Start(w) \/ Stop(w) \/ \E S \in ClaimableSets : Claim(w, S)
         \/ \E r \in Runner : \/ Heartbeats(r) \/ PerformReturns(r) \/ PerformFails(r)
                              \/ HookReturns(r) \/ Record(r)
         \/ \E S \in SUBSET {i \in Id : rows[i].st = "dead"} : PruneDead(S)

LEMMA QuietStep ==
    ASSUME TypeOK, [Next]_vars, Undisturbed' PROVE Undisturbed /\ Quiet
<1>0. errors \in Nat
  BY DEF TypeOK
<1>1. ASSUME NEW w \in Worker, Lifecycle(w)
      PROVE  Undisturbed /\ (Start(w) \/ Stop(w))
  <2>1. \A to \in {"handing_back", "gone"} : loop'[w] # to
    BY DEF Undisturbed
  <2>2. loop \in [Worker -> {"off", "up", "stopping", "handing_back", "gone"}]
    BY DEF TypeOK
  <2>3. ~Leave(w) /\ ~Abort(w) /\ ~HandBack(w) /\ ~GraceDrop(w) /\ ~Crash(w)
    BY <2>1, <2>2 DEF Leave, Abort, HandBack, GraceDrop, Crash, SetLoop
  <2>4. loop[w] \in {"off", "up"} /\ \A v \in Worker \ {w} : loop'[v] = loop[v]
    BY <1>1, <2>2, <2>3 DEF Lifecycle, Start, Stop, SetLoop
  <2>5. errors' = errors
    BY <1>1, <2>3 DEF Lifecycle, Start, Stop
  <2> QED
    BY <1>1, <2>3, <2>4, <2>5 DEF Undisturbed, Lifecycle
<1>2. ASSUME NEW w \in Worker, NEW S \in ClaimableSets, Claim(w, S) \/ ClaimLost(w, S)
      PROVE  Undisturbed /\ Claim(w, S)
  <2>1. ~ClaimLost(w, S)
    BY <1>0 DEF ClaimLost, Undisturbed
  <2> QED
    BY <1>2, <2>1 DEF Claim, Take, Undisturbed
<1>3. ASSUME NEW r \in Runner, Tasks(r) PROVE Undisturbed /\ ~RecordFails(r)
  <2>1. ~RecordFails(r)
    BY <1>0 DEF RecordFails, Undisturbed
  <2>2. UNCHANGED <<loop, errors>>
    BY <1>3, <2>1 DEF Tasks, Heartbeats, PerformReturns, PerformFails, HookReturns, Record
  <2> QED
    BY <2>1, <2>2 DEF Undisturbed
<1>4. ASSUME \/ Producers \/ Tick \/ UNCHANGED vars
             \/ \E S \in SUBSET {i \in Id : rows[i].st = "dead"} : PruneDead(S)
      PROVE  Undisturbed
  <2>1. UNCHANGED <<loop, errors>>
    BY <1>4 DEF Producers, InsertPlain, ClearLapsed, InsertUnique, InsertConflicts, Tick,
                PruneDead, vars
  <2> QED
    BY <2>1 DEF Undisturbed
<1>5. CASE \E w \in Worker : Claims(w) \/ Lifecycle(w)
  BY <1>1, <1>2, <1>5 DEF Claims, Quiet
<1>6. CASE \E r \in Runner : Tasks(r)
  BY <1>3, <1>6 DEF Tasks, Quiet
<1> QED
  BY <1>4, <1>5, <1>6 DEF Next, Quiet

Past == Working \ {"performing"}

\* A slot that is busy with row i goes on with it, and no further back.
Onward(i) == \A r \in Runner : Busy(r) /\ run[r].job = i =>
    /\ Busy(r)' /\ run'[r].job = i
    /\ run[r].ph \in Past => run'[r].ph \in Past
    /\ run[r].ph = "delete" => run'[r].ph = "delete"

\* A step that does not concern row i.
LEMMA SettlesStill ==
    ASSUME TypeOK, NEW i \in Id, Settles(i), Onward(i),
           rows'[i].st = rows[i].st, rows'[i].attempts = rows[i].attempts,
           rows'[i].by = rows[i].by \/ rows'[i].by = None,
           failures'[i] = failures[i], i \in finished' => i \in finished
    PROVE  Settles(i)'
<1>1. \A ph \in Working : ph # "idle"
  BY DEF Working
<1>2. rows'[i].by # None => \E r \in Runner : Busy(r)' /\ run'[r].job = i
  BY DEF Settles, Onward
<1>3. i \in finished' => \/ rows'[i].st = "gone"
                         \/ \E r \in Runner : run'[r].job = i /\ run'[r].ph = "delete"
  BY DEF Settles, Onward, Busy
<1>4. (\E r \in Runner : run[r].job = i /\ run[r].ph \in Past)
      => \E r \in Runner : run'[r].job = i /\ run'[r].ph \in Past
  BY <1>1 DEF Onward, Busy, Past
<1> QED
  BY <1>2, <1>3, <1>4 DEF Settles, Past

\* What a row whose slot is r has to show of its own.
LEMMA OnlySlot ==
    ASSUME TypeOK, Prompts, NEW r \in Runner, Busy(r), NEW i \in Id, i = run[r].job
    PROVE  /\ rows[i].st = "queued" /\ Exists(i) /\ rows[i].attempts \in Nat
           /\ \A q \in Runner : run[q].job = i => q = r
<1>1. \A q \in Runner : run[q].job = i => Busy(q)
  BY FreeRun, ConstantsAssumption DEF Idle
<1> QED
  BY <1>1 DEF Prompts, LeaseHeld, Distinct, Exists, TypeOK, Row

LEMMA IdleRow ==
    ASSUME TypeOK, Prompts, NEW i \in Id, rows[i].st # "queued", NEW r \in Runner
    PROVE  run[r].job # i
BY BusyRun, FreeRun, ConstantsAssumption DEF Prompts, LeaseHeld, Idle

LEMMA SettlesInsert ==
    ASSUME TypeOK, Prompts, Producers, NEW i \in Id, Settles(i) PROVE Settles(i)'
<1>0. UNCHANGED <<run, finished, failures>>
  BY DEF Producers, InsertPlain, ClearLapsed, InsertUnique, InsertConflicts, history
<1>1. \/ /\ rows'[i].st = rows[i].st /\ rows'[i].attempts = rows[i].attempts
         /\ rows'[i].by = rows[i].by
      \/ /\ rows[i].st = "none" /\ rows'[i].st = "queued"
         /\ rows'[i].attempts = 0 /\ rows'[i].by = None
  <2>1. ASSUME NEW S \in SUBSET {j \in Id : rows[j].st = "none"}, NEW delay \in Delays,
               InsertPlain(S, delay)
        PROVE  rows'[i] = rows[i] \/ (rows[i].st = "none" /\ rows'[i] = Inserted(TaskOf[i], delay))
    BY <2>1 DEF InsertPlain
  <2>2. ASSUME NEW t \in Task, ClearLapsed(t)
        PROVE  /\ rows'[i].st = rows[i].st /\ rows'[i].attempts = rows[i].attempts
               /\ rows'[i].by = rows[i].by
    BY <2>2 DEF ClearLapsed, TypeOK, Row
  <2>3. ASSUME NEW j \in Id, NEW delay \in Delays, InsertUnique(j, delay)
        PROVE  rows'[i] = rows[i] \/ (rows[i].st = "none" /\ rows'[i] = Inserted(TaskOf[i], delay))
    BY <2>3 DEF InsertUnique, TypeOK
  <2>4. ASSUME NEW t \in Task, InsertConflicts(t) PROVE rows' = rows
    BY <2>4 DEF InsertConflicts
  <2>5. ASSUME NEW delay \in Delays
        PROVE  /\ Inserted(TaskOf[i], delay).st = "queued"
               /\ Inserted(TaskOf[i], delay).attempts = 0
               /\ Inserted(TaskOf[i], delay).by = None
    BY DEF Inserted
  <2> QED
    BY <2>1, <2>2, <2>3, <2>4, <2>5 DEF Producers
<1>2. CASE /\ rows'[i].st = rows[i].st /\ rows'[i].attempts = rows[i].attempts
           /\ rows'[i].by = rows[i].by
  <2>1. Onward(i)
    BY <1>0 DEF Onward, Busy
  <2> QED
    BY <1>0, <1>2, <2>1, SettlesStill
<1>3. CASE /\ rows[i].st = "none" /\ rows'[i].st = "queued"
           /\ rows'[i].attempts = 0 /\ rows'[i].by = None
  <2>1. \A r \in Runner : run[r].job # i
    BY <1>3, IdleRow
  <2>2. i \notin finished /\ failures[i] = 0
    BY <1>3, <2>1 DEF Settles
  <2> QED
    BY <1>0, <1>3, <2>2 DEF Settles
<1> QED
  BY <1>1, <1>2, <1>3

LEMMA SettlesClaim ==
    ASSUME TypeOK, Prompts, NEW w \in Worker, NEW S \in ClaimableSets, Claim(w, S),
           NEW i \in Id, Settles(i)
    PROVE  Settles(i)'
<1>0. Take(w, S) /\ UNCHANGED <<finished, failures>>
  BY DEF Claim, Take
<1>1. PICK R \in SUBSET Slots(w) : \E g \in [R -> S] : Spawn(R, g, S)
  BY DEF Claim
<1>2. PICK g \in [R -> S] : Spawn(R, g, S)
  BY <1>1
<1>3. /\ \A r \in R : r \in Runner /\ ~Busy(r)
      /\ \A r \in Runner \ R : run'[r] = run[r]
  BY <1>1, <1>2 DEF Spawn, Slots
<1>4. rows'[i].st = rows[i].st /\ rows'[i].attempts = rows[i].attempts
  BY <1>0, TakeRows
<1>5. CASE i \notin S
  <2>1. rows'[i] = rows[i]
    BY <1>0, <1>5, TakeRows
  <2>2. Onward(i)
    BY <1>3 DEF Onward, Busy
  <2> QED
    BY <1>0, <2>1, <2>2, SettlesStill
<1>6. CASE i \in S
  <2>1. rows[i].st = "queued" /\ Claimable(i)
    BY <1>0, <1>6, TakeRows
  <2>2. \A r \in Runner : run[r].job # i
    BY <2>1, ClaimableIdle, FreeRun, ConstantsAssumption DEF Idle
  <2>3. i \notin finished
    BY <2>1, <2>2 DEF Settles
  <2>4. TaskOf[i] \in Known => failures[i] <= rows[i].attempts
    BY <2>1, <2>2 DEF Settles
  <2>5. PICK r \in R : g[r] = i
    BY <1>2, <1>6 DEF Spawn
  <2>6. Busy(r)' /\ run'[r].job = i
    <3>1. r \in Runner /\ run'[r] = Started(i)
      BY <1>2, <1>3, <2>5 DEF Spawn
    <3> QED
      BY <3>1, StartedFields DEF Busy
  <2>7. r \in Runner
    BY <1>3
  <2> QED
    BY <1>0, <1>4, <2>1, <2>3, <2>4, <2>6, <2>7 DEF Settles
<1> QED
  BY <1>5, <1>6

LEMMA SettlesPerform ==
    ASSUME TypeOK, Prompts, NEW r \in Runner,
           PerformReturns(r) \/ PerformFails(r) \/ HookReturns(r), NEW i \in Id, Settles(i)
    PROVE  Settles(i)'
<1> DEFINE ph == run'[r].ph
<1>0. /\ Busy(r) /\ UNCHANGED rows /\ run[r].ph \in {"performing", "exhausted"}
      /\ run'[r].job = run[r].job /\ ph \in Past /\ \A q \in Runner \ {r} : run'[q] = run[q]
  <2>1. /\ Advances(r) /\ Busy(r) /\ UNCHANGED rows /\ run[r].ph \in {"performing", "exhausted"}
        /\ \A q \in Runner \ {r} : run'[q] = run[q]
    BY Advancing DEF PerformReturns, PerformFails, HookReturns, Busy
  <2>2. AfterFailure(run[r].job, run[r].count) \in Past
    BY DEF AfterFailure, Past, Working
  <2> QED
    BY <2>1, <2>2 DEF Advances, MovesOn, Past, Working
<1>1. Onward(i)
  <2>1. Past \subseteq Working /\ "idle" \notin Past
    BY DEF Past, Working
  <2> QED
    BY <1>0, <2>1 DEF Onward, Busy
<1>2. CASE i # run[r].job \/ HookReturns(r)
  <2>1. failures'[i] = failures[i] /\ (i \in finished' => i \in finished)
    BY <1>2 DEF PerformReturns, PerformFails, HookReturns, TypeOK, history
  <2> QED
    BY <1>0, <1>1, <2>1, SettlesStill
<1>3. CASE i = run[r].job /\ ~HookReturns(r)
  <2>1. rows[i].st = "queued" /\ rows[i].attempts \in Nat /\ \A q \in Runner : run[q].job = i => q = r
    BY <1>0, <1>3, OnlySlot
  <2>2. run[r].ph = "performing"
    BY <1>3 DEF PerformReturns, PerformFails
  <2>3. i \notin finished /\ (TaskOf[i] \in Known => failures[i] <= rows[i].attempts)
    BY <2>1, <2>2 DEF Settles
  <2>4. failures[i] \in Nat /\ Busy(r)'
    BY <1>0 DEF TypeOK, Busy, Past, Working
  <2>5. CASE PerformReturns(r)
    <3>1. failures' = failures /\ ph = "delete"
      BY <1>0, <2>5, BusyRun DEF PerformReturns, Enter, TypeOK
    <3> QED
      BY <1>0, <1>3, <2>1, <2>3, <2>4, <3>1 DEF Settles, Past
  <2>6. CASE PerformFails(r)
    <3>1. failures'[i] = failures[i] + 1 /\ finished' = finished
      BY <1>3, <2>6 DEF PerformFails, TypeOK
    <3>2. TaskOf[i] \in Known => failures'[i] <= rows'[i].attempts + 1
      BY <1>0, <2>1, <2>3, <2>4, <3>1
    <3> QED
      BY <1>0, <1>3, <2>1, <2>3, <2>4, <3>1, <3>2 DEF Settles, Past
  <2> QED
    BY <1>3, <2>5, <2>6
<1> QED
  BY <1>2, <1>3

\* Attempts, tries and the two ways a failed job leaves.
LEMMA TriesEnough ==
    ASSUME TypeOK, Prompts, NEW i \in Id, TaskOf[i] \in Known
    PROVE  /\ rows[i].attempts \in Nat /\ rows[i].attempts <= Tries(TaskOf[i])
           /\ rows[i].st = "queued" => rows[i].attempts + 1 <= Tries(TaskOf[i])
<1>1. rows[i].attempts \in Nat
  BY DEF TypeOK, Row
<1>2. Retries[TaskOf[i]] \in Int /\ Retries[TaskOf[i]] >= -1
  BY ConstantsAssumption
<1> QED
  BY <1>1, <1>2 DEF Prompts, AttemptsOK, Tries

LEMMA SettlesRecord ==
    ASSUME TypeOK, Prompts, NEW r \in Runner, Record(r), NEW i \in Id, Settles(i)
    PROVE  Settles(i)'
<1>0. /\ Busy(r) /\ run[r].job \in Id /\ run[r].ph \in Writes
      /\ run'[r] = Idle /\ \A q \in Runner \ {r} : run'[q] = run[q]
      /\ \A j \in Id \ {run[r].job} : rows'[j] = rows[j]
      /\ finished' = finished /\ failures' = failures
  BY RecordStep
<1>1. CASE i # run[r].job
  <2>1. Onward(i)
    BY <1>0, <1>1 DEF Onward, Busy
  <2> QED
    BY <1>0, <1>1, <2>1, SettlesStill
<1>2. CASE i = run[r].job
  <2>1. /\ rows[i].st = "queued" /\ Exists(i) /\ rows[i].attempts \in Nat
        /\ \A q \in Runner : run[q].job = i => q = r
    BY <1>0, <1>2, OnlySlot
  <2>2. rows'[i].by = None
    <3>1. PICK delay \in RetryDelays : rows'[i] = Written(r, delay)
      BY <1>0, <1>2 DEF Record, TypeOK
    <3>2. rows[i] \in Row
      BY DEF TypeOK
    <3>3. /\ Deleted.by = None /\ Retried(i, delay).by = None /\ Buried(i).by = None
      BY <3>2 DEF Deleted, NoRow, Retried, Buried, Row
    <3> QED
      BY <1>0, <1>2, <2>1, <3>1, <3>3 DEF Written, Writes
  <2>3. TaskOf[i] \in Known => failures[i] <= rows[i].attempts + 1
    BY <2>1 DEF Settles, TypeOK
  <2>4. TaskOf[i] \in Known => rows[i].attempts + 1 <= Tries(TaskOf[i])
    BY <2>1, TriesEnough
  <2>5. CASE run[r].ph = "delete" /\ rows'[i].st = "gone"
    <3>1. TaskOf[i] \in Known => failures[i] <= Tries(TaskOf[i])
      <4>1. failures[i] \in Nat /\ Tries(TaskOf[i]) \in Int
        BY ConstantsAssumption DEF TypeOK, Tries
      <4> QED
        BY <2>1, <2>3, <2>4, <4>1
    <3> QED
      BY <1>0, <2>2, <2>5, <3>1 DEF Settles
  <2>6. CASE /\ run[r].ph \in {"retry", "bury"} /\ rows'[i].st \in {"queued", "dead"}
             /\ rows'[i].attempts = rows[i].attempts + 1
    <3>1. i \notin finished
      BY <2>1, <2>6 DEF Settles
    <3> QED
      BY <1>0, <2>2, <2>3, <2>6, <3>1 DEF Settles
  <2> QED
    BY <1>2, <2>1, <2>5, <2>6, RecordedRow
<1> QED
  BY <1>1, <1>2

LEMMA SettlesPrune ==
    ASSUME TypeOK, Prompts, NEW S \in SUBSET {j \in Id : rows[j].st = "dead"}, PruneDead(S),
           NEW i \in Id, Settles(i)
    PROVE  Settles(i)'
<1>0. UNCHANGED <<run, finished, failures>>
  BY DEF PruneDead, history
<1>1. CASE i \notin S
  <2>1. rows'[i] = rows[i] /\ Onward(i)
    BY <1>0, <1>1 DEF PruneDead, Onward, Busy
  <2> QED
    BY <1>0, <2>1, SettlesStill
<1>2. CASE i \in S
  <2>1. rows[i].st = "dead" /\ \A r \in Runner : run[r].job # i
    BY <1>2, IdleRow
  <2>2. rows'[i].st = "gone" /\ rows'[i].by = None
    BY <1>2 DEF PruneDead, Deleted, NoRow
  <2>3. TaskOf[i] \in Known => failures[i] <= Tries(TaskOf[i])
    <3>1. failures[i] \in Nat /\ Tries(TaskOf[i]) \in Int
      BY ConstantsAssumption DEF TypeOK, Tries
    <3>2. TaskOf[i] \in Known => failures[i] <= rows[i].attempts
      BY <2>1 DEF Settles
    <3> QED
      BY <3>1, <3>2, TriesEnough
  <2> QED
    BY <1>0, <2>2, <2>3 DEF Settles
<1> QED
  BY <1>1, <1>2

\* Time passes, or a lease is renewed.
LEMMA SettlesTime ==
    ASSUME TypeOK, Prompts, NEW i \in Id, Settles(i),
           Tick \/ \E r \in Runner : Heartbeats(r)
    PROVE  Settles(i)'
<1>1. UNCHANGED <<finished, failures>>
  BY DEF Tick, Heartbeats, history
<1>2. rows'[i].st = rows[i].st /\ rows'[i].attempts = rows[i].attempts /\ rows'[i].by = rows[i].by
  <2>1. rows[i] \in Row
    BY DEF TypeOK
  <2>2. CASE Tick
    BY <2>1, <2>2 DEF Tick, Row
  <2>3. ASSUME NEW r \in Runner, Heartbeats(r)
        PROVE  /\ rows'[i].st = rows[i].st /\ rows'[i].attempts = rows[i].attempts
               /\ rows'[i].by = rows[i].by
    BY <2>1, <2>3 DEF Heartbeats, TypeOK, Row
  <2> QED
    BY <2>2, <2>3
<1>3. Onward(i)
  <2>1. ASSUME NEW q \in Runner, Busy(q)
        PROVE  run'[q].job = run[q].job /\ run'[q].ph = run[q].ph
    <3>1. run[q] \in [job : Id, ph : Working, count : Nat, left : Nat]
      BY <2>1, BusyRun
    <3>2. CASE Tick
      BY <3>1, <3>2 DEF Tick
    <3>3. ASSUME NEW r \in Runner, Heartbeats(r)
          PROVE  run'[q].job = run[q].job /\ run'[q].ph = run[q].ph
      BY <3>1, <3>3 DEF Heartbeats, TypeOK
    <3> QED
      BY <3>2, <3>3
  <2> QED
    BY <2>1 DEF Onward, Busy
<1> QED
  BY <1>1, <1>2, <1>3, SettlesStill

LEMMA UndisturbedNext ==
    TypeOK /\ PromptInv /\ UndisturbedInv /\ [Next]_vars => UndisturbedInv'
<1> SUFFICES ASSUME TypeOK, PromptInv, UndisturbedInv, [Next]_vars, Undisturbed', NEW i \in Id
             PROVE  Settles(i)'
  BY DEF UndisturbedInv
<1>1. Undisturbed /\ Quiet
  BY QuietStep
<1>2. Prompts /\ Settles(i)
  BY <1>1 DEF UndisturbedInv, Undisturbed, PromptInv, Prompts
<1>3. ASSUME UNCHANGED <<rows, run, finished, failures>> PROVE Settles(i)'
  BY <1>2, <1>3 DEF Settles, Busy
<1>4. CASE UNCHANGED vars \/ \E w \in Worker : Start(w) \/ Stop(w)
  BY <1>3, <1>4 DEF vars, Start, Stop, history
<1> QED
  BY <1>1, <1>2, <1>4, SettlesInsert, SettlesClaim, SettlesPerform, SettlesRecord,
     SettlesPrune, SettlesTime DEF Quiet

\* The inductive invariant of undisturbed processes: a claimed row is executed,
\* a finished one is at its DELETE, and the failures are the row's attempts and
\* at most the one its slot has still to record.
THEOREM UndisturbedCorrect == Spec => []UndisturbedInv
<1>1. Init => UndisturbedInv
  BY DEF Init, UndisturbedInv, Settles, NoRow
<1> QED
  BY <1>1, UndisturbedNext, TypeCorrect, PromptCorrect, PTL DEF Spec

\* Undisturbed, a job is performed to its end once, or fails exactly as often as
\* its worker allows, and no row waits for a lease to lapse.
THEOREM OnceCorrect == Spec => []OnceUndisturbed
<1>1. TypeOK /\ PromptInv /\ UndisturbedInv /\ Promise!LeavesSettled => OnceUndisturbed
  <2> SUFFICES ASSUME TypeOK, PromptInv, UndisturbedInv, Promise!LeavesSettled, Undisturbed,
                      NEW i \in Id
               PROVE  /\ rows[i].by # None => \E r \in Runner : Busy(r) /\ run[r].job = i
                      /\ i \in finished => \A r \in Runner : run[r].job = i => run[r].ph = "delete"
                      /\ TaskOf[i] \in Known =>
                            /\ failures[i] <= Tries(TaskOf[i])
                            /\ rows[i].st = "dead" =>
                                  i \notin finished /\ failures[i] = Tries(TaskOf[i])
                            /\ rows[i].st = "gone" =>
                                  i \in finished \/ failures[i] = Tries(TaskOf[i])
    BY DEF OnceUndisturbed
  <2>1. Prompts /\ Settles(i)
    BY DEF UndisturbedInv, Undisturbed, PromptInv, Prompts
  <2>2. i \in finished => \A r \in Runner : run[r].job = i => run[r].ph = "delete"
    BY <2>1, OnlySlot, FreeRun, IdleRow, BusyRun, ConstantsAssumption DEF Settles, Busy, Idle
  <2>3. ASSUME TaskOf[i] \in Known
        PROVE  /\ failures[i] <= Tries(TaskOf[i])
               /\ rows[i].st = "dead" => i \notin finished /\ failures[i] = Tries(TaskOf[i])
               /\ rows[i].st = "gone" => i \in finished \/ failures[i] = Tries(TaskOf[i])
    <3>1. /\ Tries(TaskOf[i]) \in Int /\ failures[i] \in Nat /\ Tries(TaskOf[i]) >= 1
          /\ Promise!SpentRetries(i) => failures[i] >= Tries(TaskOf[i])
      BY ConstantsAssumption DEF TypeOK, Tries, Promise!SpentRetries
    <3>2. /\ rows[i].attempts \in Nat /\ rows[i].attempts <= Tries(TaskOf[i])
          /\ rows[i].st = "queued" => rows[i].attempts + 1 <= Tries(TaskOf[i])
      BY <2>1, <2>3, TriesEnough
    <3>3. rows[i].st # "queued" => \A r \in Runner : run[r].job # i
      BY <2>1, IdleRow
    <3>4. failures[i] <= Tries(TaskOf[i])
      <4>1. rows[i].st \in {"none", "queued", "dead", "gone"}
        BY PhaseOf
      <4>2. CASE rows[i].st = "none" \/ rows[i].st = "gone"
        BY <2>1, <2>3, <3>1, <4>2 DEF Settles
      <4>3. CASE rows[i].st = "queued"
        BY <2>1, <2>3, <3>1, <3>2, <4>3 DEF Settles
      <4>4. CASE rows[i].st = "dead"
        BY <2>1, <2>3, <3>1, <3>2, <3>3, <4>4 DEF Settles
      <4> QED
        BY <4>1, <4>2, <4>3, <4>4
    <3>5. /\ rows[i].st = "dead" => Promise!SpentRetries(i)
          /\ rows[i].st = "gone" => i \in finished \/ Promise!SpentRetries(i)
      BY <2>3, PhaseOf DEF Promise!LeavesSettled
    <3>6. rows[i].st = "dead" => i \notin finished
      BY <2>1, <3>3 DEF Settles
    <3> QED
      BY <3>1, <3>4, <3>5, <3>6
  <2> QED
    BY <2>1, <2>2, <2>3 DEF Settles
<1> QED
  BY <1>1, TypeCorrect, PromptCorrect, UndisturbedCorrect, SettledCorrect, PTL

\* Prompt tasks count no failure too many, whatever becomes of their loops; and
\* undisturbed a job that is given up has failed exactly as often as it may.
THEOREM AttemptsCorrect == Spec => []AttemptsBounded
<1>1. /\ Prompt = Working => \A i \in Id :
            TaskOf[i] \in Known => rows[i].attempts <= Retries[TaskOf[i]] + 1
      /\ OnceUndisturbed
      => AttemptsBounded
  BY DEF AttemptsBounded
<1>2. QED
  BY <1>1, CountedCorrect, OnceCorrect, PTL
=============================================================================
