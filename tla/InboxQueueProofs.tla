-------------------------- MODULE InboxQueueProofs --------------------------
(***************************************************************************)
(* Theorems about InboxQueue, for every value of its constants: its types, *)
(* that it is a queue as JobPromises has them, and that until the first    *)
(* fault it performs nothing twice.                                        *)
(***************************************************************************)
EXTENDS InboxQueue, TLAPS

\* Attempts are failures that have happened: those a row counts, those a task took
\* over from it, and the one it is about to count.  A task has a row.
RowCounts == \A i \in Id : rows[i].attempts <= failures[i]
TaskCounts == \A w \in Loop, i \in Id : ~At(w, i, "none") =>
                  /\ rows[i].st # "none"
                  /\ task[w][i].count <= failures[i]
                  /\ At(w, i, "err") => task[w][i].count + 1 <= failures[i]
                  /\ At(w, i, "ok") => i \in finished

Inv == TypeOK /\ RowCounts /\ TaskCounts

-----------------------------------------------------------------------------
(* Types *)

LEMMA InitType == Init => TypeOK
  BY QueueAssumption DEF Init, TypeOK, Row, NoRow, Task, NoTask

LEMMA ClaimType == ASSUME TypeOK, NEW w \in Loop, NEW S \in SUBSET Id, Claim(w, S)
                   PROVE  TypeOK'
<1>1. rows' \in [Id -> Row]
  BY DEF TypeOK, Claim, Row
<1>2. \A i \in Id : [ph |-> "waiting", count |-> rows[i].attempts] \in Task
  BY DEF TypeOK, Row, Task
<1>3. NoTask \in Task
  BY DEF Task, NoTask
<1>4. task' \in [Loop -> [Id -> Task]]
  BY <1>2, <1>3 DEF TypeOK, Claim
<1> QED BY <1>1, <1>4 DEF TypeOK, Claim

LEMMA EnterType ==
    ASSUME task \in [Loop -> [Id -> Task]], NEW w \in Loop, NEW i \in Id,
           NEW from \in {"none", "waiting", "working", "ok", "err"},
           NEW to \in {"none", "waiting", "working", "ok", "err"}, Enter(w, i, from, to)
    PROVE  task' \in [Loop -> [Id -> Task]]
<1>1. [task[w][i] EXCEPT !.ph = to] \in Task
  BY DEF Task
<1>2. task' = [task EXCEPT ![w] = [task[w] EXCEPT ![i] = [task[w][i] EXCEPT !.ph = to]]]
  BY DEF Enter
<1> QED BY <1>1, <1>2

LEMMA FailedType ==
    ASSUME TypeOK, NEW i \in Id, NEW next \in Nat
    PROVE  Failed(i, next) \in Row
  BY DEF TypeOK, Failed, Row

LEMMA RecordType == ASSUME TypeOK, NEW w \in Loop, NEW i \in Id, Record(w, i)
                    PROVE  TypeOK'
<1>1. task[w][i].count + 1 \in Nat
  BY DEF TypeOK, Task
<1>2. Gone \in Row
  BY DEF Gone, NoRow, Row
<1>3. rows' \in [Id -> Row]
  BY <1>1, <1>2, FailedType DEF TypeOK, Record
<1>4. task' \in [Loop -> [Id -> Task]]
  BY DEF TypeOK, Record, Task, NoTask
<1> QED BY <1>3, <1>4 DEF TypeOK, Record

LEMMA FaultType == ASSUME TypeOK, Fault PROVE faults' \in 0..MaxFaults
  BY QueueAssumption DEF TypeOK, Fault

LEMMA RowsType == ASSUME TypeOK, Rows PROVE TypeOK'
<1>1. CASE \E i \in Id : Enqueue(i)
  BY <1>1 DEF Enqueue, TypeOK, Row
<1>2. CASE \E i \in Id : LeaseEnds(i)
  BY <1>2 DEF LeaseEnds, Lapse, TypeOK, Row
<1>3. CASE \E i \in Id : Overrun(i)
  BY <1>3, FaultType DEF Overrun, Lapse, TypeOK, Row
<1>4. CASE \E S \in SUBSET Id : Cleanup(S)
  BY <1>4 DEF Cleanup, Gone, NoRow, TypeOK, Row
<1>5. CASE \E S \in SUBSET Id, w \in Loop : Claim(w, S)
  BY <1>5, ClaimType
<1>6. CASE \E w \in Loop, i \in Id : Record(w, i)
  BY <1>6, RecordType
<1>7. CASE \E w \in Loop, i \in Id : RecordLost(w, i)
  BY <1>7, FaultType DEF RecordLost, TypeOK, Task, NoTask
<1> QED BY <1>1, <1>2, <1>3, <1>4, <1>5, <1>6, <1>7 DEF Rows

LEMMA NextType == ASSUME TypeOK, [Next]_queue PROVE TypeOK'
<1>1. CASE Rows
  BY <1>1, RowsType
<1>2. CASE \E w \in Loop, i \in Id : Begin(w, i)
  BY <1>2, EnterType DEF Begin, TypeOK
<1>3. CASE \E w \in Loop, i \in Id : PerformOk(w, i)
  <2>1. PICK w \in Loop, i \in Id : PerformOk(w, i)
    BY <1>3
  <2>2. task' \in [Loop -> [Id -> Task]]
    BY <2>1, EnterType DEF PerformOk, TypeOK
  <2> QED BY <2>1, <2>2 DEF PerformOk, TypeOK
<1>4. CASE \E w \in Loop, i \in Id : PerformFails(w, i)
  <2>1. PICK w \in Loop, i \in Id : PerformFails(w, i)
    BY <1>4
  <2>2. task' \in [Loop -> [Id -> Task]]
    BY <2>1, EnterType DEF PerformFails, TypeOK
  <2> QED BY <2>1, <2>2 DEF PerformFails, TypeOK
<1>5. CASE \E w \in Loop : Drop(w)
  BY <1>5, FaultType DEF Drop, TypeOK, Task, NoTask
<1>6. CASE Misfortune
  BY <1>6, FaultType DEF Misfortune, TypeOK
<1>7. CASE UNCHANGED queue
  BY <1>7 DEF queue, TypeOK
<1> QED BY <1>1, <1>2, <1>3, <1>4, <1>5, <1>6, <1>7 DEF Next

\* The variables have their types: whoever drops a batch, loses a record or
\* overruns a lease (run_inbox_queue).
THEOREM QueueTypeCorrect == Spec => []TypeOK
<1>1. Init => TypeOK
  BY InitType
<1>2. TypeOK /\ [Next]_queue => TypeOK'
  BY NextType
<1> QED BY <1>1, <1>2, PTL DEF Spec

-----------------------------------------------------------------------------
(* Counts *)

LEMMA InitCounts == Init => RowCounts /\ TaskCounts
  BY DEF Init, RowCounts, TaskCounts, At, NoRow, NoTask

LEMMA ClaimCounts == ASSUME Inv, NEW w \in Loop, NEW S \in SUBSET Id, Claim(w, S)
                     PROVE  RowCounts' /\ TaskCounts'
<1>1. \A i \in Id : rows'[i].attempts = rows[i].attempts /\ rows'[i].st = rows[i].st
  BY DEF Inv, TypeOK, Row, Claim
<1>2. RowCounts'
  BY <1>1 DEF Inv, RowCounts, Claim
<1>3. ASSUME NEW v \in Loop, NEW i \in Id, ~At(v, i, "none")'
      PROVE  /\ rows'[i].st # "none"
             /\ task'[v][i].count <= failures'[i]
             /\ At(v, i, "err")' => task'[v][i].count + 1 <= failures'[i]
             /\ At(v, i, "ok")' => i \in finished'
  <2>1. CASE v # w
    <3>1. task'[v] = task[v]
      BY <2>1 DEF Inv, TypeOK, Claim
    <3> QED BY <3>1, <1>3, <1>1 DEF Inv, TaskCounts, At, Claim
  <2>2. CASE v = w /\ i \in S
    <3>1. task'[v][i] = [ph |-> "waiting", count |-> rows[i].attempts]
      BY <2>2 DEF Inv, TypeOK, Claim
    <3>2. rows[i].st = "queued"
      BY <2>2 DEF Claim, Claimable
    <3> QED BY <3>1, <3>2, <1>1 DEF Inv, RowCounts, At, Claim
  <2>3. CASE v = w /\ i \notin S
    <3>1. task'[v][i] = NoTask
      BY <2>3 DEF Inv, TypeOK, Claim
    <3> QED BY <3>1, <1>3 DEF At, NoTask
  <2> QED BY <2>1, <2>2, <2>3
<1> QED BY <1>2, <1>3 DEF TaskCounts

\* A step that moves one task from `from` to `to` and adds what it must.
LEMMA EnterCounts ==
    ASSUME Inv, NEW w \in Loop, NEW i \in Id,
           NEW from \in {"waiting", "working"}, NEW to \in {"working", "ok", "err"},
           Enter(w, i, from, to), rows' = rows,
           finished' \in SUBSET Id, finished \subseteq finished', failures' \in [Id -> Nat],
           \A k \in Id : failures[k] <= failures'[k],
           to = "ok" => i \in finished',
           to = "err" => failures[i] + 1 <= failures'[i]
    PROVE  RowCounts' /\ TaskCounts'
<1>1. task'[w][i] = [task[w][i] EXCEPT !.ph = to]
  BY DEF Inv, TypeOK, Enter
<1>2. task[w][i] \in Task /\ rows[i] \in Row /\ failures[i] \in Nat /\ failures'[i] \in Nat
  BY DEF Inv, TypeOK
<1>3. task'[w][i].ph = to /\ task'[w][i].count = task[w][i].count
  BY <1>1, <1>2 DEF Task
<1>4. ~At(w, i, "none")
  BY DEF Enter, At
<1>5. rows[i].st # "none" /\ task[w][i].count <= failures[i]
  BY <1>4 DEF Inv, TaskCounts
<1>6. RowCounts'
  <2>1. ASSUME NEW k \in Id PROVE rows[k].attempts <= failures'[k]
    <3>1. rows[k].attempts \in Nat /\ failures[k] \in Nat /\ failures'[k] \in Nat
      BY DEF Inv, TypeOK, Row
    <3> QED BY <3>1 DEF Inv, RowCounts
  <2> QED BY <2>1 DEF RowCounts
<1>7. ASSUME NEW v \in Loop, NEW k \in Id, ~At(v, k, "none")'
      PROVE  /\ rows'[k].st # "none"
             /\ task'[v][k].count <= failures'[k]
             /\ At(v, k, "err")' => task'[v][k].count + 1 <= failures'[k]
             /\ At(v, k, "ok")' => k \in finished'
  <2>1. CASE v = w /\ k = i
    <3>1. task[w][i].count \in Nat
      BY <1>2 DEF Task
    <3> QED BY <2>1, <1>2, <1>3, <1>5, <3>1 DEF At
  <2>2. CASE ~(v = w /\ k = i)
    <3>1. task'[v][k] = task[v][k]
      BY <2>2 DEF Inv, TypeOK, Enter
    <3>2. task[v][k].count \in Nat /\ failures[k] \in Nat /\ failures'[k] \in Nat
      BY DEF Inv, TypeOK, Task
    <3>3. ~At(v, k, "none")
      BY <3>1, <1>7 DEF At
    <3>4. /\ rows[k].st # "none"
          /\ task[v][k].count <= failures[k]
          /\ At(v, k, "err") => task[v][k].count + 1 <= failures[k]
          /\ At(v, k, "ok") => k \in finished
      BY <3>3 DEF Inv, TaskCounts
    <3> QED BY <3>1, <3>2, <3>4 DEF At
  <2> QED BY <2>1, <2>2
<1> QED BY <1>6, <1>7 DEF TaskCounts

\* A step that ends tasks, and changes rows without ever unmaking one or counting
\* a failure that has not happened.
LEMMA EndCounts ==
    ASSUME Inv, rows' \in [Id -> Row], UNCHANGED <<finished, failures>>,
           \A i \in Id : rows[i].st # "none" => rows'[i].st # "none",
           \A i \in Id : rows'[i].attempts <= failures[i],
           \A v \in Loop, i \in Id : task'[v][i] \in {task[v][i], NoTask}
    PROVE  RowCounts' /\ TaskCounts'
<1>1. RowCounts'
  BY DEF RowCounts
<1>2. ASSUME NEW v \in Loop, NEW k \in Id, ~At(v, k, "none")'
      PROVE  /\ rows'[k].st # "none"
             /\ task'[v][k].count <= failures'[k]
             /\ At(v, k, "err")' => task'[v][k].count + 1 <= failures'[k]
             /\ At(v, k, "ok")' => k \in finished'
  <2>1. task'[v][k] = task[v][k]
    BY <1>2 DEF At, NoTask
  <2>2. ~At(v, k, "none")
    BY <1>2, <2>1 DEF At
  <2> QED BY <2>1, <2>2 DEF Inv, TaskCounts, At
<1> QED BY <1>1, <1>2 DEF TaskCounts

LEMMA RecordCounts == ASSUME Inv, NEW w \in Loop, NEW i \in Id, Record(w, i)
                      PROVE  RowCounts' /\ TaskCounts'
<1>1. rows' \in [Id -> Row]
  BY RecordType DEF Inv, TypeOK
<1>2. \A k \in Id \ {i} : rows'[k] = rows[k]
  BY DEF Inv, TypeOK, Record
<1>3. rows[i] \in Row /\ task[w][i] \in Task /\ failures[i] \in Nat
  BY DEF Inv, TypeOK
<1>4. ~At(w, i, "none")
  BY DEF Record, At
<1>5. rows[i].st # "none" /\ (At(w, i, "err") => task[w][i].count + 1 <= failures[i])
  BY <1>4 DEF Inv, TaskCounts
<1>6. rows'[i].st # "none" /\ rows'[i].attempts <= failures[i]
  <2>1. CASE ~Exists(i)
    <3>1. rows'[i] = rows[i]
      BY <2>1 DEF Inv, TypeOK, Record
    <3> QED BY <3>1, <1>5 DEF Inv, RowCounts
  <2>2. CASE Exists(i) /\ At(w, i, "ok")
    <3>1. rows'[i] = Gone
      BY <2>2 DEF Inv, TypeOK, Record
    <3> QED BY <3>1, <1>3 DEF Gone, NoRow
  <2>3. CASE Exists(i) /\ ~At(w, i, "ok")
    <3>1. rows'[i] = Failed(i, task[w][i].count + 1)
      BY <2>3 DEF Inv, TypeOK, Record
    <3>2. At(w, i, "err")
      BY <2>3 DEF Record, At
    <3>3. rows'[i].attempts = task[w][i].count + 1
      BY <3>1, <1>3 DEF Failed, Row
    <3>4. rows'[i].st \in {"failed", rows[i].st}
      BY <3>1, <1>3 DEF Failed, Row
    <3> QED BY <3>2, <3>3, <3>4, <1>5
  <2> QED BY <2>1, <2>2, <2>3
<1>7. \A k \in Id : rows[k].st # "none" => rows'[k].st # "none"
  BY <1>2, <1>6
<1>8. \A k \in Id : rows'[k].attempts <= failures[k]
  BY <1>2, <1>6 DEF Inv, RowCounts
<1>9. \A v \in Loop, k \in Id : task'[v][k] \in {task[v][k], NoTask}
  BY DEF Inv, TypeOK, Record
<1>10. UNCHANGED <<finished, failures>>
  BY DEF Record
<1> QED BY <1>1, <1>7, <1>8, <1>9, <1>10, EndCounts

LEMMA RowsCounts == ASSUME Inv, Rows PROVE RowCounts' /\ TaskCounts'
<1>0. rows' \in [Id -> Row] /\ rows \in [Id -> Row] /\ task \in [Loop -> [Id -> Task]]
      /\ failures \in [Id -> Nat]
  BY RowsType DEF Inv, TypeOK
<1>1. CASE \E i \in Id : Enqueue(i) \/ LeaseEnds(i) \/ Overrun(i)
  <2>1. \A k \in Id : rows'[k].attempts = rows[k].attempts
                     /\ (rows[k].st # "none" => rows'[k].st # "none")
    BY <1>1, <1>0 DEF Enqueue, LeaseEnds, Overrun, Lapse, Row
  <2>2. UNCHANGED <<task, finished, failures>>
    BY <1>1 DEF Enqueue, LeaseEnds, Overrun
  <2>3. \A k \in Id : rows'[k].attempts <= failures[k]
    BY <2>1 DEF Inv, RowCounts
  <2>4. \A v \in Loop, k \in Id : task'[v][k] \in {task[v][k], NoTask}
    BY <2>2
  <2> QED BY <1>0, <2>1, <2>2, <2>3, <2>4, EndCounts
<1>2. CASE \E S \in SUBSET Id : Cleanup(S)
  <2>1. \A k \in Id : rows'[k] \in {rows[k], Gone}
    BY <1>2, <1>0 DEF Cleanup
  <2>2. UNCHANGED <<task, finished, failures>>
    BY <1>2 DEF Cleanup
  <2>3. \A k \in Id : rows'[k].attempts <= failures[k]
    BY <2>1, <1>0 DEF Inv, RowCounts, Gone, NoRow
  <2>4. \A k \in Id : rows[k].st # "none" => rows'[k].st # "none"
    BY <2>1 DEF Gone, NoRow
  <2>5. \A v \in Loop, k \in Id : task'[v][k] \in {task[v][k], NoTask}
    BY <2>2
  <2> QED BY <1>0, <2>2, <2>3, <2>4, <2>5, EndCounts
<1>3. CASE \E S \in SUBSET Id, w \in Loop : Claim(w, S)
  BY <1>3, ClaimCounts
<1>4. CASE \E w \in Loop, i \in Id : Record(w, i)
  BY <1>4, RecordCounts
<1>5. CASE \E w \in Loop, i \in Id : RecordLost(w, i)
  <2>1. UNCHANGED <<rows, finished, failures>>
    BY <1>5 DEF RecordLost
  <2>2. \A v \in Loop, k \in Id : task'[v][k] \in {task[v][k], NoTask}
    BY <1>5, <1>0 DEF RecordLost
  <2>3. \A k \in Id : rows'[k].attempts <= failures[k]
    BY <2>1 DEF Inv, RowCounts
  <2> QED BY <1>0, <2>1, <2>2, <2>3, EndCounts
<1> QED BY <1>1, <1>2, <1>3, <1>4, <1>5 DEF Rows

LEMMA NextInv == ASSUME Inv, [Next]_queue PROVE Inv'
<1>0. TypeOK'
  BY NextType DEF Inv
<1>1. CASE Rows
  BY <1>1, <1>0, RowsCounts DEF Inv
<1>2. ASSUME NEW w \in Loop, NEW i \in Id, Begin(w, i) PROVE Inv'
  BY <1>2, <1>0, EnterCounts DEF Begin, Inv, TypeOK
<1>3. ASSUME NEW w \in Loop, NEW i \in Id, PerformOk(w, i) PROVE Inv'
  BY <1>3, <1>0, EnterCounts DEF PerformOk, Inv, TypeOK
<1>4. ASSUME NEW w \in Loop, NEW i \in Id, PerformFails(w, i) PROVE Inv'
  <2>1. /\ failures' \in [Id -> Nat] /\ failures'[i] = failures[i] + 1
        /\ \A k \in Id : failures[k] <= failures'[k]
    BY <1>4 DEF PerformFails, Inv, TypeOK
  <2> QED BY <1>4, <2>1, <1>0, EnterCounts DEF PerformFails, Inv, TypeOK
<1>5. ASSUME NEW w \in Loop, Drop(w) PROVE Inv'
  <2>1. UNCHANGED <<rows, finished, failures>>
    BY <1>5 DEF Drop
  <2>2. \A v \in Loop, k \in Id : task'[v][k] \in {task[v][k], NoTask}
    BY <1>5 DEF Drop, Inv, TypeOK
  <2>3. \A k \in Id : rows'[k].attempts <= failures[k]
    BY <2>1 DEF Inv, RowCounts
  <2> QED BY <1>0, <2>1, <2>2, <2>3, EndCounts DEF Inv, TypeOK
<1>6. CASE UNCHANGED <<rows, task, finished, failures>>
  BY <1>6, <1>0 DEF Inv, RowCounts, TaskCounts, At
<1> QED BY <1>1, <1>2, <1>3, <1>4, <1>5, <1>6 DEF Next, Misfortune, queue

LEMMA InvAlways == Spec => []Inv
<1>1. Init => Inv
  BY InitType, InitCounts DEF Inv
<1>2. Inv /\ [Next]_queue => Inv'
  BY NextInv
<1> QED BY <1>1, <1>2, PTL DEF Spec

-----------------------------------------------------------------------------
(* Promises *)

LEMMA PhaseKept ==
    ASSUME Inv, Inv', UNCHANGED <<finished, failures>>,
           \A i \in Id : rows'[i].st = rows[i].st
    PROVE  UNCHANGED Promises!promises
<1>1. \A i \in Id : Phase(i)' = Phase(i)
  BY DEF Phase
<1> QED BY <1>1 DEF Promises!promises

\* Row i, and no other, changes its standing.
LEMMA PhaseMoves ==
    ASSUME Inv, Inv', NEW S \in SUBSET Id, UNCHANGED <<finished, failures>>,
           NEW from, NEW to,
           \A i \in S : Phase(i) = from /\ Phase(i)' = to,
           \A i \in Id \ S : rows'[i].st = rows[i].st
    PROVE  Promises!Become(S, from, to)
<1>1. \A i \in Id : Phase(i)' = IF i \in S THEN to ELSE Phase(i)
  BY DEF Phase
<1> QED BY <1>1 DEF Promises!Become

LEMMA RecordPromised == ASSUME Inv, Inv', NEW w \in Loop, NEW i \in Id, Record(w, i)
                        PROVE  [Promises!Next]_(Promises!promises)
<1>1. \A k \in Id \ {i} : rows'[k].st = rows[k].st
  BY DEF Inv, TypeOK, Record
<1>2. rows[i] \in Row /\ task[w][i] \in Task /\ failures[i] \in Nat /\ MaxAttempts \in Nat \ {0}
  BY QueueAssumption DEF Inv, TypeOK
<1>3. UNCHANGED <<finished, failures>> /\ ~At(w, i, "none")
  BY DEF Record, At
<1>4. /\ At(w, i, "ok") => i \in finished
      /\ At(w, i, "err") => task[w][i].count + 1 <= failures[i]
  BY <1>3 DEF Inv, TaskCounts
<1>5. CASE rows'[i].st = rows[i].st
  BY <1>1, <1>3, <1>5, PhaseKept
<1>6. CASE rows'[i].st # rows[i].st /\ At(w, i, "ok")
  <2>1. rows'[i].st = "gone" /\ rows[i].st \in {"queued", "failed"}
    BY <1>6, <1>2 DEF Inv, TypeOK, Record, Exists, Gone, NoRow
  <2>2. CASE rows[i].st = "queued"
    <3>1. Phase(i) = "live" /\ Phase(i)' = "gone"
      BY <2>1, <2>2 DEF Phase
    <3>2. Promises!Become({i}, "live", "gone")
      BY <3>1, <1>1, <1>3, PhaseMoves
    <3>3. Promises!Complete(i)
      BY <3>2, <1>4, <1>6 DEF Promises!Complete
    <3> QED BY <3>3 DEF Promises!Next
  <2>3. CASE rows[i].st = "failed"
    <3>1. Phase(i) = "dead" /\ Phase(i)' = "gone"
      BY <2>1, <2>3 DEF Phase
    <3>2. Promises!Become({i}, "dead", "gone")
      BY <3>1, <1>1, <1>3, PhaseMoves
    <3>3. Promises!Forget({i})
      BY <3>2 DEF Promises!Forget
    <3> QED BY <3>3 DEF Promises!Next
  <2> QED BY <2>1, <2>2, <2>3
<1>7. CASE rows'[i].st # rows[i].st /\ ~At(w, i, "ok")
  <2>1. Exists(i) /\ rows'[i] = Failed(i, task[w][i].count + 1)
    BY <1>7 DEF Inv, TypeOK, Record
  <2>2. At(w, i, "err")
    BY <1>7 DEF Record, At
  <2>3. rows'[i].st = IF task[w][i].count + 1 >= MaxAttempts THEN "failed" ELSE rows[i].st
    BY <2>1, <1>2 DEF Failed, Row
  <2>4. task[w][i].count + 1 >= MaxAttempts /\ rows'[i].st = "failed" /\ rows[i].st = "queued"
    BY <2>1, <2>3, <1>7 DEF Exists
  <2>5. task[w][i].count \in Nat /\ task[w][i].count + 1 <= failures[i]
    BY <2>2, <1>2, <1>4 DEF Task
  <2>6. failures[i] > 0 /\ failures[i] > MaxAttempts - 1
    BY <2>4, <2>5, <1>2
  <2>7. Promises!SpentRetries(i)
    BY <2>6 DEF Promises!SpentRetries
  <2>8. Phase(i) = "live" /\ Phase(i)' = "dead"
    BY <2>4 DEF Phase
  <2>9. Promises!Become({i}, "live", "dead")
    BY <2>8, <1>1, <1>3, PhaseMoves
  <2>10. Promises!Bury(i)
    BY <2>7, <2>9 DEF Promises!Bury
  <2> QED BY <2>10 DEF Promises!Next
<1> QED BY <1>5, <1>6, <1>7

LEMMA RowsPromised == ASSUME Inv, Inv', Rows PROVE [Promises!Next]_(Promises!promises)
<1>0. rows \in [Id -> Row]
  BY DEF Inv, TypeOK
<1>1. ASSUME NEW i \in Id, Enqueue(i) PROVE [Promises!Next]_(Promises!promises)
  <2>1. Phase(i) = "unqueued" /\ Phase(i)' = "live"
    BY <1>1, <1>0 DEF Enqueue, Phase, Row
  <2>2. \A k \in Id \ {i} : rows'[k].st = rows[k].st
    BY <1>1, <1>0 DEF Enqueue
  <2>3. Promises!Become({i}, "unqueued", "live")
    BY <1>1, <2>1, <2>2, PhaseMoves DEF Enqueue
  <2>4. Promises!Queue({i})
    BY <2>3 DEF Promises!Queue
  <2> QED BY <2>4 DEF Promises!Next
<1>2. ASSUME NEW i \in Id, LeaseEnds(i) \/ Overrun(i)
      PROVE [Promises!Next]_(Promises!promises)
  <2>1. \A k \in Id : rows'[k].st = rows[k].st
    BY <1>2, <1>0 DEF LeaseEnds, Overrun, Lapse, Row
  <2> QED BY <1>2, <2>1, PhaseKept DEF LeaseEnds, Overrun
<1>3. ASSUME NEW S \in SUBSET Id, Cleanup(S) PROVE [Promises!Next]_(Promises!promises)
  <2>1. \A i \in S : Phase(i) = "dead" /\ Phase(i)' = "gone"
    BY <1>3, <1>0 DEF Cleanup, Phase, Gone, NoRow
  <2>2. \A k \in Id \ S : rows'[k].st = rows[k].st
    BY <1>3, <1>0 DEF Cleanup
  <2>3. Promises!Become(S, "dead", "gone")
    BY <1>3, <2>1, <2>2, PhaseMoves DEF Cleanup
  <2>4. Promises!Forget(S)
    BY <2>3 DEF Promises!Forget
  <2> QED BY <2>4 DEF Promises!Next
<1>4. ASSUME NEW S \in SUBSET Id, NEW w \in Loop, Claim(w, S)
      PROVE [Promises!Next]_(Promises!promises)
  <2>1. \A k \in Id : rows'[k].st = rows[k].st
    BY <1>4, <1>0 DEF Claim, Row
  <2> QED BY <1>4, <2>1, PhaseKept DEF Claim
<1>5. ASSUME NEW w \in Loop, NEW i \in Id, Record(w, i)
      PROVE [Promises!Next]_(Promises!promises)
  BY <1>5, RecordPromised
<1>6. ASSUME NEW w \in Loop, NEW i \in Id, RecordLost(w, i)
      PROVE [Promises!Next]_(Promises!promises)
  BY <1>6, PhaseKept DEF RecordLost
<1> QED BY <1>1, <1>2, <1>3, <1>4, <1>5, <1>6 DEF Rows

LEMMA NextPromised == ASSUME Inv, Inv', [Next]_queue PROVE [Promises!Next]_(Promises!promises)
<1>1. CASE Rows
  BY <1>1, RowsPromised
<1>2. ASSUME UNCHANGED <<rows, finished, failures>>
      PROVE [Promises!Next]_(Promises!promises)
  BY <1>2, PhaseKept
<1>3. ASSUME NEW w \in Loop, NEW i \in Id, PerformOk(w, i) \/ PerformFails(w, i)
      PROVE [Promises!Next]_(Promises!promises)
  <2>1. ~At(w, i, "none") /\ rows' = rows
    BY <1>3 DEF PerformOk, PerformFails, Enter, At
  <2>2. rows[i].st # "none" /\ rows[i].st \in {"queued", "failed", "gone"}
    BY <2>1 DEF Inv, TypeOK, TaskCounts, Row
  <2>3. Phase(i) # "unqueued"
    BY <2>2 DEF Phase
  <2>4. \A k \in Id : Phase(k)' = Phase(k)
    BY <2>1 DEF Phase
  <2>5. CASE PerformOk(w, i)
    <3>1. Promises!PerformOk(i)
      BY <2>5, <2>3, <2>4 DEF PerformOk, Promises!PerformOk
    <3> QED BY <3>1 DEF Promises!Next
  <2>6. CASE PerformFails(w, i)
    <3>1. Promises!PerformFails(i)
      BY <2>6, <2>3, <2>4 DEF PerformFails, Promises!PerformFails
    <3> QED BY <3>1 DEF Promises!Next
  <2> QED BY <1>3, <2>5, <2>6
<1> QED BY <1>1, <1>2, <1>3 DEF Next, Begin, Drop, Misfortune, queue

\* The ingress queue implements the promises: no activity leaves it but performed
\* to Ok, or as failed after max_attempts failures, for any number of loops and
\* rows (process_inbox_job, run_inbox_cleanup).
THEOREM ActivitiesKept == Spec => KeepsActivities
<1>1. Init => Promises!Init
  <2>1. ASSUME Init PROVE \A i \in Id : Phase(i) = "unqueued"
    BY <2>1 DEF Init, NoRow, Phase
  <2> QED BY <2>1 DEF Init, Promises!Init
<1>2. Inv /\ Inv' /\ [Next]_queue => [Promises!Next]_(Promises!promises)
  BY NextPromised
<1> QED BY <1>1, <1>2, InvAlways, PTL DEF Spec, KeepsActivities, Promises!Spec

\* A failure once seen stays counted, so attempts once spent stay spent.
LEMMA SettledNext ==
    ASSUME Inv, Inv', [Next]_queue, Promises!LeavesSettled PROVE Promises!LeavesSettled'
<1> SUFFICES ASSUME NEW i \in Id
             PROVE  /\ Phase(i)' = "gone" => i \in finished' \/ Promises!SpentRetries(i)'
                    /\ Phase(i)' = "dead" => Promises!SpentRetries(i)'
  BY DEF Promises!LeavesSettled
<1>1. /\ Phase(i) = "gone" => i \in finished \/ Promises!SpentRetries(i)
      /\ Phase(i) = "dead" => Promises!SpentRetries(i)
  BY DEF Promises!LeavesSettled
<1>2. failures[i] \in Nat /\ MaxAttempts \in Nat
  BY QueueAssumption DEF Inv, TypeOK
<1>3. [Promises!Next]_(Promises!promises)
  BY NextPromised
<1>4. CASE UNCHANGED Promises!promises
  BY <1>1, <1>4 DEF Promises!promises, Promises!SpentRetries
<1>5. ASSUME NEW S \in SUBSET Id, Promises!Queue(S) \/ Promises!Forget(S)
      PROVE  /\ UNCHANGED <<finished, failures>>
             /\ \/ Phase(i)' = Phase(i) \/ Phase(i)' = "live"
                \/ Phase(i) = "dead" /\ Phase(i)' = "gone"
  BY <1>5 DEF Promises!Queue, Promises!Forget, Promises!Become
<1>6. ASSUME NEW j \in Id, Promises!Complete(j) \/ Promises!GiveUp(j) \/ Promises!Bury(j)
      PROVE  /\ UNCHANGED <<finished, failures>>
             /\ \/ Phase(i)' = Phase(i)
                \/ Phase(i)' = "gone" /\ i \in finished
                \/ Phase(i)' = "dead" /\ Promises!SpentRetries(i)
  BY <1>6 DEF Promises!Complete, Promises!GiveUp, Promises!Bury, Promises!Become
<1>7. ASSUME NEW j \in Id, Promises!PerformOk(j) \/ Promises!PerformFails(j)
      PROVE  /\ finished \subseteq finished' /\ Phase(i)' = Phase(i)
             /\ Promises!SpentRetries(i) => Promises!SpentRetries(i)'
  BY <1>2, <1>7
     DEF Promises!PerformOk, Promises!PerformFails, Promises!SpentRetries, Inv, TypeOK
<1>8. CASE \E S \in SUBSET Id : Promises!Queue(S) \/ Promises!Forget(S)
  BY <1>1, <1>5, <1>8 DEF Promises!SpentRetries
<1>9. CASE \E j \in Id : Promises!Complete(j) \/ Promises!GiveUp(j) \/ Promises!Bury(j)
  BY <1>1, <1>6, <1>9 DEF Promises!SpentRetries
<1>10. CASE \E j \in Id : Promises!PerformOk(j) \/ Promises!PerformFails(j)
  BY <1>1, <1>7, <1>10
<1> QED BY <1>3, <1>4, <1>8, <1>9, <1>10 DEF Promises!Next

\* A row that is gone was performed to Ok or had failed max_attempts times, and a
\* failed row had failed that often, however many of its failures overlapped,
\* whichever were forgotten (process_inbox_job, run_inbox_cleanup).
THEOREM SettledCorrect == Spec => []Promises!LeavesSettled
<1>1. Init => Promises!LeavesSettled
  BY DEF Init, Promises!LeavesSettled, Phase, NoRow
<1>2. Inv /\ Inv' /\ [Next]_queue /\ Promises!LeavesSettled => Promises!LeavesSettled'
  BY SettledNext
<1> QED BY <1>1, <1>2, InvAlways, PTL DEF Spec

-----------------------------------------------------------------------------
(* Without faults *)

\* A failure that the row does not count yet.
Pending(i) == IF \E w \in Loop : At(w, i, "err") THEN 1 ELSE 0

\* Only the loop that holds the lease of row i works on it, with the attempts the row
\* has, and the row counts every failure there was.
Exact(i) ==
    /\ \A w \in Loop : ~At(w, i, "none") =>
          /\ rows[i].st = "queued" /\ rows[i].lock = "held"
          /\ task[w][i].count = rows[i].attempts
          /\ \A v \in Loop : ~At(v, i, "none") => v = w
    /\ rows[i].st \in {"none", "queued"} => rows[i].attempts < MaxAttempts
    /\ rows[i].st = "failed" => rows[i].attempts = MaxAttempts
    /\ rows[i].st # "gone" => failures[i] = rows[i].attempts + Pending(i)
    /\ rows[i].st = "gone" => failures[i] <= MaxAttempts
    /\ i \in finished => rows[i].st = "gone" \/ \E w \in Loop : At(w, i, "ok")

LEMMA ExactKept ==
    ASSUME NEW i \in Id, Exact(i), rows'[i] = rows[i], failures'[i] = failures[i],
           i \in finished' <=> i \in finished,
           \A v \in Loop : task'[v][i] = task[v][i] \/ (At(v, i, "none") /\ At(v, i, "none")')
    PROVE  Exact(i)'
<1>1. \A v \in Loop : /\ At(v, i, "none")' <=> At(v, i, "none")
                      /\ At(v, i, "err")' <=> At(v, i, "err")
                      /\ At(v, i, "ok")' <=> At(v, i, "ok")
                      /\ ~At(v, i, "none") => task'[v][i] = task[v][i]
  BY DEF At
<1>2. Pending(i)' = Pending(i)
  BY <1>1 DEF Pending
<1> QED BY <1>1, <1>2 DEF Exact

\* Row i is worked on by nobody, before and after.
LEMMA ExactAtRest ==
    ASSUME NEW i \in Id, \A v \in Loop : At(v, i, "none")',
           rows'[i].st \in {"none", "queued"} => rows'[i].attempts < MaxAttempts,
           rows'[i].st = "failed" => rows'[i].attempts = MaxAttempts,
           rows'[i].st # "gone" => failures'[i] = rows'[i].attempts /\ i \notin finished'
                                   /\ rows'[i].attempts \in Nat,
           rows'[i].st = "gone" => failures'[i] <= MaxAttempts
    PROVE  Exact(i)'
<1>1. Pending(i)' = 0
  BY DEF Pending, At
<1> QED BY <1>1 DEF Exact

LEMMA ExactRest ==
    ASSUME TypeOK, NEW i \in Id, Exact(i), \A v \in Loop : At(v, i, "none"), rows[i].st # "gone"
    PROVE  failures[i] = rows[i].attempts /\ i \notin finished /\ rows[i].attempts \in Nat
<1>1. Pending(i) = 0 /\ rows[i].attempts \in Nat
  BY DEF Pending, At, TypeOK, Row
<1> QED BY <1>1 DEF Exact, At

\* Whoever works on row i is alone with it.
LEMMA ExactWork ==
    ASSUME TypeOK, NEW i \in Id, NEW w \in Loop, Exact(i), ~At(w, i, "none")
    PROVE  /\ \A v \in Loop : v # w => At(v, i, "none")
           /\ rows[i].st = "queued" /\ rows[i].attempts \in Nat /\ rows[i].attempts < MaxAttempts
           /\ task[w][i].count = rows[i].attempts
           /\ failures[i] = rows[i].attempts + IF At(w, i, "err") THEN 1 ELSE 0
           /\ i \in finished => At(w, i, "ok")
<1>1. /\ \A v \in Loop : v # w => At(v, i, "none")
      /\ rows[i].st = "queued" /\ rows[i].attempts \in Nat
  BY DEF Exact, TypeOK, Row
<1>2. Pending(i) = IF At(w, i, "err") THEN 1 ELSE 0
  BY <1>1 DEF Pending, At
<1>3. i \in finished => At(w, i, "ok")
  BY <1>1 DEF Exact, At
<1> QED BY <1>1, <1>2, <1>3 DEF Exact

LEMMA ExactClaim ==
    ASSUME TypeOK, NEW w \in Loop, NEW S \in SUBSET Id, Claim(w, S), NEW i \in Id, Exact(i)
    PROVE  Exact(i)'
<1>1. \A v \in Loop : v # w => task'[v][i] = task[v][i]
  BY DEF Claim, TypeOK
<1>2. CASE i \in S
  <2>1. /\ rows'[i] = [rows[i] EXCEPT !.lock = "held"]
        /\ task'[w][i] = [ph |-> "waiting", count |-> rows[i].attempts]
        /\ rows[i] \in Row /\ rows[i].st = "queued" /\ rows[i].lock # "held"
    BY <1>2 DEF Claim, Claimable, TypeOK
  <2>2. /\ rows'[i].st = "queued" /\ rows'[i].lock = "held" /\ rows'[i].attempts = rows[i].attempts
        /\ ~At(w, i, "none")' /\ ~At(w, i, "err")' /\ task'[w][i].count = rows'[i].attempts
    BY <2>1 DEF Row, At
  <2>3. \A v \in Loop : At(v, i, "none")
    BY <2>1 DEF Exact
  <2>4. failures[i] = rows[i].attempts /\ i \notin finished /\ rows[i].attempts \in Nat
    BY <2>1, <2>3, ExactRest
  <2>5. UNCHANGED <<finished, failures>>
    BY DEF Claim
  <2>6. \A v \in Loop : v # w => At(v, i, "none")'
    BY <1>1, <2>3 DEF At
  <2>7. Pending(i)' = 0
    BY <2>2, <2>6 DEF Pending, At
  <2>8. rows[i].attempts < MaxAttempts
    BY <2>1 DEF Exact
  <2> QED BY <2>2, <2>4, <2>5, <2>6, <2>7, <2>8 DEF Exact
<1>3. CASE i \notin S
  <2>1. rows'[i] = rows[i] /\ UNCHANGED <<finished, failures>>
    BY <1>3 DEF Claim
  <2>2. At(w, i, "none") /\ At(w, i, "none")'
    BY <1>3 DEF Claim, Idle, At, NoTask, TypeOK
  <2> QED BY <1>1, <2>1, <2>2, ExactKept
<1> QED BY <1>2, <1>3

LEMMA ExactRecord ==
    ASSUME TypeOK, NEW w \in Loop, NEW i \in Id, Record(w, i), Exact(i)
    PROVE  Exact(i)'
<1>1. ~At(w, i, "none") /\ (At(w, i, "ok") \/ At(w, i, "err"))
  BY DEF Record, At
<1>2. /\ \A v \in Loop : v # w => At(v, i, "none")
      /\ rows[i].st = "queued" /\ rows[i].attempts \in Nat /\ rows[i].attempts < MaxAttempts
      /\ task[w][i].count = rows[i].attempts
      /\ failures[i] = rows[i].attempts + IF At(w, i, "err") THEN 1 ELSE 0
      /\ i \in finished => At(w, i, "ok")
  BY <1>1, ExactWork
<1>3. \A v \in Loop : At(v, i, "none")'
  BY <1>2 DEF Record, TypeOK, At, NoTask
<1>4. UNCHANGED <<finished, failures>> /\ MaxAttempts \in Nat
  BY QueueAssumption DEF Record
<1>5. CASE At(w, i, "ok")
  <2>1. rows'[i] = Gone
    BY <1>2, <1>5 DEF Record, Exists, TypeOK
  <2>2. rows'[i].st = "gone"
    BY <2>1 DEF Gone, NoRow
  <2>3. failures'[i] <= MaxAttempts
    BY <1>2, <1>4, <1>5 DEF At
  <2> QED BY <1>3, <2>2, <2>3, ExactAtRest
<1>6. CASE At(w, i, "err")
  <2>1. rows'[i] = Failed(i, rows[i].attempts + 1) /\ rows[i] \in Row
    BY <1>2, <1>6 DEF Record, Exists, TypeOK, At
  <2>2. /\ rows'[i].attempts = rows[i].attempts + 1
        /\ rows'[i].st = IF rows[i].attempts + 1 >= MaxAttempts THEN "failed" ELSE "queued"
    BY <1>2, <2>1 DEF Failed, Row
  <2>3. failures'[i] = rows'[i].attempts /\ i \notin finished'
    BY <1>2, <1>4, <1>6, <2>2 DEF At
  <2> QED BY <1>2, <1>3, <1>4, <2>2, <2>3, ExactAtRest
<1> QED BY <1>1, <1>5, <1>6

LEMMA ExactPerform ==
    ASSUME TypeOK, NEW w \in Loop, NEW i \in Id, Exact(i),
           Begin(w, i) \/ PerformOk(w, i) \/ PerformFails(w, i)
    PROVE  Exact(i)'
<1>1. PICK from \in {"waiting", "working"}, to \in {"working", "ok", "err"} :
        /\ Enter(w, i, from, to)
        /\ (from = "working" <=> to # "working")
        /\ failures'[i] = failures[i] + IF to = "err" THEN 1 ELSE 0
        /\ (i \in finished' <=> (i \in finished \/ to = "ok"))
  BY DEF Begin, PerformOk, PerformFails, TypeOK
<1>2. ~At(w, i, "none") /\ ~At(w, i, "err") /\ ~At(w, i, "ok") /\ rows' = rows
  BY <1>1 DEF Begin, PerformOk, PerformFails, Enter, At
<1>3. /\ \A v \in Loop : v # w => At(v, i, "none")
      /\ rows[i].st = "queued" /\ rows[i].attempts \in Nat
      /\ task[w][i].count = rows[i].attempts
      /\ failures[i] = rows[i].attempts /\ i \notin finished
  BY <1>2, ExactWork
<1>4. /\ \A v \in Loop : v # w => At(v, i, "none")'
      /\ task'[w][i].ph = to /\ task'[w][i].count = task[w][i].count
  <2>1. /\ task'[w][i] = [task[w][i] EXCEPT !.ph = to]
        /\ \A v \in Loop : v # w => task'[v] = task[v]
    BY <1>1 DEF Enter, TypeOK
  <2>2. task[w][i] \in Task
    BY DEF TypeOK
  <2> QED BY <2>1, <2>2, <1>3 DEF Task, At
<1>5. Pending(i)' = IF to = "err" THEN 1 ELSE 0
  BY <1>4 DEF Pending, At
<1> QED BY <1>1, <1>2, <1>3, <1>4, <1>5 DEF Exact, At

\* Rows the step does not touch, and the steps no perform takes part in.
LEMMA ExactLeaseEnds ==
    ASSUME TypeOK, NEW j \in Id, LeaseEnds(j), NEW i \in Id, Exact(i)
    PROVE  Exact(i)'
<1>1. UNCHANGED <<task, finished, failures>>
  BY DEF LeaseEnds
<1>2. CASE i # j
  BY <1>1, <1>2, ExactKept DEF LeaseEnds, Lapse, TypeOK
<1>3. CASE i = j
  <2>1. rows'[i] = [rows[i] EXCEPT !.lock = "lapsed"] /\ rows[i] \in Row
    BY <1>3 DEF LeaseEnds, Lapse, TypeOK
  <2>2. rows'[i].st = rows[i].st /\ rows'[i].attempts = rows[i].attempts
    BY <2>1 DEF Row
  <2>3. \A v \in Loop : At(v, i, "none") /\ At(v, i, "none")'
    BY <1>1, <1>3 DEF LeaseEnds, At
  <2>4. /\ rows[i].st \in {"none", "queued"} => rows[i].attempts < MaxAttempts
        /\ rows[i].st = "failed" => rows[i].attempts = MaxAttempts
        /\ rows[i].st = "gone" => failures[i] <= MaxAttempts
    BY DEF Exact
  <2>5. rows[i].st # "gone" => /\ failures[i] = rows[i].attempts /\ i \notin finished
                               /\ rows[i].attempts \in Nat
    BY <2>3, ExactRest
  <2> QED BY <1>1, <2>2, <2>3, <2>4, <2>5, ExactAtRest
<1> QED BY <1>2, <1>3

LEMMA ExactEnqueue ==
    ASSUME TypeOK, NEW j \in Id, Enqueue(j), NEW i \in Id, Exact(i)
    PROVE  Exact(i)'
<1>1. UNCHANGED <<task, finished, failures>>
  BY DEF Enqueue
<1>2. CASE i # j
  BY <1>1, <1>2, ExactKept DEF Enqueue, TypeOK
<1>3. CASE i = j
  <2>1. rows'[i] = [rows[i] EXCEPT !.st = "queued"] /\ rows[i] \in Row /\ rows[i].st = "none"
    BY <1>3 DEF Enqueue, TypeOK
  <2>2. rows'[i].st = "queued" /\ rows'[i].attempts = rows[i].attempts
    BY <2>1 DEF Row
  <2>3. \A v \in Loop : At(v, i, "none") /\ At(v, i, "none")'
    BY <1>1, <2>1 DEF Exact, At
  <2>4. rows[i].attempts < MaxAttempts
    BY <2>1 DEF Exact
  <2>5. failures[i] = rows[i].attempts /\ i \notin finished /\ rows[i].attempts \in Nat
    BY <2>1, <2>3, ExactRest
  <2> QED BY <1>1, <2>2, <2>3, <2>4, <2>5, ExactAtRest
<1> QED BY <1>2, <1>3

LEMMA ExactCleanup ==
    ASSUME TypeOK, NEW S \in SUBSET Id, Cleanup(S), NEW i \in Id, Exact(i)
    PROVE  Exact(i)'
<1>1. UNCHANGED <<task, finished, failures>> /\ MaxAttempts \in Nat
  BY QueueAssumption DEF Cleanup
<1>2. CASE i \notin S
  BY <1>1, <1>2, ExactKept DEF Cleanup
<1>3. CASE i \in S
  <2>1. rows'[i].st = "gone" /\ rows[i].st = "failed"
    BY <1>3 DEF Cleanup, Gone, NoRow
  <2>2. \A v \in Loop : At(v, i, "none") /\ At(v, i, "none")'
    BY <1>1, <2>1 DEF Exact, At
  <2>3. failures'[i] <= MaxAttempts
    BY <1>1, <2>1, <2>2, ExactRest DEF Exact
  <2> QED BY <2>1, <2>2, <2>3, ExactAtRest
<1> QED BY <1>2, <1>3

\* A step of another row's.
LEMMA ExactOther ==
    ASSUME TypeOK, NEW w \in Loop, NEW j \in Id, NEW i \in Id, i # j, Exact(i),
           \/ Record(w, j)
           \/ Begin(w, j) \/ PerformOk(w, j) \/ PerformFails(w, j)
    PROVE  Exact(i)'
<1>1. /\ \A v \in Loop : task'[v][i] = task[v][i]
      /\ rows'[i] = rows[i]
      /\ failures'[i] = failures[i]
      /\ (i \in finished') <=> (i \in finished)
  <2>1. CASE Record(w, j)
    BY <2>1 DEF Record, TypeOK
  <2>2. CASE Begin(w, j)
    BY <2>2 DEF Begin, Enter, TypeOK
  <2>3. CASE PerformOk(w, j)
    BY <2>3 DEF PerformOk, Enter, TypeOK
  <2>4. CASE PerformFails(w, j)
    BY <2>4 DEF PerformFails, Enter, TypeOK
  <2> QED BY <2>1, <2>2, <2>3, <2>4
<1> QED BY <1>1, ExactKept

\* A step before which nothing went wrong, and that is no fault itself.
LEMMA NoFault ==
    ASSUME TypeOK, [Next]_queue, faults' = 0
    PROVE  /\ faults = 0
           /\ \/ \E j \in Id : Enqueue(j) \/ LeaseEnds(j)
              \/ \E S \in SUBSET Id : Cleanup(S) \/ \E w \in Loop : Claim(w, S)
              \/ \E w \in Loop, j \in Id :
                    Record(w, j) \/ Begin(w, j) \/ PerformOk(w, j) \/ PerformFails(w, j)
              \/ UNCHANGED queue
<1>1. faults \in Nat
  BY QueueAssumption DEF TypeOK
<1>2. ~Fault
  BY <1>1 DEF Fault
<1>3. /\ \A j \in Id : ~Overrun(j)
      /\ \A w \in Loop : ~Drop(w) /\ \A j \in Id : ~RecordLost(w, j)
      /\ ~Misfortune
  BY <1>2 DEF Overrun, Drop, RecordLost, Misfortune
<1>4. \/ \E j \in Id : Enqueue(j) \/ LeaseEnds(j)
      \/ \E S \in SUBSET Id : Cleanup(S) \/ \E w \in Loop : Claim(w, S)
      \/ \E w \in Loop, j \in Id :
            Record(w, j) \/ Begin(w, j) \/ PerformOk(w, j) \/ PerformFails(w, j)
      \/ UNCHANGED queue
  BY <1>3 DEF Next, Rows
<1>5. faults' = faults
  <2>1. \A j \in Id : Enqueue(j) \/ LeaseEnds(j) => faults' = faults
    BY DEF Enqueue, LeaseEnds
  <2>2. \A S \in SUBSET Id : Cleanup(S) => faults' = faults
    BY DEF Cleanup
  <2>3. \A S \in SUBSET Id, w \in Loop : Claim(w, S) => faults' = faults
    BY DEF Claim
  <2>4. \A w \in Loop, j \in Id : Record(w, j) \/ Begin(w, j) => faults' = faults
    BY DEF Record, Begin
  <2>5. \A w \in Loop, j \in Id : PerformOk(w, j) \/ PerformFails(w, j) => faults' = faults
    BY DEF PerformOk, PerformFails
  <2>6. UNCHANGED queue => faults' = faults
    BY DEF queue
  <2> QED BY <1>4, <2>1, <2>2, <2>3, <2>4, <2>5, <2>6
<1> QED BY <1>4, <1>5

LEMMA ExactStep ==
    ASSUME TypeOK, [Next]_queue, faults' = 0, NEW i \in Id, Exact(i)
    PROVE  Exact(i)'
<1>1. CASE \E j \in Id : Enqueue(j)
  BY <1>1, ExactEnqueue
<1>2. CASE \E j \in Id : LeaseEnds(j)
  BY <1>2, ExactLeaseEnds
<1>3. CASE \E S \in SUBSET Id : Cleanup(S)
  BY <1>3, ExactCleanup
<1>4. CASE \E S \in SUBSET Id, w \in Loop : Claim(w, S)
  BY <1>4, ExactClaim
<1>5. CASE \E w \in Loop, j \in Id :
              Record(w, j) \/ Begin(w, j) \/ PerformOk(w, j) \/ PerformFails(w, j)
  <2>1. PICK w \in Loop, j \in Id :
              Record(w, j) \/ Begin(w, j) \/ PerformOk(w, j) \/ PerformFails(w, j)
    BY <1>5
  <2>2. CASE i # j
    BY <2>1, <2>2, ExactOther
  <2>3. CASE i = j /\ Record(w, i)
    BY <2>3, ExactRecord
  <2>4. CASE i = j /\ ~Record(w, i)
    BY <2>1, <2>4, ExactPerform
  <2> QED BY <2>2, <2>3, <2>4
<1>6. CASE UNCHANGED queue
  BY <1>6, ExactKept DEF queue
<1> QED BY <1>1, <1>2, <1>3, <1>4, <1>5, <1>6, NoFault

ExactInv == faults = 0 => \A i \in Id : Exact(i)

LEMMA InitExact == Init => ExactInv
<1> SUFFICES ASSUME Init, NEW i \in Id PROVE Exact(i)
  BY DEF ExactInv
<1>1. /\ \A w \in Loop : At(w, i, "none")
      /\ rows[i].st = "none" /\ rows[i].attempts = 0
      /\ failures[i] = 0 /\ i \notin finished
  BY DEF Init, At, NoTask, NoRow
<1>2. Pending(i) = 0
  BY <1>1 DEF Pending, At
<1> QED BY <1>1, <1>2, QueueAssumption DEF Exact

LEMMA NextExact == TypeOK /\ ExactInv /\ [Next]_queue => ExactInv'
<1> SUFFICES ASSUME TypeOK, ExactInv, [Next]_queue, faults' = 0, NEW i \in Id
             PROVE  Exact(i)'
  BY DEF ExactInv
<1>1. Exact(i)
  BY NoFault DEF ExactInv
<1> QED BY <1>1, ExactStep

\* Until the first fault, an activity is never worked on by two loops nor performed
\* again once it was performed, it is given up after max_attempts failures and no
\* sooner, and there is no failure beyond those: what the lease and the record by id
\* give up (process_inbox_job) they give up to faults alone.
FaultlessOnce ==
    faults = 0 => \A i \in Id :
        /\ \A v, w \in Loop : ~At(v, i, "none") /\ ~At(w, i, "none") => v = w
        /\ failures[i] <= MaxAttempts
        /\ rows[i].st = "failed" => failures[i] = MaxAttempts
        /\ rows[i].st = "gone" => i \in finished \/ failures[i] = MaxAttempts
        /\ i \in finished => \A w \in Loop : At(w, i, "none") \/ At(w, i, "ok")

LEMMA ExactOnce == ASSUME TypeOK, ExactInv, Promises!LeavesSettled PROVE FaultlessOnce
<1> SUFFICES ASSUME NEW i \in Id, Exact(i)
             PROVE  /\ \A v, w \in Loop : ~At(v, i, "none") /\ ~At(w, i, "none") => v = w
                    /\ failures[i] <= MaxAttempts
                    /\ rows[i].st = "failed" => failures[i] = MaxAttempts
                    /\ rows[i].st = "gone" => i \in finished \/ failures[i] = MaxAttempts
                    /\ i \in finished => \A w \in Loop : At(w, i, "none") \/ At(w, i, "ok")
  BY DEF ExactInv, FaultlessOnce
<1>1. \A v, w \in Loop : ~At(v, i, "none") /\ ~At(w, i, "none") => v = w
  BY DEF Exact
<1>2. /\ rows[i].attempts \in Nat /\ MaxAttempts \in Nat
      /\ rows[i].st \in {"none", "queued", "failed", "gone"} /\ failures[i] \in Nat
  BY QueueAssumption DEF TypeOK, Row
<1>3. ASSUME \A w \in Loop : At(w, i, "none")
      PROVE  /\ failures[i] <= MaxAttempts
             /\ rows[i].st = "failed" => failures[i] = MaxAttempts
             /\ i \in finished => \A w \in Loop : At(w, i, "none") \/ At(w, i, "ok")
  BY <1>2, <1>3, ExactRest DEF Exact
<1>4. ASSUME \E w \in Loop : ~At(w, i, "none")
      PROVE  /\ failures[i] <= MaxAttempts
             /\ rows[i].st = "failed" => failures[i] = MaxAttempts
             /\ i \in finished => \A w \in Loop : At(w, i, "none") \/ At(w, i, "ok")
  <2>1. PICK w \in Loop : ~At(w, i, "none")
    BY <1>4
  <2>2. /\ \A v \in Loop : v # w => At(v, i, "none")
        /\ rows[i].st = "queued" /\ rows[i].attempts < MaxAttempts
        /\ failures[i] = rows[i].attempts + IF At(w, i, "err") THEN 1 ELSE 0
        /\ i \in finished => At(w, i, "ok")
    BY <2>1, ExactWork
  <2>3. failures[i] <= MaxAttempts
    BY <1>2, <2>2
  <2> QED BY <1>1, <2>2, <2>3
<1>5. failures[i] <= MaxAttempts
  BY <1>3, <1>4
<1>6. Phase(i) = "gone" => i \in finished \/ failures[i] > MaxAttempts - 1
  BY DEF Promises!LeavesSettled, Promises!SpentRetries
<1>7. rows[i].st = "gone" => i \in finished \/ failures[i] = MaxAttempts
  BY <1>2, <1>5, <1>6 DEF Phase
<1> QED BY <1>1, <1>3, <1>4, <1>7

\* Without faults every activity is performed to its end once (run_inbox_queue,
\* process_inbox_job), for any number of loops, rows and attempts.
THEOREM FaultlessCorrect == Spec => []FaultlessOnce
<1>1. Init => TypeOK /\ ExactInv
  BY InitType, InitExact
<1>2. TypeOK /\ ExactInv /\ [Next]_queue => (TypeOK /\ ExactInv)'
  BY NextType, NextExact
<1>3. TypeOK /\ ExactInv /\ Promises!LeavesSettled => FaultlessOnce
  BY ExactOnce
<1> QED BY <1>1, <1>2, <1>3, SettledCorrect, PTL DEF Spec
=============================================================================
