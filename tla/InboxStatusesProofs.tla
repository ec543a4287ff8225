------------------------ MODULE InboxStatusesProofs ------------------------
(***************************************************************************)
(* Theorems about InboxStatuses, for any number of rows, of loops and of   *)
(* faults: it is the queue of InboxQueue with performs inside, a status is *)
(* announced once and counted once, and a Delete wins over its Create.     *)
(***************************************************************************)
EXTENDS InboxStatuses, InboxQueueProofs, FiniteSetTheorems

Coupled == \A w \in Loop, i \in Id : Is(w, i, "idle") = ~At(w, i, "working")

ObjectType ==
    /\ lock \in (Loop \X Id) \cup {None, Nobody}
    /\ status \in {"none", "live", "deleted"}
    /\ arrived \in BOOLEAN /\ buried \in BOOLEAN
    /\ count \in Nat /\ others \in Nat /\ announced \in Nat /\ missed \in Nat
    /\ handled \in BOOLEAN /\ unlocked \in BOOLEAN /\ lost \in 0..MaxLost

\* Perform (w, i) goes on to `p`, and no other moves.
Move(w, i, p) == /\ at' \in [Loop -> [Id -> Perform]]
                 /\ at'[w][i] = p
                 /\ \A v \in Loop, k \in Id : v # w \/ k # i => at'[v][k] = at[v][k]

\* What it took to get where the performs are.
Publishing(w, i) == at[w][i].pc \in {"count", "distribute"}

Announced ==
    /\ announced \in {0, 1}
    /\ status = "none" => announced = 0
    /\ \A w \in Loop, i \in Id : Publishing(w, i) => announced = 0 /\ status # "none"
    /\ \A w, v \in Loop, i, k \in Id : Publishing(w, i) /\ Publishing(v, k) => w = v /\ i = k

\* Past the lock, a perform holds it.
Past(w, i) == at[w][i].pc \notin {"idle", "lock"}
Locked == \A w \in Loop, i \in Id : Past(w, i) => Holds(w, i)

\* What is left of a Delete that was handled: two memories of it, or as many were
\* lost, until there is a row.
Memory ==
    /\ handled /\ status = "none" => \/ lost >= 2
                                     \/ lost >= 1 /\ (arrived \/ buried)
                                     \/ arrived /\ buried
    /\ handled /\ status = "live" => lost >= 2

\* What perform (w, i) has found, or done, by the step it is at.
Knows(w, i) ==
    /\ Is(w, i, "tombstone") /\ handled /\ status = "none" => buried \/ lost >= 2
    /\ Is(w, i, "insert") /\ handled /\ status = "none" => lost >= 2
    /\ Is(w, i, "uncount") => status = "deleted"
    /\ Is(w, i, "remember") => status = "none"
    /\ Is(w, i, "bury") => status # "live" /\ (status = "none" => arrived \/ lost >= 1)

Seen == \A w \in Loop, i \in Id : at[w][i].seen => status # "none"

Deleted == /\ Seen
           /\ ~unlocked => Locked /\ Memory /\ \A w \in Loop, i \in Id : Knows(w, i)

-----------------------------------------------------------------------------
(* Each step is one of the queue's, or none *)

LEMMA ThenSteps == ASSUME NEW w \in Loop, NEW i \in Id, NEW over, NEW pc, Then(w, i, over, pc)
                   PROVE  [Next]_queue
  BY DEF Then, Return, Next, queue

LEMMA PerformsStep == ASSUME NEW w \in Loop, NEW i \in Id, Performs(w, i) PROVE [Next]_queue
<1>1. CASE Start(w, i) \/ Fail(w, i)
  BY <1>1 DEF Start, Fail, Next
<1>2. CASE TakeLock(w, i) \/ GoWithout(w, i)
  BY <1>2 DEF TakeLock, GoWithout
<1>3. CASE AskArrived(w, i)
  <2>1. CASE Then(w, i, arrived, "tombstone")
    BY <2>1, ThenSteps
  <2>2. CASE UNCHANGED queue
    BY <2>2
  <2> QED BY <1>3, <2>1, <2>2 DEF AskArrived
<1>4. CASE AskTombstone(w, i)
  BY <1>4, ThenSteps DEF AskTombstone
<1>5. CASE Insert(w, i)
  BY <1>5, ThenSteps DEF Insert
<1>6. CASE Decline(w, i) \/ Distribute(w, i) \/ Bury(w, i)
  BY <1>6 DEF Decline, Distribute, Bury, Return, Next
<1>7. CASE Count(w, i) \/ Uncount(w, i)
  BY <1>7 DEF Count, Uncount, Next
<1>8. CASE Read(w, i) \/ Remove(w, i) \/ Remember(w, i)
  BY <1>8 DEF Read, Remove, Remember
<1> QED BY <1>1, <1>2, <1>3, <1>4, <1>5, <1>6, <1>7, <1>8
     DEF Performs, Creates, Deletes

LEMMA StatusStep == ASSUME [SNext]_svars PROVE [Next]_queue
<1>1. CASE Rows
  BY <1>1 DEF Next
<1>2. CASE \E w \in Loop, i \in Id : Performs(w, i)
  BY <1>2, PerformsStep
<1>3. CASE \E w \in Loop : Dropped(w)
  BY <1>3 DEF Dropped, Next
<1>4. CASE FreeLock \/ AutoRelease \/ Expire \/ UNCHANGED svars
  BY <1>4 DEF FreeLock, AutoRelease, Expire, svars
<1> QED BY <1>1, <1>2, <1>3, <1>4 DEF SNext

\* Creates and Deletes are performed by the ingress queue: what InboxQueue says
\* holds of them, that no activity is lost among them too (run_inbox_queue_batch).
THEOREM StatusesAreQueued == SSpec => Spec /\ KeepsActivities
<1>1. SInit => Init
  BY DEF SInit
<1>2. [SNext]_svars => [Next]_queue
  BY StatusStep
<1> QED BY <1>1, <1>2, ActivitiesKept, PTL DEF SSpec, Spec

-----------------------------------------------------------------------------
(* Types *)

LEMMA GoMoves ==
    ASSUME STypeOK, NEW w \in Loop, NEW i \in Id, NEW pc \in Step, Go(w, i, pc)
    PROVE  Move(w, i, [pc |-> pc, seen |-> at[w][i].seen])
<1>1. [at[w][i] EXCEPT !.pc = pc] = [pc |-> pc, seen |-> at[w][i].seen]
  BY DEF STypeOK, Perform
<1>2. [pc |-> pc, seen |-> at[w][i].seen] \in Perform
  BY DEF STypeOK, Perform
<1>3. at' = [at EXCEPT ![w] = [at[w] EXCEPT ![i] = [pc |-> pc, seen |-> at[w][i].seen]]]
  BY <1>1 DEF Go, STypeOK
<1> QED BY <1>2, <1>3 DEF Move, STypeOK

LEMMA SetMoves ==
    ASSUME STypeOK, NEW w \in Loop, NEW i \in Id, NEW p \in Perform,
           at' = [at EXCEPT ![w][i] = p]
    PROVE  Move(w, i, p)
  BY DEF Move, STypeOK

LEMMA RestType == Rest \in Perform /\ Rest.pc = "idle"
  BY DEF Rest, Perform, Step

\* A perform that returns, or fails.
LEMMA OverMoves ==
    ASSUME STypeOK, NEW w \in Loop, NEW i \in Id, Return(w, i) \/ Fail(w, i)
    PROVE  Move(w, i, Rest) /\ Coupled' /\ lock' \in (Loop \X Id) \cup {None, Nobody}
<1>1. Move(w, i, Rest)
  BY SetMoves, RestType DEF Return, Fail
<1>2. \E ph \in {"ok", "err"} : Enter(w, i, "working", ph)
  BY DEF Return, Fail, PerformOk, PerformFails
<1>3. ASSUME NEW v \in Loop, NEW k \in Id
      PROVE (Is(v, k, "idle") = ~At(v, k, "working"))'
  <2>1. CASE v = w /\ k = i
    <3>1. task'[w][i].ph \in {"ok", "err"}
      BY <1>2 DEF Enter, STypeOK, TypeOK, Task
    <3> QED BY <2>1, <3>1, <1>1, RestType DEF Move, Is, At
  <2>2. CASE ~(v = w /\ k = i)
    <3>1. task'[v][k] = task[v][k]
      BY <2>2, <1>2 DEF Enter, STypeOK, TypeOK
    <3>2. at'[v][k] = at[v][k]
      BY <2>2, <1>1 DEF Move
    <3> QED BY <3>1, <3>2 DEF STypeOK, Is, At
  <2> QED BY <2>1, <2>2
<1>4. lock' \in (Loop \X Id) \cup {None, Nobody}
  BY DEF Return, Fail, Released, STypeOK
<1> QED BY <1>1, <1>3, <1>4 DEF Coupled

\* A perform that goes on.
LEMMA OnMoves ==
    ASSUME STypeOK, NEW w \in Loop, NEW i \in Id, NEW p \in Perform,
           Move(w, i, p), task' = task, ~Is(w, i, "idle"), p.pc # "idle"
    PROVE  Coupled'
<1>1. ASSUME NEW v \in Loop, NEW k \in Id
      PROVE (Is(v, k, "idle") = ~At(v, k, "working"))'
  BY DEF Move, STypeOK, Is, At
<1> QED BY <1>1 DEF Coupled

LEMMA RowsCoupled == ASSUME STypeOK, Rows, UNCHANGED at PROVE Coupled'
<1>1. ASSUME NEW v \in Loop, NEW k \in Id PROVE At(v, k, "working")' = At(v, k, "working")
  <2>1. CASE \E i \in Id : Enqueue(i) \/ LeaseEnds(i) \/ Overrun(i)
    BY <2>1 DEF Enqueue, LeaseEnds, Overrun, At
  <2>2. CASE \E S \in SUBSET Id : Cleanup(S)
    BY <2>2 DEF Cleanup, At
  <2>3. ASSUME NEW S \in SUBSET Id, NEW w \in Loop, Claim(w, S)
        PROVE  At(v, k, "working")' = At(v, k, "working")
    <3>1. CASE v = w
      <4>1. ~At(v, k, "working")
        BY <2>3, <3>1 DEF Claim, Idle, At
      <4>2. task'[v][k].ph \in {"waiting", "none"}
        BY <2>3, <3>1 DEF Claim, NoTask, STypeOK, TypeOK
      <4> QED BY <4>1, <4>2 DEF At
    <3>2. CASE v # w
      <4>1. task'[v] = task[v]
        BY <2>3, <3>2 DEF Claim, STypeOK, TypeOK
      <4> QED BY <4>1 DEF At
    <3> QED BY <3>1, <3>2
  <2>4. ASSUME NEW w \in Loop, NEW i \in Id, Record(w, i) \/ RecordLost(w, i)
        PROVE  At(v, k, "working")' = At(v, k, "working")
    <3>1. CASE v = w /\ k = i
      <4>1. ~At(v, k, "working")
        BY <2>4, <3>1 DEF Record, RecordLost, At
      <4>2. task'[v][k].ph = "none"
        BY <2>4, <3>1 DEF Record, RecordLost, NoTask, STypeOK, TypeOK
      <4> QED BY <4>1, <4>2 DEF At
    <3>2. CASE ~(v = w /\ k = i)
      <4>1. task'[v][k] = task[v][k]
        BY <2>4, <3>2 DEF Record, RecordLost, STypeOK, TypeOK
      <4> QED BY <4>1 DEF At
    <3> QED BY <3>1, <3>2
  <2> QED BY <2>1, <2>2, <2>3, <2>4 DEF Rows
<1> QED BY <1>1 DEF Coupled, STypeOK, Is

LEMMA TypeParts == TypeOK /\ at \in [Loop -> [Id -> Perform]] /\ Coupled /\ ObjectType => STypeOK
  BY DEF STypeOK, Coupled, ObjectType

LEMMA TypePartsNext ==
    TypeOK' /\ at' \in [Loop -> [Id -> Perform]] /\ Coupled' /\ ObjectType' => STypeOK'
  BY DEF STypeOK, Coupled, ObjectType

\* How a perform moves, by the step it is at.
LEMMA ThenMoves ==
    ASSUME STypeOK, NEW w \in Loop, NEW i \in Id, NEW over \in BOOLEAN, NEW pc \in Step,
           ~Is(w, i, "idle"), pc # "idle", Then(w, i, over, pc)
    PROVE  /\ Move(w, i, IF over THEN Rest ELSE [pc |-> pc, seen |-> at[w][i].seen])
           /\ Coupled' /\ lock' \in (Loop \X Id) \cup {None, Nobody}
<1>1. CASE over
  BY <1>1, OverMoves DEF Then
<1>2. CASE ~over
  <2> DEFINE q == [pc |-> pc, seen |-> at[w][i].seen]
  <2>1. Move(w, i, q) /\ UNCHANGED <<queue, lock>>
    BY <1>2, GoMoves DEF Then
  <2>2. q \in Perform /\ q.pc # "idle"
    BY DEF STypeOK, Perform
  <2>3. Coupled'
    BY <2>1, <2>2, OnMoves DEF queue
  <2> QED BY <1>2, <2>1, <2>3 DEF STypeOK
<1> QED BY <1>1, <1>2

\* The step from one stage to the next, with the queue left as it is.
LEMMA GoCoupled ==
    ASSUME STypeOK, NEW w \in Loop, NEW i \in Id, NEW pc \in Step,
           ~Is(w, i, "idle"), pc # "idle", Go(w, i, pc), task' = task
    PROVE  /\ Move(w, i, [pc |-> pc, seen |-> at[w][i].seen])
           /\ Coupled'
<1> DEFINE q == [pc |-> pc, seen |-> at[w][i].seen]
<1>1. Move(w, i, q)
  BY GoMoves
<1>2. q \in Perform /\ q.pc # "idle"
  BY DEF STypeOK, Perform
<1> QED BY <1>1, <1>2, OnMoves

LEMMA StartType == ASSUME STypeOK, NEW w \in Loop, NEW i \in Id, Start(w, i)
                   PROVE  at' \in [Loop -> [Id -> Perform]] /\ Coupled' /\ ObjectType'
<1>1. Move(w, i, [pc |-> "lock", seen |-> at[w][i].seen])
  BY GoMoves DEF Start, Step
<1>2. Enter(w, i, "waiting", "working")
  BY DEF Start, Begin
<1>3. ASSUME NEW v \in Loop, NEW k \in Id
      PROVE (Is(v, k, "idle") = ~At(v, k, "working"))'
  <2>1. CASE v = w /\ k = i
    <3>1. task'[w][i].ph = "working"
      BY <1>2 DEF Enter, STypeOK, TypeOK, Task
    <3>2. at'[w][i].pc = "lock"
      BY <1>1 DEF Move
    <3> QED BY <2>1, <3>1, <3>2 DEF Is, At
  <2>2. CASE ~(v = w /\ k = i)
    <3>1. task'[v][k] = task[v][k]
      BY <2>2, <1>2 DEF Enter, STypeOK, TypeOK
    <3>2. at'[v][k] = at[v][k]
      BY <2>2, <1>1 DEF Move
    <3> QED BY <3>1, <3>2 DEF STypeOK, Is, At
  <2> QED BY <2>1, <2>2
<1>4. ObjectType'
  BY DEF Start, ObjectType, STypeOK, notes, memory
<1> QED BY <1>1, <1>3, <1>4 DEF Coupled, Move

LEMMA CreatesType == ASSUME STypeOK, NEW w \in Loop, NEW i \in Id, Creates(w, i)
                     PROVE  at' \in [Loop -> [Id -> Perform]] /\ Coupled' /\ ObjectType'
<1> USE DEF Step
<1>1. CASE AskArrived(w, i)
  <2>1. ~Is(w, i, "idle")
    BY <1>1 DEF AskArrived, Is
  <2>2. CASE Then(w, i, arrived, "tombstone") /\ UNCHANGED notes
    BY <1>1, <2>1, <2>2, ThenMoves DEF AskArrived, Move, ObjectType, STypeOK, notes, memory
  <2>3. CASE /\ lost < MaxLost /\ lost' = lost + 1
             /\ Go(w, i, "tombstone")
             /\ UNCHANGED <<queue, lock, others, handled, announced, unlocked, missed>>
    <3>1. lost' \in 0..MaxLost
      BY <2>3, StatusAssumption DEF STypeOK
    <3> QED BY <1>1, <2>1, <2>3, <3>1, GoCoupled
         DEF AskArrived, Move, ObjectType, STypeOK, memory, queue
  <2> QED BY <1>1, <2>2, <2>3 DEF AskArrived
<1>2. CASE AskTombstone(w, i)
  BY <1>2, ThenMoves DEF AskTombstone, Is, Move, ObjectType, STypeOK, notes, memory
<1>3. CASE Decline(w, i)
  BY <1>3, OverMoves DEF Decline, Move, ObjectType, STypeOK, notes, memory
<1>4. CASE Insert(w, i)
  <2>1. Then(w, i, status # "none", "count") /\ ~Is(w, i, "idle") /\ (status # "none") \in BOOLEAN
    BY <1>4 DEF Insert, Is
  <2>2. /\ at' \in [Loop -> [Id -> Perform]] /\ Coupled'
        /\ lock' \in (Loop \X Id) \cup {None, Nobody}
    BY <2>1, ThenMoves DEF Move
  <2> QED BY <1>4, <2>2 DEF Insert, ObjectType, STypeOK, notes, memory
<1>5. CASE Count(w, i)
  <2>1. task' = task
    BY <1>5 DEF Count, Misfortune, queue
  <2>2. Go(w, i, "distribute") /\ ~Is(w, i, "idle")
    BY <1>5 DEF Count, Is
  <2>3. at' \in [Loop -> [Id -> Perform]] /\ Coupled'
    BY <2>1, <2>2, GoCoupled DEF Move
  <2>4. count' \in Nat /\ missed' \in Nat
    BY <1>5 DEF Count, STypeOK
  <2> QED BY <1>5, <2>3, <2>4 DEF Count, ObjectType, STypeOK, memory
<1>6. CASE Distribute(w, i)
  BY <1>6, OverMoves DEF Distribute, Move, ObjectType, STypeOK, memory
<1> QED BY <1>1, <1>2, <1>3, <1>4, <1>5, <1>6 DEF Creates

LEMMA DeletesType == ASSUME STypeOK, NEW w \in Loop, NEW i \in Id, Deletes(w, i)
                     PROVE  at' \in [Loop -> [Id -> Perform]] /\ Coupled' /\ ObjectType'
<1> USE DEF Step
<1>0. Lost => lost' \in 0..MaxLost
  BY StatusAssumption DEF STypeOK, Lost
<1>1. CASE Read(w, i)
  <2> DEFINE q == [pc |-> "remove", seen |-> status = "live"]
  <2>1. q \in Perform /\ q.pc # "idle"
    BY DEF Perform
  <2>2. Move(w, i, q)
    BY <1>1, <2>1, SetMoves DEF Read
  <2>3. Coupled'
    BY <1>1, <2>1, <2>2, OnMoves DEF Read, Is, queue
  <2> QED BY <1>1, <2>2, <2>3 DEF Read, Move, ObjectType, STypeOK, notes, memory
<1>2. CASE Remove(w, i)
  <2> DEFINE pc == IF at[w][i].seen THEN "uncount" ELSE IF status = "none" THEN "remember" ELSE "bury"
  <2>1. Go(w, i, pc) /\ pc \in Step /\ pc # "idle" /\ task' = task /\ ~Is(w, i, "idle")
    BY <1>2 DEF Remove, queue, Is
  <2>2. at' \in [Loop -> [Id -> Perform]] /\ Coupled'
    BY <2>1, GoCoupled DEF Move
  <2> QED BY <1>2, <2>2 DEF Remove, ObjectType, STypeOK, notes, memory
<1>3. CASE Uncount(w, i)
  <2>1. task' = task
    BY <1>3 DEF Uncount, Misfortune, queue
  <2>2. count' \in Nat /\ missed' \in Nat
    BY <1>3 DEF Uncount, STypeOK
  <2> QED BY <1>3, <2>1, <2>2, GoCoupled DEF Uncount, Is, Move, ObjectType, STypeOK, memory
<1>4. CASE Remember(w, i)
  BY <1>0, <1>4, GoCoupled DEF Remember, Is, Move, ObjectType, STypeOK, queue
<1>5. CASE Bury(w, i)
  BY <1>0, <1>5, OverMoves DEF Bury, Move, ObjectType, STypeOK
<1> QED BY <1>1, <1>2, <1>3, <1>4, <1>5 DEF Deletes

LEMMA PerformsType == ASSUME STypeOK, NEW w \in Loop, NEW i \in Id, Performs(w, i)
                      PROVE  STypeOK'
<1> USE DEF Step
<1>0. TypeOK'
  BY PerformsStep, NextType DEF STypeOK
<1>1. CASE TakeLock(w, i)
  <2>1. AfterLock(i) \in Step \ {"idle"}
    BY DEF AfterLock
  <2>2. lock' \in (Loop \X Id) \cup {None, Nobody}
    BY <1>1 DEF TakeLock
  <2> QED BY <1>0, <1>1, <2>1, <2>2, GoCoupled, TypePartsNext
       DEF TakeLock, Is, Move, ObjectType, STypeOK, notes, memory, queue
<1>2. CASE GoWithout(w, i)
  <2>1. AfterLock(i) \in Step \ {"idle"}
    BY DEF AfterLock
  <2> QED BY <1>0, <1>2, <2>1, GoCoupled, TypePartsNext
       DEF GoWithout, Is, Move, ObjectType, STypeOK, memory, queue
<1>3. CASE Fail(w, i)
  BY <1>0, <1>3, OverMoves, TypePartsNext DEF Fail, Move, ObjectType, STypeOK, notes, memory
<1> QED BY <1>0, <1>1, <1>2, <1>3, StartType, CreatesType, DeletesType, TypePartsNext DEF Performs

LEMMA DroppedType == ASSUME STypeOK, NEW w \in Loop, Dropped(w) PROVE STypeOK'
<1>0. TypeOK'
  BY NextType DEF Dropped, Next, STypeOK
<1>1. at' \in [Loop -> [Id -> Perform]]
  BY RestType DEF Dropped, STypeOK
<1>2. Coupled'
  <2>1. ASSUME NEW v \in Loop, NEW k \in Id
        PROVE (Is(v, k, "idle") = ~At(v, k, "working"))'
    <3>1. CASE v = w
      <4>1. at'[v][k] = Rest /\ task'[v][k] = NoTask
        BY <3>1 DEF Dropped, Drop, STypeOK, TypeOK
      <4> QED BY <4>1, RestType DEF Is, At, NoTask
    <3>2. CASE v # w
      <4>1. at'[v][k] = at[v][k] /\ task'[v][k] = task[v][k]
        BY <3>2 DEF Dropped, Drop, STypeOK, TypeOK
      <4> QED BY <4>1 DEF Is, At, STypeOK
    <3> QED BY <3>1, <3>2
  <2> QED BY <2>1 DEF Coupled
<1>3. missed' \in Nat
  <2> DEFINE S == {i \in Id : at[w][i].pc \in {"count", "uncount"}}
  <2>1. IsFiniteSet(S)
    BY FS_Subset, QueueAssumption
  <2>2. Cardinality(S) \in Nat
    BY <2>1, FS_CardinalityType
  <2>3. missed' = missed + Cardinality(S)
    BY DEF Dropped
  <2>4. missed \in Nat
    BY DEF STypeOK
  <2> QED BY <2>2, <2>3, <2>4
<1>4. ObjectType'
  BY <1>3 DEF Dropped, ObjectType, STypeOK, memory
<1> QED BY <1>0, <1>1, <1>2, <1>4, TypePartsNext

LEMMA StillCoupled == ASSUME STypeOK, UNCHANGED at, task' = task
                      PROVE  at' \in [Loop -> [Id -> Perform]] /\ Coupled'
  BY DEF STypeOK, Coupled, Is, At

LEMMA StatusType == ASSUME STypeOK, [SNext]_svars PROVE STypeOK'
<1>0. TypeOK'
  BY StatusStep, NextType DEF STypeOK
<1>1. CASE Rows /\ UNCHANGED object
  <2>1. at' \in [Loop -> [Id -> Perform]] /\ Coupled'
    BY <1>1, RowsCoupled DEF object, STypeOK
  <2>2. ObjectType'
    BY <1>1 DEF object, notes, memory, ObjectType, STypeOK
  <2> QED BY <1>0, <2>1, <2>2, TypePartsNext
<1>2. CASE FreeLock \/ AutoRelease
  <2>1. UNCHANGED at /\ task' = task
    BY <1>2 DEF FreeLock, AutoRelease, queue
  <2>2. ObjectType'
    BY <1>2 DEF FreeLock, AutoRelease, notes, memory, ObjectType, STypeOK
  <2> QED BY <1>0, <2>1, <2>2, StillCoupled, TypePartsNext
<1>3. CASE Expire
  <2>1. lost' \in 0..MaxLost
    BY <1>3, StatusAssumption DEF Expire, Lost, STypeOK
  <2>2. UNCHANGED at /\ task' = task
    BY <1>3 DEF Expire, queue
  <2>3. ObjectType'
    BY <1>3, <2>1 DEF Expire, ObjectType, STypeOK
  <2> QED BY <1>0, <2>2, <2>3, StillCoupled, TypePartsNext
<1>4. CASE UNCHANGED svars
  <2>1. UNCHANGED at /\ task' = task
    BY <1>4 DEF svars, object, queue
  <2>2. ObjectType'
    BY <1>4 DEF svars, object, notes, memory, ObjectType, STypeOK
  <2> QED BY <1>0, <2>1, <2>2, StillCoupled, TypePartsNext
<1> QED BY <1>1, <1>2, <1>3, <1>4, PerformsType, DroppedType DEF SNext

\* The variables have their types: a perform is at work just when the queue says
\* so, and the author's count is never below nought (on_status_deleted).
THEOREM StatusTypeCorrect == SSpec => []STypeOK
<1>1. SInit => STypeOK
  <2>1. ASSUME SInit PROVE STypeOK
    <3>1. TypeOK
      BY <2>1, InitType DEF SInit
    <3>2. at \in [Loop -> [Id -> Perform]]
      BY <2>1, RestType DEF SInit
    <3>3. Coupled
      BY <2>1, RestType DEF SInit, Init, NoTask, Coupled, Is, At
    <3>4. ObjectType
      <4>1. others \in Nat /\ count \in Nat
        BY <2>1 DEF SInit
      <4>2. lost \in 0..MaxLost
        BY <2>1, StatusAssumption DEF SInit
      <4>3. announced \in Nat /\ missed \in Nat
        BY <2>1 DEF SInit
      <4>4. arrived \in BOOLEAN /\ buried \in BOOLEAN /\ handled \in BOOLEAN /\ unlocked \in BOOLEAN
        BY <2>1 DEF SInit
      <4> QED BY <2>1, <4>1, <4>2, <4>3, <4>4 DEF SInit, ObjectType
    <3> QED BY <3>1, <3>2, <3>3, <3>4, TypeParts
  <2> QED BY <2>1
<1>2. STypeOK /\ [SNext]_svars => STypeOK'
  BY StatusType
<1> QED BY <1>1, <1>2, PTL DEF SSpec

-----------------------------------------------------------------------------
(* Announced once *)

\* A step after which nobody publishes who did not before.
LEMMA GoGoes ==
    ASSUME STypeOK, NEW w \in Loop, NEW i \in Id, NEW pc \in Step, Go(w, i, pc)
    PROVE  \E p \in Perform : Move(w, i, p) /\ p.pc = pc
<1>1. [pc |-> pc, seen |-> at[w][i].seen] \in Perform
  BY DEF Perform, STypeOK
<1> QED BY <1>1, GoMoves

LEMMA ThenGoes ==
    ASSUME STypeOK, NEW w \in Loop, NEW i \in Id, NEW over \in BOOLEAN, NEW pc \in Step,
           Then(w, i, over, pc)
    PROVE  \E p \in Perform : Move(w, i, p) /\ p.pc = IF over THEN "idle" ELSE pc
<1>1. CASE over
  BY <1>1, OverMoves, RestType DEF Then
<1>2. CASE ~over
  BY <1>2, GoGoes DEF Then
<1> QED BY <1>1, <1>2

LEMMA AnnouncedKept ==
    ASSUME Announced, announced' = announced, status' = "none" <=> status = "none",
           \A v \in Loop, k \in Id : Publishing(v, k)' => Publishing(v, k)
    PROVE  Announced'
  BY DEF Announced

LEMMA MoveKeeps ==
    ASSUME Announced, announced' = announced, status' = "none" <=> status = "none",
           NEW w \in Loop, NEW i \in Id, NEW p, Move(w, i, p),
           p.pc \in {"count", "distribute"} => Publishing(w, i)
    PROVE  Announced'
<1>1. ASSUME NEW v \in Loop, NEW k \in Id, Publishing(v, k)' PROVE Publishing(v, k)
  BY <1>1 DEF Move, Publishing
<1> QED BY <1>1, AnnouncedKept

LEMMA InsertAnnounces ==
    ASSUME STypeOK, Announced, NEW w \in Loop, NEW i \in Id, Insert(w, i) PROVE Announced'
<1>1. CASE status # "none"
  <2>1. Move(w, i, Rest)
    BY <1>1, OverMoves DEF Insert, Then
  <2> QED BY <1>1, <2>1, RestType, MoveKeeps DEF Insert, notes
<1>2. CASE status = "none"
  <2>1. Move(w, i, [pc |-> "count", seen |-> at[w][i].seen])
    BY <1>2, GoMoves DEF Insert, Then, Step
  <2>2. status' = "live" /\ announced' = announced /\ announced = 0
    BY <1>2 DEF Insert, notes, Announced
  <2>3. \A v \in Loop, k \in Id : ~Publishing(v, k)
    BY <1>2 DEF Announced
  <2>4. \A v \in Loop, k \in Id : Publishing(v, k)' => v = w /\ k = i
    BY <2>1, <2>3 DEF Move, Publishing
  <2> QED BY <2>2, <2>4 DEF Announced
<1> QED BY <1>1, <1>2

LEMMA DistributeAnnounces ==
    ASSUME STypeOK, Announced, NEW w \in Loop, NEW i \in Id, Distribute(w, i) PROVE Announced'
<1>1. Publishing(w, i)
  BY DEF Distribute, Is, Publishing
<1>2. announced = 0 /\ status # "none"
  BY <1>1 DEF Announced
<1>3. announced' = 1 /\ status' = status
  BY <1>2 DEF Distribute
<1>4. Move(w, i, Rest)
  BY OverMoves DEF Distribute
<1>5. \A v \in Loop, k \in Id : ~Publishing(v, k)'
  BY <1>1, <1>4, RestType DEF Move, Publishing, Announced
<1> QED BY <1>2, <1>3, <1>5 DEF Announced

LEMMA PerformsAnnounce ==
    ASSUME STypeOK, Announced, NEW w \in Loop, NEW i \in Id, Performs(w, i) PROVE Announced'
<1> USE DEF Step
<1> DEFINE go(pc) == [pc |-> pc, seen |-> at[w][i].seen]
<1>1. CASE Start(w, i)
  <2>1. Move(w, i, go("lock"))
    BY <1>1, GoMoves DEF Start
  <2> QED BY <1>1, <2>1, MoveKeeps DEF Start, notes
<1>2. CASE TakeLock(w, i) \/ GoWithout(w, i)
  <2>1. AfterLock(i) \in {"arrived", "read"}
    BY DEF AfterLock
  <2>2. Move(w, i, go(AfterLock(i)))
    BY <1>2, <2>1, GoMoves DEF TakeLock, GoWithout
  <2> QED BY <1>2, <2>1, <2>2, MoveKeeps DEF TakeLock, GoWithout, notes
<1>3. CASE Fail(w, i) \/ Decline(w, i) \/ Bury(w, i)
  <2>1. Move(w, i, Rest)
    BY <1>3, OverMoves DEF Decline, Bury
  <2>2. announced' = announced /\ status' = status
    BY <1>3 DEF Fail, Decline, Bury, notes
  <2> QED BY <2>1, <2>2, RestType, MoveKeeps
<1>4. CASE AskArrived(w, i)
  <2>1. Move(w, i, Rest) \/ Move(w, i, go("tombstone"))
    BY <1>4, OverMoves, GoMoves DEF AskArrived, Then
  <2>2. announced' = announced /\ status' = status
    BY <1>4 DEF AskArrived, notes
  <2>3. CASE Move(w, i, Rest)
    BY <2>3, <2>2, RestType, MoveKeeps
  <2>4. CASE Move(w, i, go("tombstone"))
    BY <2>4, <2>2, MoveKeeps
  <2> QED BY <2>1, <2>3, <2>4
<1>5. CASE AskTombstone(w, i)
  <2>1. Move(w, i, Rest) \/ Move(w, i, go("insert"))
    BY <1>5, OverMoves, GoMoves DEF AskTombstone, Then
  <2>2. announced' = announced /\ status' = status
    BY <1>5 DEF AskTombstone, notes
  <2>3. CASE Move(w, i, Rest)
    BY <2>3, <2>2, RestType, MoveKeeps
  <2>4. CASE Move(w, i, go("insert"))
    BY <2>4, <2>2, MoveKeeps
  <2> QED BY <2>1, <2>3, <2>4
<1>6. CASE Count(w, i)
  <2>1. Move(w, i, go("distribute")) /\ Publishing(w, i)
    BY <1>6, GoMoves DEF Count, Is, Publishing
  <2> QED BY <1>6, <2>1, MoveKeeps DEF Count
<1>7. CASE Read(w, i)
  <2>1. [pc |-> "remove", seen |-> status = "live"] \in Perform
    BY DEF Perform
  <2>2. Move(w, i, [pc |-> "remove", seen |-> status = "live"])
    BY <1>7, <2>1, SetMoves DEF Read
  <2> QED BY <1>7, <2>2, MoveKeeps DEF Read, notes
<1>8. CASE Remove(w, i)
  <2> DEFINE pc == IF at[w][i].seen THEN "uncount" ELSE IF status = "none" THEN "remember" ELSE "bury"
  <2>1. Move(w, i, go(pc))
    BY <1>8, GoMoves DEF Remove
  <2> QED BY <1>8, <2>1, MoveKeeps DEF Remove, notes
<1>9. CASE Uncount(w, i) \/ Remember(w, i)
  <2>1. Move(w, i, go("bury"))
    BY <1>9, GoMoves DEF Uncount, Remember
  <2> QED BY <1>9, <2>1, MoveKeeps DEF Uncount, Remember
<1> QED BY <1>1, <1>2, <1>3, <1>4, <1>5, <1>6, <1>7, <1>8, <1>9,
           InsertAnnounces, DistributeAnnounces DEF Performs, Creates, Deletes

LEMMA NextAnnounced == ASSUME STypeOK, Announced, [SNext]_svars PROVE Announced'
<1>1. CASE \E w \in Loop : Dropped(w)
  <2>1. ASSUME NEW v \in Loop, NEW k \in Id, Publishing(v, k)' PROVE Publishing(v, k)
    BY <1>1, <2>1, RestType DEF Dropped, STypeOK, Publishing
  <2> QED BY <1>1, <2>1, AnnouncedKept DEF Dropped
<1>2. CASE UNCHANGED <<at, status, announced>>
  BY <1>2 DEF Announced, Publishing
<1> QED BY <1>1, <1>2, PerformsAnnounce
     DEF SNext, FreeLock, AutoRelease, Expire, svars, object, notes

Creating == {"arrived", "tombstone", "insert", "count", "distribute"}
Made == \A w \in Loop, i \in Id : at[w][i].pc \in Creating => Kind[i] = "create"

\* What a status that is there may have been left unannounced for.
Excused == faults > 0 \/ \E i \in Id : Kind[i] = "create" /\ failures[i] > 0
Told == status # "none" /\ announced = 0 => Excused \/ \E w \in Loop, i \in Id : Publishing(w, i)

\* No fault and no failure is forgotten.
LEMMA ExcusedStays == ASSUME TypeOK, [Next]_queue, Excused PROVE Excused'
<1>1. faults' \in {faults, faults + 1}
  BY DEF Next, Rows, Enqueue, LeaseEnds, Overrun, Cleanup, Claim, Record, RecordLost, Begin, PerformOk,
         PerformFails, Drop, Misfortune, Fault, queue
<1>2. \A i \in Id : failures[i] \in Nat /\ failures'[i] \in {failures[i], failures[i] + 1}
  <2>1. failures \in [Id -> Nat]
    BY DEF TypeOK
  <2>2. CASE UNCHANGED failures
    BY <2>1, <2>2
  <2>3. ASSUME NEW w \in Loop, NEW k \in Id, PerformFails(w, k)
        PROVE  \A i \in Id : failures[i] \in Nat /\ failures'[i] \in {failures[i], failures[i] + 1}
    BY <2>1, <2>3 DEF PerformFails
  <2> QED BY <2>2, <2>3
       DEF Next, Rows, Enqueue, LeaseEnds, Overrun, Cleanup, Claim, Record, RecordLost, Begin, PerformOk,
           Drop, Misfortune, queue
<1>3. faults \in Nat
  BY QueueAssumption DEF TypeOK
<1> QED BY <1>1, <1>2, <1>3 DEF Excused

\* Where a perform goes that creates, or fans out.
LEMMA PerformsCreate ==
    ASSUME STypeOK, NEW w \in Loop, NEW i \in Id, Performs(w, i)
    PROVE  \E p \in Perform :
              /\ Move(w, i, p)
              /\ p.pc \in Creating => at[w][i].pc \in Creating \/ Kind[i] = "create"
              /\ Publishing(w, i) => \/ p.pc = "distribute" \/ announced' = announced + 1
                                     \/ failures' = [failures EXCEPT ![i] = @ + 1]
              /\ status = "none" => status' = "none" \/ p.pc = "count"
<1> USE DEF Step
<1>1. CASE Start(w, i)
  <2>1. PICK p \in Perform : Move(w, i, p) /\ p.pc = "lock"
    BY <1>1, GoGoes DEF Start
  <2>2. ~At(w, i, "working") /\ status' = status
    BY <1>1 DEF Start, Begin, Enter, At
  <2>3. ~Publishing(w, i)
    BY <2>2 DEF STypeOK, Is, Publishing
  <2> QED BY <2>1, <2>2, <2>3 DEF Creating
<1>2. CASE TakeLock(w, i) \/ GoWithout(w, i)
  <2>1. AfterLock(i) \in Step /\ Go(w, i, AfterLock(i))
    BY <1>2 DEF TakeLock, GoWithout, AfterLock
  <2>2. PICK p \in Perform : Move(w, i, p) /\ p.pc = AfterLock(i)
    BY <2>1, GoGoes
  <2>3. p.pc \in Creating => Kind[i] = "create"
    BY <2>2 DEF AfterLock, Creating
  <2>4. ~Publishing(w, i) /\ status' = status
    BY <1>2 DEF TakeLock, GoWithout, Is, Publishing
  <2> QED BY <2>2, <2>3, <2>4
<1>3. CASE Fail(w, i) \/ Decline(w, i) \/ Bury(w, i) \/ Distribute(w, i)
  <2>1. Move(w, i, Rest) /\ status' = status
    BY <1>3, OverMoves DEF Fail, Decline, Bury, Distribute
  <2>2. Publishing(w, i) => \/ announced' = announced + 1
                            \/ failures' = [failures EXCEPT ![i] = @ + 1]
    BY <1>3 DEF Fail, Decline, Bury, Distribute, PerformFails, Is, Publishing
  <2> QED BY <2>1, <2>2, RestType DEF Creating
<1>4. CASE AskArrived(w, i) \/ AskTombstone(w, i)
  <2>1. \E p \in Perform : Move(w, i, p) /\ p.pc \in {"idle", "tombstone", "insert"}
    <3>1. CASE Then(w, i, arrived, "tombstone")
      <4>1. arrived \in BOOLEAN /\ "tombstone" \in Step
        BY DEF STypeOK
      <4>2. \E p \in Perform : Move(w, i, p) /\ p.pc = IF arrived THEN "idle" ELSE "tombstone"
        BY <3>1, <4>1, ThenGoes
      <4> QED BY <4>2
    <3>2. CASE Go(w, i, "tombstone")
      BY <3>2, GoGoes
    <3>3. CASE Then(w, i, buried, "insert")
      <4>1. buried \in BOOLEAN /\ "insert" \in Step
        BY DEF STypeOK
      <4>2. \E p \in Perform : Move(w, i, p) /\ p.pc = IF buried THEN "idle" ELSE "insert"
        BY <3>3, <4>1, ThenGoes
      <4> QED BY <4>2
    <3> QED BY <1>4, <3>1, <3>2, <3>3 DEF AskArrived, AskTombstone
  <2>2. /\ at[w][i].pc \in {"arrived", "tombstone"} /\ status' = status
        /\ ~Publishing(w, i)
    BY <1>4 DEF AskArrived, AskTombstone, Is, Publishing
  <2> QED BY <2>1, <2>2 DEF Creating
<1>5. CASE Insert(w, i)
  <2> DEFINE over == status # "none"
  <2>1. Then(w, i, over, "count") /\ over \in BOOLEAN /\ "count" \in Step
    BY <1>5 DEF Insert
  <2>2. PICK p \in Perform : Move(w, i, p) /\ p.pc = IF over THEN "idle" ELSE "count"
    <3> HIDE DEF over
    <3> QED BY <2>1, ThenGoes
  <2>3. at[w][i].pc \in Creating /\ ~Publishing(w, i)
    BY <1>5 DEF Insert, Is, Creating, Publishing
  <2> QED BY <2>2, <2>3
<1>6. CASE Count(w, i)
  <2>1. PICK p \in Perform : Move(w, i, p) /\ p.pc = "distribute"
    BY <1>6, GoGoes DEF Count
  <2>2. at[w][i].pc \in Creating /\ status' = status
    BY <1>6 DEF Count, Is, Creating
  <2> QED BY <2>1, <2>2
<1>7. CASE Read(w, i)
  <2>1. [pc |-> "remove", seen |-> status = "live"] \in Perform
    BY DEF Perform
  <2>2. PICK p \in Perform : Move(w, i, p) /\ p.pc = "remove"
    BY <1>7, <2>1, SetMoves DEF Read
  <2>3. ~Publishing(w, i) /\ status' = status
    BY <1>7 DEF Read, Is, Publishing
  <2> QED BY <2>2, <2>3 DEF Creating
<1>8. CASE Remove(w, i)
  <2> DEFINE pc == IF at[w][i].seen THEN "uncount" ELSE IF status = "none" THEN "remember" ELSE "bury"
  <2>1. Go(w, i, pc) /\ pc \in Step /\ pc \notin Creating
    BY <1>8 DEF Remove, Creating
  <2>2. PICK p \in Perform : Move(w, i, p) /\ p.pc = pc
    <3> HIDE DEF pc
    <3> QED BY <2>1, GoGoes
  <2>3. ~Publishing(w, i) /\ (status = "none" => status' = "none")
    BY <1>8 DEF Remove, Is, Publishing
  <2> QED BY <2>1, <2>2, <2>3
<1>9. CASE Uncount(w, i) \/ Remember(w, i)
  <2>1. PICK p \in Perform : Move(w, i, p) /\ p.pc = "bury"
    BY <1>9, GoGoes DEF Uncount, Remember
  <2>2. ~Publishing(w, i) /\ status' = status
    BY <1>9 DEF Uncount, Remember, Is, Publishing
  <2> QED BY <2>1, <2>2 DEF Creating
<1> QED BY <1>1, <1>2, <1>3, <1>4, <1>5, <1>6, <1>7, <1>8, <1>9 DEF Performs, Creates, Deletes

LEMMA NextTold ==
    ASSUME STypeOK, Announced, Made, Told, [SNext]_svars PROVE Made' /\ Told'
<1>0. Excused => Excused'
  BY StatusStep, ExcusedStays DEF STypeOK
<1>1. ASSUME NEW w \in Loop, NEW i \in Id, Performs(w, i) PROVE Made' /\ Told'
  <2>1. PICK p \in Perform :
              /\ Move(w, i, p)
              /\ p.pc \in Creating => at[w][i].pc \in Creating \/ Kind[i] = "create"
              /\ Publishing(w, i) => \/ p.pc = "distribute" \/ announced' = announced + 1
                                     \/ failures' = [failures EXCEPT ![i] = @ + 1]
              /\ status = "none" => status' = "none" \/ p.pc = "count"
    BY <1>1, PerformsCreate
  <2>2. Made'
    BY <2>1 DEF Made, Move
  <2>3. announced \in Nat /\ announced' \in {announced, announced + 1}
    BY <1>1 DEF STypeOK, Performs, Start, TakeLock, GoWithout, Fail, Creates, AskArrived, AskTombstone,
         Decline, Insert, Count, Distribute, Deletes, Read, Remove, Uncount, Remember, Bury, notes
  <2>4. CASE p.pc \in {"count", "distribute"}
    <3>1. Publishing(w, i)'
      BY <2>1, <2>4 DEF Move, Publishing
    <3> QED BY <2>2, <3>1 DEF Told
  <2>5. CASE p.pc \notin {"count", "distribute"} /\ Publishing(w, i)
    <3>1. CASE announced' = announced + 1
      BY <2>2, <2>3, <3>1 DEF Told
    <3>2. CASE failures' = [failures EXCEPT ![i] = @ + 1]
      <4>1. failures'[i] = failures[i] + 1 /\ failures[i] \in Nat
        BY <3>2 DEF STypeOK, TypeOK
      <4>2. Kind[i] = "create"
        BY <2>5 DEF Made, Publishing, Creating
      <4>3. Excused'
        BY <4>1, <4>2 DEF Excused
      <4> QED BY <2>2, <4>3 DEF Told
    <3> QED BY <2>1, <2>5, <3>1, <3>2
  <2>6. CASE p.pc \notin {"count", "distribute"} /\ ~Publishing(w, i)
    <3>1. \A v \in Loop, k \in Id : Publishing(v, k) => Publishing(v, k)'
      BY <2>1, <2>6 DEF Move, Publishing
    <3>2. status' # "none" /\ announced' = 0 => status # "none" /\ announced = 0
      BY <2>1, <2>3, <2>6
    <3>3. Told'
      BY <1>0, <3>1, <3>2 DEF Told
    <3> QED BY <2>2, <3>3
  <2> QED BY <2>4, <2>5, <2>6
<1>2. ASSUME NEW w \in Loop, Dropped(w) PROVE Made' /\ Told'
  <2>1. \A v \in Loop, k \in Id : at'[v][k].pc \in Creating => at[v][k].pc \in Creating
    BY <1>2, RestType DEF Dropped, STypeOK, Creating
  <2>2. faults \in Nat /\ faults' = faults + 1
    BY <1>2, QueueAssumption DEF Dropped, Drop, Fault, STypeOK, TypeOK
  <2>3. Excused'
    BY <2>2 DEF Excused
  <2> QED BY <2>1, <2>3 DEF Made, Told
<1>3. CASE UNCHANGED <<at, status, announced>>
  BY <1>0, <1>3 DEF Made, Told, Publishing
<1> QED BY <1>1, <1>2, <1>3 DEF SNext, FreeLock, AutoRelease, Expire, svars, object, notes

\* The status is fanned out at most once: the row that keeps its uri lets one
\* perform past the INSERT, and only once, however the performs overlap, fail or
\* die, with the lock or without it (create: ON CONFLICT (uri) DO NOTHING); and it is
\* passed over only when that perform failed or was dropped in between.
THEOREM StatusAnnouncedOnce == SSpec => []AnnouncedOnce
<1>1. SInit => Announced /\ Made /\ Told
  BY RestType DEF SInit, Announced, Publishing, Made, Told, Creating
<1>2. STypeOK /\ Announced /\ Made /\ Told /\ [SNext]_svars => (Announced /\ Made /\ Told)'
  BY NextAnnounced, NextTold
<1>3. Announced /\ Told => AnnouncedOnce
  BY DEF Announced, Told, Excused, Publishing, AnnouncedOnce
<1> QED BY <1>1, <1>2, <1>3, StatusTypeCorrect, PTL DEF SSpec

-----------------------------------------------------------------------------
(* A Delete wins *)

LEMMA MoveSeen ==
    ASSUME STypeOK, Seen, NEW w \in Loop, NEW i \in Id, NEW p, Move(w, i, p),
           p.seen => status' # "none", status # "none" => status' # "none"
    PROVE  Seen'
<1>1. ASSUME NEW v \in Loop, NEW k \in Id, at'[v][k].seen PROVE status' # "none"
  <2>1. CASE v = w /\ k = i
    BY <1>1, <2>1 DEF Move
  <2>2. CASE ~(v = w /\ k = i)
    BY <1>1, <2>2 DEF Move, Seen
  <2> QED BY <2>1, <2>2
<1> QED BY <1>1 DEF Seen

LEMMA IdleKnows == ASSUME NEW w \in Loop, NEW i \in Id, ~Past(w, i)' PROVE Knows(w, i)'
  BY DEF Past, Knows, Is

\* A step of the perform that holds the lock: no other is past it.
LEMMA HolderDeletes ==
    ASSUME STypeOK, Deleted, ~unlocked, NEW w \in Loop, NEW i \in Id, NEW p,
           Past(w, i), Move(w, i, p), lock' = lock \/ p.pc = "idle",
           Memory', Knows(w, i)'
    PROVE  Locked' /\ Memory' /\ \A v \in Loop, k \in Id : Knows(v, k)'
<1>1. ASSUME NEW v \in Loop, NEW k \in Id, ~(v = w /\ k = i) PROVE ~Past(v, k)'
  <2>1. ~Past(v, k)
    BY <1>1 DEF Deleted, Locked, Holds
  <2>2. at'[v][k] = at[v][k]
    BY <1>1 DEF Move
  <2> QED BY <2>1, <2>2 DEF Past
<1>2. Past(w, i)' => Holds(w, i)'
  BY DEF Deleted, Locked, Holds, Past, Move
<1>3. Locked'
  BY <1>1, <1>2 DEF Locked
<1>4. \A v \in Loop, k \in Id : Knows(v, k)'
  BY <1>1, IdleKnows
<1> QED BY <1>3, <1>4

\* A perform that returns or fails, and changes nothing else.
LEMMA OverDeletes ==
    ASSUME STypeOK, Deleted, NEW w \in Loop, NEW i \in Id, Past(w, i), Move(w, i, Rest),
           UNCHANGED <<status, arrived, buried, handled, unlocked, lost>>
    PROVE  Deleted'
<1>1. Seen'
  BY MoveSeen DEF Deleted, Rest
<1>2. CASE ~unlocked
  <2>1. Memory'
    BY <1>2 DEF Deleted, Memory
  <2>2. Knows(w, i)'
    BY RestType, IdleKnows DEF Past, Move
  <2> QED BY <1>1, <1>2, <2>1, <2>2, HolderDeletes, RestType DEF Deleted
<1> QED BY <1>1, <1>2 DEF Deleted

LEMMA LostInt == STypeOK => lost \in Int
  BY StatusAssumption DEF STypeOK

LEMMA ArrivedDeletes == ASSUME STypeOK, Deleted, NEW w \in Loop, NEW i \in Id, AskArrived(w, i)
                        PROVE  Deleted'
<1> DEFINE q == [pc |-> "tombstone", seen |-> at[w][i].seen]
<1>0. Past(w, i) /\ status' = status /\ arrived' = arrived /\ buried' = buried
  BY DEF AskArrived, Is, Past, memory
<1>1. CASE Then(w, i, arrived, "tombstone") /\ UNCHANGED notes /\ arrived
  BY <1>0, <1>1, OverMoves, OverDeletes DEF Then, notes
<1>2. ASSUME Go(w, i, "tombstone"), lock' = lock, handled' = handled, unlocked' = unlocked,
             (lost' = lost /\ ~arrived) \/ lost' = lost + 1
      PROVE  Deleted'
  <2>1. Move(w, i, q)
    BY <1>2, GoMoves DEF Step
  <2>2. Seen'
    BY <1>0, <2>1, MoveSeen DEF Deleted, Seen
  <2>3. CASE ~unlocked
    <3>1. Memory /\ lost \in Int
      BY <2>3, LostInt DEF Deleted
    <3>2. Memory'
      BY <1>0, <1>2, <3>1 DEF Memory
    <3>3. handled /\ status = "none" => buried \/ lost' >= 2
      BY <1>2, <3>1 DEF Memory
    <3>4. Knows(w, i)'
      BY <1>0, <1>2, <2>1, <3>3 DEF Move, Knows, Is
    <3> QED BY <1>0, <1>2, <2>1, <2>2, <2>3, <3>2, <3>4, HolderDeletes DEF Deleted
  <2> QED BY <2>2, <2>3, <1>2 DEF Deleted
<1>3. CASE Then(w, i, arrived, "tombstone") /\ UNCHANGED notes /\ ~arrived
  BY <1>2, <1>3 DEF Then, notes
<1> QED BY <1>1, <1>2, <1>3 DEF AskArrived

\* A step that goes on, and touches no memory of a Delete.
LEMMA GoDeletes ==
    ASSUME STypeOK, Deleted, NEW w \in Loop, NEW i \in Id, NEW p, Past(w, i), Move(w, i, p),
           p.seen => status' # "none", status # "none" => status' # "none",
           UNCHANGED <<lock, handled, unlocked>>,
           ~unlocked => Memory' /\ Knows(w, i)'
    PROVE  Deleted'
<1>1. Seen'
  BY MoveSeen DEF Deleted
<1> QED BY <1>1, HolderDeletes DEF Deleted

LEMMA CreatesDelete == ASSUME STypeOK, Deleted, NEW w \in Loop, NEW i \in Id, Creates(w, i)
                       PROVE  Deleted'
<1> USE DEF Step
<1> DEFINE go(pc) == [pc |-> pc, seen |-> at[w][i].seen]
<1>0. at[w][i].seen => status # "none"
  BY DEF Deleted, Seen
<1>1. CASE AskTombstone(w, i)
  <2>1. Past(w, i) /\ UNCHANGED <<status, memory, count, notes>> /\ Is(w, i, "tombstone")
    BY <1>1 DEF AskTombstone, Is, Past
  <2>2. CASE buried
    BY <1>1, <2>1, <2>2, OverMoves, OverDeletes DEF AskTombstone, Then, notes, memory
  <2>3. CASE ~buried
    <3>1. Move(w, i, go("insert")) /\ lock' = lock
      BY <1>1, <2>3, GoMoves DEF AskTombstone, Then
    <3>2. ASSUME ~unlocked PROVE Memory' /\ Knows(w, i)'
      <4>1. Memory'
        BY <2>1, <3>2 DEF Deleted, Memory, notes, memory
      <4>2. handled /\ status = "none" => lost >= 2
        BY <2>1, <2>3, <3>2 DEF Deleted, Knows
      <4> QED BY <2>1, <3>1, <4>1, <4>2 DEF Knows, Is, Move, notes
    <3> QED BY <1>0, <2>1, <3>1, <3>2, GoDeletes DEF notes
  <2> QED BY <2>2, <2>3
<1>2. CASE Decline(w, i) \/ Distribute(w, i)
  BY <1>2, OverMoves, OverDeletes DEF Decline, Distribute, Is, Past, notes, memory
<1>3. CASE Insert(w, i)
  <2>1. Past(w, i) /\ UNCHANGED <<memory, count, notes>> /\ Is(w, i, "insert")
    BY <1>3 DEF Insert, Is, Past
  <2>2. CASE status # "none"
    BY <1>3, <2>1, <2>2, OverMoves, OverDeletes DEF Insert, Then, notes, memory
  <2>3. CASE status = "none"
    <3>1. Move(w, i, go("count")) /\ lock' = lock /\ status' = "live"
      BY <1>3, <2>3, GoMoves DEF Insert, Then
    <3>2. ASSUME ~unlocked PROVE Memory' /\ Knows(w, i)'
      <4>1. handled => lost >= 2
        BY <2>1, <2>3, <3>2 DEF Deleted, Knows
      <4> QED BY <2>1, <3>1, <4>1 DEF Memory, Knows, Is, Move, notes
    <3> QED BY <2>1, <3>1, <3>2, GoDeletes DEF notes
  <2> QED BY <2>2, <2>3
<1>4. CASE Count(w, i)
  <2>1. Past(w, i) /\ Move(w, i, go("distribute"))
    BY <1>4, GoMoves DEF Count, Is, Past
  <2>2. ASSUME ~unlocked PROVE Memory' /\ Knows(w, i)'
    BY <1>4, <2>1, <2>2 DEF Count, memory, Deleted, Memory, Knows, Is, Move
  <2> QED BY <1>0, <1>4, <2>1, <2>2, GoDeletes DEF Count
<1> QED BY <1>1, <1>2, <1>3, <1>4, ArrivedDeletes DEF Creates

LEMMA DeletesDelete == ASSUME STypeOK, Deleted, NEW w \in Loop, NEW i \in Id, Deletes(w, i)
                       PROVE  Deleted'
<1> USE DEF Step
<1> DEFINE go(pc) == [pc |-> pc, seen |-> at[w][i].seen]
<1>0. (at[w][i].seen => status # "none") /\ lost \in Int
  BY LostInt DEF Deleted, Seen
<1>1. CASE Read(w, i)
  <2> DEFINE q == [pc |-> "remove", seen |-> status = "live"]
  <2>1. Past(w, i) /\ q \in Perform /\ UNCHANGED <<lock, status, memory, count, notes>>
    BY <1>1 DEF Read, Is, Past, Perform
  <2>2. Move(w, i, q)
    BY <1>1, <2>1, SetMoves DEF Read
  <2>3. ASSUME ~unlocked PROVE Memory' /\ Knows(w, i)'
    BY <2>1, <2>2, <2>3 DEF notes, memory, Deleted, Memory, Knows, Is, Move
  <2> QED BY <2>1, <2>2, <2>3, GoDeletes DEF notes
<1>2. CASE Remove(w, i)
  <2> DEFINE pc == IF at[w][i].seen THEN "uncount" ELSE IF status = "none" THEN "remember" ELSE "bury"
  <2>1. Past(w, i) /\ Move(w, i, go(pc)) /\ UNCHANGED <<lock, memory, count, notes>>
    BY <1>2, GoMoves DEF Remove, Is, Past
  <2>2. status' = IF status = "none" THEN "none" ELSE "deleted"
    BY <1>2 DEF Remove
  <2>3. ASSUME ~unlocked PROVE Memory' /\ Knows(w, i)'
    <3>1. Memory'
      BY <2>1, <2>2, <2>3 DEF notes, memory, Deleted, Memory
    <3>2. Knows(w, i)'
      BY <1>0, <2>1, <2>2 DEF Knows, Is, Move
    <3> QED BY <3>1, <3>2
  <2> QED BY <1>0, <2>1, <2>2, <2>3, GoDeletes DEF notes
<1>3. CASE Uncount(w, i)
  <2>1. /\ Past(w, i) /\ Is(w, i, "uncount") /\ Move(w, i, go("bury"))
        /\ UNCHANGED <<lock, status, memory, others, handled, announced, unlocked, lost>>
    BY <1>3, GoMoves DEF Uncount, Is, Past
  <2>2. ASSUME ~unlocked PROVE Memory' /\ Knows(w, i)'
    <3>1. status = "deleted"
      BY <2>1, <2>2 DEF Deleted, Knows
    <3> QED BY <2>1, <3>1 DEF memory, Memory, Knows, Is, Move
  <2> QED BY <1>0, <2>1, <2>2, GoDeletes
<1>4. CASE Remember(w, i)
  <2>1. /\ Past(w, i) /\ Is(w, i, "remember") /\ Move(w, i, go("bury"))
        /\ UNCHANGED <<lock, status, buried, handled, unlocked>>
    BY <1>4, GoMoves DEF Remember, Is, Past
  <2>2. \/ arrived' = TRUE /\ lost' = lost
        \/ arrived' = arrived /\ lost' = lost + 1
    BY <1>4 DEF Remember, Lost
  <2>3. ASSUME ~unlocked PROVE Memory' /\ Knows(w, i)'
    <3>1. status = "none" /\ Memory
      BY <2>1, <2>3 DEF Deleted, Knows
    <3>2. CASE arrived' = TRUE /\ lost' = lost
      BY <2>1, <3>1, <3>2 DEF Memory, Knows, Is, Move
    <3>3. CASE arrived' = arrived /\ lost' = lost + 1
      <4>1. lost >= 0 /\ lost' >= 1
        BY <3>3, StatusAssumption DEF STypeOK
      <4> QED BY <1>0, <2>1, <3>1, <3>3, <4>1 DEF Memory, Knows, Is, Move
    <3> QED BY <2>2, <3>2, <3>3
  <2> QED BY <1>0, <2>1, <2>3, GoDeletes
<1>5. CASE Bury(w, i)
  <2>1. /\ Past(w, i) /\ Is(w, i, "bury") /\ Move(w, i, Rest)
        /\ UNCHANGED <<status, arrived, unlocked>> /\ handled' = TRUE
    BY <1>5, OverMoves DEF Bury, Is, Past
  <2>2. \/ buried' = TRUE /\ lost' = lost
        \/ buried' = buried /\ lost' = lost + 1
    BY <1>5 DEF Bury, Lost
  <2>3. Seen'
    BY <2>1, MoveSeen DEF Deleted, Rest
  <2>4. ASSUME ~unlocked PROVE Memory'
    <3>1. status # "live" /\ (status = "none" => arrived \/ lost >= 1)
      BY <2>1, <2>4 DEF Deleted, Knows
    <3>2. CASE buried' = TRUE /\ lost' = lost
      BY <2>1, <3>1, <3>2 DEF Memory
    <3>3. CASE buried' = buried /\ lost' = lost + 1
      <4>1. lost >= 0 /\ lost' >= 1 /\ (lost >= 1 => lost' >= 2)
        BY <3>3, StatusAssumption DEF STypeOK
      <4> QED BY <2>1, <3>1, <3>3, <4>1 DEF Memory
    <3> QED BY <2>2, <3>2, <3>3
  <2>5. Knows(w, i)'
    BY <2>1, RestType, IdleKnows DEF Past, Move
  <2> QED BY <2>1, <2>3, <2>4, <2>5, HolderDeletes, RestType DEF Deleted
<1> QED BY <1>1, <1>2, <1>3, <1>4, <1>5 DEF Deletes

LEMMA PerformsDelete == ASSUME STypeOK, Deleted, NEW w \in Loop, NEW i \in Id, Performs(w, i)
                        PROVE  Deleted'
<1> USE DEF Step
<1> DEFINE go(pc) == [pc |-> pc, seen |-> at[w][i].seen]
<1>1. CASE Start(w, i)
  <2>1. Move(w, i, go("lock")) /\ UNCHANGED <<lock, status, memory, count, notes>>
    BY <1>1, GoMoves DEF Start
  <2>2. Seen'
    BY <2>1, MoveSeen DEF Deleted, Seen
  <2>3. ASSUME NEW v \in Loop, NEW k \in Id, Past(v, k)'
        PROVE  at'[v][k] = at[v][k] /\ Past(v, k)
    BY <2>1, <2>3 DEF Move, Past
  <2>4. CASE ~unlocked
    <3>1. Locked' /\ Memory'
      BY <2>1, <2>3, <2>4 DEF Deleted, Locked, Holds, Memory, notes, memory
    <3>2. ASSUME NEW v \in Loop, NEW k \in Id PROVE Knows(v, k)'
      <4>1. CASE Past(v, k)'
        BY <2>1, <2>3, <2>4, <4>1 DEF Deleted, Knows, Is, notes, memory
      <4> QED BY <4>1, IdleKnows
    <3> QED BY <2>2, <3>1, <3>2 DEF Deleted
  <2> QED BY <2>1, <2>2, <2>4 DEF Deleted, notes
<1>2. CASE TakeLock(w, i)
  <2>1. Move(w, i, go(AfterLock(i))) /\ AfterLock(i) \in {"arrived", "read"}
    BY <1>2, GoMoves DEF TakeLock, AfterLock
  <2>2. UNCHANGED <<status, memory, count, notes>> /\ lock = None /\ lock' = <<w, i>>
    BY <1>2 DEF TakeLock
  <2>3. Seen'
    BY <2>1, <2>2, MoveSeen DEF Deleted, Seen
  <2>4. CASE ~unlocked
    <3>1. ASSUME NEW v \in Loop, NEW k \in Id PROVE ~Past(v, k)
      <4>1. <<v, k>> # None
        BY StatusAssumption
      <4> QED BY <2>2, <2>4, <4>1 DEF Deleted, Locked, Holds
    <3>2. ASSUME NEW v \in Loop, NEW k \in Id, Past(v, k)' PROVE v = w /\ k = i
      BY <2>1, <3>1, <3>2 DEF Move, Past
    <3>3. Locked'
      BY <2>2, <3>2 DEF Locked, Holds
    <3>4. Memory'
      BY <2>2, <2>4 DEF Deleted, Memory, notes, memory
    <3>5. Knows(w, i)'
      BY <2>1 DEF Knows, Is, Move
    <3>6. \A v \in Loop, k \in Id : Knows(v, k)'
      BY <3>2, <3>5, IdleKnows
    <3> QED BY <2>3, <3>3, <3>4, <3>6 DEF Deleted
  <2> QED BY <2>2, <2>3, <2>4 DEF Deleted, notes
<1>3. CASE GoWithout(w, i)
  <2>1. Move(w, i, go(AfterLock(i)))
    BY <1>3, GoMoves DEF GoWithout, AfterLock
  <2>2. Seen'
    BY <1>3, <2>1, MoveSeen DEF GoWithout, Deleted, Seen
  <2> QED BY <1>3, <2>2 DEF GoWithout, Deleted
<1>4. CASE Fail(w, i)
  BY <1>4, OverMoves, OverDeletes DEF Fail, Past, notes, memory
<1> QED BY <1>1, <1>2, <1>3, <1>4, CreatesDelete, DeletesDelete DEF Performs

LEMMA DroppedDeletes == ASSUME STypeOK, Deleted, NEW w \in Loop, Dropped(w) PROVE Deleted'
<1>1. \A v \in Loop, k \in Id : at'[v][k] = IF v = w THEN Rest ELSE at[v][k]
  BY DEF Dropped, STypeOK
<1>2. UNCHANGED <<status, arrived, buried, handled, unlocked, lost>>
  BY DEF Dropped, memory
<1>3. Seen'
  BY <1>1, <1>2 DEF Deleted, Seen, Rest
<1>4. CASE ~unlocked
  <2>1. ASSUME NEW v \in Loop, NEW k \in Id, Past(v, k)'
        PROVE  at'[v][k] = at[v][k] /\ Past(v, k) /\ Holds(v, k) /\ v # w
    BY <1>1, <1>4, <2>1, RestType DEF Past, Deleted, Locked
  <2>2. Locked'
    <3>1. ASSUME NEW v \in Loop, NEW k \in Id, Past(v, k)' PROVE Holds(v, k)'
      <4>1. Holds(v, k) /\ v # w
        BY <2>1, <3>1
      <4>2. ~\E i \in Id : Holds(w, i)
        BY <4>1 DEF Holds
      <4> QED BY <4>1, <4>2 DEF Dropped, Holds
    <3> QED BY <3>1 DEF Locked
  <2>3. Memory'
    BY <1>2, <1>4 DEF Deleted, Memory
  <2>4. ASSUME NEW v \in Loop, NEW k \in Id PROVE Knows(v, k)'
    <3>1. CASE Past(v, k)'
      BY <1>2, <1>4, <2>1, <3>1 DEF Deleted, Knows, Is
    <3> QED BY <3>1, IdleKnows
  <2> QED BY <1>3, <2>2, <2>3, <2>4 DEF Deleted
<1> QED BY <1>2, <1>3, <1>4 DEF Deleted

LEMMA NextDeleted == ASSUME STypeOK, Deleted, [SNext]_svars PROVE Deleted'
<1>1. CASE FreeLock
  <2>1. UNCHANGED <<at, status, memory, count, notes>> /\ lock = Nobody
    BY <1>1 DEF FreeLock
  <2>2. CASE ~unlocked
    <3>1. ASSUME NEW v \in Loop, NEW k \in Id PROVE ~Past(v, k)
      <4>1. <<v, k>> # Nobody
        BY StatusAssumption
      <4> QED BY <2>1, <2>2, <4>1 DEF Deleted, Locked, Holds
    <3> QED BY <2>1, <2>2, <3>1
         DEF Deleted, Seen, Locked, Past, Memory, Knows, Is, notes, memory
  <2> QED BY <2>1, <2>2 DEF Deleted, Seen, notes
<1>2. CASE AutoRelease
  BY <1>2 DEF AutoRelease, Deleted, Seen
<1>3. CASE Expire
  <2>1. /\ UNCHANGED <<at, lock, status, buried, handled, unlocked>> /\ arrived
        /\ arrived' = FALSE /\ lost' = lost + 1 /\ lost \in Int /\ lost >= 0
    BY <1>3, LostInt, StatusAssumption DEF Expire, Lost, STypeOK
  <2>2. CASE ~unlocked
    <3>1. Memory'
      <4>1. handled /\ status = "none" => lost >= 1 \/ buried
        BY <2>1, <2>2 DEF Deleted, Memory
      <4>2. lost' >= 1 /\ (lost >= 1 => lost' >= 2) /\ (lost >= 2 => lost' >= 2)
        BY <2>1
      <4>3. handled /\ status = "live" => lost' >= 2
        BY <2>2, <4>2 DEF Deleted, Memory
      <4> QED BY <2>1, <4>1, <4>2, <4>3 DEF Memory
    <3>2. ASSUME NEW v \in Loop, NEW k \in Id PROVE Knows(v, k)'
      <4>1. lost' >= 1 /\ (lost >= 2 => lost' >= 2)
        BY <2>1
      <4> QED BY <2>1, <2>2, <4>1 DEF Deleted, Knows, Is
    <3>3. Seen' /\ Locked'
      BY <2>1, <2>2 DEF Deleted, Seen, Locked, Past, Holds
    <3> QED BY <3>1, <3>2, <3>3 DEF Deleted
  <2> QED BY <2>1, <2>2 DEF Deleted, Seen
<1>4. CASE UNCHANGED <<at, lock, status, memory, handled, unlocked, lost>>
  BY <1>4 DEF Deleted, Seen, Locked, Past, Holds, Memory, Knows, Is, memory
<1> QED BY <1>1, <1>2, <1>3, <1>4, PerformsDelete, DroppedDeletes
     DEF SNext, svars, object, notes

\* A Delete that was handled wins over its Create, whichever is performed first,
\* again, or beside the other, in any number of loops: as long as the lock holds
\* and one of the Delete's two memories does (handle_delete, delete_arrived_first).
THEOREM HandledDeleteWins == SSpec => []DeleteWins
<1>1. SInit => Deleted
  BY RestType DEF SInit, Deleted, Seen, Rest, Locked, Past, Memory, Knows, Is
<1>2. STypeOK /\ Deleted /\ [SNext]_svars => Deleted'
  BY NextDeleted
<1>3. STypeOK /\ Deleted => DeleteWins
  <2>1. ASSUME STypeOK, Deleted, handled, ~unlocked, lost <= 1 PROVE status # "live"
    BY <2>1, LostInt DEF Deleted, Memory
  <2> QED BY <2>1 DEF DeleteWins
<1> QED BY <1>1, <1>2, <1>3, StatusTypeCorrect, PTL DEF SSpec

-----------------------------------------------------------------------------
(* Counted once *)

\* A status made or removed has still to be counted: by the one who holds the lock.
Owed(pc) == IF \E w \in Loop, i \in Id : Is(w, i, pc) THEN 1 ELSE 0
Live == IF status = "live" THEN 1 ELSE 0

\* The count, with what is owed, is right but for what was missed, by bounds `c`, `u`.
Balanced(c, u) == /\ others + Live - missed <= count + c - u
                  /\ count + c - u <= others + Live + missed

\* And what handle_delete has read is still so.
Books == ~unlocked => /\ \A w \in Loop, i \in Id :
                            Is(w, i, "remove") => (at[w][i].seen <=> status = "live")
                      /\ Balanced(Owed("count"), Owed("uncount"))

One(b) == IF b THEN 1 ELSE 0

LEMMA BookInts == ASSUME STypeOK PROVE /\ count \in Int /\ missed \in Int /\ others \in Int
                                       /\ Live \in {0, 1} /\ Live \in Int
                                       /\ count >= 0 /\ missed >= 0 /\ others >= 0
  BY DEF STypeOK, Live

\* Of a perform past the lock: what is owed is what it owes.
LEMMA HolderOwes ==
    ASSUME STypeOK, Deleted, Books, ~unlocked, NEW w \in Loop, NEW i \in Id, Past(w, i)
    PROVE  Balanced(One(Is(w, i, "count")), One(Is(w, i, "uncount")))
<1>1. ASSUME NEW v \in Loop, NEW k \in Id, Past(v, k) PROVE v = w /\ k = i
  BY <1>1 DEF Deleted, Locked, Holds
<1>2. \A pc \in {"count", "uncount"} : Owed(pc) = One(Is(w, i, pc))
  BY <1>1 DEF Owed, One, Is, Past
<1> QED BY <1>2 DEF Books

LEMMA HolderBooks ==
    ASSUME STypeOK, Deleted, ~unlocked, NEW w \in Loop, NEW i \in Id, Past(w, i),
           NEW p, Move(w, i, p),
           p.pc = "remove" => (p.seen <=> status' = "live"),
           Balanced(One(p.pc = "count"), One(p.pc = "uncount"))'
    PROVE  Books'
<1>1. ASSUME NEW v \in Loop, NEW k \in Id, Past(v, k)' PROVE v = w /\ k = i
  <2>1. CASE ~(v = w /\ k = i)
    <3>1. at'[v][k] = at[v][k]
      BY <2>1 DEF Move
    <3>2. ~Past(v, k)
      BY <2>1 DEF Deleted, Locked, Holds
    <3> QED BY <1>1, <3>1, <3>2 DEF Past
  <2> QED BY <2>1
<1>2. at'[w][i] = p
  BY DEF Move
<1>3. \A pc \in {"count", "uncount"} : Owed(pc)' = One(p.pc = pc)
  BY <1>1, <1>2 DEF Owed, One, Is, Past
<1>4. \A v \in Loop, k \in Id : Is(v, k, "remove")' => (at'[v][k].seen <=> status' = "live")
  BY <1>1, <1>2 DEF Is, Past
<1>5. Balanced(Owed("count"), Owed("uncount"))'
  BY <1>3 DEF Balanced
<1> QED BY <1>4, <1>5 DEF Books

\* A step of a perform that neither makes, removes nor counts.
LEMMA QuietBooks ==
    ASSUME STypeOK, Deleted, Books, ~unlocked, NEW w \in Loop, NEW i \in Id, Past(w, i),
           NEW p, Move(w, i, p), Live' = Live, UNCHANGED <<count, missed, others>>,
           p.pc = "remove" => (p.seen <=> status' = "live"),
           ~Is(w, i, "count"), ~Is(w, i, "uncount"), p.pc # "count", p.pc # "uncount"
    PROVE  Books'
<1>1. Balanced(0, 0)
  BY HolderOwes DEF One
<1>2. Balanced(0, 0)'
  BY <1>1 DEF Balanced
<1>3. Balanced(One(p.pc = "count"), One(p.pc = "uncount"))'
  <2>1. One(p.pc = "count") = 0 /\ One(p.pc = "uncount") = 0
    BY DEF One
  <2>2. (One(p.pc = "count"))' = One(p.pc = "count") /\ (One(p.pc = "uncount"))' = One(p.pc = "uncount")
    BY DEF One
  <2> QED BY <1>2, <2>1, <2>2 DEF Balanced
<1> QED BY <1>3, HolderBooks

\* A count that is made, or missed, by a perform past the lock.
LEMMA PaidBooks ==
    ASSUME STypeOK, STypeOK', Deleted, Books, ~unlocked, NEW w \in Loop, NEW i \in Id,
           Count(w, i) \/ Uncount(w, i)
    PROVE  Books'
<1>1. PICK p \in Perform : Move(w, i, p) /\ p.pc \in {"distribute", "bury"}
  BY GoGoes DEF Count, Uncount, Step
<1>2. Past(w, i) /\ UNCHANGED <<status, others>>
  BY DEF Count, Uncount, Is, Past
<1>3. Live' = Live
  BY <1>2 DEF Live
<1>4. Balanced(One(Is(w, i, "count")), One(Is(w, i, "uncount")))
  BY <1>2, HolderOwes
<1>5. Balanced(0, 0)'
  <2>1. CASE Count(w, i)
    <3>1. Balanced(1, 0)
      BY <1>4, <2>1 DEF Count, Is, One
    <3>2. count' + missed' = count + missed + 1 /\ count' \in {count, count + 1}
      BY <2>1, BookInts DEF Count
    <3>3. count' - missed' = count - missed + 1 \/ (count' = count /\ missed' = missed + 1)
      BY <2>1, BookInts DEF Count
    <3> QED BY <1>2, <1>3, <2>1, <3>1, BookInts DEF Balanced, Count
  <2>2. CASE Uncount(w, i)
    <3>1. Balanced(0, 1)
      BY <1>4, <2>2 DEF Uncount, Is, One
    <3>2. \/ count # 0 /\ count' = count - 1 /\ missed' = missed
          \/ count = 0 /\ count' = 0 /\ missed' = missed
          \/ count' = count /\ missed' = missed + 1
      BY <2>2 DEF Uncount
    <3> QED BY <1>2, <1>3, <3>1, <3>2, BookInts DEF Balanced
  <2> QED BY <2>1, <2>2
<1>6. Balanced(One(p.pc = "count"), One(p.pc = "uncount"))'
  <2>1. One(p.pc = "count")' = 0 /\ One(p.pc = "uncount")' = 0
    BY <1>1 DEF One
  <2> QED BY <1>5, <2>1 DEF Balanced
<1> QED BY <1>1, <1>2, <1>6, HolderBooks

LEMMA InsertBooks ==
    ASSUME STypeOK, STypeOK', Deleted, Books, ~unlocked, NEW w \in Loop, NEW i \in Id,
           Insert(w, i)
    PROVE  Books'
<1>1. /\ Past(w, i) /\ UNCHANGED <<count, missed, others>>
      /\ ~Is(w, i, "count") /\ ~Is(w, i, "uncount")
  BY DEF Insert, Is, Past, notes
<1>2. PICK p \in Perform : Move(w, i, p) /\ p.pc = IF status # "none" THEN "idle" ELSE "count"
  <2> DEFINE over == status # "none"
  <2>1. Then(w, i, over, "count") /\ over \in BOOLEAN /\ "count" \in Step
    BY DEF Insert, Step
  <2> HIDE DEF over
  <2>2. \E p \in Perform : Move(w, i, p) /\ p.pc = IF over THEN "idle" ELSE "count"
    BY <2>1, ThenGoes
  <2> QED BY <2>2 DEF over
<1>3. CASE status # "none"
  <2>1. Live' = Live
    BY <1>3 DEF Insert, Live
  <2> QED BY <1>1, <1>2, <1>3, <2>1, QuietBooks
<1>4. CASE status = "none"
  <2>1. Live = 0 /\ Live' = 1 /\ p.pc = "count"
    BY <1>2, <1>4 DEF Insert, Live
  <2>2. Balanced(0, 0)
    BY <1>1, HolderOwes DEF One
  <2>3. Balanced(1, 0)'
    BY <1>1, <2>1, <2>2, BookInts DEF Balanced
  <2>4. One(p.pc = "count")' = 1 /\ One(p.pc = "uncount")' = 0
    BY <2>1 DEF One
  <2>5. Balanced(One(p.pc = "count"), One(p.pc = "uncount"))'
    BY <2>3, <2>4 DEF Balanced
  <2> QED BY <1>1, <1>2, <2>1, <2>5, HolderBooks
<1> QED BY <1>3, <1>4

LEMMA RemoveBooks ==
    ASSUME STypeOK, STypeOK', Deleted, Books, ~unlocked, NEW w \in Loop, NEW i \in Id,
           Remove(w, i)
    PROVE  Books'
<1>1. /\ Past(w, i) /\ UNCHANGED <<count, missed, others>>
      /\ ~Is(w, i, "count") /\ ~Is(w, i, "uncount") /\ Is(w, i, "remove")
  BY DEF Remove, Is, Past, notes
<1>2. at[w][i].seen <=> status = "live"
  BY <1>1 DEF Books
<1>3. PICK p \in Perform : /\ Move(w, i, p)
                           /\ p.pc = IF at[w][i].seen THEN "uncount"
                                     ELSE IF status = "none" THEN "remember" ELSE "bury"
  <2> DEFINE pc == IF at[w][i].seen THEN "uncount" ELSE IF status = "none" THEN "remember" ELSE "bury"
  <2>1. Go(w, i, pc) /\ pc \in Step
    BY DEF Remove, Step
  <2> HIDE DEF pc
  <2>2. \E p \in Perform : Move(w, i, p) /\ p.pc = pc
    BY <2>1, GoGoes
  <2> QED BY <2>2 DEF pc
<1>4. status' = IF status = "none" THEN "none" ELSE "deleted"
  BY DEF Remove
<1>5. CASE status # "live"
  <2>1. Live' = Live /\ p.pc \in {"remember", "bury"}
    BY <1>2, <1>3, <1>4, <1>5 DEF Live
  <2> QED BY <1>1, <1>3, <2>1, QuietBooks
<1>6. CASE status = "live"
  <2>1. Live = 1 /\ Live' = 0 /\ p.pc = "uncount"
    BY <1>2, <1>3, <1>4, <1>6 DEF Live
  <2>2. Balanced(0, 0)
    BY <1>1, HolderOwes DEF One
  <2>3. Balanced(0, 1)'
    BY <1>1, <2>1, <2>2, BookInts DEF Balanced
  <2>4. One(p.pc = "count")' = 0 /\ One(p.pc = "uncount")' = 1
    BY <2>1 DEF One
  <2>5. Balanced(One(p.pc = "count"), One(p.pc = "uncount"))'
    BY <2>3, <2>4 DEF Balanced
  <2> QED BY <1>1, <1>3, <2>1, <2>5, HolderBooks
<1> QED BY <1>5, <1>6

\* Every other step of a perform past the lock is quiet.
LEMMA OtherBooks ==
    ASSUME STypeOK, Deleted, Books, ~unlocked, NEW w \in Loop, NEW i \in Id,
           \/ Fail(w, i) \/ AskArrived(w, i) \/ AskTombstone(w, i) \/ Decline(w, i)
           \/ Distribute(w, i) \/ Read(w, i) \/ Remember(w, i) \/ Bury(w, i)
    PROVE  Books'
<1>1. /\ Past(w, i) /\ ~Is(w, i, "count") /\ ~Is(w, i, "uncount")
      /\ UNCHANGED <<status, count, missed, others>>
  BY DEF Fail, AskArrived, AskTombstone, Decline, Distribute, Read, Remember, Bury, Is, Past, notes
<1>2. Live' = Live
  BY <1>1 DEF Live
<1>3. ASSUME NEW p, Move(w, i, p), p.pc = "remove" => (p.seen <=> status' = "live"),
             p.pc # "count", p.pc # "uncount"
      PROVE  Books'
  BY <1>1, <1>2, <1>3, QuietBooks
<1>4. CASE Fail(w, i) \/ Decline(w, i) \/ Distribute(w, i) \/ Bury(w, i)
  <2>1. Move(w, i, Rest)
    BY <1>4, OverMoves DEF Decline, Distribute, Bury
  <2> QED BY <1>3, <2>1, RestType
<1>5. CASE AskArrived(w, i)
  <2>1. \E p \in Perform : Move(w, i, p) /\ p.pc \in {"idle", "tombstone"}
    <3>1. CASE Then(w, i, arrived, "tombstone")
      <4>1. arrived \in BOOLEAN /\ "tombstone" \in Step
        BY DEF STypeOK, Step
      <4>2. \E p \in Perform : Move(w, i, p) /\ p.pc = IF arrived THEN "idle" ELSE "tombstone"
        BY <3>1, <4>1, ThenGoes
      <4> QED BY <4>2
    <3>2. CASE Go(w, i, "tombstone")
      BY <3>2, GoGoes DEF Step
    <3> QED BY <1>5, <3>1, <3>2 DEF AskArrived
  <2> QED BY <1>3, <2>1
<1>6. CASE AskTombstone(w, i)
  <2>1. Then(w, i, buried, "insert") /\ buried \in BOOLEAN /\ "insert" \in Step
    BY <1>6 DEF AskTombstone, STypeOK, Step
  <2>2. \E p \in Perform : Move(w, i, p) /\ p.pc = IF buried THEN "idle" ELSE "insert"
    BY <2>1, ThenGoes
  <2> QED BY <1>3, <2>2
<1>7. CASE Read(w, i)
  <2> DEFINE q == [pc |-> "remove", seen |-> status = "live"]
  <2>1. q \in Perform /\ q.pc = "remove" /\ (q.seen <=> status = "live")
    BY DEF Perform, Step
  <2>2. Move(w, i, q)
    BY <1>7, <2>1, SetMoves DEF Read
  <2>3. \E p \in Perform : Move(w, i, p) /\ p.pc = "remove" /\ (p.seen <=> status = "live")
    BY <2>1, <2>2
  <2> QED BY <1>1, <1>3, <2>3
<1>8. CASE Remember(w, i)
  <2>1. \E p \in Perform : Move(w, i, p) /\ p.pc = "bury"
    BY <1>8, GoGoes DEF Remember, Step
  <2> QED BY <1>3, <2>1
<1> QED BY <1>4, <1>5, <1>6, <1>7, <1>8

\* Nor does anything change when nobody's move has to do with the count.
LEMMA StillBooks ==
    ASSUME Books, unlocked' = unlocked, UNCHANGED <<status, count, missed, others>>,
           \A v \in Loop, k \in Id, pc \in {"count", "uncount"} : Is(v, k, pc)' = Is(v, k, pc),
           \A v \in Loop, k \in Id : Is(v, k, "remove")' => at'[v][k] = at[v][k]
    PROVE  Books'
<1>1. \A pc \in {"count", "uncount"} : Owed(pc)' = Owed(pc)
  BY DEF Owed
<1>2. Live' = Live
  BY DEF Live
<1>3. CASE ~unlocked
  <2>1. Balanced(Owed("count"), Owed("uncount"))'
    BY <1>1, <1>2, <1>3 DEF Books, Balanced
  <2>2. \A v \in Loop, k \in Id : Is(v, k, "remove")' => (at'[v][k].seen <=> status' = "live")
    BY <1>3 DEF Books, Is
  <2> QED BY <2>1, <2>2 DEF Books
<1> QED BY <1>3 DEF Books

LEMMA PerformsBooks ==
    ASSUME STypeOK, STypeOK', Deleted, Books, NEW w \in Loop, NEW i \in Id, Performs(w, i)
    PROVE  Books'
<1>1. CASE unlocked
  <2>1. unlocked'
    BY <1>1 DEF Performs, Start, TakeLock, GoWithout, Fail, Creates, AskArrived, AskTombstone, Decline,
         Insert, Count, Distribute, Deletes, Read, Remove, Uncount, Remember, Bury, notes
  <2> QED BY <2>1 DEF Books
<1>2. CASE ~unlocked
  <2>1. CASE GoWithout(w, i)
    BY <2>1 DEF GoWithout, Books
  <2>2. CASE Start(w, i) \/ TakeLock(w, i)
    <3>1. Go(w, i, "lock") \/ Go(w, i, AfterLock(i))
      BY <2>2 DEF Start, TakeLock
    <3>2. PICK p \in Perform : Move(w, i, p) /\ p.pc \in {"lock", "arrived", "read"}
      BY <3>1, GoGoes DEF Step, AfterLock
    <3>3. at[w][i].pc \in {"idle", "lock"}
      <4>1. CASE Start(w, i)
        <5>1. ~At(w, i, "working")
          BY <4>1 DEF Start, Begin, Enter, At
        <5> QED BY <5>1 DEF STypeOK, Is
      <4> QED BY <2>2, <4>1 DEF TakeLock, Is
    <3>4. UNCHANGED <<unlocked, status, count, missed, others>>
      BY <2>2 DEF Start, TakeLock, notes
    <3>5. ASSUME NEW v \in Loop, NEW k \in Id
          PROVE  /\ \A pc \in {"count", "uncount"} : Is(v, k, pc)' = Is(v, k, pc)
                 /\ Is(v, k, "remove")' => at'[v][k] = at[v][k]
      BY <3>2, <3>3 DEF Move, Is
    <3> QED BY <3>4, <3>5, StillBooks
  <2> QED BY <1>2, <2>1, <2>2, PaidBooks, InsertBooks, RemoveBooks, OtherBooks
       DEF Performs, Creates, Deletes
<1> QED BY <1>1, <1>2

LEMMA DroppedBooks ==
    ASSUME STypeOK, STypeOK', Deleted, Books, NEW w \in Loop, Dropped(w) PROVE Books'
<1> DEFINE S == {i \in Id : at[w][i].pc \in {"count", "uncount"}}
<1>1. \A v \in Loop, k \in Id : at'[v][k] = IF v = w THEN Rest ELSE at[v][k]
  BY DEF Dropped, STypeOK
<1>2. UNCHANGED <<status, count, others, unlocked>> /\ missed' = missed + Cardinality(S)
  BY DEF Dropped
<1>3. IsFiniteSet(S) /\ Cardinality(S) \in Nat /\ (Cardinality(S) = 0 <=> S = {})
  BY QueueAssumption, FS_Subset, FS_CardinalityType, FS_EmptySet
<1>4. CASE S = {}
  <2>1. missed' = missed
    <3> HIDE DEF S
    <3> QED BY <1>2, <1>3, <1>4, BookInts
  <2>2. ASSUME NEW v \in Loop, NEW k \in Id
        PROVE  /\ \A pc \in {"count", "uncount"} : Is(v, k, pc)' = Is(v, k, pc)
               /\ Is(v, k, "remove")' => at'[v][k] = at[v][k]
    BY <1>1, <1>4, RestType DEF Is
  <2> QED BY <1>2, <2>1, <2>2, StillBooks
<1>5. CASE S # {} /\ ~unlocked
  <2>1. PICK i \in Id : at[w][i].pc \in {"count", "uncount"}
    BY <1>5
  <2>2. Past(w, i)
    BY <2>1 DEF Past
  <2>3. \A v \in Loop, k \in Id : ~Past(v, k)'
    <3>1. ASSUME NEW v \in Loop, NEW k \in Id, Past(v, k)' PROVE FALSE
      <4>1. v # w /\ Past(v, k)
        BY <1>1, <3>1, RestType DEF Past
      <4>2. Holds(v, k) /\ Holds(w, i)
        BY <1>5, <2>2, <4>1 DEF Deleted, Locked
      <4> QED BY <4>1, <4>2 DEF Holds
    <3> QED BY <3>1
  <2>4. Owed("count")' = 0 /\ Owed("uncount")' = 0
    BY <2>3 DEF Owed, Is, Past
  <2>5. Balanced(1, 0) \/ Balanced(0, 1)
    <3>1. Balanced(One(Is(w, i, "count")), One(Is(w, i, "uncount")))
      BY <1>5, <2>2, HolderOwes
    <3> QED BY <2>1, <3>1 DEF One, Is
  <2>6. Balanced(0, 0)'
    <3>1. missed' >= missed + 1
      <4> HIDE DEF S
      <4> QED BY <1>2, <1>3, <1>5, BookInts
    <3>2. Live' = Live /\ missed' \in Int
      BY <1>2 DEF Live, STypeOK
    <3> QED BY <1>2, <2>5, <3>1, <3>2, BookInts DEF Balanced
  <2>7. Balanced(Owed("count"), Owed("uncount"))'
    BY <2>4, <2>6 DEF Balanced
  <2> QED BY <2>3, <2>7 DEF Books, Is, Past
<1> QED BY <1>2, <1>4, <1>5 DEF Books

LEMMA NextBooks == ASSUME STypeOK, STypeOK', Deleted, Books, [SNext]_svars PROVE Books'
<1>1. CASE UNCHANGED <<at, status, count, notes>>
  BY <1>1, StillBooks DEF notes, Is
<1>2. CASE AutoRelease
  BY <1>2 DEF AutoRelease, Books
<1>3. CASE Expire
  BY <1>3, StillBooks DEF Expire, Is
<1>4. CASE FreeLock \/ (Rows /\ UNCHANGED object) \/ UNCHANGED svars
  <2>1. UNCHANGED <<at, status, count, notes>>
    BY <1>4 DEF FreeLock, object, svars
  <2> QED BY <1>1, <2>1
<1> QED BY <1>2, <1>3, <1>4, PerformsBooks, DroppedBooks DEF SNext

\* Nothing is missed but by a fault.
Unmissed == faults = 0 => missed = 0

LEMMA NextUnmissed == ASSUME STypeOK, Unmissed, [SNext]_svars PROVE Unmissed'
<1>1. faults \in Nat
  BY QueueAssumption DEF STypeOK, TypeOK
<1>2. CASE missed' = missed
  <2>1. faults' \in {faults, faults + 1}
    BY StatusStep DEF Next, Rows, Enqueue, LeaseEnds, Overrun, Cleanup, Claim, Record, RecordLost, Begin,
         PerformOk, PerformFails, Drop, Misfortune, Fault, queue
  <2> QED BY <1>1, <1>2, <2>1 DEF Unmissed
<1>3. CASE Misfortune \/ \E w \in Loop : Dropped(w)
  <2>1. faults' = faults + 1
    BY <1>3 DEF Misfortune, Dropped, Drop, Fault
  <2> QED BY <1>1, <2>1 DEF Unmissed
<1>4. ASSUME NEW w \in Loop, NEW i \in Id, Performs(w, i) PROVE missed' = missed \/ Misfortune
  BY <1>4 DEF Performs, Start, TakeLock, GoWithout, Fail, Creates, AskArrived, AskTombstone, Decline,
       Insert, Count, Distribute, Deletes, Read, Remove, Uncount, Remember, Bury, notes
<1> QED BY <1>2, <1>3, <1>4 DEF SNext, FreeLock, AutoRelease, Expire, svars, object, notes

\* For any number of Creates and Deletes, of loops and of performs: with nobody at
\* work on it, and as long as the lock holds, the author's statuses are counted but
\* for what was missed, which is nothing before the first fault
\* (on_status_created, on_status_deleted).
THEOREM StatusesCountedOnce == SSpec => []CountedOnce
<1>1. SInit => Deleted
  BY RestType DEF SInit, Deleted, Seen, Rest, Locked, Past, Memory, Knows, Is
<1>2. SInit => Books
  <2>1. ASSUME SInit PROVE Books
    <3>1. \A w \in Loop, i \in Id : at[w][i].pc = "idle"
      BY <2>1, RestType DEF SInit
    <3>2. Owed("count") = 0 /\ Owed("uncount") = 0 /\ Live = 0
      BY <2>1, <3>1 DEF SInit, Owed, Is, Live
    <3>3. count = others /\ missed = 0 /\ others \in Int
      BY <2>1 DEF SInit
    <3> QED BY <3>1, <3>2, <3>3 DEF Books, Balanced, Is
  <2> QED BY <2>1
<1>3. STypeOK /\ Deleted /\ [SNext]_svars => Deleted'
  BY NextDeleted
<1>4. STypeOK /\ STypeOK' /\ Deleted /\ Books /\ [SNext]_svars => Books'
  BY NextBooks
<1>5. STypeOK /\ Books /\ Unmissed => CountedOnce
  <2>1. ASSUME STypeOK, Books, Unmissed, ~unlocked, \A w \in Loop, i \in Id : Is(w, i, "idle")
        PROVE  LET kept == others + IF status = "live" THEN 1 ELSE 0 IN
               /\ kept - missed <= count /\ count <= kept + missed
               /\ faults = 0 => count = kept
    <3>1. Owed("count") = 0 /\ Owed("uncount") = 0
      BY <2>1 DEF Owed, Is
    <3>2. others + Live - missed <= count /\ count <= others + Live + missed
      BY <2>1, <3>1, BookInts DEF Books, Balanced
    <3> QED BY <2>1, <3>2, BookInts DEF Live, Unmissed
  <2> QED BY <2>1 DEF CountedOnce
<1>6. SInit => Unmissed
  BY DEF SInit, Unmissed
<1>7. STypeOK /\ Unmissed /\ [SNext]_svars => Unmissed'
  BY NextUnmissed
<1> QED BY <1>1, <1>2, <1>3, <1>4, <1>5, <1>6, <1>7, StatusTypeCorrect, PTL DEF SSpec
=============================================================================
