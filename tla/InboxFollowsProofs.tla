------------------------- MODULE InboxFollowsProofs -------------------------
(***************************************************************************)
(* Theorems about InboxFollows, for any number of rows, of loops and of    *)
(* faults: it is the queue of InboxQueue with performs inside, a blocked   *)
(* follower stays out, what is undone stays undone, and the followers are  *)
(* counted.                                                                *)
(***************************************************************************)
EXTENDS InboxFollows, InboxQueueProofs, FiniteSetTheorems

Coupled == \A w \in Loop, i \in Id : Is(w, i, "idle") = ~At(w, i, "working")

RelationType ==
    /\ api \in [Request -> Asked]
    /\ {follow, request, blocked, arrived, approves} \subseteq BOOLEAN
    /\ {begun, barred, undone, floored, raced} \subseteq BOOLEAN
    /\ count \in Nat /\ others \in Nat /\ missed \in Nat /\ lost \in 0..MaxLost

\* Perform (w, i) goes on to `p`, and no other moves.
Move(w, i, p) == /\ at' \in [Loop -> [Id -> Perform]]
                 /\ at'[w][i] = p
                 /\ \A v \in Loop, k \in Id : v # w \/ k # i => at'[v][k] = at[v][k]

\* Whose perform each step is.
FollowSteps == {"arrived", "check", "already", "insert", "count", "counted"}
UndoSteps == {"unfollow", "uncount", "unrequest", "clear", "over", "remember"}
Kinds == \A w \in Loop, i \in Id : /\ at[w][i].pc \in FollowSteps => Kind[i] = "follow"
                                   /\ at[w][i].pc \in UndoSteps => Kind[i] = "undo"

\* A follow may be made without another look at blocks, or at what has arrived.
Making == \/ \E w \in Loop, i \in Id : at[w][i].pc \in {"already", "insert"}
          \/ \E q \in Request : api[q] = "insert"
Risky == \/ \E w \in Loop, i \in Id : at[w][i].pc \in {"check", "already", "insert"}
         \/ \E q \in Request : api[q] = "insert"

\* Before the first Follow is taken up, and ever after if its author was blocked
\* then, there is no follow and nobody about to make one.
Barring ==
    /\ barred => blocked
    /\ \A w \in Loop, i \in Id : at[w][i].pc \in FollowSteps => begun
    /\ ~begun \/ barred => ~follow /\ ~request /\ ~Making

\* What an Undo has removed by the step it is at.
Removed(w, i) ==
    /\ at[w][i].pc \in {"uncount", "unrequest", "clear", "over", "remember"} => ~follow
    /\ at[w][i].pc \in {"clear", "over", "remember"} => ~request

\* Without a race there is nothing left to make a follow once an Undo is over.
Undoing ==
    /\ Racing => raced
    /\ ~raced /\ lost = 0 => /\ \A w \in Loop, i \in Id : Removed(w, i)
                             /\ undone => ~follow /\ ~request /\ ~Risky

-----------------------------------------------------------------------------
(* Each step is one of the queue's, or none *)

LEMMA ThenSteps == ASSUME NEW w \in Loop, NEW i \in Id, NEW over, NEW pc, Then(w, i, over, pc)
                   PROVE  [Next]_queue
  BY DEF Then, Return, Next, queue

LEMMA PerformsStep == ASSUME NEW w \in Loop, NEW i \in Id, Performs(w, i) PROVE [Next]_queue
<1>1. CASE Start(w, i) \/ Fail(w, i) \/ CountFails(w, i)
  BY <1>1 DEF Start, Fail, CountFails, Next
<1>2. CASE AskArrived(w, i)
  <2>1. CASE Then(w, i, arrived, "check")
    BY <2>1, ThenSteps
  <2>2. CASE UNCHANGED queue
    BY <2>2
  <2> QED BY <1>2, <2>1, <2>2 DEF AskArrived
<1>3. CASE Check(w, i) \/ Already(w, i)
  BY <1>3, ThenSteps DEF Check, Already
<1>4. CASE RecordFollow(w, i)
  <2>1. Return(w, i) \/ UNCHANGED queue \/ Then(w, i, follow, "count")
    BY <1>4 DEF RecordFollow
  <2> QED BY <2>1, ThenSteps DEF Return, Next
<1>5. CASE Count(w, i) \/ Counts(w, i) \/ Clear(w, i) \/ Remember(w, i)
  BY <1>5 DEF Count, Counts, Clear, Remember, Return, Next
<1>6. CASE Unfollow(w, i) \/ Uncount(w, i) \/ Unrequest(w, i)
  BY <1>6 DEF Unfollow, Uncount, Unrequest
<1> QED BY <1>1, <1>2, <1>3, <1>4, <1>5, <1>6 DEF Performs

LEMMA RequestsStep == ASSUME NEW q \in Request, Requests(q) PROVE [Next]_queue
<1>1. CASE Abandon(q)
  BY <1>1 DEF Abandon, Next
<1>2. CASE UNCHANGED queue
  BY <1>2
<1> QED BY <1>1, <1>2 DEF Requests, Requested, TakeRequest, Promote, CountPromoted,
                          PutBlock, BlockUnfollows, BlockUncounts, BlockUnrequests

LEMMA FollowStep == ASSUME [FNext]_fvars PROVE [Next]_queue
<1>1. CASE Rows
  BY <1>1 DEF Next
<1>2. CASE \E w \in Loop : Dropped(w)
  BY <1>2 DEF Dropped, Next
<1>3. CASE UNCHANGED fvars
  BY <1>3 DEF fvars
<1> QED BY <1>1, <1>2, <1>3, PerformsStep, RequestsStep DEF FNext

\* Follows and Undos are performed by the ingress queue: what InboxQueue says holds
\* of them, that no activity is lost among them too (run_inbox_queue_batch).
THEOREM FollowsAreQueued == FSpec => Spec /\ KeepsActivities
<1>1. FInit => Init
  BY DEF FInit
<1>2. [FNext]_fvars => [Next]_queue
  BY FollowStep
<1> QED BY <1>1, <1>2, ActivitiesKept, PTL DEF FSpec, Spec

-----------------------------------------------------------------------------
(* Types *)

LEMMA GoMoves ==
    ASSUME FTypeOK, NEW w \in Loop, NEW i \in Id, NEW pc \in Step, Go(w, i, pc)
    PROVE  Move(w, i, [pc |-> pc, gone |-> at[w][i].gone])
<1>1. [at[w][i] EXCEPT !.pc = pc] = [pc |-> pc, gone |-> at[w][i].gone]
  BY DEF FTypeOK, Perform
<1>2. [pc |-> pc, gone |-> at[w][i].gone] \in Perform
  BY DEF FTypeOK, Perform
<1>3. at' = [at EXCEPT ![w] = [at[w] EXCEPT ![i] = [pc |-> pc, gone |-> at[w][i].gone]]]
  BY <1>1 DEF Go, FTypeOK
<1> QED BY <1>2, <1>3 DEF Move, FTypeOK

LEMMA SetMoves ==
    ASSUME FTypeOK, NEW w \in Loop, NEW i \in Id, NEW p \in Perform,
           at' = [at EXCEPT ![w][i] = p]
    PROVE  Move(w, i, p)
  BY DEF Move, FTypeOK

LEMMA RestType == Rest \in Perform /\ Rest.pc = "idle"
  BY DEF Rest, Perform, Step

\* A perform that returns, or fails.
LEMMA OverMoves ==
    ASSUME FTypeOK, NEW w \in Loop, NEW i \in Id, Return(w, i) \/ Fail(w, i)
    PROVE  Move(w, i, Rest) /\ Coupled'
<1>1. Move(w, i, Rest)
  BY SetMoves, RestType DEF Return, Fail
<1>2. \E ph \in {"ok", "err"} : Enter(w, i, "working", ph)
  BY DEF Return, Fail, PerformOk, PerformFails
<1>3. ASSUME NEW v \in Loop, NEW k \in Id
      PROVE (Is(v, k, "idle") = ~At(v, k, "working"))'
  <2>1. CASE v = w /\ k = i
    <3>1. task'[w][i].ph \in {"ok", "err"}
      BY <1>2 DEF Enter, FTypeOK, TypeOK, Task
    <3> QED BY <2>1, <3>1, <1>1, RestType DEF Move, Is, At
  <2>2. CASE ~(v = w /\ k = i)
    <3>1. task'[v][k] = task[v][k]
      BY <2>2, <1>2 DEF Enter, FTypeOK, TypeOK
    <3>2. at'[v][k] = at[v][k]
      BY <2>2, <1>1 DEF Move
    <3> QED BY <3>1, <3>2 DEF FTypeOK, Is, At
  <2> QED BY <2>1, <2>2
<1> QED BY <1>1, <1>3 DEF Coupled

\* A perform that goes on.
LEMMA OnMoves ==
    ASSUME FTypeOK, NEW w \in Loop, NEW i \in Id, NEW p \in Perform,
           Move(w, i, p), task' = task, ~Is(w, i, "idle"), p.pc # "idle"
    PROVE  Coupled'
<1>1. ASSUME NEW v \in Loop, NEW k \in Id
      PROVE (Is(v, k, "idle") = ~At(v, k, "working"))'
  BY DEF Move, FTypeOK, Is, At
<1> QED BY <1>1 DEF Coupled

\* The step from one stage to the next, with the queue's tasks left as they are.
LEMMA GoCoupled ==
    ASSUME FTypeOK, NEW w \in Loop, NEW i \in Id, NEW pc \in Step,
           ~Is(w, i, "idle"), pc # "idle", Go(w, i, pc), task' = task
    PROVE  /\ Move(w, i, [pc |-> pc, gone |-> at[w][i].gone])
           /\ Coupled'
<1> DEFINE q == [pc |-> pc, gone |-> at[w][i].gone]
<1>1. Move(w, i, q)
  BY GoMoves
<1>2. q \in Perform /\ q.pc # "idle"
  BY DEF FTypeOK, Perform
<1> QED BY <1>1, <1>2, OnMoves

\* A perform that returns, if `over`, or goes on.
LEMMA ThenMoves ==
    ASSUME FTypeOK, NEW w \in Loop, NEW i \in Id, NEW over \in BOOLEAN, NEW pc \in Step,
           ~Is(w, i, "idle"), pc # "idle", Then(w, i, over, pc)
    PROVE  /\ Move(w, i, IF over THEN Rest ELSE [pc |-> pc, gone |-> at[w][i].gone])
           /\ Coupled'
  BY OverMoves, GoCoupled DEF Then, queue

LEMMA StartMoves ==
    ASSUME FTypeOK, NEW w \in Loop, NEW i \in Id, Start(w, i)
    PROVE  \E pc \in {"arrived", "unfollow"} :
              /\ Kind[i] = (IF pc = "arrived" THEN "follow" ELSE "undo")
              /\ Move(w, i, [pc |-> pc, gone |-> at[w][i].gone]) /\ Coupled'
<1> DEFINE pc == IF Kind[i] = "follow" THEN "arrived" ELSE "unfollow"
<1>1. Move(w, i, [pc |-> pc, gone |-> at[w][i].gone])
  BY GoMoves DEF Start, Step
<1>2. Enter(w, i, "waiting", "working")
  BY DEF Start, Begin
<1>3. ASSUME NEW v \in Loop, NEW k \in Id
      PROVE (Is(v, k, "idle") = ~At(v, k, "working"))'
  <2>1. CASE v = w /\ k = i
    <3>1. task'[w][i].ph = "working"
      BY <1>2 DEF Enter, FTypeOK, TypeOK, Task
    <3>2. at'[w][i].pc # "idle"
      BY <1>1 DEF Move
    <3> QED BY <2>1, <3>1, <3>2 DEF Is, At
  <2>2. CASE ~(v = w /\ k = i)
    <3>1. task'[v][k] = task[v][k]
      BY <2>2, <1>2 DEF Enter, FTypeOK, TypeOK
    <3>2. at'[v][k] = at[v][k]
      BY <2>2, <1>1 DEF Move
    <3> QED BY <3>1, <3>2 DEF FTypeOK, Is, At
  <2> QED BY <2>1, <2>2
<1>4. Coupled'
  BY <1>3 DEF Coupled
<1>5. Kind[i] \in {"follow", "undo"}
  BY FollowAssumption
<1> QED BY <1>1, <1>4, <1>5

\* The steps of a perform, and where they lead it.
Turn(w, i, p) ==
    \/ Start(w, i) /\ \/ p.pc = "arrived" /\ Kind[i] = "follow"
                      \/ p.pc = "unfollow" /\ Kind[i] = "undo"
    \/ p.pc = "idle" /\ \/ Fail(w, i) \/ Count(w, i) \/ Counts(w, i)
                        \/ Clear(w, i) \/ Remember(w, i)
    \/ CountFails(w, i) /\ \/ Is(w, i, "count") /\ p.pc = "counted"
                           \/ Is(w, i, "uncount") /\ p.pc = "unrequest"
    \/ AskArrived(w, i) /\ \/ p.pc = "idle" /\ arrived
                           \/ p.pc = "check" /\ (arrived => lost' = lost + 1)
    \/ Check(w, i) /\ \/ p.pc = "idle" /\ blocked
                      \/ p.pc = "already" /\ ~blocked
    \/ Already(w, i) /\ p.pc \in {"idle", "insert"}
    \/ RecordFollow(w, i) /\ p.pc = IF approves \/ follow THEN "idle" ELSE "count"
    \/ Unfollow(w, i) /\ p.pc = IF follow THEN "uncount" ELSE "unrequest"
    \/ Uncount(w, i) /\ p.pc = "unrequest"
    \/ Unrequest(w, i) /\ p.pc \in {"clear", "over", "remember"}

LEMMA PerformMoves ==
    ASSUME FTypeOK, NEW w \in Loop, NEW i \in Id, Performs(w, i)
    PROVE  \E p \in Perform : Move(w, i, p) /\ Coupled' /\ Turn(w, i, p)
<1> USE DEF Step
<1> DEFINE To(pc) == [pc |-> pc, gone |-> at[w][i].gone]
<1>0. \A pc \in Step : To(pc) \in Perform /\ To(pc).pc = pc
  BY DEF Perform, FTypeOK
<1>1. CASE Start(w, i)
  <2>1. PICK pc \in {"arrived", "unfollow"} :
           /\ Kind[i] = (IF pc = "arrived" THEN "follow" ELSE "undo")
           /\ Move(w, i, To(pc)) /\ Coupled'
    BY <1>1, StartMoves
  <2>2. Turn(w, i, To(pc))
    BY <1>0, <1>1, <2>1 DEF Turn
  <2> QED BY <1>0, <2>1, <2>2
<1>2. CASE Fail(w, i) \/ Count(w, i) \/ Counts(w, i) \/ Clear(w, i) \/ Remember(w, i)
  <2>1. Return(w, i) \/ Fail(w, i)
    BY <1>2 DEF Count, Counts, Clear, Remember
  <2>2. Turn(w, i, Rest)
    BY <1>2, RestType DEF Turn
  <2> QED BY <2>1, <2>2, OverMoves, RestType
<1>3. CASE CountFails(w, i)
  <2> DEFINE pc == IF Is(w, i, "count") THEN "counted" ELSE "unrequest"
  <2>1. task' = task /\ ~Is(w, i, "idle") /\ Go(w, i, pc)
    BY <1>3 DEF CountFails, Misfortune, Is
  <2>2. Move(w, i, To(pc)) /\ Coupled'
    BY <2>1, GoCoupled
  <2>3. Turn(w, i, To(pc))
    BY <1>0, <1>3 DEF Turn, CountFails, Is
  <2> QED BY <1>0, <2>2, <2>3
<1>4. CASE AskArrived(w, i)
  <2>1. ~Is(w, i, "idle")
    BY <1>4 DEF AskArrived, Is
  <2>2. CASE Then(w, i, arrived, "check") /\ arrived
    <3>1. Move(w, i, Rest) /\ Coupled'
      BY <2>1, <2>2, ThenMoves
    <3>2. Turn(w, i, Rest)
      BY <1>4, <2>2, RestType DEF Turn
    <3> QED BY <3>1, <3>2, RestType
  <2>3. CASE Then(w, i, arrived, "check") /\ ~arrived
    <3>1. Move(w, i, To("check")) /\ Coupled'
      BY <2>1, <2>3, ThenMoves DEF FTypeOK
    <3>2. Turn(w, i, To("check"))
      BY <1>4, <2>3, <1>0 DEF Turn
    <3> QED BY <3>1, <3>2, <1>0
  <2>4. CASE Lost /\ Go(w, i, "check") /\ UNCHANGED queue
    <3>1. Move(w, i, To("check")) /\ Coupled'
      BY <2>1, <2>4, GoCoupled DEF queue
    <3>2. Turn(w, i, To("check"))
      BY <1>4, <2>4, <1>0 DEF Turn, Lost
    <3> QED BY <3>1, <3>2, <1>0
  <2> QED BY <1>4, <2>2, <2>3, <2>4 DEF AskArrived
<1>5. CASE Check(w, i)
  <2>1. Move(w, i, IF blocked THEN Rest ELSE To("already")) /\ Coupled'
    BY <1>5, ThenMoves DEF Check, Is, FTypeOK
  <2>2. Turn(w, i, IF blocked THEN Rest ELSE To("already"))
    BY <1>5, <1>0, RestType DEF Turn
  <2> QED BY <1>0, <2>1, <2>2, RestType
<1>6. CASE Already(w, i)
  <2>1. Move(w, i, IF follow THEN Rest ELSE To("insert")) /\ Coupled'
    BY <1>6, ThenMoves DEF Already, Is, FTypeOK
  <2>2. Turn(w, i, IF follow THEN Rest ELSE To("insert"))
    BY <1>6, <1>0, RestType DEF Turn
  <2> QED BY <1>0, <2>1, <2>2, RestType
<1>7. CASE RecordFollow(w, i)
  <2> DEFINE p == IF approves \/ follow THEN Rest ELSE To("count")
  <2>1. ~Is(w, i, "idle")
    BY <1>7 DEF RecordFollow, Is
  <2>2. Move(w, i, p) /\ Coupled'
    <3>1. CASE approves
      BY <1>7, <3>1, OverMoves DEF RecordFollow
    <3>2. CASE ~approves
      <4>1. Then(w, i, follow, "count") /\ follow \in BOOLEAN
        BY <1>7, <3>2 DEF RecordFollow, FTypeOK
      <4> QED BY <2>1, <3>2, <4>1, ThenMoves
    <3> QED BY <3>1, <3>2
  <2>3. Turn(w, i, p)
    BY <1>7, <1>0, RestType DEF Turn
  <2> QED BY <1>0, <2>2, <2>3, RestType
<1>8. CASE Unfollow(w, i)
  <2> DEFINE p == [pc |-> IF follow THEN "uncount" ELSE "unrequest", gone |-> follow]
  <2>1. p \in Perform /\ p.pc # "idle"
    BY DEF Perform, FTypeOK
  <2>2. Move(w, i, p) /\ task' = task /\ ~Is(w, i, "idle")
    BY <1>8, <2>1, SetMoves DEF Unfollow, queue, Is
  <2>3. Coupled'
    BY <2>1, <2>2, OnMoves
  <2>4. Turn(w, i, p)
    BY <1>8 DEF Turn
  <2> QED BY <2>1, <2>2, <2>3, <2>4
<1>9. CASE Uncount(w, i)
  <2>1. Move(w, i, To("unrequest")) /\ Coupled'
    BY <1>9, GoCoupled DEF Uncount, Is, queue
  <2>2. Turn(w, i, To("unrequest"))
    BY <1>9, <1>0 DEF Turn
  <2> QED BY <1>0, <2>1, <2>2
<1>10. CASE Unrequest(w, i)
  <2> DEFINE pc == IF request THEN "clear" ELSE IF at[w][i].gone THEN "over" ELSE "remember"
  <2>1. Move(w, i, To(pc)) /\ Coupled'
    BY <1>10, GoCoupled DEF Unrequest, Is, queue
  <2>2. Turn(w, i, To(pc))
    BY <1>10, <1>0 DEF Turn
  <2> QED BY <1>0, <2>1, <2>2
<1> QED BY <1>1, <1>2, <1>3, <1>4, <1>5, <1>6, <1>7, <1>8, <1>9, <1>10 DEF Performs

LEMMA TypeParts == TypeOK /\ at \in [Loop -> [Id -> Perform]] /\ Coupled /\ RelationType => FTypeOK
  BY DEF FTypeOK, Coupled, RelationType

LEMMA TypePartsNext ==
    TypeOK' /\ at' \in [Loop -> [Id -> Perform]] /\ Coupled' /\ RelationType' => FTypeOK'
  BY DEF FTypeOK, Coupled, RelationType

LEMMA LostType == ASSUME FTypeOK, Lost PROVE lost' \in 0..MaxLost
  BY FollowAssumption DEF FTypeOK, Lost

LEMMA CountTypes == ASSUME FTypeOK, Counted \/ Uncounted PROVE count' \in Nat /\ floored' \in BOOLEAN
<1>1. floored \in BOOLEAN /\ count \in Nat
  BY DEF FTypeOK
<1>2. floored' \in {floored, floored \/ count = 0}
  BY DEF Counted, Uncounted
<1>3. floored' \in BOOLEAN
  BY <1>1, <1>2
<1>4. count' \in Nat
  BY <1>1 DEF Counted, Uncounted
<1> QED BY <1>3, <1>4

LEMMA PerformsRelation ==
    ASSUME FTypeOK, NEW w \in Loop, NEW i \in Id, Performs(w, i), Observed
    PROVE  RelationType'
<1> USE DEF relation, notes, first
<1>0. raced' \in BOOLEAN
  BY DEF Observed, FTypeOK
<1>1. CASE Start(w, i)
  BY <1>0, <1>1 DEF Start, RelationType, FTypeOK
<1>2. CASE AskArrived(w, i) \/ Remember(w, i)
  BY <1>0, <1>2, LostType DEF AskArrived, Remember, RelationType, FTypeOK
<1>3. CASE Count(w, i) \/ Uncount(w, i)
  BY <1>0, <1>3, CountTypes DEF Count, Uncount, RelationType, FTypeOK
<1>4. CASE CountFails(w, i)
  BY <1>0, <1>4 DEF CountFails, RelationType, FTypeOK
<1>5. CASE Fail(w, i) \/ Check(w, i) \/ Already(w, i) \/ Counts(w, i)
  BY <1>0, <1>5 DEF Fail, Check, Already, Counts, RelationType, FTypeOK
<1>6. CASE RecordFollow(w, i)
  BY <1>0, <1>6 DEF RecordFollow, RelationType, FTypeOK
<1>7. CASE Unfollow(w, i) \/ Unrequest(w, i)
  BY <1>0, <1>7 DEF Unfollow, Unrequest, RelationType, FTypeOK
<1>8. CASE Clear(w, i)
  BY <1>0, <1>8 DEF Clear, RelationType, FTypeOK
<1> QED BY <1>1, <1>2, <1>3, <1>4, <1>5, <1>6, <1>7, <1>8 DEF Performs

LEMMA AskType == ASSUME FTypeOK, NEW q \in Request, NEW from, NEW to \in Asked, Ask(q, from, to)
                 PROVE  api' \in [Request -> Asked]
  BY DEF Ask, FTypeOK

LEMMA RequestsRelation ==
    ASSUME FTypeOK, NEW q \in Request, Requests(q), Observed
    PROVE  RelationType' /\ UNCHANGED <<at, task>>
<1> USE DEF relation, notes, first, queue
<1>0. raced' \in BOOLEAN
  BY DEF Observed, FTypeOK
<1>1. api' \in [Request -> Asked]
  BY AskType DEF Requests, Requested, TakeRequest, Promote, CountPromoted, PutBlock,
                 BlockUnfollows, BlockUncounts, BlockUnrequests, Abandon, Asked, FTypeOK
<1>2. CASE CountPromoted(q) \/ BlockUncounts(q)
  BY <1>0, <1>1, <1>2, CountTypes DEF CountPromoted, BlockUncounts, RelationType, FTypeOK
<1>3. CASE Abandon(q)
  BY <1>0, <1>1, <1>3 DEF Abandon, Misfortune, RelationType, FTypeOK
<1>4. CASE Requested(q) \/ TakeRequest(q) \/ Promote(q)
  BY <1>0, <1>1, <1>4 DEF Requested, TakeRequest, Promote, RelationType, FTypeOK
<1>5. CASE PutBlock(q) \/ BlockUnfollows(q) \/ BlockUnrequests(q)
  BY <1>0, <1>1, <1>5 DEF PutBlock, BlockUnfollows, BlockUnrequests, RelationType, FTypeOK
<1> QED BY <1>2, <1>3, <1>4, <1>5 DEF Requests

LEMMA StillCoupled == ASSUME FTypeOK, UNCHANGED <<at, task>>
                      PROVE  at' \in [Loop -> [Id -> Perform]] /\ Coupled'
  BY DEF FTypeOK, Coupled, Is, At

LEMMA RowsCoupled == ASSUME FTypeOK, Rows, UNCHANGED at PROVE Coupled'
<1>1. ASSUME NEW v \in Loop, NEW k \in Id PROVE At(v, k, "working")' = At(v, k, "working")
  <2>1. CASE \E i \in Id : Enqueue(i) \/ LeaseEnds(i) \/ Overrun(i)
    BY <2>1 DEF Enqueue, LeaseEnds, Overrun, At
  <2>2. CASE \E S \in SUBSET Id : Cleanup(S)
    BY <2>2 DEF Cleanup, At
  <2>3. ASSUME NEW S \in SUBSET Id, NEW w \in Loop, Claim(w, S)
        PROVE  At(v, k, "working")' = At(v, k, "working")
    <3>1. CASE v = w
      <4>1. ~At(v, k, "working")
        BY <2>3, <3>1 DEF Claim, Idle, At
      <4>2. task'[v][k].ph \in {"waiting", "none"}
        BY <2>3, <3>1 DEF Claim, NoTask, FTypeOK, TypeOK
      <4> QED BY <4>1, <4>2 DEF At
    <3>2. CASE v # w
      <4>1. task'[v] = task[v]
        BY <2>3, <3>2 DEF Claim, FTypeOK, TypeOK
      <4> QED BY <4>1 DEF At
    <3> QED BY <3>1, <3>2
  <2>4. ASSUME NEW w \in Loop, NEW i \in Id, Record(w, i) \/ RecordLost(w, i)
        PROVE  At(v, k, "working")' = At(v, k, "working")
    <3>1. CASE v = w /\ k = i
      <4>1. ~At(v, k, "working")
        BY <2>4, <3>1 DEF Record, RecordLost, At
      <4>2. task'[v][k].ph = "none"
        BY <2>4, <3>1 DEF Record, RecordLost, NoTask, FTypeOK, TypeOK
      <4> QED BY <4>1, <4>2 DEF At
    <3>2. CASE ~(v = w /\ k = i)
      <4>1. task'[v][k] = task[v][k]
        BY <2>4, <3>2 DEF Record, RecordLost, FTypeOK, TypeOK
      <4> QED BY <4>1 DEF At
    <3> QED BY <3>1, <3>2
  <2> QED BY <2>1, <2>2, <2>3, <2>4 DEF Rows
<1> QED BY <1>1 DEF Coupled, FTypeOK, Is

\* A dropped batch leaves the other loops' performs where they are.
LEMMA DroppedMoves ==
    ASSUME FTypeOK, NEW w \in Loop, Dropped(w)
    PROVE  /\ at' \in [Loop -> [Id -> Perform]] /\ Coupled'
           /\ \A v \in Loop, k \in Id : at'[v][k] \in {at[v][k], Rest}
<1>1. at' \in [Loop -> [Id -> Perform]]
  BY RestType DEF Dropped, FTypeOK
<1>2. ASSUME NEW v \in Loop, NEW k \in Id
      PROVE  (Is(v, k, "idle") = ~At(v, k, "working"))' /\ at'[v][k] \in {at[v][k], Rest}
  <2>1. CASE v = w
    <3>1. at'[v][k] = Rest /\ task'[v][k] = NoTask
      BY <2>1 DEF Dropped, Drop, FTypeOK, TypeOK
    <3> QED BY <3>1, RestType DEF Is, At, NoTask
  <2>2. CASE v # w
    <3>1. at'[v][k] = at[v][k] /\ task'[v][k] = task[v][k]
      BY <2>2 DEF Dropped, Drop, FTypeOK, TypeOK
    <3> QED BY <3>1 DEF Is, At, FTypeOK
  <2> QED BY <2>1, <2>2
<1> QED BY <1>1, <1>2 DEF Coupled

LEMMA DroppedRelation == ASSUME FTypeOK, NEW w \in Loop, Dropped(w), Observed PROVE RelationType'
<1> DEFINE S == {i \in Id : at[w][i].pc \in {"count", "uncount"}}
<1>1. IsFiniteSet(S)
  BY FS_Subset, QueueAssumption
<1>2. Cardinality(S) \in Nat
  BY <1>1, FS_CardinalityType
<1>3. missed' = missed + Cardinality(S)
  BY DEF Dropped
<1>4. missed' \in Nat
  BY <1>2, <1>3 DEF FTypeOK
<1> QED BY <1>4 DEF Dropped, Observed, relation, first, RelationType, FTypeOK

LEMMA FollowType == ASSUME FTypeOK, [FNext]_fvars PROVE FTypeOK'
<1>0. TypeOK'
  BY FollowStep, NextType DEF FTypeOK
<1>1. CASE Rows /\ UNCHANGED <<at, api, relation, arrived, count, notes, first, lost>> /\ Observed
  <2>1. at' \in [Loop -> [Id -> Perform]] /\ Coupled'
    BY <1>1, RowsCoupled DEF FTypeOK
  <2>2. RelationType'
    BY <1>1 DEF Observed, relation, notes, first, RelationType, FTypeOK
  <2> QED BY <1>0, <2>1, <2>2, TypePartsNext
<1>2. ASSUME NEW w \in Loop, NEW i \in Id, Performs(w, i), Observed PROVE FTypeOK'
  <2>1. at' \in [Loop -> [Id -> Perform]] /\ Coupled'
    BY <1>2, PerformMoves DEF Move
  <2> QED BY <1>0, <1>2, <2>1, PerformsRelation, TypePartsNext
<1>3. ASSUME NEW q \in Request, Requests(q), Observed PROVE FTypeOK'
  <2>1. RelationType' /\ UNCHANGED <<at, task>>
    BY <1>3, RequestsRelation
  <2> QED BY <1>0, <2>1, StillCoupled, TypePartsNext
<1>4. ASSUME NEW w \in Loop, Dropped(w), Observed PROVE FTypeOK'
  BY <1>0, <1>4, DroppedMoves, DroppedRelation, TypePartsNext
<1>5. CASE UNCHANGED fvars
  <2>1. UNCHANGED <<at, task>> /\ RelationType'
    BY <1>5 DEF fvars, queue, relation, notes, first, RelationType, FTypeOK
  <2> QED BY <1>0, <2>1, StillCoupled, TypePartsNext
<1> QED BY <1>1, <1>2, <1>3, <1>4, <1>5 DEF FNext

\* The variables have their types: a perform is at work just when the queue says
\* so, and the followers are never fewer than none (on_follow_removed's floor).
THEOREM FollowTypeCorrect == FSpec => []FTypeOK
<1>1. ASSUME FInit PROVE FTypeOK
  <2>1. TypeOK
    BY <1>1, InitType DEF FInit
  <2>2. at \in [Loop -> [Id -> Perform]]
    BY <1>1, RestType DEF FInit
  <2>3. Coupled
    BY <1>1, RestType DEF FInit, Init, NoTask, Coupled, Is, At
  <2>4. RelationType
    <3>1. others \in Nat /\ count \in Nat /\ missed \in Nat
      BY <1>1 DEF FInit
    <3>2. lost \in 0..MaxLost
      BY <1>1, FollowAssumption DEF FInit
    <3>3. api \in [Request -> Asked]
      BY <1>1 DEF FInit, Asked
    <3> QED BY <1>1, <3>1, <3>2, <3>3 DEF FInit, RelationType
  <2> QED BY <2>1, <2>2, <2>3, <2>4, TypeParts
<1>2. FTypeOK /\ [FNext]_fvars => FTypeOK'
  BY FollowType
<1> QED BY <1>1, <1>2, PTL DEF FSpec

-----------------------------------------------------------------------------
(* A blocked follower stays out *)

LEMMA RequestMoves ==
    ASSUME FTypeOK, NEW q \in Request, Requests(q)
    PROVE  /\ UNCHANGED <<at, arrived, undone, begun, barred, lost>>
           /\ blocked => blocked'
           /\ request' => request
           /\ follow' => follow \/ api[q] = "insert"
           /\ \A r \in Request : api'[r] = "insert" => api[r] = "insert" \/ request
<1> USE DEF relation, notes, first
<1>1. CASE Requested(q) \/ CountPromoted(q) \/ BlockUncounts(q)
  BY <1>1 DEF Requested, CountPromoted, BlockUncounts, Ask, FTypeOK
<1>2. CASE TakeRequest(q)
  BY <1>2 DEF TakeRequest, Ask, FTypeOK
<1>3. CASE Promote(q)
  BY <1>3 DEF Promote, Ask, FTypeOK
<1>4. CASE PutBlock(q) \/ BlockUnfollows(q) \/ BlockUnrequests(q)
  BY <1>4 DEF PutBlock, BlockUnfollows, BlockUnrequests, Ask, FTypeOK
<1>5. CASE Abandon(q)
  BY <1>5 DEF Abandon, FTypeOK
<1> QED BY <1>1, <1>2, <1>3, <1>4, <1>5 DEF Requests

LEMMA PerformsBar ==
    ASSUME FTypeOK, Barring, NEW w \in Loop, NEW i \in Id, Performs(w, i)
    PROVE  Barring'
<1> USE DEF relation, notes, first
<1>1. PICK p \in Perform : Move(w, i, p) /\ Turn(w, i, p)
  BY PerformMoves
<1>2. api' = api /\ blocked' = blocked /\ (begun => begun')
  BY DEF Performs, Start, Fail, CountFails, AskArrived, Check, Already, RecordFollow, Count,
         Counts, Unfollow, Uncount, Unrequest, Clear, Remember, FTypeOK
<1>3. barred' => blocked'
  BY <1>2 DEF Barring, Performs, Start, Fail, CountFails, AskArrived, Check, Already,
         RecordFollow, Count, Counts, Unfollow, Uncount, Unrequest, Clear, Remember, FTypeOK
<1>4. p.pc \in FollowSteps => begun'
  <2>1. p.pc \in FollowSteps =>
           (Start(w, i) /\ Kind[i] = "follow") \/ at[w][i].pc \in FollowSteps
    BY <1>1 DEF Turn, FollowSteps, AskArrived, Check, Already, RecordFollow, Is
  <2>2. Start(w, i) /\ Kind[i] = "follow" => begun'
    BY DEF Start
  <2> QED BY <2>1, <2>2, <1>2 DEF Barring
<1>5. \A v \in Loop, k \in Id : at'[v][k].pc \in FollowSteps => begun'
  BY <1>1, <1>2, <1>4 DEF Barring, Move
<1>6. ASSUME ~begun' \/ barred' PROVE (~follow /\ ~request /\ ~Making)'
  <2>1. (~begun \/ barred) /\ ~follow /\ ~request /\ ~Making
    BY <1>2, <1>6 DEF Barring, Performs, Start, Fail, CountFails, AskArrived, Check, Already,
         RecordFollow, Count, Counts, Unfollow, Uncount, Unrequest, Clear, Remember, FTypeOK
  <2>2. ~Is(w, i, "insert") /\ ~Is(w, i, "already")
    BY <2>1 DEF Making, Is
  <2>3. ~RecordFollow(w, i)
    BY <2>2 DEF RecordFollow
  <2>4. ~follow' /\ ~request'
    BY <2>1, <2>3 DEF Performs, Start, Fail, CountFails, AskArrived, Check, Already, Count,
         Counts, Unfollow, Uncount, Unrequest, Clear, Remember
  <2>5. p.pc \notin {"already", "insert"}
    <3>1. CASE Check(w, i)
      <4>1. begun
        BY <3>1 DEF Barring, Check, Is, FollowSteps
      <4>2. blocked
        BY <4>1, <2>1 DEF Barring
      <4> QED BY <4>2, <3>1, <1>1, <2>2 DEF Turn, Already
    <3>2. CASE ~Check(w, i)
      BY <3>2, <1>1, <2>2 DEF Turn, Already
    <3> QED BY <3>1, <3>2
  <2>6. ~Making'
    BY <2>1, <2>5, <1>1, <1>2 DEF Making, Move
  <2> QED BY <2>4, <2>6
<1> QED BY <1>3, <1>5, <1>6 DEF Barring

LEMMA NextBarring == ASSUME FTypeOK, Barring, [FNext]_fvars PROVE Barring'
<1>1. ASSUME NEW q \in Request, Requests(q) PROVE Barring'
  <2>1. CASE ~begun \/ barred
    BY <1>1, <2>1, RequestMoves DEF Barring, Making
  <2>2. CASE begun /\ ~barred
    BY <1>1, <2>2, RequestMoves DEF Barring
  <2> QED BY <2>1, <2>2 DEF FTypeOK
<1>2. ASSUME NEW w \in Loop, Dropped(w) PROVE Barring'
  <2>1. \A v \in Loop, k \in Id : at'[v][k].pc \in {at[v][k].pc, "idle"}
    BY <1>2, DroppedMoves, RestType
  <2>2. UNCHANGED <<api, relation, first>>
    BY <1>2 DEF Dropped
  <2>3. Making' => Making
    BY <2>1, <2>2 DEF Making
  <2> QED BY <2>1, <2>2, <2>3 DEF Barring, FollowSteps, relation, first
<1>3. CASE UNCHANGED <<at, api, relation, first>>
  BY <1>3 DEF Barring, Making, relation, first
<1> QED BY <1>1, <1>2, <1>3, PerformsBar DEF FNext, fvars

\* Whatever performs of a Follow come after the first, beside an authorization or
\* a block that is still under way (should_reject, authorize_follow_request).
THEOREM BarredCorrect == FSpec => []BarredStaysOut
<1>1. FInit => Barring
  BY DEF FInit, Barring, Making, Rest, FollowSteps
<1>2. FTypeOK /\ Barring /\ [FNext]_fvars => Barring'
  BY NextBarring
<1>3. Barring => BarredStaysOut
  BY DEF Barring, BarredStaysOut
<1> QED BY <1>1, <1>2, <1>3, FollowTypeCorrect, PTL DEF FSpec

-----------------------------------------------------------------------------
(* What is undone stays undone *)

LEMMA NextKinds == ASSUME FTypeOK, Kinds, [FNext]_fvars PROVE Kinds'
<1>1. ASSUME NEW w \in Loop, NEW i \in Id, Performs(w, i) PROVE Kinds'
  <2>1. PICK p \in Perform : Move(w, i, p) /\ Turn(w, i, p)
    BY <1>1, PerformMoves
  <2>2. p.pc \in FollowSteps => Kind[i] = "follow" \/ at[w][i].pc \in FollowSteps
    BY <2>1 DEF Turn, FollowSteps, AskArrived, Check, Already, RecordFollow, Is
  <2>3. p.pc \in UndoSteps => Kind[i] = "undo" \/ at[w][i].pc \in UndoSteps
    BY <2>1 DEF Turn, UndoSteps, Unfollow, Uncount, Unrequest, Is
  <2> QED BY <2>1, <2>2, <2>3 DEF Kinds, Move
<1>2. ASSUME NEW w \in Loop, Dropped(w) PROVE Kinds'
  BY <1>2, DroppedMoves, RestType DEF Kinds, FollowSteps, UndoSteps
<1>3. ASSUME NEW q \in Request, Requests(q) PROVE Kinds'
  BY <1>3, RequestMoves DEF Kinds
<1>4. CASE UNCHANGED at
  BY <1>4 DEF Kinds
<1> QED BY <1>1, <1>2, <1>3, <1>4 DEF FNext, fvars

\* Nobody is about to make a follow beside an Undo, or after one that left no
\* memory, unless there is a race.
LEMMA Calm ==
    ASSUME Kinds, ~Racing, NEW w \in Loop, NEW i \in Id, at[w][i].pc \in UndoSteps
    PROVE  ~Risky
  BY DEF Kinds, Racing, Risky, UndoSteps, Is

LEMMA StartIdle == ASSUME FTypeOK, NEW w \in Loop, NEW i \in Id, Start(w, i) PROVE Is(w, i, "idle")
<1>1. ~At(w, i, "working")
  BY DEF Start, Begin, Enter, At
<1> QED BY <1>1 DEF FTypeOK

LEMMA PerformsUndo ==
    ASSUME FTypeOK, Kinds, Undoing, NEW w \in Loop, NEW i \in Id, Performs(w, i),
           ~raced, ~Racing, ~Racing', lost = 0, lost' = 0
    PROVE  /\ \A v \in Loop, k \in Id : Removed(v, k)'
           /\ undone' => ~follow' /\ ~request' /\ ~Risky'
<1> USE DEF relation, notes, first
<1>1. PICK p \in Perform : Move(w, i, p) /\ Turn(w, i, p)
  BY PerformMoves
<1>2. api' = api
  BY DEF Performs, Start, Fail, CountFails, AskArrived, Check, Already, RecordFollow, Count,
         Counts, Unfollow, Uncount, Unrequest, Clear, Remember
<1>3. /\ \A v \in Loop, k \in Id : Removed(v, k)
      /\ undone => ~follow /\ ~request /\ ~Risky
  BY DEF Undoing
<1>4. p.pc \notin {"check", "already", "insert"} => (Risky' => Risky)
  BY <1>1, <1>2 DEF Risky, Move
<1>5. CASE RecordFollow(w, i)
  <2>1. Risky
    BY <1>5 DEF RecordFollow, Risky, Is
  <2>2. \A v \in Loop, k \in Id : at[v][k].pc \notin UndoSteps
    BY <2>1, Calm
  <2>3. p.pc \notin UndoSteps
    <3>1. at[w][i].pc = "insert" /\ ~Start(w, i)
      BY <1>5, StartIdle DEF RecordFollow, Is
    <3>2. p.pc \in UndoSteps => at[w][i].pc \in UndoSteps
      BY <3>1, <1>1 DEF Turn, UndoSteps, Unfollow, Uncount, Unrequest, Is
    <3> QED BY <3>1, <3>2 DEF UndoSteps
  <2>4. \A v \in Loop, k \in Id : at'[v][k].pc \notin UndoSteps
    BY <2>2, <2>3, <1>1 DEF Move
  <2>5. ~undone'
    <3>1. ~undone
      BY <2>1, <1>3
    <3>2. undone' = undone
      BY <1>5 DEF RecordFollow
    <3> QED BY <3>1, <3>2
  <2> QED BY <2>4, <2>5 DEF Removed, UndoSteps
<1>6. CASE ~RecordFollow(w, i)
  <2>1. (follow' => follow) /\ (request' => request)
    BY <1>6 DEF Performs, Start, Fail, CountFails, AskArrived, Check, Already, Count,
         Counts, Unfollow, Uncount, Unrequest, Clear, Remember, FTypeOK
  <2>2. /\ p.pc \in {"uncount", "unrequest", "clear", "over", "remember"} => ~follow'
        /\ p.pc \in {"clear", "over", "remember"} => ~request'
    <3>1. CASE Unfollow(w, i)
      BY <3>1, <1>1 DEF Unfollow, Turn, Is, Start, Fail, CountFails, AskArrived, Check, Already,
           RecordFollow, Count, Counts, Uncount, Unrequest, Clear, Remember
    <3>2. CASE Unrequest(w, i)
      <4>1. ~follow /\ ~request' /\ follow' = follow
        BY <3>2, <1>3 DEF Unrequest, Removed, Is
      <4> QED BY <4>1
    <3>3. CASE ~Unfollow(w, i) /\ ~Unrequest(w, i)
      <4>1. p.pc \in {"uncount", "unrequest", "clear", "over", "remember"} =>
               p.pc = "unrequest" /\ Is(w, i, "uncount")
        BY <3>3, <1>1 DEF Turn, Uncount, Is
      <4>2. Is(w, i, "uncount") => ~follow
        BY <1>3 DEF Removed, Is
      <4> QED BY <4>1, <4>2, <2>1
    <3> QED BY <3>1, <3>2, <3>3
  <2>3. ASSUME NEW v \in Loop, NEW k \in Id PROVE Removed(v, k)'
    <3>1. CASE v = w /\ k = i
      BY <3>1, <2>2, <1>1 DEF Removed, Move
    <3>2. CASE ~(v = w /\ k = i)
      BY <3>2, <2>1, <1>1, <1>3 DEF Removed, Move
    <3> QED BY <3>1, <3>2
  <2>4. CASE Clear(w, i) \/ Remember(w, i)
    <3>1. at[w][i].pc \in UndoSteps /\ ~follow /\ ~request
      BY <2>4, <1>3 DEF Clear, Remember, UndoSteps, Removed, Is
    <3>2. ~Risky
      BY <3>1, Calm
    <3>3. p.pc = "idle"
      <4>1. at[w][i].pc \in {"clear", "over", "remember"} /\ ~Start(w, i)
        BY <2>4, StartIdle DEF Clear, Remember, Is
      <4> QED BY <4>1, <1>1 DEF Turn, CountFails, AskArrived, Check, Already, RecordFollow,
           Unfollow, Uncount, Unrequest, Is
    <3> QED BY <2>1, <2>3, <3>1, <3>2, <3>3, <1>4
  <2>5. CASE ~Clear(w, i) /\ ~Remember(w, i)
    <3>1. undone' = undone
      BY <2>5, <1>6 DEF Performs, Start, Fail, CountFails, AskArrived, Check, Already, Count,
         Counts, Unfollow, Uncount, Unrequest
    <3>2. undone => (Risky' => Risky)
      <4>1. undone /\ p.pc \in {"already", "insert"} => FALSE
        <5>1. p.pc \in {"already", "insert"} => Is(w, i, "check") \/ Is(w, i, "already")
          BY <1>1 DEF Turn, Check, Already
        <5>2. Is(w, i, "check") \/ Is(w, i, "already") => Risky
          BY DEF Risky, Is
        <5> QED BY <5>1, <5>2, <1>3
      <4>2. undone /\ p.pc = "check" => FALSE
        <5>1. ASSUME undone, p.pc = "check" PROVE FALSE
          <6>1. AskArrived(w, i) /\ (arrived => lost' = lost + 1)
            BY <5>1, <1>1 DEF Turn
          <6>2. ~arrived /\ arrived' = arrived
            BY <6>1 DEF AskArrived
          <6>3. at'[w][i].pc = "check"
            BY <5>1, <1>1 DEF Move
          <6> QED BY <5>1, <6>2, <6>3, <3>1 DEF Racing, FTypeOK
        <5> QED BY <5>1
      <4> QED BY <4>1, <4>2, <1>4
    <3> QED BY <2>1, <2>3, <3>1, <3>2, <1>3
  <2> QED BY <2>4, <2>5
<1> QED BY <1>5, <1>6

LEMMA LostGrows == ASSUME FTypeOK, [FNext]_fvars PROVE lost' \in {lost, lost + 1}
<1>1. ASSUME NEW w \in Loop, NEW i \in Id, Performs(w, i) PROVE lost' \in {lost, lost + 1}
  BY <1>1 DEF Performs, Start, Fail, CountFails, AskArrived, Check, Already, RecordFollow, Count,
       Counts, Unfollow, Uncount, Unrequest, Clear, Remember, Lost
<1>2. ASSUME NEW q \in Request, Requests(q) PROVE lost' \in {lost, lost + 1}
  BY <1>2, RequestMoves
<1>3. ASSUME NEW w \in Loop, Dropped(w) PROVE lost' \in {lost, lost + 1}
  BY <1>3 DEF Dropped
<1> QED BY <1>1, <1>2, <1>3 DEF FNext, fvars

LEMMA NextUndoing == ASSUME FTypeOK, Kinds, Undoing, [FNext]_fvars PROVE Undoing'
<1>1. CASE UNCHANGED fvars
  <2>1. Racing' = Racing /\ Risky' = Risky /\ \A v \in Loop, k \in Id : Removed(v, k)' = Removed(v, k)
    BY <1>1 DEF fvars, relation, notes, Racing, Risky, Removed, Is
  <2>2. UNCHANGED <<raced, lost, undone, follow, request>>
    BY <1>1 DEF fvars, relation, notes
  <2> QED BY <2>1, <2>2 DEF Undoing
<1>2. CASE FNext
  <2>1. raced' = (raced \/ Racing')
    BY <1>2 DEF FNext, Observed
  <2>2. ASSUME ~raced', lost' = 0
        PROVE  /\ \A v \in Loop, k \in Id : Removed(v, k)'
               /\ undone' => ~follow' /\ ~request' /\ ~Risky'
    <3>1. ~raced /\ ~Racing' /\ ~Racing
      BY <2>1, <2>2 DEF Undoing
    <3>2. lost = 0
      BY <2>2, LostGrows DEF FTypeOK
    <3>3. /\ \A v \in Loop, k \in Id : Removed(v, k)
          /\ undone => ~follow /\ ~request /\ ~Risky
      BY <3>1, <3>2 DEF Undoing
    <3>4. CASE UNCHANGED <<at, api, relation, notes>>
      <4>1. Risky' = Risky /\ \A v \in Loop, k \in Id : Removed(v, k)' = Removed(v, k)
        BY <3>4 DEF relation, Risky, Removed
      <4> QED BY <3>3, <3>4, <4>1 DEF relation, notes
    <3>5. ASSUME NEW q \in Request, Requests(q)
          PROVE  /\ \A v \in Loop, k \in Id : Removed(v, k)'
                 /\ undone' => ~follow' /\ ~request' /\ ~Risky'
      <4>1. CASE api[q] = "insert"
        <5>1. Risky
          BY <4>1 DEF Risky
        <5>2. \A v \in Loop, k \in Id : at[v][k].pc \notin UndoSteps
          BY <5>1, <3>1, Calm
        <5>3. ~undone' /\ at' = at
          BY <5>1, <3>3, <3>5, RequestMoves
        <5> QED BY <5>2, <5>3 DEF Removed, UndoSteps
      <4>2. CASE api[q] # "insert"
        <5>1. (follow' => follow) /\ (request' => request) /\ undone' = undone /\ at' = at
          BY <4>2, <3>5, RequestMoves
        <5>2. \A v \in Loop, k \in Id : Removed(v, k)'
          BY <5>1, <3>3 DEF Removed
        <5>3. ASSUME undone PROVE ~Risky'
          <6>1. ~request /\ ~Risky
            BY <5>3, <3>3
          <6>2. \A r \in Request : api'[r] = "insert" => api[r] = "insert"
            BY <6>1, <3>5, RequestMoves
          <6> QED BY <6>1, <6>2, <5>1 DEF Risky
        <5> QED BY <5>1, <5>2, <5>3, <3>3
      <4> QED BY <4>1, <4>2
    <3>6. ASSUME NEW w \in Loop, Dropped(w)
          PROVE  /\ \A v \in Loop, k \in Id : Removed(v, k)'
                 /\ undone' => ~follow' /\ ~request' /\ ~Risky'
      <4>1. \A v \in Loop, k \in Id : at'[v][k].pc \in {at[v][k].pc, "idle"}
        BY <3>6, DroppedMoves, RestType
      <4>2. UNCHANGED <<api, follow, request, undone>>
        BY <3>6 DEF Dropped, relation
      <4>3. Risky' => Risky
        BY <4>1, <4>2 DEF Risky
      <4> QED BY <4>1, <4>2, <4>3, <3>3 DEF Removed
    <3> QED BY <1>2, <2>2, <3>1, <3>2, <3>4, <3>5, <3>6, PerformsUndo DEF FNext
  <2> QED BY <2>1, <2>2 DEF Undoing
<1> QED BY <1>1, <1>2

\* For any number of Follows and Undos, of loops and of performs, in any order:
\* what was handled without a race leaves no follow and no request behind
\* (handle_undo, delete_later, delete_arrived_first).
THEOREM UndoneCorrect == FSpec => []UndoneStaysUndone
<1>1. FInit => Kinds /\ Undoing
  BY DEF FInit, Kinds, Undoing, Rest, FollowSteps, UndoSteps, Racing, Risky, Removed, Is
<1>2. FTypeOK /\ Kinds /\ [FNext]_fvars => Kinds'
  BY NextKinds
<1>3. FTypeOK /\ Kinds /\ Undoing /\ [FNext]_fvars => Undoing'
  BY NextUndoing
<1>4. Undoing => UndoneStaysUndone
  BY DEF Undoing, UndoneStaysUndone
<1> QED BY <1>1, <1>2, <1>3, <1>4, FollowTypeCorrect, PTL DEF FSpec


-----------------------------------------------------------------------------
(* The followers are counted *)

\* Who has made or removed a row and has still to count it.
Owing(pc) == {x \in Loop \X Id : at[x[1]][x[2]].pc = pc}
Asking(pc) == {q \in Request : api[q] = pc}
Debt(pc) == Cardinality(Owing(pc)) + Cardinality(Asking(pc))
Rows01 == IF follow THEN 1 ELSE 0

\* The count, once all that is under way has been counted, is right but for what was
\* missed, and for what the floor left.
Ledger ==
    /\ \A pc \in {"count", "uncount"} : IsFiniteSet(Owing(pc))
    /\ others + Rows01 - missed <= count + Debt("count") - Debt("uncount")
    /\ ~floored => count + Debt("count") - Debt("uncount") <= others + Rows01 + missed

LEMMA ThreeFinite == IsFiniteSet({"authorize", "reject", "block"})
<1>1. IsFiniteSet({"authorize"} \cup {"reject"})
  BY FS_Singleton, FS_Union
<1>2. IsFiniteSet({"authorize", "reject"} \cup {"block"})
  BY <1>1, FS_Singleton, FS_AddElement
<1> QED BY <1>2

LEMMA AskingFinite == \A pc : IsFiniteSet(Asking(pc)) /\ Cardinality(Asking(pc)) \in Nat
<1>1. IsFiniteSet(Request)
  BY ThreeFinite, FollowAssumption, FS_Subset
<1> QED BY <1>1, FS_Subset, FS_CardinalityType DEF Asking

LEMMA OwingMoves ==
    ASSUME FTypeOK, NEW w \in Loop, NEW i \in Id, NEW p, Move(w, i, p), NEW pc,
           IsFiniteSet(Owing(pc))
    PROVE  /\ IsFiniteSet(Owing(pc)')
           /\ Cardinality(Owing(pc)) \in Nat /\ Cardinality(Owing(pc)') \in Nat
           /\ Cardinality(Owing(pc)') = Cardinality(Owing(pc))
                  + (IF p.pc = pc THEN 1 ELSE 0) - (IF at[w][i].pc = pc THEN 1 ELSE 0)
<1> DEFINE x == <<w, i>>
           S == Owing(pc) \ {x}
<1>1. x \in Loop \X Id /\ x[1] = w /\ x[2] = i
  OBVIOUS
<1>2. \A y \in Loop \X Id : y = x \/ at'[y[1]][y[2]] = at[y[1]][y[2]]
  <2> SUFFICES ASSUME NEW v \in Loop, NEW k \in Id, <<v, k>> # x PROVE at'[v][k] = at[v][k]
    OBVIOUS
  <2> QED BY DEF Move
<1>3. (x \in Owing(pc) <=> at[w][i].pc = pc) /\ (x \in Owing(pc)' <=> p.pc = pc)
  BY <1>1 DEF Owing, Move
<1>4. Owing(pc)' = IF p.pc = pc THEN S \cup {x} ELSE S
  <2>1. \A y \in Loop \X Id : y # x => (y \in Owing(pc)' <=> y \in Owing(pc))
    BY <1>2 DEF Owing
  <2>2. Owing(pc) \subseteq Loop \X Id /\ Owing(pc)' \subseteq Loop \X Id
    BY DEF Owing
  <2> QED BY <1>1, <1>3, <2>1, <2>2
<1>5. /\ IsFiniteSet(S) /\ Cardinality(Owing(pc)) \in Nat /\ Cardinality(S) \in Nat
      /\ Cardinality(S) = Cardinality(Owing(pc)) - (IF at[w][i].pc = pc THEN 1 ELSE 0)
  <2>1. /\ IsFiniteSet(S)
        /\ Cardinality(S) = IF x \in Owing(pc) THEN Cardinality(Owing(pc)) - 1 ELSE Cardinality(Owing(pc))
    BY FS_RemoveElement
  <2>2. Cardinality(Owing(pc)) \in Nat /\ Cardinality(S) \in Nat
    BY <2>1, FS_CardinalityType
  <2> HIDE DEF S, x
  <2> QED BY <1>3, <2>1, <2>2
<1>6. x \notin S
  OBVIOUS
<1>7. CASE p.pc = pc
  <2>1. IsFiniteSet(S \cup {x}) /\ Cardinality(S \cup {x}) = Cardinality(S) + 1
    BY <1>5, <1>6, FS_AddElement
  <2>2. IsFiniteSet(Owing(pc)') /\ Cardinality(Owing(pc)') = Cardinality(S) + 1
    BY <1>4, <1>7, <2>1
  <2> HIDE DEF S, x
  <2> QED BY <1>5, <1>7, <2>2
<1>8. CASE p.pc # pc
  <2>1. Owing(pc)' = S
    BY <1>4, <1>8
  <2> HIDE DEF S, x
  <2> QED BY <1>5, <1>8, <2>1
<1> QED BY <1>7, <1>8

\* What a step may do to the sums.
LEMMA LedgerStep ==
    ASSUME FTypeOK, FTypeOK', Ledger, others' = others,
           \A pc \in {"count", "uncount"} : IsFiniteSet(Owing(pc)'),
           NEW c \in Int, Debt("count")' = Debt("count") + c,
           NEW u \in Int, Debt("uncount")' = Debt("uncount") + u,
           Debt("count") \in Int, Debt("uncount") \in Int,
           Rows01' - Rows01 <= count' - count + c - u + missed' - missed,
           ~floored' => /\ ~floored
                        /\ count' - count + c - u <= Rows01' - Rows01 + missed' - missed
    PROVE  Ledger'
<1>1. /\ count \in Int /\ count' \in Int /\ missed \in Int /\ missed' \in Int /\ others \in Int
      /\ Rows01 \in Int /\ Rows01' \in Int
  BY DEF FTypeOK, Rows01
<1> PICK n \in Int, nn \in Int, m \in Int, mm \in Int, o \in Int, f \in Int, ff \in Int,
         C \in Int, U \in Int :
            /\ n = count /\ nn = count' /\ m = missed /\ mm = missed' /\ o = others
            /\ f = Rows01 /\ ff = Rows01' /\ C = Debt("count") /\ U = Debt("uncount")
  BY <1>1
<1>2. o + ff - mm <= nn + (C + c) - (U + u)
  <2>1. o + f - m <= n + C - U
    BY DEF Ledger
  <2>2. ff - f <= nn - n + c - u + mm - m
    OBVIOUS
  <2> QED BY ONLY <2>1, <2>2
<1>3. ASSUME ~floored' PROVE nn + (C + c) - (U + u) <= o + ff + mm
  <2>1. n + C - U <= o + f + m
    BY <1>3 DEF Ledger
  <2>2. nn - n + c - u <= ff - f + mm - m
    BY <1>3
  <2> QED BY ONLY <2>1, <2>2
<1> QED BY <1>2, <1>3 DEF Ledger

LEMMA PerformDebts ==
    ASSUME FTypeOK, Ledger, NEW w \in Loop, NEW i \in Id, NEW p, Move(w, i, p), api' = api,
           NEW pc \in {"count", "uncount"}
    PROVE  /\ IsFiniteSet(Owing(pc)') /\ Debt(pc) \in Int
           /\ Debt(pc)' = Debt(pc) + ((IF p.pc = pc THEN 1 ELSE 0) - (IF at[w][i].pc = pc THEN 1 ELSE 0))
<1>1. IsFiniteSet(Owing(pc))
  BY DEF Ledger
<1>2. Asking(pc)' = Asking(pc)
  BY DEF Asking
<1>3. Cardinality(Asking(pc)) \in Nat
  BY AskingFinite
<1>4. PICK a \in Nat, b \in Nat, d \in Nat :
         /\ a = Cardinality(Owing(pc)) /\ b = Cardinality(Owing(pc)') /\ d = Cardinality(Asking(pc))
         /\ b = a + (IF p.pc = pc THEN 1 ELSE 0) - (IF at[w][i].pc = pc THEN 1 ELSE 0)
  BY <1>1, <1>3, OwingMoves
<1>5. Debt(pc) = a + d /\ Debt(pc)' = b + d
  BY <1>2, <1>4 DEF Debt
<1>6. PICK x \in {0, 1}, y \in {0, 1} : /\ x = IF p.pc = pc THEN 1 ELSE 0
                                        /\ y = IF at[w][i].pc = pc THEN 1 ELSE 0
  OBVIOUS
<1>7. b + d = (a + d) + (x - y)
  BY ONLY <1>4, <1>6
<1>8. a + d \in Int
  BY <1>4
<1> QED BY <1>1, <1>5, <1>6, <1>7, <1>8, OwingMoves

LEMMA PerformsLedger ==
    ASSUME FTypeOK, FTypeOK', Ledger, NEW w \in Loop, NEW i \in Id, Performs(w, i)
    PROVE  Ledger'
<1> USE DEF relation, notes
<1>1. PICK p \in Perform : Move(w, i, p) /\ Turn(w, i, p)
  BY PerformMoves
<1>2. api' = api /\ others' = others
  BY DEF Performs, Start, Fail, CountFails, AskArrived, Check, Already, RecordFollow, Count,
         Counts, Unfollow, Uncount, Unrequest, Clear, Remember
<1>3. \A pc \in {"count", "uncount"} : IsFiniteSet(Owing(pc)') /\ Debt(pc) \in Int
  BY <1>1, <1>2, PerformDebts
<1>t. /\ count \in Int /\ missed \in Int /\ follow \in BOOLEAN /\ floored \in BOOLEAN
      /\ Rows01 = IF follow THEN 1 ELSE 0
      /\ Rows01' = IF follow' THEN 1 ELSE 0
  BY DEF FTypeOK, Rows01
\* The cases give what each debt grows by.
<1>4. ASSUME NEW c \in Int, NEW u \in Int,
             c = (IF p.pc = "count" THEN 1 ELSE 0) - (IF Is(w, i, "count") THEN 1 ELSE 0),
             u = (IF p.pc = "uncount" THEN 1 ELSE 0) - (IF Is(w, i, "uncount") THEN 1 ELSE 0),
             Rows01' - Rows01 <= count' - count + c - u + missed' - missed,
             ~floored' => /\ ~floored
                          /\ count' - count + c - u <= Rows01' - Rows01 + missed' - missed
      PROVE  Ledger'
  <2>1. Debt("count")' = Debt("count") + c
    BY <1>1, <1>2, <1>4, PerformDebts DEF Is
  <2>2. Debt("uncount")' = Debt("uncount") + u
    BY <1>1, <1>2, <1>4, PerformDebts DEF Is
  <2> QED BY <1>2, <1>3, <1>4, <2>1, <2>2, LedgerStep
\* Nothing is made, removed or counted.
<1>5. ASSUME ~Is(w, i, "count"), ~Is(w, i, "uncount"), p.pc # "count", p.pc # "uncount",
             UNCHANGED <<follow, count, missed, floored>>
      PROVE  Ledger'
  <2>1. Rows01' = Rows01 /\ Rows01 \in Int
    BY <1>5, <1>t
  <2>2. /\ Rows01' - Rows01 <= count' - count + 0 - 0 + missed' - missed
        /\ count' - count + 0 - 0 <= Rows01' - Rows01 + missed' - missed
    BY <2>1, <1>5, <1>t
  <2>3. 0 = (IF p.pc = "count" THEN 1 ELSE 0) - (IF Is(w, i, "count") THEN 1 ELSE 0)
    BY <1>5
  <2>4. 0 = (IF p.pc = "uncount" THEN 1 ELSE 0) - (IF Is(w, i, "uncount") THEN 1 ELSE 0)
    BY <1>5
  <2> QED BY <1>4, <1>5, <2>2, <2>3, <2>4
<1>6. CASE Start(w, i) /\ (p.pc = "arrived" \/ p.pc = "unfollow")
  <2>1. Is(w, i, "idle")
    BY <1>6, StartIdle
  <2>2. UNCHANGED <<follow, count, missed, floored>>
    BY <1>6 DEF Start
  <2> QED BY <1>5, <1>6, <2>1, <2>2 DEF Is
<1>7. CASE p.pc = "idle" /\ (Fail(w, i) \/ Counts(w, i) \/ Clear(w, i) \/ Remember(w, i))
  <2>1. ~Is(w, i, "count") /\ ~Is(w, i, "uncount") /\ UNCHANGED <<follow, count, missed, floored>>
    BY <1>7 DEF Fail, Counts, Clear, Remember, Is
  <2> QED BY <1>5, <1>7, <2>1
<1>8. CASE Count(w, i) /\ p.pc = "idle"
  <2>1. Is(w, i, "count") /\ count' = count + 1 /\ UNCHANGED <<follow, missed, floored>>
    BY <1>8 DEF Count, Counted
  <2>2. Rows01' = Rows01 /\ Rows01 \in Int
    BY <2>1, <1>t
  <2>3. -1 = (IF p.pc = "count" THEN 1 ELSE 0) - (IF Is(w, i, "count") THEN 1 ELSE 0)
    BY <1>8, <2>1
  <2>4. 0 = (IF p.pc = "uncount" THEN 1 ELSE 0) - (IF Is(w, i, "uncount") THEN 1 ELSE 0)
    BY <1>8, <2>1 DEF Is
  <2>5. /\ Rows01' - Rows01 <= count' - count + (-1) - 0 + missed' - missed
        /\ count' - count + (-1) - 0 <= Rows01' - Rows01 + missed' - missed
    BY <2>1, <2>2, <1>t
  <2> QED BY <1>4, <2>1, <2>3, <2>4, <2>5
<1>9. CASE CountFails(w, i) /\ Is(w, i, "count") /\ p.pc = "counted"
  <2>1. missed' = missed + 1 /\ UNCHANGED <<follow, count, floored>>
    BY <1>9 DEF CountFails
  <2>2. Rows01' = Rows01 /\ Rows01 \in Int
    BY <2>1, <1>t
  <2>3. -1 = (IF p.pc = "count" THEN 1 ELSE 0) - (IF Is(w, i, "count") THEN 1 ELSE 0)
    BY <1>9
  <2>4. 0 = (IF p.pc = "uncount" THEN 1 ELSE 0) - (IF Is(w, i, "uncount") THEN 1 ELSE 0)
    BY <1>9 DEF Is
  <2>5. /\ Rows01' - Rows01 <= count' - count + (-1) - 0 + missed' - missed
        /\ count' - count + (-1) - 0 <= Rows01' - Rows01 + missed' - missed
    BY <2>1, <2>2, <1>t
  <2> QED BY <1>4, <2>1, <2>3, <2>4, <2>5
<1>10. CASE CountFails(w, i) /\ Is(w, i, "uncount") /\ p.pc = "unrequest"
  <2>1. missed' = missed + 1 /\ UNCHANGED <<follow, count, floored>>
    BY <1>10 DEF CountFails
  <2>2. Rows01' = Rows01 /\ Rows01 \in Int
    BY <2>1, <1>t
  <2>3. 0 = (IF p.pc = "count" THEN 1 ELSE 0) - (IF Is(w, i, "count") THEN 1 ELSE 0)
    BY <1>10 DEF Is
  <2>4. -1 = (IF p.pc = "uncount" THEN 1 ELSE 0) - (IF Is(w, i, "uncount") THEN 1 ELSE 0)
    BY <1>10
  <2>5. /\ Rows01' - Rows01 <= count' - count + 0 - (-1) + missed' - missed
        /\ count' - count + 0 - (-1) <= Rows01' - Rows01 + missed' - missed
    BY <2>1, <2>2, <1>t
  <2> QED BY <1>4, <2>1, <2>3, <2>4, <2>5
<1>11. CASE AskArrived(w, i) /\ p.pc \in {"idle", "check"}
  <2>1. ~Is(w, i, "count") /\ ~Is(w, i, "uncount") /\ UNCHANGED <<follow, count, missed, floored>>
    BY <1>11 DEF AskArrived, Is
  <2> QED BY <1>5, <1>11, <2>1
<1>12. CASE Check(w, i) /\ p.pc \in {"idle", "already"}
  <2>1. ~Is(w, i, "count") /\ ~Is(w, i, "uncount") /\ UNCHANGED <<follow, count, missed, floored>>
    BY <1>12 DEF Check, Is
  <2> QED BY <1>5, <1>12, <2>1
<1>13. CASE Already(w, i) /\ p.pc \in {"idle", "insert"}
  <2>1. ~Is(w, i, "count") /\ ~Is(w, i, "uncount") /\ UNCHANGED <<follow, count, missed, floored>>
    BY <1>13 DEF Already, Is
  <2> QED BY <1>5, <1>13, <2>1
<1>14. CASE RecordFollow(w, i) /\ p.pc = IF approves \/ follow THEN "idle" ELSE "count"
  <2>1. Is(w, i, "insert") /\ UNCHANGED <<count, missed, floored>>
    BY <1>14 DEF RecordFollow
  <2>2. ~Is(w, i, "count") /\ ~Is(w, i, "uncount")
    BY <2>1 DEF Is
  <2>3. follow' = IF approves THEN follow ELSE TRUE
    BY <1>14 DEF RecordFollow
  <2>4. CASE approves \/ follow
    <3>1. follow' = follow /\ p.pc = "idle"
      BY <1>14, <2>3, <2>4, <1>t
    <3> QED BY <1>5, <2>1, <2>2, <3>1
  <2>5. CASE ~(approves \/ follow)
    <3>1. Rows01 = 0 /\ Rows01' = 1 /\ p.pc = "count"
      BY <1>14, <2>3, <2>5, <1>t
    <3>2. 1 = (IF p.pc = "count" THEN 1 ELSE 0) - (IF Is(w, i, "count") THEN 1 ELSE 0)
      BY <2>2, <3>1
    <3>3. 0 = (IF p.pc = "uncount" THEN 1 ELSE 0) - (IF Is(w, i, "uncount") THEN 1 ELSE 0)
      <4>1. p.pc # "uncount"
        BY <3>1
      <4> QED BY <2>2, <4>1
    <3>4. /\ Rows01' - Rows01 <= count' - count + 1 - 0 + missed' - missed
          /\ count' - count + 1 - 0 <= Rows01' - Rows01 + missed' - missed
      BY <2>1, <3>1, <1>t
    <3> QED BY <1>4, <2>1, <3>2, <3>3, <3>4
  <2> QED BY <2>4, <2>5
<1>15. CASE Unfollow(w, i) /\ p.pc = IF follow THEN "uncount" ELSE "unrequest"
  <2>1. Is(w, i, "unfollow") /\ follow' = FALSE /\ UNCHANGED <<count, missed, floored>>
    BY <1>15 DEF Unfollow
  <2>2. ~Is(w, i, "count") /\ ~Is(w, i, "uncount")
    BY <2>1 DEF Is
  <2>3. CASE ~follow
    <3>1. follow' = follow /\ p.pc = "unrequest"
      BY <1>15, <2>1, <2>3, <1>t
    <3> QED BY <1>5, <2>1, <2>2, <3>1
  <2>4. CASE follow
    <3>1. Rows01 = 1 /\ Rows01' = 0 /\ p.pc = "uncount"
      BY <1>15, <2>1, <2>4, <1>t
    <3>2. 0 = (IF p.pc = "count" THEN 1 ELSE 0) - (IF Is(w, i, "count") THEN 1 ELSE 0)
      <4>1. p.pc # "count"
        BY <3>1
      <4> QED BY <2>2, <4>1
    <3>3. 1 = (IF p.pc = "uncount" THEN 1 ELSE 0) - (IF Is(w, i, "uncount") THEN 1 ELSE 0)
      BY <2>2, <3>1
    <3>4. /\ Rows01' - Rows01 <= count' - count + 0 - 1 + missed' - missed
          /\ count' - count + 0 - 1 <= Rows01' - Rows01 + missed' - missed
      BY <2>1, <3>1, <1>t
    <3> QED BY <1>4, <2>1, <3>2, <3>3, <3>4
  <2> QED BY <2>3, <2>4
<1>16. CASE Uncount(w, i) /\ p.pc = "unrequest"
  <2>1. Is(w, i, "uncount") /\ Uncounted /\ UNCHANGED <<follow, missed>>
    BY <1>16 DEF Uncount
  <2>2. Rows01' = Rows01 /\ Rows01 \in Int
    BY <2>1, <1>t
  <2>3. 0 = (IF p.pc = "count" THEN 1 ELSE 0) - (IF Is(w, i, "count") THEN 1 ELSE 0)
    BY <1>16, <2>1 DEF Is
  <2>4. -1 = (IF p.pc = "uncount" THEN 1 ELSE 0) - (IF Is(w, i, "uncount") THEN 1 ELSE 0)
    BY <1>16, <2>1
  <2>5. /\ count' = (IF count = 0 THEN 0 ELSE count - 1)
        /\ ~floored' => ~floored /\ count # 0
    BY <2>1, <1>t DEF Uncounted
  <2>6. /\ Rows01' - Rows01 <= count' - count + 0 - (-1) + missed' - missed
        /\ count # 0 => count' - count + 0 - (-1) <= Rows01' - Rows01 + missed' - missed
    BY <2>1, <2>2, <2>5, <1>t
  <2> QED BY <1>4, <2>3, <2>4, <2>5, <2>6
<1>17. CASE Unrequest(w, i) /\ p.pc \in {"clear", "over", "remember"}
  <2>1. ~Is(w, i, "count") /\ ~Is(w, i, "uncount") /\ UNCHANGED <<follow, count, missed, floored>>
    BY <1>17 DEF Unrequest, Is
  <2> QED BY <1>5, <1>17, <2>1
<1> QED BY <1>1, <1>6, <1>7, <1>8, <1>9, <1>10, <1>11, <1>12, <1>13, <1>14, <1>15, <1>16, <1>17 DEF Turn

\* What a request of the API may do to the sums.
LEMMA RequestDebts ==
    ASSUME FTypeOK, Ledger, NEW q \in Request, NEW to, Ask(q, api[q], to), at' = at,
           NEW pc \in {"count", "uncount"}
    PROVE  /\ IsFiniteSet(Owing(pc)') /\ Debt(pc) \in Int
           /\ Debt(pc)' = Debt(pc) + ((IF to = pc THEN 1 ELSE 0) - (IF api[q] = pc THEN 1 ELSE 0))
<1>1. Owing(pc)' = Owing(pc) /\ IsFiniteSet(Owing(pc))
  BY DEF Owing, Ledger
<1>2. /\ Cardinality(Owing(pc)) \in Nat /\ Cardinality(Asking(pc)) \in Nat
      /\ Cardinality(Asking(pc)') \in Nat
  <2>1. Asking(pc)' \subseteq Request /\ IsFiniteSet(Asking(pc)')
    <3>1. Asking(pc)' \subseteq {"authorize", "reject", "block"}
      BY FollowAssumption DEF Asking
    <3>2. IsFiniteSet({"authorize", "reject", "block"})
      BY ThreeFinite
    <3> QED BY <3>1, <3>2, FS_Subset DEF Asking
  <2> QED BY <1>1, <2>1, AskingFinite, FS_CardinalityType
<1>3. PICK a \in Nat : a = Cardinality(Asking(pc))
  BY <1>2
<1>4. PICK b \in Nat : b = Cardinality(Asking(pc)')
  BY <1>2
<1>5. PICK d \in Nat : d = Cardinality(Owing(pc))
  BY <1>2
<1>6. b = a + (IF to = pc THEN 1 ELSE 0) - (IF api[q] = pc THEN 1 ELSE 0)
  <2>1. api' = [api EXCEPT ![q] = to]
    BY DEF Ask
  <2>2. Cardinality(Asking(pc)') = Cardinality(Asking(pc))
                  + (IF to = pc THEN 1 ELSE 0) - (IF api[q] = pc THEN 1 ELSE 0)
    <3> DEFINE S == Asking(pc) \ {q}
    <3>1. Asking(pc)' = IF to = pc THEN S \cup {q} ELSE S
      BY <2>1 DEF Asking, FTypeOK
    <3>2. q \in Asking(pc) <=> api[q] = pc
      BY DEF Asking
    <3>3. IsFiniteSet(Asking(pc)) /\ Cardinality(Asking(pc)) \in Nat
      BY AskingFinite
    <3>4. /\ IsFiniteSet(S) /\ Cardinality(S) \in Nat
          /\ Cardinality(S) = Cardinality(Asking(pc)) - (IF api[q] = pc THEN 1 ELSE 0)
      <4>1. /\ IsFiniteSet(S)
            /\ Cardinality(S) = IF q \in Asking(pc) THEN Cardinality(Asking(pc)) - 1
                                                    ELSE Cardinality(Asking(pc))
        BY <3>3, FS_RemoveElement
      <4>2. Cardinality(S) \in Nat
        BY <4>1, FS_CardinalityType
      <4> HIDE DEF S
      <4> QED BY <3>2, <3>3, <4>1, <4>2
    <3>5. IsFiniteSet(S \cup {q}) /\ Cardinality(S \cup {q}) = Cardinality(S) + 1
      BY <3>4, FS_AddElement
    <3> HIDE DEF S
    <3> QED BY <3>1, <3>3, <3>4, <3>5
  <2> QED BY <2>2, <1>3, <1>4
<1>7. Debt(pc) = d + a /\ Debt(pc)' = d + b
  BY <1>1, <1>3, <1>4, <1>5 DEF Debt
<1>8. PICK x \in {0, 1}, y \in {0, 1} : /\ x = IF to = pc THEN 1 ELSE 0
                                        /\ y = IF api[q] = pc THEN 1 ELSE 0
  OBVIOUS
<1>9. d + b = (d + a) + (x - y) /\ d + a \in Int
  BY ONLY <1>3, <1>4, <1>5, <1>6, <1>8
<1> QED BY <1>1, <1>7, <1>8, <1>9

LEMMA RequestsLedger ==
    ASSUME FTypeOK, FTypeOK', Ledger, NEW q \in Request, Requests(q)
    PROVE  Ledger'
<1> USE DEF relation, notes
<1>1. at' = at /\ others' = others
  BY DEF Requests, Requested, TakeRequest, Promote, CountPromoted, PutBlock, BlockUnfollows,
         BlockUncounts, BlockUnrequests, Abandon
<1>t. /\ count \in Int /\ missed \in Int /\ follow \in BOOLEAN /\ floored \in BOOLEAN
      /\ Rows01 = IF follow THEN 1 ELSE 0
      /\ Rows01' = IF follow' THEN 1 ELSE 0
  BY DEF FTypeOK, Rows01
<1>2. ASSUME NEW to, Ask(q, api[q], to), NEW c \in Int, NEW u \in Int,
             c = (IF to = "count" THEN 1 ELSE 0) - (IF api[q] = "count" THEN 1 ELSE 0),
             u = (IF to = "uncount" THEN 1 ELSE 0) - (IF api[q] = "uncount" THEN 1 ELSE 0),
             Rows01' - Rows01 <= count' - count + c - u + missed' - missed,
             ~floored' => /\ ~floored
                          /\ count' - count + c - u <= Rows01' - Rows01 + missed' - missed
      PROVE  Ledger'
  <2>1. /\ Debt("count")' = Debt("count") + c
        /\ Debt("uncount")' = Debt("uncount") + u
    BY <1>1, <1>2, RequestDebts
  <2>2. \A pc \in {"count", "uncount"} : IsFiniteSet(Owing(pc)') /\ Debt(pc) \in Int
    BY <1>1, <1>2, RequestDebts
  <2> QED BY <1>1, <1>2, <2>1, <2>2, LedgerStep
\* Nothing is made, removed or counted.
<1>3. ASSUME NEW to, Ask(q, api[q], to), api[q] # "count", api[q] # "uncount",
             to # "count", to # "uncount", UNCHANGED <<follow, count, missed, floored>>
      PROVE  Ledger'
  <2>1. Rows01' = Rows01 /\ Rows01 \in Int
    BY <1>3, <1>t
  <2>2. /\ Rows01' - Rows01 <= count' - count + 0 - 0 + missed' - missed
        /\ count' - count + 0 - 0 <= Rows01' - Rows01 + missed' - missed
    BY <2>1, <1>3, <1>t
  <2>3. 0 = (IF to = "count" THEN 1 ELSE 0) - (IF api[q] = "count" THEN 1 ELSE 0)
    BY <1>3
  <2>4. 0 = (IF to = "uncount" THEN 1 ELSE 0) - (IF api[q] = "uncount" THEN 1 ELSE 0)
    BY <1>3
  <2> QED BY <1>2, <1>3, <2>2, <2>3, <2>4
<1>4. CASE Requested(q)
  <2>1. Ask(q, "off", "take") /\ UNCHANGED <<follow, count, missed, floored>>
    BY <1>4 DEF Requested
  <2>2. api[q] = "off"
    BY <2>1 DEF Ask
  <2> QED BY <1>3, <2>1, <2>2
<1>5. CASE TakeRequest(q)
  <2> DEFINE to == IF q = "authorize" /\ request THEN "insert" ELSE "done"
  <2>1. Ask(q, "take", to) /\ UNCHANGED <<follow, count, missed, floored>>
    BY <1>5 DEF TakeRequest
  <2>2. api[q] = "take"
    BY <2>1 DEF Ask
  <2>3. to # "count" /\ to # "uncount"
    OBVIOUS
  <2> HIDE DEF to
  <2> QED BY <1>3, <2>1, <2>2, <2>3
<1>6. CASE Promote(q)
  <2> DEFINE to == IF follow THEN "done" ELSE "count"
  <2>1. Ask(q, "insert", to) /\ follow' = TRUE /\ UNCHANGED <<count, missed, floored>>
    BY <1>6 DEF Promote
  <2>2. api[q] = "insert"
    BY <2>1 DEF Ask
  <2>3. CASE follow
    <3>1. to = "done" /\ follow' = follow
      BY <2>1, <2>3, <1>t
    <3> HIDE DEF to
    <3> QED BY <1>3, <2>1, <2>2, <3>1
  <2>4. CASE ~follow
    <3>1. to = "count" /\ Rows01 = 0 /\ Rows01' = 1
      BY <2>1, <2>4, <1>t
    <3> HIDE DEF to
    <3>2. 1 = (IF to = "count" THEN 1 ELSE 0) - (IF api[q] = "count" THEN 1 ELSE 0)
      BY <2>2, <3>1
    <3>3. 0 = (IF to = "uncount" THEN 1 ELSE 0) - (IF api[q] = "uncount" THEN 1 ELSE 0)
      BY <2>2, <3>1
    <3>4. /\ Rows01' - Rows01 <= count' - count + 1 - 0 + missed' - missed
          /\ count' - count + 1 - 0 <= Rows01' - Rows01 + missed' - missed
      BY <2>1, <3>1, <1>t
    <3> QED BY <1>2, <2>1, <2>2, <3>2, <3>3, <3>4
  <2> QED BY <2>3, <2>4
<1>7. CASE CountPromoted(q)
  <2>1. Ask(q, "count", "done") /\ count' = count + 1 /\ UNCHANGED <<follow, missed, floored>>
    BY <1>7 DEF CountPromoted, Counted
  <2>2. api[q] = "count" /\ Rows01' = Rows01 /\ Rows01 \in Int
    BY <2>1, <1>t DEF Ask
  <2>3. /\ Rows01' - Rows01 <= count' - count + (-1) - 0 + missed' - missed
        /\ count' - count + (-1) - 0 <= Rows01' - Rows01 + missed' - missed
    BY <2>1, <2>2, <1>t
  <2>4. -1 = (IF "done" = "count" THEN 1 ELSE 0) - (IF api[q] = "count" THEN 1 ELSE 0)
    BY <2>2
  <2>5. 0 = (IF "done" = "uncount" THEN 1 ELSE 0) - (IF api[q] = "uncount" THEN 1 ELSE 0)
    BY <2>2
  <2> QED BY <1>2, <2>1, <2>2, <2>3, <2>4, <2>5
<1>8. CASE PutBlock(q)
  <2>1. Ask(q, "take", "unfollow") /\ UNCHANGED <<follow, count, missed, floored>>
    BY <1>8 DEF PutBlock
  <2>2. api[q] = "take"
    BY <2>1 DEF Ask
  <2> QED BY <1>3, <2>1, <2>2
<1>9. CASE BlockUnfollows(q)
  <2> DEFINE to == IF follow THEN "uncount" ELSE "unrequest"
  <2>1. Ask(q, "unfollow", to) /\ follow' = FALSE /\ UNCHANGED <<count, missed, floored>>
    BY <1>9 DEF BlockUnfollows
  <2>2. api[q] = "unfollow"
    BY <2>1 DEF Ask
  <2>3. CASE ~follow
    <3>1. to = "unrequest" /\ follow' = follow
      BY <2>1, <2>3, <1>t
    <3> HIDE DEF to
    <3> QED BY <1>3, <2>1, <2>2, <3>1
  <2>4. CASE follow
    <3>1. to = "uncount" /\ Rows01 = 1 /\ Rows01' = 0
      BY <2>1, <2>4, <1>t
    <3> HIDE DEF to
    <3>2. 0 = (IF to = "count" THEN 1 ELSE 0) - (IF api[q] = "count" THEN 1 ELSE 0)
      BY <2>2, <3>1
    <3>3. 1 = (IF to = "uncount" THEN 1 ELSE 0) - (IF api[q] = "uncount" THEN 1 ELSE 0)
      BY <2>2, <3>1
    <3>4. /\ Rows01' - Rows01 <= count' - count + 0 - 1 + missed' - missed
          /\ count' - count + 0 - 1 <= Rows01' - Rows01 + missed' - missed
      BY <2>1, <3>1, <1>t
    <3> QED BY <1>2, <2>1, <2>2, <3>2, <3>3, <3>4
  <2> QED BY <2>3, <2>4
<1>10. CASE BlockUncounts(q)
  <2>1. Ask(q, "uncount", "unrequest") /\ Uncounted /\ UNCHANGED <<follow, missed>>
    BY <1>10 DEF BlockUncounts
  <2>2. api[q] = "uncount" /\ Rows01' = Rows01 /\ Rows01 \in Int
    BY <2>1, <1>t DEF Ask
  <2>3. /\ count' = (IF count = 0 THEN 0 ELSE count - 1)
        /\ ~floored' => ~floored /\ count # 0
    BY <2>1, <1>t DEF Uncounted
  <2>4. /\ Rows01' - Rows01 <= count' - count + 0 - (-1) + missed' - missed
        /\ count # 0 => count' - count + 0 - (-1) <= Rows01' - Rows01 + missed' - missed
    BY <2>1, <2>2, <2>3, <1>t
  <2>5. 0 = (IF "unrequest" = "count" THEN 1 ELSE 0) - (IF api[q] = "count" THEN 1 ELSE 0)
    BY <2>2
  <2>6. -1 = (IF "unrequest" = "uncount" THEN 1 ELSE 0) - (IF api[q] = "uncount" THEN 1 ELSE 0)
    BY <2>2
  <2> QED BY <1>2, <2>1, <2>2, <2>3, <2>4, <2>5, <2>6
<1>11. CASE BlockUnrequests(q)
  <2>1. Ask(q, "unrequest", "done") /\ UNCHANGED <<follow, count, missed, floored>>
    BY <1>11 DEF BlockUnrequests
  <2>2. api[q] = "unrequest"
    BY <2>1 DEF Ask
  <2> QED BY <1>3, <2>1, <2>2
<1>12. CASE Abandon(q)
  <2>1. /\ Ask(q, api[q], "done") /\ UNCHANGED <<follow, count, floored>>
        /\ missed' = missed + IF api[q] \in {"count", "uncount"} THEN 1 ELSE 0
    BY <1>12 DEF Abandon, Ask
  <2>2. Rows01' = Rows01 /\ Rows01 \in Int
    BY <2>1, <1>t
  <2>3. CASE api[q] = "count"
    <3>1. missed' = missed + 1
      BY <2>1, <2>3
    <3>2. /\ Rows01' - Rows01 <= count' - count + (-1) - 0 + missed' - missed
          /\ count' - count + (-1) - 0 <= Rows01' - Rows01 + missed' - missed
      BY <2>1, <2>2, <3>1, <1>t
    <3>3. -1 = (IF "done" = "count" THEN 1 ELSE 0) - (IF api[q] = "count" THEN 1 ELSE 0)
      BY <2>3
    <3>4. 0 = (IF "done" = "uncount" THEN 1 ELSE 0) - (IF api[q] = "uncount" THEN 1 ELSE 0)
      BY <2>3
    <3> QED BY <1>2, <2>1, <3>2, <3>3, <3>4
  <2>4. CASE api[q] = "uncount"
    <3>1. missed' = missed + 1
      BY <2>1, <2>4
    <3>2. /\ Rows01' - Rows01 <= count' - count + 0 - (-1) + missed' - missed
          /\ count' - count + 0 - (-1) <= Rows01' - Rows01 + missed' - missed
      BY <2>1, <2>2, <3>1, <1>t
    <3>3. 0 = (IF "done" = "count" THEN 1 ELSE 0) - (IF api[q] = "count" THEN 1 ELSE 0)
      BY <2>4
    <3>4. -1 = (IF "done" = "uncount" THEN 1 ELSE 0) - (IF api[q] = "uncount" THEN 1 ELSE 0)
      BY <2>4
    <3> QED BY <1>2, <2>1, <3>2, <3>3, <3>4
  <2>5. CASE api[q] # "count" /\ api[q] # "uncount"
    <3>1. missed' = missed
      BY <2>1, <2>5, <1>t
    <3> QED BY <1>3, <2>1, <2>5, <3>1
  <2> QED BY <2>3, <2>4, <2>5
<1> QED BY <1>4, <1>5, <1>6, <1>7, <1>8, <1>9, <1>10, <1>11, <1>12 DEF Requests

\* A batch that is dropped leaves its debts unpaid, and all of them are missed.
LEMMA DroppedOwing ==
    ASSUME FTypeOK, Ledger, NEW w \in Loop, Dropped(w), NEW pc \in {"count", "uncount"}
    PROVE  LET K == {i \in Id : at[w][i].pc = pc}
           IN  /\ IsFiniteSet(Owing(pc)') /\ Cardinality(Owing(pc)') \in Nat
               /\ IsFiniteSet(K) /\ Cardinality(K) \in Nat
               /\ Cardinality(Owing(pc)) = Cardinality(Owing(pc)') + Cardinality(K)
<1> DEFINE K == {i \in Id : at[w][i].pc = pc}
           O == Owing(pc)
           L == {x \in Owing(pc) : x[1] # w}
           D == {w} \X K
<1>1. Owing(pc)' = L
  <2>1. ASSUME NEW v \in Loop, NEW k \in Id
        PROVE  at'[v][k].pc = pc <=> v # w /\ at[v][k].pc = pc
    BY RestType DEF Dropped, FTypeOK, Rest
  <2> QED BY <2>1 DEF Owing
<1>2. O = L \cup D /\ L \cap D = {}
  BY DEF Owing
<1>3. IsFiniteSet(O)
  BY DEF Ledger
<1>4. IsFiniteSet(L) /\ Cardinality(L) \in Nat
  BY <1>3, FS_Subset, FS_CardinalityType
<1>5. IsFiniteSet(K) /\ Cardinality(K) \in Nat
  BY QueueAssumption, FS_Subset, FS_CardinalityType
<1>6. IsFiniteSet(D) /\ Cardinality(D) = Cardinality(K)
  <2>1. IsFiniteSet({w}) /\ Cardinality({w}) = 1
    BY FS_Singleton
  <2>2. IsFiniteSet(D) /\ Cardinality(D) = 1 * Cardinality(K)
    BY <1>5, <2>1, FS_Product
  <2> HIDE DEF K, D
  <2> QED BY <1>5, <2>2
<1>7. Cardinality(O) = Cardinality(L) + Cardinality(D)
  <2>1. Cardinality(L \cup D) = Cardinality(L) + Cardinality(D) - Cardinality(L \cap D)
    BY <1>4, <1>6, FS_Union
  <2>2. Cardinality(L \cap D) = 0
    BY <1>2, FS_EmptySet
  <2> HIDE DEF K, D, L, O
  <2> QED BY <1>2, <1>4, <1>5, <1>6, <2>1, <2>2
<1>8. Cardinality(Owing(pc)) = Cardinality(Owing(pc)') + Cardinality(K)
  BY <1>1, <1>6, <1>7
<1>9. IsFiniteSet(Owing(pc)') /\ Cardinality(Owing(pc)') \in Nat
  BY <1>1, <1>4
<1> QED BY <1>5, <1>8, <1>9

LEMMA DroppedLedger ==
    ASSUME FTypeOK, FTypeOK', Ledger, NEW w \in Loop, Dropped(w)
    PROVE  Ledger'
<1> USE DEF relation, notes
<1> DEFINE K == {i \in Id : at[w][i].pc = "count"}
           M == {i \in Id : at[w][i].pc = "uncount"}
<1>1. UNCHANGED <<api, follow, count, others, floored>>
  BY DEF Dropped
<1>2. missed' = missed + (Cardinality(K) + Cardinality(M))
  <2>1. {i \in Id : at[w][i].pc \in {"count", "uncount"}} = K \cup M /\ K \cap M = {}
    OBVIOUS
  <2>2. IsFiniteSet(K) /\ IsFiniteSet(M)
    BY QueueAssumption, FS_Subset
  <2>3. Cardinality(K \cup M) = Cardinality(K) + Cardinality(M) - Cardinality(K \cap M)
    BY <2>2, FS_Union
  <2>4. Cardinality(K \cap M) = 0 /\ Cardinality(K) \in Nat /\ Cardinality(M) \in Nat
    BY <2>1, <2>2, FS_EmptySet, FS_CardinalityType
  <2>5. missed' = missed + Cardinality(K \cup M)
    BY <2>1 DEF Dropped
  <2> HIDE DEF K, M
  <2> QED BY <2>3, <2>4, <2>5
<1>3. /\ Cardinality(Owing("count")') \in Nat /\ Cardinality(K) \in Nat
      /\ IsFiniteSet(Owing("count")')
      /\ Cardinality(Owing("count")) = Cardinality(Owing("count")') + Cardinality(K)
  BY DroppedOwing
<1>4. /\ Cardinality(Owing("uncount")') \in Nat /\ Cardinality(M) \in Nat
      /\ IsFiniteSet(Owing("uncount")')
      /\ Cardinality(Owing("uncount")) = Cardinality(Owing("uncount")') + Cardinality(M)
  BY DroppedOwing
<1>5. /\ \A pc : Asking(pc)' = Asking(pc)
      /\ Cardinality(Asking("count")) \in Nat /\ Cardinality(Asking("uncount")) \in Nat
  BY <1>1, AskingFinite DEF Asking
<1> PICK a \in Nat, aa \in Nat, k \in Nat :
       /\ a = Cardinality(Owing("count")) /\ aa = Cardinality(Owing("count")')
       /\ k = Cardinality(K) /\ a = aa + k
  <2> HIDE DEF K
  <2> QED BY <1>3
<1> PICK b \in Nat, bb \in Nat, m \in Nat :
       /\ b = Cardinality(Owing("uncount")) /\ bb = Cardinality(Owing("uncount")')
       /\ m = Cardinality(M) /\ b = bb + m
  <2> HIDE DEF M
  <2> QED BY <1>4
<1> PICK ac \in Nat, au \in Nat :
       ac = Cardinality(Asking("count")) /\ au = Cardinality(Asking("uncount"))
  BY <1>5
<1>6. /\ Debt("count") = a + ac /\ Debt("count")' = aa + ac
      /\ Debt("uncount") = b + au /\ Debt("uncount")' = bb + au
  BY <1>5 DEF Debt
<1>7. missed' - missed = k + m
  <2>1. missed \in Int /\ missed' = missed + (k + m)
    BY <1>2 DEF FTypeOK
  <2> QED BY <2>1
<1>8. Rows01' = Rows01 /\ Rows01 \in Int /\ count \in Int /\ missed \in Int
  BY <1>1 DEF Rows01, FTypeOK
<1>9. aa + ac = (a + ac) + (-k) /\ bb + au = (b + au) + (-m)
  OBVIOUS
<1>10. /\ Rows01' - Rows01 <= count' - count + (-k) - (-m) + missed' - missed
       /\ count' - count + (-k) - (-m) <= Rows01' - Rows01 + missed' - missed
  <2>1. missed' = missed + (k + m)
    BY <1>2
  <2> QED BY <1>1, <1>8, <2>1
<1>11. \A pc \in {"count", "uncount"} : IsFiniteSet(Owing(pc)')
  BY <1>3, <1>4
<1> HIDE DEF K, M
<1> QED BY <1>1, <1>6, <1>9, <1>10, <1>11, LedgerStep

LEMMA NextLedger == ASSUME FTypeOK, FTypeOK', Ledger, [FNext]_fvars PROVE Ledger'
<1>1. CASE UNCHANGED <<at, api, relation, count, notes>>
  <2>1. \A pc : Owing(pc)' = Owing(pc) /\ Asking(pc)' = Asking(pc)
    BY <1>1 DEF Owing, Asking
  <2>2. Debt("count")' = Debt("count") /\ Debt("uncount")' = Debt("uncount")
    BY <2>1 DEF Debt
  <2>3. UNCHANGED <<Rows01, count, others, missed, floored>>
    BY <1>1 DEF relation, notes, Rows01
  <2> QED BY <2>1, <2>2, <2>3 DEF Ledger
<1>2. CASE Rows /\ UNCHANGED <<at, api, relation, arrived, count, notes, first, lost>>
  BY <1>1, <1>2
<1>3. CASE UNCHANGED fvars
  BY <1>1, <1>3 DEF fvars
<1> QED BY <1>2, <1>3, PerformsLedger, RequestsLedger, DroppedLedger DEF FNext

LEMMA InitLedger == FInit => Ledger
<1> SUFFICES ASSUME FInit PROVE Ledger
  OBVIOUS
<1>1. \A pc \in {"count", "uncount"} : Owing(pc) = {} /\ Asking(pc) = {}
  BY DEF FInit, Owing, Asking, Rest
<1>2. \A pc \in {"count", "uncount"} : IsFiniteSet(Owing(pc)) /\ Debt(pc) = 0
  BY <1>1, FS_EmptySet DEF Debt
<1>3. Rows01 = 0 /\ count = others /\ missed = 0 /\ others \in Int
  BY DEF FInit, Rows01
<1> QED BY <1>2, <1>3 DEF Ledger

\* Nothing is missed but by a fault.
Unmissed == faults = 0 => missed = 0

LEMMA NextUnmissed == ASSUME FTypeOK, Unmissed, [FNext]_fvars PROVE Unmissed'
<1>1. faults \in Nat
  BY QueueAssumption DEF FTypeOK, TypeOK
<1>2. CASE missed' = missed
  <2>1. faults' \in {faults, faults + 1}
    BY FollowStep DEF Next, Rows, Enqueue, LeaseEnds, Overrun, Cleanup, Claim, Record, RecordLost, Begin,
         PerformOk, PerformFails, Drop, Misfortune, Fault, queue
  <2> QED BY <1>1, <1>2, <2>1 DEF Unmissed
<1>3. CASE Misfortune \/ \E w \in Loop : Dropped(w)
  <2>1. faults' = faults + 1
    BY <1>3 DEF Misfortune, Dropped, Drop, Fault
  <2> QED BY <1>1, <2>1 DEF Unmissed
<1>4. ASSUME NEW w \in Loop, NEW i \in Id, Performs(w, i) PROVE missed' = missed \/ Misfortune
  BY <1>4 DEF Performs, Start, Fail, CountFails, AskArrived, Check, Already, RecordFollow, Count, Counts,
       Unfollow, Uncount, Unrequest, Clear, Remember, notes
<1>5. ASSUME NEW q \in Request, Requests(q) PROVE missed' = missed \/ Misfortune
  BY <1>5 DEF Requests, Requested, TakeRequest, Promote, CountPromoted, PutBlock, BlockUnfollows,
       BlockUncounts, BlockUnrequests, Abandon, notes
<1> QED BY <1>2, <1>3, <1>4, <1>5 DEF FNext, fvars, notes

LEMMA RestPaid == ASSUME FTypeOK, Ledger, Unmissed PROVE FollowersCounted
<1> SUFFICES ASSUME AtRest PROVE FollowersCounted
  BY DEF FollowersCounted
<1>1. \A pc \in {"count", "uncount"} : Owing(pc) = {} /\ Asking(pc) = {}
  BY DEF AtRest, Owing, Asking, Is
<1>2. Debt("count") = 0 /\ Debt("uncount") = 0
  BY <1>1, FS_EmptySet DEF Debt
<1>3. count \in Int /\ others \in Int /\ missed \in Int /\ Rows01 \in Int
  BY DEF FTypeOK, Rows01
<1>4. /\ others + Rows01 - missed <= count
      /\ ~floored => count <= others + Rows01 + missed
  BY <1>2, <1>3 DEF Ledger
<1>5. CASE follow
  <2>1. /\ others + 1 - missed <= count
        /\ ~floored => count <= others + 1 + missed
    BY <1>4, <1>5 DEF Rows01
  <2> QED BY <1>3, <1>5, <2>1 DEF FollowersCounted, Unmissed
<1>6. CASE ~follow
  <2>1. /\ others + 0 - missed <= count
        /\ ~floored => count <= others + 0 + missed
    BY <1>4, <1>6 DEF Rows01
  <2> QED BY <1>3, <1>6, <2>1 DEF FollowersCounted, Unmissed
<1> QED BY <1>5, <1>6

\* For any number of Follows and Undos, of loops and of faults: with nobody at work
\* on it, the followed account's followers are counted but for what was missed and
\* what the floor left, and nothing is missed before the first fault
\* (RETURNING (xmax = 0), on_follow_created, on_follow_removed).
THEOREM FollowersCorrect == FSpec => []FollowersCounted
<1>1. FTypeOK /\ FTypeOK' /\ Ledger /\ [FNext]_fvars => Ledger'
  BY NextLedger
<1>2. FTypeOK /\ Ledger /\ Unmissed => FollowersCounted
  BY RestPaid
<1>3. FInit => Unmissed
  BY DEF FInit, Unmissed
<1>4. FTypeOK /\ Unmissed /\ [FNext]_fvars => Unmissed'
  BY NextUnmissed
<1> QED BY InitLedger, <1>1, <1>2, <1>3, <1>4, FollowTypeCorrect, PTL DEF FSpec
=============================================================================
