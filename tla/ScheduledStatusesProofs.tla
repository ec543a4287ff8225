---------------------- MODULE ScheduledStatusesProofs ----------------------
(***************************************************************************)
(* Proofs of ScheduledStatuses: for every number of processes, schedules,  *)
(* attempts and errors, no schedule is lost, parked early or tried without *)
(* end, and each process posts a schedule once, and once more for every    *)
(* error.                                                                  *)
(***************************************************************************)
EXTENDS ScheduledStatuses, FiniteSetTheorems, TLAPS

\* What one step of a pass leaves alone.
LEMMA Moved ==
    ASSUME TypeOK, NEW p \in Publisher, NEW s \in Schedule, NEW from, NEW to \in Stage,
           Move(p, s, from, to)
    PROVE  /\ at' \in [Publisher -> [Schedule -> Stage]]
           /\ at[p][s] = from /\ at'[p][s] = to
           /\ \A q \in Publisher, o \in Schedule :
                 q # p \/ o # s => at'[q][o] = at[q][o]
BY DEF TypeOK, Move

\* A step within a schedule under way, or away from it, begins no other.
LEMMA OneBusy ==
    ASSUME TypeOK, NEW p \in Publisher, NEW s \in Schedule,
           NEW from \in Busy, NEW to \in Stage, Move(p, s, from, to)
    PROVE  \A q \in Publisher, x, y \in Schedule :
              at'[q][x] \in Busy /\ at'[q][y] \in Busy => x = y
<1>1. /\ at[p][s] \in Busy
      /\ \A q \in Publisher, o \in Schedule : at'[q][o] \in Busy => at[q][o] \in Busy
  BY Moved
<1>2. QED
  BY <1>1 DEF TypeOK

LEMMA Posted ==
    ASSUME TypeOK, NEW p \in Publisher, NEW s \in Schedule, Inserts(p, s)
    PROVE  /\ posts' \in [Publisher -> [Schedule -> Nat]]
           /\ posts'[p][s] = posts[p][s] + 1
           /\ \A q \in Publisher, o \in Schedule :
                 q # p \/ o # s => posts'[q][o] = posts[q][o]
           /\ s \notin Blank /\ row[s] # "orphaned"
BY DEF TypeOK, Inserts

LEMMA Failed ==
    ASSUME TypeOK, NEW s \in Schedule, Fails(s)
    PROVE  /\ failures' \in [Schedule -> 0..MaxFailures]
           /\ failures'[s] = failures[s] + 1
           /\ \A o \in Schedule \ {s} : failures'[o] = failures[o]
BY ScheduleAssumption DEF TypeOK, Fails

LEMMA Stages == Busy \subseteq Stage /\ {"out", "batch"} \subseteq Stage \ Busy
BY DEF Busy, Stage

\* A pass that begins, or is given up, leaves no schedule half done.
LEMMA Away ==
    ASSUME TypeOK, NEW p \in Publisher, Select(p) \/ StatementFails(p) \/ Dies(p)
    PROVE  /\ at' \in [Publisher -> [Schedule -> Stage]]
           /\ \A q \in Publisher \ {p} : at'[q] = at[q]
           /\ \A o \in Schedule : at'[p][o] \in {"out", "batch"}
<1>1. at \in [Publisher -> [Schedule -> Stage]]
  BY DEF TypeOK
<1>2. PICK f \in [Schedule -> {"out", "batch"}] : at' = [at EXCEPT ![p] = f]
  <2>1. CASE Select(p)
    BY <2>1 DEF Select
  <2>2. CASE Abort(p)
    BY <2>2 DEF Abort
  <2>3. QED
    BY <2>1, <2>2 DEF StatementFails, Dies
<1>3. f \in [Schedule -> Stage]
  BY <1>2, Stages
<1>4. QED
  BY <1>1, <1>2, <1>3

\* So where it is between the statements about a schedule, it was before.
LEMMA AwayIdle ==
    ASSUME TypeOK, NEW p \in Publisher, Select(p) \/ StatementFails(p) \/ Dies(p),
           NEW q \in Publisher, NEW s \in Schedule, at'[q][s] \in Busy
    PROVE  at'[q][s] = at[q][s]
<1>1. CASE q = p
  BY <1>1, Away, Stages
<1>2. CASE q # p
  BY <1>2, Away
<1>3. QED
  BY <1>1, <1>2

-----------------------------------------------------------------------------
(* Types *)

LEMMA TypeInit == Init => TypeOK
BY ScheduleAssumption DEF Init, TypeOK, Row, Pending, Stage, Busy

LEMMA TypeRows ==
    ASSUME TypeOK, NEW s \in Schedule,
           \/ Create(s) \/ FallsDue(s) \/ Reschedule(s) \/ Cancel(s) \/ AuthorGone(s)
    PROVE  TypeOK'
<1>1. \E from : \E to \in Row : Becomes(s, from, to)
  <2>1. CASE Create(s)
    BY <2>1 DEF Create, Row, Pending
  <2>2. CASE FallsDue(s)
    BY <2>2 DEF FallsDue, Row, Pending
  <2>3. CASE Reschedule(s)
    BY <2>3 DEF Reschedule, Row, Pending
  <2>4. CASE Cancel(s)
    BY <2>4 DEF Cancel, Row
  <2>5. CASE AuthorGone(s)
    BY <2>5 DEF AuthorGone, Row
  <2>6. QED
    BY <2>1, <2>2, <2>3, <2>4, <2>5
<1>2. row' \in [Schedule -> Row] /\ UNCHANGED <<book, at, history, errors>>
  BY <1>1 DEF TypeOK, Becomes
<1>3. QED
  BY <1>2 DEF TypeOK, book, history

LEMMA TypePublish ==
    ASSUME TypeOK, NEW p \in Publisher, NEW s \in Schedule,
           \/ Insert(p, s) \/ Unpublishable(p, s) \/ WritesNothing(p, s)
           \/ InsertUnanswered(p, s) \/ Follow(p, s)
    PROVE  TypeOK'
<1>1. PICK from \in Busy, to \in Busy : Move(p, s, from, to)
  BY DEF Insert, Unpublishable, WritesNothing, InsertUnanswered, Follow, Busy
<1>2. /\ at' \in [Publisher -> [Schedule -> Stage]]
      /\ \A q \in Publisher, x, y \in Schedule :
            at'[q][x] \in Busy /\ at'[q][y] \in Busy => x = y
  BY <1>1, Moved, OneBusy, Stages
<1>3. posts' \in [Publisher -> [Schedule -> Nat]]
  <2>1. posts' = posts \/ Inserts(p, s)
    BY DEF Insert, Unpublishable, WritesNothing, InsertUnanswered, Follow, history
  <2>2. QED
    BY <2>1, Posted DEF TypeOK
<1>4. failures' \in [Schedule -> 0..MaxFailures]
  <2>1. failures' = failures \/ Fails(s)
    BY DEF Insert, Unpublishable, WritesNothing, InsertUnanswered, Follow, history
  <2>2. QED
    BY <2>1, Failed DEF TypeOK
<1>5. errors' \in 0..MaxErrors
  <2>1. errors' = errors \/ Error
    BY DEF Insert, Unpublishable, WritesNothing, InsertUnanswered, Follow
  <2>2. QED
    BY <2>1, ScheduleAssumption DEF TypeOK, Error
<1>6. complete' \subseteq Schedule
  BY DEF Insert, Unpublishable, WritesNothing, InsertUnanswered, Follow, history, TypeOK
<1>7. UNCHANGED <<row, book>>
  BY DEF Insert, Unpublishable, WritesNothing, InsertUnanswered, Follow
<1>8. QED
  BY <1>2, <1>3, <1>4, <1>5, <1>6, <1>7 DEF TypeOK, book

LEMMA TypeBook ==
    ASSUME TypeOK, NEW p \in Publisher, NEW s \in Schedule,
           DeleteAttempts(p, s) \/ DeleteSchedule(p, s) \/ CountAttempt(p, s) \/ Park(p, s)
    PROVE  TypeOK'
<1>1. PICK from \in Busy, to \in Stage : Move(p, s, from, to)
  BY DEF DeleteAttempts, DeleteSchedule, CountAttempt, Park, Busy, Stage
<1>2. /\ at' \in [Publisher -> [Schedule -> Stage]]
      /\ \A q \in Publisher, x, y \in Schedule :
            at'[q][x] \in Busy /\ at'[q][y] \in Busy => x = y
  BY <1>1, Moved, OneBusy
<1>3. UNCHANGED <<history, errors>>
  BY DEF DeleteAttempts, DeleteSchedule, CountAttempt, Park
<1>4. row' \in [Schedule -> Row]
  BY DEF DeleteAttempts, DeleteSchedule, CountAttempt, Park, TypeOK, Row
<1>5. /\ attempts' \in [Schedule -> Nat]
      /\ backoff' \in [Schedule -> BOOLEAN] /\ parked' \in [Schedule -> BOOLEAN]
      /\ \A o \in Schedule : backoff'[o] \/ parked'[o] => attempts'[o] > 0
  <2>1. CASE DeleteAttempts(p, s)
    BY <2>1 DEF DeleteAttempts, TypeOK
  <2>2. CASE DeleteSchedule(p, s)
    BY <2>2 DEF DeleteSchedule, book, TypeOK
  <2>3. CASE CountAttempt(p, s)
    BY <2>3 DEF CountAttempt, TypeOK
  <2>4. CASE Park(p, s)
    BY <2>4 DEF Park, TypeOK
  <2>5. QED
    BY <2>1, <2>2, <2>3, <2>4
<1>6. QED
  BY <1>2, <1>3, <1>4, <1>5 DEF TypeOK, history

LEMMA TypePass ==
    ASSUME TypeOK, NEW p \in Publisher, Select(p) \/ StatementFails(p) \/ Dies(p)
    PROVE  TypeOK'
<1>1. /\ at' \in [Publisher -> [Schedule -> Stage]]
      /\ \A q \in Publisher \ {p} : at'[q] = at[q]
      /\ \A o \in Schedule : at'[p][o] \in {"out", "batch"}
  BY Away
<1>2. errors' \in 0..MaxErrors /\ UNCHANGED <<row, book, history>>
  BY ScheduleAssumption DEF Select, StatementFails, Dies, Abort, Error, TypeOK
<1>3. \A q \in Publisher, x, y \in Schedule :
         at'[q][x] \in Busy /\ at'[q][y] \in Busy => x = y
  BY <1>1, Stages DEF TypeOK
<1>4. QED
  BY <1>1, <1>2, <1>3 DEF TypeOK, book, history

LEMMA TypeNext == TypeOK /\ [Next]_vars => TypeOK'
<1> SUFFICES ASSUME TypeOK, [Next]_vars
             PROVE  TypeOK'
  OBVIOUS
<1>1. ASSUME NEW p \in Publisher, NEW s \in Schedule, Begin(p, s)
      PROVE  TypeOK'
  <2>1. /\ at' \in [Publisher -> [Schedule -> Stage]]
        /\ \A q \in Publisher, o \in Schedule : q # p \/ o # s => at'[q][o] = at[q][o]
    BY <1>1, Moved, Stages DEF Begin, Busy
  <2>2. UNCHANGED <<row, book, history, errors>> /\ \A o \in Schedule : at[p][o] \notin Busy
    BY <1>1 DEF Begin
  <2>3. \A q \in Publisher, x, y \in Schedule :
           at'[q][x] \in Busy /\ at'[q][y] \in Busy => x = y
    BY <2>1, <2>2 DEF TypeOK
  <2>4. QED
    BY <2>1, <2>2, <2>3 DEF TypeOK, book, history
<1>2. ASSUME NEW s \in Schedule, BackoffOver(s)
      PROVE  TypeOK'
  BY <1>2 DEF BackoffOver, history, TypeOK
<1>3. CASE UNCHANGED vars
  BY <1>3 DEF vars, book, history, TypeOK
<1>4. QED
  BY <1>1, <1>2, <1>3, TypeRows, TypePublish, TypeBook, TypePass DEF Next, Continue

\* Every schedule, its row of attempts and each pass are in a state the code
\* knows: a pass is at one schedule, and only a row of attempts is parked.
THEOREM TypeCorrect == Spec => []TypeOK
BY TypeInit, TypeNext, PTL DEF Spec

-----------------------------------------------------------------------------
(* What the publisher removes has been posted *)

\* A pass that is about to remove a schedule has done with it.
FinishedOK == \A p \in Publisher, s \in Schedule :
    at[p][s] \in {"forgetting", "dropping"} =>
        s \in complete \cup Blank \/ row[s] = "orphaned"

LostInv == FinishedOK /\ NothingLost

\* Once an author has gone it stays so, and only passes write "published".
LEMMA RowSteps ==
    ASSUME TypeOK, [Next]_vars, NEW s \in Schedule
    PROVE  /\ row[s] = "orphaned" => row'[s] = "orphaned"
           /\ row[s] # "none" => row'[s] # "none"
           /\ row'[s] = "published" => \/ row[s] = "published"
                                       \/ row[s] # "orphaned" /\
                                            \E p \in Publisher : DeleteSchedule(p, s)
<1>1. ASSUME NEW o \in Schedule,
             Create(o) \/ FallsDue(o) \/ Reschedule(o) \/ Cancel(o) \/ AuthorGone(o)
      PROVE  /\ row[s] = "orphaned" => row'[s] = "orphaned"
             /\ row[s] # "none" => row'[s] # "none"
             /\ row'[s] = "published" => row[s] = "published"
  BY <1>1 DEF Create, FallsDue, Reschedule, Cancel, AuthorGone, Becomes, Pending, Row, TypeOK
<1>2. ASSUME NEW p \in Publisher, NEW o \in Schedule, DeleteSchedule(p, o)
      PROVE  /\ row[s] \notin Pending => row'[s] = row[s]
             /\ row'[s] # row[s] => row'[s] = "published" /\ o = s
  BY <1>2 DEF DeleteSchedule, TypeOK
<1>3. CASE \E p \in Publisher, o \in Schedule : DeleteSchedule(p, o)
  BY <1>2, <1>3 DEF Pending
<1>4. CASE UNCHANGED row
  BY <1>4
<1>5. QED
  BY <1>1, <1>3, <1>4 DEF Next, Continue, Begin, Insert, Unpublishable, Follow, DeleteAttempts,
     CountAttempt, Park, BackoffOver, Select, StatementFails, Dies, Abort, WritesNothing,
     InsertUnanswered, vars

\* A pass comes to forget a schedule because its status is out, or cannot be.
LEMMA Forgets ==
    ASSUME TypeOK, [Next]_vars, NEW p \in Publisher, NEW s \in Schedule,
           at'[p][s] \in {"forgetting", "dropping"}
    PROVE  \/ at[p][s] \in {"forgetting", "dropping"}
           \/ s \in complete' \cup Blank \/ row[s] = "orphaned"
<1>1. ASSUME NEW q \in Publisher, NEW o \in Schedule,
             NEW from \in Stage, NEW to \in Stage \ {"forgetting", "dropping"}, Move(q, o, from, to)
      PROVE  at[p][s] \in {"forgetting", "dropping"}
  BY <1>1, Moved
<1>2. ASSUME NEW q \in Publisher, NEW o \in Schedule,
             \/ Begin(q, o) \/ Insert(q, o) \/ DeleteSchedule(q, o) \/ CountAttempt(q, o)
             \/ Park(q, o) \/ WritesNothing(q, o) \/ InsertUnanswered(q, o)
      PROVE  at[p][s] \in {"forgetting", "dropping"}
  <2>1. PICK from \in Stage, to \in Stage \ {"forgetting", "dropping"} : Move(q, o, from, to)
    BY <1>2 DEF Begin, Insert, DeleteSchedule, CountAttempt, Park, WritesNothing,
       InsertUnanswered, Stage, Busy
  <2>2. QED
    BY <1>1, <2>1
<1>3. ASSUME NEW q \in Publisher, NEW o \in Schedule, Unpublishable(q, o) \/ Follow(q, o)
      PROVE  \/ at[p][s] \in {"forgetting", "dropping"}
             \/ s \in complete' \cup Blank \/ row[s] = "orphaned"
  <2>1. \E from \in Stage : Move(q, o, from, "forgetting")
    BY <1>3 DEF Unpublishable, Follow, Stage, Busy
  <2>2. at'[p][s] = at[p][s] \/ (p = q /\ s = o)
    BY <2>1, Moved DEF Stage, Busy
  <2>3. QED
    BY <1>3, <2>2 DEF Unpublishable, Follow
<1>4. ASSUME NEW q \in Publisher, NEW o \in Schedule, DeleteAttempts(q, o)
      PROVE  at[p][s] \in {"forgetting", "dropping"}
  <2>1. at'[p][s] = at[p][s] \/ (p = q /\ s = o)
    BY <1>4, Moved DEF DeleteAttempts, Stage, Busy
  <2>2. QED
    BY <1>4, <2>1 DEF DeleteAttempts, Move
<1>5. ASSUME NEW q \in Publisher, Select(q) \/ StatementFails(q) \/ Dies(q)
      PROVE  at[p][s] \in {"forgetting", "dropping"}
  BY <1>5, AwayIdle DEF Busy
<1>6. CASE UNCHANGED at
  BY <1>6
<1>7. QED
  BY <1>2, <1>3, <1>4, <1>5, <1>6 DEF Next, Continue, Create, FallsDue, Reschedule, Cancel,
     AuthorGone, Becomes, BackoffOver, vars

LEMMA LostNext == TypeOK /\ LostInv /\ [Next]_vars => LostInv'
<1> SUFFICES ASSUME TypeOK, LostInv, [Next]_vars
             PROVE  LostInv'
  OBVIOUS
<1>1. complete \subseteq complete'
  BY DEF Next, Continue, Create, FallsDue, Reschedule, Cancel, AuthorGone, Becomes, Begin,
     Insert, Unpublishable, Follow, DeleteAttempts, DeleteSchedule, CountAttempt, Park,
     BackoffOver, Select, StatementFails, Dies, Abort, WritesNothing, InsertUnanswered,
     history, vars
<1>2. FinishedOK'
  <2> SUFFICES ASSUME NEW p \in Publisher, NEW s \in Schedule,
                      at'[p][s] \in {"forgetting", "dropping"}
               PROVE  s \in complete' \cup Blank \/ row'[s] = "orphaned"
    BY DEF FinishedOK
  <2>1. s \in complete' \cup Blank \/ row[s] = "orphaned"
    BY <1>1, Forgets DEF LostInv, FinishedOK
  <2>2. QED
    BY <2>1, RowSteps
<1>3. NothingLost'
  <2> SUFFICES ASSUME NEW s \in Schedule, row'[s] = "published"
               PROVE  s \in complete' \cup Blank
    BY DEF NothingLost
  <2>1. CASE row[s] = "published"
    BY <1>1, <2>1 DEF LostInv, NothingLost
  <2>2. CASE row[s] # "orphaned" /\ \E p \in Publisher : DeleteSchedule(p, s)
    <3>1. PICK p \in Publisher : at[p][s] = "dropping"
      BY <2>2 DEF DeleteSchedule, Move
    <3>2. QED
      BY <1>1, <2>2, <3>1 DEF LostInv, FinishedOK
  <2>3. QED
    BY <2>1, <2>2, RowSteps
<1>4. QED
  BY <1>2, <1>3 DEF LostInv

\* However statements fail and processes race, die and are dropped, the
\* publisher removes no schedule that has not been posted, and could be.
THEOREM NothingLostCorrect == Spec => []NothingLost
<1>1. Init => LostInv
  BY DEF Init, LostInv, FinishedOK, NothingLost
<1>2. LostInv => NothingLost
  BY DEF LostInv
<1>3. QED
  BY <1>1, <1>2, LostNext, TypeInit, TypeNext, PTL DEF Spec

-----------------------------------------------------------------------------
(* How often a process posts a schedule *)

\* A process may post a schedule yet: it has it before it, or may select it.
Open(p, s) == \/ at[p][s] \in {"batch", "publishing", "failed", "parking"}
              \/ at[p][s] = "out" /\ row[s] \in Pending \cup {"none"}

\* What may be posted yet has been posted once for every error at most.
PostsOf(p, s) ==
    /\ posts[p][s] <= (IF Open(p, s) THEN errors ELSE errors + 1)
    /\ at[p][s] # "out" => row[s] # "none"

PostsInv == \A p \in Publisher, s \in Schedule : PostsOf(p, s)

LEMMA PostsType ==
    ASSUME TypeOK, TypeOK', NEW p \in Publisher, NEW s \in Schedule
    PROVE  /\ posts[p][s] \in Nat /\ posts'[p][s] \in Nat
           /\ errors \in Nat /\ errors' \in Nat
           /\ at[p][s] \in Stage /\ at'[p][s] \in Stage
BY ScheduleAssumption DEF TypeOK

\* Nothing of a pass changes, and its schedule does not come back.
LEMMA PostsRest ==
    ASSUME TypeOK, TypeOK', NEW p \in Publisher, NEW s \in Schedule, PostsOf(p, s),
           posts'[p][s] = posts[p][s], at'[p][s] = at[p][s], errors <= errors',
           \/ row'[s] = row[s]
           \/ row[s] \in Pending \cup {"none"} /\ row'[s] # "none"
           \/ row'[s] \notin Pending \cup {"none"}
    PROVE  PostsOf(p, s)'
BY PostsType DEF PostsOf, Open

LEMMA PostsPublish ==
    ASSUME TypeOK, TypeOK', NEW p \in Publisher, NEW s \in Schedule, PostsOf(p, s),
           Continue(p, s) \/ WritesNothing(p, s) \/ InsertUnanswered(p, s)
    PROVE  PostsOf(p, s)'
<1>1. CASE Begin(p, s)
  <2>1. at[p][s] = "batch" /\ at'[p][s] = "publishing" /\ UNCHANGED <<row, history, errors>>
    BY <1>1, Moved DEF Begin, Stage, Busy
  <2>2. QED
    BY <2>1, PostsType DEF PostsOf, Open, history
<1>2. CASE Insert(p, s)
  <2>1. at[p][s] = "publishing" /\ at'[p][s] = "following" /\ UNCHANGED <<row, errors>>
    BY <1>2, Moved DEF Insert, Stage, Busy
  <2>2. posts'[p][s] = posts[p][s] + 1
    BY <1>2, Posted DEF Insert
  <2>3. QED
    BY <2>1, <2>2, PostsType DEF PostsOf, Open
<1>3. CASE InsertUnanswered(p, s)
  <2>1. at[p][s] = "publishing" /\ at'[p][s] = "failed" /\ row' = row /\ errors' = errors + 1
    BY <1>3, Moved DEF InsertUnanswered, Error, Stage, Busy
  <2>2. posts'[p][s] = posts[p][s] + 1
    BY <1>3, Posted DEF InsertUnanswered
  <2>3. QED
    BY <2>1, <2>2, PostsType DEF PostsOf, Open
<1>4. CASE Unpublishable(p, s) \/ WritesNothing(p, s)
  <2>1. /\ at[p][s] = "publishing" /\ at'[p][s] \in {"forgetting", "failed"}
        /\ UNCHANGED <<row, posts, errors>>
    BY <1>4, Moved DEF Unpublishable, WritesNothing, history, Stage, Busy
  <2>2. QED
    BY <2>1, PostsType DEF PostsOf, Open
<1>5. CASE Follow(p, s) \/ DeleteAttempts(p, s)
  <2>1. /\ at[p][s] \in {"following", "forgetting"} /\ at'[p][s] \in {"forgetting", "dropping"}
        /\ UNCHANGED <<row, posts, errors>>
    BY <1>5, Moved DEF Follow, DeleteAttempts, history, Stage, Busy
  <2>2. QED
    BY <2>1, PostsType DEF PostsOf, Open
<1>6. CASE DeleteSchedule(p, s)
  <2>1. at[p][s] = "dropping" /\ at'[p][s] = "out" /\ UNCHANGED <<posts, errors>>
    BY <1>6, Moved DEF DeleteSchedule, history, Stage, Busy
  <2>2. row'[s] = IF row[s] \in Pending THEN "published" ELSE row[s]
    BY <1>6 DEF DeleteSchedule, TypeOK
  <2>3. row'[s] \notin Pending \cup {"none"}
    BY <2>1, <2>2 DEF PostsOf, Pending
  <2>4. QED
    BY <2>1, <2>3, PostsType DEF PostsOf, Open
<1>7. CASE CountAttempt(p, s) \/ Park(p, s)
  <2>1. /\ at[p][s] \in {"failed", "parking"} /\ at'[p][s] \in {"parking", "out"}
        /\ UNCHANGED <<row, posts, errors>>
    BY <1>7, Moved DEF CountAttempt, Park, history, Stage, Busy
  <2>2. QED
    BY <2>1, PostsType DEF PostsOf, Open
<1>8. QED
  BY <1>1, <1>2, <1>3, <1>4, <1>5, <1>6, <1>7 DEF Continue

\* A step of one pass with one schedule is nothing to the others.
LEMMA PostsElsewhere ==
    ASSUME TypeOK, NEW q \in Publisher, NEW o \in Schedule,
           Continue(q, o) \/ WritesNothing(q, o) \/ InsertUnanswered(q, o),
           NEW p \in Publisher, NEW s \in Schedule, p # q \/ s # o
    PROVE  /\ at'[p][s] = at[p][s] /\ posts'[p][s] = posts[p][s] /\ errors <= errors'
           /\ row'[s] = row[s] \/ row'[s] \notin Pending \cup {"none"}
<1>1. at'[p][s] = at[p][s]
  <2>1. \E from, to \in Stage : Move(q, o, from, to)
    BY DEF Continue, Begin, Insert, Unpublishable, Follow, DeleteAttempts, DeleteSchedule,
       CountAttempt, Park, WritesNothing, InsertUnanswered, Stage, Busy
  <2>2. QED
    BY <2>1, Moved
<1>2. posts'[p][s] = posts[p][s]
  <2>1. posts' = posts \/ Inserts(q, o)
    BY DEF Continue, Begin, Insert, Unpublishable, Follow, DeleteAttempts, DeleteSchedule,
       CountAttempt, Park, WritesNothing, InsertUnanswered, history
  <2>2. QED
    BY <2>1, Posted
<1>3. errors <= errors'
  <2>1. errors' = errors \/ errors' = errors + 1
    BY DEF Continue, Begin, Insert, Unpublishable, Follow, DeleteAttempts, DeleteSchedule,
       CountAttempt, Park, WritesNothing, InsertUnanswered, Error
  <2>2. QED
    BY <2>1, ScheduleAssumption DEF TypeOK
<1>4. row'[s] = row[s] \/ row'[s] \notin Pending \cup {"none"}
  <2>1. row' = row \/ DeleteSchedule(q, o)
    BY DEF Continue, Begin, Insert, Unpublishable, Follow, DeleteAttempts,
       CountAttempt, Park, WritesNothing, InsertUnanswered
  <2>2. QED
    BY <2>1 DEF DeleteSchedule, TypeOK, Pending
<1>5. QED
  BY <1>1, <1>2, <1>3, <1>4

LEMMA PostsNext == TypeOK /\ TypeOK' /\ PostsInv /\ [Next]_vars => PostsInv'
<1> SUFFICES ASSUME TypeOK, TypeOK', PostsInv, [Next]_vars,
                    NEW p \in Publisher, NEW s \in Schedule
             PROVE  PostsOf(p, s)'
  BY DEF PostsInv
<1>0. PostsOf(p, s)
  BY DEF PostsInv
<1>1. ASSUME NEW q \in Publisher, NEW o \in Schedule,
             Continue(q, o) \/ WritesNothing(q, o) \/ InsertUnanswered(q, o)
      PROVE  PostsOf(p, s)'
  <2>1. CASE p = q /\ s = o
    BY <1>0, <1>1, <2>1, PostsPublish
  <2>2. CASE p # q \/ s # o
    <3>1. /\ at'[p][s] = at[p][s] /\ posts'[p][s] = posts[p][s] /\ errors <= errors'
          /\ row'[s] = row[s] \/ row'[s] \notin Pending \cup {"none"}
      BY <1>1, <2>2, PostsElsewhere
    <3>2. QED
      BY <1>0, <3>1, PostsRest
  <2>3. QED
    BY <2>1, <2>2
<1>2. ASSUME NEW o \in Schedule,
             Create(o) \/ FallsDue(o) \/ Reschedule(o) \/ Cancel(o) \/ AuthorGone(o)
      PROVE  PostsOf(p, s)'
  <2>1. UNCHANGED <<at, history, errors>>
    BY <1>2 DEF Create, FallsDue, Reschedule, Cancel, AuthorGone, Becomes
  <2>2. \/ row'[s] = row[s]
        \/ row[s] \in Pending \cup {"none"} /\ row'[s] # "none"
        \/ row'[s] \notin Pending \cup {"none"}
    BY <1>2 DEF Create, FallsDue, Reschedule, Cancel, AuthorGone, Becomes, TypeOK, Pending
  <2>3. QED
    BY <1>0, <2>1, <2>2, PostsType, PostsRest DEF history
<1>3. ASSUME NEW q \in Publisher, Select(q)
      PROVE  PostsOf(p, s)'
  <2>1. UNCHANGED <<row, history, errors>>
    BY <1>3 DEF Select
  <2>2. CASE at'[p][s] = at[p][s]
    BY <1>0, <2>1, <2>2, PostsType, PostsRest DEF history
  <2>3. CASE at'[p][s] = "batch" /\ at[p][s] = "out" /\ row[s] = "due"
    BY <1>0, <2>1, <2>3, PostsType DEF PostsOf, Open, Pending, history
  <2>4. QED
    BY <1>3, <2>2, <2>3 DEF Select, Selectable, TypeOK
<1>4. ASSUME NEW q \in Publisher, StatementFails(q) \/ Dies(q)
      PROVE  PostsOf(p, s)'
  <2>1. UNCHANGED <<row, history>> /\ errors' = errors + 1
    BY <1>4 DEF StatementFails, Dies, Abort, Error
  <2>2. at'[p][s] = at[p][s] \/ at'[p][s] = "out"
    BY <1>4 DEF StatementFails, Dies, Abort, TypeOK
  <2>3. posts'[p][s] <= errors'
    BY <1>0, <2>1, PostsType DEF PostsOf, history
  <2>4. QED
    BY <1>0, <2>1, <2>2, <2>3, PostsType DEF PostsOf, Open
<1>5. CASE (\E o \in Schedule : BackoffOver(o)) \/ UNCHANGED vars
  <2>1. UNCHANGED <<row, at, history, errors>>
    BY <1>5 DEF BackoffOver, vars
  <2>2. QED
    BY <1>0, <2>1, PostsType, PostsRest DEF history
<1>6. QED
  BY <1>1, <1>2, <1>3, <1>4, <1>5 DEF Next

\* Though nothing claims a schedule, a process posts it once, and once more for
\* every error at most.
THEOREM PostsCorrect == Spec => []PostsPerFault
<1>1. Init => PostsInv
  BY DEF Init, PostsInv, PostsOf, Open
<1>2. TypeOK /\ PostsInv => PostsPerFault
  BY ScheduleAssumption DEF TypeOK, PostsInv, PostsOf, PostsPerFault
<1>3. QED
  BY <1>1, <1>2, PostsNext, TypeInit, TypeNext, PTL DEF Spec

-----------------------------------------------------------------------------
(* Attempts and failures *)

\* The passes with a failure of s they have not counted yet.
Uncounted(s) == {p \in Publisher : at[p][s] = "failed"}

Counted(s) == attempts[s] + Cardinality(Uncounted(s)) <= failures[s]

SpentOf(s) == /\ Counted(s)
              /\ \A p \in Publisher : at[p][s] = "parking" => failures[s] >= MaxAttempts
              /\ parked[s] => failures[s] >= MaxAttempts

SpentInv == \A s \in Schedule : SpentOf(s)

LEMMA UncountedFinite ==
    ASSUME NEW s \in Schedule
    PROVE  /\ IsFiniteSet(Uncounted(s)) /\ Cardinality(Uncounted(s)) \in Nat
           /\ IsFiniteSet(Uncounted(s)') /\ Cardinality(Uncounted(s)') \in Nat
<1>1. Uncounted(s) \subseteq Publisher /\ Uncounted(s)' \subseteq Publisher
  BY DEF Uncounted
<1>2. QED
  BY <1>1, ScheduleAssumption, FS_Subset, FS_CardinalityType

LEMMA SpentType ==
    ASSUME TypeOK, TypeOK', NEW s \in Schedule
    PROVE  /\ attempts[s] \in Nat /\ attempts'[s] \in Nat
           /\ failures[s] \in Nat /\ failures'[s] \in Nat
           /\ parked[s] \in BOOLEAN /\ parked'[s] \in BOOLEAN
BY ScheduleAssumption DEF TypeOK

\* No pass comes to have a failure or a parking to do, and nothing is counted.
LEMMA SpentRest ==
    ASSUME TypeOK, TypeOK', NEW s \in Schedule, SpentOf(s),
           \A p \in Publisher : at'[p][s] \in {"failed", "parking"} => at'[p][s] = at[p][s],
           attempts'[s] <= attempts[s], failures[s] <= failures'[s],
           parked'[s] => parked[s]
    PROVE  SpentOf(s)'
<1>1. Uncounted(s)' \subseteq Uncounted(s)
  BY DEF Uncounted
<1>2. Cardinality(Uncounted(s)') <= Cardinality(Uncounted(s))
  BY <1>1, UncountedFinite, FS_Subset
<1>3. Counted(s)'
  BY <1>2, UncountedFinite, SpentType DEF SpentOf, Counted
<1>4. parked'[s] => failures'[s] >= MaxAttempts
  BY SpentType, ScheduleAssumption DEF SpentOf
<1>5. \A p \in Publisher : at'[p][s] = "parking" => failures'[s] >= MaxAttempts
  BY SpentType, ScheduleAssumption DEF SpentOf
<1>6. QED
  BY <1>3, <1>4, <1>5 DEF SpentOf

LEMMA SpentFails ==
    ASSUME TypeOK, TypeOK', NEW p \in Publisher, NEW s \in Schedule, SpentOf(s),
           WritesNothing(p, s) \/ InsertUnanswered(p, s)
    PROVE  SpentOf(s)'
<1>1. /\ at[p][s] = "publishing" /\ at'[p][s] = "failed"
      /\ \A q \in Publisher \ {p} : at'[q][s] = at[q][s]
  BY Moved DEF WritesNothing, InsertUnanswered, Stage, Busy
<1>2. failures'[s] = failures[s] + 1 /\ UNCHANGED book
  BY Failed DEF WritesNothing, InsertUnanswered
<1>3. Uncounted(s)' = Uncounted(s) \cup {p} /\ p \notin Uncounted(s)
  BY <1>1 DEF Uncounted
<1>4. Cardinality(Uncounted(s)') = Cardinality(Uncounted(s)) + 1
  BY <1>3, UncountedFinite, FS_AddElement
<1>5. Counted(s)'
  BY <1>2, <1>4, UncountedFinite, SpentType DEF SpentOf, Counted, book
<1>6. \A q \in Publisher : at'[q][s] = "parking" => failures'[s] >= MaxAttempts
  BY <1>1, <1>2, SpentType, ScheduleAssumption DEF SpentOf
<1>7. parked'[s] => failures'[s] >= MaxAttempts
  BY <1>2, SpentType, ScheduleAssumption DEF SpentOf, book
<1>8. QED
  BY <1>5, <1>6, <1>7 DEF SpentOf

LEMMA SpentCounts ==
    ASSUME TypeOK, TypeOK', NEW p \in Publisher, NEW s \in Schedule, SpentOf(s),
           CountAttempt(p, s)
    PROVE  SpentOf(s)'
<1>1. PICK to \in {"parking", "out"} :
         /\ Move(p, s, "failed", to)
         /\ to = "parking" => attempts[s] + 1 >= MaxAttempts
  BY DEF CountAttempt
<1>2. /\ at[p][s] = "failed" /\ at'[p][s] = to
      /\ \A q \in Publisher \ {p} : at'[q][s] = at[q][s]
  BY <1>1, Moved DEF Stage, Busy
<1>3. attempts'[s] = attempts[s] + 1 /\ failures' = failures /\ parked' = parked
  BY DEF CountAttempt, history, TypeOK
<1>4. Uncounted(s)' = Uncounted(s) \ {p} /\ p \in Uncounted(s)
  BY <1>2 DEF Uncounted
<1>5. Cardinality(Uncounted(s)') = Cardinality(Uncounted(s)) - 1
  BY <1>4, UncountedFinite, FS_RemoveElement
<1>6. Counted(s)'
  BY <1>3, <1>5, UncountedFinite, SpentType DEF SpentOf, Counted
<1>7. attempts[s] + 1 <= failures[s]
  BY <1>3, <1>6, UncountedFinite, SpentType DEF Counted
<1>8. \A q \in Publisher : at'[q][s] = "parking" => failures'[s] >= MaxAttempts
  BY <1>1, <1>2, <1>3, <1>7, SpentType, ScheduleAssumption DEF SpentOf
<1>9. QED
  BY <1>3, <1>6, <1>8 DEF SpentOf

LEMMA SpentNext == TypeOK /\ TypeOK' /\ SpentInv /\ [Next]_vars => SpentInv'
<1> SUFFICES ASSUME TypeOK, TypeOK', SpentInv, [Next]_vars, NEW s \in Schedule
             PROVE  SpentOf(s)'
  BY DEF SpentInv
<1>0. SpentOf(s)
  BY DEF SpentInv
<1>1. ASSUME NEW p \in Publisher, NEW o \in Schedule,
             WritesNothing(p, o) \/ InsertUnanswered(p, o)
      PROVE  SpentOf(s)'
  <2>1. CASE s = o
    BY <1>0, <1>1, <2>1, SpentFails
  <2>2. CASE s # o
    <3>1. \A q \in Publisher : at'[q][s] = at[q][s]
      BY <1>1, <2>2, Moved DEF WritesNothing, InsertUnanswered, Stage, Busy
    <3>2. failures'[s] = failures[s] /\ UNCHANGED book
      BY <1>1, <2>2, Failed DEF WritesNothing, InsertUnanswered
    <3>3. QED
      BY <1>0, <3>1, <3>2, SpentType, SpentRest DEF book
  <2>3. QED
    BY <2>1, <2>2
<1>2. ASSUME NEW p \in Publisher, NEW o \in Schedule, CountAttempt(p, o)
      PROVE  SpentOf(s)'
  <2>1. CASE s = o
    BY <1>0, <1>2, <2>1, SpentCounts
  <2>2. CASE s # o
    <3>1. \E to \in {"parking", "out"} : Move(p, o, "failed", to)
      BY <1>2 DEF CountAttempt
    <3>2. \A q \in Publisher : at'[q][s] = at[q][s]
      BY <2>2, <3>1, Moved DEF Stage, Busy
    <3>3. attempts'[s] = attempts[s] /\ UNCHANGED <<history, parked>>
      BY <1>2, <2>2 DEF CountAttempt, TypeOK
    <3>4. QED
      BY <1>0, <3>2, <3>3, SpentType, SpentRest DEF history
  <2>3. QED
    BY <2>1, <2>2
<1>3. ASSUME NEW p \in Publisher, NEW o \in Schedule, Park(p, o)
      PROVE  SpentOf(s)'
  <2>1. at[p][o] = "parking" /\ UNCHANGED <<attempts, history>>
    BY <1>3 DEF Park, Move
  <2>2. \A q \in Publisher : at'[q][s] \in {at[q][s], "out"}
    BY <1>3, Moved DEF Park, Stage, Busy
  <2>3. \A q \in Publisher : at'[q][s] \in {"failed", "parking"} => at'[q][s] = at[q][s]
    BY <2>2
  <2>4. CASE s # o \/ attempts[s] = 0
    <3>1. parked'[s] => parked[s]
      BY <1>3, <2>4 DEF Park, TypeOK
    <3>2. QED
      BY <1>0, <2>1, <2>3, <3>1, SpentType, SpentRest DEF history
  <2>5. CASE s = o
    <3>1. failures[s] >= MaxAttempts
      BY <1>0, <2>1, <2>5 DEF SpentOf
    <3>2. Uncounted(s)' \subseteq Uncounted(s)
      BY <2>3 DEF Uncounted
    <3>3. Cardinality(Uncounted(s)') <= Cardinality(Uncounted(s))
      BY <3>2, UncountedFinite, FS_Subset
    <3>4. Counted(s)'
      BY <1>0, <2>1, <3>3, UncountedFinite, SpentType DEF SpentOf, Counted, history
    <3>5. QED
      BY <2>1, <3>1, <3>4 DEF SpentOf, history
  <2>6. QED
    BY <2>4, <2>5
<1>4. ASSUME NEW p \in Publisher, NEW o \in Schedule,
             \/ Begin(p, o) \/ Insert(p, o) \/ Unpublishable(p, o) \/ Follow(p, o)
             \/ DeleteAttempts(p, o) \/ DeleteSchedule(p, o)
      PROVE  SpentOf(s)'
  <2>1. \E from \in Stage, to \in Stage \ {"failed", "parking"} : Move(p, o, from, to)
    BY <1>4 DEF Begin, Insert, Unpublishable, Follow, DeleteAttempts, DeleteSchedule, Stage, Busy
  <2>2. \A q \in Publisher : at'[q][s] \in {"failed", "parking"} => at'[q][s] = at[q][s]
    BY <2>1, Moved
  <2>3. failures' = failures
    BY <1>4 DEF Begin, Insert, Unpublishable, Follow, DeleteAttempts, DeleteSchedule, history
  <2>4. attempts'[s] <= attempts[s] /\ (parked'[s] => parked[s])
    <3>1. CASE DeleteAttempts(p, o)
      BY <3>1 DEF DeleteAttempts, TypeOK
    <3>2. CASE UNCHANGED book
      BY <3>2, SpentType DEF book
    <3>3. QED
      BY <1>4, <3>1, <3>2 DEF Begin, Insert, Unpublishable, Follow, DeleteSchedule
  <2>5. QED
    BY <1>0, <2>2, <2>3, <2>4, SpentType, SpentRest
<1>5. ASSUME NEW p \in Publisher, Select(p) \/ StatementFails(p) \/ Dies(p)
      PROVE  SpentOf(s)'
  <2>1. \A q \in Publisher : at'[q][s] \in {"failed", "parking"} => at'[q][s] = at[q][s]
    BY <1>5, AwayIdle DEF Busy
  <2>2. UNCHANGED <<book, history>>
    BY <1>5 DEF Select, StatementFails, Dies, Abort
  <2>3. QED
    BY <1>0, <2>1, <2>2, SpentType, SpentRest DEF book, history
<1>6. CASE UNCHANGED <<attempts, parked, at, history>>
  BY <1>0, <1>6, SpentType, SpentRest DEF history
<1>7. QED
  BY <1>1, <1>2, <1>3, <1>4, <1>5, <1>6 DEF Next, Continue, Create, FallsDue, Reschedule, Cancel,
     AuthorGone, Becomes, BackoffOver, book, vars

-----------------------------------------------------------------------------
(* How many attempts too many *)

\* The processes whose pass is so far with schedule s, and how many they are.
Within(D, s) == {p \in Publisher : at[p][s] \in D}
Passes(D, s) == Cardinality(Within(D, s))

Failing == {"failed"}
Ending == {"failed", "parking"}
Coming == {"batch", "publishing", "following"}

\* Nobody has published it or has found that nobody can.
Standing(s) == s \notin complete \cup Blank /\ row[s] # "orphaned"

\* What has failed was counted, is about to be, or never will; what was counted in
\* vain is about to be parked; and once it is, nobody takes it up any more.
TriesOf(s) == Standing(s) =>
    /\ failures[s] <= attempts[s] + Passes(Failing, s) + errors
    /\ \A p \in Publisher : at[p][s] = "parking" => attempts[s] >= MaxAttempts
    /\ ~parked[s] => failures[s] < MaxAttempts + Passes(Ending, s) + errors
    /\ parked[s] => failures[s] + Passes(Coming, s) < MaxAttempts + Cardinality(Publisher) + errors

TriesInv == \A s \in Schedule : TriesOf(s)

LEMMA PassesFinite ==
    ASSUME NEW D, NEW s
    PROVE  /\ IsFiniteSet(Within(D, s)) /\ Passes(D, s) \in Nat
           /\ IsFiniteSet(Within(D, s)') /\ Passes(D, s)' \in Nat
<1>1. Within(D, s) \subseteq Publisher /\ Within(D, s)' \subseteq Publisher
  BY DEF Within
<1>2. QED
  BY <1>1, ScheduleAssumption, FS_Subset, FS_CardinalityType DEF Passes

LEMMA PassesBounded ==
    ASSUME NEW s
    PROVE  /\ Passes(Failing, s) <= Passes(Ending, s)
           /\ Passes(Ending, s) + Passes(Coming, s) <= Cardinality(Publisher)
           /\ Cardinality(Publisher) \in Nat
<1>1. Within(Failing, s) \subseteq Within(Ending, s)
  BY DEF Within, Failing, Ending
<1>2. Passes(Failing, s) <= Passes(Ending, s)
  BY <1>1, PassesFinite, FS_Subset DEF Passes
<1>3. Within(Ending, s) \cap Within(Coming, s) = {}
  BY DEF Within, Ending, Coming
<1>4. Within(Ending, s) \cup Within(Coming, s) \subseteq Publisher
  BY DEF Within
<1>5. Cardinality(Within(Ending, s) \cup Within(Coming, s)) = Passes(Ending, s) + Passes(Coming, s)
  <2>1. Cardinality(Within(Ending, s) \cup Within(Coming, s))
           = Passes(Ending, s) + Passes(Coming, s) - Cardinality(Within(Ending, s) \cap Within(Coming, s))
    BY PassesFinite, FS_Union DEF Passes
  <2>2. QED
    BY <1>3, <2>1, PassesFinite, FS_EmptySet
<1>6. QED
  BY <1>2, <1>4, <1>5, ScheduleAssumption, FS_Subset, FS_CardinalityType

LEMMA PassesKept ==
    ASSUME NEW s, \A q \in Publisher : at'[q][s] = at[q][s]
    PROVE  \A D : Passes(D, s)' = Passes(D, s)
<1>1. \A D : Within(D, s)' = Within(D, s)
  BY DEF Within
<1>2. QED
  BY <1>1 DEF Passes

\* One pass moves.
LEMMA PassesMove ==
    ASSUME NEW p \in Publisher, NEW s, NEW D,
           \A q \in Publisher \ {p} : at'[q][s] = at[q][s]
    PROVE  Passes(D, s)' = Passes(D, s) + (IF at'[p][s] \in D THEN 1 ELSE 0)
                                        - (IF at[p][s] \in D THEN 1 ELSE 0)
<1>1. CASE at[p][s] \in D <=> at'[p][s] \in D
  <2>1. Within(D, s)' = Within(D, s)
    BY <1>1 DEF Within
  <2>2. QED
    BY <1>1, <2>1, PassesFinite DEF Passes
<1>2. CASE at[p][s] \notin D /\ at'[p][s] \in D
  <2>1. Within(D, s)' = Within(D, s) \cup {p} /\ p \notin Within(D, s)
    BY <1>2 DEF Within
  <2>2. Passes(D, s)' = Passes(D, s) + 1
    BY <2>1, PassesFinite, FS_AddElement DEF Passes
  <2>3. QED
    BY <1>2, <2>2, PassesFinite
<1>3. CASE at[p][s] \in D /\ at'[p][s] \notin D
  <2>1. Within(D, s)' = Within(D, s) \ {p} /\ p \in Within(D, s)
    BY <1>3 DEF Within
  <2>2. Passes(D, s)' = Passes(D, s) - 1
    BY <2>1, PassesFinite, FS_RemoveElement DEF Passes
  <2>3. QED
    BY <1>3, <2>2, PassesFinite
<1>4. QED
  BY <1>1, <1>2, <1>3

LEMMA TriesTypes ==
    ASSUME TypeOK, TypeOK', NEW s \in Schedule
    PROVE  /\ attempts[s] \in Int /\ attempts'[s] \in Int
           /\ failures[s] \in Int /\ failures'[s] \in Int
           /\ parked[s] \in BOOLEAN /\ parked'[s] \in BOOLEAN
           /\ errors \in Int /\ errors' \in Int
           /\ MaxAttempts \in Nat /\ MaxAttempts > 0
BY SpentType, ScheduleAssumption DEF TypeOK

\* Nothing is published or orphaned and then not.
LEMMA StandingBefore ==
    ASSUME TypeOK, [Next]_vars, NEW s \in Schedule, Standing(s)' PROVE Standing(s)
<1>1. complete \subseteq complete'
  BY DEF Next, Continue, Create, FallsDue, Reschedule, Cancel, AuthorGone, Becomes, Begin,
     Insert, Unpublishable, Follow, DeleteAttempts, DeleteSchedule, CountAttempt, Park,
     BackoffOver, Select, StatementFails, Dies, Abort, WritesNothing, InsertUnanswered,
     history, vars
<1>2. QED
  BY <1>1, RowSteps DEF Standing

\* Errors only grow.
LEMMA ErrorsGrow == ASSUME TypeOK, [Next]_vars PROVE errors' \in {errors, errors + 1}
BY DEF Next, Continue, Create, FallsDue, Reschedule, Cancel, AuthorGone, Becomes, Begin,
   Insert, Unpublishable, Follow, DeleteAttempts, DeleteSchedule, CountAttempt, Park,
   BackoffOver, Select, StatementFails, Dies, Abort, WritesNothing, InsertUnanswered,
   Error, history, vars

\* A step that is not about s.
LEMMA TriesKept ==
    ASSUME TypeOK, TypeOK', [Next]_vars, NEW s \in Schedule, TriesOf(s),
           \A q \in Publisher : at'[q][s] = at[q][s],
           attempts'[s] = attempts[s], failures'[s] = failures[s], parked'[s] = parked[s]
    PROVE  TriesOf(s)'
<1>1. /\ Passes(Failing, s)' = Passes(Failing, s) /\ Passes(Ending, s)' = Passes(Ending, s)
      /\ Passes(Coming, s)' = Passes(Coming, s)
  BY PassesKept DEF Failing, Ending, Coming
<1>2. errors' >= errors
  BY ErrorsGrow, TriesTypes
<1>3. QED
  BY <1>1, <1>2, TriesTypes, PassesFinite, PassesBounded, StandingBefore DEF TriesOf

\* One pass moves at s.
LEMMA TriesMove ==
    ASSUME NEW p \in Publisher, NEW s, NEW from, NEW to, at[p][s] = from, at'[p][s] = to,
           \A q \in Publisher \ {p} : at'[q][s] = at[q][s]
    PROVE  /\ Passes(Failing, s)' = Passes(Failing, s) + (IF to = "failed" THEN 1 ELSE 0)
                                                      - (IF from = "failed" THEN 1 ELSE 0)
           /\ Passes(Ending, s)' = Passes(Ending, s) + (IF to \in Ending THEN 1 ELSE 0)
                                                    - (IF from \in Ending THEN 1 ELSE 0)
           /\ Passes(Coming, s)' = Passes(Coming, s) + (IF to \in Coming THEN 1 ELSE 0)
                                                    - (IF from \in Coming THEN 1 ELSE 0)
<1>1. \A D : Passes(D, s)' = Passes(D, s) + (IF to \in D THEN 1 ELSE 0) - (IF from \in D THEN 1 ELSE 0)
  BY PassesMove
<1>2. QED
  BY <1>1 DEF Failing, Ending, Coming

LEMMA TriesFail ==
    ASSUME TypeOK, TypeOK', [Next]_vars, NEW p \in Publisher, NEW s \in Schedule, TriesOf(s),
           WritesNothing(p, s) \/ InsertUnanswered(p, s)
    PROVE  TriesOf(s)'
<1>1. /\ at[p][s] = "publishing" /\ at'[p][s] = "failed"
      /\ \A q \in Publisher \ {p} : at'[q][s] = at[q][s]
  BY Moved DEF WritesNothing, InsertUnanswered, Stage, Busy
<1>2. failures'[s] = failures[s] + 1 /\ UNCHANGED book
  BY Failed DEF WritesNothing, InsertUnanswered
<1>3. /\ Passes(Failing, s)' = Passes(Failing, s) + 1 /\ Passes(Ending, s)' = Passes(Ending, s) + 1
      /\ Passes(Coming, s)' = Passes(Coming, s) - 1
  <2>1. "failed" \in Ending \ Coming /\ "publishing" \in Coming \ Ending
    BY DEF Ending, Coming
  <2>2. QED
    BY <1>1, <2>1, TriesMove, PassesFinite
<1>4. errors' >= errors
  BY ErrorsGrow, TriesTypes
<1>5. \A q \in Publisher : at'[q][s] = "parking" => at[q][s] = "parking"
  BY <1>1
<1>6. QED
  BY <1>2, <1>3, <1>4, <1>5, TriesTypes, PassesFinite, PassesBounded, StandingBefore
     DEF TriesOf, book

LEMMA TriesCount ==
    ASSUME TypeOK, TypeOK', [Next]_vars, NEW p \in Publisher, NEW s \in Schedule, TriesOf(s),
           CountAttempt(p, s)
    PROVE  TriesOf(s)'
<1>1. PICK to \in {"parking", "out"} :
         /\ Move(p, s, "failed", to)
         /\ to = "parking" <=> attempts[s] + 1 >= MaxAttempts
  BY DEF CountAttempt
<1>2. /\ at[p][s] = "failed" /\ at'[p][s] = to
      /\ \A q \in Publisher \ {p} : at'[q][s] = at[q][s]
  BY <1>1, Moved DEF Stage, Busy
<1>3. attempts'[s] = attempts[s] + 1 /\ failures' = failures /\ parked' = parked /\ errors' = errors
  BY DEF CountAttempt, history, TypeOK
<1>4. /\ Passes(Failing, s)' = Passes(Failing, s) - 1
      /\ Passes(Ending, s)' = Passes(Ending, s) - (IF to = "parking" THEN 0 ELSE 1)
      /\ Passes(Coming, s)' = Passes(Coming, s)
  <2>1. "failed" \in Ending \ Coming /\ "parking" \in Ending \ Coming /\ "out" \notin Ending \cup Coming
    BY DEF Ending, Coming
  <2>2. QED
    BY <1>1, <1>2, <2>1, TriesMove, PassesFinite
<1>5. Passes(Failing, s)' <= Passes(Ending, s)'
  <2>1. Within(Failing, s)' \subseteq Within(Ending, s)'
    BY DEF Within, Failing, Ending
  <2>2. QED
    BY <2>1, PassesFinite, FS_Subset DEF Passes
<1>6. SUFFICES ASSUME Standing(s)'
               PROVE  /\ failures[s] <= attempts[s] + 1 + Passes(Failing, s)' + errors
                      /\ \A q \in Publisher : at'[q][s] = "parking" => attempts[s] + 1 >= MaxAttempts
                      /\ ~parked[s] => failures[s] < MaxAttempts + Passes(Ending, s)' + errors
                      /\ parked[s] => failures[s] + Passes(Coming, s) < MaxAttempts + Cardinality(Publisher) + errors
  BY <1>3, <1>4 DEF TriesOf
<1>7. /\ failures[s] <= attempts[s] + Passes(Failing, s) + errors
      /\ \A q \in Publisher : at[q][s] = "parking" => attempts[s] >= MaxAttempts
      /\ ~parked[s] => failures[s] < MaxAttempts + Passes(Ending, s) + errors
      /\ parked[s] => failures[s] + Passes(Coming, s) < MaxAttempts + Cardinality(Publisher) + errors
  BY <1>6, StandingBefore DEF TriesOf
<1>8. failures[s] <= attempts[s] + 1 + Passes(Failing, s)' + errors
  BY <1>4, <1>7, TriesTypes, PassesFinite
<1>9. \A q \in Publisher : at'[q][s] = "parking" => attempts[s] + 1 >= MaxAttempts
  BY <1>1, <1>2, <1>7, TriesTypes
<1>10. ~parked[s] => failures[s] < MaxAttempts + Passes(Ending, s)' + errors
  <2>1. CASE to = "parking"
    BY <1>4, <1>7, <2>1, TriesTypes, PassesFinite
  <2>2. CASE to = "out"
    <3>1. attempts[s] + 1 < MaxAttempts
      BY <1>1, <2>2, TriesTypes
    <3>2. QED
      BY <3>1, <1>5, <1>8, TriesTypes, PassesFinite
  <2>3. QED
    BY <2>1, <2>2
<1>11. QED
  BY <1>7, <1>8, <1>9, <1>10

LEMMA TriesPark ==
    ASSUME TypeOK, TypeOK', [Next]_vars, NEW p \in Publisher, NEW s \in Schedule, TriesOf(s),
           Park(p, s)
    PROVE  TriesOf(s)'
<1>1. /\ at[p][s] = "parking" /\ at'[p][s] = "out"
      /\ \A q \in Publisher \ {p} : at'[q][s] = at[q][s]
  BY Moved DEF Park, Stage, Busy
<1>2. UNCHANGED <<attempts, failures, errors>> /\ (parked'[s] <=> attempts[s] > 0)
  BY DEF Park, history, TypeOK
<1>3. Passes(Failing, s)' = Passes(Failing, s) /\ Passes(Coming, s)' = Passes(Coming, s)
  <2>1. {"parking", "out"} \cap Coming = {}
    BY DEF Coming
  <2>2. QED
    BY <1>1, <2>1, TriesMove, PassesFinite
<1>4. SUFFICES ASSUME Standing(s)' PROVE TriesOf(s)'
  BY DEF TriesOf
<1>5. /\ failures[s] <= attempts[s] + Passes(Failing, s) + errors
      /\ \A q \in Publisher : at[q][s] = "parking" => attempts[s] >= MaxAttempts
      /\ ~parked[s] => failures[s] < MaxAttempts + Passes(Ending, s) + errors
      /\ parked[s] => failures[s] + Passes(Coming, s) < MaxAttempts + Cardinality(Publisher) + errors
  BY <1>4, StandingBefore DEF TriesOf
<1>6. parked'[s]
  BY <1>1, <1>2, <1>5, TriesTypes
<1>7. failures[s] + Passes(Coming, s) < MaxAttempts + Cardinality(Publisher) + errors
  BY <1>5, TriesTypes, PassesFinite, PassesBounded
<1>8. \A q \in Publisher : at'[q][s] = "parking" => attempts[s] >= MaxAttempts
  BY <1>1, <1>5
<1>9. QED
  BY <1>2, <1>3, <1>5, <1>6, <1>7, <1>8 DEF TriesOf

\* A pass goes on towards the INSERT, or past it.
LEMMA TriesGo ==
    ASSUME TypeOK, TypeOK', [Next]_vars, NEW p \in Publisher, NEW s \in Schedule, TriesOf(s),
           Begin(p, s) \/ Insert(p, s)
    PROVE  TriesOf(s)'
<1>1. PICK from \in Coming, to \in Coming : Move(p, s, from, to)
  BY DEF Begin, Insert, Coming
<1>2. to \in Stage
  BY DEF Coming, Stage, Busy
<1>3. /\ at[p][s] = from /\ at'[p][s] = to
      /\ \A q \in Publisher \ {p} : at'[q][s] = at[q][s]
  BY <1>1, <1>2, Moved
<1>4. UNCHANGED <<book, failures, errors>>
  BY DEF Begin, Insert, history
<1>5. /\ Passes(Failing, s)' = Passes(Failing, s) /\ Passes(Ending, s)' = Passes(Ending, s)
      /\ Passes(Coming, s)' = Passes(Coming, s)
  <2>1. Coming \cap Ending = {} /\ from # "failed" /\ to # "failed"
    BY DEF Coming, Ending
  <2>2. QED
    BY <1>3, <2>1, TriesMove, PassesFinite
<1>6. \A q \in Publisher : at'[q][s] = "parking" => at[q][s] = "parking"
  BY <1>3 DEF Coming
<1>7. QED
  BY <1>4, <1>5, <1>6, StandingBefore DEF TriesOf, book

\* A pass that is given up may leave a failure uncounted or a schedule unparked,
\* which is an error for each; a pass that begins takes up nothing that is parked.
LEMMA TriesAway ==
    ASSUME TypeOK, TypeOK', [Next]_vars, NEW p \in Publisher, NEW s \in Schedule, TriesOf(s),
           Select(p) \/ StatementFails(p) \/ Dies(p)
    PROVE  TriesOf(s)'
<1>1. UNCHANGED <<book, history>>
  BY DEF Select, StatementFails, Dies, Abort
<1>2. \A q \in Publisher \ {p} : at'[q][s] = at[q][s]
  BY Away
<1>3. \A q \in Publisher : at'[q][s] = "parking" => at[q][s] = "parking"
  BY AwayIdle DEF Busy
<1>4. CASE at'[p][s] = at[p][s]
  <2>1. \A q \in Publisher : at'[q][s] = at[q][s]
    BY <1>2, <1>4
  <2>2. QED
    BY <1>1, <2>1, TriesKept DEF book, history
<1>5. CASE StatementFails(p) \/ Dies(p)
  <2>1. errors' = errors + 1
    BY <1>5 DEF StatementFails, Dies, Abort, Error
  <2>2. at'[p][s] = "out"
    BY <1>5 DEF StatementFails, Dies, Abort, TypeOK
  <2>3. "out" \notin Ending /\ "out" \notin Coming
    BY DEF Ending, Coming
  <2>4. /\ Passes(Failing, s)' >= Passes(Failing, s) - 1 /\ Passes(Ending, s)' >= Passes(Ending, s) - 1
        /\ Passes(Coming, s)' <= Passes(Coming, s)
    BY <1>2, <2>2, <2>3, TriesMove, PassesFinite
  <2>5. QED
    BY <1>1, <1>3, <2>1, <2>4, TriesTypes, PassesFinite, PassesBounded, StandingBefore
       DEF TriesOf, book, history
<1>6. CASE Select(p) /\ at'[p][s] # at[p][s]
  <2>1. at[p][s] = "out" /\ at'[p][s] = "batch" /\ s \in Selectable
    BY <1>6 DEF Select, TypeOK
  <2>2. ~parked[s] /\ errors' = errors
    BY <1>6, <2>1 DEF Selectable, Select
  <2>3. Passes(Failing, s)' = Passes(Failing, s) /\ Passes(Ending, s)' = Passes(Ending, s)
    <3>1. {"out", "batch"} \cap Ending = {}
      BY DEF Ending
    <3>2. QED
      BY <1>2, <2>1, <3>1, TriesMove, PassesFinite
  <2>4. QED
    BY <1>1, <1>3, <2>2, <2>3, StandingBefore DEF TriesOf, book, history
<1>7. QED
  BY <1>4, <1>5, <1>6

LEMMA TriesNext == TypeOK /\ TypeOK' /\ FinishedOK /\ TriesInv /\ [Next]_vars => TriesInv'
<1> SUFFICES ASSUME TypeOK, TypeOK', FinishedOK, TriesInv, [Next]_vars, NEW s \in Schedule
             PROVE  TriesOf(s)'
  BY DEF TriesInv
<1>0. TriesOf(s)
  BY DEF TriesInv
<1>1. ASSUME NEW p \in Publisher, Continue(p, s) \/ WritesNothing(p, s) \/ InsertUnanswered(p, s)
      PROVE  TriesOf(s)'
  <2>1. CASE Unpublishable(p, s)
    <3>1. ~Standing(s)
      BY <2>1 DEF Unpublishable, Standing
    <3>2. QED
      BY <3>1, StandingBefore DEF TriesOf
  <2>2. CASE Follow(p, s)
    BY <2>2 DEF Follow, Standing, TriesOf
  <2>3. CASE DeleteAttempts(p, s) \/ DeleteSchedule(p, s)
    <3>1. at[p][s] \in {"forgetting", "dropping"}
      BY <2>3 DEF DeleteAttempts, DeleteSchedule, Move
    <3>2. ~Standing(s)
      BY <3>1 DEF FinishedOK, Standing
    <3>3. QED
      BY <3>2, StandingBefore DEF TriesOf
  <2>4. QED
    BY <1>0, <1>1, <2>1, <2>2, <2>3, TriesFail, TriesCount, TriesPark, TriesGo DEF Continue
<1>2. ASSUME NEW p \in Publisher, NEW o \in Schedule \ {s},
             Continue(p, o) \/ WritesNothing(p, o) \/ InsertUnanswered(p, o)
      PROVE  TriesOf(s)'
  <2>1. \E from, to \in Stage : Move(p, o, from, to)
    BY <1>2 DEF Continue, Begin, Insert, Unpublishable, Follow, DeleteAttempts, DeleteSchedule,
       CountAttempt, Park, WritesNothing, InsertUnanswered, Stage, Busy
  <2>2. \A q \in Publisher : at'[q][s] = at[q][s]
    BY <2>1, Moved
  <2>3. attempts'[s] = attempts[s] /\ parked'[s] = parked[s]
    BY <1>2 DEF Continue, Begin, Insert, Unpublishable, Follow, DeleteAttempts, DeleteSchedule,
       CountAttempt, Park, WritesNothing, InsertUnanswered, book, TypeOK
  <2>4. failures'[s] = failures[s]
    BY <1>2 DEF Continue, Begin, Insert, Unpublishable, Follow, DeleteAttempts, DeleteSchedule,
       CountAttempt, Park, WritesNothing, InsertUnanswered, Fails, history, TypeOK
  <2>5. QED
    BY <1>0, <2>2, <2>3, <2>4, TriesKept
<1>3. CASE \E p \in Publisher : Select(p) \/ StatementFails(p) \/ Dies(p)
  BY <1>0, <1>3, TriesAway
<1>4. CASE UNCHANGED <<attempts, parked, at, failures>>
  BY <1>0, <1>4, TriesKept
<1>5. QED
  BY <1>1, <1>2, <1>3, <1>4 DEF Next, Create, FallsDue, Reschedule, Cancel, AuthorGone, Becomes,
     BackoffOver, book, history, vars

\* Whoever counts a schedule's attempts, forgets them or dies, it is parked only
\* after all its attempts have failed; and no schedule that may still be published
\* fails oftener than that by more than the other processes and the errors there were.
THEOREM ParkedCorrect == Spec => []ParkedWhenSpent
<1>1. Init => SpentInv
  <2> SUFFICES ASSUME Init, NEW s \in Schedule
               PROVE  SpentOf(s)
    BY DEF SpentInv
  <2>1. Uncounted(s) = {}
    BY DEF Init, Uncounted
  <2>2. Cardinality(Uncounted(s)) = 0
    BY <2>1, FS_EmptySet
  <2>3. QED
    BY <2>2 DEF Init, SpentOf, Counted
<1>2. Init => TriesInv
  <2> SUFFICES ASSUME Init, NEW s \in Schedule
               PROVE  TriesOf(s)
    BY DEF TriesInv
  <2>1. /\ failures[s] = 0 /\ attempts[s] = 0 /\ errors = 0 /\ ~parked[s]
        /\ \A p \in Publisher : at[p][s] = "out"
    BY DEF Init
  <2>2. QED
    BY <2>1, PassesFinite, ScheduleAssumption DEF TriesOf
<1>3. TypeOK /\ SpentInv /\ TriesInv => ParkedWhenSpent
  <2> SUFFICES ASSUME TypeOK, SpentInv, TriesInv, NEW s \in Schedule
               PROVE  /\ parked[s] => failures[s] >= MaxAttempts
                      /\ Standing(s) => failures[s] < MaxAttempts + Cardinality(Publisher) + errors
    BY DEF ParkedWhenSpent, Standing
  <2>1. parked[s] => failures[s] >= MaxAttempts
    BY DEF SpentInv, SpentOf
  <2>2. /\ failures[s] \in Int /\ errors \in Int /\ MaxAttempts \in Int /\ parked[s] \in BOOLEAN
    BY ScheduleAssumption DEF TypeOK
  <2>3. ASSUME Standing(s) PROVE failures[s] < MaxAttempts + Cardinality(Publisher) + errors
    <3>1. /\ ~parked[s] => failures[s] < MaxAttempts + Passes(Ending, s) + errors
          /\ parked[s] => failures[s] + Passes(Coming, s) < MaxAttempts + Cardinality(Publisher) + errors
      BY <2>3 DEF TriesInv, TriesOf
    <3>2. QED
      BY <2>2, <3>1, PassesFinite, PassesBounded
  <2>4. QED
    BY <2>1, <2>3
<1>4. LostInv => FinishedOK
  BY DEF LostInv
<1>5. Init => LostInv
  BY DEF Init, LostInv, FinishedOK, NothingLost
<1>6. QED
  BY <1>1, <1>2, <1>3, <1>4, <1>5, SpentNext, TriesNext, LostNext, TypeInit, TypeNext, PTL DEF Spec
=============================================================================
