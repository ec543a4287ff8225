------------------------- MODULE ScheduledStatuses -------------------------
(***************************************************************************)
(* The scheduled status publisher of src/src/background.rs.  A schedule is *)
(* a row of scheduled_statuses; its failed attempts are a row of           *)
(* eunha.scheduled_status_attempts that no foreign key ties to it.  Each   *)
(* process runs passes over the schedules that are due, which nothing      *)
(* claims, while their authors move and cancel them.  Each statement is a  *)
(* step.                                                                   *)
(***************************************************************************)
EXTENDS Integers, FiniteSets

CONSTANTS
    Publisher,   \* a process's run_scheduled_statuses
    Mortal,      \* those whose process may die
    Schedule,    \* ids, never used twice
    Blank,       \* schedules without params, which this code never inserts
    MaxAttempts, \* SCHEDULED_STATUS_MAX_ATTEMPTS
    MaxFailures, \* bound: attempts at one schedule that end in PublishError::Transient
    MaxErrors    \* bound: passes cut short, and lost answers

ASSUME ScheduleAssumption ==
    /\ IsFiniteSet(Publisher) /\ Mortal \subseteq Publisher
    /\ Blank \subseteq Schedule
    /\ MaxAttempts \in Nat \ {0} /\ MaxFailures \in Nat /\ MaxErrors \in Nat

VARIABLES
    row,      \* row[s]: the schedule, or how it ended
    attempts, \* attempts[s]: counted in its row of attempts; 0 is no row
    backoff,  \* backoff[s]: run_at is still to come
    parked,   \* parked[s]: failed_at is set
    at,       \* at[p][s]: how far p's pass is with s
    posts,    \* history: posts[p][s]: statuses p inserted for s
    complete, \* history: schedules one of whose statuses got its tags, feeds and notices
    failures, \* history: failures[s]: transient failures to publish s
    errors

book == <<attempts, backoff, parked>>
history == <<posts, complete, failures>>
vars == <<row, book, at, history, errors>>

\* A PUT without scheduled_at leaves a schedule no time.
Pending == {"ahead", "due", "timeless"}
Row == Pending \cup {"none", "published", "cancelled", "orphaned"}

\* following:  the status is inserted        forgetting, dropping: before each
\* failed:     before the attempt is counted             DELETE of forget_schedule
\* parking:    before failed_at is set
Busy == {"publishing", "following", "forgetting", "dropping", "failed", "parking"}
Stage == Busy \cup {"out", "batch"}

Init == /\ row = [s \in Schedule |-> "none"]
        /\ attempts = [s \in Schedule |-> 0]
        /\ backoff = [s \in Schedule |-> FALSE]
        /\ parked = [s \in Schedule |-> FALSE]
        /\ at = [p \in Publisher |-> [s \in Schedule |-> "out"]]
        /\ posts = [p \in Publisher |-> [s \in Schedule |-> 0]]
        /\ complete = {}
        /\ failures = [s \in Schedule |-> 0]
        /\ errors = 0

Move(p, s, from, to) == at[p][s] = from /\ at' = [at EXCEPT ![p][s] = to]

Fails(s) == /\ failures[s] < MaxFailures
            /\ failures' = [failures EXCEPT ![s] = @ + 1]
Error == errors < MaxErrors /\ errors' = errors + 1

-----------------------------------------------------------------------------
(* The authors.  None of this touches the row of attempts. *)

Becomes(s, from, to) == /\ row[s] \in from
                        /\ row' = [row EXCEPT ![s] = to]
                        /\ UNCHANGED <<book, at, history, errors>>

Create(s) == Becomes(s, {"none"}, "ahead")
FallsDue(s) == Becomes(s, {"ahead"}, "due")
Reschedule(s) == \E time \in {"ahead", "timeless"} : Becomes(s, Pending, time)
Cancel(s) == Becomes(s, Pending, "cancelled")

\* The account's row goes, and its schedules with it.
AuthorGone(s) == Becomes(s, Row \ {"none", "orphaned"}, "orphaned")

-----------------------------------------------------------------------------
(* publish_due_statuses *)

\* Mutant: an attempt is taken for the last one.
NeverAgain == {s \in Schedule : row[s] = "due" /\ attempts[s] = 0}

Selectable == {s \in Schedule : row[s] = "due" /\ ~parked[s] /\ ~backoff[s]}

Select(p) ==
    /\ Selectable # {}
    /\ \A s \in Schedule : at[p][s] = "out"
    /\ at' = [at EXCEPT ![p] = [s \in Schedule |-> IF s \in Selectable THEN "batch" ELSE "out"]]
    /\ UNCHANGED <<row, book, history, errors>>

Begin(p, s) ==
    /\ \A o \in Schedule : at[p][o] \notin Busy
    /\ Move(p, s, "batch", "publishing")
    /\ UNCHANGED <<row, book, history, errors>>

BackoffOver(s) ==
    /\ backoff[s]
    /\ backoff' = [backoff EXCEPT ![s] = FALSE]
    /\ UNCHANGED <<row, attempts, parked, at, history, errors>>

-----------------------------------------------------------------------------
(* publish_one *)

\* The schedule is not looked at again: it may have been moved or cancelled.
Inserts(p, s) ==
    /\ s \notin Blank /\ row[s] # "orphaned"
    /\ posts' = [posts EXCEPT ![p][s] = @ + 1]

Insert(p, s) ==
    /\ Move(p, s, "publishing", "following")
    /\ Inserts(p, s)
    /\ UNCHANGED <<row, book, complete, failures, errors>>

\* PublishError::Permanent
Unpublishable(p, s) ==
    /\ s \in Blank \/ row[s] = "orphaned"
    /\ Move(p, s, "publishing", "forgetting")
    /\ UNCHANGED <<row, book, history, errors>>

\* Mutant: what the code did once, a failure to publish drops the schedule.
FailureDrops(p, s) ==
    /\ s \notin Blank
    /\ Move(p, s, "publishing", "forgetting")
    /\ Fails(s)
    /\ UNCHANGED <<row, book, posts, complete, errors>>

\* PublishError::Transient
WritesNothing(p, s) ==
    /\ s \notin Blank
    /\ Move(p, s, "publishing", "failed")
    /\ Fails(s)
    /\ UNCHANGED <<row, book, posts, complete, errors>>

\* The status is inserted, and the connection lost before the answer.
InsertUnanswered(p, s) ==
    /\ Move(p, s, "publishing", "failed")
    /\ Inserts(p, s)
    /\ Fails(s) /\ Error
    /\ UNCHANGED <<row, book, complete>>

\* Mutant: an error after the INSERT is returned.
FollowsOrFails(p, s) ==
    /\ \/ Move(p, s, "following", "forgetting") /\ failures' = failures
       \/ Move(p, s, "following", "failed") /\ Fails(s)
    /\ complete' = complete \cup {s}
    /\ UNCHANGED <<row, book, posts, errors>>

\* Tags, mentions, media, poll, feeds and notices: what fails of it is logged.
Follow(p, s) ==
    /\ Move(p, s, "following", "forgetting")
    /\ complete' = complete \cup {s}
    /\ UNCHANGED <<row, book, posts, failures, errors>>

-----------------------------------------------------------------------------
(* forget_schedule *)

DeleteAttempts(p, s) ==
    /\ Move(p, s, "forgetting", "dropping")
    /\ attempts' = [attempts EXCEPT ![s] = 0]
    /\ backoff' = [backoff EXCEPT ![s] = FALSE]
    /\ parked' = [parked EXCEPT ![s] = FALSE]
    /\ UNCHANGED <<row, history, errors>>

DeleteSchedule(p, s) ==
    /\ Move(p, s, "dropping", "out")
    /\ row' = [row EXCEPT ![s] = IF @ \in Pending THEN "published" ELSE @]
    /\ UNCHANGED <<book, history, errors>>

-----------------------------------------------------------------------------
(* record_publish_failure *)

\* Mutant: parked one attempt early.
CountEarly(p, s) ==
    /\ Move(p, s, "failed", IF attempts[s] + 2 >= MaxAttempts THEN "parking" ELSE "out")
    /\ attempts' = [attempts EXCEPT ![s] = @ + 1]
    /\ backoff' = [backoff EXCEPT ![s] = TRUE]
    /\ UNCHANGED <<row, parked, history, errors>>

CountAttempt(p, s) ==
    /\ Move(p, s, "failed", IF attempts[s] + 1 >= MaxAttempts THEN "parking" ELSE "out")
    /\ attempts' = [attempts EXCEPT ![s] = @ + 1]
    /\ backoff' = [backoff EXCEPT ![s] = TRUE]
    /\ UNCHANGED <<row, parked, history, errors>>

\* Mutant: a row of attempts that has gone meanwhile is written again.
ParkAnyway(p, s) ==
    /\ Move(p, s, "parking", "out")
    /\ parked' = [parked EXCEPT ![s] = TRUE]
    /\ UNCHANGED <<row, attempts, backoff, history, errors>>

Park(p, s) ==
    /\ Move(p, s, "parking", "out")
    /\ parked' = [parked EXCEPT ![s] = attempts[s] > 0]
    /\ UNCHANGED <<row, attempts, backoff, history, errors>>

-----------------------------------------------------------------------------

\* The rest of the pass is left.
Abort(p) ==
    /\ Error
    /\ at' = [at EXCEPT ![p] = [s \in Schedule |-> "out"]]
    /\ UNCHANGED <<row, book, history>>

\* A statement of forget_schedule or record_publish_failure fails.
StatementFails(p) ==
    /\ \E s \in Schedule : at[p][s] \in {"forgetting", "dropping", "failed", "parking"}
    /\ Abort(p)

\* It dies, or a stop's grace period ends, wherever it is.
Dies(p) ==
    /\ p \in Mortal /\ \E s \in Schedule : at[p][s] # "out"
    /\ Abort(p)

Continue(p, s) == \/ Begin(p, s) \/ Insert(p, s) \/ Unpublishable(p, s) \/ Follow(p, s)
                  \/ DeleteAttempts(p, s) \/ DeleteSchedule(p, s)
                  \/ CountAttempt(p, s) \/ Park(p, s)

Next == \/ \E s \in Schedule : \/ Create(s) \/ FallsDue(s) \/ Reschedule(s)
                               \/ Cancel(s) \/ AuthorGone(s) \/ BackoffOver(s)
        \/ \E p \in Publisher :
             \/ Select(p) \/ StatementFails(p) \/ Dies(p)
             \/ \E s \in Schedule : \/ Continue(p, s) \/ WritesNothing(p, s)
                                    \/ InsertUnanswered(p, s)

Spec == Init /\ [][Next]_vars

\* Time passes, and the passes go on: the nap between two is bounded.
Fairness == /\ \A s \in Schedule : WF_vars(FallsDue(s)) /\ WF_vars(BackoffOver(s))
            /\ \A p \in Publisher :
                 WF_vars(Select(p)) /\ WF_vars(\E s \in Schedule : Continue(p, s))

FairSpec == Spec /\ Fairness

-----------------------------------------------------------------------------
(* Properties *)

\* A pass is at one schedule at a time, and only a row of attempts backs off or
\* is parked (publish_due_statuses, record_publish_failure).
TypeOK == /\ row \in [Schedule -> Row]
          /\ attempts \in [Schedule -> Nat]
          /\ backoff \in [Schedule -> BOOLEAN] /\ parked \in [Schedule -> BOOLEAN]
          /\ at \in [Publisher -> [Schedule -> Stage]]
          /\ posts \in [Publisher -> [Schedule -> Nat]]
          /\ complete \subseteq Schedule
          /\ failures \in [Schedule -> 0..MaxFailures] /\ errors \in 0..MaxErrors
          /\ \A p \in Publisher, s, o \in Schedule :
                at[p][s] \in Busy /\ at[p][o] \in Busy => s = o
          /\ \A s \in Schedule : backoff[s] \/ parked[s] => attempts[s] > 0

\* The publisher removes a schedule only once a status of its is in the
\* timelines, or if none can be made of it: whatever fails, no post is lost
\* silently (the headers of migration 006 and of publish_one).
NothingLost == \A s \in Schedule :
    row[s] = "published" => s \in complete \cup Blank

\* It is given up, and kept, only after all its attempts have failed, though
\* several processes count them and forget them; and it is given up: until one
\* of them has published or forgotten it, it has failed only as often as it may,
\* and once more for every other process, or error, that was at it meanwhile
\* (record_publish_failure).
ParkedWhenSpent == \A s \in Schedule :
    /\ parked[s] => failures[s] >= MaxAttempts
    /\ s \notin complete \cup Blank /\ row[s] # "orphaned" =>
          failures[s] < MaxAttempts + Cardinality(Publisher) + errors

\* How often a schedule is posted, which nothing claims: a process posts it a
\* second time only after an error, once more for each.
PostsPerFault == \A p \in Publisher, s \in Schedule : posts[p][s] <= 1 + errors

\* A schedule that is due does not stay so, whatever backs off or is cut short:
\* it is posted, moved, cancelled or parked.
DueIsServed == \A s \in Schedule :
    row[s] = "due" ~> row[s] # "due" \/ parked[s]

\* Claimed by background.rs:479-483: after the INSERT "the schedule is spent —
\* every later step is therefore best-effort and logged, never propagated,
\* because returning an error would re-run this function and post the status a
\* second time."
PostedOnce == \A p \in Publisher, s \in Schedule : posts[p][s] <= 1

=============================================================================
