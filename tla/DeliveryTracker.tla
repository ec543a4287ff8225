-------------------------- MODULE DeliveryTracker --------------------------
(***************************************************************************)
(* Whether one host has stopped answering: DeliveryFailureTracker of       *)
(* src/src/federation/delivery_failures.rs.  Its failures are in Redis,    *)
(* its mark in PostgreSQL, and each process has a copy of the mark, read   *)
(* again in the background.  Deliveries, requests received and             *)
(* administrators call the tracker concurrently; each command, statement   *)
(* or access of the copy is a step.                                        *)
(***************************************************************************)
EXTENDS Integers

CONSTANTS
    Process,
    Task,        \* calls of the tracker under way; each may follow another
    Home,        \* the process of each
    Threshold,   \* FAILURE_DAYS
    MaxTroubles, \* bound: attempts that fail, and deliveries stopped by hand
    MaxErrors    \* bound: commands and statements that fail, and crashes

ASSUME TrackerAssumption ==
    /\ Home \in [Task -> Process]
    /\ Threshold \in Nat \ {0} /\ MaxTroubles \in Nat /\ MaxErrors \in Nat

VARIABLES
    days,     \* how many days exhausted_deliveries:<host> has
    mark,     \* whether unavailable_domains has the host
    at,       \* at[t]: how far task t is
    copy,     \* copy[p]: whether the host is in process p's hosts
    fresh,    \* fresh[p]: they are less than UNAVAILABLE_TTL old, and not forgotten
    reader,   \* reader[p]: the task that reads the table (the flag `reading`)
    troubles,
    errors

copies == <<copy, fresh, reader>>
bounds == <<troubles, errors>>
vars == <<days, mark, at, copies, bounds>>

\* counting:   between SADD and SCARD       marking:   before the INSERT
\* asking:     DEL has cleared nothing      unmarking: before the DELETE
\* restarting: before restart's DELETE      forgetting: before forget
Stage == {"idle", "counting", "marking", "asking", "unmarking", "restarting", "forgetting"}

\* What a reading found, once it has its answer.
Reader == {"none", "asked", "marked", "unmarked"}

Init == /\ days = 0 /\ mark = FALSE
        /\ at = [t \in Task |-> "idle"]
        /\ copy = [p \in Process |-> FALSE]
        /\ fresh = [p \in Process |-> FALSE]
        /\ reader = [p \in Process |-> "none"]
        /\ troubles = 0 /\ errors = 0

Move(t, from, to) == at[t] = from /\ at' = [at EXCEPT ![t] = to]

Trouble == troubles < MaxTroubles /\ troubles' = troubles + 1
Error == errors < MaxErrors /\ errors' = errors + 1

-----------------------------------------------------------------------------
(* track_failure *)

\* SADD: today is a day with failures already, or is not.
Fail(t) ==
    /\ Trouble
    /\ Move(t, "idle", "counting")
    /\ days' \in {days + 1} \cup ({days} \ {0})
    /\ UNCHANGED <<mark, copies, errors>>

\* Mutant: a host is marked a day early.
CountEarly(t) ==
    /\ Move(t, "counting", IF days + 1 >= Threshold THEN "marking" ELSE "idle")
    /\ UNCHANGED <<days, mark, copies, bounds>>

\* SCARD
Count(t) ==
    /\ Move(t, "counting", IF days >= Threshold THEN "marking" ELSE "idle")
    /\ UNCHANGED <<days, mark, copies, bounds>>

\* INSERT ON CONFLICT DO NOTHING; the process forgets what it changed.
Mark(t) ==
    /\ Move(t, "marking", IF mark THEN "idle" ELSE "forgetting")
    /\ mark' = TRUE
    /\ UNCHANGED <<days, copies, bounds>>

Forget(t) ==
    /\ Move(t, "forgetting", "idle")
    /\ fresh' = [fresh EXCEPT ![Home[t]] = FALSE]
    /\ UNCHANGED <<days, mark, copy, reader, bounds>>

-----------------------------------------------------------------------------
(* is_unavailable: the answer is copy[p]; a stale copy is read again, once *)

Asked(p) == reader' =
    [reader EXCEPT ![p] = IF ~fresh[p] /\ @ = "none" THEN "asked" ELSE @]

Ask(p) ==
    /\ ~fresh[p] /\ reader[p] = "none"
    /\ Asked(p)
    /\ UNCHANGED <<days, mark, at, copy, fresh, bounds>>

\* SELECT
Read(p) ==
    /\ reader[p] = "asked"
    /\ reader' = [reader EXCEPT ![p] = IF mark THEN "marked" ELSE "unmarked"]
    /\ UNCHANGED <<days, mark, at, copy, fresh, bounds>>

\* The copy stays as it was, and as old.
ReadFails(p) ==
    /\ reader[p] = "asked"
    /\ Error
    /\ reader' = [reader EXCEPT ![p] = "none"]
    /\ UNCHANGED <<days, mark, at, copy, fresh, troubles>>

\* Mutant: what is read is added to the copy instead of replacing it.
StoreAdds(p) ==
    /\ reader[p] \in {"marked", "unmarked"}
    /\ copy' = [copy EXCEPT ![p] = @ \/ reader[p] = "marked"]
    /\ fresh' = [fresh EXCEPT ![p] = TRUE]
    /\ reader' = [reader EXCEPT ![p] = "none"]
    /\ UNCHANGED <<days, mark, at, bounds>>

Store(p) ==
    /\ reader[p] \in {"marked", "unmarked"}
    /\ copy' = [copy EXCEPT ![p] = reader[p] = "marked"]
    /\ fresh' = [fresh EXCEPT ![p] = TRUE]
    /\ reader' = [reader EXCEPT ![p] = "none"]
    /\ UNCHANGED <<days, mark, at, bounds>>

\* UNAVAILABLE_TTL passes.
Age(p) ==
    /\ fresh[p]
    /\ fresh' = [fresh EXCEPT ![p] = FALSE]
    /\ UNCHANGED <<days, mark, at, copy, reader, bounds>>

-----------------------------------------------------------------------------
(* track_success *)

\* DEL
Succeed(t) ==
    /\ Move(t, "idle", IF days > 0 THEN "unmarking" ELSE "asking")
    /\ days' = 0
    /\ UNCHANGED <<mark, copies, bounds>>

\* Mutant: a host without failures is taken to have no mark.
NeverUnmarks(t) ==
    /\ Move(t, "asking", "idle")
    /\ UNCHANGED <<days, mark, copies, bounds>>

\* Without failures, the table is asked only if this process's copy has the host.
UnmarkIfRemembered(t) ==
    /\ Move(t, "asking", IF copy[Home[t]] THEN "unmarking" ELSE "idle")
    /\ Asked(Home[t])
    /\ UNCHANGED <<days, mark, copy, fresh, bounds>>

\* DELETE; forgotten if there was a mark.
Unmark(t) ==
    /\ Move(t, "unmarking", IF mark THEN "forgetting" ELSE "idle")
    /\ mark' = FALSE
    /\ UNCHANGED <<days, copies, bounds>>

-----------------------------------------------------------------------------
(* The administrators' operations, and adding a relay *)

ClearFailures(t) ==
    /\ at[t] = "idle"
    /\ days' = 0
    /\ UNCHANGED <<mark, at, copies, bounds>>

\* restart: clear_failures, then the table whatever the copy says.
Restart(t) ==
    /\ Move(t, "idle", "restarting")
    /\ days' = 0
    /\ UNCHANGED <<mark, copies, bounds>>

RestartUnmarks(t) ==
    /\ Move(t, "restarting", "forgetting")
    /\ mark' = FALSE
    /\ UNCHANGED <<days, copies, bounds>>

Stop(t) ==
    /\ Trouble
    /\ Move(t, "idle", IF mark THEN "idle" ELSE "forgetting")
    /\ mark' = TRUE
    /\ UNCHANGED <<days, copies, errors>>

-----------------------------------------------------------------------------
(* Errors *)

\* A statement fails, and what was done before it stays done.
Abandon(t) ==
    /\ at[t] \in {"counting", "marking", "unmarking", "restarting"}
    /\ Error
    /\ at' = [at EXCEPT ![t] = "idle"]
    /\ UNCHANGED <<days, mark, copies, troubles>>

\* The process dies with its tasks and its copy, and starts again.
Crash(p) ==
    /\ Error
    /\ at' = [t \in Task |-> IF Home[t] = p THEN "idle" ELSE at[t]]
    /\ copy' = [copy EXCEPT ![p] = FALSE]
    /\ fresh' = [fresh EXCEPT ![p] = FALSE]
    /\ reader' = [reader EXCEPT ![p] = "none"]
    /\ UNCHANGED <<days, mark, troubles>>

Continue(t) == \/ Count(t) \/ Mark(t) \/ Forget(t)
               \/ UnmarkIfRemembered(t) \/ Unmark(t) \/ RestartUnmarks(t)

Next == \/ \E t \in Task : \/ Fail(t) \/ Succeed(t) \/ Continue(t)
                           \/ ClearFailures(t) \/ Restart(t) \/ Stop(t) \/ Abandon(t)
        \/ \E p \in Process : Ask(p) \/ Read(p) \/ ReadFails(p) \/ Store(p) \/ Age(p) \/ Crash(p)

Spec == Init /\ [][Next]_vars

\* The host answers: every process keeps having successes to record (deliveries
\* of Follow, and the requests the host signs), asks before its deliveries
\* whether the host is marked, and its minutes pass.
Fairness == /\ \A t \in Task : WF_vars(Succeed(t)) /\ WF_vars(Continue(t))
            /\ \A p \in Process : /\ WF_vars(Ask(p)) /\ WF_vars(Age(p))
                                  /\ WF_vars(Read(p)) /\ WF_vars(Store(p))

FairSpec == Spec /\ Fairness

-----------------------------------------------------------------------------
(* Properties *)

\* The days counted are no more than the failures there were, and a host about
\* to be marked for them had Threshold of them (track_failure_at).
TypeOK == /\ days \in 0..troubles
          /\ mark \in BOOLEAN
          /\ at \in [Task -> Stage]
          /\ copy \in [Process -> BOOLEAN] /\ fresh \in [Process -> BOOLEAN]
          /\ reader \in [Process -> Reader]
          /\ \A t \in Task : at[t] = "marking" => troubles >= Threshold
          /\ troubles \in 0..MaxTroubles /\ errors \in 0..MaxErrors

\* A host that answers loses its mark, though nothing counts its failures any
\* more: a success that raced the mark's INSERT, or whose own DELETE failed,
\* has cleared them (track_success's shortcut through is_unavailable).
AnsweringHostUnmarked == <>[]~mark

\* Every process then delivers to it again, whichever of them removed the mark
\* and whatever readings failed (is_unavailable's refresh).
DeliveriesResume == <>[](\A p \in Process : ~copy[p])

=============================================================================
