-------------------------- MODULE DeliveryBreaker --------------------------
(***************************************************************************)
(* The circuit breaker of one inbox, RedisBreakers of                      *)
(* src/src/federation/delivery.rs, with the lock of its probe              *)
(* (src/src/redis_lock.rs): deliveries of any number of processes ask      *)
(* `admit` whether they may be sent and tell `record` what became of them. *)
(*                                                                         *)
(* Both are several Redis commands; each command is a step.  Times are     *)
(* countdowns, moved by Tick.  The week a breaker's keys last is left out: *)
(* an inbox without a delivery for a week starts again, closed.            *)
(***************************************************************************)
EXTENDS Integers, FiniteSets

CONSTANTS
    Delivery,   \* deliveries under way, in all processes; each may follow another
    Free, Lost, \* no holder of the probe's lock; one whose process has died
    Threshold,  \* BREAKER.threshold
    CoolOff,    \* BREAKER.cool_off, and the TTL of the probe's lock
    Deadline,   \* the longest a delivery takes, from admit's answer to its record
    MaxFailed,  \* bound: deliveries that fail
    MaxErrors   \* bound: Redis commands that fail, and processes that die

\* The cool-off (60 s) is longer than the HTTP client's timeout.
ASSUME BreakerAssumption ==
    /\ Threshold \in Nat \ {0} /\ CoolOff \in Nat /\ Deadline \in Nat
    /\ Deadline < CoolOff
    /\ {Free, Lost} \cap Delivery = {} /\ Free # Lost
    /\ MaxFailed \in Nat /\ MaxErrors \in Nat

VARIABLES
    failures,  \* stoplight:<inbox>:failures
    recovery,  \* time left to recovery_after; Closed when there is no such key
    lock,      \* whose token stoplight:<inbox>:probe has
    lockLeft,  \* what is left of its TTL
    at,        \* at[d]: how far delivery d is
    left,      \* left[d]: what is left of its Deadline
    failed,    \* deliveries that have failed
    errors

redis == <<failures, recovery, lock, lockLeft>>
vars == <<redis, at, left, failed, errors>>

Closed == -1

\* halfopen: admit has read that the cool-off has passed
\* taken:    it has the probe's lock, and still counts the old failures
\* opening:  record has counted the failure that opens the breaker
\* releasing: the guard is dropped and its task not yet run
Stage == {"idle", "passed", "halfopen", "taken", "probing", "opening", "releasing"}
Sending == Stage \ {"idle", "releasing"}

Init == /\ failures = 0 /\ recovery = Closed
        /\ lock = Free /\ lockLeft = 0
        /\ at = [d \in Delivery |-> "idle"]
        /\ left = [d \in Delivery |-> 0]
        /\ failed = 0 /\ errors = 0

Move(d, from, to) == at[d] = from /\ at' = [at EXCEPT ![d] = to]

-----------------------------------------------------------------------------
(* admit *)

\* GET recovery_after: none passes, one to come holds, one past is tried for.
Ask(d) ==
    /\ recovery <= 0
    /\ Move(d, "idle", IF recovery = Closed THEN "passed" ELSE "halfopen")
    /\ left' = [left EXCEPT ![d] = Deadline]
    /\ UNCHANGED <<redis, failed, errors>>

\* A breaker Redis cannot be asked about lets the delivery through.
AskFails(d) ==
    /\ errors < MaxErrors /\ errors' = errors + 1
    /\ Move(d, "idle", "passed")
    /\ left' = [left EXCEPT ![d] = Deadline]
    /\ UNCHANGED <<redis, failed>>

\* SET probe NX PX: held unless it is free.
TakeLock(d) ==
    /\ Move(d, "halfopen", IF lock = Free THEN "taken" ELSE "idle")
    /\ IF lock = Free THEN lock' = d /\ lockLeft' = CoolOff
       ELSE UNCHANGED <<lock, lockLeft>>
    /\ UNCHANGED <<failures, recovery, left, failed, errors>>

\* It is taken and the answer lost: held, and the lock left to its TTL.
TakeUnanswered(d) ==
    /\ lock = Free
    /\ errors < MaxErrors /\ errors' = errors + 1
    /\ Move(d, "halfopen", "idle")
    /\ lock' = Lost /\ lockLeft' = CoolOff
    /\ UNCHANGED <<failures, recovery, left, failed>>

\* Mutant: a count that cannot be cleared holds the delivery, lock and all.
ClearOrHold(d) ==
    /\ Move(d, "taken", "idle")
    /\ UNCHANGED <<redis, left, failed, errors>>

\* DEL failures; whether it worked is not looked at.
Clear(d) ==
    /\ Move(d, "taken", "probing")
    /\ \/ failures' = 0 /\ UNCHANGED errors
       \/ errors < MaxErrors /\ errors' = errors + 1 /\ UNCHANGED failures
    /\ UNCHANGED <<recovery, lock, lockLeft, left, failed>>

-----------------------------------------------------------------------------
(* record *)

PassSucceeds(d) ==
    /\ Move(d, "passed", "idle")
    /\ failures' = 0
    /\ UNCHANGED <<recovery, lock, lockLeft, left, failed, errors>>

Fails == failed < MaxFailed /\ failed' = failed + 1

\* INCRBY failures
PassFails(d) ==
    /\ Fails
    /\ Move(d, "passed", IF failures + 1 >= Threshold THEN "opening" ELSE "idle")
    /\ failures' = failures + 1
    /\ UNCHANGED <<recovery, lock, lockLeft, left, errors>>

\* SET recovery_after
Opens(d) ==
    /\ Move(d, "opening", "idle")
    /\ recovery' = CoolOff
    /\ UNCHANGED <<failures, lock, lockLeft, left, failed, errors>>

\* Mutant: a probe that succeeds is counted like any other success.
ProbeOnlyCounts(d) ==
    /\ Move(d, "probing", "releasing")
    /\ failures' = 0
    /\ UNCHANGED <<recovery, lock, lockLeft, left, failed, errors>>

ProbeSucceeds(d) ==
    /\ Move(d, "probing", "releasing")
    /\ recovery' = Closed
    /\ UNCHANGED <<failures, lock, lockLeft, left, failed, errors>>

ProbeFails(d) ==
    /\ Fails
    /\ Move(d, "probing", "releasing")
    /\ recovery' = CoolOff
    /\ UNCHANGED <<failures, lock, lockLeft, left, errors>>

\* The first command of a record fails; a probe's guard is dropped all the same.
Unrecorded(d) ==
    /\ errors < MaxErrors /\ errors' = errors + 1
    /\ at[d] \in {"passed", "probing", "opening"}
    /\ at' = [at EXCEPT ![d] = IF at[d] = "probing" THEN "releasing" ELSE "idle"]
    /\ UNCHANGED <<redis, left, failed>>

\* Mutant: the lock is deleted whoever's it is.
ReleaseAnyones(d) ==
    /\ Move(d, "releasing", "idle")
    /\ lock' = Free /\ lockLeft' = 0
    /\ UNCHANGED <<failures, recovery, left, failed, errors>>

\* RedisLock's drop: deleted if the token is still this guard's.
Release(d) ==
    /\ Move(d, "releasing", "idle")
    /\ IF lock = d THEN lock' = Free /\ lockLeft' = 0 ELSE UNCHANGED <<lock, lockLeft>>
    /\ UNCHANGED <<failures, recovery, left, failed, errors>>

\* Its process dies, or its release fails: a lock it has is left to its TTL.
Dies(d) ==
    /\ errors < MaxErrors /\ errors' = errors + 1
    /\ at[d] # "idle"
    /\ at' = [at EXCEPT ![d] = "idle"]
    /\ lock' = IF lock = d THEN Lost ELSE lock
    /\ UNCHANGED <<failures, recovery, lockLeft, left, failed>>

-----------------------------------------------------------------------------
Less(n) == IF n > 0 THEN n - 1 ELSE n

\* The lock is released when its TTL ends; no delivery outlives its deadline.
Tick ==
    /\ \A d \in Delivery : at[d] \in Sending => left[d] > 0
    /\ recovery' = Less(recovery)
    /\ lockLeft' = Less(lockLeft)
    /\ lock' = IF lockLeft' = 0 THEN Free ELSE lock
    /\ left' = [d \in Delivery |-> IF at[d] \in Sending THEN left[d] - 1 ELSE 0]
    /\ UNCHANGED <<failures, at, failed, errors>>

Admit(d) == Ask(d) \/ TakeLock(d) \/ Clear(d)

Settle(d) == PassSucceeds(d) \/ PassFails(d) \/ ProbeSucceeds(d) \/ ProbeFails(d)

Errs(d) == AskFails(d) \/ TakeUnanswered(d) \/ Unrecorded(d) \/ Dies(d)

Next == \/ \E d \in Delivery : Admit(d) \/ Settle(d) \/ Opens(d) \/ Release(d) \/ Errs(d)
        \/ Tick

Spec == Init /\ [][Next]_vars

\* Deliveries keep coming, each ends (the client's timeout), and so do the
\* tasks that release the locks.
Fairness == /\ WF_vars(Tick)
            /\ \A d \in Delivery : /\ WF_vars(Admit(d))
                                   /\ WF_vars(Settle(d))
                                   /\ WF_vars(Opens(d)) /\ WF_vars(Release(d))

FairSpec == Spec /\ Fairness

-----------------------------------------------------------------------------
(* Properties *)

TypeOK == /\ failures \in Nat
          /\ recovery \in -1..CoolOff
          /\ lock \in {Free, Lost} \cup Delivery
          /\ lockLeft \in 0..CoolOff
          /\ at \in [Delivery -> Stage]
          /\ left \in [Delivery -> 0..Deadline]
          /\ failed \in Nat /\ errors \in Nat
          /\ lock = Free <=> lockLeft = 0
          /\ lock \in Delivery => at[lock] \in {"taken", "probing", "releasing"}

\* One delivery at a time is a probe, of all processes: neither a lock that
\* runs out nor a late release lets a second one in (admit, RedisLock's drop).
OneProbe == \A d, e \in Delivery :
    at[d] \in {"taken", "probing"} /\ at[e] \in {"taken", "probing"} => d = e

\* Inductive: the lock of a probe outlasts what the probe has left.
ProbeHolds == \A d \in Delivery :
    at[d] \in {"taken", "probing"} => lock = d /\ lockLeft > left[d]

\* An inbox that answers again gets its deliveries again, even if a probe's
\* process died with the lock (admit's TTL, record's DEL).
ClosesAgain == <>[](recovery = Closed)

=============================================================================
