--------------------------- MODULE InboxStatuses ---------------------------
(***************************************************************************)
(* Creates and Deletes of one remote status in the ingress queue           *)
(* (src/src/api/ap/inbox/create.rs, handle_delete of inbox/status.rs):     *)
(* the best-effort lock create:{uri} of redis_lock.rs, the two memories of *)
(* a Delete (the Redis key delete_upon_arrival and the tombstones row),    *)
(* the row that keeps its uri when it is deleted, and the author's count   *)
(* of statuses.  Each command to Redis and each SQL statement is a step.   *)
(***************************************************************************)
EXTENDS InboxQueue

CONSTANTS
    Kind,      \* Kind[i]: "create" or "delete", of the one status
    None,      \* nobody holds the lock
    Nobody,    \* nor does anybody who would still release it
    MaxLost    \* bound: memories of a Delete that are lost, or not read

ASSUME StatusAssumption ==
    /\ Kind \in [Id -> {"create", "delete"}]
    /\ {None, Nobody} \cap (Loop \X Id) = {} /\ None # Nobody /\ MaxLost \in Nat

VARIABLES
    at,        \* at[w][i]: where loop w's perform of row i is
    lock,      \* who holds create:{uri}: a loop's perform, None, or Nobody,
               \* when its release is under way or its holder is dead
    status,    \* the row of statuses: "none", "live" or "deleted"
    arrived,   \* the key delete_upon_arrival is there
    buried,    \* the row of tombstones is there
    count,     \* the author's statuses_count
    \* History, read by no action.
    others,    \* the author's other statuses
    handled,   \* a Delete was performed to Ok
    announced, \* how often the status was fanned out
    unlocked,  \* a perform went on without the lock, or outlived it
    missed,    \* statuses that were not counted, or not uncounted
    lost       \* memories of a Delete that were lost, or not read

memory == <<arrived, buried>>
notes == <<others, handled, announced, unlocked, missed, lost>>
object == <<at, lock, status, memory, count, notes>>
svars == <<queue, object>>

Step == {"idle", "lock",
         "arrived", "tombstone", "insert", "count", "distribute",
         "read", "remove", "uncount", "remember", "bury"}
\* `seen`: handle_delete read a live row.
Perform == [pc : Step, seen : BOOLEAN]
Rest == [pc |-> "idle", seen |-> FALSE]

SInit == /\ Init
         /\ at = [w \in Loop |-> [i \in Id |-> Rest]]
         /\ lock = None /\ status = "none"
         /\ arrived = FALSE /\ buried = FALSE
         /\ others \in {0, 1} /\ count = others
         /\ handled = FALSE /\ announced = 0
         /\ unlocked = FALSE /\ missed = 0 /\ lost = 0

Is(w, i, pc) == at[w][i].pc = pc
Go(w, i, pc) == at' = [at EXCEPT ![w][i].pc = pc]
Holds(w, i) == lock = <<w, i>>

-----------------------------------------------------------------------------
Start(w, i) == /\ Begin(w, i) /\ Go(w, i, "lock")
               /\ UNCHANGED <<lock, status, memory, count, notes>>

\* The guard is dropped: a task of its own compares and deletes.
Released(w, i) == lock' = IF Holds(w, i) THEN Nobody ELSE lock

Return(w, i) == /\ PerformOk(w, i)
                /\ at' = [at EXCEPT ![w][i] = Rest]
                /\ Released(w, i)

\* A statement failed and `?` returned the error.
Fail(w, i) ==
    /\ at[w][i].pc \in {"tombstone", "insert", "distribute", "read", "remove", "bury"}
    /\ PerformFails(w, i)
    /\ at' = [at EXCEPT ![w][i] = Rest]
    /\ Released(w, i)
    /\ UNCHANGED <<status, memory, count, notes>>

AfterLock(i) == IF Kind[i] = "create" THEN "arrived" ELSE "read"

TakeLock(w, i) ==
    /\ Is(w, i, "lock") /\ lock = None
    /\ lock' = <<w, i>>
    /\ Go(w, i, AfterLock(i))
    /\ UNCHANGED <<queue, status, memory, count, notes>>

\* Held by another for two seconds, or Redis did not answer.
GoWithout(w, i) ==
    /\ Is(w, i, "lock")
    /\ Go(w, i, AfterLock(i))
    /\ unlocked' = TRUE
    /\ UNCHANGED <<queue, lock, status, memory, count, others, handled, announced, missed, lost>>

FreeLock == /\ lock = Nobody /\ lock' = None
            /\ UNCHANGED <<queue, at, status, memory, count, notes>>

\* Fifteen minutes have passed and its holder is still at work.
AutoRelease ==
    /\ \E w \in Loop, i \in Id : Holds(w, i)
    /\ lock' = None /\ unlocked' = TRUE
    /\ UNCHANGED <<queue, at, status, memory, count, others, handled, announced, missed, lost>>

\* A step of perform (w, i) that returns, or goes on to `pc`.
Then(w, i, over, pc) ==
    IF over THEN Return(w, i) ELSE Go(w, i, pc) /\ UNCHANGED <<queue, lock>>

-----------------------------------------------------------------------------
(* create *)

\* Redis did not answer, and the Delete passes for not arrived.
AskArrived(w, i) ==
    /\ Is(w, i, "arrived")
    /\ \/ Then(w, i, arrived, "tombstone") /\ UNCHANGED notes
       \/ /\ lost < MaxLost /\ lost' = lost + 1
          /\ Go(w, i, "tombstone")
          /\ UNCHANGED <<queue, lock, others, handled, announced, unlocked, missed>>
    /\ UNCHANGED <<status, memory, count>>

AskTombstone(w, i) ==
    /\ Is(w, i, "tombstone")
    /\ Then(w, i, buried, "insert")
    /\ UNCHANGED <<status, memory, count, notes>>

\* The author cannot be resolved, or nobody here is concerned: Ok all the same.
Decline(w, i) == /\ Is(w, i, "insert")
                 /\ Return(w, i)
                 /\ UNCHANGED <<status, memory, count, notes>>

\* Mutant: the uri of a deleted row is free again.
InsertAnew(w, i) ==
    /\ Is(w, i, "insert")
    /\ Then(w, i, status = "live", "count")
    /\ status' = "live"
    /\ UNCHANGED <<memory, count, notes>>

\* ON CONFLICT (uri) DO NOTHING: a deleted row keeps its uri.
Insert(w, i) ==
    /\ Is(w, i, "insert")
    /\ Then(w, i, status # "none", "count")
    /\ status' = IF status = "none" THEN "live" ELSE status
    /\ UNCHANGED <<memory, count, notes>>

\* on_status_created, whose error is logged.
Count(w, i) ==
    /\ Is(w, i, "count")
    /\ Go(w, i, "distribute")
    /\ \/ count' = count + 1 /\ UNCHANGED <<missed, queue>>
       \/ Misfortune /\ missed' = missed + 1 /\ UNCHANGED count
    /\ UNCHANGED <<lock, status, memory, others, handled, announced, unlocked, lost>>

Distribute(w, i) ==
    /\ Is(w, i, "distribute")
    /\ Return(w, i)
    /\ announced' = announced + 1
    /\ UNCHANGED <<status, memory, count, others, handled, unlocked, missed, lost>>

-----------------------------------------------------------------------------
(* handle_delete *)

Read(w, i) ==
    /\ Is(w, i, "read")
    /\ at' = [at EXCEPT ![w][i] = [pc |-> "remove", seen |-> status = "live"]]
    /\ UNCHANGED <<queue, lock, status, memory, count, notes>>

\* Mutant: any row updated is uncounted.
RemoveAgain(w, i) ==
    /\ Is(w, i, "remove")
    /\ status' = IF status = "none" THEN "none" ELSE "deleted"
    /\ Go(w, i, IF status = "none" THEN "remember" ELSE "uncount")
    /\ UNCHANGED <<queue, lock, memory, count, notes>>

\* UPDATE ... WHERE uri: of a row deleted before, too.
Remove(w, i) ==
    /\ Is(w, i, "remove")
    /\ status' = IF status = "none" THEN "none" ELSE "deleted"
    /\ Go(w, i, IF at[w][i].seen THEN "uncount"
                ELSE IF status = "none" THEN "remember" ELSE "bury")
    /\ UNCHANGED <<queue, lock, memory, count, notes>>

\* Mutant: no floor.
UncountBelow(w, i) ==
    /\ Is(w, i, "uncount")
    /\ Go(w, i, "bury")
    /\ count' = count - 1
    /\ UNCHANGED <<queue, lock, status, memory, notes>>

\* on_status_deleted, floored, whose error is logged.
Uncount(w, i) ==
    /\ Is(w, i, "uncount")
    /\ Go(w, i, "bury")
    /\ \/ count' = (IF count = 0 THEN 0 ELSE count - 1) /\ UNCHANGED <<missed, queue>>
       \/ Misfortune /\ missed' = missed + 1 /\ UNCHANGED count
    /\ UNCHANGED <<lock, status, memory, others, handled, announced, unlocked, lost>>

\* Mutant: delete_later is left out.
RememberNothing(w, i) ==
    /\ Is(w, i, "remember")
    /\ Go(w, i, "bury")
    /\ UNCHANGED <<queue, lock, status, memory, count, notes>>

Lost == lost < MaxLost /\ lost' = lost + 1

\* delete_later, whose result is not looked at.
Remember(w, i) ==
    /\ Is(w, i, "remember")
    /\ Go(w, i, "bury")
    /\ \/ arrived' = TRUE /\ UNCHANGED lost
       \/ Lost /\ UNCHANGED arrived
    /\ UNCHANGED <<queue, lock, status, buried, count, others, handled, announced, unlocked, missed>>

\* The row of tombstones: not when the actor is unknown or the INSERT fails.
Bury(w, i) ==
    /\ Is(w, i, "bury")
    /\ Return(w, i)
    /\ handled' = TRUE
    /\ \/ buried' = TRUE /\ UNCHANGED lost
       \/ Lost /\ UNCHANGED buried
    /\ UNCHANGED <<status, arrived, count, others, announced, unlocked, missed>>

\* DELETE_UPON_ARRIVAL_TTL, six hours.
Expire == /\ arrived /\ Lost
          /\ arrived' = FALSE
          /\ UNCHANGED <<queue, at, lock, status, buried, count,
                         others, handled, announced, unlocked, missed>>

-----------------------------------------------------------------------------
\* The batch is dropped; its guards release their locks, or died with it.
Dropped(w) ==
    /\ Drop(w)
    /\ at' = [at EXCEPT ![w] = [i \in Id |-> Rest]]
    /\ lock' = IF \E i \in Id : Holds(w, i) THEN Nobody ELSE lock
    /\ missed' = missed + Cardinality({i \in Id : at[w][i].pc \in {"count", "uncount"}})
    /\ UNCHANGED <<status, memory, count, others, handled, announced, unlocked, lost>>

Creates(w, i) == \/ AskArrived(w, i) \/ AskTombstone(w, i) \/ Decline(w, i)
                 \/ Insert(w, i) \/ Count(w, i) \/ Distribute(w, i)

Deletes(w, i) == Read(w, i) \/ Remove(w, i) \/ Uncount(w, i) \/ Remember(w, i) \/ Bury(w, i)

Performs(w, i) == \/ Start(w, i) \/ TakeLock(w, i) \/ GoWithout(w, i) \/ Fail(w, i)
                  \/ Creates(w, i) \/ Deletes(w, i)

SNext == \/ Rows /\ UNCHANGED object
         \/ \E w \in Loop, i \in Id : Performs(w, i)
         \/ \E w \in Loop : Dropped(w)
         \/ FreeLock \/ AutoRelease \/ Expire

SSpec == SInit /\ [][SNext]_svars

\* A perform always goes on: acquire_create_lock gives up after two seconds.
SFairSpec == SSpec /\ RowFairness /\ \A w \in Loop, i \in Id : WF_svars(Performs(w, i))

-----------------------------------------------------------------------------
(* Properties *)

STypeOK ==
    /\ TypeOK
    /\ at \in [Loop -> [Id -> Perform]]
    /\ \A w \in Loop, i \in Id : Is(w, i, "idle") = ~At(w, i, "working")
    /\ lock \in (Loop \X Id) \cup {None, Nobody}
    /\ status \in {"none", "live", "deleted"}
    /\ arrived \in BOOLEAN /\ buried \in BOOLEAN
    /\ count \in Nat /\ others \in Nat /\ announced \in Nat /\ missed \in Nat
    /\ handled \in BOOLEAN /\ unlocked \in BOOLEAN /\ lost \in 0..MaxLost

\* Once a Delete has been handled the status is not there, whether it was
\* created before or is delivered later, again, or beside it: unless a perform
\* was without the lock, or both memories of the Delete failed
\* (acquire_create_lock, delete_later, delete_arrived_first, tombstones).
DeleteWins == handled /\ ~unlocked /\ lost <= 1 => status # "live"

\* However often the Create is performed, the status is fanned out and its
\* mentions are notified at most once, with the lock or without it; and a row that
\* is there was, or is about to be, unless the perform that inserted it failed
\* after the INSERT or was dropped: tried again, it finds its own row.
AnnouncedOnce ==
    /\ announced <= 1
    /\ status # "none" /\ announced = 0 =>
          \/ \E w \in Loop, i \in Id : at[w][i].pc \in {"count", "distribute"}
          \/ faults > 0
          \/ \E i \in Id : Kind[i] = "create" /\ failures[i] > 0

\* With nobody at work on it, the author's count differs from the statuses
\* there are by no more than the counts that failed or died, and not at all
\* before the first fault: a Create and a Delete performed again, or one after
\* the other's failure, count nothing twice (on_status_created,
\* on_status_deleted, as long as the lock holds).
CountedOnce ==
    (\A w \in Loop, i \in Id : Is(w, i, "idle")) /\ ~unlocked =>
        LET kept == others + IF status = "live" THEN 1 ELSE 0 IN
        /\ kept - missed <= count /\ count <= kept + missed
        /\ faults = 0 => count = kept
=============================================================================
