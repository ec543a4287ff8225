---------------------------- MODULE InboxFollows ----------------------------
(***************************************************************************)
(* One remote account following one account here: the Follow and its Undo  *)
(* in the ingress queue (src/src/api/ap/inbox/follow.rs), and what the     *)
(* followed account may do meanwhile: authorize or reject the request      *)
(* (accounts/follow_requests.rs) and block the follower (mutes_blocks.rs). *)
(* There is no lock: only the key delete_upon_arrival orders the two       *)
(* activities.  Each SQL statement and each command to Redis is a step.    *)
(***************************************************************************)
EXTENDS InboxQueue

CONSTANTS
    Kind,      \* Kind[i]: "follow" or "undo", of the one follow
    Request,   \* what is asked of the followed account's API, once each
    MaxLost    \* bound: memories of an Undo that are lost, or not read

ASSUME FollowAssumption ==
    /\ Kind \in [Id -> {"follow", "undo"}]
    /\ Request \subseteq {"authorize", "reject", "block"}
    /\ MaxLost \in Nat

VARIABLES
    at,        \* at[w][i]: where loop w's perform of row i is
    api,       \* api[q]: where request q is
    follow,    \* the row of follows is there
    request,   \* the row of follow_requests is there
    blocked,   \* the row of blocks is there
    arrived,   \* the key delete_upon_arrival is there
    count,     \* the followed account's followers_count
    approves,  \* the followed account is locked, or the follower silenced
    \* History, read by no action.
    others,    \* the account's other followers
    begun,     \* a Follow's perform has begun
    barred,    \* when the first one did, the follower was blocked
    undone,    \* an Undo was performed to Ok
    missed,    \* follows that were not counted, or not uncounted
    floored,   \* a count was already nought when a follow was uncounted
    lost,      \* memories of an Undo that were lost, or not read
    raced      \* a Follow or an authorization was under way beside an Undo

relation == <<follow, request, blocked>>
notes == <<approves, others, undone, missed, floored>>
first == <<begun, barred>>
fvars == <<queue, at, api, relation, arrived, count, notes, first, lost, raced>>

Step == {"idle", "arrived", "check", "already", "insert", "count", "counted",
         "unfollow", "uncount", "unrequest", "clear", "over", "remember"}
\* `gone`: the Undo removed a row.
Perform == [pc : Step, gone : BOOLEAN]
Rest == [pc |-> "idle", gone |-> FALSE]
Asked == {"off", "take", "insert", "count", "unfollow", "uncount", "unrequest", "done"}

FInit == /\ Init
         /\ at = [w \in Loop |-> [i \in Id |-> Rest]]
         /\ api = [q \in Request |-> "off"]
         /\ follow = FALSE /\ request = FALSE /\ blocked = FALSE
         /\ arrived = FALSE
         /\ others \in {0, 1} /\ count = others
         /\ approves \in BOOLEAN
         /\ begun = FALSE /\ barred = FALSE /\ undone = FALSE
         /\ missed = 0 /\ floored = FALSE /\ lost = 0
         /\ raced = FALSE

Is(w, i, pc) == at[w][i].pc = pc
Go(w, i, pc) == at' = [at EXCEPT ![w][i].pc = pc]
Lost == lost < MaxLost /\ lost' = lost + 1

-----------------------------------------------------------------------------
Start(w, i) ==
    /\ Begin(w, i)
    /\ Go(w, i, IF Kind[i] = "follow" THEN "arrived" ELSE "unfollow")
    /\ begun' = (begun \/ Kind[i] = "follow")
    /\ barred' = (barred \/ (~begun /\ Kind[i] = "follow" /\ blocked))
    /\ UNCHANGED <<api, relation, arrived, count, notes, lost>>

Return(w, i) == PerformOk(w, i) /\ at' = [at EXCEPT ![w][i] = Rest]

\* A statement failed and `?` returned the error.
Fail(w, i) ==
    /\ at[w][i].pc \in {"check", "already", "insert", "unfollow", "unrequest", "clear"}
    /\ PerformFails(w, i)
    /\ at' = [at EXCEPT ![w][i] = Rest]
    /\ UNCHANGED <<api, relation, arrived, count, notes, first, lost>>

Then(w, i, over, pc) ==
    IF over THEN Return(w, i) ELSE Go(w, i, pc) /\ UNCHANGED queue

\* The two counts of counters.rs, of which the followed account's is modelled.
Counted == count' = count + 1 /\ UNCHANGED floored
\* Mutant: no floor.
UncountedBelow == count' = count - 1 /\ UNCHANGED floored
Uncounted == /\ count' = IF count = 0 THEN 0 ELSE count - 1
             /\ floored' = (floored \/ count = 0)

-----------------------------------------------------------------------------
(* handle_follow *)

\* Mutant: the key is not looked at.
AskNothing(w, i) ==
    /\ Is(w, i, "arrived")
    /\ Go(w, i, "check")
    /\ UNCHANGED <<queue, api, relation, arrived, count, notes, first, lost>>

AskArrived(w, i) ==
    /\ Is(w, i, "arrived")
    /\ \/ Then(w, i, arrived, "check") /\ UNCHANGED lost
       \/ Lost /\ Go(w, i, "check") /\ UNCHANGED queue
    /\ UNCHANGED <<api, relation, arrived, count, notes, first>>

\* Mutant: a block does not matter.
CheckNothing(w, i) ==
    /\ Is(w, i, "check")
    /\ Go(w, i, "already")
    /\ UNCHANGED <<queue, api, relation, arrived, count, notes, first, lost>>

\* should_reject.
Check(w, i) ==
    /\ Is(w, i, "check")
    /\ Then(w, i, blocked, "already")
    /\ UNCHANGED <<api, relation, arrived, count, notes, first, lost>>

\* already_follows: only the uri is stored again.
Already(w, i) ==
    /\ Is(w, i, "already")
    /\ Then(w, i, follow, "insert")
    /\ UNCHANGED <<api, relation, arrived, count, notes, first, lost>>

\* Mutant: a redelivered Follow counts again.
RecordFollowAlways(w, i) ==
    /\ Is(w, i, "insert")
    /\ IF approves THEN request' = TRUE /\ UNCHANGED follow /\ Return(w, i)
       ELSE follow' = TRUE /\ UNCHANGED request /\ Go(w, i, "count") /\ UNCHANGED queue
    /\ UNCHANGED <<api, blocked, arrived, count, notes, first, lost>>

\* Action::RecordFollowRequest, and Action::RecordFollow with its xmax = 0.
RecordFollow(w, i) ==
    /\ Is(w, i, "insert")
    /\ IF approves THEN request' = TRUE /\ UNCHANGED follow /\ Return(w, i)
       ELSE follow' = TRUE /\ UNCHANGED request /\ Then(w, i, follow, "count")
    /\ UNCHANGED <<api, blocked, arrived, count, notes, first, lost>>

\* on_follow_created, whose error is logged.
Count(w, i) ==
    /\ Is(w, i, "count")
    /\ Return(w, i)
    /\ Counted
    /\ UNCHANGED <<api, relation, arrived, approves, others, undone, missed, first, lost>>

-----------------------------------------------------------------------------
(* handle_undo of a Follow *)

Unfollow(w, i) ==
    /\ Is(w, i, "unfollow")
    /\ follow' = FALSE
    /\ at' = [at EXCEPT ![w][i] = [pc |-> IF follow THEN "uncount" ELSE "unrequest",
                                   gone |-> follow]]
    /\ UNCHANGED <<queue, api, request, blocked, arrived, count, notes, first, lost>>

\* on_follow_removed, floored, whose error is logged.
Uncount(w, i) ==
    /\ Is(w, i, "uncount")
    /\ Go(w, i, "unrequest")
    /\ Uncounted
    /\ UNCHANGED <<queue, api, relation, arrived, approves, others, undone, missed, first, lost>>

Unrequest(w, i) ==
    /\ Is(w, i, "unrequest")
    /\ request' = FALSE
    /\ Go(w, i, IF request THEN "clear" ELSE IF at[w][i].gone THEN "over" ELSE "remember")
    /\ UNCHANGED <<queue, api, follow, blocked, arrived, count, notes, first, lost>>

\* The request's notification is deleted, or a row of follows was.
Clear(w, i) ==
    /\ at[w][i].pc \in {"clear", "over"}
    /\ Return(w, i)
    /\ undone' = TRUE
    /\ UNCHANGED <<api, relation, arrived, count, approves, others, missed, floored, first, lost>>

\* delete_later, whose result is not looked at.
Remember(w, i) ==
    /\ Is(w, i, "remember")
    /\ Return(w, i)
    /\ undone' = TRUE
    /\ \/ arrived' = TRUE /\ UNCHANGED lost
       \/ Lost /\ UNCHANGED arrived
    /\ UNCHANGED <<api, relation, count, approves, others, missed, floored, first>>

-----------------------------------------------------------------------------
(* authorize, reject_follow_request, block *)

Ask(q, from, to) == api[q] = from /\ api' = [api EXCEPT ![q] = to]

Requested(q) ==
    /\ Ask(q, "off", "take")
    /\ UNCHANGED <<queue, at, relation, arrived, count, notes, first, lost>>

\* DELETE FROM follow_requests RETURNING.
TakeRequest(q) ==
    /\ q \in {"authorize", "reject"}
    /\ Ask(q, "take", IF q = "authorize" /\ request THEN "insert" ELSE "done")
    /\ request' = FALSE
    /\ UNCHANGED <<queue, at, follow, blocked, arrived, count, notes, first, lost>>

Promote(q) ==
    /\ Ask(q, "insert", IF follow THEN "done" ELSE "count")
    /\ follow' = TRUE
    /\ UNCHANGED <<queue, at, request, blocked, arrived, count, notes, first, lost>>

CountPromoted(q) ==
    /\ Ask(q, "count", "done")
    /\ Counted
    /\ UNCHANGED <<queue, at, relation, arrived, approves, others, undone, missed, first, lost>>

PutBlock(q) ==
    /\ q = "block"
    /\ Ask(q, "take", "unfollow")
    /\ blocked' = TRUE
    /\ UNCHANGED <<queue, at, follow, request, arrived, count, notes, first, lost>>

BlockUnfollows(q) ==
    /\ Ask(q, "unfollow", IF follow THEN "uncount" ELSE "unrequest")
    /\ follow' = FALSE
    /\ UNCHANGED <<queue, at, request, blocked, arrived, count, notes, first, lost>>

BlockUncounts(q) ==
    /\ Ask(q, "uncount", "unrequest")
    /\ Uncounted
    /\ UNCHANGED <<queue, at, relation, arrived, approves, others, undone, missed, first, lost>>

BlockUnrequests(q) ==
    /\ Ask(q, "unrequest", "done")
    /\ request' = FALSE
    /\ UNCHANGED <<queue, at, follow, blocked, arrived, count, notes, first, lost>>

\* A statement fails, or the client goes away and the request is dropped.
Abandon(q) ==
    /\ api[q] \notin {"off", "done"}
    /\ api' = [api EXCEPT ![q] = "done"]
    /\ Misfortune
    /\ missed' = missed + IF api[q] \in {"count", "uncount"} THEN 1 ELSE 0
    /\ UNCHANGED <<at, relation, arrived, count,
                   approves, others, undone, floored, first, lost>>

-----------------------------------------------------------------------------
Dropped(w) ==
    /\ Drop(w)
    /\ at' = [at EXCEPT ![w] = [i \in Id |-> Rest]]
    /\ missed' = missed + Cardinality({i \in Id : at[w][i].pc \in {"count", "uncount"}})
    /\ UNCHANGED <<api, relation, arrived, count, approves, others, undone, floored, first, lost>>

\* The count's own statement fails: logged, and the perform goes on.
CountFails(w, i) ==
    /\ at[w][i].pc \in {"count", "uncount"}
    /\ Misfortune
    /\ missed' = missed + 1
    /\ Go(w, i, IF Is(w, i, "count") THEN "counted" ELSE "unrequest")
    /\ UNCHANGED <<api, relation, arrived, count, approves, others, undone, floored, first, lost>>

Counts(w, i) == /\ Is(w, i, "counted")
                /\ Return(w, i)
                /\ UNCHANGED <<api, relation, arrived, count, notes, first, lost>>

Performs(w, i) ==
    \/ Start(w, i) \/ Fail(w, i) \/ CountFails(w, i)
    \/ AskArrived(w, i) \/ Check(w, i) \/ Already(w, i) \/ RecordFollow(w, i) \/ Count(w, i)
    \/ Counts(w, i)
    \/ Unfollow(w, i) \/ Uncount(w, i) \/ Unrequest(w, i)
    \/ Clear(w, i) \/ Remember(w, i)

Requests(q) ==
    \/ Requested(q) \/ TakeRequest(q) \/ Promote(q) \/ CountPromoted(q)
    \/ PutBlock(q) \/ BlockUnfollows(q) \/ BlockUncounts(q) \/ BlockUnrequests(q)
    \/ Abandon(q)

\* An Undo is under way, or has gone without a trace, and a follow may yet be made.
Racing ==
    /\ \/ undone /\ ~arrived
       \/ \E w \in Loop, i \in Id : Kind[i] = "undo" /\ ~Is(w, i, "idle")
    /\ \/ \E w \in Loop, i \in Id : at[w][i].pc \in {"check", "already", "insert"}
       \/ \E q \in Request : api[q] = "insert"

Observed == raced' = (raced \/ Racing')

FNext ==
    /\ \/ Rows /\ UNCHANGED <<at, api, relation, arrived, count, notes, first, lost>>
       \/ \E w \in Loop, i \in Id : Performs(w, i)
       \/ \E q \in Request : Requests(q)
       \/ \E w \in Loop : Dropped(w)
    /\ Observed

FSpec == FInit /\ [][FNext]_fvars

\* Performs always go on; the API's requests need not come.
FFairSpec == FSpec /\ RowFairness /\ \A w \in Loop, i \in Id : WF_fvars(Performs(w, i) /\ Observed)

-----------------------------------------------------------------------------
(* Properties *)

AtRest == /\ \A w \in Loop, i \in Id : Is(w, i, "idle")
          /\ \A q \in Request : api[q] \in {"off", "done"}

FTypeOK ==
    /\ TypeOK
    /\ at \in [Loop -> [Id -> Perform]]
    /\ \A w \in Loop, i \in Id : Is(w, i, "idle") = ~At(w, i, "working")
    /\ api \in [Request -> Asked]
    /\ {follow, request, blocked, arrived, approves} \subseteq BOOLEAN
    /\ {begun, barred, undone, floored, raced} \subseteq BOOLEAN
    /\ count \in Nat /\ others \in Nat /\ missed \in Nat /\ lost \in 0..MaxLost

\* A Follow whose author had been blocked before it was taken up makes no follow
\* and no request, by any perform of it (should_reject).
BarredStaysOut == barred => ~follow /\ ~request

\* With nobody at work on it, the followers are counted: performs that repeat
\* or overlap, authorizations and blocks count a row that came once and one
\* that went once, up to the counts that failed; flooring at nought can only
\* leave too many (RETURNING (xmax = 0), on_follow_created, on_follow_removed).
\* Before the first fault no count has failed, and only flooring is left.
FollowersCounted ==
    AtRest => LET there == others + IF follow THEN 1 ELSE 0 IN
              /\ there - missed <= count
              /\ ~floored => count <= there + missed
              /\ faults = 0 => there <= count /\ (~floored => count = there)

\* A Follow and its Undo leave nothing behind, whichever is handled first, and
\* however often and how far either got before: unless the two, or the Undo and
\* an authorization, were handled at once, a Follow was performed again after its
\* Undo had removed what it made, or Redis lost or hid the Undo's memory
\* (handle_undo, delete_later, delete_arrived_first).
UndoneStaysUndone == AtRest /\ undone /\ ~raced /\ lost = 0 => ~follow /\ ~request
=============================================================================
