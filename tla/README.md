# eunha in TLA+

eunha is a Mastodon-compatible server: Rust processes over one PostgreSQL
database and one Redis, federating with other servers over ActivityPub. Any
number of processes run the same instance. Most of what is hard to test in it
is what those processes, their tasks and their failures do to each other
through the shared rows and keys, and that is what this project models. Code
and lines below are those of `src/`; `PROJECT.json` maps every definition to the
lines it stands for.

## 1. The system

### Components, their state and their operations

**Job queue** (`src/jobs/mod.rs`, table `eunha.jobs`, `022_jobs.sql`). Rows with
a worker class, arguments, a due time, attempts, a lease (`locked_at`,
`locked_by`) and a unique key with its TTL. Producers insert rows, alone or in
bulk, now or later, under `until_executed` or `until_executing` locks. Loops
(one per process) claim due rows, perform them, renew the lease, and record how
they came out: deleted, retried, dead or given up. A stopping loop waits, aborts
and hands back. *Hard:* a lease that lapses under a slow job, records that arrive
after another loop took the row, lost answers, crashes between perform and
record, racing producers. *Correct when* no queued job is lost or given up early,
a healthy process's job is not run twice at once, a unique lock is held once,
and every job settles.

**Background passes** (`src/background.rs`). The loops of a process: scheduled
statuses, poll expiry, deletions, pruning; `until_stopped` bounds their stop. A
scheduled status is posted and then its schedule is removed in other
statements. *Hard:* a crash, a failed statement or another process in between.
*Correct when* no schedule is lost, and it is posted as seldom as that allows.

**Streaming bus** (`src/streaming.rs`). In a process: the map `channels` from
channel to a broadcast sender, one queue of commands, one subscribing
connection. In Redis: the connection's subscriptions. Streams subscribe and
drop on any thread; the connection's task subscribes, unsubscribes, dispatches,
reconnects. *Hard:* an unsubscription that crosses a subscription, two drops at
once, cancelled requests, a lost connection. *Correct when* no stream is deaf
for long, and what nobody listens to is unsubscribed.

**Delivery and its circuit breaker** (`src/federation/delivery.rs`,
`src/redis_lock.rs`). Per inbox, in Redis: a count of failures, the time the
breaker turns half-open, and the lock of the one probe that is then let through.
*Hard:* `admit` and `record` are several commands each, run by all processes;
locks that expire, lost answers. *Correct when* one delivery at a time probes,
and an inbox that answers gets its deliveries again. The queue the deliveries
wait in is a library (`ojak`).

**Delivery failure tracker** (`src/federation/delivery_failures.rs`). Per host: a
Redis set of days with failures, a row in `unavailable_domains`, and each
process's copy of those rows. *Hard:* the three are changed one after another
and the copies are stale. *Correct when* a host that answers loses its mark and
every process delivers to it again.

**Inbox queue** (`src/api/ap/inbox.rs`, table `eunha.inbox_jobs`). Activities
received, claimed in batches under a ten-minute lease that nothing renews,
performed several at a time, and recorded by id alone, the record's own result
unread. *Hard:* a lease that lapses under a batch, late records on rows claimed
anew, dropped batches. *Correct when* an activity leaves it performed or failed
`max_attempts` times, and does leave it.

**Inbox handlers** (`src/api/ap/inbox/*.rs`, `src/counters.rs`). What a perform does
to the rows: a Create and its Delete under a best-effort Redis lock and through
two memories of the Delete (a key, and a tombstone), a Follow and its Undo
through the key alone. *Hard:* the two in either order, at once, again, or cut
short between statements. *Correct when* what was deleted or undone stays away,
what was announced is announced once, and counts follow rows.

**Feeds** (`src/feed.rs`, `src/home_feed.rs`). Redis sorted sets of statuses and
of tracked boosts, pushed to, removed from, trimmed and regenerated by several
commands each.

**Batches and refreshes** (`src/worker_batch.rs`, `src/async_refresh.rs`,
`src/federation/replies.rs`). A Redis hash counts the jobs still in a batch; the
job that brings it to its end finishes the refresh that clients poll. *Hard:*
jobs that leave twice, or after the end; a walk that dies between joining its
replies and queueing them. *Correct when* a refresh ends, and not before what it
waits for.

**Follows and consent** (`src/api/mastodon/accounts/follow_requests.rs`,
`mutes_blocks.rs`, `relationships.rs`, `src/federation/follow.rs`, `consent.rs`).
Rows of `follows`, `follow_requests` and `blocks`, and the counts beside them, moved
by the inbox and by requests of the API at once.

**Quotes, moves, imports** (`src/quotes.rs`, `src/moves.rs`,
`src/portability/import.rs`). Rows whose states follow messages of other servers or
jobs that may run twice.

The rest is request handlers over single statements, rendering, parsing,
external services and migrations; `PROJECT.json` lists each with the reason it
is not modelled.

### How they interact

Handlers and passes queue jobs; jobs queue jobs and deliveries. A delivery asks
the tracker's copy (`skip_if`), then the breaker (`admit`), is sent, and tells
the breaker (`record`) and the tracker (`record`). A request received on the
inbox tells the tracker its host answers (`src/api/ap/serving.rs:230`), and becomes
an activity of the inbox queue, whose handlers move the same rows as the API.
Opening a thread starts the batch that fetches its replies, over the job queue.
Fan-outs leave out marked hosts, push to feeds and publish on Redis channels,
which reach the streams of each process through the streaming bus.

## 2. Modules

| module | models | runs |
|---|---|---|
| `JobPromises` | abstract: what a queue promises of a job | (property of `jobs_slow` and `inbox_statuses`, the queue inside `WorkerBatch`) |
| `JobQueue` | `src/jobs/mod.rs` | `jobs_prompt`, `jobs_slow`, `jobs_live` |
| `JobQueueProofs` | theorems about `JobQueue` | |
| `InboxQueue` | the queue of `src/api/ap/inbox.rs` | (extended by the next two) |
| `InboxQueueProofs` | theorems about `InboxQueue` | |
| `InboxStatuses` | Create and Delete of a status | `inbox_statuses` |
| `InboxStatusesProofs` | theorems about `InboxStatuses` | |
| `InboxFollows` | Follow and Undo, and the API beside them | `inbox_follows`, `inbox_live` |
| `InboxFollowsProofs` | theorems about `InboxFollows` | |
| `WorkerBatch` | `worker_batch.rs`, `async_refresh.rs` and the walk of `replies.rs` | `batch` |
| `WorkerBatchProofs` | theorems about `WorkerBatch` | |
| `StreamBus` | `src/streaming.rs` | `bus` |
| `StreamBusProofs` | theorems about `StreamBus` | |
| `DeliveryBreaker` | `RedisBreakers`, and the lock it takes | `breaker` |
| `DeliveryTracker` | `DeliveryFailureTracker` | `tracker` |
| `DeliveryProofs` | theorems about `DeliveryBreaker` and `DeliveryTracker` | |
| `ScheduledStatuses` | the scheduled status publisher of `src/background.rs` | `scheduled`, `scheduled_once` |
| `ScheduledStatusesProofs` | theorems about `ScheduledStatuses` | |

`MCJobQueue`, `MCInboxStatuses`, `MCInboxFollows`, `MCWorkerBatch`, `MCStreamBus`,
`MCDeliveryBreaker`, `MCDeliveryTracker` and `MCScheduledStatuses` give the constants
their values for TLC. Operators named in a comment as a *Mutant* are plausible
bugs: put in place of the definition after them, each makes TLC find one of the
properties violated. Specifications do not use them.

The grain is the same everywhere. A step is one SQL statement, one Redis
command, or what a task does between two awaits or under one lock, whatever the
handler does in between included; anything may happen between two steps.
A process dies between any two. A pipeline of Redis commands is one step: it goes
out in one write. Times are countdowns that `Tick` moves, bounded
by the constants. History variables are named as such and read by no action.

### JobQueue and JobPromises

`rows` is the table: `st` says whether the row is there, queued or dead, `by` and
`lease` are `locked_by` and what is left of `locked_at` plus `LEASE`, `key` and
`ttl` are `unique_key` and what is left until `unique_until`. `run` is what a
loop's slots execute, with the `attempts` its claim returned. The actions are the
statements: `InsertPlain`, `ClearLapsed` then `InsertUnique` or `InsertConflicts`
(`insert`), `Claim` (`claim`, and the tasks `run` spawns), `Heartbeats`,
`PerformReturns`, `PerformFails`, `HookReturns` and `Record` (`execute` and
`fail`), `PruneDead`, and the lifecycle of a loop (`Stop`, `Leave`, `Abort`,
`HandBack`). Failures are actions too: `ClaimLost` (the claim takes effect and
nobody learns), `RecordFails`, `GraceDrop` and `Crash`. An aborted task's record
may still arrive (`Abort`'s `Late`).

`Prompt` is a set of phases in which no task outlives its countdown. With
`Prompt = Working` tasks keep to `HEARTBEAT` and finish their last statements well
inside the lease, as a healthy process does; with `Prompt = {}` a task may be
as slow as it likes, and its lease is taken over under it.

`JobPromises` knows only that a job is unqueued, live, dead or gone. It leaves
the queue once it was performed to its end, or once it failed more often than
its worker allows; a process that does not know its class buries it.
`JobQueue!Promise` maps a row to that phase, and `KeepsPromises` says the queue
implements it whatever is slow, stale or dead.

Left out: `Mode::Immediate`, `run_one`, `drain` and `make_due`, which only tests
use; the weights `queue_order` draws by (any order is allowed); wake-ups and
`IdleBackoff`, which only say when the next poll is; which dead rows are pruned
first; payloads, and the row's error text.

### InboxQueue

`rows[i]` is a row of `eunha.inbox_jobs`: `lock` says whether `locked_at` is NULL,
younger or older than ten minutes. `task[w][i]` is what loop `w`'s batch does with
the row, `count` the attempts its claim returned. `Enqueue` is `enqueue_activity`;
`Claim`, `Begin` (`for_each_concurrent` has a turn free) and `Record` are
`run_inbox_queue_batch` and `process_inbox_job`: the record names the row by id alone,
so a late one unlocks, lowers or deletes what another loop has claimed. `Cleanup`
is `run_inbox_cleanup`. Failures are `RecordLost` (`let _ =`), `Overrun` (a batch slower
than its lease) and `Drop` (a death, or a stop past its grace: rows stay locked until
`LeaseEnds`); `Misfortune` lets an extension spend a fault of its own. They share
the bound `MaxFaults`. `PerformOk` and `PerformFails` are where the extensions put
their handlers' last statements. Backoffs are left out: a free row may be claimed
at any time.

### InboxStatuses

The row of `statuses` of one remote status is there, deleted (it keeps its uri)
or was never made; `arrived` and `buried` are the two memories of a Delete. `Creates`
is `handle_create`: `AskArrived`, `AskTombstone`, `Decline` or `Insert` (whose `ON CONFLICT
(uri) DO NOTHING` decides), `Count`, `Distribute`. `Deletes` is `handle_delete`: `Read`,
`Remove`, `Uncount`, then `Remember` when there was no row, and `Bury`. Both first
`TakeLock` or, after two seconds, `GoWithout`; `Released` and `FreeLock` are the
guard's drop and the task that it spawns, `AutoRelease` the lock's own TTL. `Fail` is a
statement's `?`. `lost` counts memories that Redis loses, hides or forgets
(`AskArrived`, `Remember`, `Bury`, `Expire`).

Left out: everything the handlers parse and fetch, attachments and tags, the other
objects a Delete may name, the count of replies.

### InboxFollows

`follow`, `request` and `blocked` are rows of one pair of accounts, `count` the
followed one's `followers_count`, `approves` whether a Follow becomes a request.
`handle_follow` is `AskArrived`, `Check` (`should_reject`), `Already`, `RecordFollow`
(both ends), `Count`, and `Counts`, its return after a count that failed; `handle_undo` is `Unfollow`,
`Uncount`, `Unrequest` and then `Clear`, or `Remember` when nothing was there. The
API's requests are `TakeRequest`, `Promote`, `CountPromoted` (authorize, and the first
of them reject) and `PutBlock`, `BlockUnfollows`, `BlockUncounts`, `BlockUnrequests`
(block), each of which may be `Abandon`ed between statements.

`raced` is history: it notes that an Undo was under way, or over without a memory,
while somebody was past the point of looking for one. It is what
`UndoneStaysUndone` has to except, because an Undo that removed a row leaves no
memory (`inbox/follow.rs:473`). Left out: the follower's side (the Accept that comes
back), domain blocks, notifications.

### WorkerBatch

`req[q]` is a request for a thread's context: `Load`, `Look`, `CreateRefresh`,
`Connect`, `Join` and `PushWalk` (`context_refresh`, `fetch_all_replies`). The walk it
queues is `Touch` (the `UPDATE` that lets one walk through), `Find` and `PushReply` for
the replies of a page, and `WalkEnds`; a reply's job is `Fetch`. Every perform ends
with `Leave`, `Count`, `Finish` and `Cleanup` (`remove_job`) and `Record`, which tells the
queue. `hash[q]` is `worker_batch:{id}`, which `HINCRBY` brings back when it is gone;
`refresh` and `results` are the refresh's hash. The queue is `JobPromises`, so jobs
come again after a failure, a death or a lost record. `Cut` is a death, or an abort
whose `Membership` leaves in a task of its own; `Lose` a command that Redis or the
queue did not take, a dropped request or an expired hash.

Left out: a perform of a job beside another of the same job, one uri found by two
walks (each `Reply` is a job of its own), the root's own `FetchReplyWorker`, which is
outside the batch, the set of a batch's job ids, and the keys of refreshes from before
batches.

### StreamBus

`listed` are the keys of `channels`, `rx` says of each stream's receiver whether
its sender is the listed one, `queue` is the commands' channel, `waiting` the
acknowledgements the next connection owes, `conn`, `todo`, `alive` and `subs` the
connection's task and what Redis has it subscribed to. A stream goes through
`Subscribe`, `SendSubscribe`, an acknowledgement or `TimedOut`, and `Told`; it ends
by `Drop`, `SendUnsubscribe`, `DropReceiver`, or by `Cancelled` when its request
goes away inside `subscribe`. `Drop` and `DropReceiver` are apart because a
field is dropped after its owner's `drop` returns.

Left out: the messages, and the lag of a slow receiver (a broadcast buffer); the
`subscribed:` keys and their renewal.

### DeliveryBreaker

`failures`, `recovery` and `lock` are the three keys of an inbox. `admit` is `Ask`,
`TakeLock` and `Clear`; `record` is one of `PassSucceeds`, `PassFails` (then `Opens` at
the threshold), `ProbeSucceeds` and `ProbeFails`; `Release` is the task that the
lock's guard spawns when dropped. `AskFails`, `TakeUnanswered`, `Unrecorded` and
`Dies` are Redis and processes failing. Left out: the week after which an unused
breaker's keys expire, and clocks that differ between processes.

### DeliveryTracker

`days`, `mark`, and each process's `copy`, with `fresh` (its age) and `reader` (the
flag `reading` and the task that has it). `Fail`, `Count`, `Mark` are
`track_failure_at`; `Succeed`, `UnmarkIfRemembered`, `Unmark` are `track_success`;
`Restart`, `RestartUnmarks`, `Stop`, `ClearFailures` the administrators'
operations; `Ask`, `Read`, `Store`, `ReadFails` are `is_unavailable` and the task it
spawns; `Forget` follows a change. `Age` is the minute. Left out: the listings
of failing hosts, and what a marked host is spared.

### ScheduledStatuses

`row` is a schedule or how it ended, `attempts`, `backoff` and `parked` its row of
`scheduled_status_attempts`, and `at[p][s]` how far the pass of process `p` is with
schedule `s`. Authors `Create`, `Reschedule` and `Cancel`; a deleted account takes its
schedules along (`AuthorGone`). `Select` and `Begin` are the loop of
`publish_due_statuses`; `Insert`, `Unpublishable` and `WritesNothing` are the ends of
`publish_one` up to its `INSERT`, `Follow` what comes after it; `DeleteAttempts` and
`DeleteSchedule` are `forget_schedule`, `CountAttempt` and `Park` are
`record_publish_failure`. `StatementFails`, `Dies` and `InsertUnanswered` are failures. A
schedule that is in a pass is posted even if its author has moved or cancelled it, as
in the code; and one parked, or moved to no time by a `PUT` without one, waits for good.

Left out: the order of a pass and its limit of fifty; the naps and wake-ups between
passes; limits on how many schedules an author has; statements of a dropped pass
that take effect after other processes' next ones.

## 3. Runs

**`jobs_prompt`** (two loops, three slots, a row of an `until_executed` class and one
of a `retry: false` class, one failing statement, prompt tasks; lease 3, heartbeat
1): `OneRunner`, `AttemptsBounded`. Two slots in one loop and one in another are
enough for both kinds of double execution; the lease leaves one tick to spare, as
300 s against 60 s does with more. The second half of `AttemptsBounded`,
`OnceUndisturbed`, is about the states before a statement has failed or a loop has aborted
its tasks, died or left: until then, a job performed to its end is not performed again,
and one that is given up has failed exactly as often as its class allows.

**`jobs_slow`** (two loops, alike up to symmetry, an `until_executed` class and a
`retry: false` class, `Prompt = {}`, lease 1): `GivenUpOnlyWhenSpent`, `UniqueQueued`,
`KeepsPromises`. The lease lapses under every task, so stale tasks, their late
records and hooks meet every state of the row. Failing statements add nothing
here, where a task may always be too late.

**`jobs_live`** (an `until_executing` class and an unknown one, one row at a time, one failed
statement, crashes and stops): `EveryJobSettles`.

**`inbox_statuses`** (two loops, a Create and its Delete, batches of two, one turn at a
time, two attempts, one fault, one lost memory): `DeleteWins`, `AnnouncedOnce`,
`CountedOnce`, `KeepsActivities`. One fault is a perform dropped between any two
statements, an overrun lease (the two activities at once in two loops, or one of
them twice) or a lost record; with the second attempt an activity is performed three times. One
memory may be lost because the Delete has two. `AnnouncedOnce` bounds the fan-outs from
above, and from below up to what faults and failures leave out; `CountedOnce` is exact
before the first fault.

**`inbox_follows`** (two loops, a Follow and its Undo, one at a time in each, two
attempts, one fault, an authorization and a block): `BarredStaysOut`,
`FollowersCounted`, `UndoneStaysUndone`. A rejection is an authorization that stops
after its first statement, and is not instantiated; no memory is lost, for
`UndoneStaysUndone` excepts it. Before the first fault, `FollowersCounted` leaves only
the floor.

**`inbox_live`** (the same two activities in one loop, two at a time, no requests):
`EveryActivitySettles`. What could keep a row locked for good is a dropped batch or
a lost record, for which one loop is the hardest case.

**`batch`** (two requests, one reply, one retry, one fault): `FinishedWhenDone`,
`EarlyByRepeats`, `LeftByFaults`, `ResultsCounted`, `RefreshEnds`. Two requests are
what it takes for two walks of one thread, a walk and a reply for a batch whose
first job leaves before its second. `CONSTRAINT NothingLost` explores a lost
command no further: the properties but two are about behaviours without one, and of those
`ResultsCounted` only gets easier to keep, for a lost increment counts less; the
type invariant is the other.

**`bus`** (three streams, two of one channel and one of another, one connection
lost, streams beginning while no command is queued): `Attached`, `NoDeafListener`,
`NothingLeftSubscribed`, `HeardAgain`, `Confirms`. Two streams of a channel are what a
last listener can race with, and the second channel is what a resubscription can
be interrupted between. Streams come back without end.

**`breaker`** (three deliveries, threshold 2, cool-off 2, deadline 1, four
failures, one error or death): `OneProbe`, `ClosesAgain`. Three deliveries are a
probe, a second that read the same half-open breaker, and one from before.

**`tracker`** (two processes with a task each, threshold 2, three failures or
stops, two errors or crashes): `AnsweringHostUnmarked`, `DeliveriesResume`. The task
of one process races the other's, and two errors are a lost `DELETE` and a lost
reading, or a lost `DELETE` and a crash.

**`scheduled`** (two processes, a schedule and one without params, two attempts, five
failures, one error or death): `NothingLost`, `ParkedWhenSpent`, `PostsPerFault`,
`DueIsServed`. Two failures park a schedule, four are the most that
`ParkedWhenSpent` lets two processes and an error come to, and a fifth would break it;
the second schedule is what a pass cut short leaves behind.

**`scheduled_once`**: see the finding.

Every run checks deadlock but the schedules', the inbox's and the batch's, which all
end. Each module has one type invariant, strengthened where two variables depend on
each other (a lock is free exactly when its TTL is over; a perform is somewhere
exactly while the queue says it works; a stream without a receiver is one that is
out).

### Fairness

*JobQueue:* time passes; loops are started, and end their stops, which
`SHUTDOWN_TIMEOUT` and `STOP_GRACE` bound; performs, hooks and records end. A due
row is claimed in the end if it can be claimed again and again (strong fairness):
the loops keep polling, the oldest due row of a queue is first and every queue can
be drawn first. Producers, crashes and lost statements are not fair. `EveryJobSettles`
excepts the case in which every loop there is has gone for good.

*InboxQueue and its extensions:* a row that can be claimed again and again is claimed
in the end (strong fairness: `IdleBackoff` bounds a loop's sleep, and the oldest due
rows are taken first), leases end, and performs and records go on:
`acquire_create_lock` waits two seconds for its lock and every request has a timeout.
Faults are bounded. The API's requests need not come.

*WorkerBatch:* a request that has begun and a perform go on, and the queue performs a
live job until it settles, which is `EveryJobSettles` of the queue it stands for.

*StreamBus:* threads and the connection's task go on. `select!` picks among its
ready branches at random, so a queued command is handled in the end (strong
fairness). No stream has to end, no acknowledgement has to time out: `Confirms`
holds without the five seconds.

*DeliveryBreaker:* deliveries keep coming and end, and the tasks that release
locks run. Failures are bounded: the inbox answers in the end, which is what
`ClosesAgain` is about.

*DeliveryTracker:* the host answers in the end (failures are bounded, successes
keep being recorded in every process: the requests it signs reach all of them),
its mark keeps being asked for, readings end, and minutes pass.

*ScheduledStatuses:* schedules fall due, back-offs end, and each process keeps making
passes (`timed_task_nap` bounds the nap). `DueIsServed` needs no fairness of any
publish that writes nothing: those are bounded, as are errors.

### Finding

`scheduled_once`: after the `INSERT` of a scheduled status "every later step is
therefore best-effort and logged, never propagated, because returning an error
would re-run this function and post the status a second time"
(`background.rs:479-483`). A failure of `forget_schedule` is such a step, and is
propagated (`background.rs:394`); the next pass posts again. A crash in between, or a
second process, has the same effect. `PostsPerFault` is what holds instead.

### What holds less than one might think

The properties are stated as the code keeps them. Where they say less than a
comment or a reader would, this is why:

- `subscribe` (`streaming.rs:169`) returns once Redis has confirmed only for the stream
  that lists the channel; a second one (`streaming.rs:182`) returns at once.
  `NoDeafListener`: its subscription is on its way.
- A channel stays listed, and subscribed to, after a request cancelled inside
  `subscribe`, before there is a `Subscription` to drop, and after two last streams
  that end at once, each counting the other's receiver (`streaming.rs:71`, `99`, `187`).
  `NothingLeftSubscribed`: nothing *unlisted* stays subscribed to.
- "Ten failures in a row open it" (`docs/operating/jobs.md:113`): a delivery that read
  the breaker half-open, and takes the lock after another probe has closed it, is a
  probe of a closed breaker; its one failure opens it (`delivery.rs:1174`, `1186`).
  `ClosesAgain` and `OneProbe` hold over that.
- `forget` (`delivery_failures.rs:305`) has a process read the table again at the next
  question, except that a reading that began before the change stores the table as it
  was, as fresh for a minute. `DeliveriesResume`: it passes.
- A success that finds no failures leaves a mark that its process's copy does not know
  yet; a later one removes it, and that is what `AnsweringHostUnmarked` states.
- An Undo that removed a row leaves no memory of itself: a Follow or an
  authorization that was under way beside it, or a Follow performed again after it,
  makes the follow anew. `UndoneStaysUndone` excepts what `raced`.
- Two requests may both find no refresh running. The walk of the second finds the root
  touched, ends its batch at once and finishes the refresh for which the first is still
  working. `FinishedWhenDone` is stated for one request, and for jobs that are not
  performed again: one that leaves twice counts twice, as `worker_batch.rs` says, and
  `EarlyByRepeats` bounds by how much.
- A job that leaves after its batch has ended brings the hash back, without an expiry, and
  ends it at once. The hash stays for good only if the process dies in between: that
  takes a lost record and a death, as `LeftByFaults` says.
- A walk that dies after its replies joined the batch and before they were queued, and
  a command that Redis did not take, leave a batch that never ends and a refresh that
  runs until its key expires. `RefreshEnds` excepts them.
- A Create that fails after its `INSERT` (`inbox/create.rs:370`) is tried again, finds its
  own row, and is never distributed. `AnnouncedOnce` says that a status is passed over for
  no other reason than that a perform of its Create failed, or there was a fault.
- Several processes publish one schedule at once, each counts its own failure, and one
  that finishes makes them forget the count. A schedule is not tried `MaxAttempts` times
  but up to once more for every other process or error (`background.rs:422-474`): the
  second half of `ParkedWhenSpent`.

## 4. Proofs

All theorems are about `Spec`, without fairness, for every value of the constants
that satisfies the modules' assumptions; TLC evaluates those on the instances.

**`JobQueueProofs`.** `TypeCorrect`, then `PromptCorrect`: `PromptInv` is inductive.
`OneRunner` alone is not, for a claim may take a row only because its lease has
lapsed: `LeaseHeld` says that a busy slot's row is still queued, leased to its own
loop, for longer than the task has left (plus `Finish` while it performs), so that
no busy row is claimable; it holds over a renewal because of
`TimingAssumption`, `Heartbeat + Finish < Lease`. `HandingBackIdle` says a loop
that hands its rows back has aborted its tasks, `Distinct` that no two slots share
a row, `AttemptsOK` and `RunOK` that a claim's attempts are its row's and which
way out they lead. `OneRunnerCorrect` follows, and the first half of `AttemptsCorrect`.

The second half of the module assumes nothing of the tasks' speed. `KeyCorrect`: one row
has a unique key, and has it while its lock lasts, whence `UniqueCorrect`.
`SpentCorrect`: a row's attempts, with the failures some slot has seen and
not yet recorded (`Uncounted`), never exceed the failures there were; hence a task
that gives a job up has seen enough, however many others retried it meanwhile
(`GivenUpCorrect`). Together with `RunOK` this maps every step of `JobQueue` to a step of
`JobPromises` or to none: `PromisesKept`, the refinement `KeepsPromises`.

What the abstract queue promises at every step has a consequence for where a job may end,
`LeavesSettled`: gone only if it was performed or spent its retries, dead only if it spent
them and its class keeps its dead. `SettledCorrect` proves it of `JobPromises` and carries
it over to `JobQueue`. The second half of `AttemptsCorrect` is `OnceCorrect`: with prompt
tasks, and until a statement fails or a loop aborts, dies or leaves, no job runs again
after it was performed to its end, and one that left without that has failed exactly
`Tries` times. A job's failures are then no more than its row's attempts, and one more
while a slot has a failure to record (`UndisturbedInv`, `UndisturbedCorrect`): `PromptInv` leaves
the row to its one slot, and what could disturb it is what `Quiet` excludes of a step.

**`InboxQueueProofs`.** `QueueTypeCorrect`. `ActivitiesKept` is the refinement
`KeepsActivities`: `JobPromises` gives a job up only after so many failures, whereas
`Record` writes whatever the claim returned, and one more. So the invariant says that
the attempts of a row, those in each task's `count`, and one more for a task that has
failed, never exceed the failures there were; each step is then one of
`JobPromises` or none. `FaultlessCorrect` says what faults alone may change: until the
first of them no activity is with two loops, or performed again once it was performed, or
given up before or after `MaxAttempts` failures; one that is gone was performed, or had
exactly those, for which it needs `SettledCorrect`, the same consequence of the promises
as the job queue's. The queue promises at least once, and
keeps exactly once as long as nothing dies, is lost or outlasts its lease. The invariant,
`Exact`, says that whoever works on a row is alone with it, under a lease that is held,
with the row's own attempts, and that these are all the failures there were but the one
about to be recorded.

**`InboxStatusesProofs`.** `StatusesAreQueued`: every step of the handlers is one of
`InboxQueue` or a stutter, so that `ActivitiesKept` holds of them too.
`StatusTypeCorrect`. `StatusAnnouncedOnce`: the row leaves `none` once, so at most one
perform is ever past its `Insert`, or the announcement is made; from below, `Told` follows
the row that was made (`Made`) to the perform that will announce it, or to the fault or
failure that stopped it. `HandledDeleteWins`: as
long as nobody was without the lock, whoever is inside holds it (`Locked`), so that a
Create that has looked for a Delete is not beside one; a memory is only lost at the
price of `lost` (`Memory`), and a Create past a look knows that memory empty
(`Knows`). `StatusesCountedOnce`: `Books` says that the count, with what the one past the
lock still owes it, is right but for what was missed, and that what `handle_delete` has
read of the row is still so when it removes it; a floor that bites owes its uncount
already, and leaves nothing out. `Unmissed` makes it exact before the first fault: nothing
is missed by then.

**`InboxFollowsProofs`.** `FollowsAreQueued` and `FollowTypeCorrect` are as above.
`BarredCorrect`: `Barring` adds to the property that nobody is past the block's check
(`Making`), a request having to be there before it can be authorized; and that before
the first Follow nothing is there, for `barred` is set then. `UndoneCorrect`: `Undoing`
says what an Undo has removed by the step it is at (`Removed`), and that without a race
nobody is past looking for its memory once it is over (`Risky`); `Kinds` says whose
activity each step is. `FollowersCorrect` has no lock to lean on: any number of performs and
requests may be between a row and its count, so `Ledger` adds them all up (`Debt`), and
every step that makes, removes, counts or misses a follow keeps the sum; a dropped batch's
debts are missed, and nothing is before the first fault (`Unmissed`).

**`WorkerBatchProofs`.** `TypeCorrect` rests on `Placed` (a job is in its batch before the
queue has it, a reply in the batch of the walk that found it) and `Queued` (no perform of a
job that is spent, so `failures` stays within its bound). `ResultsCorrect`: the results,
with the performs that have created a reply and not yet counted it, are never more than
the replies held. `EarlyCorrect`: `Tally` says that a hash has no more pending than are in
its batch, which also holds of a hash that came back after its end, and is exact as long as
the batch has its key. `FinishedCorrect`: without a second perform nobody leaves twice
(`Once`), so the perform that finds nothing pending has seen the batch empty (`Final`); it
stays so, for only a walk that has not left adds to it, and one request makes one batch.
`LeftCorrect` is about what is left at rest, and its invariant `Tidy` about every state on
the way: whoever has not left its batch is expected to (`Expected`), and the hashes that
nobody is expected to remove (`Stray`), at two faults each, and the performs of jobs that
had finished before (`Reruns`), at one each, are paid for by the faults there were.
`RestCorrect`: as long as Redis took every command, a refresh is not shown as running
when everybody is at rest, however often jobs failed or were cut. `Bound` says that a
running refresh has a request whose batch has its key and someone who will yet leave it or
finish the refresh (`Promised`, `Closer`). It is what safety there is in `RefreshEnds`.
`JobsAreQueued`: what becomes of the jobs is a behaviour of `JobPromises`.

**`StreamBusProofs`.** `TypeCorrect`, with `AckOK`: an acknowledgement still to be
read is of one command, for a stream that awaits it. `AttachedCorrect`: a drop that
unlists a channel holds its only receiver of the listed sender.
`NothingLeftSubscribed` is not inductive, since a `Subscribe` queued for a channel
that is unlisted meanwhile will subscribe to it: `LeftInv` adds that each such
command has the channel's `Unsubscribe` behind it, or still to be sent, and that
the same is true of what a new connection is about to resubscribe to
(`NothingLeftCorrect`). `HeardInv` speaks of `Live`, the channels that will be heard
once the connection's task has finished its current step: every listed channel is
live or its `Subscribe` is coming, and the channels of confirmed streams, and of those
whose acknowledgement the next connection owes, are live (`NoDeafCorrect`).
`RestCorrect` is what safety there is in `HeardAgain` and `Confirms`: when neither a stream
nor the connection's task has anything left to do, nobody waits for an acknowledgement and
every listening stream's channel is subscribed to (`BusRests`). Its invariant `Owed` finds,
for everyone who waits, the queued command or the new connection that will answer. Nothing is
assumed but that there are finitely many streams at a time.

**`DeliveryProofs`.** Of the breaker, `TypeCorrect`; `ProbeHoldsCorrect`: a probe has the lock, for
longer than it has left to run, from `BreakerAssumption`, `Deadline < CoolOff` (the
client's timeout against a minute); the type invariant adds that a lock is
free exactly when its TTL is over, and that a delivery whose token is in the lock has not
released it. `OneProbeCorrect` follows: two probes would both be the lock's holder.
`OpensCorrect`: the breaker is not open, its lock not taken, and no admit or record on its
way to either before `Threshold` deliveries have failed; the count in Redis is never more
than those. Of the tracker, `TrackerTypeCorrect`: its days are no more than the failures
there were, and a host about to be marked for them has had `Threshold`. The tracker is an
instance in this module, and the theorem assumes of its constants what
`TrackerAssumption` does.

**`ScheduledStatusesProofs`.** `TypeCorrect`. `NothingLostCorrect`, from `FinishedOK`: a pass
that is about to remove a schedule has posted it, or never can.
`PostsCorrect`: as long as a process may post a schedule yet (`Open`: it has it before it, or
may select it), it has posted it once for each error at most. `ParkedCorrect`: the
attempts counted, with the passes that have a failure to count (`Uncounted`), never
exceed the failures there were. Its second half bounds them from above while the schedule
may still be published (`TriesInv`): a failure is counted, or about to be (`Failing`), or is
that of a pass which an error ended (`Ending`), and only a schedule that is posted or found
to be unpublishable has its count forgotten; passes that select it while it is not
yet parked (`Coming`) are one per process. The number of processes has only to be finite.

Only model-checked: everything temporal beyond invariants and refinements
(`EveryJobSettles`, `EveryActivitySettles`, `RefreshEnds`, `HeardAgain`, `Confirms`,
`ClosesAgain`, `AnsweringHostUnmarked`, `DeliveriesResume`, `DueIsServed`), since fairness
and `ENABLED` are out of the prover's reach. Every invariant the runs check is
proved.

## 5. Not modelled

The map covers a small share of the source's lines, and that is the shape of the
program: most of it turns one request into a few SQL statements, renders rows as
JSON, or parses what other servers send, and keeps no state between requests.
`PROJECT.json` gives the reason for each part. What does keep state and is not
modelled:

- **Feeds** (`feed.rs:133`, `home_feed.rs:73`). A feed's sorted set, the sorted set of
  tracked boosts and the sets held back, moved by pushes, removals, trims and a
  regeneration of several commands each. A module would ask which
  boost a feed shows after interleaved pushes and removals of the same post; nothing in
  the code promises an answer beyond that a regeneration repairs it.
- **Quotes, moves, imports.** Quotes follow the answers of other servers as follows
  do; a move queues jobs for each follower; a bulk import counts rows as its jobs end, as
  `WorkerBatch` does without a threshold.
- **Other activities**: Update, Announce, Like, Flag, Move, Accept and Reject, which use
  the same queue and the same memories, and the follower's side of a follow.
- **Deliveries themselves**, which wait in a queue of the external crate `ojak`; the
  media queue, claimed as the job queue is; poll expiry, whose mark lives in one process.
- **The `subscribed:` keys** of streams and their times (`streaming.rs:402`).
