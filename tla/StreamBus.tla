----------------------------- MODULE StreamBus -----------------------------
(***************************************************************************)
(* The streaming bus of src/src/streaming.rs: the listeners of one process *)
(* share one subscribing connection to Redis, subscribed to a channel      *)
(* while the process has a listener for it.                                *)
(*                                                                         *)
(* Steps are what a task does between two awaits, or between taking the    *)
(* lock on `channels` and releasing it: listeners come and go on several   *)
(* threads, and their commands reach the connection's task through a queue.*)
(* The messages themselves are left out: what decides who hears one is     *)
(* `subs` when it is published and `rx` when it is dispatched.             *)
(***************************************************************************)
EXTENDS Naturals, FiniteSets, Sequences

CONSTANTS
    Listener,   \* streams, each on one channel; a stream may come back
    Channel,
    Of,         \* Of[l]: the channel l listens to
    Nobody,     \* the reader of an acknowledgement nobody waits for
    MaxQueued,  \* bound: no stream begins while so many commands are queued
    MaxLosses   \* bound: connections lost

ASSUME BusAssumption ==
    /\ Of \in [Listener -> Channel] /\ Nobody \notin Listener
    /\ IsFiniteSet(Listener)
    /\ MaxQueued \in Nat /\ MaxLosses \in Nat

VARIABLES
    at,        \* at[l]: how far l is in subscribe or drop
    rx,        \* rx[l]: l's receiver: of the listed sender, of an older one, none
    listed,    \* the channels in `channels`
    queue,     \* commands sent and not yet received
    waiting,   \* `waiting`: whose acknowledgement the next connection owes
    conn,      \* "off", "connecting", "resubscribing", "up" or "unsubscribing"
    todo,      \* the channels still to be subscribed to again, or unsubscribed from
    alive,     \* whether Redis still holds the connection
    subs,      \* the channels Redis has the connection subscribed to
    losses,
    confirmed  \* history: the listeners whose subscription was acknowledged

listeners == <<at, rx, listed>>
link == <<conn, todo, alive, subs, losses>>
vars == <<listeners, queue, waiting, link, confirmed>>

\* joined:  listed, its Subscribe not yet sent        awaiting: for the ack
\* telling: setting the `subscribed:` key             listening: returned
\* removed: its drop unlisted the channel, its Unsubscribe not yet sent
\* leaving: its drop is over, its receiver still alive
Stage == {"out", "joined", "awaiting", "telling", "listening", "removed", "leaving"}

Command == [cmd : {"subscribe", "unsubscribe"}, chan : Channel, ack : Listener \cup {Nobody}]

Init == /\ at = [l \in Listener |-> "out"]
        /\ rx = [l \in Listener |-> "none"]
        /\ listed = {}
        /\ queue = <<>>
        /\ waiting = {}
        /\ conn = "off" /\ todo = {} /\ alive = FALSE /\ subs = {}
        /\ losses = 0
        /\ confirmed = {}

Move(l, from, to) == at[l] = from /\ at' = [at EXCEPT ![l] = to]

Send(cmd, l, ack) == queue' = Append(queue, [cmd |-> cmd, chan |-> Of[l], ack |-> ack])

\* The oneshot's receiver is dropped: nobody reads that acknowledgement.
Deafen(l) ==
    /\ queue' = [k \in DOMAIN queue |->
                   IF queue[k].ack = l THEN [queue[k] EXCEPT !.ack = Nobody] ELSE queue[k]]
    /\ waiting' = waiting \ {l}

-----------------------------------------------------------------------------
(* subscribe *)

Subscribe(l) ==
    /\ Len(queue) < MaxQueued
    /\ Move(l, "out", IF Of[l] \in listed THEN "telling" ELSE "joined")
    /\ rx' = [rx EXCEPT ![l] = "current"]
    /\ listed' = listed \cup {Of[l]}
    /\ UNCHANGED <<queue, waiting, link, confirmed>>

SendSubscribe(l) ==
    /\ Move(l, "joined", "awaiting")
    /\ Send("subscribe", l, l)
    /\ conn' = IF conn = "off" THEN "connecting" ELSE conn
    /\ UNCHANGED <<rx, listed, waiting, todo, alive, subs, losses, confirmed>>

\* Redis did not confirm within five seconds.
TimedOut(l) ==
    /\ Move(l, "awaiting", "telling")
    /\ Deafen(l)
    /\ UNCHANGED <<rx, listed, link, confirmed>>

Told(l) ==
    /\ Move(l, "telling", "listening")
    /\ UNCHANGED <<rx, listed, queue, waiting, link, confirmed>>

\* The request goes away while subscribe awaits Redis: the receiver is dropped
\* and there was no Subscription yet whose drop would unlist the channel.
Cancelled(l) ==
    /\ at[l] \in {"awaiting", "telling"}
    /\ at' = [at EXCEPT ![l] = "out"]
    /\ rx' = [rx EXCEPT ![l] = "none"]
    /\ Deafen(l)
    /\ confirmed' = confirmed \ {l}
    /\ UNCHANGED <<listed, link>>

-----------------------------------------------------------------------------
(* Subscription's drop, and then its receiver's *)

Receivers(c) == {l \in Listener : Of[l] = c /\ rx[l] = "current"}

\* Mutant: the receiver being dropped is taken to be gone already.
LastHereLate(l) == Of[l] \in listed /\ Cardinality(Receivers(Of[l])) <= 2

LastHere(l) == Of[l] \in listed /\ Cardinality(Receivers(Of[l])) <= 1

Drop(l) ==
    /\ Move(l, "listening", IF LastHere(l) THEN "removed" ELSE "leaving")
    /\ listed' = IF LastHere(l) THEN listed \ {Of[l]} ELSE listed
    /\ rx' = IF LastHere(l)
             THEN [k \in Listener |-> IF k \in Receivers(Of[l]) THEN "old" ELSE rx[k]]
             ELSE rx
    /\ confirmed' = confirmed \ {l}
    /\ UNCHANGED <<queue, waiting, link>>

\* Mutant: the channel is unlisted and Redis is not told.
SendNothing(l) ==
    /\ Move(l, "removed", "leaving")
    /\ UNCHANGED <<rx, listed, queue, waiting, link, confirmed>>

SendUnsubscribe(l) ==
    /\ Move(l, "removed", "leaving")
    /\ Send("unsubscribe", l, Nobody)
    /\ UNCHANGED <<rx, listed, waiting, link, confirmed>>

\* Mutant: the stream is over, and something keeps its receiver.
KeepReceiver(l) ==
    /\ Move(l, "leaving", "out")
    /\ UNCHANGED <<rx, listed, queue, waiting, link, confirmed>>

DropReceiver(l) ==
    /\ Move(l, "leaving", "out")
    /\ rx' = [rx EXCEPT ![l] = "none"]
    /\ UNCHANGED <<listed, queue, waiting, link, confirmed>>

-----------------------------------------------------------------------------
(* The connection's task *)

Reconnect == conn' = "connecting" /\ alive' = FALSE /\ todo' = {} /\ subs' = {}

\* A connection is opened and the channels listened to are read.
Connect ==
    /\ conn = "connecting"
    /\ conn' = "resubscribing" /\ alive' = TRUE
    /\ todo' = listed /\ subs' = {}
    /\ UNCHANGED <<listeners, queue, waiting, losses, confirmed>>

Resubscribe(c) ==
    /\ conn = "resubscribing" /\ c \in todo
    /\ IF alive
       THEN /\ subs' = subs \cup {c} /\ todo' = todo \ {c}
            /\ UNCHANGED <<conn, alive>>
       ELSE Reconnect
    /\ UNCHANGED <<listeners, queue, waiting, losses, confirmed>>

\* Those in S have their answer: awaiting it, they go on.
Acknowledge(S) ==
    /\ at' = [l \in Listener |-> IF l \in S THEN "telling" ELSE at[l]]
    /\ confirmed' = confirmed \cup S

\* Mutant: the acknowledgements owed are forgotten with the old connection.
ResubscribedForgetting ==
    /\ conn = "resubscribing" /\ todo = {}
    /\ conn' = "up"
    /\ waiting' = {}
    /\ UNCHANGED <<listeners, queue, todo, alive, subs, losses, confirmed>>

Resubscribed ==
    /\ conn = "resubscribing" /\ todo = {}
    /\ conn' = "up"
    /\ Acknowledge(waiting)
    /\ waiting' = {}
    /\ UNCHANGED <<rx, listed, queue, todo, alive, subs, losses>>

Take(cmd) == /\ conn = "up" /\ queue # <<>> /\ Head(queue).cmd = cmd
             /\ queue' = Tail(queue)

HandleSubscribe ==
    LET ack == {Head(queue).ack} \ {Nobody} IN
    /\ Take("subscribe")
    /\ IF alive
       THEN /\ subs' = subs \cup {Head(queue).chan}
            /\ Acknowledge(ack)
            /\ UNCHANGED <<conn, todo, alive, waiting>>
       ELSE /\ waiting' = waiting \cup ack
            /\ Reconnect
            /\ UNCHANGED <<at, confirmed>>
    /\ UNCHANGED <<rx, listed, losses>>

\* Mutant: whether the channel is listened to again is not looked at.
HandleUnsubscribeBlindly ==
    /\ Take("unsubscribe")
    /\ conn' = "unsubscribing" /\ todo' = {Head(queue).chan}
    /\ UNCHANGED <<listeners, waiting, alive, subs, losses, confirmed>>

\* Listened to again since: keep it.
HandleUnsubscribe ==
    /\ Take("unsubscribe")
    /\ IF Head(queue).chan \in listed
       THEN UNCHANGED <<conn, todo>>
       ELSE conn' = "unsubscribing" /\ todo' = {Head(queue).chan}
    /\ UNCHANGED <<listeners, waiting, alive, subs, losses, confirmed>>

\* The lock on `channels` is not held meanwhile.
Unsubscribed ==
    /\ conn = "unsubscribing"
    /\ IF alive
       THEN conn' = "up" /\ subs' = subs \ todo /\ todo' = {} /\ UNCHANGED alive
       ELSE Reconnect
    /\ UNCHANGED <<listeners, queue, waiting, losses, confirmed>>

\* Mutant: a closed connection is not noticed until a command fails on it.
NoticesNothing == FALSE /\ UNCHANGED vars

\* The stream of messages ends.
Notices ==
    /\ conn = "up" /\ ~alive
    /\ Reconnect
    /\ UNCHANGED <<listeners, queue, waiting, losses, confirmed>>

Lose ==
    /\ alive /\ losses < MaxLosses
    /\ alive' = FALSE /\ subs' = {}
    /\ losses' = losses + 1
    /\ UNCHANGED <<listeners, queue, waiting, conn, todo, confirmed>>

-----------------------------------------------------------------------------
Comes(l) == Subscribe(l) \/ SendSubscribe(l) \/ TimedOut(l) \/ Told(l)

Goes(l) == Cancelled(l) \/ Drop(l) \/ SendUnsubscribe(l) \/ DropReceiver(l)

Subscriber == \/ Connect \/ Resubscribed \/ Notices
              \/ HandleSubscribe \/ HandleUnsubscribe \/ Unsubscribed
              \/ \E c \in Channel : Resubscribe(c)

Next == \/ \E l \in Listener : Comes(l) \/ Goes(l)
        \/ Subscriber
        \/ Lose

Spec == Init /\ [][Next]_vars

\* Threads go on, and the connection's task with them: its select! picks among
\* its ready branches at random, so none is passed over for ever.  No stream
\* need end, and no acknowledgement time out.
Fairness ==
    /\ \A l \in Listener : WF_vars(SendSubscribe(l) \/ Told(l) \/ SendUnsubscribe(l)
                                   \/ DropReceiver(l))
    /\ WF_vars(Connect \/ Resubscribed \/ Unsubscribed \/ \E c \in Channel : Resubscribe(c))
    /\ SF_vars(HandleSubscribe \/ HandleUnsubscribe)
    /\ WF_vars(Notices)

FairSpec == Spec /\ Fairness

-----------------------------------------------------------------------------
(* Properties *)

Here(l) == at[l] \in {"telling", "listening"}

TypeOK == /\ at \in [Listener -> Stage]
          /\ rx \in [Listener -> {"none", "current", "old"}]
          /\ \A l \in Listener : rx[l] = "none" <=> at[l] = "out"
          /\ listed \in SUBSET Channel
          /\ queue \in Seq(Command)
          /\ waiting \in SUBSET {l \in Listener : at[l] = "awaiting"}
          /\ conn \in {"off", "connecting", "resubscribing", "up", "unsubscribing"}
          /\ todo \in SUBSET Channel
          /\ alive \in BOOLEAN
          /\ subs \in SUBSET Channel
          /\ losses \in 0..MaxLosses
          /\ confirmed \in SUBSET Listener

\* A stream's receiver is of the sender messages are dispatched to, until the
\* stream ends: no other stream's end unlists the channel under it (drop's
\* receiver_count against subscribe's entry).
Attached == \A l \in Listener : at[l] \in {"joined", "awaiting", "telling", "listening"}
                => rx[l] = "current" /\ Of[l] \in listed

\* A Subscribe for c is on its way to Redis.
Coming(c) == \/ \E k \in DOMAIN queue : queue[k].cmd = "subscribe" /\ queue[k].chan = c
             \/ \E l \in Listener : at[l] = "joined" /\ Of[l] = c

\* On a working connection no stream is deaf: its channel is subscribed to
\* whatever unsubscriptions crossed its subscription, or the subscription is
\* still on its way and the stream was never told otherwise (run_subscriber,
\* "Listened to again since: keep it").
NoDeafListener ==
    conn \in {"up", "unsubscribing"} /\ alive =>
        \A l \in Listener : Here(l) =>
            Of[l] \in subs \/ (l \notin confirmed /\ Coming(Of[l]))

\* What Redis still sends and nobody here listens to is about to be
\* unsubscribed from, over reconnections too (drop's Unsubscribe).
NothingLeftSubscribed ==
    \A c \in subs \ listed :
        \/ conn = "unsubscribing" /\ c \in todo
        \/ \E k \in DOMAIN queue : queue[k].cmd = "unsubscribe" /\ queue[k].chan = c
        \/ \E l \in Listener : at[l] = "removed" /\ Of[l] = c

\* A stream that lasts hears its channel in the end, and again after every
\* loss of the connection (run_subscriber's reconnection).
HeardAgain ==
    \A l \in Listener : at[l] = "listening" ~>
        at[l] # "listening" \/ (conn = "up" /\ alive /\ Of[l] \in subs)

\* Every subscription is confirmed without the five seconds' timeout, by the
\* connection it was sent to or by the next (run_subscriber's `waiting`).
Confirms == \A l \in Listener : at[l] = "awaiting" ~> at[l] # "awaiting"

-----------------------------------------------------------------------------
(* Inductive invariants: what StreamBusProofs rests on. *)

\* An acknowledgement still to be read is of one command, for a stream that
\* awaits it.
AckOK ==
    /\ \A k \in DOMAIN queue : queue[k].ack # Nobody =>
          /\ queue[k].cmd = "subscribe" /\ queue[k].chan = Of[queue[k].ack]
          /\ at[queue[k].ack] = "awaiting" /\ queue[k].ack \notin waiting
    /\ \A j, k \in DOMAIN queue :
          queue[j].ack = queue[k].ack /\ queue[j].ack # Nobody => j = k

\* The channels the connection is subscribed to or is about to be again.
Reached == IF conn = "resubscribing" THEN subs \cup todo ELSE subs

\* c is unlisted and its Unsubscribe is behind the command at k, or to be sent.
Withdrawn(c, k) ==
    \/ \E j \in DOMAIN queue : j > k /\ queue[j].cmd = "unsubscribe" /\ queue[j].chan = c
    \/ \E l \in Listener : at[l] = "removed" /\ Of[l] = c

LeftInv ==
    /\ \A c \in Reached \ listed : Withdrawn(c, 0) \/ (conn = "unsubscribing" /\ c \in todo)
    /\ \A k \in DOMAIN queue :
          queue[k].cmd = "subscribe" /\ queue[k].chan \notin listed => Withdrawn(queue[k].chan, k)

\* The channels that will be heard once the connection is done.
Live == IF conn = "unsubscribing" THEN subs \ todo ELSE Reached

HeardInv ==
    /\ \A l \in confirmed : Here(l)
    /\ alive => /\ conn \in {"resubscribing", "up", "unsubscribing"}
                /\ \A c \in listed : c \in Live \/ Coming(c)
                /\ \A l \in confirmed \cup waiting : Of[l] \in Live

=============================================================================
