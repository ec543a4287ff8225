-------------------------- MODULE StreamBusProofs --------------------------
(***************************************************************************)
(* Proofs of StreamBus: for every number of streams and channels, however  *)
(* often the connection is lost, no stream is detached from its channel or *)
(* deaf on a working connection, nothing unlisted stays subscribed to, and *)
(* a bus with nothing left to do has everyone subscribed and acknowledged. *)
(***************************************************************************)
EXTENDS StreamBus, FiniteSetTheorems, TLAPS

LEMMA Streams == /\ \A l \in Listener : Of[l] \in Channel /\ l # Nobody
                 /\ IsFiniteSet(Listener)
BY BusAssumption

\* What one stream's step leaves alone.
LEMMA Moved ==
    ASSUME TypeOK, NEW l \in Listener, NEW from, NEW to \in Stage, Move(l, from, to)
    PROVE  /\ at' \in [Listener -> Stage] /\ at[l] = from /\ at'[l] = to
           /\ \A k \in Listener \ {l} : at'[k] = at[k]
BY DEF TypeOK, Move

-----------------------------------------------------------------------------
(* The queue of commands *)

LEMMA Queued ==
    ASSUME TypeOK
    PROVE  /\ Len(queue) \in Nat /\ DOMAIN queue = 1..Len(queue)
           /\ \A k \in 1..Len(queue) : queue[k] \in Command
BY DEF TypeOK

LEMMA Sent ==
    ASSUME TypeOK, NEW l \in Listener, NEW cmd \in {"subscribe", "unsubscribe"},
           NEW ack \in {l, Nobody}, Send(cmd, l, ack)
    PROVE  /\ queue' \in Seq(Command)
           /\ DOMAIN queue' = 1..(Len(queue) + 1)
           /\ \A k \in 1..Len(queue) : queue'[k] = queue[k]
           /\ queue'[Len(queue) + 1] = [cmd |-> cmd, chan |-> Of[l], ack |-> ack]
<1>1. [cmd |-> cmd, chan |-> Of[l], ack |-> ack] \in Command
  BY Streams DEF Command
<1>2. queue \in Seq(Command)
  BY DEF TypeOK
<1>. QED  BY <1>1, <1>2 DEF Send

LEMMA Taken ==
    ASSUME TypeOK, NEW cmd, Take(cmd)
    PROVE  /\ queue' \in Seq(Command)
           /\ 1 \in DOMAIN queue /\ Head(queue) = queue[1]
           /\ queue[1] \in Command /\ queue[1].cmd = cmd
           /\ DOMAIN queue' = 1..(Len(queue) - 1) /\ Len(queue) >= 1
           /\ \A k \in 1..(Len(queue) - 1) : queue'[k] = queue[k + 1]
<1>1. queue \in Seq(Command) /\ queue # <<>>
  BY DEF TypeOK, Take
<1>2. Len(queue) >= 1
  BY <1>1
<1>3. queue[1] \in Command /\ Head(queue) = queue[1]
  BY <1>1, <1>2
<1>4. queue' = Tail(queue)
  BY DEF Take
<1>. QED  BY <1>1, <1>2, <1>3, <1>4 DEF Take

LEMMA Deafened ==
    ASSUME TypeOK, NEW l \in Listener, Deafen(l)
    PROVE  /\ queue' \in Seq(Command)
           /\ DOMAIN queue' = DOMAIN queue
           /\ \A k \in DOMAIN queue :
                 /\ queue'[k].cmd = queue[k].cmd /\ queue'[k].chan = queue[k].chan
                 /\ queue'[k].ack = IF queue[k].ack = l THEN Nobody ELSE queue[k].ack
           /\ waiting' = waiting \ {l}
<1>1. queue' = [k \in 1..Len(queue) |->
                  IF queue[k].ack = l THEN [queue[k] EXCEPT !.ack = Nobody] ELSE queue[k]]
  BY Queued DEF Deafen
<1>2. ASSUME NEW k \in 1..Len(queue)
      PROVE  /\ queue'[k] \in Command
             /\ queue'[k].cmd = queue[k].cmd /\ queue'[k].chan = queue[k].chan
             /\ queue'[k].ack = IF queue[k].ack = l THEN Nobody ELSE queue[k].ack
  <2>1. queue[k] \in Command
    BY <1>2, Queued
  <2>2. CASE queue[k].ack = l
    <3>1. queue'[k] = [queue[k] EXCEPT !.ack = Nobody]
      BY <1>1, <1>2, <2>2
    <3>. QED  BY <2>1, <2>2, <3>1 DEF Command
  <2>3. CASE queue[k].ack # l
    BY <1>1, <1>2, <2>1, <2>3 DEF Command
  <2>. QED  BY <2>2, <2>3
<1>3. queue' \in Seq(Command)
  <2>1. Len(queue) \in Nat
    BY Queued
  <2>2. queue' \in [1..Len(queue) -> Command]
    BY <1>1, <1>2
  <2>. QED  BY <2>1, <2>2
<1>. QED  BY <1>1, <1>2, <1>3, Queued DEF Deafen

-----------------------------------------------------------------------------
(* Types *)

LEMMA TypeInit == Init => TypeOK /\ AckOK
<1>. SUFFICES ASSUME Init PROVE TypeOK /\ AckOK
  OBVIOUS
<1>1. queue \in Seq(Command) /\ DOMAIN queue = {}
  BY DEF Init
<1>2. \A l \in Listener : rx[l] = "none" <=> at[l] = "out"
  BY DEF Init
<1>4. losses \in 0..MaxLosses
  BY BusAssumption DEF Init
<1>5. at \in [Listener -> Stage] /\ rx \in [Listener -> {"none", "current", "old"}]
  BY DEF Init, Stage
<1>6. TypeOK
  BY <1>1, <1>2, <1>4, <1>5 DEF Init, TypeOK
<1>3. AckOK
  BY <1>1 DEF AckOK
<1>. QED  BY <1>3, <1>6

LEMMA TypeComes == ASSUME TypeOK, NEW l \in Listener, Comes(l) PROVE TypeOK'
<1>1. CASE Subscribe(l)
  <2>1. PICK to \in {"telling", "joined"} : Move(l, "out", to)
    BY <1>1 DEF Subscribe
  <2>2. /\ at' \in [Listener -> Stage] /\ at[l] = "out" /\ at'[l] = to
        /\ \A k \in Listener \ {l} : at'[k] = at[k]
    BY <2>1, Moved DEF Stage
  <2>. QED  BY <1>1, <2>2, Streams DEF Subscribe, TypeOK, link
<1>2. CASE SendSubscribe(l)
  <2>1. /\ at' \in [Listener -> Stage] /\ at[l] = "joined" /\ at'[l] = "awaiting"
        /\ \A k \in Listener \ {l} : at'[k] = at[k]
    BY <1>2, Moved DEF SendSubscribe, Stage
  <2>2. queue' \in Seq(Command)
    BY <1>2, Sent DEF SendSubscribe
  <2>. QED  BY <1>2, <2>1, <2>2 DEF SendSubscribe, TypeOK
<1>3. CASE TimedOut(l)
  <2>1. /\ at' \in [Listener -> Stage] /\ at[l] = "awaiting" /\ at'[l] = "telling"
        /\ \A k \in Listener \ {l} : at'[k] = at[k]
    BY <1>3, Moved DEF TimedOut, Stage
  <2>2. queue' \in Seq(Command) /\ waiting' = waiting \ {l}
    BY <1>3, Deafened DEF TimedOut
  <2>. QED  BY <1>3, <2>1, <2>2 DEF TimedOut, TypeOK, link
<1>4. CASE Told(l)
  <2>1. /\ at' \in [Listener -> Stage] /\ at[l] = "telling" /\ at'[l] = "listening"
        /\ \A k \in Listener \ {l} : at'[k] = at[k]
    BY <1>4, Moved DEF Told, Stage
  <2>. QED  BY <1>4, <2>1 DEF Told, TypeOK, link
<1>. QED  BY <1>1, <1>2, <1>3, <1>4 DEF Comes

LEMMA TypeGoes == ASSUME TypeOK, NEW l \in Listener, Goes(l) PROVE TypeOK'
<1>1. CASE Cancelled(l)
  <2>1. queue' \in Seq(Command) /\ waiting' = waiting \ {l}
    BY <1>1, Deafened DEF Cancelled
  <2>. QED  BY <1>1, <2>1 DEF Cancelled, TypeOK, link, Stage
<1>2. CASE Drop(l)
  <2>1. PICK to \in {"removed", "leaving"} : Move(l, "listening", to)
    BY <1>2 DEF Drop
  <2>2. /\ at' \in [Listener -> Stage] /\ at[l] = "listening" /\ at'[l] = to
        /\ \A k \in Listener \ {l} : at'[k] = at[k]
    BY <2>1, Moved DEF Stage
  <2>3. /\ rx' \in [Listener -> {"none", "current", "old"}]
        /\ \A k \in Listener : rx'[k] = "none" <=> rx[k] = "none"
    BY <1>2 DEF Drop, TypeOK, Receivers
  <2>4. listed' \in SUBSET Channel /\ confirmed' \in SUBSET Listener
    BY <1>2 DEF Drop, TypeOK
  <2>5. UNCHANGED <<queue, waiting, link>>
    BY <1>2 DEF Drop
  <2>6. \A k \in Listener : rx'[k] = "none" <=> at'[k] = "out"
    BY <2>2, <2>3 DEF TypeOK
  <2>7. waiting' \in SUBSET {k \in Listener : at'[k] = "awaiting"}
    BY <2>2, <2>5 DEF TypeOK
  <2>. QED  BY <2>2, <2>3, <2>4, <2>5, <2>6, <2>7 DEF TypeOK, link
<1>3. CASE SendUnsubscribe(l)
  <2>1. /\ at' \in [Listener -> Stage] /\ at[l] = "removed" /\ at'[l] = "leaving"
        /\ \A k \in Listener \ {l} : at'[k] = at[k]
    BY <1>3, Moved DEF SendUnsubscribe, Stage
  <2>2. queue' \in Seq(Command)
    BY <1>3, Sent DEF SendUnsubscribe
  <2>. QED  BY <1>3, <2>1, <2>2 DEF SendUnsubscribe, TypeOK, link
<1>4. CASE DropReceiver(l)
  <2>1. /\ at' \in [Listener -> Stage] /\ at[l] = "leaving" /\ at'[l] = "out"
        /\ \A k \in Listener \ {l} : at'[k] = at[k]
    BY <1>4, Moved DEF DropReceiver, Stage
  <2>. QED  BY <1>4, <2>1 DEF DropReceiver, TypeOK, link
<1>. QED  BY <1>1, <1>2, <1>3, <1>4 DEF Goes

\* Streams that await the acknowledgement may be given it.
LEMMA Acknowledged ==
    ASSUME TypeOK, NEW S, S \subseteq Listener, \A l \in S : at[l] = "awaiting",
           Acknowledge(S)
    PROVE  /\ at' \in [Listener -> Stage]
           /\ \A l \in Listener : at'[l] = IF l \in S THEN "telling" ELSE at[l]
           /\ confirmed' = confirmed \cup S
BY DEF TypeOK, Acknowledge, Stage

\* The acknowledgement that is read with a command.
LEMMA HeadAck ==
    ASSUME TypeOK, AckOK, NEW cmd, Take(cmd)
    PROVE  LET ack == {Head(queue).ack} \ {Nobody}
           IN  /\ ack \subseteq Listener
               /\ \A l \in ack : /\ at[l] = "awaiting" /\ l \notin waiting
                                 /\ cmd = "subscribe" /\ Head(queue).chan = Of[l]
BY Taken DEF AckOK, Command

LEMMA TypeSubscriber == ASSUME TypeOK, AckOK, Subscriber \/ Lose PROVE TypeOK'
<1>1. CASE Connect \/ Notices
  BY <1>1 DEF Connect, Notices, Reconnect, TypeOK, listeners
<1>7. CASE Lose
  <2>1. losses' \in 0..MaxLosses
    BY <1>7, BusAssumption DEF Lose, TypeOK
  <2>2. alive' = FALSE /\ subs' = {} /\ UNCHANGED <<listeners, queue, waiting, conn, todo, confirmed>>
    BY <1>7 DEF Lose
  <2>. QED  BY <2>1, <2>2 DEF TypeOK, listeners
<1>2. CASE \E c \in Channel : Resubscribe(c)
  BY <1>2 DEF Resubscribe, Reconnect, TypeOK, listeners
<1>3. CASE Resubscribed
  <2>1. /\ at' \in [Listener -> Stage]
        /\ \A l \in Listener : at'[l] = IF l \in waiting THEN "telling" ELSE at[l]
        /\ confirmed' = confirmed \cup waiting
    BY <1>3, Acknowledged DEF Resubscribed, TypeOK
  <2>2. waiting' = {} /\ conn' = "up"
    BY <1>3 DEF Resubscribed
  <2>3. UNCHANGED <<rx, listed, queue, todo, alive, subs, losses>>
    BY <1>3 DEF Resubscribed
  <2>4. \A l \in Listener : rx'[l] = "none" <=> at'[l] = "out"
    BY <2>1, <2>3 DEF TypeOK
  <2>5. confirmed' \in SUBSET Listener
    BY <2>1 DEF TypeOK
  <2>. QED  BY <2>1, <2>2, <2>3, <2>4, <2>5 DEF TypeOK
<1>4. CASE HandleSubscribe
  <2>. DEFINE ack == {Head(queue).ack} \ {Nobody}
  <2>1. Take("subscribe")
    BY <1>4 DEF HandleSubscribe
  <2>2. /\ queue' \in Seq(Command) /\ Head(queue).chan \in Channel
        /\ ack \subseteq Listener
        /\ \A l \in ack : at[l] = "awaiting" /\ l \notin waiting
    BY <2>1, Taken, HeadAck DEF Command
  <2>3. CASE alive
    <3>1. /\ at' \in [Listener -> Stage]
          /\ \A l \in Listener : at'[l] = IF l \in ack THEN "telling" ELSE at[l]
          /\ confirmed' = confirmed \cup ack
      <4>1. Acknowledge(ack)
        BY <1>4, <2>3 DEF HandleSubscribe
      <4>. QED  BY <4>1, <2>2, Acknowledged
    <3>2. /\ subs' = subs \cup {Head(queue).chan}
          /\ UNCHANGED <<rx, listed, losses, conn, todo, alive, waiting>>
      BY <1>4, <2>3 DEF HandleSubscribe
    <3>. QED  BY <2>2, <3>1, <3>2 DEF TypeOK
  <2>4. CASE ~alive
    BY <1>4, <2>2, <2>4 DEF HandleSubscribe, Reconnect, TypeOK
  <2>. QED  BY <2>3, <2>4
<1>5. CASE HandleUnsubscribe
  <2>1. Take("unsubscribe")
    BY <1>5 DEF HandleUnsubscribe
  <2>2. queue' \in Seq(Command) /\ Head(queue).chan \in Channel
    BY <2>1, Taken DEF Command
  <2>. QED  BY <1>5, <2>2 DEF HandleUnsubscribe, TypeOK, listeners
<1>6. CASE Unsubscribed
  BY <1>6 DEF Unsubscribed, Reconnect, TypeOK, listeners
<1>. QED  BY <1>1, <1>2, <1>3, <1>4, <1>5, <1>6, <1>7 DEF Subscriber

-----------------------------------------------------------------------------
(* Acknowledgements *)

LEMMA AckComes == ASSUME TypeOK, AckOK, NEW l \in Listener, Comes(l) PROVE AckOK'
<1>1. CASE Subscribe(l) \/ Told(l)
  <2>1. PICK from \in {"out", "telling"}, to \in Stage : Move(l, from, to)
    BY <1>1 DEF Subscribe, Told, Stage
  <2>2. at[l] # "awaiting" /\ \A k \in Listener \ {l} : at'[k] = at[k]
    BY <2>1, Moved
  <2>3. UNCHANGED <<queue, waiting>>
    BY <1>1 DEF Subscribe, Told
  <2>. QED  BY <2>2, <2>3, Queued DEF AckOK, Command
<1>2. CASE SendSubscribe(l)
  <2>1. /\ at[l] = "joined" /\ at'[l] = "awaiting"
        /\ \A k \in Listener \ {l} : at'[k] = at[k]
    BY <1>2, Moved DEF SendSubscribe, Stage
  <2>2. /\ DOMAIN queue' = 1..(Len(queue) + 1)
        /\ \A k \in 1..Len(queue) : queue'[k] = queue[k]
        /\ queue'[Len(queue) + 1] = [cmd |-> "subscribe", chan |-> Of[l], ack |-> l]
        /\ waiting' = waiting
    BY <1>2, Sent DEF SendSubscribe
  <2>3. l \notin waiting
    BY <2>1 DEF TypeOK
  <2>4. \A k \in 1..Len(queue) : queue[k].ack # l
    BY <2>1, Queued, Streams DEF AckOK
  <2>5. \A k \in 1..Len(queue) : queue[k].ack # Nobody => queue[k].ack \in Listener \ {l}
    BY <2>4, Queued DEF Command
  <2>6. \A k \in DOMAIN queue' : k \in 1..Len(queue) \/ k = Len(queue) + 1
    BY <2>2, Queued
  <2>7. ASSUME NEW k \in DOMAIN queue', queue'[k].ack # Nobody
        PROVE  /\ queue'[k].cmd = "subscribe" /\ queue'[k].chan = Of[queue'[k].ack]
               /\ at'[queue'[k].ack] = "awaiting" /\ queue'[k].ack \notin waiting'
    <3>1. CASE k \in 1..Len(queue)
      BY <2>1, <2>2, <2>5, <2>7, <3>1, Queued DEF AckOK
    <3>2. CASE k = Len(queue) + 1
      BY <2>1, <2>2, <2>3, <3>2
    <3>. QED  BY <2>6, <3>1, <3>2
  <2>8. ASSUME NEW j \in DOMAIN queue', NEW k \in DOMAIN queue',
               queue'[j].ack = queue'[k].ack, queue'[j].ack # Nobody
        PROVE  j = k
    <3>1. CASE j \in 1..Len(queue) /\ k \in 1..Len(queue)
      BY <2>2, <2>8, <3>1, Queued DEF AckOK
    <3>2. CASE j = Len(queue) + 1 \/ k = Len(queue) + 1
      BY <2>2, <2>4, <2>6, <2>8, <3>2
    <3>. QED  BY <2>6, <3>1, <3>2
  <2>. QED  BY <2>7, <2>8 DEF AckOK
<1>3. CASE TimedOut(l)
  <2>1. \A k \in Listener \ {l} : at'[k] = at[k]
    BY <1>3, Moved DEF TimedOut, Stage
  <2>2. Deafen(l)
    BY <1>3 DEF TimedOut
  <2>. QED  BY <2>1, <2>2, Deafened, Queued DEF AckOK, Command
<1>. QED  BY <1>1, <1>2, <1>3 DEF Comes

LEMMA AckGoes == ASSUME TypeOK, AckOK, NEW l \in Listener, Goes(l) PROVE AckOK'
<1>1. CASE Cancelled(l)
  <2>1. \A k \in Listener \ {l} : at'[k] = at[k]
    BY <1>1 DEF Cancelled, TypeOK
  <2>2. Deafen(l)
    BY <1>1 DEF Cancelled
  <2>. QED  BY <2>1, <2>2, Deafened, Queued DEF AckOK, Command
<1>2. CASE Drop(l) \/ DropReceiver(l)
  <2>1. PICK from \in {"listening", "leaving"}, to \in Stage : Move(l, from, to)
    BY <1>2 DEF Drop, DropReceiver, Stage
  <2>2. at[l] # "awaiting" /\ \A k \in Listener \ {l} : at'[k] = at[k]
    BY <2>1, Moved
  <2>3. UNCHANGED <<queue, waiting>>
    BY <1>2 DEF Drop, DropReceiver
  <2>. QED  BY <2>2, <2>3, Queued DEF AckOK, Command
<1>3. CASE SendUnsubscribe(l)
  <2>1. /\ at[l] = "removed" /\ \A k \in Listener \ {l} : at'[k] = at[k]
    BY <1>3, Moved DEF SendUnsubscribe, Stage
  <2>4. Send("unsubscribe", l, Nobody) /\ waiting' = waiting
    BY <1>3 DEF SendUnsubscribe
  <2>2. /\ DOMAIN queue' = 1..(Len(queue) + 1)
        /\ \A k \in 1..Len(queue) : queue'[k] = queue[k]
        /\ queue'[Len(queue) + 1] = [cmd |-> "unsubscribe", chan |-> Of[l], ack |-> Nobody]
    BY <2>4, Sent
  <2>3. \A k \in DOMAIN queue' : queue'[k].ack # Nobody => k \in DOMAIN queue /\ queue'[k] = queue[k]
    BY <2>2, Queued
  <2>. QED  BY <2>1, <2>3, <2>4, Queued DEF AckOK, Command
<1>. QED  BY <1>1, <1>2, <1>3 DEF Goes

LEMMA AckSubscriber == ASSUME TypeOK, AckOK, Subscriber \/ Lose PROVE AckOK'
<1>1. CASE UNCHANGED <<at, queue, waiting>>
  BY <1>1 DEF AckOK
<1>2. CASE Resubscribed
  <2>1. /\ \A k \in Listener : at'[k] = IF k \in waiting THEN "telling" ELSE at[k]
        /\ queue' = queue /\ waiting' = {}
    BY <1>2, Acknowledged DEF Resubscribed, TypeOK
  <2>. QED  BY <2>1, Queued DEF AckOK, Command
<1>3. CASE HandleSubscribe
  <2>. DEFINE ack == {Head(queue).ack} \ {Nobody}
  <2>1. Take("subscribe")
    BY <1>3 DEF HandleSubscribe
  <2>2. /\ 1 \in DOMAIN queue /\ Head(queue) = queue[1]
        /\ \A k \in DOMAIN queue' : k + 1 \in DOMAIN queue /\ queue'[k] = queue[k + 1] /\ k + 1 # 1
    BY <2>1, Taken, Queued
  <2>3. \A k \in DOMAIN queue' : queue'[k].ack # Nobody =>
           queue'[k].ack \in Listener /\ queue'[k].ack \notin ack
    BY <2>2, Queued DEF AckOK, Command
  <2>4. \A k \in Listener \ ack : at'[k] = at[k] /\ (k \in waiting' <=> k \in waiting)
    <3>1. CASE alive
      <4>1. Acknowledge(ack) /\ waiting' = waiting
        BY <1>3, <3>1 DEF HandleSubscribe
      <4>. QED  BY <4>1 DEF Acknowledge
    <3>2. CASE ~alive
      BY <1>3, <3>2 DEF HandleSubscribe
    <3>. QED  BY <3>1, <3>2
  <2>5. ASSUME NEW k \in DOMAIN queue', queue'[k].ack # Nobody
        PROVE  /\ queue'[k].cmd = "subscribe" /\ queue'[k].chan = Of[queue'[k].ack]
               /\ at'[queue'[k].ack] = "awaiting" /\ queue'[k].ack \notin waiting'
    BY <2>2, <2>3, <2>4, <2>5 DEF AckOK
  <2>6. ASSUME NEW j \in DOMAIN queue', NEW k \in DOMAIN queue',
               queue'[j].ack = queue'[k].ack, queue'[j].ack # Nobody
        PROVE  j = k
    <3>1. j + 1 = k + 1
      BY <2>2, <2>6 DEF AckOK
    <3>2. j \in Int /\ k \in Int
      BY <2>1, Taken
    <3>. QED  BY <3>1, <3>2
  <2>. QED  BY <2>5, <2>6 DEF AckOK
<1>4. CASE HandleUnsubscribe
  <2>1. Take("unsubscribe") /\ UNCHANGED <<at, waiting>>
    BY <1>4 DEF HandleUnsubscribe, listeners
  <2>2. \A k \in DOMAIN queue' : k \in Int /\ k + 1 \in DOMAIN queue /\ queue'[k] = queue[k + 1]
    BY <2>1, Taken, Queued
  <2>3. \A j, k \in DOMAIN queue' : j + 1 = k + 1 => j = k
    BY <2>2
  <2>. QED  BY <2>1, <2>2, <2>3 DEF AckOK
<1>. QED  BY <1>1, <1>2, <1>3, <1>4 DEF Subscriber, Connect, Notices, HandleSubscribe,
            HandleUnsubscribe, Unsubscribed, Resubscribe, Lose, listeners

LEMMA TypeNext == TypeOK /\ AckOK /\ [Next]_vars => (TypeOK /\ AckOK)'
<1>. SUFFICES ASSUME TypeOK, AckOK, [Next]_vars PROVE TypeOK' /\ AckOK'
  OBVIOUS
<1>1. ASSUME NEW l \in Listener, Comes(l) PROVE TypeOK' /\ AckOK'
  BY <1>1, TypeComes, AckComes
<1>2. ASSUME NEW l \in Listener, Goes(l) PROVE TypeOK' /\ AckOK'
  BY <1>2, TypeGoes, AckGoes
<1>3. CASE Subscriber \/ Lose
  BY <1>3, TypeSubscriber, AckSubscriber
<1>4. CASE UNCHANGED vars
  BY <1>4 DEF vars, listeners, link, TypeOK, AckOK
<1>. QED  BY <1>1, <1>2, <1>3, <1>4 DEF Next

\* Every reachable state is well formed: a stream has a receiver exactly while
\* it is in subscribe, listening, or being dropped, and acknowledgements owed
\* by the next connection are awaited (subscribe, run_subscriber's `waiting`).
THEOREM TypeCorrect == Spec => []TypeOK
<1>1. Spec => [](TypeOK /\ AckOK)
  BY TypeInit, TypeNext, PTL DEF Spec
<1>. QED  BY <1>1, PTL

-----------------------------------------------------------------------------
(* No stream is detached from its channel. *)

LEMMA OnlyReceiver ==
    ASSUME NEW l \in Listener, NEW k \in Listener, LastHere(l),
           k \in Receivers(Of[l]), l \in Receivers(Of[l])
    PROVE  k = l
<1>1. IsFiniteSet(Receivers(Of[l]))
  BY Streams, FS_Subset DEF Receivers
<1>2. Cardinality(Receivers(Of[l])) \in {0, 1}
  BY <1>1, FS_CardinalityType DEF LastHere
<1>3. CASE Cardinality(Receivers(Of[l])) = 0
  BY <1>1, <1>3, FS_EmptySet
<1>4. CASE Cardinality(Receivers(Of[l])) = 1
  BY <1>1, <1>4, FS_Singleton
<1>. QED  BY <1>2, <1>3, <1>4

Subscribing == {"joined", "awaiting", "telling", "listening"}

LEMMA AttachedStep ==
    ASSUME Attached, rx' = rx, listed' = listed,
           \A l \in Listener : at'[l] \in Subscribing => at[l] \in Subscribing
    PROVE  Attached'
BY DEF Attached, Subscribing

LEMMA AttachedNext == TypeOK /\ AckOK /\ Attached /\ [Next]_vars => Attached'
<1>. SUFFICES ASSUME TypeOK, AckOK, Attached, [Next]_vars PROVE Attached'
  OBVIOUS
<1>1. ASSUME NEW l \in Listener, Comes(l) PROVE Attached'
  <2>1. CASE Subscribe(l)
    <3>1. PICK to \in Stage : Move(l, "out", to)
      BY <2>1 DEF Subscribe, Stage
    <3>2. \A k \in Listener \ {l} : at'[k] = at[k] /\ rx'[k] = rx[k]
      BY <2>1, <3>1, Moved DEF Subscribe, TypeOK
    <3>3. rx'[l] = "current" /\ listed' = listed \cup {Of[l]}
      BY <2>1 DEF Subscribe, TypeOK
    <3>. QED  BY <3>2, <3>3 DEF Attached
  <2>2. CASE SendSubscribe(l) \/ TimedOut(l) \/ Told(l)
    <3>1. PICK from \in Subscribing, to \in Stage : Move(l, from, to)
      BY <2>2 DEF SendSubscribe, TimedOut, Told, Stage, Subscribing
    <3>2. at[l] \in Subscribing /\ \A k \in Listener \ {l} : at'[k] = at[k]
      BY <3>1, Moved
    <3>3. rx' = rx /\ listed' = listed
      BY <2>2 DEF SendSubscribe, TimedOut, Told
    <3>. QED  BY <3>2, <3>3, AttachedStep
  <2>. QED  BY <1>1, <2>1, <2>2 DEF Comes
<1>2. ASSUME NEW l \in Listener, Goes(l) PROVE Attached'
  <2>1. CASE Cancelled(l)
    BY <2>1 DEF Cancelled, TypeOK, Attached
  <2>2. CASE Drop(l)
    <3>1. PICK to \in {"removed", "leaving"} : Move(l, "listening", to)
      BY <2>2 DEF Drop
    <3>2. /\ at[l] = "listening" /\ at'[l] \notin Subscribing
          /\ \A k \in Listener \ {l} : at'[k] = at[k]
      BY <3>1, Moved DEF Stage, Subscribing
    <3>3. CASE LastHere(l)
      <4>1. l \in Receivers(Of[l])
        BY <3>2 DEF Attached, Receivers
      <4>2. ASSUME NEW k \in Listener \ {l}, at[k] \in Subscribing
            PROVE  rx'[k] = "current" /\ Of[k] \in listed'
        <5>1. rx[k] = "current" /\ Of[k] \in listed
          BY <4>2 DEF Attached, Subscribing
        <5>2. k \notin Receivers(Of[l])
          BY <3>3, <4>1, OnlyReceiver
        <5>3. Of[k] # Of[l]
          BY <5>1, <5>2 DEF Receivers
        <5>. QED  BY <2>2, <3>3, <5>1, <5>2, <5>3 DEF Drop
      <4>. QED  BY <3>2, <4>2 DEF Attached, Subscribing
    <3>4. CASE ~LastHere(l)
      <4>1. rx' = rx /\ listed' = listed
        BY <2>2, <3>4 DEF Drop
      <4>. QED  BY <3>2, <4>1, AttachedStep
    <3>. QED  BY <3>3, <3>4
  <2>3. CASE SendUnsubscribe(l)
    <3>1. /\ at'[l] \notin Subscribing
          /\ \A k \in Listener \ {l} : at'[k] = at[k]
      BY <2>3, Moved DEF SendUnsubscribe, Stage, Subscribing
    <3>2. rx' = rx /\ listed' = listed
      BY <2>3 DEF SendUnsubscribe
    <3>. QED  BY <3>1, <3>2, AttachedStep
  <2>4. CASE DropReceiver(l)
    <3>1. at'[l] = "out" /\ \A k \in Listener \ {l} : at'[k] = at[k]
      BY <2>4, Moved DEF DropReceiver, Stage
    <3>. QED  BY <2>4, <3>1 DEF DropReceiver, TypeOK, Attached
  <2>. QED  BY <1>2, <2>1, <2>2, <2>3, <2>4 DEF Goes
<1>3. CASE Subscriber \/ Lose
  <2>1. rx' = rx /\ listed' = listed
    BY <1>3 DEF Subscriber, Lose, Connect, Resubscribe, Resubscribed, HandleSubscribe,
                HandleUnsubscribe, Unsubscribed, Notices, listeners
  <2>2. CASE at' = at
    BY <2>1, <2>2 DEF Attached
  <2>3. CASE Resubscribed
    <3>1. \A l \in Listener : at'[l] = IF l \in waiting THEN "telling" ELSE at[l]
      BY <2>3, Acknowledged DEF Resubscribed, TypeOK
    <3>. QED  BY <2>1, <3>1, AttachedStep DEF TypeOK, Subscribing
  <2>4. CASE HandleSubscribe /\ alive
    <3>. DEFINE ack == {Head(queue).ack} \ {Nobody}
    <3>1. Take("subscribe") /\ Acknowledge(ack)
      BY <2>4 DEF HandleSubscribe
    <3>2. \A l \in Listener : at'[l] = IF l \in ack THEN "telling" ELSE at[l]
      BY <3>1 DEF Acknowledge
    <3>3. \A l \in ack : at[l] = "awaiting"
      BY <3>1, HeadAck
    <3>. QED  BY <2>1, <3>2, <3>3, AttachedStep DEF Subscribing
  <2>. QED  BY <1>3, <2>2, <2>3, <2>4 DEF Subscriber, Lose, Connect, Resubscribe,
              HandleSubscribe, HandleUnsubscribe, Unsubscribed, Notices, listeners
<1>4. CASE UNCHANGED vars
  BY <1>4 DEF vars, listeners, Attached
<1>. QED  BY <1>1, <1>2, <1>3, <1>4 DEF Next

LEMMA AttachedInit == Init => Attached
BY DEF Init, Attached

\* Whatever streams end at once, and whoever of them unlists the channel, no
\* stream that is still subscribing or listening loses its sender (drop's
\* receiver_count under the lock on `channels`).
THEOREM AttachedCorrect == Spec => []Attached
<1>1. Spec => [](TypeOK /\ AckOK /\ Attached)
  BY TypeInit, TypeNext, AttachedInit, AttachedNext, PTL DEF Spec
<1>. QED  BY <1>1, PTL

-----------------------------------------------------------------------------
(* Nothing unlisted stays subscribed to. *)

\* The commands queued stay queued, in their places.
QueueKept == \A k \in DOMAIN queue : /\ k \in DOMAIN queue'
                                     /\ queue'[k].cmd = queue[k].cmd
                                     /\ queue'[k].chan = queue[k].chan

LEMMA KeptBySending ==
    ASSUME TypeOK, NEW l \in Listener, NEW cmd \in {"subscribe", "unsubscribe"},
           NEW ack \in {l, Nobody}, Send(cmd, l, ack)
    PROVE  QueueKept
<1>1. DOMAIN queue' = 1..(Len(queue) + 1) /\ \A k \in 1..Len(queue) : queue'[k] = queue[k]
  BY Sent
<1>. QED  BY <1>1, Queued DEF QueueKept

LEMMA KeptByDeafening == ASSUME TypeOK, NEW l \in Listener, Deafen(l) PROVE QueueKept
BY Deafened DEF QueueKept

LEMMA StillWithdrawn ==
    ASSUME QueueKept, \A l \in Listener : at[l] = "removed" => at'[l] = "removed",
           NEW c, NEW k, Withdrawn(c, k)
    PROVE  Withdrawn(c, k)'
BY DEF QueueKept, Withdrawn

\* A command at the head that withdraws nothing is taken.
LEMMA WithdrawnBehind ==
    ASSUME TypeOK, NEW cmd, Take(cmd), \A l \in Listener : at[l] = "removed" => at'[l] = "removed",
           NEW c, NEW k \in Nat, Withdrawn(c, k),
           k > 0 \/ Head(queue).cmd # "unsubscribe" \/ Head(queue).chan # c,
           NEW m \in Nat, m + 1 = k \/ (m = 0 /\ k = 0)
    PROVE  Withdrawn(c, m)'
<1>1. CASE \E l \in Listener : at[l] = "removed" /\ Of[l] = c
  BY <1>1 DEF Withdrawn
<1>2. CASE \E j \in DOMAIN queue : j > k /\ queue[j].cmd = "unsubscribe" /\ queue[j].chan = c
  <2>1. PICK j \in DOMAIN queue : j > k /\ queue[j].cmd = "unsubscribe" /\ queue[j].chan = c
    BY <1>2
  <2>2. j \in Nat /\ j # 1 /\ j >= 1 /\ j <= Len(queue) /\ Len(queue) \in Nat
    BY <2>1, Taken, Queued
  <2>3. j - 1 \in DOMAIN queue' /\ queue'[j - 1] = queue[j] /\ j - 1 > m
    BY <2>1, <2>2, Taken
  <2>. QED  BY <2>1, <2>3 DEF Withdrawn
<1>. QED  BY <1>1, <1>2 DEF Withdrawn

\* Steps that unlist nothing and queue nothing.
LEMMA LeftStep ==
    ASSUME LeftInv, QueueKept, DOMAIN queue' = DOMAIN queue, listed \subseteq listed',
           \A l \in Listener : at[l] = "removed" => at'[l] = "removed",
           \A c \in Reached' \ listed' : /\ c \in Reached
                                         /\ conn = "unsubscribing" /\ c \in todo =>
                                               conn' = "unsubscribing" /\ c \in todo'
    PROVE  LeftInv'
<1>1. \A c \in Reached' \ listed' :
         Withdrawn(c, 0)' \/ (conn' = "unsubscribing" /\ c \in todo')
  BY StillWithdrawn DEF LeftInv
<1>2. ASSUME NEW k \in DOMAIN queue', queue'[k].cmd = "subscribe", queue'[k].chan \notin listed'
      PROVE  Withdrawn(queue[k].chan, k)'
  BY <1>2, StillWithdrawn DEF LeftInv, QueueKept
<1>3. \A k \in DOMAIN queue' : queue'[k].cmd = "subscribe" /\ queue'[k].chan \notin listed' =>
         \/ \E j \in DOMAIN queue' : /\ j > k /\ queue'[j].cmd = "unsubscribe"
                                     /\ queue'[j].chan = queue'[k].chan
         \/ \E l \in Listener : at'[l] = "removed" /\ Of[l] = queue'[k].chan
  BY <1>2 DEF Withdrawn
<1>. QED  BY <1>1, <1>3 DEF LeftInv, Withdrawn

LEMMA LeftComes ==
    ASSUME TypeOK, Attached, LeftInv, NEW l \in Listener, Comes(l)
    PROVE  LeftInv'
<1>1. CASE Subscribe(l) \/ TimedOut(l) \/ Told(l)
  <2>1. PICK from \in {"out", "awaiting", "telling"}, to \in Stage : Move(l, from, to)
    BY <1>1 DEF Subscribe, TimedOut, Told, Stage
  <2>2. at[l] # "removed" /\ \A k \in Listener \ {l} : at'[k] = at[k]
    BY <2>1, Moved
  <2>3. QueueKept /\ DOMAIN queue' = DOMAIN queue
    <3>1. CASE TimedOut(l)
      BY <3>1, KeptByDeafening, Deafened DEF TimedOut
    <3>2. CASE queue' = queue
      BY <3>2 DEF QueueKept
    <3>. QED  BY <1>1, <3>1, <3>2 DEF Subscribe, Told
  <2>4. Reached' = Reached /\ conn' = conn /\ todo' = todo /\ listed \subseteq listed'
    BY <1>1 DEF Subscribe, TimedOut, Told, Reached, link
  <2>. QED  BY <2>2, <2>3, <2>4, LeftStep
<1>2. CASE SendSubscribe(l)
  <2>1. at[l] = "joined" /\ \A k \in Listener \ {l} : at'[k] = at[k]
    BY <1>2, Moved DEF SendSubscribe, Stage
  <2>2. Send("subscribe", l, l)
    BY <1>2 DEF SendSubscribe
  <2>3. /\ DOMAIN queue' = 1..(Len(queue) + 1)
        /\ queue'[Len(queue) + 1] = [cmd |-> "subscribe", chan |-> Of[l], ack |-> l]
    BY <2>2, Sent
  <2>9. QueueKept
    BY <2>2, KeptBySending
  <2>4. Of[l] \in listed /\ listed' = listed
    BY <1>2, <2>1 DEF SendSubscribe, Attached
  <2>5. /\ Reached' = Reached /\ todo' = todo
        /\ conn = "unsubscribing" => conn' = "unsubscribing"
    BY <1>2 DEF SendSubscribe, Reached
  <2>6. \A k \in Listener : at[k] = "removed" => at'[k] = "removed"
    BY <2>1
  <2>7. \A c \in Reached' \ listed' :
           Withdrawn(c, 0)' \/ (conn' = "unsubscribing" /\ c \in todo')
    BY <2>4, <2>5, <2>6, <2>9, StillWithdrawn DEF LeftInv
  <2>8. ASSUME NEW k \in DOMAIN queue', queue'[k].cmd = "subscribe", queue'[k].chan \notin listed'
        PROVE  Withdrawn(queue[k].chan, k)'
    <3>1. k \in DOMAIN queue
      BY <2>3, <2>4, <2>8, Queued
    <3>. QED  BY <2>4, <2>6, <2>8, <2>9, <3>1, StillWithdrawn DEF LeftInv, QueueKept
  <2>. QED  BY <2>7, <2>8 DEF LeftInv, Withdrawn
<1>. QED  BY <1>1, <1>2 DEF Comes

LEMMA LeftGoes == ASSUME TypeOK, LeftInv, NEW l \in Listener, Goes(l) PROVE LeftInv'
<1>0. UNCHANGED <<conn, todo, Reached>>
  BY DEF Goes, Cancelled, Drop, SendUnsubscribe, DropReceiver, link, Reached
<1>1. CASE Cancelled(l) \/ DropReceiver(l) \/ (Drop(l) /\ ~LastHere(l))
  <2>1. at[l] # "removed" /\ \A k \in Listener \ {l} : at'[k] = at[k]
    BY <1>1 DEF Cancelled, DropReceiver, Drop, Move, TypeOK
  <2>2. QueueKept /\ DOMAIN queue' = DOMAIN queue
    <3>1. CASE Cancelled(l)
      BY <3>1, KeptByDeafening, Deafened DEF Cancelled
    <3>2. CASE queue' = queue
      BY <3>2 DEF QueueKept
    <3>. QED  BY <1>1, <3>1, <3>2 DEF DropReceiver, Drop
  <2>3. listed' = listed
    BY <1>1 DEF Cancelled, DropReceiver, Drop
  <2>. QED  BY <1>0, <2>1, <2>2, <2>3, LeftStep
<1>2. CASE Drop(l) /\ LastHere(l)
  <2>1. /\ at[l] = "listening" /\ at'[l] = "removed"
        /\ \A k \in Listener \ {l} : at'[k] = at[k]
    BY <1>2, Moved DEF Drop, Stage
  <2>2. QueueKept /\ queue' = queue /\ listed' = listed \ {Of[l]}
    BY <1>2 DEF Drop, QueueKept
  <2>3. \A k \in Listener : at[k] = "removed" => at'[k] = "removed"
    BY <2>1
  <2>4. \A k : Withdrawn(Of[l], k)'
    BY <2>1 DEF Withdrawn
  <2>5. \A c \in Reached' \ listed' :
           Withdrawn(c, 0)' \/ (conn' = "unsubscribing" /\ c \in todo')
    BY <1>0, <2>2, <2>3, <2>4, StillWithdrawn DEF LeftInv
  <2>6. ASSUME NEW k \in DOMAIN queue', queue'[k].cmd = "subscribe", queue'[k].chan \notin listed'
        PROVE  Withdrawn(queue[k].chan, k)'
    BY <2>2, <2>3, <2>4, <2>6, StillWithdrawn DEF LeftInv
  <2>. QED  BY <2>2, <2>5, <2>6 DEF LeftInv, Withdrawn
<1>3. CASE SendUnsubscribe(l)
  <2>1. /\ at[l] = "removed" /\ \A k \in Listener \ {l} : at'[k] = at[k]
    BY <1>3, Moved DEF SendUnsubscribe, Stage
  <2>2. Send("unsubscribe", l, Nobody) /\ listed' = listed
    BY <1>3 DEF SendUnsubscribe
  <2>7. /\ DOMAIN queue' = 1..(Len(queue) + 1)
        /\ queue'[Len(queue) + 1] = [cmd |-> "unsubscribe", chan |-> Of[l], ack |-> Nobody]
    BY <2>2, Sent
  <2>8. QueueKept
    BY <2>2, KeptBySending
  <2>3. /\ DOMAIN queue' = 1..(Len(queue) + 1) /\ Len(queue) \in Nat
        /\ queue'[Len(queue) + 1].cmd = "unsubscribe" /\ queue'[Len(queue) + 1].chan = Of[l]
        /\ QueueKept /\ DOMAIN queue = 1..Len(queue)
    BY <2>7, <2>8, Queued
  <2>4. ASSUME NEW c, NEW k \in 0..Len(queue), Withdrawn(c, k)
        PROVE  Withdrawn(c, k)'
    <3>1. CASE \E j \in DOMAIN queue : j > k /\ queue[j].cmd = "unsubscribe" /\ queue[j].chan = c
      BY <2>3, <3>1 DEF Withdrawn, QueueKept
    <3>2. CASE \E m \in Listener \ {l} : at[m] = "removed" /\ Of[m] = c
      BY <2>1, <3>2 DEF Withdrawn
    <3>3. CASE Of[l] = c
      <4>1. Len(queue) + 1 \in DOMAIN queue' /\ Len(queue) + 1 > k
        BY <2>3
      <4>. QED  BY <2>3, <3>3, <4>1 DEF Withdrawn
    <3>. QED  BY <2>4, <3>1, <3>2, <3>3 DEF Withdrawn
  <2>5. \A c \in Reached' \ listed' :
           Withdrawn(c, 0)' \/ (conn' = "unsubscribing" /\ c \in todo')
    BY <1>0, <2>2, <2>3, <2>4 DEF LeftInv
  <2>6. ASSUME NEW k \in DOMAIN queue', queue'[k].cmd = "subscribe", queue'[k].chan \notin listed'
        PROVE  Withdrawn(queue[k].chan, k)'
    <3>1. k \in DOMAIN queue /\ k \in 0..Len(queue)
      BY <2>3, <2>6
    <3>2. Withdrawn(queue[k].chan, k)
      BY <2>2, <2>3, <2>6, <3>1 DEF LeftInv, QueueKept
    <3>. QED  BY <2>3, <2>4, <3>1, <3>2 DEF QueueKept
  <2>. QED  BY <2>5, <2>6 DEF LeftInv, Withdrawn
<1>. QED  BY <1>1, <1>2, <1>3 DEF Goes

\* The stages of an acknowledged stream and of one being removed differ.
LEMMA RemovedKept ==
    ASSUME TypeOK, AckOK, Subscriber \/ Lose
    PROVE  /\ \A l \in Listener : at[l] = "removed" => at'[l] = "removed"
           /\ \A l \in Listener : at[l] = "joined" => at'[l] = "joined"
           /\ \A l \in Listener : Here(l) => Here(l)'
           /\ listed' = listed
<1>1. CASE UNCHANGED <<at, listed>>
  BY <1>1 DEF Here
<1>2. CASE Resubscribed
  <2>1. \A l \in Listener : at'[l] = IF l \in waiting THEN "telling" ELSE at[l]
    BY <1>2, Acknowledged DEF Resubscribed, TypeOK
  <2>. QED  BY <1>2, <2>1 DEF Resubscribed, TypeOK, Here
<1>3. CASE HandleSubscribe
  <2>. DEFINE ack == {Head(queue).ack} \ {Nobody}
  <2>1. CASE alive
    <3>1. Take("subscribe") /\ Acknowledge(ack) /\ listed' = listed
      BY <1>3, <2>1 DEF HandleSubscribe
    <3>2. \A l \in Listener : at'[l] = IF l \in ack THEN "telling" ELSE at[l]
      BY <3>1 DEF Acknowledge
    <3>3. \A l \in ack : at[l] = "awaiting"
      BY <3>1, HeadAck
    <3>. QED  BY <3>1, <3>2, <3>3 DEF Here
  <2>2. CASE ~alive
    BY <1>1, <1>3, <2>2 DEF HandleSubscribe
  <2>. QED  BY <2>1, <2>2
<1>. QED  BY <1>1, <1>2, <1>3 DEF Subscriber, Lose, Connect, Resubscribe, HandleUnsubscribe,
            Unsubscribed, Notices, listeners

\* Taking the command at the head leaves the Subscribes behind it withdrawn.
LEMMA LeftBehind ==
    ASSUME TypeOK, LeftInv, NEW cmd, Take(cmd), listed' = listed,
           \A l \in Listener : at[l] = "removed" => at'[l] = "removed",
           NEW k \in DOMAIN queue', queue'[k].cmd = "subscribe", queue'[k].chan \notin listed'
    PROVE  Withdrawn(queue[k].chan, k)'
<1>1. k \in Nat /\ k + 1 \in Nat /\ k + 1 \in DOMAIN queue /\ queue'[k] = queue[k + 1]
  BY Taken, Queued
<1>2. PICK c : c = queue[k + 1].chan
  OBVIOUS
<1>3. Withdrawn(c, k + 1)
  BY <1>1, <1>2 DEF LeftInv
<1>4. Withdrawn(c, k)'
  BY <1>1, <1>3, WithdrawnBehind
<1>5. queue'[k].chan = c
  BY <1>1, <1>2
<1>. QED  BY <1>4, <1>5 DEF Withdrawn

LEMMA LeftSubscriber == ASSUME TypeOK, AckOK, LeftInv, Subscriber \/ Lose PROVE LeftInv'
<1>0. /\ \A l \in Listener : at[l] = "removed" => at'[l] = "removed"
      /\ listed' = listed
  BY RemovedKept
<1>1. CASE Connect \/ Notices \/ Lose \/ Unsubscribed \/ Resubscribed
           \/ \E c \in Channel : Resubscribe(c)
  <2>1. queue' = queue /\ QueueKept
    BY <1>1 DEF Connect, Notices, Lose, Unsubscribed, Resubscribed, Resubscribe, QueueKept
  <2>2. \A c \in Reached' \ listed' :
           /\ c \in Reached
           /\ conn = "unsubscribing" /\ c \in todo => conn' = "unsubscribing" /\ c \in todo'
    <3>1. CASE Connect \/ Notices \/ Lose \/ Unsubscribed
      BY <1>0, <3>1 DEF Connect, Notices, Lose, Unsubscribed, Reconnect, Reached
    <3>2. CASE Resubscribed
      BY <3>2 DEF Resubscribed, Reached
    <3>3. CASE \E c \in Channel : Resubscribe(c)
      BY <3>3 DEF Resubscribe, Reconnect, Reached
    <3>. QED  BY <1>1, <3>1, <3>2, <3>3
  <2>. QED  BY <1>0, <2>1, <2>2, LeftStep
<1>2. CASE HandleSubscribe
  <2>1. Take("subscribe") /\ conn = "up"
    BY <1>2 DEF HandleSubscribe, Take
  <2>2. /\ 1 \in DOMAIN queue /\ Head(queue) = queue[1] /\ queue[1].cmd = "subscribe"
    BY <2>1, Taken
  <2>3. Reached' \subseteq subs \cup {queue[1].chan}
    BY <1>2, <2>1, <2>2 DEF HandleSubscribe, Reconnect, Reached
  <2>4. ASSUME NEW c \in Reached' \ listed'
        PROVE  Withdrawn(c, 0)'
    <3>1. CASE c = queue[1].chan
      <4>1. Withdrawn(c, 1)
        BY <1>0, <2>2, <2>4, <3>1 DEF LeftInv
      <4>. QED  BY <1>0, <2>1, <4>1, WithdrawnBehind
    <3>2. CASE c \in subs
      <4>1. Withdrawn(c, 0)
        BY <1>0, <2>1, <2>4, <3>2 DEF LeftInv, Reached
      <4>. QED  BY <1>0, <2>1, <2>2, <4>1, WithdrawnBehind
    <3>. QED  BY <2>3, <2>4, <3>1, <3>2
  <2>5. ASSUME NEW k \in DOMAIN queue', queue'[k].cmd = "subscribe", queue'[k].chan \notin listed'
        PROVE  Withdrawn(queue[k].chan, k)'
    BY <1>0, <2>1, <2>5, LeftBehind
  <2>. QED  BY <2>4, <2>5 DEF LeftInv, Withdrawn
<1>3. CASE HandleUnsubscribe
  <2>1. Take("unsubscribe") /\ conn = "up" /\ subs' = subs
    BY <1>3 DEF HandleUnsubscribe, Take
  <2>2. Reached' = subs
    BY <1>3, <2>1 DEF HandleUnsubscribe, Reached
  <2>3. ASSUME NEW c \in Reached' \ listed'
        PROVE  Withdrawn(c, 0)' \/ (conn' = "unsubscribing" /\ c \in todo')
    <3>1. Withdrawn(c, 0)
      BY <1>0, <2>1, <2>2, <2>3 DEF LeftInv, Reached
    <3>2. CASE c = Head(queue).chan
      BY <1>0, <1>3, <2>3, <3>2 DEF HandleUnsubscribe
    <3>3. CASE c # Head(queue).chan
      BY <1>0, <2>1, <3>1, <3>3, WithdrawnBehind
    <3>. QED  BY <3>2, <3>3
  <2>4. ASSUME NEW k \in DOMAIN queue', queue'[k].cmd = "subscribe", queue'[k].chan \notin listed'
        PROVE  Withdrawn(queue[k].chan, k)'
    BY <1>0, <2>1, <2>4, LeftBehind
  <2>. QED  BY <2>3, <2>4 DEF LeftInv, Withdrawn
<1>. QED  BY <1>1, <1>2, <1>3 DEF Subscriber

LEMMA LeftInit == Init => LeftInv
<1>1. Init => DOMAIN queue = {} /\ Reached = {}
  BY DEF Init, Reached
<1>. QED  BY <1>1 DEF LeftInv

LEMMA LeftNext == TypeOK /\ AckOK /\ Attached /\ LeftInv /\ [Next]_vars => LeftInv'
<1>. SUFFICES ASSUME TypeOK, AckOK, Attached, LeftInv, [Next]_vars PROVE LeftInv'
  OBVIOUS
<1>1. CASE UNCHANGED vars
  BY <1>1 DEF vars, listeners, link, LeftInv, Withdrawn, Reached
<1>. QED  BY <1>1, LeftComes, LeftGoes, LeftSubscriber DEF Next

\* Whatever unsubscriptions cross, and whichever connection they reach, Redis
\* is told of every channel that is unlisted (drop's Unsubscribe, run_subscriber).
THEOREM NothingLeftCorrect == Spec => []NothingLeftSubscribed
<1>1. TypeOK /\ LeftInv => NothingLeftSubscribed
  BY DEF LeftInv, Withdrawn, NothingLeftSubscribed, Reached
<1>2. Spec => [](TypeOK /\ AckOK /\ Attached /\ LeftInv)
  BY TypeInit, TypeNext, AttachedInit, AttachedNext, LeftInit, LeftNext, PTL DEF Spec
<1>. QED  BY <1>1, <1>2, PTL

-----------------------------------------------------------------------------
(* No stream is deaf on a working connection. *)

LEMMA StillComing ==
    ASSUME QueueKept, \A l \in Listener : at[l] = "joined" => at'[l] = "joined",
           NEW c, Coming(c)
    PROVE  Coming(c)'
BY DEF QueueKept, Coming

\* A command at the head that is not c's Subscribe is taken.
LEMMA ComingBehind ==
    ASSUME TypeOK, NEW cmd, Take(cmd), \A l \in Listener : at[l] = "joined" => at'[l] = "joined",
           NEW c, Coming(c), Head(queue).cmd # "subscribe" \/ Head(queue).chan # c
    PROVE  Coming(c)'
<1>1. CASE \E l \in Listener : at[l] = "joined" /\ Of[l] = c
  BY <1>1 DEF Coming
<1>2. CASE \E j \in DOMAIN queue : queue[j].cmd = "subscribe" /\ queue[j].chan = c
  <2>1. PICK j \in DOMAIN queue : queue[j].cmd = "subscribe" /\ queue[j].chan = c
    BY <1>2
  <2>2. j \in Nat /\ j # 1 /\ j >= 1 /\ j <= Len(queue) /\ Len(queue) \in Nat
    BY <2>1, Taken, Queued
  <2>3. j - 1 \in DOMAIN queue' /\ queue'[j - 1] = queue[j]
    BY <2>2, Taken
  <2>. QED  BY <2>1, <2>3 DEF Coming
<1>. QED  BY <1>1, <1>2 DEF Coming

\* Steps that leave the connection alone and list nothing.
LEMMA HeardStep ==
    ASSUME HeardInv, UNCHANGED <<alive, Live>>,
           alive => conn' \in {"resubscribing", "up", "unsubscribing"},
           \A c \in listed' : c \in listed /\ (Coming(c) => Coming(c)'),
           confirmed' \subseteq confirmed, waiting' \subseteq waiting,
           \A l \in confirmed' : Here(l) => Here(l)'
    PROVE  HeardInv'
BY DEF HeardInv

LEMMA HeardComes == ASSUME TypeOK, HeardInv, NEW l \in Listener, Comes(l) PROVE HeardInv'
<1>1. CASE Subscribe(l)
  <2>1. at[l] = "out" /\ \A k \in Listener \ {l} : at'[k] = at[k]
    <3>1. PICK to \in Stage : Move(l, "out", to)
      BY <1>1 DEF Subscribe, Stage
    <3>. QED  BY <3>1, Moved
  <2>2. UNCHANGED <<queue, waiting, link, confirmed>>
    BY <1>1 DEF Subscribe
  <2>3. \A k \in confirmed' : Here(k)'
    BY <2>1, <2>2 DEF HeardInv, Here, TypeOK
  <2>4. QueueKept /\ \A k \in Listener : at[k] = "joined" => at'[k] = "joined"
    BY <2>1, <2>2 DEF QueueKept
  <2>5. Live' = Live
    BY <2>2 DEF Live, Reached, link
  <2>6. ASSUME alive, NEW c \in listed'
        PROVE  c \in Live' \/ Coming(c)'
    <3>1. CASE c \in listed
      BY <2>4, <2>5, <2>6, <3>1, StillComing DEF HeardInv
    <3>2. CASE c \notin listed
      <4>1. c = Of[l] /\ Of[l] \notin listed
        BY <1>1, <2>6, <3>2 DEF Subscribe
      <4>2. at'[l] = "joined"
        BY <1>1, <4>1 DEF Subscribe, Move, TypeOK
      <4>. QED  BY <4>1, <4>2 DEF Coming
    <3>. QED  BY <3>1, <3>2
  <2>. QED  BY <2>2, <2>3, <2>5, <2>6 DEF HeardInv, link
<1>2. CASE SendSubscribe(l)
  <2>1. at[l] = "joined" /\ \A k \in Listener \ {l} : at'[k] = at[k]
    BY <1>2, Moved DEF SendSubscribe, Stage
  <2>2. Send("subscribe", l, l)
    BY <1>2 DEF SendSubscribe
  <2>3. QueueKept
    BY <2>2, KeptBySending
  <2>4. /\ DOMAIN queue' = 1..(Len(queue) + 1)
        /\ queue'[Len(queue) + 1] = [cmd |-> "subscribe", chan |-> Of[l], ack |-> l]
    BY <2>2, Sent
  <2>5. Len(queue) + 1 \in DOMAIN queue'
    BY <2>4, Queued
  <2>6. Coming(Of[l])'
    BY <2>4, <2>5 DEF Coming
  <2>7. ASSUME NEW c, Coming(c) PROVE Coming(c)'
    <3>1. CASE \E k \in DOMAIN queue : queue[k].cmd = "subscribe" /\ queue[k].chan = c
      BY <2>3, <3>1 DEF Coming, QueueKept
    <3>2. CASE \E k \in Listener \ {l} : at[k] = "joined" /\ Of[k] = c
      BY <2>1, <3>2 DEF Coming
    <3>3. CASE c = Of[l]
      BY <2>6, <3>3 DEF Coming
    <3>. QED  BY <2>7, <3>1, <3>2, <3>3 DEF Coming
  <2>8. UNCHANGED <<alive, Live, listed, confirmed, waiting>>
    BY <1>2 DEF SendSubscribe, Live, Reached
  <2>9. alive => conn' \in {"resubscribing", "up", "unsubscribing"}
    BY <1>2 DEF SendSubscribe, HeardInv
  <2>10. \A k \in confirmed' : Here(k) => Here(k)'
    BY <2>1, <2>8 DEF Here, TypeOK
  <2>. QED  BY <2>7, <2>8, <2>9, <2>10, HeardStep
<1>3. CASE TimedOut(l) \/ Told(l)
  <2>1. PICK from \in {"awaiting", "telling"}, to \in {"telling", "listening"} : Move(l, from, to)
    BY <1>3 DEF TimedOut, Told
  <2>2. /\ at[l] # "joined" /\ at'[l] \in {"telling", "listening"}
        /\ \A k \in Listener \ {l} : at'[k] = at[k]
    BY <2>1, Moved DEF Stage
  <2>3. QueueKept /\ waiting' \subseteq waiting
    <3>1. CASE TimedOut(l)
      BY <3>1, KeptByDeafening DEF TimedOut, Deafen
    <3>2. CASE Told(l)
      BY <3>2 DEF Told, QueueKept
    <3>. QED  BY <1>3, <3>1, <3>2
  <2>4. UNCHANGED <<alive, Live, conn, listed, confirmed>>
    BY <1>3 DEF TimedOut, Told, link, Live, Reached
  <2>5. \A k \in confirmed' : Here(k) => Here(k)'
    BY <2>2, <2>4 DEF Here, TypeOK
  <2>6. \A c : Coming(c) => Coming(c)'
    BY <2>2, <2>3, StillComing
  <2>7. alive => conn' \in {"resubscribing", "up", "unsubscribing"}
    BY <2>4 DEF HeardInv
  <2>. QED  BY <2>3, <2>4, <2>5, <2>6, <2>7, HeardStep
<1>. QED  BY <1>1, <1>2, <1>3 DEF Comes

LEMMA HeardGoes == ASSUME TypeOK, HeardInv, NEW l \in Listener, Goes(l) PROVE HeardInv'
<1>1. UNCHANGED <<alive, Live, conn>>
  BY DEF Goes, Cancelled, Drop, SendUnsubscribe, DropReceiver, link, Live, Reached
<1>2. at[l] # "joined" /\ \A k \in Listener \ {l} : at'[k] = at[k]
  BY DEF Goes, Cancelled, Drop, SendUnsubscribe, DropReceiver, Move, TypeOK
<1>3. QueueKept /\ waiting' \subseteq waiting
  <2>1. CASE Cancelled(l)
    BY <2>1, KeptByDeafening DEF Cancelled, Deafen
  <2>2. CASE SendUnsubscribe(l)
    BY <2>2, KeptBySending DEF SendUnsubscribe
  <2>3. CASE Drop(l) \/ DropReceiver(l)
    BY <2>3 DEF Drop, DropReceiver, QueueKept
  <2>. QED  BY <2>1, <2>2, <2>3 DEF Goes
<1>4. confirmed' \subseteq confirmed /\ listed' \subseteq listed
  BY DEF Goes, Cancelled, Drop, SendUnsubscribe, DropReceiver
<1>5. l \notin confirmed'
  <2>1. CASE Cancelled(l) \/ Drop(l)
    BY <2>1 DEF Cancelled, Drop
  <2>2. CASE SendUnsubscribe(l) \/ DropReceiver(l)
    BY <2>2 DEF SendUnsubscribe, DropReceiver, Move, HeardInv, Here
  <2>. QED  BY <2>1, <2>2 DEF Goes
<1>6. \A k \in confirmed' : Here(k) => Here(k)'
  BY <1>2, <1>4, <1>5 DEF Here, TypeOK
<1>7. \A c : Coming(c) => Coming(c)'
  BY <1>2, <1>3, StillComing
<1>8. alive => conn' \in {"resubscribing", "up", "unsubscribing"}
  BY <1>1 DEF HeardInv
<1>. QED  BY <1>1, <1>3, <1>4, <1>6, <1>7, <1>8, HeardStep

LEMMA HeardSubscriber ==
    ASSUME TypeOK, AckOK, Attached, HeardInv, Subscriber \/ Lose
    PROVE  HeardInv'
<1>0. /\ \A l \in Listener : at[l] = "joined" => at'[l] = "joined"
      /\ \A l \in Listener : Here(l) => Here(l)'
      /\ listed' = listed
  BY RemovedKept
<1>1. ASSUME alive' = FALSE, confirmed' = confirmed PROVE HeardInv'
  BY <1>0, <1>1 DEF HeardInv, TypeOK
<1>2. CASE Notices \/ Lose
  BY <1>1, <1>2 DEF Notices, Reconnect, Lose
<1>3. CASE Connect
  <2>1. /\ conn' = "resubscribing" /\ Live' = listed
        /\ UNCHANGED <<waiting, confirmed>>
    BY <1>3 DEF Connect, Live, Reached
  <2>2. \A l \in confirmed \cup waiting : Of[l] \in listed
    BY DEF HeardInv, Here, Attached, TypeOK
  <2>. QED  BY <1>0, <2>1, <2>2 DEF HeardInv, TypeOK
<1>4. CASE \E c \in Channel : Resubscribe(c)
  <2>1. CASE alive
    <3>1. Live' = Live /\ UNCHANGED <<alive, conn, at, queue, waiting, confirmed>>
      BY <1>4, <2>1 DEF Resubscribe, Live, Reached, listeners
    <3>2. \A c : Coming(c) => Coming(c)'
      BY <3>1 DEF Coming
    <3>3. alive => conn' \in {"resubscribing", "up", "unsubscribing"}
      BY <3>1 DEF HeardInv
    <3>4. \A l \in confirmed' : Here(l) => Here(l)'
      BY <1>0, <3>1 DEF TypeOK
    <3>. QED  BY <1>0, <3>1, <3>2, <3>3, <3>4, HeardStep
  <2>2. CASE ~alive
    BY <1>1, <1>4, <2>2 DEF Resubscribe, Reconnect
  <2>. QED  BY <2>1, <2>2
<1>5. CASE Resubscribed
  <2>1. /\ \A l \in Listener : at'[l] = IF l \in waiting THEN "telling" ELSE at[l]
        /\ confirmed' = confirmed \cup waiting
    BY <1>5, Acknowledged DEF Resubscribed, TypeOK
  <2>2. /\ Live' = Live /\ conn' = "up" /\ waiting' = {}
        /\ alive' = alive /\ queue' = queue
    BY <1>5 DEF Resubscribed, Live, Reached
  <2>3. \A l \in confirmed' : Here(l)'
    BY <1>0, <2>1 DEF HeardInv, Here, TypeOK
  <2>4. QueueKept
    BY <2>2 DEF QueueKept
  <2>5. \A c : Coming(c) => Coming(c)'
    BY <1>0, <2>4, StillComing
  <2>. QED  BY <1>0, <2>1, <2>2, <2>3, <2>5 DEF HeardInv
<1>6. CASE HandleSubscribe
  <2>. DEFINE ack == {Head(queue).ack} \ {Nobody}
  <2>1. CASE alive
    <3>1. /\ Take("subscribe") /\ conn = "up" /\ Acknowledge(ack)
          /\ subs' = subs \cup {Head(queue).chan}
          /\ UNCHANGED <<conn, todo, alive, waiting>>
      BY <1>6, <2>1 DEF HandleSubscribe, Take
    <3>2. Live = subs /\ Live' = subs \cup {Head(queue).chan}
      BY <3>1 DEF Live, Reached
    <3>3. /\ ack \subseteq Listener
          /\ \A l \in ack : at[l] = "awaiting" /\ Head(queue).chan = Of[l]
      BY <3>1, HeadAck
    <3>4. /\ confirmed' = confirmed \cup ack
          /\ \A l \in Listener : at'[l] = IF l \in ack THEN "telling" ELSE at[l]
      BY <3>1 DEF Acknowledge
    <3>5. \A l \in confirmed' : Here(l)'
      BY <1>0, <3>3, <3>4 DEF HeardInv, Here, TypeOK
    <3>6. \A c \in listed' : c \in Live' \/ Coming(c)'
      BY <1>0, <2>1, <3>1, <3>2, ComingBehind DEF HeardInv
    <3>7. \A l \in confirmed' \cup waiting' : Of[l] \in Live'
      BY <2>1, <3>1, <3>2, <3>3, <3>4 DEF HeardInv
    <3>. QED  BY <3>1, <3>5, <3>6, <3>7 DEF HeardInv
  <2>2. CASE ~alive
    BY <1>1, <1>6, <2>2 DEF HandleSubscribe, Reconnect
  <2>. QED  BY <2>1, <2>2
<1>7. CASE HandleUnsubscribe
  <2>1. /\ Take("unsubscribe") /\ conn = "up"
        /\ UNCHANGED <<alive, subs, waiting, confirmed, at>>
    BY <1>7 DEF HandleUnsubscribe, Take, listeners
  <2>2. Head(queue).cmd = "unsubscribe"
    BY <2>1, Taken
  <2>3. \A c : Coming(c) => Coming(c)'
    BY <1>0, <2>1, <2>2, ComingBehind
  <2>4. Live = subs
    BY <2>1 DEF Live, Reached
  <2>5. \A l \in confirmed \cup waiting : Of[l] \in listed
    BY DEF HeardInv, Here, Attached, TypeOK
  <2>6. conn' \in {"up", "unsubscribing"} /\ \A c \in listed : c \in subs => c \in Live'
    BY <1>7, <2>1 DEF HandleUnsubscribe, Live, Reached
  <2>7. \A l \in confirmed' : Here(l)'
    BY <1>0, <2>1 DEF HeardInv, TypeOK
  <2>8. ASSUME alive
        PROVE  /\ \A c \in listed' : c \in Live' \/ Coming(c)'
               /\ \A l \in confirmed' \cup waiting' : Of[l] \in Live'
    <3>1. \A c \in listed : c \in subs \/ Coming(c)
      BY <2>4, <2>8 DEF HeardInv
    <3>2. \A l \in confirmed \cup waiting : Of[l] \in subs
      BY <2>4, <2>8 DEF HeardInv
    <3>3. \A c \in listed' : c \in Live' \/ Coming(c)'
      BY <1>0, <2>3, <2>6, <3>1
    <3>4. \A l \in confirmed' \cup waiting' : Of[l] \in Live'
      BY <2>1, <2>5, <2>6, <3>2
    <3>. QED  BY <3>3, <3>4
  <2>. QED  BY <2>1, <2>6, <2>7, <2>8 DEF HeardInv
<1>8. CASE Unsubscribed
  <2>1. CASE alive
    <3>1. /\ Live' = Live /\ conn' = "up"
          /\ UNCHANGED <<alive, at, queue, waiting, confirmed>>
      BY <1>8, <2>1 DEF Unsubscribed, Live, Reached, listeners
    <3>2. \A c : Coming(c) => Coming(c)'
      BY <3>1 DEF Coming
    <3>3. \A l \in confirmed' : Here(l) => Here(l)'
      BY <1>0, <3>1 DEF TypeOK
    <3>. QED  BY <1>0, <3>1, <3>2, <3>3, HeardStep
  <2>2. CASE ~alive
    BY <1>1, <1>8, <2>2 DEF Unsubscribed, Reconnect
  <2>. QED  BY <2>1, <2>2
<1>. QED  BY <1>2, <1>3, <1>4, <1>5, <1>6, <1>7, <1>8 DEF Subscriber

LEMMA HeardInit == Init => HeardInv
BY DEF Init, HeardInv

LEMMA HeardNext == TypeOK /\ AckOK /\ Attached /\ HeardInv /\ [Next]_vars => HeardInv'
<1>. SUFFICES ASSUME TypeOK, AckOK, Attached, HeardInv, [Next]_vars PROVE HeardInv'
  OBVIOUS
<1>1. CASE UNCHANGED vars
  BY <1>1 DEF vars, listeners, link, HeardInv, Here, Coming, Live, Reached
<1>. QED  BY <1>1, HeardComes, HeardGoes, HeardSubscriber DEF Next

\* On a working connection a stream's channel is subscribed to, or its
\* Subscribe is on its way and the stream was not told otherwise, for any
\* number of streams and connections lost (run_subscriber).
THEOREM NoDeafCorrect == Spec => []NoDeafListener
<1>1. TypeOK /\ Attached /\ HeardInv => NoDeafListener
  BY DEF NoDeafListener, HeardInv, Attached, Here, Live, Reached
<1>2. Spec => [](TypeOK /\ AckOK /\ Attached /\ HeardInv)
  BY TypeInit, TypeNext, AttachedInit, AttachedNext, HeardInit, HeardNext, PTL DEF Spec
<1>. QED  BY <1>1, <1>2, PTL


-----------------------------------------------------------------------------
(* No acknowledgement is forgotten, and what is at rest is heard. *)

\* Whoever awaits Redis is owed an answer: by the command that is queued, or by the next
\* connection.  Before the first connection nothing is queued, and whoever listed a
\* channel is about to ask for one.
Owed ==
    /\ \A l \in Listener : at[l] = "awaiting" =>
          l \in waiting \/ \E k \in DOMAIN queue : queue[k].ack = l
    /\ waiting # {} => conn \in {"connecting", "resubscribing"}
    /\ conn = "off" => /\ queue = <<>>
                       /\ \A l \in Listener : at[l] \notin {"awaiting", "removed"}
                       /\ \A c \in listed : \E l \in Listener : at[l] = "joined" /\ Of[l] = c

LEMMA OwedComes == ASSUME TypeOK, Owed, NEW l \in Listener, Comes(l) PROVE Owed'
<1>1. CASE Subscribe(l)
  <2>1. PICK to \in {"telling", "joined"} :
          Move(l, "out", to) /\ (to = "joined" \/ Of[l] \in listed)
    BY <1>1 DEF Subscribe
  <2>2. /\ at[l] = "out" /\ at'[l] = to
        /\ \A k \in Listener \ {l} : at'[k] = at[k]
    BY <2>1, Moved DEF Stage
  <2>3. UNCHANGED <<queue, waiting, conn>> /\ listed' = listed \cup {Of[l]}
    BY <1>1 DEF Subscribe, link
  <2>. QED  BY <2>1, <2>2, <2>3 DEF Owed
<1>2. CASE SendSubscribe(l)
  <2>1. /\ at[l] = "joined" /\ at'[l] = "awaiting"
        /\ \A k \in Listener \ {l} : at'[k] = at[k]
    BY <1>2, Moved DEF SendSubscribe, Stage
  <2>2. /\ DOMAIN queue' = 1..(Len(queue) + 1)
        /\ \A k \in 1..Len(queue) : queue'[k] = queue[k]
        /\ queue'[Len(queue) + 1] = [cmd |-> "subscribe", chan |-> Of[l], ack |-> l]
        /\ waiting' = waiting
    BY <1>2, Sent DEF SendSubscribe
  <2>3. /\ conn' # "off"
        /\ conn \in {"connecting", "resubscribing"} => conn' = conn
        /\ waiting # {} => conn # "off"
    BY <1>2 DEF SendSubscribe, Owed
  <2>4. /\ DOMAIN queue \subseteq DOMAIN queue' /\ Len(queue) + 1 \in DOMAIN queue'
        /\ \A k \in DOMAIN queue : queue'[k] = queue[k]
    BY <2>2, Queued
  <2>. QED  BY <2>1, <2>2, <2>3, <2>4 DEF Owed
<1>3. CASE TimedOut(l) \/ Told(l)
  <2>1. /\ at[l] \in {"awaiting", "telling"} /\ at'[l] \in {"telling", "listening"}
        /\ \A k \in Listener \ {l} : at'[k] = at[k]
    BY <1>3, Moved DEF TimedOut, Told, Stage
  <2>2. UNCHANGED <<conn, listed>>
    BY <1>3 DEF TimedOut, Told, link
  <2>3. /\ waiting' \subseteq waiting
        /\ \A k \in Listener \ {l} : k \in waiting => k \in waiting'
        /\ queue = <<>> => queue' = <<>>
        /\ \A k \in DOMAIN queue : k \in DOMAIN queue'
                                   /\ (queue[k].ack # l => queue'[k].ack = queue[k].ack)
    <3>1. CASE Deafen(l)
      BY <3>1, Deafened, Queued DEF Deafen
    <3>. QED  BY <1>3, <3>1 DEF TimedOut, Told
  <2>. QED  BY <2>1, <2>2, <2>3 DEF Owed
<1>. QED  BY <1>1, <1>2, <1>3 DEF Comes

LEMMA OwedGoes == ASSUME TypeOK, Attached, Owed, NEW l \in Listener, Goes(l) PROVE Owed'
<1>1. CASE Cancelled(l)
  <2>1. /\ at[l] \in {"awaiting", "telling"} /\ at'[l] = "out"
        /\ \A k \in Listener \ {l} : at'[k] = at[k]
        /\ UNCHANGED <<conn, listed>>
    BY <1>1 DEF Cancelled, TypeOK, link
  <2>2. /\ queue = <<>> => queue' = <<>>
        /\ \A k \in DOMAIN queue : k \in DOMAIN queue'
                                   /\ (queue[k].ack # l => queue'[k].ack = queue[k].ack)
    BY <1>1, Deafened, Queued DEF Cancelled, Deafen
  <2>3. waiting' = waiting \ {l}
    BY <1>1 DEF Cancelled, Deafen
  <2>. QED  BY <2>1, <2>2, <2>3 DEF Owed
<1>2. CASE Drop(l)
  <2>1. PICK to \in {"removed", "leaving"} :
          Move(l, "listening", to) /\ (to = "removed" <=> LastHere(l))
    BY <1>2 DEF Drop
  <2>2. /\ at[l] = "listening" /\ at'[l] = to
        /\ \A k \in Listener \ {l} : at'[k] = at[k]
    BY <2>1, Moved DEF Stage
  <2>3. UNCHANGED <<queue, waiting, conn>> /\ listed' \subseteq listed
    BY <1>2 DEF Drop, link
  \* Another one has listed the channel and is about to ask for it.
  <2>4. conn = "off" => ~LastHere(l)
    <3>1. SUFFICES ASSUME conn = "off", LastHere(l) PROVE FALSE
      OBVIOUS
    <3>2. Of[l] \in listed /\ rx[l] = "current"
      BY <2>2 DEF Attached
    <3>3. PICK k \in Listener : at[k] = "joined" /\ Of[k] = Of[l]
      BY <3>1, <3>2 DEF Owed
    <3>4. rx[k] = "current"
      BY <3>3 DEF Attached
    <3>5. k \in Receivers(Of[l]) /\ l \in Receivers(Of[l])
      BY <3>2, <3>3, <3>4 DEF Receivers
    <3>. QED  BY <2>2, <3>1, <3>3, <3>5, OnlyReceiver
  <2>. QED  BY <2>1, <2>2, <2>3, <2>4 DEF Owed
<1>3. CASE SendUnsubscribe(l)
  <2>1. /\ at[l] = "removed" /\ at'[l] = "leaving" /\ \A k \in Listener \ {l} : at'[k] = at[k]
    BY <1>3, Moved DEF SendUnsubscribe, Stage
  <2>2. Send("unsubscribe", l, Nobody) /\ waiting' = waiting /\ conn' = conn
    BY <1>3 DEF SendUnsubscribe, link
  <2>3. /\ DOMAIN queue \subseteq DOMAIN queue'
        /\ \A k \in DOMAIN queue : queue'[k] = queue[k]
    <3>1. /\ DOMAIN queue' = 1..(Len(queue) + 1)
          /\ \A k \in 1..Len(queue) : queue'[k] = queue[k]
      BY <2>2, Sent
    <3>. QED  BY <3>1, Queued
  <2>. QED  BY <2>1, <2>2, <2>3 DEF Owed
<1>4. CASE DropReceiver(l)
  <2>1. /\ at[l] = "leaving" /\ at'[l] = "out" /\ \A k \in Listener \ {l} : at'[k] = at[k]
    BY <1>4, Moved DEF DropReceiver, Stage
  <2>. QED  BY <1>4, <2>1 DEF DropReceiver, link, Owed
<1>. QED  BY <1>1, <1>2, <1>3, <1>4 DEF Goes

LEMMA OwedSubscriber == ASSUME TypeOK, AckOK, Owed, Subscriber \/ Lose PROVE Owed'
<1>1. CASE Connect \/ Unsubscribed \/ Notices \/ Lose \/ \E c \in Channel : Resubscribe(c)
  <2>1. /\ UNCHANGED <<at, queue, waiting, listed>>
        /\ conn' = "off" => conn = "off"
        /\ conn \in {"connecting", "resubscribing"} => conn' \in {"connecting", "resubscribing"}
    BY <1>1 DEF Connect, Unsubscribed, Notices, Lose, Resubscribe, Reconnect, listeners
  <2>. QED  BY <2>1 DEF Owed
<1>2. CASE Resubscribed
  <2>1. /\ \A k \in Listener : at'[k] = IF k \in waiting THEN "telling" ELSE at[k]
        /\ queue' = queue /\ waiting' = {} /\ conn' = "up"
    BY <1>2, Acknowledged DEF Resubscribed, TypeOK
  <2>. QED  BY <2>1 DEF Owed
<1>3. ASSUME NEW cmd, Take(cmd), HandleSubscribe \/ HandleUnsubscribe PROVE Owed'
  <2>. DEFINE ack == {Head(queue).ack} \ {Nobody}
  <2>1. /\ waiting = {} /\ conn' # "off"
        /\ waiting' # {} => conn' = "connecting"
    BY <1>3 DEF Owed, Take, HandleSubscribe, HandleUnsubscribe, Reconnect
  <2>2. ASSUME NEW k \in DOMAIN queue PROVE k = 1 \/ (k - 1 \in DOMAIN queue' /\ queue'[k - 1] = queue[k])
    <3>1. k \in 1..Len(queue) /\ Len(queue) \in Nat
      BY Queued
    <3>2. k # 1 => k - 1 \in 1..(Len(queue) - 1) /\ (k - 1) + 1 = k
      BY <3>1
    <3>. QED  BY <1>3, <3>2, Taken
  <2>3. Head(queue) = queue[1] /\ 1 \in DOMAIN queue
    BY <1>3, Taken
  <2>4. ASSUME NEW l \in Listener, at'[l] = "awaiting"
        PROVE  /\ at[l] = "awaiting" /\ (l \in ack => l \in waiting')
    <3>1. CASE HandleUnsubscribe
      <4>1. at' = at /\ Head(queue).cmd = "unsubscribe"
        BY <3>1 DEF HandleUnsubscribe, Take, listeners
      <4>2. Head(queue).ack = Nobody
        BY <2>3, <4>1 DEF AckOK
      <4>. QED  BY <2>4, <4>1, <4>2
    <3>2. CASE HandleSubscribe /\ alive
      BY <2>4, <3>2 DEF HandleSubscribe, Acknowledge
    <3>3. CASE HandleSubscribe /\ ~alive
      BY <2>4, <3>3 DEF HandleSubscribe
    <3>. QED  BY <1>3, <3>1, <3>2, <3>3
  <2>5. ASSUME NEW l \in Listener, at'[l] = "awaiting"
        PROVE  l \in waiting' \/ \E k \in DOMAIN queue' : queue'[k].ack = l
    <3>1. PICK k \in DOMAIN queue : queue[k].ack = l
      BY <2>1, <2>4, <2>5 DEF Owed
    <3>2. CASE k = 1
      BY <2>3, <2>4, <2>5, <3>1, <3>2, Streams
    <3>3. CASE k # 1
      BY <2>2, <3>1, <3>3
    <3>. QED  BY <3>2, <3>3
  <2>. QED  BY <2>1, <2>5 DEF Owed
<1>. QED  BY <1>1, <1>2, <1>3 DEF Subscriber, HandleSubscribe, HandleUnsubscribe

LEMMA OwedInit == Init => Owed
BY DEF Init, Owed

LEMMA OwedNext == TypeOK /\ AckOK /\ Attached /\ Owed /\ [Next]_vars => Owed'
<1>. SUFFICES ASSUME TypeOK, AckOK, Attached, Owed, [Next]_vars PROVE Owed'
  OBVIOUS
<1>1. CASE UNCHANGED vars
  BY <1>1 DEF vars, listeners, link, Owed
<1>. QED  BY <1>1, OwedComes, OwedGoes, OwedSubscriber DEF Next

\* When neither a stream nor the connection's task has anything left to do, nobody awaits
\* an acknowledgement, every stream is heard, and Redis sends what is listed and nothing
\* else: no order of comings, goings, timeouts and lost connections ends otherwise
\* (subscribe, drop, run_subscriber).
BusRests ==
    /\ \A l \in Listener : at[l] \in {"out", "awaiting", "listening"}
    /\ conn = "off" \/ (conn = "up" /\ alive /\ queue = <<>>)
    => /\ \A l \in Listener : at[l] # "awaiting"
       /\ \A l \in Listener : at[l] = "listening" => conn = "up" /\ Of[l] \in subs
       /\ queue = <<>> /\ subs = listed

\* A bus at rest has everyone subscribed and acknowledged, for any number of streams,
\* channels and lost connections (StreamBus, run_subscriber).
THEOREM RestCorrect == Spec => []BusRests
<1>1. TypeOK /\ Attached /\ LeftInv /\ HeardInv /\ Owed => BusRests
  <2>. SUFFICES ASSUME TypeOK, Attached, LeftInv, HeardInv, Owed,
                       \A l \in Listener : at[l] \in {"out", "awaiting", "listening"},
                       conn = "off" \/ (conn = "up" /\ alive /\ queue = <<>>)
                PROVE  /\ \A l \in Listener : at[l] # "awaiting"
                       /\ \A l \in Listener : at[l] = "listening" => conn = "up" /\ Of[l] \in subs
                       /\ queue = <<>> /\ subs = listed
    BY DEF BusRests
  <2>1. queue = <<>> /\ DOMAIN queue = {}
    BY DEF Owed
  <2>2. \A l \in Listener : at[l] # "awaiting"
    BY <2>1 DEF Owed
  <2>3. subs \subseteq listed
    BY <2>1 DEF LeftInv, Reached, Withdrawn
  <2>4. listed \subseteq subs /\ (conn = "off" => listed = {})
    <3>1. CASE conn = "off"
      BY <3>1 DEF Owed
    <3>2. CASE conn = "up" /\ alive
      BY <2>1, <3>2 DEF HeardInv, Live, Reached, Coming
    <3>. QED  BY <3>1, <3>2
  <2>5. ASSUME NEW l \in Listener, at[l] = "listening" PROVE conn = "up" /\ Of[l] \in subs
    BY <2>4, <2>5 DEF Attached
  <2>. QED  BY <2>1, <2>2, <2>3, <2>4, <2>5
<1>2. Spec => [](TypeOK /\ AckOK /\ Attached /\ LeftInv /\ HeardInv /\ Owed)
  BY TypeInit, TypeNext, AttachedInit, AttachedNext, LeftInit, LeftNext, HeardInit, HeardNext,
     OwedInit, OwedNext, PTL DEF Spec
<1>. QED  BY <1>1, <1>2, PTL
=============================================================================
