--------------------------- MODULE DeliveryProofs ---------------------------
(***************************************************************************)
(* Proofs of DeliveryBreaker and of DeliveryTracker, which a delivery asks *)
(* side by side and which share no state.  For every number of deliveries, *)
(* every threshold, and every cool-off longer than a delivery takes, the   *)
(* breaker has one probe at a time and opens only when Threshold           *)
(* deliveries have failed; the tracker's states are well formed.           *)
(***************************************************************************)
EXTENDS DeliveryBreaker, TLAPS

CONSTANTS Process, Task, Home,  \* DeliveryTracker's
          FailureDays,          \* its Threshold
          MaxTroubles           \* (MaxErrors bounds the errors of either)

VARIABLES days, mark, copy, fresh, reader, troubles,
          call,                 \* its at
          trackerErrors         \* its errors

Tracker == INSTANCE DeliveryTracker WITH
    Threshold <- FailureDays, at <- call, errors <- trackerErrors

LEMMA Kinds == /\ Free \notin Delivery /\ Lost \notin Delivery /\ Free # Lost
               /\ CoolOff \in Nat /\ Deadline \in Nat /\ CoolOff > 0
BY BreakerAssumption

\* What one delivery's step leaves alone.
LEMMA Others ==
    ASSUME TypeOK, NEW d \in Delivery, NEW from, NEW to \in Stage, Move(d, from, to)
    PROVE  /\ at' \in [Delivery -> Stage] /\ at[d] = from /\ at'[d] = to
           /\ \A e \in Delivery \ {d} : at'[e] = at[e]
BY DEF TypeOK, Move

LEMMA TypeInit == Init => TypeOK
BY Kinds DEF Init, TypeOK, Closed, Stage

LEMMA TypeAdmit == ASSUME TypeOK, NEW d \in Delivery, Admit(d) \/ AskFails(d) \/ TakeUnanswered(d)
                   PROVE  TypeOK'
<1>1. CASE Ask(d) \/ AskFails(d)
  <2>1. PICK to \in {"passed", "halfopen"} : Move(d, "idle", to)
    BY <1>1 DEF Ask, AskFails
  <2>2. /\ at' \in [Delivery -> Stage] /\ at[d] = "idle"
        /\ \A e \in Delivery \ {d} : at'[e] = at[e]
    BY <2>1, Others DEF Stage
  <2>3. left' \in [Delivery -> 0..Deadline]
    BY <1>1, Kinds DEF Ask, AskFails, TypeOK
  <2>4. lock \in Delivery => at'[lock] \in {"taken", "probing", "releasing"}
    BY <2>2 DEF TypeOK
  <2>5. UNCHANGED redis /\ failed' = failed /\ errors' \in Nat
    BY <1>1 DEF Ask, AskFails, redis, TypeOK
  <2>6. QED
    BY <2>2, <2>3, <2>4, <2>5 DEF TypeOK, redis
<1>2. CASE TakeLock(d)
  <2>1. at' \in [Delivery -> Stage] /\ at[d] = "halfopen" /\ (lock = Free => at'[d] = "taken")
        /\ \A e \in Delivery \ {d} : at'[e] = at[e]
    <3>1. PICK to \in {"taken", "idle"} : Move(d, "halfopen", to) /\ (lock = Free => to = "taken")
      BY <1>2 DEF TakeLock
    <3>2. QED
      BY <3>1, Others DEF Stage
  <2>2. CASE lock = Free
    BY <1>2, <2>1, <2>2, Kinds DEF TakeLock, TypeOK
  <2>3. CASE lock # Free
    <3>1. UNCHANGED <<redis, left, failed, errors>>
      BY <1>2, <2>3 DEF TakeLock, redis
    <3>2. lock \in Delivery => lock # d
      BY <2>1 DEF TypeOK
    <3>3. QED
      BY <2>1, <3>1, <3>2 DEF TypeOK, redis
  <2>4. QED
    BY <2>2, <2>3
<1>3. CASE TakeUnanswered(d)
  <2>1. at' \in [Delivery -> Stage]
    BY <1>3, Others DEF TakeUnanswered, Stage
  <2>2. QED
    BY <1>3, <2>1, Kinds DEF TakeUnanswered, TypeOK
<1>4. CASE Clear(d)
  <2>1. at' \in [Delivery -> Stage] /\ at'[d] = "probing"
        /\ \A e \in Delivery \ {d} : at'[e] = at[e]
    BY <1>4, Others DEF Clear, Stage
  <2>2. lock \in Delivery => at'[lock] \in {"taken", "probing", "releasing"}
    BY <2>1 DEF TypeOK
  <2>3. failures' \in Nat /\ errors' \in Nat
        /\ UNCHANGED <<recovery, lock, lockLeft, left, failed>>
    BY <1>4 DEF Clear, TypeOK
  <2>4. QED
    BY <2>1, <2>2, <2>3 DEF TypeOK
<1>5. QED
  BY <1>1, <1>2, <1>3, <1>4 DEF Admit

LEMMA TypeSettle ==
    ASSUME TypeOK, NEW d \in Delivery,
           Settle(d) \/ Opens(d) \/ Release(d) \/ Unrecorded(d) \/ Dies(d)
    PROVE  TypeOK'
<1>1. CASE Settle(d) \/ Opens(d)
  <2>1. /\ at' \in [Delivery -> Stage] /\ at[d] \in {"passed", "probing", "opening"}
        /\ at[d] = "probing" => at'[d] = "releasing"
        /\ \A e \in Delivery \ {d} : at'[e] = at[e]
    <3>1. PICK from \in {"passed", "probing", "opening"}, to \in {"idle", "opening", "releasing"} :
             Move(d, from, to) /\ (from = "probing" => to = "releasing")
      BY <1>1 DEF Settle, PassSucceeds, PassFails, ProbeSucceeds, ProbeFails, Opens
    <3>2. QED
      BY <3>1, Others DEF Stage
  <2>2. lock \in Delivery => at'[lock] \in {"taken", "probing", "releasing"}
    BY <2>1 DEF TypeOK
  <2>3. /\ failures' \in Nat /\ recovery' \in -1..CoolOff /\ failed' \in Nat
        /\ UNCHANGED <<lock, lockLeft, left, errors>>
    BY <1>1, Kinds DEF Settle, PassSucceeds, PassFails, ProbeSucceeds, ProbeFails, Opens, Fails,
                       Closed, TypeOK
  <2>4. QED
    BY <2>1, <2>2, <2>3 DEF TypeOK
<1>2. CASE Release(d)
  <2>1. at' \in [Delivery -> Stage] /\ \A e \in Delivery \ {d} : at'[e] = at[e]
    BY <1>2, Others DEF Release, Stage
  <2>2. QED
    BY <1>2, <2>1, Kinds DEF Release, TypeOK
<1>3. CASE Unrecorded(d)
  <2>1. /\ at' \in [Delivery -> Stage] /\ at[d] \in {"passed", "probing", "opening"}
        /\ at[d] = "probing" => at'[d] = "releasing"
        /\ \A e \in Delivery \ {d} : at'[e] = at[e]
    BY <1>3 DEF Unrecorded, TypeOK, Stage
  <2>2. lock \in Delivery => at'[lock] \in {"taken", "probing", "releasing"}
    BY <2>1 DEF TypeOK
  <2>3. UNCHANGED <<redis, left, failed>> /\ errors' \in Nat
    BY <1>3 DEF Unrecorded, TypeOK
  <2>4. QED
    BY <2>1, <2>2, <2>3 DEF TypeOK, redis
<1>4. CASE Dies(d)
  <2>1. at' \in [Delivery -> Stage] /\ \A e \in Delivery \ {d} : at'[e] = at[e]
    BY <1>4 DEF Dies, TypeOK, Stage
  <2>2. lock' \in {Free, Lost} \cup Delivery /\ (lock' = Free <=> lock = Free)
        /\ (lock' \in Delivery => lock' = lock /\ lock # d)
    BY <1>4, Kinds DEF Dies, TypeOK
  <2>3. UNCHANGED <<failures, recovery, lockLeft, left, failed>> /\ errors' \in Nat
    BY <1>4 DEF Dies, TypeOK
  <2>4. QED
    BY <2>1, <2>2, <2>3 DEF TypeOK
<1>5. QED
  BY <1>1, <1>2, <1>3, <1>4

LEMMA Ticked ==
    ASSUME TypeOK, Tick
    PROVE  /\ recovery' \in -1..CoolOff /\ lockLeft' \in 0..CoolOff
           /\ lockLeft' = (IF lockLeft > 0 THEN lockLeft - 1 ELSE lockLeft)
           /\ left' \in [Delivery -> 0..Deadline]
           /\ \A d \in Delivery : at[d] \in Sending => left[d] > 0 /\ left'[d] = left[d] - 1
BY Kinds DEF Tick, TypeOK, Less

LEMMA TypeNext == TypeOK /\ [Next]_vars => TypeOK'
<1> SUFFICES ASSUME TypeOK, [Next]_vars PROVE TypeOK'
  OBVIOUS
<1>1. ASSUME NEW d \in Delivery,
             Admit(d) \/ Settle(d) \/ Opens(d) \/ Release(d) \/ Errs(d)
      PROVE  TypeOK'
  BY <1>1, TypeAdmit, TypeSettle DEF Errs
<1>2. CASE Tick
  <2>1. lock' = (IF lockLeft' = 0 THEN Free ELSE lock) /\ UNCHANGED <<failures, at, failed, errors>>
    BY <1>2 DEF Tick
  <2>2. lock' = Free <=> lockLeft' = 0
    BY <1>2, <2>1, Ticked DEF TypeOK
  <2>3. QED
    BY <1>2, <2>1, <2>2, Ticked, Kinds DEF TypeOK
<1>3. CASE UNCHANGED vars
  BY <1>3 DEF vars, redis, TypeOK
<1>4. QED
  BY <1>1, <1>2, <1>3 DEF Next

\* The states of a breaker are well formed: its lock is free exactly when its
\* TTL has run out, and who holds it is a probe or about to release it.
THEOREM TypeCorrect == Spec => []TypeOK
<1>1. QED
  BY TypeInit, TypeNext, PTL DEF Spec

LEMMA HoldsDelivery ==
    ASSUME TypeOK, ProbeHolds, NEW d \in Delivery,
           Admit(d) \/ Settle(d) \/ Opens(d) \/ Release(d) \/ Errs(d)
    PROVE  ProbeHolds'
<1>1. CASE Ask(d) \/ AskFails(d)
  <2>1. PICK to \in {"passed", "halfopen"} : Move(d, "idle", to)
    BY <1>1 DEF Ask, AskFails
  <2>2. at'[d] = to /\ \A e \in Delivery \ {d} : at'[e] = at[e]
    BY <2>1, Others DEF Stage
  <2>3. UNCHANGED <<lock, lockLeft>> /\ \A e \in Delivery \ {d} : left'[e] = left[e]
    BY <1>1 DEF Ask, AskFails, redis, TypeOK
  <2>4. QED
    BY <2>2, <2>3 DEF ProbeHolds
<1>2. CASE TakeLock(d) /\ lock = Free
  <2>1. \A e \in Delivery \ {d} : at'[e] = at[e] /\ at[e] \notin {"taken", "probing"}
    BY <1>2, Others, Kinds DEF TakeLock, ProbeHolds, Stage
  <2>2. lock' = d /\ lockLeft' = CoolOff /\ left' = left
    BY <1>2 DEF TakeLock
  <2>3. CoolOff > left[d]
    BY BreakerAssumption DEF TypeOK
  <2>4. QED
    BY <2>1, <2>2, <2>3 DEF ProbeHolds
<1>3. CASE TakeLock(d) /\ lock # Free
  <2>1. at'[d] = "idle" /\ \A e \in Delivery \ {d} : at'[e] = at[e]
    BY <1>3, Others DEF TakeLock, Stage
  <2>2. QED
    BY <1>3, <2>1 DEF TakeLock, ProbeHolds
<1>4. CASE TakeUnanswered(d)
  <2>1. at'[d] = "idle" /\ \A e \in Delivery \ {d} : at'[e] = at[e]
    BY <1>4, Others DEF TakeUnanswered, Stage
  <2>2. \A e \in Delivery : at[e] \notin {"taken", "probing"}
    BY <1>4, Kinds DEF TakeUnanswered, ProbeHolds
  <2>3. QED
    BY <2>1, <2>2 DEF ProbeHolds
<1>5. CASE Clear(d)
  <2>1. at[d] = "taken" /\ at'[d] = "probing" /\ \A e \in Delivery \ {d} : at'[e] = at[e]
    BY <1>5, Others DEF Clear, Stage
  <2>2. QED
    BY <1>5, <2>1 DEF Clear, ProbeHolds
<1>6. CASE Settle(d) \/ Opens(d)
  <2>1. PICK from \in Stage, to \in {"idle", "opening", "releasing"} : Move(d, from, to)
    BY <1>6 DEF Settle, PassSucceeds, PassFails, ProbeSucceeds, ProbeFails, Opens, Stage
  <2>2. at'[d] = to /\ \A e \in Delivery \ {d} : at'[e] = at[e]
    BY <2>1, Others DEF Stage
  <2>3. UNCHANGED <<lock, lockLeft, left>>
    BY <1>6 DEF Settle, PassSucceeds, PassFails, ProbeSucceeds, ProbeFails, Opens
  <2>4. QED
    BY <2>2, <2>3 DEF ProbeHolds
<1>7. CASE Release(d)
  <2>1. at[d] = "releasing" /\ at'[d] = "idle" /\ \A e \in Delivery \ {d} : at'[e] = at[e]
    BY <1>7, Others DEF Release, Stage
  <2>2. left' = left /\ (lock # d => UNCHANGED <<lock, lockLeft>>)
    BY <1>7 DEF Release
  <2>3. QED
    BY <2>1, <2>2 DEF ProbeHolds
<1>8. CASE Unrecorded(d)
  <2>1. at'[d] \in {"idle", "releasing"} /\ \A e \in Delivery \ {d} : at'[e] = at[e]
    BY <1>8 DEF Unrecorded, TypeOK
  <2>2. QED
    BY <1>8, <2>1 DEF Unrecorded, redis, ProbeHolds
<1>9. CASE Dies(d)
  <2>1. at'[d] = "idle" /\ \A e \in Delivery \ {d} : at'[e] = at[e]
    BY <1>9 DEF Dies, TypeOK
  <2>2. QED
    BY <1>9, <2>1 DEF Dies, ProbeHolds
<1>10. QED
  BY <1>1, <1>2, <1>3, <1>4, <1>5, <1>6, <1>7, <1>8, <1>9 DEF Admit, Errs

LEMMA HoldsNext == TypeOK /\ ProbeHolds /\ [Next]_vars => ProbeHolds'
<1> SUFFICES ASSUME TypeOK, ProbeHolds, [Next]_vars PROVE ProbeHolds'
  OBVIOUS
<1>1. CASE Tick
  <2> SUFFICES ASSUME NEW d \in Delivery, at'[d] \in {"taken", "probing"}
               PROVE  lock' = d /\ lockLeft' > left'[d]
    BY DEF ProbeHolds
  <2>1. at[d] \in {"taken", "probing"} /\ at[d] \in Sending
    BY <1>1 DEF Tick, Sending, Stage
  <2>2. lock = d /\ lockLeft > left[d] /\ left[d] > 0 /\ left'[d] = left[d] - 1
        /\ lockLeft \in Nat /\ left[d] \in Nat
    BY <1>1, <2>1, Ticked DEF ProbeHolds, TypeOK
  <2>3. lockLeft' = lockLeft - 1 /\ lockLeft' > left'[d] /\ lockLeft' # 0
    BY <1>1, <2>2, Ticked
  <2>4. QED
    BY <1>1, <2>2, <2>3 DEF Tick
<1>2. CASE UNCHANGED vars
  BY <1>2 DEF vars, redis, ProbeHolds
<1>3. QED
  BY <1>1, <1>2, HoldsDelivery DEF Next

\* A probe holds the lock for longer than it has left to run.
THEOREM ProbeHoldsCorrect == Spec => []ProbeHolds
<1>1. Init => ProbeHolds
  BY DEF Init, ProbeHolds
<1>2. QED
  BY <1>1, HoldsNext, TypeCorrect, PTL DEF Spec

\* Of all processes' deliveries to an inbox, one at a time is a probe.
THEOREM OneProbeCorrect == Spec => []OneProbe
<1>1. ProbeHolds => OneProbe
  BY DEF ProbeHolds, OneProbe
<1>2. QED
  BY <1>1, ProbeHoldsCorrect, PTL


-----------------------------------------------------------------------------
(* Opening *)

\* Deliveries admit has not simply let pass, and records that open the breaker.
Tried == {"halfopen", "taken", "probing", "opening", "releasing"}

\* An inbox is left alone, and its probe's lock taken, only once Threshold deliveries to
\* it have failed: no command that fails, no process that dies and no order of the
\* commands of several admits and records opens a breaker sooner (record, admit).
OpensWhenFailed == /\ failures <= failed
                   /\ recovery # Closed \/ lock # Free => failed >= Threshold
                   /\ \A d \in Delivery : at[d] \in Tried => failed >= Threshold

LEMMA OpensAdmit ==
    ASSUME TypeOK, OpensWhenFailed, NEW d \in Delivery,
           Admit(d) \/ AskFails(d) \/ TakeUnanswered(d)
    PROVE  OpensWhenFailed'
<1>1. CASE Ask(d)
  <2>1. PICK to \in {"passed", "halfopen"} :
          Move(d, "idle", to) /\ (to = "halfopen" => recovery # Closed)
    BY <1>1 DEF Ask
  <2>2. at'[d] = to /\ \A e \in Delivery \ {d} : at'[e] = at[e]
    BY <2>1, Others DEF Stage
  <2>3. UNCHANGED <<redis, failed>>
    BY <1>1 DEF Ask
  <2> QED BY <2>1, <2>2, <2>3 DEF OpensWhenFailed, redis, Tried
<1>2. CASE AskFails(d)
  <2>1. at'[d] = "passed" /\ \A e \in Delivery \ {d} : at'[e] = at[e]
    BY <1>2, Others DEF AskFails, Stage
  <2> QED BY <1>2, <2>1 DEF AskFails, OpensWhenFailed, redis, Tried
<1>3. CASE TakeLock(d)
  <2>1. at[d] = "halfopen" /\ \A e \in Delivery \ {d} : at'[e] = at[e]
    BY <1>3 DEF TakeLock, Move, TypeOK
  <2>2. failed >= Threshold /\ UNCHANGED <<failures, recovery, failed>>
    BY <1>3, <2>1 DEF TakeLock, OpensWhenFailed, Tried
  <2> QED BY <2>2 DEF OpensWhenFailed
<1>4. CASE TakeUnanswered(d)
  <2>1. at[d] = "halfopen" /\ \A e \in Delivery \ {d} : at'[e] = at[e]
    BY <1>4 DEF TakeUnanswered, Move, TypeOK
  <2>2. failed >= Threshold /\ UNCHANGED <<failures, recovery, failed>>
    BY <1>4, <2>1 DEF TakeUnanswered, OpensWhenFailed, Tried
  <2> QED BY <2>2 DEF OpensWhenFailed
<1>5. CASE Clear(d)
  <2>1. at[d] = "taken" /\ failed \in Nat
    BY <1>5 DEF Clear, Move, TypeOK
  <2>2. failed >= Threshold /\ failed' = failed /\ failures' <= failed
    BY <1>5, <2>1 DEF Clear, OpensWhenFailed, Tried
  <2> QED BY <2>2 DEF OpensWhenFailed
<1> QED BY <1>1, <1>2, <1>3, <1>4, <1>5 DEF Admit

LEMMA OpensSettle ==
    ASSUME TypeOK, OpensWhenFailed, NEW d \in Delivery,
           Settle(d) \/ Opens(d) \/ Release(d) \/ Unrecorded(d) \/ Dies(d)
    PROVE  OpensWhenFailed'
<1>0. failed \in Nat /\ failures \in Nat /\ Threshold \in Nat
  BY BreakerAssumption DEF TypeOK
<1>1. CASE PassSucceeds(d)
  <2>1. at'[d] = "idle" /\ \A e \in Delivery \ {d} : at'[e] = at[e]
    BY <1>1, Others DEF PassSucceeds, Stage
  <2> QED BY <1>0, <1>1, <2>1 DEF PassSucceeds, OpensWhenFailed, Tried
<1>2. CASE PassFails(d)
  <2>1. PICK to \in {"idle", "opening"} :
          Move(d, "passed", to) /\ (to = "opening" => failures + 1 >= Threshold)
    BY <1>2 DEF PassFails
  <2>2. at'[d] = to /\ \A e \in Delivery \ {d} : at'[e] = at[e]
    BY <2>1, Others DEF Stage
  <2>3. /\ failures' = failures + 1 /\ failed' = failed + 1
        /\ UNCHANGED <<recovery, lock>>
    BY <1>2 DEF PassFails, Fails
  <2>4. failures' <= failed' /\ (failed >= Threshold => failed' >= Threshold)
        /\ (to = "opening" => failed' >= Threshold)
    BY <1>0, <2>1, <2>3 DEF OpensWhenFailed
  <2> QED BY <2>2, <2>3, <2>4 DEF OpensWhenFailed, Tried
<1>3. CASE ProbeSucceeds(d) \/ ProbeFails(d) \/ Opens(d)
  <2>1. at[d] \in Tried
    BY <1>3 DEF ProbeSucceeds, ProbeFails, Opens, Move, Tried
  <2>2. failures' = failures /\ (failed' = failed \/ failed' = failed + 1)
    BY <1>3 DEF ProbeSucceeds, ProbeFails, Opens, Fails
  <2>3. failed' >= Threshold /\ failures' <= failed'
    BY <1>0, <2>1, <2>2 DEF OpensWhenFailed
  <2> QED BY <2>3 DEF OpensWhenFailed
<1>4. CASE Release(d)
  <2>1. at[d] \in Tried /\ UNCHANGED <<failures, failed>>
    BY <1>4 DEF Release, Move, Tried
  <2> QED BY <2>1 DEF OpensWhenFailed
<1>5. CASE Unrecorded(d)
  <2>1. /\ at'[d] = IF at[d] = "probing" THEN "releasing" ELSE "idle"
        /\ \A e \in Delivery \ {d} : at'[e] = at[e]
    BY <1>5 DEF Unrecorded, TypeOK
  <2> QED BY <1>5, <2>1 DEF Unrecorded, OpensWhenFailed, redis, Tried
<1>6. CASE Dies(d)
  <2>1. at'[d] = "idle" /\ \A e \in Delivery \ {d} : at'[e] = at[e]
    BY <1>6 DEF Dies, TypeOK
  <2>2. lock' # Free => lock # Free
    BY <1>6, Kinds DEF Dies
  <2> QED BY <1>6, <2>1, <2>2 DEF Dies, OpensWhenFailed, Tried
<1> QED BY <1>1, <1>2, <1>3, <1>4, <1>5, <1>6 DEF Settle

LEMMA OpensNext == TypeOK /\ OpensWhenFailed /\ [Next]_vars => OpensWhenFailed'
<1> SUFFICES ASSUME TypeOK, OpensWhenFailed, [Next]_vars PROVE OpensWhenFailed'
  OBVIOUS
<1>1. ASSUME NEW d \in Delivery,
             Admit(d) \/ Settle(d) \/ Opens(d) \/ Release(d) \/ Errs(d)
      PROVE  OpensWhenFailed'
  BY <1>1, OpensAdmit, OpensSettle DEF Errs
<1>2. CASE Tick
  <2>1. recovery' # Closed => recovery # Closed
    BY <1>2 DEF Tick, Less, Closed, TypeOK
  <2>2. lock' # Free => lock # Free
    BY <1>2 DEF Tick
  <2> QED BY <1>2, <2>1, <2>2 DEF Tick, OpensWhenFailed
<1>3. CASE UNCHANGED vars
  BY <1>3 DEF vars, redis, OpensWhenFailed
<1> QED BY <1>1, <1>2, <1>3 DEF Next

\* Nothing holds the deliveries to an inbox back before Threshold of them have failed.
THEOREM OpensCorrect == Spec => []OpensWhenFailed
<1>1. Init => OpensWhenFailed
  BY DEF Init, OpensWhenFailed, Tried
<1> QED BY <1>1, OpensNext, TypeCorrect, PTL DEF Spec

-----------------------------------------------------------------------------
(* The tracker *)

\* DeliveryTracker's assumption, of the constants it is given here.
TrackerConstants ==
    /\ Home \in [Task -> Process]
    /\ FailureDays \in Nat \ {0} /\ MaxTroubles \in Nat /\ MaxErrors \in Nat

LEMMA TrackerInit == ASSUME TrackerConstants, Tracker!Init PROVE Tracker!TypeOK
<1>1. /\ days \in 0..troubles /\ troubles \in 0..MaxTroubles /\ trackerErrors \in 0..MaxErrors
  <2>1. days = 0 /\ troubles = 0 /\ trackerErrors = 0
    BY DEF Tracker!Init
  <2>2. MaxTroubles \in Nat /\ MaxErrors \in Nat
    BY DEF TrackerConstants
  <2> QED BY <2>1, <2>2
<1>2. /\ call \in [Task -> Tracker!Stage]
      /\ \A t \in Task : call[t] # "marking"
  BY DEF Tracker!Init, Tracker!Stage
<1>3. /\ mark \in BOOLEAN
      /\ copy \in [Process -> BOOLEAN] /\ fresh \in [Process -> BOOLEAN]
      /\ reader \in [Process -> Tracker!Reader]
  BY DEF Tracker!Init, Tracker!Reader
<1> QED BY <1>1, <1>2, <1>3 DEF Tracker!TypeOK

\* A call that moves on, among calls that stay.
LEMMA TrackerMoves ==
    ASSUME Tracker!TypeOK, NEW t \in Task, NEW from, NEW to \in Tracker!Stage,
           Tracker!Move(t, from, to)
    PROVE  /\ call' \in [Task -> Tracker!Stage] /\ call'[t] = to
           /\ \A u \in Task : u # t => call'[u] = call[u]
  BY DEF Tracker!TypeOK, Tracker!Move

\* What a call does to the failures counted and to itself.
LEMMA TrackerCalls ==
    ASSUME TrackerConstants, Tracker!TypeOK, NEW t \in Task,
           \/ Tracker!Fail(t) \/ Tracker!Succeed(t) \/ Tracker!Continue(t)
           \/ Tracker!ClearFailures(t) \/ Tracker!Restart(t) \/ Tracker!Stop(t)
           \/ Tracker!Abandon(t)
    PROVE  /\ call' \in [Task -> Tracker!Stage]
           /\ days' \in 0..troubles' /\ troubles' \in 0..MaxTroubles
           /\ \A u \in Task : call'[u] = "marking" => troubles' >= FailureDays
           /\ trackerErrors' \in 0..MaxErrors
<1>0. /\ days \in Nat /\ troubles \in Nat /\ days <= troubles /\ troubles <= MaxTroubles
      /\ MaxTroubles \in Nat /\ FailureDays \in Nat /\ MaxErrors \in Nat
      /\ trackerErrors \in Nat /\ trackerErrors <= MaxErrors
      /\ call \in [Task -> Tracker!Stage]
      /\ \A u \in Task : call[u] = "marking" => troubles >= FailureDays
  BY DEF TrackerConstants, Tracker!TypeOK
<1>1. CASE Tracker!Fail(t)
  <2>1. /\ call' \in [Task -> Tracker!Stage] /\ call'[t] = "counting"
        /\ \A u \in Task : u # t => call'[u] = call[u]
    BY <1>1, TrackerMoves DEF Tracker!Fail, Tracker!Stage
  <2>2. troubles' = troubles + 1 /\ troubles' <= MaxTroubles /\ trackerErrors' = trackerErrors
    BY <1>0, <1>1 DEF Tracker!Fail, Tracker!Trouble
  <2>3. days' \in 0..troubles'
    BY <1>0, <1>1, <2>2 DEF Tracker!Fail
  <2> QED BY <1>0, <2>1, <2>2, <2>3
<1>2. CASE Tracker!Succeed(t) \/ Tracker!Restart(t)
  <2>1. /\ call' \in [Task -> Tracker!Stage] /\ call'[t] # "marking"
        /\ \A u \in Task : u # t => call'[u] = call[u]
    BY <1>2, TrackerMoves DEF Tracker!Succeed, Tracker!Restart, Tracker!Stage
  <2>2. days' = 0 /\ troubles' = troubles /\ trackerErrors' = trackerErrors
    BY <1>2 DEF Tracker!Succeed, Tracker!Restart, Tracker!bounds
  <2> QED BY <1>0, <2>1, <2>2
<1>3. CASE Tracker!Count(t)
  <2>1. PICK to \in {"marking", "idle"} :
          Tracker!Move(t, "counting", to) /\ (to = "marking" => days >= FailureDays)
    BY <1>3 DEF Tracker!Count
  <2>2. /\ call' \in [Task -> Tracker!Stage] /\ call'[t] = to
        /\ \A u \in Task : u # t => call'[u] = call[u]
    BY <2>1, TrackerMoves DEF Tracker!Stage
  <2>3. days' = days /\ troubles' = troubles /\ trackerErrors' = trackerErrors
    BY <1>3 DEF Tracker!Count, Tracker!bounds
  <2> QED BY <1>0, <2>1, <2>2, <2>3
<1>4. CASE \/ Tracker!Mark(t) \/ Tracker!Forget(t) \/ Tracker!Unmark(t)
           \/ Tracker!UnmarkIfRemembered(t) \/ Tracker!RestartUnmarks(t)
  <2>1. /\ call' \in [Task -> Tracker!Stage] /\ call'[t] # "marking"
        /\ \A u \in Task : u # t => call'[u] = call[u]
    <3>1. PICK from \in Tracker!Stage, to \in {"idle", "unmarking", "forgetting"} :
             Tracker!Move(t, from, to)
      BY <1>4 DEF Tracker!Mark, Tracker!Forget, Tracker!Unmark, Tracker!UnmarkIfRemembered,
                  Tracker!RestartUnmarks, Tracker!Stage
    <3> QED BY <3>1, TrackerMoves DEF Tracker!Stage
  <2>2. days' = days /\ troubles' = troubles /\ trackerErrors' = trackerErrors
    BY <1>4 DEF Tracker!Mark, Tracker!Forget, Tracker!Unmark, Tracker!UnmarkIfRemembered,
                Tracker!RestartUnmarks, Tracker!bounds
  <2> QED BY <1>0, <2>1, <2>2
<1>5. CASE Tracker!ClearFailures(t)
  BY <1>0, <1>5 DEF Tracker!ClearFailures, Tracker!bounds
<1>6. CASE Tracker!Stop(t)
  <2>1. /\ call' \in [Task -> Tracker!Stage] /\ call'[t] # "marking"
        /\ \A u \in Task : u # t => call'[u] = call[u]
    BY <1>6, TrackerMoves DEF Tracker!Stop, Tracker!Stage
  <2>2. /\ days' = days /\ troubles' = troubles + 1 /\ troubles' <= MaxTroubles
        /\ trackerErrors' = trackerErrors
    BY <1>0, <1>6 DEF Tracker!Stop, Tracker!Trouble
  <2> QED BY <1>0, <2>1, <2>2
<1>7. CASE Tracker!Abandon(t)
  <2>1. call' \in [Task -> Tracker!Stage] /\ \A u \in Task : call'[u] \in {"idle", call[u]}
    BY <1>0, <1>7 DEF Tracker!Abandon, Tracker!Stage
  <2>2. /\ days' = days /\ troubles' = troubles
        /\ trackerErrors' = trackerErrors + 1 /\ trackerErrors' <= MaxErrors
    BY <1>0, <1>7 DEF Tracker!Abandon, Tracker!Error
  <2> QED BY <1>0, <2>1, <2>2
<1> QED BY <1>1, <1>2, <1>3, <1>4, <1>5, <1>6, <1>7 DEF Tracker!Continue

\* The mark and the processes' copies of it.
LEMMA TrackerCopies ==
    ASSUME Tracker!TypeOK, NEW t \in Task,
           \/ Tracker!Fail(t) \/ Tracker!Succeed(t) \/ Tracker!Continue(t)
           \/ Tracker!ClearFailures(t) \/ Tracker!Restart(t) \/ Tracker!Stop(t)
           \/ Tracker!Abandon(t)
    PROVE  /\ mark' \in BOOLEAN /\ copy' \in [Process -> BOOLEAN]
           /\ fresh' \in [Process -> BOOLEAN] /\ reader' \in [Process -> Tracker!Reader]
<1>1. CASE Tracker!Forget(t)
  BY <1>1 DEF Tracker!Forget, Tracker!TypeOK
<1>2. CASE Tracker!UnmarkIfRemembered(t)
  BY <1>2 DEF Tracker!UnmarkIfRemembered, Tracker!Asked, Tracker!TypeOK, Tracker!Reader
<1>3. CASE ~Tracker!Forget(t) /\ ~Tracker!UnmarkIfRemembered(t)
  <2>1. mark' \in BOOLEAN /\ UNCHANGED Tracker!copies
    BY <1>3 DEF Tracker!Fail, Tracker!Succeed, Tracker!Continue, Tracker!ClearFailures,
                Tracker!Restart, Tracker!Stop, Tracker!Abandon, Tracker!Count, Tracker!Mark,
                Tracker!Unmark, Tracker!RestartUnmarks, Tracker!TypeOK
  <2> QED BY <2>1 DEF Tracker!copies, Tracker!TypeOK
<1> QED BY <1>1, <1>2, <1>3

LEMMA TrackerProcesses ==
    ASSUME TrackerConstants, Tracker!TypeOK, NEW p \in Process,
           \/ Tracker!Ask(p) \/ Tracker!Read(p) \/ Tracker!ReadFails(p)
           \/ Tracker!Store(p) \/ Tracker!Age(p) \/ Tracker!Crash(p)
    PROVE  Tracker!TypeOK'
<1>1. CASE Tracker!Ask(p) \/ Tracker!Read(p) \/ Tracker!Store(p) \/ Tracker!Age(p)
  <2>1. UNCHANGED <<days, mark, call, Tracker!bounds>>
    BY <1>1 DEF Tracker!Ask, Tracker!Read, Tracker!Store, Tracker!Age
  <2>2. /\ copy' \in [Process -> BOOLEAN] /\ fresh' \in [Process -> BOOLEAN]
        /\ reader' \in [Process -> Tracker!Reader]
    BY <1>1 DEF Tracker!Ask, Tracker!Asked, Tracker!Read, Tracker!Store, Tracker!Age,
                Tracker!TypeOK, Tracker!Reader
  <2> QED BY <2>1, <2>2 DEF Tracker!TypeOK, Tracker!bounds
<1>2. CASE Tracker!ReadFails(p) \/ Tracker!Crash(p)
  <2>1. /\ UNCHANGED <<days, mark, troubles>> /\ trackerErrors' \in 0..MaxErrors
        /\ call' \in [Task -> Tracker!Stage]
        /\ \A t \in Task : call'[t] \in {"idle", call[t]}
    BY <1>2 DEF Tracker!ReadFails, Tracker!Crash, Tracker!Error, Tracker!TypeOK,
                Tracker!Stage, TrackerConstants
  <2>2. /\ copy' \in [Process -> BOOLEAN] /\ fresh' \in [Process -> BOOLEAN]
        /\ reader' \in [Process -> Tracker!Reader]
    BY <1>2 DEF Tracker!ReadFails, Tracker!Crash, Tracker!TypeOK, Tracker!Reader
  <2> QED BY <2>1, <2>2 DEF Tracker!TypeOK
<1> QED BY <1>1, <1>2

LEMMA TrackerNext ==
    ASSUME TrackerConstants, Tracker!TypeOK, [Tracker!Next]_(Tracker!vars)
    PROVE  Tracker!TypeOK'
<1>1. ASSUME NEW t \in Task,
             \/ Tracker!Fail(t) \/ Tracker!Succeed(t) \/ Tracker!Continue(t)
             \/ Tracker!ClearFailures(t) \/ Tracker!Restart(t) \/ Tracker!Stop(t)
             \/ Tracker!Abandon(t)
      PROVE  Tracker!TypeOK'
  BY <1>1, TrackerCalls, TrackerCopies DEF Tracker!TypeOK
<1>2. CASE UNCHANGED Tracker!vars
  BY <1>2 DEF Tracker!vars, Tracker!copies, Tracker!bounds, Tracker!TypeOK
<1> QED BY <1>1, <1>2, TrackerProcesses DEF Tracker!Next

\* The tracker counts no more days than there were failures, and is about to mark a host
\* for them only once Threshold attempts on it have failed, however the calls of all
\* processes interleave, fail and die between their statements (track_failure_at).
THEOREM TrackerTypeCorrect ==
    ASSUME TrackerConstants PROVE Tracker!Spec => []Tracker!TypeOK
<1>1. Tracker!Init => Tracker!TypeOK
  BY TrackerInit
<1>2. Tracker!TypeOK /\ [Tracker!Next]_(Tracker!vars) => Tracker!TypeOK'
  BY TrackerNext
<1> QED BY <1>1, <1>2, PTL DEF Tracker!Spec

=============================================================================
