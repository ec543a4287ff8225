\* Two requests for one thread, a reply, one retry.
SPECIFICATION FairSpec
CONSTANTS
  Request = {q1, q2}
  Reply = {r1}
  None = None
  MaxRetries = 1
  MaxFaults = 1
  MaxLost = 1
CHECK_DEADLOCK FALSE
INVARIANTS TypeOK FinishedWhenDone EarlyByRepeats LeftByFaults ResultsCounted
PROPERTIES RefreshEnds
CONSTRAINT NothingLost
