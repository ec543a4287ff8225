\* Tasks as slow as they may be, crashes, stops and failed statements: every job settles.
SPECIFICATION FairSpec
CONSTANTS
  u1 = u1  u2 = u2  x1 = x1  x2 = x2  n1 = n1  z1 = z1
  w1 = w1  w2 = w2  r1 = r1  r2 = r2  r3 = r3
  None = None
  Id = {x1, z1}
  Task <- TaskSet
  TaskOf <- TaskOfRow
  Retries <- RetriesOf
  KeepDead <- KeepDeadOf
  LockOf <- LocksOf
  Ttl <- TtlOf
  Known <- KnownTasks
  Worker = {w1, w2}
  Runner = {r1, r3}
  Owner <- OwnerTwo
  Delays = {0}
  RetryDelays = {0}
  Lease = 1
  Heartbeat = 0
  Finish = 0
  Prompt = {}
  MaxErrors = 1
  MaxRows = 1

PROPERTIES EveryJobSettles
