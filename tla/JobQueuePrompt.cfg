\* Every task prompt: nothing is executed twice at once.
SPECIFICATION Spec
CONSTANTS
  u1 = u1  u2 = u2  x1 = x1  x2 = x2  n1 = n1  z1 = z1
  w1 = w1  w2 = w2  r1 = r1  r2 = r2  r3 = r3
  None = None
  Id = {u1, n1}
  Task <- TaskSet
  TaskOf <- TaskOfRow
  Retries <- RetriesOf
  KeepDead <- KeepDeadOf
  LockOf <- LocksOf
  Ttl <- TtlOf
  Known <- KnownTasks
  Worker = {w1, w2}
  Runner = {r1, r2, r3}
  Owner <- OwnerTwo
  Delays = {0}
  RetryDelays = {1}
  Lease = 3
  Heartbeat = 1
  Finish = 1
  Prompt <- Working
  MaxErrors = 1
  MaxRows = 2
SYMMETRY Symmetry
INVARIANTS TypeOK OneRunner AttemptsBounded
