\* Nobody asks anything of the API; one loop, every activity settles.
SPECIFICATION FFairSpec
CONSTANTS
  f1 = f1  u1 = u1  w1 = w1  w2 = w2
  Id = {f1, u1}
  Kind <- KindOf
  Request = {}
  Loop = {w1}
  Batch = 2
  Concurrency = 2
  MaxAttempts = 2
  MaxFaults = 1
  MaxLost = 1
CHECK_DEADLOCK FALSE
PROPERTIES EveryActivitySettles
