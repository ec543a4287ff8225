\* A Follow, its Undo, two loops, an authorization and a block.
SPECIFICATION FSpec
CONSTANTS
  f1 = f1  u1 = u1  w1 = w1  w2 = w2
  Id = {f1, u1}
  Kind <- KindOf
  Request = {"authorize", "block"}
  Loop = {w1, w2}
  Batch = 1
  Concurrency = 1
  MaxAttempts = 2
  MaxFaults = 1
  MaxLost = 0
SYMMETRY Symmetry
CHECK_DEADLOCK FALSE
INVARIANTS FTypeOK BarredStaysOut FollowersCounted UndoneStaysUndone
