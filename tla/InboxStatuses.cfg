\* A Create and its Delete, two loops, either performed again after a lapse or a fault.
SPECIFICATION SSpec
CONSTANTS
  c1 = c1  d1 = d1  w1 = w1  w2 = w2
  None = None  Nobody = Nobody
  Id = {c1, d1}
  Kind <- KindOf
  Loop = {w1, w2}
  Batch = 2
  Concurrency = 1
  MaxAttempts = 2
  MaxFaults = 1
  MaxLost = 1
SYMMETRY Symmetry
CHECK_DEADLOCK FALSE
INVARIANTS STypeOK DeleteWins  CountedOnce
PROPERTIES KeepsActivities
