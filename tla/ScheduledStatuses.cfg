\* Two processes publish, retry and park two schedules over errors and crashes.
\* The system stops once every schedule has ended.
SPECIFICATION FairSpec
CONSTANTS
  p = p  q = q  s = s  b = b
  Publisher = {p, q}
  Mortal = {p, q}
  Schedule = {s, b}
  Blank = {b}
  MaxAttempts = 2
  MaxFailures = 5
  MaxErrors = 1
INVARIANTS TypeOK NothingLost ParkedWhenSpent PostsPerFault
PROPERTIES DueIsServed
CHECK_DEADLOCK FALSE
