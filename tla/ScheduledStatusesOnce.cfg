\* One healthy process and one statement that fails: is a schedule posted once?
SPECIFICATION Spec
CONSTANTS
  p = p  q = q  s = s  b = b
  Publisher = {p}
  Mortal = {}
  Schedule = {s}
  Blank = {}
  MaxAttempts = 2
  MaxFailures = 3
  MaxErrors = 1
INVARIANTS PostedOnce
CHECK_DEADLOCK FALSE
