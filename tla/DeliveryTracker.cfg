\* Two processes, failures and stops, failing statements and crashes: the host is delivered to again.
SPECIFICATION FairSpec
CONSTANTS
  p = p  q = q  a = a  b = b  c = c
  Process = {p, q}
  Task = {a, c}
  Home <- Apart
  Threshold = 2
  MaxTroubles = 3
  MaxErrors = 2
INVARIANTS TypeOK
PROPERTIES AnsweringHostUnmarked DeliveriesResume
