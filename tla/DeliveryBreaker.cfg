\* Failing deliveries, failing commands and dying processes: one probe at a time, and it closes.
SPECIFICATION FairSpec
CONSTANTS
  d1 = d1  d2 = d2  d3 = d3  Free = Free  Lost = Lost
  Delivery = {d1, d2, d3}
  Threshold = 2
  CoolOff = 2
  Deadline = 1
  MaxFailed = 4
  MaxErrors = 1
INVARIANTS TypeOK OneProbe
PROPERTIES ClosesAgain
