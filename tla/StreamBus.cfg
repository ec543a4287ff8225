\* Streams coming and going while connections are lost: none is deaf for long.
SPECIFICATION FairSpec
CONSTANTS
  a = a  b = b  c = c  home = home  public = public  Nobody = Nobody
  Listener = {a, b, c}
  Channel = {home, public}
  Of <- Heard
  MaxQueued = 1
  MaxLosses = 1
INVARIANTS TypeOK Attached NoDeafListener NothingLeftSubscribed
PROPERTIES HeardAgain Confirms
