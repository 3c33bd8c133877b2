CONSTANTS
  c1 = c1
  c2 = c2
  Conn <- Conns
  Fd = {1, 2}
  None = None
  Rate = Rate
  Configs <- Scripts
  PendingMod = 8
SPECIFICATION Spec
CHECK_DEADLOCK FALSE
INVARIANT EventsFollowSockets
INVARIANT NeverStalled
INVARIANT AwaitsWhatIsOwed
PROPERTY StopEndsThread
