CONSTANTS
  Conn = {c1, c2, c3}
  Base = base
  None = None
  Counts = {0, 2, 3}
  Inactive = TRUE
  MaxTimers = 2
SPECIFICATION FairSpec
INVARIANT IdsDistinct
INVARIANT ConnectedIsHeld
INVARIANT ConnectedIsTimed
PROPERTY EveryConnectionServed
CHECK_DEADLOCK FALSE
