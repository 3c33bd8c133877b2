CONSTANTS
  c1 = c1
  c2 = c2
  f1 = f1
  Conn <- Conns
  Fd <- OneFd
  None = None
  Elsewhere = Elsewhere
  Pools = {TRUE, FALSE}
  Inactive = TRUE
  AppOps = {"send"}
  MaxData = 1
  MaxOut = 2
  MaxTasks = 1
SPECIFICATION Spec
SYMMETRY ConnSymmetry
INVARIANT WorkersWatchOwn
INVARIANT NoStaleChannel
INVARIANT OutputIsWatched
INVARIANT NoTimerOnReleased
