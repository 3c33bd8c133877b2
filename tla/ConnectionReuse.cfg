CONSTANTS
  c1 = c1
  c2 = c2
  f1 = f1
  Conn <- Conns
  Fd <- OneFd
  None = None
  Elsewhere = Elsewhere
  Pools = {FALSE}
  Inactive = TRUE
  AppOps = {}
  MaxData = 1
  MaxOut = 1
  MaxTasks = 2
SPECIFICATION Spec
INVARIANT WatchesOwnConnections
