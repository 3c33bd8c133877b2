CONSTANTS
  c1 = c1
  c2 = c2
  f1 = f1
  Conn <- Conns
  Fd <- OneFd
  None = None
  Elsewhere = Elsewhere
  Pools = {TRUE}
  Inactive = FALSE
  AppOps = {}
  MaxData = 2
  MaxOut = 2
  MaxTasks = 2
SPECIFICATION FairSpec
PROPERTY ReleaseSendsAll
PROPERTY PeerCloseReleases
