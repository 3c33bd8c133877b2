CONSTANTS
  o1 = o1
  o2 = o2
  id1 = id1
  id2 = id2
  Object <- Objects
  Id <- Ids
  None = None
  Expired = Expired
  Capacity = 3
  Timeout = {0, 1, 2}
  MaxUnread = 2
  Byte = {x, nl, zero}
  Newline = nl
  Zero = zero
  Default = 2
  Limit = 7
  MaxWrite = 4
  Writes <- Strings
SPECIFICATION EitherSpec
INVARIANT FiresOnTime
INVARIANT EntriesMatchTasks
INVARIANT TurnsMatchSeconds
PROPERTY WheelCountsDown
PROPERTY TasksDie
PROPERTY BufferIsQueue
PROPERTY FailsOnlyAtLimit
