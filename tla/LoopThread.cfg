CONSTANTS
  main = main
  other = other
  Client = main
  Producer <- Producers
  Stopper <- Clients
  Owner = owner
  Task = {t1, t2}
  NoTask = NoTask
  MaxTasks = 3
SPECIFICATION ThreadSpec
INVARIANT StopOnLiveLoop
INVARIANT NoLostWakeup
PROPERTY BatchNeverGrows
PROPERTY QueueSafety
PROPERTY QueueServed
PROPERTY JoinReturnsOnceServed
CHECK_DEADLOCK FALSE
