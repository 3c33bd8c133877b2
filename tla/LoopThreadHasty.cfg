CONSTANTS
  main = main
  other = other
  Client = main
  Producer <- Producers
  Stopper <- Clients
  Owner = owner
  Task = {t1, t2}
  NoTask = NoTask
  MaxTasks = 2
SPECIFICATION ThreadSpec
PROPERTY JoinReturns
CHECK_DEADLOCK FALSE
