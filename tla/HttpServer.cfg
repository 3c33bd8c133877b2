CONSTANTS
  Inputs <- Streams
  MaxLine = 2
  Status = {200, 404}
  HandlerSays = {"close", "keep-alive"}
  Meant <- Targets
SPECIFICATION FairSpec
INVARIANT NothingLeftBehind
INVARIANT KeepsItsWord
INVARIANT TargetIsMeant
PROPERTY CutsDoNotMatter
PROPERTY HandlerReturns
CHECK_DEADLOCK FALSE
