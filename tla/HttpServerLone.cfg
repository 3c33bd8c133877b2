CONSTANTS
  Inputs <- Messages
  MaxLine = 2
  Status = {200, 404}
  HandlerSays = {"close", "keep-alive"}
  Meant <- Targets
SPECIFICATION Spec
INVARIANT LoneParameterIsRead
CHECK_DEADLOCK FALSE
