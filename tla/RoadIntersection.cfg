SPECIFICATION Spec
CONSTANTS
  Kinds = {"lane", "stop", "exit", "change"}
  N_WAYPTS = 3
  PassingDelay = 1
  StopLineDelay = 2
  PrecedenceDelay = 3
  MaxObjects = 1
  LanesAlways = TRUE
  CloseWaypts = FALSE
  Prompt = TRUE
  StaleOrders = TRUE
INVARIANTS StopThenGo IntersectionPatience PrecedenceTimeout
CHECK_DEADLOCK FALSE
