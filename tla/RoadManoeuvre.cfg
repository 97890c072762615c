SPECIFICATION Spec
CONSTANTS
  Kinds = {"lane", "uturn", "perimeter"}
  N_WAYPTS = 3
  PassingDelay = 2
  StopLineDelay = 1
  PrecedenceDelay = 1
  MaxObjects = 0
  LanesAlways = FALSE
  CloseWaypts = TRUE
  Prompt = FALSE
  StaleOrders = TRUE
INVARIANTS TypeOK ValidEvents ReverseOnlyInUturn PassPatience
CHECK_DEADLOCK FALSE
