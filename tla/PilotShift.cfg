SPECIFICATION Spec
CONSTANTS
  Relay = {"Park", "Reverse", "Neutral", "Drive"}
  Drives <- MCDrives
  LimitForward = 1
  LimitReverse = 1
  Hold = 2
  HumanSteering = FALSE
PROPERTY ShiftStopped
