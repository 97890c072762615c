SPECIFICATION Spec
CONSTANTS
  Full = 2
  Threshold = 1
  Limit = 1
  Travel = 2
  EncoderMax = 3
  PressureOff = 0
  OffStep = 1
  OnStep = 1
  MaxMoves = 2
  MaxRetries = 2
  MaxSlip = 1
  Positions = {2}
  ApplyOnExit = FALSE
INVARIANTS RangeKept TrainingUntouched
CHECK_DEADLOCK FALSE
