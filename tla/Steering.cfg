SPECIFICATION Spec
CONSTANTS
  MaxSteer = 1
  TestAngle = 2
  Tolerance = 1
  TestTime = 3
  Periods = 2
  MaxBacklog = 2
  Angles = {1}
INVARIANT SelfTestGuards
PROPERTY AckHonest
