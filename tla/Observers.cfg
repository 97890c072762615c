SPECIFICATION ObserversFairSpec
CONSTANTS
  Road <- MCRoad
  Places <- MCPlaces
  Range2 = 34
  Window = 3
  MaxCloud = 2
INVARIANT
  DistanceIsObstacle
PROPERTY
  ObservationSettles
CHECK_DEADLOCK FALSE
