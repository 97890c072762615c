SPECIFICATION FilesSpec
CONSTANTS
  Texts <- MCTexts
  Garbage = {2, 3}
INVARIANTS
  NetworkIntact
  MissionIntact
  SpeedsAsStated
  EdgesAnchored
  ChangesLegal
  PolysFollowRoad
  MissionRestored
CHECK_DEADLOCK FALSE
