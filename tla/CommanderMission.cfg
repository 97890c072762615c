SPECIFICATION FairSpec
CONSTANTS
  Nodes <- MCNodes
  NoWaypt = NoWaypt
  Rndf <- MCRndf
  Behind <- MCBehind
  Opposite <- MCOpposite
  Start = "a1"
  Checkpoints <- MCCheckpoints
  N_WAYPTS = 3
  Obstructible <- MCObstructible
  MaxObstacles = 2
  MaxResumes = 1
  MaxRestarts = 1
  OffRoute = FALSE
CHECK_DEADLOCK FALSE
INVARIANTS BlocksHeld CheckpointsReached RouteOpen
PROPERTIES PlanAvoidsBlock MissionCompletes
