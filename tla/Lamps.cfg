SPECIFICATION LampsFairSpec
CONSTANT Turn = {"TURN_LEFT", "TURN_RIGHT"}
INVARIANTS NavTypeOK DriveOnlyInRun InitializeBeforeGo
PROPERTIES AbortWins LampsFollow
