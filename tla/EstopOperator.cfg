SPECIFICATION SysFairSpec
CONSTANT CmdrPeriod = 2
PROPERTIES PauseHonoured RunStarts
INVARIANT ShutdownFinal
