SPECIFICATION FairSpec
CONSTANT MaxInits = 3
INVARIANTS TypeOK ThreadMatchesCalls
PROPERTIES ShutdownReturns ShutdownReturnsWithClient
CHECK_DEADLOCK FALSE
