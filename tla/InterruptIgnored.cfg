SPECIFICATION FairLifeSpec
CONSTANT MaxSignals = 1
PROPERTY ForcedShutdown
CHECK_DEADLOCK FALSE
