SPECIFICATION FairSpec
CONSTANTS
    MaxSignals = 0
    Tx = {"t1"}
    SnapshotHeight = 2
    MaxHeight = 3
    Worker = {w1}
    Faults = {"hang"}
    MaxFaults = 1
PROPERTY RequestsTimeOut
CHECK_DEADLOCK FALSE
