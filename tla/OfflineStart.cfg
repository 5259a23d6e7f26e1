SPECIFICATION Spec
CONSTANTS
    MaxSignals = 0
    Tx = {"t1"}
    SnapshotHeight = 2
    MaxHeight = 3
    Worker = {w1}
    Faults = {}
    MaxFaults = 0
INVARIANT OfflineStart
CHECK_DEADLOCK FALSE
