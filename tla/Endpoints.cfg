SPECIFICATION Spec
CONSTANTS
    MaxSignals = 2
    Tx = {"t1"}
    SnapshotHeight = 2
    MaxHeight = 3
    Worker = {w1}
    Faults = {"down", "error", "hang"}
    MaxFaults = 2
INVARIANT AnnouncedIsFinal
CHECK_DEADLOCK FALSE
