SPECIFICATION SyncSpec
CONSTANTS
    Stake = {"v1", "g2", "v3", "g3", "e3", "e4"}
    Pool <- MCPool
    Amount <- MCAmount
    WithdrawnAt <- MCWithdrawnAt
    SnapshotHeight = 2
    FirstHeight = 3
    MaxHeight = 7
    LockPeriod = 3
    BlockTxs <- MCBlockTxs
    OrphanTxs <- MCOrphanTxs
    SnapshotRows <- MCSnapshotRows
    Worker = {w1, w2, w3}
    Faults = {"crash", "open", "rpc", "write"}
    MaxFaults = 3
    Window = 3
INVARIANT ServedIsRecorded
INVARIANT ReturnsAreReported
PROPERTY ImplementsLedger
PROPERTY RecordedForever
CHECK_DEADLOCK FALSE
