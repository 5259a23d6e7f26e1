SPECIFICATION FairSyncSpec
CONSTANTS
    Stake = {"v1", "g2", "v3", "e3", "e4"}
    Pool <- MCPool
    Amount <- MCAmount
    WithdrawnAt <- MCWithdrawnAt
    SnapshotHeight = 2
    FirstHeight = 3
    MaxHeight = 5
    LockPeriod = 2
    BlockTxs <- MCBlockTxs
    OrphanTxs <- MCOrphanTxs
    SnapshotRows <- MCSnapshotRows
    Worker = {w1, w2}
    Faults = {"rpc", "empty", "read", "write", "timeout"}
    MaxFaults = 2
    Window = 2
PROPERTY EverythingAnswered
CHECK_DEADLOCK FALSE
