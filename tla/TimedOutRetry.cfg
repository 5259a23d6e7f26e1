SPECIFICATION SyncSpec
CONSTANTS
    Stake = {"v3", "g3", "e3"}
    Pool <- MCPool
    Amount <- MCAmount
    WithdrawnAt <- MCWithdrawnAt
    SnapshotHeight = 2
    FirstHeight = 3
    MaxHeight = 4
    LockPeriod = 2
    BlockTxs <- MCBlockTxs
    OrphanTxs <- MCOrphanTxs
    SnapshotRows <- MCSnapshotRows
    Worker = {w1, w2}
    Faults = {"timeout"}
    MaxFaults = 1
    Window = 2
INVARIANT SettledIsRecorded
CHECK_DEADLOCK FALSE
