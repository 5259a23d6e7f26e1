SPECIFICATION Spec
CONSTANTS
    Stake = {"v1", "g2", "v3"}
    Pool <- MCPool
    Amount <- MCAmount
    WithdrawnAt <- MCWithdrawnAt
    SnapshotHeight = 2
    FirstHeight = 3
    MaxHeight = 4
    LockPeriod = 2
    BlockTxs <- MCBlockTxs
    OrphanTxs <- MCOrphanTxs
    SnapshotRows <- MCSnapshotRows
    Worker = {w1}
    Faults = {"crash"}
    MaxFaults = 1
    Window = 2
INVARIANT SnapshotPopulated
