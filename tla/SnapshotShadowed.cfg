SPECIFICATION Spec
CONSTANTS
    Stake = {"v1", "u1", "g1", "g2", "e2", "v3"}
    Pool <- MCPool
    Amount <- MCAmount
    WithdrawnAt <- MCWithdrawnAt
    SnapshotHeight = 2
    FirstHeight = 3
    MaxHeight = 4
    LockPeriod = 2
    BlockTxs <- MCBlockTxs
    OrphanTxs <- MCOrphanTxs
    SnapshotRows <- MCSnapshotRows
    Worker = {w1}
    Faults = {}
    MaxFaults = 0
    Window = 2
INVARIANT SnapshotPopulated
