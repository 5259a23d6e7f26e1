SPECIFICATION Spec
CONSTANTS
    Stake = {"v1", "u1", "g1", "g2", "e2", "v3", "e4", "g5"}
    Pool <- MCPool
    Amount <- MCAmount
    WithdrawnAt <- MCWithdrawnAt
    SnapshotHeight = 2
    FirstHeight = 2
    MaxHeight = 4
    LockPeriod = 2
    BlockTxs <- MCBlockTxs
    OrphanTxs <- MCOrphanTxs
    SnapshotRows <- MCSnapshotRows
    Worker = {w1, w2}
    Faults = {"crash", "open", "rpc", "empty", "read", "write", "timeout", "orphan"}
    MaxFaults = 2
    Window = 2
SYMMETRY WorkerSymmetry
INVARIANT TypeOK
INVARIANT ReturnsAreDue
INVARIANT NoDoubleEntry
INVARIANT SnapshotKeepsFirst
