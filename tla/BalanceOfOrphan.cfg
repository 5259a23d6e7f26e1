SPECIFICATION Spec
CONSTANTS
    MaxHeight = 3
    Balance <- MCBalance
    OrphanBalance <- MCOrphanBalance
    NoAccount = NoAccount
    Nil = Nil
    Request <- ByOrphanHash
    Online = TRUE
    Worker = {w1}
    Faults = {}
INVARIANT AtomicBalance
