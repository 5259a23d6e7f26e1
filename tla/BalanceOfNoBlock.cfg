SPECIFICATION Spec
CONSTANTS
    MaxHeight = 3
    Balance <- MCBalance
    OrphanBalance <- MCOrphanBalance
    NoAccount = NoAccount
    Nil = Nil
    Request <- OfLatest
    Online = TRUE
    Worker = {w1}
    Faults = {"error"}
INVARIANT AtomicBalance
