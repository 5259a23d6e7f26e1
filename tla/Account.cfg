SPECIFICATION Spec
CONSTANTS
    MaxHeight = 3
    Balance <- MCBalance
    OrphanBalance <- MCOrphanBalance
    NoAccount = NoAccount
    Nil = Nil
    Request <- MCRequest
    Online = TRUE
    Worker = {w1}
    Faults = {"down", "error", "server"}
INVARIANT BalanceOfItsBlock
INVARIANT CoinsNotOlder
