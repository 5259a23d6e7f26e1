SPECIFICATION Spec
CONSTANTS
    alice = alice
    bob = bob
    Account = {alice, bob}
    Nil = Nil
    Transaction <- MCTransaction
INVARIANT BalancesUpToFees
CHECK_DEADLOCK FALSE
