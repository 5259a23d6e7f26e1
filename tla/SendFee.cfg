SPECIFICATION Spec
CONSTANTS
    alice = alice
    bob = bob
    Account = {alice, bob}
    Nil = Nil
    Transaction <- Sends
INVARIANT BalancesTracked
CHECK_DEADLOCK FALSE
