SPECIFICATION Spec
CONSTANTS
    alice = alice
    bob = bob
    Account = {alice, bob}
    Nil = Nil
    Torn = Torn
    Client = {c1, c2}
    Request <- FewRequests
    Terms <- MCTerms
    OldTerms <- MCOldTerms
    DefaultGasLimit = 10
    TwoTo64 = 256
    Funds <- MCFunds
    Faults = {"down", "error", "lost"}
    MaxFaults = 0
    MaxRetries = 0
INVARIANT StatelessErrors
CHECK_DEADLOCK FALSE
