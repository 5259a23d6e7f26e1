SPECIFICATION Spec
CONSTANTS
    alice = alice
    bob = bob
    Account = {alice, bob}
    Nil = Nil
    Torn = Torn
    Client = {c1, c2}
    Request <- MCRequest
    Terms <- MCTerms
    OldTerms <- MCOldTerms
    DefaultGasLimit = 10
    TwoTo64 = 256
    Funds <- MCFunds
    Faults = {"down", "error", "lost"}
    MaxFaults = 1
    MaxRetries = 1
SYMMETRY ClientSymmetry
INVARIANT BuiltAsAsked
PROPERTY RefusedForCause
CHECK_DEADLOCK FALSE
