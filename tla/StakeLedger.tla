----------------------------- MODULE StakeLedger -----------------------------
(***************************************************************************)
(* What the adaptor promises an indexer about stakes, with no database, no *)
(* handlers and no failures: a block is received once, and with it, in the *)
(* same step, every stake that the ledger returns at its height, at its    *)
(* full amount, in the coin of its pool, and nothing else.  What was       *)
(* withdrawn before the first block that is served is known from the       *)
(* snapshot only; of these stakes any may be missing.                      *)
(***************************************************************************)
EXTENDS Integers

CONSTANTS
    Stake,          \* stakes withdrawn on the chain
    Height,         \* blocks that are served
    WithdrawnAt,    \* height of the block that withdraws a stake
    LockPeriod,     \* blocks between a withdrawal and the return
    Credit(_)       \* what the ledger credits when a stake is returned

VARIABLES
    received,       \* blocks the indexer has
    returns         \* the stakes returned in each of them, with their coins

vars == <<received, returns>>

Due(h) == {s \in Stake : WithdrawnAt[s] + LockPeriod = h}
Served(s) == WithdrawnAt[s] \in Height

Init ==
    /\ received = {}
    /\ returns = [h \in Height |-> {}]

\* Block h arrives after the blocks whose withdrawals it returns.
Receive(h) ==
    /\ h \notin received
    /\ \A g \in Height : g + LockPeriod <= h => g \in received
    /\ \E older \in SUBSET {s \in Due(h) : ~Served(s)} :
          returns' = [returns EXCEPT ![h] =
              {<<s, Credit(s)>> : s \in {t \in Due(h) : Served(t)} \cup older}]
    /\ received' = received \cup {h}

Next == \E h \in Height : Receive(h)

Spec == Init /\ [][Next]_vars
=============================================================================
