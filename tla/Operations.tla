----------------------------- MODULE Operations -----------------------------
(***************************************************************************)
(* How ParseTx turns a ledger transaction into Rosetta operations: one     *)
(* action per ParseXxxTx of common/utils.go.  A client rebuilds balances   *)
(* by adding up the amounts of the operations, so the sums must be right   *)
(* for every transaction the node can deliver.                             *)
(***************************************************************************)
EXTENDS Parsers

CONSTANTS
    Account,      \* addresses
    Transaction   \* the transactions to parse

Coin == {Nil} \cup Nat
Party == [addr : Account, theta : Coin, tfuel : Coin]
Change == [addr : Account, token : Nat, negative : BOOLEAN, delta : Nat]

Kind == {"coinbase", "slash", "send", "reserveFund", "releaseFund",
         "servicePayment", "splitRule", "smartContract", "construction",
         "depositStake", "withdrawStake", "returnStake", "stakeReward"}

\* The kind "construction" is a SmartContractTx parsed for /construction/parse.
ASSUME TransactionAssumption ==
    /\ Nil \notin Int
    /\ \A tx \in Transaction :
        /\ tx.kind \in Kind
        /\ tx.ins \in Seq(Party) /\ Len(tx.ins) > 0
        /\ tx.outs \in Seq(Party)
        /\ tx.fee \in Nat /\ tx.gasPrice \in Nat /\ tx.gasUsed \in Nat
        /\ tx.changes = Nil \/ tx.changes \in Seq(Change)
        /\ tx.kind \in {"servicePayment", "splitRule"} => tx.ins[1].tfuel # Nil
        /\ tx.kind \in {"servicePayment", "coinbase"} =>
              \A i \in DOMAIN tx.outs : tx.outs[i].tfuel # Nil
        /\ tx.kind \in {"servicePayment", "stakeReward", "construction"} => Len(tx.outs) > 0

-----------------------------------------------------------------------------
VARIABLES
    tx,       \* the transaction in hand
    ops,      \* its operations
    outcome   \* "pending", "parsed" or "panic"

vars == <<tx, ops, outcome>>

Init == tx \in Transaction /\ ops = <<>> /\ outcome = "pending"

\* The switch of ParseTx (and, for "returnStake" and "construction", the two
\* other callers): transactions of this kind become these operations.
Parse(kind, operations) ==
    /\ outcome = "pending" /\ tx.kind = kind
    /\ ops' = operations
    /\ outcome' = "parsed"
    /\ UNCHANGED tx

Coinbase == Parse("coinbase", ParseCoinbaseTx(tx))
Slash == Parse("slash", ParseSlashTx(tx))
Send == Parse("send", ParseSendTx(tx))
ReserveFund == Parse("reserveFund", ParseReserveFundTx(tx))
ReleaseFund == Parse("releaseFund", ParseReleaseFundTx(tx))
ServicePayment == Parse("servicePayment", ParseServicePaymentTx(tx))
SplitRule == Parse("splitRule", ParseSplitRuleTx(tx))
Construction == Parse("construction", ParseSmartContractTxForConstruction(tx))
DepositStake == Parse("depositStake", ParseDepositStakeTx(tx))
WithdrawStake == Parse("withdrawStake", ParseWithdrawStakeTx(tx))
ReturnStake == Parse("returnStake", ParseReturnStakeTx(tx))
StakeReward == Parse("stakeReward", ParseStakeRewardDistributionTx(tx))

SmartContract == tx.changes # Nil /\ Parse("smartContract", ParseSmartContractTx(tx))

\* A node that keeps no balance changes sends none: nil is dereferenced.
SmartContractPanics ==
    /\ outcome = "pending" /\ tx.kind = "smartContract" /\ tx.changes = Nil
    /\ outcome' = "panic"
    /\ UNCHANGED <<tx, ops>>

Next ==
    \/ Coinbase \/ Slash \/ Send \/ ReserveFund \/ ReleaseFund
    \/ ServicePayment \/ SplitRule \/ SmartContract \/ SmartContractPanics
    \/ Construction \/ DepositStake \/ WithdrawStake \/ ReturnStake \/ StakeReward

Spec == Init /\ [][Next]_vars

-----------------------------------------------------------------------------
(* Correctness.                                                             *)

\* What a client adds up for an account and a currency.
OpsDelta(a, c) ==
    SumFunction([n \in DOMAIN ops |->
                    IF ops[n].account = a /\ ops[n].currency = c
                    THEN ops[n].value ELSE 0])

CoinsOf(parties, a, c) ==
    SumFunction([i \in DOMAIN parties |->
                    IF parties[i].addr # a THEN 0
                    ELSE OrZero(IF c = "THETA" THEN parties[i].theta ELSE parties[i].tfuel)])

ChangesOf(changes, a, token) ==
    SumFunction([i \in DOMAIN changes |->
                    IF changes[i].addr # a \/ changes[i].token # token THEN 0
                    ELSE IF changes[i].negative THEN -changes[i].delta ELSE changes[i].delta])

FeeOf(a, c, payer, fee) == IF a = payer /\ c = "TFUEL" THEN fee ELSE 0

\* The kinds whose effect on the ledger follows from the transaction alone.
Tracked == {"coinbase", "send", "smartContract", "depositStake", "withdrawStake", "returnStake"}

\* What the ledger does to the balance of a in currency c.
LedgerDelta(a, c) ==
    LET payer == tx.ins[1].addr IN
    CASE tx.kind = "coinbase" -> IF c = "THETA" THEN 0 ELSE CoinsOf(tx.outs, a, c)
      [] tx.kind = "send" -> CoinsOf(tx.outs, a, c) - CoinsOf(tx.ins, a, c)
      [] tx.kind = "smartContract" ->
            ChangesOf(tx.changes, a, IF c = "THETA" THEN 0 ELSE 1)
            - FeeOf(a, c, payer, tx.gasPrice * tx.gasUsed)
      [] tx.kind = "depositStake" ->
            - CoinsOf(<<tx.ins[1]>>, a, c) - FeeOf(a, c, payer, tx.fee)
      [] tx.kind = "withdrawStake" -> - FeeOf(a, c, payer, tx.fee)
      [] tx.kind = "returnStake" -> CoinsOf(<<tx.ins[1]>>, a, c)

\* A send takes the fee out of every input but charges it once: each input
\* before the last one is reported with fee too little spent.
Understated(a, c) ==
    IF tx.kind # "send" THEN 0
    ELSE SumFunction([i \in 1..(Len(tx.ins) - 1) |-> FeeOf(a, c, tx.ins[i].addr, tx.fee)])

\* The amounts of the operations add up, for every account and currency, to
\* what the ledger does, except for the fee of a send with several inputs.
BalancesUpToFees ==
    outcome = "parsed" /\ tx.kind \in Tracked =>
        \A a \in Account, c \in {"THETA", "TFUEL"} :
            OpsDelta(a, c) = LedgerDelta(a, c) + Understated(a, c)

\* README.md, line 15: "Comprehensive tracking of all ETH balance changes".
\* The operations of a transaction account for all it does to balances.
BalancesTracked ==
    outcome = "parsed" /\ tx.kind \in Tracked =>
        \A a \in Account, c \in {"THETA", "TFUEL"} : OpsDelta(a, c) = LedgerDelta(a, c)
=============================================================================
