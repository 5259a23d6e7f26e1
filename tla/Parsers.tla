------------------------------- MODULE Parsers -------------------------------
(***************************************************************************)
(* The functions ParseXxxTx of common/utils.go: a ledger transaction in,   *)
(* its Rosetta operations out.  The proposer, source, initiator, from or   *)
(* holder of a transaction is the first of tx.ins, its target, to or       *)
(* beneficiary the first of tx.outs.  An operation is its type, account,   *)
(* currency and value; its index, the operations it is related to, and the *)
(* signatures, sequence numbers, status and metadata are left out.         *)
(***************************************************************************)
EXTENDS Integers, Sequences, SequencesExt

CONSTANT Nil    \* a *big.Int that is nil, or what is absent

-----------------------------------------------------------------------------
(* Amounts. *)

Piece(type, addr, currency, value) ==
    [type |-> type, account |-> addr, currency |-> currency, value |-> value]

OrZero(coin) == IF coin = Nil THEN 0 ELSE coin

Fee(addr, fee) == Piece("TxFee", addr, "TFUEL", -fee)

\* One amount per coin that is not nil.  The code also compares the coin with
\* big.NewInt(0), a new pointer, so a zero coin gets an operation as well.
CoinPieces(type, p, thetaSign, tfuelSign) ==
    (IF p.theta = Nil THEN <<>> ELSE <<Piece(type, p.addr, "THETA", thetaSign * p.theta)>>)
    \o
    (IF p.tfuel = Nil THEN <<>> ELSE <<Piece(type, p.addr, "TFUEL", tfuelSign * p.tfuel)>>)

-----------------------------------------------------------------------------
(* The parsers. *)

ParseCoinbaseTx(tx) ==
    <<Piece("CoinbaseTxProposer", tx.ins[1].addr, "TFUEL", 0)>> \o
    [i \in DOMAIN tx.outs |-> Piece("CoinbaseTxOutput", tx.outs[i].addr, "TFUEL", tx.outs[i].tfuel)]

ParseSlashTx(tx) == <<Piece("SlashTxProposer", tx.ins[1].addr, "THETA", 0)>>

\* Mutant of SendInput: the fee is not taken out of the input.
SendInputWithFee(tx, p) == <<Piece("SendTxInput", p.addr, "THETA", -OrZero(p.theta)),
                             Piece("SendTxInput", p.addr, "TFUEL", -OrZero(p.tfuel))>>

SendInput(tx, p) == <<Piece("SendTxInput", p.addr, "THETA", -OrZero(p.theta)),
                      Piece("SendTxInput", p.addr, "TFUEL", -(OrZero(p.tfuel) - tx.fee))>>
SendOutput(p) == <<Piece("SendTxOutput", p.addr, "THETA", OrZero(p.theta)),
                   Piece("SendTxOutput", p.addr, "TFUEL", OrZero(p.tfuel))>>

\* The fee is taken out of every input and charged to the last one.
ParseSendTx(tx) ==
    FlattenSeq([i \in DOMAIN tx.ins |-> SendInput(tx, tx.ins[i])]) \o
    FlattenSeq([i \in DOMAIN tx.outs |-> SendOutput(tx.outs[i])]) \o
    <<Fee(tx.ins[Len(tx.ins)].addr, tx.fee)>>

ParseReserveFundTx(tx) ==
    CoinPieces("ReserveFundTxSource", tx.ins[1], -1, -1) \o <<Fee(tx.ins[1].addr, tx.fee)>>

ParseReleaseFundTx(tx) ==
    CoinPieces("ReleaseFundTxSource", tx.ins[1], 1, -1) \o <<Fee(tx.ins[1].addr, tx.fee)>>

ParseServicePaymentTx(tx) ==
    <<Piece("ServicePaymentTxSource", tx.ins[1].addr, "TFUEL", -tx.ins[1].tfuel),
      Piece("ServicePaymentTxTarget", tx.outs[1].addr, "TFUEL", tx.outs[1].tfuel),
      Fee(tx.outs[1].addr, tx.fee)>>

ParseSplitRuleTx(tx) ==
    <<Piece("SplitRuleTxInitiator", tx.ins[1].addr, "TFUEL", tx.ins[1].tfuel),
      Fee(tx.ins[1].addr, tx.fee)>>

\* Here zero amounts are dropped, by the bits of the number.
DropZero(coin) == IF coin = 0 THEN Nil ELSE coin
NonZero(p) == [p EXCEPT !.theta = DropZero(@), !.tfuel = DropZero(@)]

ParseSmartContractTxForConstruction(tx) ==
    CoinPieces("SmartContractTxFrom", NonZero(tx.ins[1]), -1, -1) \o
    CoinPieces("SmartContractTxTo", NonZero(tx.outs[1]), 1, 1)

ChangePiece(c) ==
    Piece(IF c.negative THEN "SmartContractTxFrom" ELSE "SmartContractTxTo",
          c.addr,
          IF c.token = 0 THEN "THETA" ELSE "TFUEL",
          IF c.negative THEN -c.delta ELSE c.delta)

\* Balance changes of other tokens are skipped, and no gas means no fee.
ParseSmartContractTx(tx) ==
    LET OfCoin(c) == IF c.token <= 1 THEN <<ChangePiece(c)>> ELSE <<>>
    IN FlattenSeq([i \in DOMAIN tx.changes |-> OfCoin(tx.changes[i])]) \o
       (IF tx.gasUsed = 0 THEN <<>> ELSE <<Fee(tx.ins[1].addr, tx.gasPrice * tx.gasUsed)>>)

ParseDepositStakeTx(tx) ==
    CoinPieces("DepositStakeTxSource", tx.ins[1], -1, -1) \o <<Fee(tx.ins[1].addr, tx.fee)>>

\* The stake itself comes back LockPeriod blocks later: module ReturnStakes.
ParseWithdrawStakeTx(tx) == <<Fee(tx.ins[1].addr, tx.fee)>>

ParseReturnStakeTx(tx) == CoinPieces("WithdrawStakeTxSource", tx.ins[1], 1, 1)

ParseStakeRewardDistributionTx(tx) ==
    CoinPieces("StakeRewardDistributionTxBeneficiary", tx.outs[1], 1, 1) \o
    <<Fee(tx.ins[1].addr, tx.fee)>>
==============================================================================
