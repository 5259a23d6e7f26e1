-------------------------- MODULE OperationsProofs --------------------------
(* Theorems about Operations, for every set of accounts and transactions,    *)
(* with any number of inputs, outputs and balance changes.                   *)
EXTENDS Operations, SumFacts

-----------------------------------------------------------------------------
(* The invariant: the operations are those of the transaction's kind. *)

ParsedAs(kind, operations) == tx.kind = kind => ops = operations

Result ==
    /\ ParsedAs("coinbase", ParseCoinbaseTx(tx))
    /\ ParsedAs("slash", ParseSlashTx(tx))
    /\ ParsedAs("send", ParseSendTx(tx))
    /\ ParsedAs("reserveFund", ParseReserveFundTx(tx))
    /\ ParsedAs("releaseFund", ParseReleaseFundTx(tx))
    /\ ParsedAs("servicePayment", ParseServicePaymentTx(tx))
    /\ ParsedAs("splitRule", ParseSplitRuleTx(tx))
    /\ ParsedAs("construction", ParseSmartContractTxForConstruction(tx))
    /\ ParsedAs("depositStake", ParseDepositStakeTx(tx))
    /\ ParsedAs("withdrawStake", ParseWithdrawStakeTx(tx))
    /\ ParsedAs("returnStake", ParseReturnStakeTx(tx))
    /\ ParsedAs("stakeReward", ParseStakeRewardDistributionTx(tx))
    /\ ParsedAs("smartContract", ParseSmartContractTx(tx))
    /\ tx.kind = "smartContract" => tx.changes # Nil

Inv == tx \in Transaction /\ (outcome = "parsed" => Result)

\* Every step parses the transaction in hand as what it is.
THEOREM Invariant == Spec => []Inv
<1>1. Init => Inv
  BY DEF Init, Inv
<1>2. Inv /\ [Next]_vars => Inv'
  <2> SUFFICES ASSUME Inv, [Next]_vars PROVE Inv'
    OBVIOUS
  <2> USE DEF Inv, Result, ParsedAs, Parse
  <2>1. CASE UNCHANGED vars
    BY <2>1 DEF vars
  <2>2. CASE Coinbase
    BY <2>2 DEF Coinbase
  <2>3. CASE Slash
    BY <2>3 DEF Slash
  <2>4. CASE Send
    BY <2>4 DEF Send
  <2>5. CASE ReserveFund
    BY <2>5 DEF ReserveFund
  <2>6. CASE ReleaseFund
    BY <2>6 DEF ReleaseFund
  <2>7. CASE ServicePayment
    BY <2>7 DEF ServicePayment
  <2>8. CASE SplitRule
    BY <2>8 DEF SplitRule
  <2>9. CASE Construction
    BY <2>9 DEF Construction
  <2>10. CASE DepositStake
    BY <2>10 DEF DepositStake
  <2>11. CASE WithdrawStake
    BY <2>11 DEF WithdrawStake
  <2>12. CASE ReturnStake
    BY <2>12 DEF ReturnStake
  <2>13. CASE StakeReward
    BY <2>13 DEF StakeReward
  <2>14. CASE SmartContract
    BY <2>14 DEF SmartContract
  <2>15. CASE SmartContractPanics
    BY <2>15 DEF SmartContractPanics
  <2> QED BY <2>1, <2>2, <2>3, <2>4, <2>5, <2>6, <2>7, <2>8, <2>9, <2>10, <2>11, <2>12,
             <2>13, <2>14, <2>15 DEF Next
<1> QED BY <1>1, <1>2, PTL DEF Spec

-----------------------------------------------------------------------------
(* Lemmas on the operators of Parsers. *)

OpType ==
    {"CoinbaseTxProposer", "CoinbaseTxOutput", "SlashTxProposer", "SendTxInput", "SendTxOutput",
     "ReserveFundTxSource", "ReleaseFundTxSource", "ServicePaymentTxSource",
     "ServicePaymentTxTarget", "SplitRuleTxInitiator", "SmartContractTxFrom",
     "SmartContractTxTo", "DepositStakeTxSource", "WithdrawStakeTxSource",
     "StakeRewardDistributionTxBeneficiary", "TxFee"}
Currency == {"THETA", "TFUEL"}
PieceSet == [type : OpType, account : Account, currency : Currency, value : Int]

\* Amounts are pieces.
LEMMA PieceTyped ==
    ASSUME NEW type \in OpType, NEW a \in Account, NEW c \in Currency, NEW v \in Int
    PROVE  Piece(type, a, c, v) \in PieceSet
BY DEF Piece, PieceSet

\* So is a fee.
LEMMA FeeTyped ==
    ASSUME NEW a \in Account, NEW fee \in Int
    PROVE  Fee(a, fee) \in PieceSet
<1>1. -fee \in Int
  OBVIOUS
<1> QED BY <1>1, PieceTyped DEF Fee, OpType, Currency

\* What every transaction has.
LEMMA TxShape ==
    ASSUME NEW t \in Transaction
    PROVE  /\ Nil \notin Int /\ t.kind \in Kind
           /\ t.ins \in Seq(Party) /\ Len(t.ins) > 0 /\ t.ins[1] \in Party
           /\ t.ins[Len(t.ins)] \in Party
           /\ t.outs \in Seq(Party)
           /\ t.fee \in Nat /\ t.gasPrice \in Nat /\ t.gasUsed \in Nat
           /\ t.changes = Nil \/ t.changes \in Seq(Change)
           /\ t.kind \in {"servicePayment", "splitRule"} => t.ins[1].tfuel \in Nat
           /\ t.kind \in {"servicePayment", "coinbase"} =>
                 \A i \in DOMAIN t.outs : t.outs[i].tfuel \in Nat
           /\ t.kind \in {"servicePayment", "stakeReward", "construction"} =>
                 Len(t.outs) > 0 /\ t.outs[1] \in Party
<1>1. /\ Nil \notin Int /\ t.kind \in Kind
      /\ t.ins \in Seq(Party) /\ Len(t.ins) > 0 /\ t.outs \in Seq(Party)
      /\ t.fee \in Nat /\ t.gasPrice \in Nat /\ t.gasUsed \in Nat
      /\ t.changes = Nil \/ t.changes \in Seq(Change)
      /\ t.kind \in {"servicePayment", "splitRule"} => t.ins[1].tfuel # Nil
      /\ t.kind \in {"servicePayment", "coinbase"} =>
            \A i \in DOMAIN t.outs : t.outs[i].tfuel # Nil
      /\ t.kind \in {"servicePayment", "stakeReward", "construction"} => Len(t.outs) > 0
  BY TransactionAssumption
<1>2. \A p \in Party : p.tfuel # Nil => p.tfuel \in Nat
  BY DEF Party, Coin
<1>3. t.ins[1] \in Party /\ t.ins[Len(t.ins)] \in Party
  BY <1>1
<1>4. \A i \in DOMAIN t.outs : t.outs[i] \in Party
  BY <1>1
<1>5. Len(t.outs) > 0 => t.outs[1] \in Party
  BY <1>1
<1> QED BY <1>1, <1>2, <1>3, <1>4, <1>5

\* What every input and output has.
LEMMA PartyShape ==
    ASSUME NEW p \in Party, Nil \notin Int
    PROVE  /\ p.addr \in Account
           /\ p.theta # Nil => p.theta \in Nat
           /\ p.tfuel # Nil => p.tfuel \in Nat
           /\ OrZero(p.theta) \in Nat /\ OrZero(p.tfuel) \in Nat
BY DEF Party, Coin, OrZero

\* The amounts of a party's coins are pieces.
LEMMA CoinPiecesTyped ==
    ASSUME NEW p \in Party, Nil \notin Int, NEW type \in OpType, NEW s1 \in {1, -1}, NEW s2 \in {1, -1}
    PROVE  CoinPieces(type, p, s1, s2) \in Seq(PieceSet)
<1> DEFINE x == IF p.theta = Nil THEN <<>> ELSE <<Piece(type, p.addr, "THETA", s1 * p.theta)>>
           y == IF p.tfuel = Nil THEN <<>> ELSE <<Piece(type, p.addr, "TFUEL", s2 * p.tfuel)>>
<1>1. p.theta # Nil => s1 * p.theta \in Int
  BY PartyShape
<1>2. p.tfuel # Nil => s2 * p.tfuel \in Int
  BY PartyShape
<1>3. x \in Seq(PieceSet)
  <2>1. p.theta # Nil => Piece(type, p.addr, "THETA", s1 * p.theta) \in PieceSet
    BY <1>1, PartyShape, PieceTyped DEF Currency
  <2> QED BY <2>1
<1>4. y \in Seq(PieceSet)
  <2>1. p.tfuel # Nil => Piece(type, p.addr, "TFUEL", s2 * p.tfuel) \in PieceSet
    BY <1>2, PartyShape, PieceTyped DEF Currency
  <2> QED BY <2>1
<1> HIDE DEF x, y
<1>5. x \o y \in Seq(PieceSet)
  BY <1>3, <1>4
<1> QED BY <1>5 DEF CoinPieces, x, y

\* A function on 1..n is a sequence of length n.
LEMMA FunctionIsSeq ==
    ASSUME NEW S, NEW n \in Nat, NEW f \in [1..n -> S]
    PROVE  f \in Seq(S) /\ Len(f) = n
OBVIOUS

-----------------------------------------------------------------------------
(* The pieces of each kind of transaction, and that they are pieces. *)

CoinbaseOutputs(t) ==
    [i \in DOMAIN t.outs |-> Piece("CoinbaseTxOutput", t.outs[i].addr, "TFUEL", t.outs[i].tfuel)]
CoinbasePieces(t) ==
    <<Piece("CoinbaseTxProposer", t.ins[1].addr, "TFUEL", 0)>> \o CoinbaseOutputs(t)

\* The pieces of a coinbase transaction.
LEMMA CoinbaseTyped ==
    ASSUME NEW t \in Transaction, t.kind = "coinbase"
    PROVE  /\ CoinbaseOutputs(t) \in Seq(PieceSet) /\ Len(CoinbaseOutputs(t)) = Len(t.outs)
           /\ Piece("CoinbaseTxProposer", t.ins[1].addr, "TFUEL", 0) \in PieceSet
           /\ CoinbasePieces(t) \in Seq(PieceSet)
<1> DEFINE outputs == CoinbaseOutputs(t)
<1>1. /\ t.outs \in Seq(Party) /\ \A i \in DOMAIN t.outs : t.outs[i].tfuel \in Nat
      /\ t.ins[1] \in Party
  BY TxShape
<1>2. t.ins[1].addr \in Account /\ \A i \in DOMAIN t.outs : t.outs[i].addr \in Account
  <2>1. \A i \in DOMAIN t.outs : t.outs[i] \in Party
    BY <1>1
  <2>2. \A p \in Party : p.addr \in Account
    BY DEF Party
  <2> QED BY <1>1, <2>1, <2>2
<1>3. outputs \in [1..Len(t.outs) -> PieceSet]
  <2>1. DOMAIN t.outs = 1..Len(t.outs)
    BY <1>1
  <2> QED BY <1>1, <1>2, <2>1 DEF CoinbaseOutputs, Piece, PieceSet, OpType, Currency
<1>4. outputs \in Seq(PieceSet) /\ Len(outputs) = Len(t.outs)
  <2> HIDE DEF outputs
  <2>1. Len(t.outs) \in Nat
    BY <1>1
  <2> QED BY <1>3, <2>1, FunctionIsSeq
<1>5. Piece("CoinbaseTxProposer", t.ins[1].addr, "TFUEL", 0) \in PieceSet
  BY <1>2, PieceTyped DEF OpType, Currency
<1> HIDE DEF outputs
<1>6. CoinbasePieces(t) = <<Piece("CoinbaseTxProposer", t.ins[1].addr, "TFUEL", 0)>> \o outputs
  BY DEF CoinbasePieces, outputs
<1>7. CoinbasePieces(t) \in Seq(PieceSet)
  BY <1>4, <1>5, <1>6
<1> QED BY <1>4, <1>5, <1>7 DEF outputs

SendInputs(t) == [i \in DOMAIN t.ins |-> SendInput(t, t.ins[i])]
SendOutputs(t) == [i \in DOMAIN t.outs |-> SendOutput(t.outs[i])]
SendFee(t) == Fee(t.ins[Len(t.ins)].addr, t.fee)

\* The pieces of a send.
LEMMA SendTyped ==
    ASSUME NEW t \in Transaction
    PROVE  /\ SendInputs(t) \in Seq(Seq(PieceSet)) /\ Len(SendInputs(t)) = Len(t.ins)
           /\ SendOutputs(t) \in Seq(Seq(PieceSet)) /\ Len(SendOutputs(t)) = Len(t.outs)
           /\ FlattenSeq(SendInputs(t)) \in Seq(PieceSet)
           /\ FlattenSeq(SendOutputs(t)) \in Seq(PieceSet)
           /\ SendFee(t) \in PieceSet
           /\ FlattenSeq(SendInputs(t)) \o FlattenSeq(SendOutputs(t)) \o <<SendFee(t)>>
                 \in Seq(PieceSet)
<1> DEFINE in == SendInputs(t)
           out == SendOutputs(t)
<1>1. /\ t.ins \in Seq(Party) /\ t.outs \in Seq(Party) /\ t.ins[Len(t.ins)] \in Party
      /\ t.fee \in Nat /\ Nil \notin Int
  BY TxShape
<1>2. ASSUME NEW p \in Party
      PROVE  SendInput(t, p) \in Seq(PieceSet) /\ SendOutput(p) \in Seq(PieceSet)
  <2>1. p.addr \in Account /\ OrZero(p.theta) \in Nat /\ OrZero(p.tfuel) \in Nat
    BY <1>1, PartyShape
  <2>2. -OrZero(p.theta) \in Int /\ -(OrZero(p.tfuel) - t.fee) \in Int
    BY <1>1, <2>1
  <2>3. /\ Piece("SendTxInput", p.addr, "THETA", -OrZero(p.theta)) \in PieceSet
        /\ Piece("SendTxInput", p.addr, "TFUEL", -(OrZero(p.tfuel) - t.fee)) \in PieceSet
        /\ Piece("SendTxOutput", p.addr, "THETA", OrZero(p.theta)) \in PieceSet
        /\ Piece("SendTxOutput", p.addr, "TFUEL", OrZero(p.tfuel)) \in PieceSet
    BY <2>1, <2>2, PieceTyped DEF OpType, Currency
  <2> QED BY <2>3 DEF SendInput, SendOutput
<1>3. in \in [1..Len(t.ins) -> Seq(PieceSet)] /\ out \in [1..Len(t.outs) -> Seq(PieceSet)]
  <2>1. DOMAIN t.ins = 1..Len(t.ins) /\ DOMAIN t.outs = 1..Len(t.outs)
    BY <1>1
  <2>2. /\ \A i \in 1..Len(t.ins) : t.ins[i] \in Party
        /\ \A i \in 1..Len(t.outs) : t.outs[i] \in Party
    BY <1>1
  <2> QED BY <1>2, <2>1, <2>2 DEF SendInputs, SendOutputs
<1>4. SendFee(t) \in PieceSet
  <2>1. t.ins[Len(t.ins)].addr \in Account
    BY <1>1, PartyShape
  <2> QED BY <1>1, <2>1, FeeTyped DEF SendFee
<1> HIDE DEF in, out
<1>5. /\ in \in Seq(Seq(PieceSet)) /\ Len(in) = Len(t.ins)
      /\ out \in Seq(Seq(PieceSet)) /\ Len(out) = Len(t.outs)
  <2>1. Len(t.ins) \in Nat /\ Len(t.outs) \in Nat
    BY <1>1
  <2> QED BY <1>3, <2>1, FunctionIsSeq
<1>6. FlattenSeq(in) \in Seq(PieceSet) /\ FlattenSeq(out) \in Seq(PieceSet)
  BY <1>5, FlattenIsSeq
<1>7. FlattenSeq(in) \o FlattenSeq(out) \o <<SendFee(t)>> \in Seq(PieceSet)
  BY <1>4, <1>6
<1> QED BY <1>4, <1>5, <1>6, <1>7 DEF in, out

OfCoin(c) == IF c.token <= 1 THEN <<ChangePiece(c)>> ELSE <<>>
ContractChanges(t) == [i \in DOMAIN t.changes |-> OfCoin(t.changes[i])]
ContractFee(t) ==
    IF t.gasUsed = 0 THEN <<>> ELSE <<Fee(t.ins[1].addr, t.gasPrice * t.gasUsed)>>

\* The pieces of a contract call.
LEMMA ContractTyped ==
    ASSUME NEW t \in Transaction, t.changes # Nil
    PROVE  /\ ContractChanges(t) \in Seq(Seq(PieceSet))
           /\ Len(ContractChanges(t)) = Len(t.changes)
           /\ \A i \in 1..Len(t.changes) : t.changes[i] \in Change /\ ChangePiece(t.changes[i]) \in PieceSet
           /\ FlattenSeq(ContractChanges(t)) \in Seq(PieceSet)
           /\ t.gasPrice * t.gasUsed \in Int
           /\ Fee(t.ins[1].addr, t.gasPrice * t.gasUsed) \in PieceSet
           /\ ContractFee(t) \in Seq(PieceSet)
           /\ FlattenSeq(ContractChanges(t)) \o ContractFee(t) \in Seq(PieceSet)
<1> DEFINE pieces == ContractChanges(t)
<1>1. /\ t.changes \in Seq(Change) /\ t.ins[1] \in Party /\ t.gasPrice \in Nat
      /\ t.gasUsed \in Nat /\ Nil \notin Int
  BY TxShape
<1>2. ASSUME NEW c \in Change
      PROVE  ChangePiece(c) \in PieceSet
  <2>1. c.addr \in Account /\ c.delta \in Int /\ -c.delta \in Int
    BY DEF Change
  <2> QED BY <2>1 DEF ChangePiece, Piece, PieceSet, OpType, Currency
<1>3. \A i \in 1..Len(t.changes) : t.changes[i] \in Change
  BY <1>1
<1>4. pieces \in [1..Len(t.changes) -> Seq(PieceSet)]
  <2>1. \A c \in Change : OfCoin(c) \in Seq(PieceSet)
    BY <1>2 DEF OfCoin
  <2>2. DOMAIN t.changes = 1..Len(t.changes)
    BY <1>1
  <2> QED BY <1>3, <2>1, <2>2 DEF ContractChanges
<1>5. t.gasPrice * t.gasUsed \in Int
  BY <1>1
<1>6. Fee(t.ins[1].addr, t.gasPrice * t.gasUsed) \in PieceSet
  BY <1>1, <1>5, PartyShape, FeeTyped
<1>7. ContractFee(t) \in Seq(PieceSet)
  BY <1>6 DEF ContractFee
<1> HIDE DEF pieces
<1>8. pieces \in Seq(Seq(PieceSet)) /\ Len(pieces) = Len(t.changes)
  <2>1. Len(t.changes) \in Nat
    BY <1>1
  <2> QED BY <1>4, <2>1, FunctionIsSeq
<1>9. FlattenSeq(pieces) \in Seq(PieceSet)
  BY <1>8, FlattenIsSeq
<1>10. FlattenSeq(pieces) \o ContractFee(t) \in Seq(PieceSet)
  BY <1>7, <1>9
<1> QED BY <1>2, <1>3, <1>5, <1>6, <1>7, <1>8, <1>9, <1>10 DEF pieces

-----------------------------------------------------------------------------
(* What the operations of a transaction add up to. *)

\* What a piece adds for an account and a currency.
Amount(a, c) == [p \in PieceSet |-> IF p.account = a /\ p.currency = c THEN p.value ELSE 0]

\* Amounts are numbers.
LEMMA AmountTyped ==
    ASSUME NEW a, NEW c
    PROVE  Amount(a, c) \in [PieceSet -> Int]
BY DEF Amount, PieceSet

\* What one piece adds.
LEMMA AmountOf ==
    ASSUME NEW a, NEW c, NEW type, NEW addr, NEW currency, NEW v,
           Piece(type, addr, currency, v) \in PieceSet
    PROVE  Amount(a, c)[Piece(type, addr, currency, v)]
              = IF addr = a /\ currency = c THEN v ELSE 0
BY DEF Amount, Piece

\* A fee is charged to its payer, in TFuel.
LEMMA FeeAmount ==
    ASSUME NEW a, NEW c, NEW addr \in Account, NEW fee \in Int
    PROVE  /\ Amount(a, c)[Fee(addr, fee)] = -FeeOf(a, c, addr, fee)
           /\ FeeOf(a, c, addr, fee) \in Int
<1>1. Fee(addr, fee) \in PieceSet
  BY FeeTyped
<1>2. Amount(a, c)[Fee(addr, fee)] = IF addr = a /\ "TFUEL" = c THEN -fee ELSE 0
  BY <1>1, AmountOf DEF Fee
<1> QED BY <1>2 DEF FeeOf

\* The sum of a function on 1..n.
LEMMA SumFunctionIs ==
    ASSUME NEW n \in Nat, NEW f, DOMAIN f = 1..n
    PROVE  SumFunction(f) = Sum(f, 1..n)
BY DEF SumFunction, Sum

\* OpsDelta adds up the pieces of the operations.
LEMMA OpsDeltaIs ==
    ASSUME NEW a, NEW c, NEW pieces \in Seq(PieceSet), ops = pieces
    PROVE  OpsDelta(a, c) = Weigh(Amount(a, c), pieces) /\ OpsDelta(a, c) \in Int
<1> DEFINE f == [n \in DOMAIN ops |-> IF ops[n].account = a /\ ops[n].currency = c
                                      THEN ops[n].value ELSE 0]
           e == [n \in 1..Len(pieces) |-> Amount(a, c)[pieces[n]]]
<1>1. DOMAIN ops = 1..Len(pieces) /\ Len(pieces) \in Nat
  OBVIOUS
<1>2. DOMAIN f = 1..Len(pieces)
  BY <1>1
<1>3. \A n \in 1..Len(pieces) : f[n] = e[n]
  BY <1>1 DEF Amount
<1>4. OpsDelta(a, c) = SumFunction(f)
  BY DEF OpsDelta
<1>5. Weigh(Amount(a, c), pieces) = Sum(e, 1..Len(pieces))
  BY DEF Weigh
<1> HIDE DEF f, e
<1>6. IsFiniteSet(1..Len(pieces))
  BY <1>1, FS_Interval
<1>7. Sum(f, 1..Len(pieces)) = Sum(e, 1..Len(pieces))
  BY <1>3, <1>6, SumEqual
<1>8. Weigh(Amount(a, c), pieces) \in Int
  BY AmountTyped, WeighIsInt
<1> QED BY <1>1, <1>2, <1>4, <1>5, <1>7, <1>8, SumFunctionIs

-----------------------------------------------------------------------------
(* The coins of parties. *)

CoinOf(p, a, c) ==
    IF p.addr # a THEN 0 ELSE OrZero(IF c = "THETA" THEN p.theta ELSE p.tfuel)

\* Coins are numbers, nil ones included.
LEMMA CoinOfTyped ==
    ASSUME NEW p \in Party, Nil \notin Int, NEW a, NEW c
    PROVE  CoinOf(p, a, c) \in Nat
BY PartyShape DEF CoinOf

\* CoinsOf is the sum over the parties.
LEMMA CoinsOfIs ==
    ASSUME NEW parties \in Seq(Party), NEW a, NEW c,
           NEW f, \A i \in 1..Len(parties) : f[i] = CoinOf(parties[i], a, c)
    PROVE  CoinsOf(parties, a, c) = Sum(f, 1..Len(parties))
<1> DEFINE e == [i \in DOMAIN parties |->
                    IF parties[i].addr # a THEN 0
                    ELSE OrZero(IF c = "THETA" THEN parties[i].theta ELSE parties[i].tfuel)]
<1>1. DOMAIN e = 1..Len(parties) /\ Len(parties) \in Nat
  OBVIOUS
<1>2. \A i \in 1..Len(parties) : e[i] = f[i]
  BY DEF CoinOf
<1>3. CoinsOf(parties, a, c) = SumFunction(e)
  BY DEF CoinsOf
<1> HIDE DEF e
<1>4. IsFiniteSet(1..Len(parties))
  BY <1>1, FS_Interval
<1>5. Sum(e, 1..Len(parties)) = Sum(f, 1..Len(parties))
  BY <1>2, <1>4, SumEqual
<1> QED BY <1>1, <1>3, <1>5, SumFunctionIs

\* The coins of one party.
LEMMA CoinsOfOne ==
    ASSUME NEW p \in Party, Nil \notin Int, NEW a, NEW c
    PROVE  CoinsOf(<<p>>, a, c) = CoinOf(p, a, c)
<1> DEFINE f == [i \in 1..1 |-> CoinOf(p, a, c)]
<1>1. <<p>> \in Seq(Party) /\ Len(<<p>>) = 1
  OBVIOUS
<1>2. \A i \in 1..Len(<<p>>) : f[i] = CoinOf(<<p>>[i], a, c)
  OBVIOUS
<1>3. f[1] \in Int /\ f[1] = CoinOf(p, a, c)
  BY CoinOfTyped
<1> HIDE DEF f
<1>4. CoinsOf(<<p>>, a, c) = Sum(f, 1..1)
  BY <1>1, <1>2, CoinsOfIs
<1>5. PICK k \in Nat : k = 1
  OBVIOUS
<1>6. /\ Sum(f, 1..k) = Sum(f, 1..(k - 1)) + f[k]
      /\ Sum(f, 1..(k - 1)) \in Int
  <2>1. k > 0 /\ \A i \in 1..k : f[i] \in Int
    BY <1>3, <1>5
  <2> HIDE <1>5
  <2> QED BY <2>1, SumUpto
<1>7. Sum(f, 1..(k - 1)) = 0
  <2>1. 1..(k - 1) = {}
    BY <1>5
  <2> QED BY <2>1, SumEmpty
<1> QED BY <1>3, <1>4, <1>5, <1>6, <1>7

\* The pieces of a party's coins add up to its coins, with their sign.
LEMMA CoinPiecesAmount ==
    ASSUME NEW p \in Party, Nil \notin Int, NEW type \in OpType, NEW s \in {1, -1},
           NEW a, NEW c \in Currency
    PROVE  Weigh(Amount(a, c), CoinPieces(type, p, s, s)) = s * CoinOf(p, a, c)
<1> DEFINE w == Amount(a, c)
           xp == Piece(type, p.addr, "THETA", s * p.theta)
           yp == Piece(type, p.addr, "TFUEL", s * p.tfuel)
           x == IF p.theta = Nil THEN <<>> ELSE <<xp>>
           y == IF p.tfuel = Nil THEN <<>> ELSE <<yp>>
           vx == IF p.theta # Nil /\ p.addr = a /\ "THETA" = c THEN s * p.theta ELSE 0
           vy == IF p.tfuel # Nil /\ p.addr = a /\ "TFUEL" = c THEN s * p.tfuel ELSE 0
<1>1. w \in [PieceSet -> Int]
  BY AmountTyped
<1>2. p.addr \in Account /\ (p.theta # Nil => p.theta \in Nat) /\ (p.tfuel # Nil => p.tfuel \in Nat)
  BY PartyShape
<1>3. /\ p.theta # Nil => s * p.theta \in Int
      /\ p.tfuel # Nil => s * p.tfuel \in Int
  BY <1>2
<1>4. /\ p.theta # Nil => xp \in PieceSet
      /\ p.tfuel # Nil => yp \in PieceSet
  BY <1>2, <1>3, PieceTyped DEF Currency
<1>5. /\ p.theta # Nil => w[xp] = IF p.addr = a /\ "THETA" = c THEN s * p.theta ELSE 0
      /\ p.tfuel # Nil => w[yp] = IF p.addr = a /\ "TFUEL" = c THEN s * p.tfuel ELSE 0
  BY <1>4, AmountOf
<1>6. CoinPieces(type, p, s, s) = x \o y
  BY DEF CoinPieces
<1> HIDE DEF w, xp, yp
<1>7. x \in Seq(PieceSet) /\ y \in Seq(PieceSet)
  BY <1>4
<1>8. Weigh(w, x) = vx
  BY <1>1, <1>4, <1>5, WeighFew
<1>9. Weigh(w, y) = vy
  BY <1>1, <1>4, <1>5, WeighFew
<1>10. vx + vy = s * CoinOf(p, a, c)
  <2>1. CASE c = "THETA"
    <3>1. CoinOf(p, a, c) = IF p.theta # Nil /\ p.addr = a THEN p.theta ELSE 0
      BY <2>1 DEF CoinOf, OrZero
    <3>2. vy = 0
      BY <2>1
    <3>3. vx = s * CoinOf(p, a, c) /\ vx \in Int
      BY <1>2, <1>3, <2>1, <3>1
    <3> QED BY <3>2, <3>3
  <2>2. CASE c = "TFUEL"
    <3>1. CoinOf(p, a, c) = IF p.tfuel # Nil /\ p.addr = a THEN p.tfuel ELSE 0
      BY <2>2 DEF CoinOf, OrZero
    <3>2. vx = 0
      BY <2>2
    <3>3. vy = s * CoinOf(p, a, c) /\ vy \in Int
      BY <1>2, <1>3, <2>2, <3>1
    <3> QED BY <3>2, <3>3
  <2> QED BY <2>1, <2>2 DEF Currency
<1> HIDE DEF x, y, vx, vy
<1>11. Weigh(w, x \o y) = vx + vy
  BY <1>1, <1>7, <1>8, <1>9, WeighConcat
<1> QED BY <1>6, <1>10, <1>11 DEF w

-----------------------------------------------------------------------------
(* Operations against the ledger, kind by kind. *)

\* The three stake transactions.
LEMMA StakeBalances ==
    ASSUME NEW a, NEW c \in Currency, tx \in Transaction, Result,
           tx.kind \in {"depositStake", "withdrawStake", "returnStake"}
    PROVE  OpsDelta(a, c) = LedgerDelta(a, c) /\ OpsDelta(a, c) \in Int
<1> DEFINE w == Amount(a, c)
           p == tx.ins[1]
           fee == Fee(p.addr, tx.fee)
           due == FeeOf(a, c, p.addr, tx.fee)
           coin == CoinOf(p, a, c)
<1>1. p \in Party /\ tx.fee \in Nat /\ Nil \notin Int /\ p.addr \in Account
  BY TxShape, PartyShape
<1>2. w \in [PieceSet -> Int] /\ fee \in PieceSet
  BY <1>1, AmountTyped, FeeTyped
<1>3. w[fee] = -due /\ due \in Int
  BY <1>1, FeeAmount
<1>4. CoinsOf(<<p>>, a, c) = coin /\ coin \in Int
  BY <1>1, CoinsOfOne, CoinOfTyped
<1>5. Weigh(w, <<fee>>) = -due /\ <<fee>> \in Seq(PieceSet)
  <2> HIDE DEF w, fee, due
  <2> QED BY <1>2, <1>3, WeighFew
<1>6. CASE tx.kind = "depositStake"
  <2> DEFINE coins == CoinPieces("DepositStakeTxSource", p, -1, -1)
  <2>1. coins \in Seq(PieceSet) /\ Weigh(w, coins) = -coin
    <3>1. "DepositStakeTxSource" \in OpType
      BY DEF OpType
    <3>2. coins \in Seq(PieceSet)
      BY <1>1, <3>1, CoinPiecesTyped
    <3>3. Weigh(w, coins) = -coin
      <4>1. PICK s \in {1, -1} : s = -1
        OBVIOUS
      <4>2. Weigh(w, CoinPieces("DepositStakeTxSource", p, s, s)) = s * coin
        BY <1>1, <3>1, CoinPiecesAmount
      <4> HIDE DEF w, coin, p
      <4>3. coins = CoinPieces("DepositStakeTxSource", p, s, s)
        BY <4>1, Zenon
      <4>4. s * coin = -coin
        BY <1>4, <4>1
      <4> QED BY <4>2, <4>3, <4>4
    <3> QED BY <3>2, <3>3
  <2>2. ops = coins \o <<fee>>
    BY <1>6 DEF Result, ParsedAs, ParseDepositStakeTx
  <2>3. LedgerDelta(a, c) = - CoinsOf(<<p>>, a, c) - due
    BY <1>6 DEF LedgerDelta
  <2> HIDE DEF coins, w, fee, due, coin, p
  <2>4. coins \o <<fee>> \in Seq(PieceSet) /\ Weigh(w, coins \o <<fee>>) = -coin + (-due)
    <3>1. coins \o <<fee>> \in Seq(PieceSet)
      BY <1>5, <2>1
    <3>2. Weigh(w, coins \o <<fee>>) = Weigh(w, coins) + Weigh(w, <<fee>>)
      BY <1>2, <1>5, <2>1, WeighConcat
    <3> QED BY <1>5, <2>1, <3>1, <3>2
  <2>5. OpsDelta(a, c) = Weigh(w, coins \o <<fee>>) /\ OpsDelta(a, c) \in Int
    BY <2>2, <2>4, OpsDeltaIs DEF w
  <2> QED BY <1>3, <1>4, <2>3, <2>4, <2>5
<1>7. CASE tx.kind = "withdrawStake"
  <2>1. ops = <<fee>>
    BY <1>7 DEF Result, ParsedAs, ParseWithdrawStakeTx
  <2>2. LedgerDelta(a, c) = -due
    BY <1>7 DEF LedgerDelta
  <2> HIDE DEF fee, due
  <2>3. OpsDelta(a, c) = Weigh(w, <<fee>>) /\ OpsDelta(a, c) \in Int
    BY <1>5, <2>1, OpsDeltaIs
  <2> QED BY <1>5, <2>2, <2>3
<1>8. CASE tx.kind = "returnStake"
  <2> DEFINE coins == CoinPieces("WithdrawStakeTxSource", p, 1, 1)
  <2>1. coins \in Seq(PieceSet) /\ Weigh(w, coins) = 1 * coin
    <3>1. "WithdrawStakeTxSource" \in OpType
      BY DEF OpType
    <3>2. coins \in Seq(PieceSet)
      BY <1>1, <3>1, CoinPiecesTyped
    <3>3. Weigh(w, coins) = 1 * coin
      BY <1>1, <3>1, CoinPiecesAmount
    <3> QED BY <3>2, <3>3
  <2>2. ops = coins
    BY <1>8 DEF Result, ParsedAs, ParseReturnStakeTx
  <2>3. LedgerDelta(a, c) = CoinsOf(<<p>>, a, c)
    BY <1>8 DEF LedgerDelta
  <2> HIDE DEF coins, coin, p
  <2>4. OpsDelta(a, c) = Weigh(w, coins) /\ OpsDelta(a, c) \in Int
    BY <2>1, <2>2, OpsDeltaIs
  <2> QED BY <1>4, <2>1, <2>3, <2>4
<1> QED BY <1>6, <1>7, <1>8

\* Nothing adds up to nothing.
LEMMA SumOfZeros ==
    ASSUME NEW n \in Nat, NEW f, \A i \in 1..n : f[i] = 0
    PROVE  Sum(f, 1..n) = 0
<1> DEFINE e == [i \in 1..n |-> 0]
<1>1. \A i \in 1..n : e[i] \in Int /\ f[i] \in Int /\ e[i] = e[i] + f[i]
  OBVIOUS
<1>2. Sum(e, 1..n) = Sum(e, 1..n) + Sum(f, 1..n)
  <2> HIDE DEF e
  <2> QED BY <1>1, SumPlus
<1>3. Sum(e, 1..n) \in Int /\ Sum(f, 1..n) \in Int
  <2> HIDE DEF e
  <2> QED BY <1>1, SumUpto
<1> HIDE DEF e
<1> QED BY <1>2, <1>3

\* A coinbase gives its outputs.
LEMMA CoinbaseBalances ==
    ASSUME NEW a, NEW c \in Currency, tx \in Transaction, Result, tx.kind = "coinbase"
    PROVE  OpsDelta(a, c) = LedgerDelta(a, c) /\ OpsDelta(a, c) \in Int
<1> DEFINE w == Amount(a, c)
           head == Piece("CoinbaseTxProposer", tx.ins[1].addr, "TFUEL", 0)
           outputs == CoinbaseOutputs(tx)
           pieces == CoinbasePieces(tx)
           f == [i \in 1..Len(outputs) |-> w[outputs[i]]]
<1>1. /\ outputs \in Seq(PieceSet) /\ Len(outputs) = Len(tx.outs)
      /\ head \in PieceSet /\ pieces \in Seq(PieceSet)
  BY CoinbaseTyped
<1>2. /\ tx.outs \in Seq(Party) /\ Nil \notin Int
      /\ \A i \in DOMAIN tx.outs : tx.outs[i].tfuel \in Nat
  BY TxShape
<1>3. w \in [PieceSet -> Int]
  BY AmountTyped
<1>4. w[head] = 0
  BY <1>1, AmountOf
<1>5. ASSUME NEW i \in 1..Len(tx.outs)
      PROVE  w[outputs[i]] = IF c = "THETA" THEN 0 ELSE CoinOf(tx.outs[i], a, c)
  <2> DEFINE o == tx.outs[i]
  <2>1. i \in DOMAIN tx.outs /\ o.tfuel \in Nat
    BY <1>2
  <2>2. outputs[i] = Piece("CoinbaseTxOutput", o.addr, "TFUEL", o.tfuel) /\ outputs[i] \in PieceSet
    BY <1>1, <2>1 DEF CoinbaseOutputs
  <2>3. w[outputs[i]] = IF o.addr = a /\ "TFUEL" = c THEN o.tfuel ELSE 0
    BY <2>2, AmountOf
  <2>4. o.tfuel # Nil
    BY <1>2, <2>1
  <2> QED BY <2>3, <2>4 DEF CoinOf, OrZero, Currency
<1>6. OpsDelta(a, c) = Weigh(w, pieces) /\ OpsDelta(a, c) \in Int
  <2>1. ops = pieces
    BY DEF Result, ParsedAs, ParseCoinbaseTx, CoinbasePieces, CoinbaseOutputs
  <2> HIDE DEF pieces
  <2> QED BY <1>1, <2>1, OpsDeltaIs
<1>7. pieces = <<head>> \o outputs
  BY DEF CoinbasePieces
<1>8. LedgerDelta(a, c) = IF c = "THETA" THEN 0 ELSE CoinsOf(tx.outs, a, c)
  BY DEF LedgerDelta
<1>9. Weigh(w, outputs) = Sum(f, 1..Len(tx.outs))
  BY <1>1 DEF Weigh
<1>10. \A i \in 1..Len(tx.outs) : f[i] = IF c = "THETA" THEN 0 ELSE CoinOf(tx.outs[i], a, c)
  BY <1>1, <1>5
<1> HIDE DEF w, head, outputs, pieces, f
<1>11. Sum(f, 1..Len(tx.outs)) = LedgerDelta(a, c)
  <2>1. CASE c = "THETA"
    <3>1. Len(tx.outs) \in Nat
      BY <1>2
    <3>2. \A i \in 1..Len(tx.outs) : f[i] = 0
      BY <1>10, <2>1
    <3> QED BY <1>8, <2>1, <3>1, <3>2, SumOfZeros
  <2>2. CASE c # "THETA"
    <3>1. \A i \in 1..Len(tx.outs) : f[i] = CoinOf(tx.outs[i], a, c)
      BY <1>10, <2>2
    <3> QED BY <1>2, <1>8, <2>2, <3>1, CoinsOfIs
  <2> QED BY <2>1, <2>2
<1>12. Weigh(w, pieces) = 0 + Weigh(w, outputs)
  <2>1. <<head>> \in Seq(PieceSet)
    BY <1>1
  <2>2. Weigh(w, <<head>>) = w[head]
    BY <1>1, <1>3, WeighFew
  <2> QED BY <1>1, <1>3, <1>4, <1>7, <2>1, <2>2, WeighConcat
<1>13. Weigh(w, outputs) \in Int
  BY <1>1, <1>3, WeighIsInt
<1> QED BY <1>6, <1>9, <1>11, <1>12, <1>13

ChangeOf(change, a, token) ==
    IF change.addr # a \/ change.token # token THEN 0
    ELSE IF change.negative THEN -change.delta ELSE change.delta

\* ChangesOf is the sum over the balance changes.
LEMMA ChangesOfIs ==
    ASSUME NEW changes \in Seq(Change), NEW a, NEW token,
           NEW f, \A i \in 1..Len(changes) : f[i] = ChangeOf(changes[i], a, token)
    PROVE  ChangesOf(changes, a, token) = Sum(f, 1..Len(changes))
<1> DEFINE e == [i \in DOMAIN changes |->
                    IF changes[i].addr # a \/ changes[i].token # token THEN 0
                    ELSE IF changes[i].negative THEN -changes[i].delta ELSE changes[i].delta]
<1>1. DOMAIN e = 1..Len(changes) /\ Len(changes) \in Nat
  OBVIOUS
<1>2. \A i \in 1..Len(changes) : e[i] = f[i]
  BY DEF ChangeOf
<1>3. ChangesOf(changes, a, token) = SumFunction(e)
  BY DEF ChangesOf
<1> HIDE DEF e
<1>4. IsFiniteSet(1..Len(changes))
  BY <1>1, FS_Interval
<1>5. Sum(e, 1..Len(changes)) = Sum(f, 1..Len(changes))
  BY <1>2, <1>4, SumEqual
<1> QED BY <1>1, <1>3, <1>5, SumFunctionIs

\* A balance change is worth what it says in its coin, and other tokens nothing.
LEMMA ChangeAmount ==
    ASSUME NEW change \in Change, ChangePiece(change) \in PieceSet, NEW a, NEW c \in Currency
    PROVE  Weigh(Amount(a, c), OfCoin(change))
              = ChangeOf(change, a, IF c = "THETA" THEN 0 ELSE 1)
<1> DEFINE w == Amount(a, c)
           piece == ChangePiece(change)
           v == IF change.negative THEN -change.delta ELSE change.delta
           token == IF c = "THETA" THEN 0 ELSE 1
<1>1. /\ w \in [PieceSet -> Int] /\ piece \in PieceSet
      /\ change.token \in Nat /\ change.negative \in BOOLEAN
  BY AmountTyped DEF Change
<1>2. w[piece] = IF change.addr = a /\ (IF change.token = 0 THEN "THETA" ELSE "TFUEL") = c
                 THEN v ELSE 0
  BY <1>1, AmountOf DEF ChangePiece
<1>3. ChangeOf(change, a, token) = IF change.addr = a /\ change.token = token THEN v ELSE 0
  <2>1. CASE change.addr # a \/ change.token # token
    BY <2>1 DEF ChangeOf
  <2>2. CASE change.addr = a /\ change.token = token /\ change.negative
    BY <2>2 DEF ChangeOf
  <2>3. CASE change.addr = a /\ change.token = token /\ ~change.negative
    BY <2>3 DEF ChangeOf
  <2> QED BY <2>1, <2>2, <2>3
<1> HIDE DEF w, piece
<1>4. Weigh(w, OfCoin(change)) = IF change.token <= 1 THEN w[piece] ELSE 0
  <2>1. Weigh(w, <<>>) = 0 /\ Weigh(w, <<piece>>) = w[piece]
    BY <1>1, WeighFew
  <2> QED BY <2>1 DEF OfCoin, piece
<1> HIDE DEF v
<1>5. (change.token <= 1 /\ (IF change.token = 0 THEN "THETA" ELSE "TFUEL") = c)
        <=> change.token = token
  BY <1>1 DEF Currency
<1> QED BY <1>2, <1>3, <1>4, <1>5 DEF w

\* A contract call makes its balance changes and burns the gas.
LEMMA ContractBalances ==
    ASSUME NEW a, NEW c \in Currency, tx \in Transaction, Result, tx.kind = "smartContract"
    PROVE  OpsDelta(a, c) = LedgerDelta(a, c) /\ OpsDelta(a, c) \in Int
<1> DEFINE w == Amount(a, c)
           p == tx.ins[1]
           cost == tx.gasPrice * tx.gasUsed
           due == FeeOf(a, c, p.addr, cost)
           token == IF c = "THETA" THEN 0 ELSE 1
           parts == ContractChanges(tx)
           tail == ContractFee(tx)
           v == [i \in 1..Len(tx.changes) |-> Weigh(w, parts[i])]
<1>1. tx.changes # Nil
  BY DEF Result
<1>2. /\ tx.changes \in Seq(Change) /\ p.addr \in Account
      /\ tx.gasPrice \in Nat /\ tx.gasUsed \in Nat
  BY <1>1, TxShape, PartyShape
<1>3. /\ parts \in Seq(Seq(PieceSet)) /\ Len(parts) = Len(tx.changes)
      /\ FlattenSeq(parts) \in Seq(PieceSet) /\ tail \in Seq(PieceSet)
      /\ FlattenSeq(parts) \o tail \in Seq(PieceSet)
      /\ cost \in Int /\ Fee(p.addr, cost) \in PieceSet
  BY <1>1, ContractTyped
<1>4. w \in [PieceSet -> Int]
  BY AmountTyped
<1>5. Weigh(w, tail) = -due /\ due \in Int
  <2>1. w[Fee(p.addr, cost)] = -due /\ due \in Int
    BY <1>2, <1>3, FeeAmount
  <2>2. tx.gasUsed = 0 => due = 0
    BY <1>2 DEF FeeOf
  <2>3. Weigh(w, <<>>) = 0 /\ Weigh(w, <<Fee(p.addr, cost)>>) = w[Fee(p.addr, cost)]
    <3> HIDE DEF w, p, cost
    <3> QED BY <1>3, <1>4, WeighFew
  <2>4. tail = IF tx.gasUsed = 0 THEN <<>> ELSE <<Fee(p.addr, cost)>>
    BY DEF ContractFee
  <2> HIDE DEF w, p, cost, due, tail
  <2> QED BY <2>1, <2>2, <2>3, <2>4
<1>6. ASSUME NEW i \in 1..Len(tx.changes)
      PROVE  v[i] = ChangeOf(tx.changes[i], a, token)
  <2>1. tx.changes[i] \in Change /\ ChangePiece(tx.changes[i]) \in PieceSet
    BY <1>1, ContractTyped
  <2>2. parts[i] = OfCoin(tx.changes[i])
    BY <1>2 DEF ContractChanges
  <2> QED BY <2>1, <2>2, ChangeAmount
<1>7. \A i \in 1..Len(parts) : v[i] = Weigh(w, parts[i])
  BY <1>3
<1>8. ops = FlattenSeq(parts) \o tail
  BY DEF Result, ParsedAs, ParseSmartContractTx, ContractChanges, ContractFee, OfCoin
<1>9. LedgerDelta(a, c) = ChangesOf(tx.changes, a, token) - due
  BY DEF LedgerDelta
<1> HIDE DEF w, p, cost, due, token, parts, tail, v
<1>10. Weigh(w, FlattenSeq(parts)) = Sum(v, 1..Len(parts))
  BY <1>3, <1>4, <1>7, WeighFlatten
<1>11. ChangesOf(tx.changes, a, token) = Sum(v, 1..Len(tx.changes))
  <2>1. \A i \in 1..Len(tx.changes) : v[i] = ChangeOf(tx.changes[i], a, token)
    BY <1>6
  <2>2. PICK changes \in Seq(Change) : changes = tx.changes
    BY <1>2
  <2>3. ASSUME NEW k, k = token
        PROVE  ChangesOf(changes, a, k) = Sum(v, 1..Len(changes))
    BY <2>1, <2>2, <2>3, ChangesOfIs
  <2> QED BY <2>2, <2>3
<1>12. OpsDelta(a, c) = Weigh(w, FlattenSeq(parts) \o tail) /\ OpsDelta(a, c) \in Int
  BY <1>3, <1>8, OpsDeltaIs DEF w
<1>13. Weigh(w, FlattenSeq(parts) \o tail) = Weigh(w, FlattenSeq(parts)) + Weigh(w, tail)
  BY <1>3, <1>4, WeighConcat
<1>14. Weigh(w, FlattenSeq(parts)) \in Int
  BY <1>3, <1>4, WeighIsInt
<1> QED BY <1>3, <1>5, <1>9, <1>10, <1>11, <1>12, <1>13, <1>14

\* An input is reported with the fee left out, an output as it is.
LEMMA SendAmount ==
    ASSUME NEW t \in Transaction, NEW p \in Party, NEW a, NEW c \in Currency
    PROVE  /\ Weigh(Amount(a, c), SendInput(t, p)) + CoinOf(p, a, c) = FeeOf(a, c, p.addr, t.fee)
           /\ Weigh(Amount(a, c), SendInput(t, p)) \in Int
           /\ Weigh(Amount(a, c), SendOutput(p)) = CoinOf(p, a, c)
<1> DEFINE w == Amount(a, c)
           theta == OrZero(p.theta)
           tfuel == OrZero(p.tfuel)
           i1 == Piece("SendTxInput", p.addr, "THETA", -theta)
           i2 == Piece("SendTxInput", p.addr, "TFUEL", -(tfuel - t.fee))
           o1 == Piece("SendTxOutput", p.addr, "THETA", theta)
           o2 == Piece("SendTxOutput", p.addr, "TFUEL", tfuel)
           mine == p.addr = a
<1>1. t.fee \in Nat /\ Nil \notin Int
  BY TxShape
<1>2. p.addr \in Account /\ theta \in Nat /\ tfuel \in Nat
  BY <1>1, PartyShape
<1>3. -theta \in Int /\ -(tfuel - t.fee) \in Int
  BY <1>1, <1>2
<1>4. i1 \in PieceSet /\ i2 \in PieceSet /\ o1 \in PieceSet /\ o2 \in PieceSet
  <2> HIDE DEF theta, tfuel
  <2> QED BY <1>2, <1>3, PieceTyped DEF OpType, Currency
<1>5. /\ w[i1] = IF mine /\ "THETA" = c THEN -theta ELSE 0
      /\ w[i2] = IF mine /\ "TFUEL" = c THEN -(tfuel - t.fee) ELSE 0
      /\ w[o1] = IF mine /\ "THETA" = c THEN theta ELSE 0
      /\ w[o2] = IF mine /\ "TFUEL" = c THEN tfuel ELSE 0
  <2> HIDE DEF theta, tfuel
  <2> QED BY <1>4, AmountOf
<1>6. SendInput(t, p) = <<i1, i2>> /\ SendOutput(p) = <<o1, o2>>
  BY DEF SendInput, SendOutput
<1>7. w \in [PieceSet -> Int]
  BY AmountTyped
<1>8. /\ CoinOf(p, a, c) = IF ~mine THEN 0 ELSE IF c = "THETA" THEN theta ELSE tfuel
      /\ FeeOf(a, c, p.addr, t.fee) = IF mine /\ c = "TFUEL" THEN t.fee ELSE 0
  BY DEF CoinOf, FeeOf
<1> HIDE DEF w, theta, tfuel, i1, i2, o1, o2
<1>9. /\ Weigh(w, SendInput(t, p)) = w[i1] + w[i2]
      /\ Weigh(w, SendOutput(p)) = w[o1] + w[o2]
  BY <1>4, <1>6, <1>7, WeighFew
<1>10. /\ w[i1] + w[i2] + CoinOf(p, a, c) = FeeOf(a, c, p.addr, t.fee)
       /\ w[i1] + w[i2] \in Int
       /\ w[o1] + w[o2] = CoinOf(p, a, c)
  <2>1. CASE c = "THETA"
    BY <1>1, <1>2, <1>3, <1>5, <1>8, <2>1
  <2>2. CASE c = "TFUEL"
    BY <1>1, <1>2, <1>3, <1>5, <1>8, <2>2
  <2> QED BY <2>1, <2>2 DEF Currency
<1> QED BY <1>9, <1>10 DEF w

\* A send moves coins, and the fee of all inputs but the last goes missing.
LEMMA SendBalances ==
    ASSUME NEW a, NEW c \in Currency, tx \in Transaction, Result, tx.kind = "send"
    PROVE  OpsDelta(a, c) = LedgerDelta(a, c) + Understated(a, c)
<1> DEFINE w == Amount(a, c)
           n == Len(tx.ins)
           in == SendInputs(tx)
           out == SendOutputs(tx)
           fee == SendFee(tx)
           flatIn == FlattenSeq(in)
           flatOut == FlattenSeq(out)
           spent == [i \in 1..n |-> Weigh(w, in[i])]
           given == [i \in 1..Len(tx.outs) |-> Weigh(w, out[i])]
           coins == [i \in 1..n |-> CoinOf(tx.ins[i], a, c)]
           fees == [i \in 1..n |-> FeeOf(a, c, tx.ins[i].addr, tx.fee)]
<1>1. /\ tx.ins \in Seq(Party) /\ tx.outs \in Seq(Party) /\ n \in Nat /\ n > 0
      /\ tx.fee \in Nat /\ Nil \notin Int
      /\ DOMAIN tx.ins = 1..n /\ DOMAIN tx.outs = 1..Len(tx.outs) /\ Len(tx.outs) \in Nat
      /\ \A i \in 1..n : tx.ins[i] \in Party
      /\ \A i \in 1..Len(tx.outs) : tx.outs[i] \in Party
  BY TxShape
<1>2. /\ in \in Seq(Seq(PieceSet)) /\ Len(in) = n
      /\ out \in Seq(Seq(PieceSet)) /\ Len(out) = Len(tx.outs)
      /\ flatIn \in Seq(PieceSet) /\ flatOut \in Seq(PieceSet) /\ fee \in PieceSet
      /\ flatIn \o flatOut \o <<fee>> \in Seq(PieceSet)
  BY SendTyped
<1>3. w \in [PieceSet -> Int]
  BY AmountTyped
<1>4. ASSUME NEW i \in 1..n
      PROVE  /\ spent[i] \in Int /\ coins[i] \in Int /\ fees[i] \in Int
             /\ fees[i] = spent[i] + coins[i]
  <2>1. in[i] = SendInput(tx, tx.ins[i]) /\ tx.ins[i] \in Party
    BY <1>1 DEF SendInputs
  <2>2. /\ Weigh(w, in[i]) + CoinOf(tx.ins[i], a, c) = FeeOf(a, c, tx.ins[i].addr, tx.fee)
        /\ Weigh(w, in[i]) \in Int
    BY <2>1, SendAmount
  <2>3. CoinOf(tx.ins[i], a, c) \in Int
    BY <1>1, <2>1, CoinOfTyped
  <2> HIDE DEF w, in
  <2> QED BY <2>2, <2>3
<1>5. ASSUME NEW i \in 1..Len(tx.outs)
      PROVE  given[i] = CoinOf(tx.outs[i], a, c)
  <2>1. out[i] = SendOutput(tx.outs[i]) /\ tx.outs[i] \in Party
    BY <1>1 DEF SendOutputs
  <2> QED BY <2>1, SendAmount
<1>6. w[fee] = -fees[n]
  <2>1. n \in 1..n /\ tx.ins[n] \in Party /\ tx.ins[n].addr \in Account
    BY <1>1, PartyShape
  <2>2. w[Fee(tx.ins[n].addr, tx.fee)] = -FeeOf(a, c, tx.ins[n].addr, tx.fee)
    <3>1. tx.fee \in Int
      BY <1>1
    <3> HIDE DEF n
    <3> QED BY <2>1, <3>1, FeeAmount
  <2> QED BY <2>1, <2>2 DEF SendFee
<1>7. /\ \A i \in 1..n : spent[i] = Weigh(w, in[i])
      /\ \A i \in 1..n : coins[i] = CoinOf(tx.ins[i], a, c)
      /\ \A i \in 1..Len(tx.outs) : given[i] = Weigh(w, out[i])
  OBVIOUS
<1>8. ops = flatIn \o flatOut \o <<fee>>
  BY DEF Result, ParsedAs, ParseSendTx, SendInputs, SendOutputs, SendFee
<1>9. LedgerDelta(a, c) = CoinsOf(tx.outs, a, c) - CoinsOf(tx.ins, a, c)
  BY DEF LedgerDelta
<1>10. Understated(a, c) = Sum(fees, 1..(n - 1))
  <2> DEFINE e == [i \in 1..(n - 1) |-> FeeOf(a, c, tx.ins[i].addr, tx.fee)]
  <2>1. Understated(a, c) = SumFunction(e)
    BY DEF Understated
  <2>2. n - 1 \in Nat /\ DOMAIN e = 1..(n - 1) /\ \A i \in 1..(n - 1) : e[i] = fees[i]
    BY <1>1
  <2> HIDE DEF n, e, fees
  <2>3. SumFunction(e) = Sum(e, 1..(n - 1))
    BY <2>2, SumFunctionIs
  <2>4. IsFiniteSet(1..(n - 1))
    BY <2>2, FS_Interval
  <2> QED BY <2>1, <2>2, <2>3, <2>4, SumEqual
<1> HIDE DEF w, n, in, out, fee, flatIn, flatOut, spent, given, coins, fees
<1>11. Weigh(w, flatIn) = Sum(spent, 1..n)
  <2>1. \A i \in 1..Len(in) : spent[i] = Weigh(w, in[i])
    BY <1>2, <1>7
  <2>2. Weigh(w, FlattenSeq(in)) = Sum(spent, 1..Len(in))
    BY <1>2, <1>3, <2>1, WeighFlatten
  <2> QED BY <1>2, <2>2 DEF flatIn
<1>12. Weigh(w, flatOut) = Sum(given, 1..Len(tx.outs))
  <2>1. \A i \in 1..Len(out) : given[i] = Weigh(w, out[i])
    BY <1>2, <1>7
  <2>2. Weigh(w, FlattenSeq(out)) = Sum(given, 1..Len(out))
    BY <1>2, <1>3, <2>1, WeighFlatten
  <2> QED BY <1>2, <2>2 DEF flatOut
<1>13. CoinsOf(tx.ins, a, c) = Sum(coins, 1..n)
  BY <1>1, <1>7, CoinsOfIs DEF n
<1>14. CoinsOf(tx.outs, a, c) = Sum(given, 1..Len(tx.outs))
  BY <1>1, <1>5, CoinsOfIs
<1>15. Sum(fees, 1..n) = Sum(spent, 1..n) + Sum(coins, 1..n)
  BY <1>1, <1>4, SumPlus
<1>16. Sum(fees, 1..n) = Sum(fees, 1..(n - 1)) + fees[n] /\ Sum(fees, 1..(n - 1)) \in Int
  BY <1>1, <1>4, SumUpto
<1>17. OpsDelta(a, c) = Weigh(w, flatIn \o flatOut \o <<fee>>)
  BY <1>2, <1>8, OpsDeltaIs DEF w
<1>18. Weigh(w, flatIn \o flatOut \o <<fee>>) = (Weigh(w, flatIn) + Weigh(w, flatOut)) + w[fee]
  <2> DEFINE both == flatIn \o flatOut
  <2>1. both \in Seq(PieceSet) /\ <<fee>> \in Seq(PieceSet)
    BY <1>2
  <2>2. Weigh(w, both) = Weigh(w, flatIn) + Weigh(w, flatOut)
    BY <1>2, <1>3, WeighConcat
  <2>3. Weigh(w, <<fee>>) = w[fee]
    BY <1>2, <1>3, WeighFew
  <2> HIDE DEF both
  <2>4. Weigh(w, both \o <<fee>>) = Weigh(w, both) + Weigh(w, <<fee>>)
    BY <1>3, <2>1, WeighConcat
  <2> QED BY <2>2, <2>3, <2>4 DEF both
<1>19. Weigh(w, flatIn) \in Int /\ Weigh(w, flatOut) \in Int
  BY <1>2, <1>3, WeighIsInt
<1>20. Sum(coins, 1..n) \in Int /\ fees[n] \in Int
  <2>1. n \in 1..n
    BY <1>1
  <2> QED BY <1>1, <1>4, <2>1, SumUpto
<1> QED BY <1>6, <1>9, <1>10, <1>11, <1>12, <1>13, <1>14, <1>15, <1>16, <1>17, <1>18, <1>19, <1>20

\* The amounts of the operations add up, for every account and currency, to
\* what the ledger does to the balance, plus the fee of each input of a send
\* but the last (ParseSendTx takes the fee out of every input): for any number
\* of inputs, outputs and balance changes, any coins, nil ones included, and
\* however often an account occurs (the ParseXxxTx functions of
\* common/utils.go).
THEOREM BalancesAddUp == Spec => []BalancesUpToFees
<1>1. Inv => BalancesUpToFees
  <2> SUFFICES ASSUME Inv, outcome = "parsed", tx.kind \in Tracked,
                      NEW a \in Account, NEW c \in {"THETA", "TFUEL"}
               PROVE  OpsDelta(a, c) = LedgerDelta(a, c) + Understated(a, c)
    BY DEF BalancesUpToFees
  <2>1. tx \in Transaction /\ Result /\ c \in Currency
    BY DEF Inv, Currency
  <2>2. CASE tx.kind = "send"
    BY <2>1, <2>2, SendBalances
  <2>3. CASE tx.kind # "send"
    <3>1. OpsDelta(a, c) = LedgerDelta(a, c) /\ OpsDelta(a, c) \in Int
      BY <2>1, <2>3, CoinbaseBalances, ContractBalances, StakeBalances DEF Tracked
    <3>2. Understated(a, c) = 0
      BY <2>3 DEF Understated
    <3> QED BY <3>1, <3>2
  <2> QED BY <2>2, <2>3
<1> QED BY <1>1, Invariant, PTL
=============================================================================
