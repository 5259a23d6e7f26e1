------------------------- MODULE ConstructionProofs -------------------------
(* Theorems about Construction, for every set of accounts, clients and       *)
(* requests, all terms of the node, and any number of failures and retries.  *)
EXTENDS Construction, SequenceTheorems, TLAPS

-----------------------------------------------------------------------------
(* The inductive invariant: what a client's job holds at each endpoint. *)

Operation == [type : STRING, account : Account, currency : STRING, value : Int]
Fields == {"pc", "ask", "sequence", "fee", "gasLimit", "gasPrice", "terms", "tx",
           "account", "parsed", "err", "text", "retries"}
TxFields == {"kind", "sequence", "signed", "ins", "outs", "fee", "gasLimit", "gasPrice"}

\* The ledger is never ahead of the pool, and no account has overspent.
NodeType ==
    /\ ledger \in [Account -> Nat] /\ sequence \in [Account -> Nat]
    /\ \A a \in Account : ledger[a] <= sequence[a]
    /\ funds \in [Account -> [theta : Nat, tfuel : Nat]]

TypeInv ==
    /\ DOMAIN job = Client
    /\ \A c \in Client : DOMAIN job[c] = Fields
    /\ NodeType

\* The node has a transaction for the last sequence number of an account.
LastAccepted ==
    \A a \in Account : sequence[a] > 0 =>
        \E t \in accepted : Sender(t) = a /\ t.sequence = sequence[a]

\* A sequence number that was the next one on the ledger when it was read.
WasNext(n, a) == n \in Nat \ {0} /\ n <= sequence[a] + 1

\* The gas terms a request ends up with unless the status call failed.
Price(ask) ==
    IF ask.direct THEN OrElse(ask.gasPrice, 0) ELSE OrElse(ask.gasPrice, Terms.gasPrice)
Limit(ask) ==
    IF ask.direct THEN OrElse(ask.gasLimit, DefaultGasLimit)
                  ELSE OrElse(ask.gasLimit, Terms.gasLimit)

GasFrom(j, price, limit) ==
    /\ price \in Nat /\ limit \in Nat
    /\ j.terms # OldTerms => price = Price(j.ask) /\ limit = Limit(j.ask)

Unrefused == {"idle", "derive", "preprocess", "metadata", "terms", "payloads",
              "parse", "combine", "hash", "submit", "done"}
SubmitFailed(c) == job[c].err = "ErrUnableToSubmitTx"

\* Where a job comes from: its request, through preprocess or directly.
Asked(c) ==
    /\ ~At(c, "idle") => job[c].ask \in Request
    /\ job[c].pc \in {"derive", "preprocess", "metadata", "terms"} => ~job[c].ask.direct
    /\ \/ job[c].pc \in {"metadata", "terms"}
       \/ job[c].pc \in {"payloads", "parse"} /\ ~job[c].ask.direct
       => Matches(Ops(c)) /\ (IsSend(Ops(c)) => ~AddressesDiffer(Match(Ops(c))))
    /\ job[c].pc \in Unrefused => job[c].err = Nil

\* What metadata, or the client itself, hands over to payloads.
Prepared(c) ==
    /\ job[c].pc \in {"terms", "payloads"} /\ Matches(Ops(c)) =>
          WasNext(job[c].sequence, Match(Ops(c))[1].account)
    /\ At(c, "payloads") /\ ~IsSend(Ops(c)) =>
          GasFrom(job[c], OrElse(job[c].gasPrice, 0), OrElse(job[c].gasLimit, DefaultGasLimit))

\* What is in a transaction that was built of operations.
TransferOf(tx, m) ==
    /\ tx.kind = "send" /\ tx.fee = -m[5].value /\ tx.gasLimit = 0 /\ tx.gasPrice = 0
    /\ tx.ins[1].theta = -m[1].value /\ tx.ins[1].tfuel = -m[2].value - m[5].value
    /\ tx.outs[1].theta = m[3].value /\ tx.outs[1].tfuel = m[4].value
CallOf(tx, m) ==
    tx.kind = "smartContract" /\ tx.ins[1].theta = 0 /\ tx.ins[1].tfuel = -m[1].value

\* The transaction that was built, up to the node's last word on it.
Built(c) ==
    LET tx == job[c].tx IN
    /\ DOMAIN tx = TxFields
    /\ Matches(Ops(c))
    /\ Sender(tx) = Match(Ops(c))[1].account
    /\ WasNext(tx.sequence, Sender(tx))
    /\ IsSend(Ops(c)) => TransferOf(tx, Match(Ops(c)))
    /\ ~IsSend(Ops(c)) => /\ CallOf(tx, Match(Ops(c)))
                          /\ GasFrom(job[c], tx.gasPrice, tx.gasLimit)
    /\ job[c].account = Ops(c)[1].account

Signed(c) == job[c].tx.signed = (job[c].account = Sender(job[c].tx))

BuiltTx(j) ==
    IF IsSend(j.ask.ops) THEN SendTx(Match(j.ask.ops), j.sequence)
    ELSE SmartContractTx(Match(j.ask.ops), j.sequence, j.gasLimit, j.gasPrice)

Carried(c) ==
    /\ At(c, "parse") => job[c].tx = BuiltTx(job[c])
    /\ job[c].pc \in {"parse", "combine", "hash", "submit"} \/ SubmitFailed(c) => Built(c)
    /\ job[c].pc \in {"hash", "submit"} \/ SubmitFailed(c) => Signed(c)

\* What BuiltAsAsked says of one client.
ParsedFor(c) ==
    job[c].parsed # <<>> =>
        \/ job[c].parsed = Intended(Ops(c))
        \/ job[c].ask.direct /\ IsSend(Ops(c)) /\ AddressesDiffer(Match(Ops(c)))

JobInv(c) ==
    Asked(c) /\ Prepared(c) /\ Carried(c) /\ ParsedFor(c)

Inv == TypeInv /\ LastAccepted /\ \A c \in Client : JobInv(c)

-----------------------------------------------------------------------------
(* Lemmas on the operators. *)

\* What a request holds.
LEMMA RequestShape ==
    ASSUME NEW ask \in Request
    PROVE  /\ ask.ops \in Seq(Operation)
           /\ ask.gasLimit \in {Nil} \cup Nat /\ ask.gasPrice \in {Nil} \cup Nat
           /\ ask.direct \in BOOLEAN
BY ConstructionAssumption DEF Operation

\* There are as many descriptions as operations.
LEMMA DescriptionsOf ==
    ASSUME NEW ops, Matches(ops)
    PROVE  /\ DOMAIN Descriptions(ops) = 1..Len(ops)
           /\ DOMAIN Match(ops) = 1..Len(ops)
           /\ IsSend(ops) => Len(ops) = 5
           /\ ~IsSend(ops) => Len(ops) = 2
<1>1. Len(ops) \in {2, 5}
  BY DEF Matches
<1>2. DOMAIN SendDescriptions = 1..5 /\ DOMAIN ContractDescriptions = 1..2
  BY DEF SendDescriptions, ContractDescriptions
<1>3. DOMAIN Match(ops) = DOMAIN Descriptions(ops)
  BY DEF Match
<1> QED BY <1>1, <1>2, <1>3 DEF Descriptions, IsSend

\* MatchOperations picks, for each description, an operation that fits it.
LEMMA MatchFits ==
    ASSUME NEW ops \in Seq(Operation), Matches(ops), NEW n \in 1..Len(ops)
    PROVE  Match(ops)[n] \in Operation /\ Fits(Match(ops)[n], Descriptions(ops)[n])
<1> DEFINE i == CHOOSE k \in DOMAIN ops : Fits(ops[k], Descriptions(ops)[n])
<1>1. n \in DOMAIN Descriptions(ops)
  BY DescriptionsOf
<1>2. \E k \in DOMAIN ops : Fits(ops[k], Descriptions(ops)[n])
  BY <1>1 DEF Matches
<1>3. i \in DOMAIN ops /\ Fits(ops[i], Descriptions(ops)[n])
  BY <1>2
<1>4. Match(ops)[n] = ops[i]
  BY <1>1 DEF Match
<1>5. ops[i] \in Operation
  BY <1>3
<1> QED BY <1>3, <1>4, <1>5

\* The five operations of a transfer.
LEMMA SendMatch ==
    ASSUME NEW ops \in Seq(Operation), Matches(ops), IsSend(ops)
    PROVE  LET m == Match(ops) IN
           /\ \A n \in 1..5 : m[n] \in Operation
           /\ m[1].type = "SendTxInput" /\ m[1].currency = "THETA"
           /\ m[2].type = "SendTxInput" /\ m[2].currency = "TFUEL"
           /\ m[3].type = "SendTxOutput" /\ m[3].currency = "THETA"
           /\ m[4].type = "SendTxOutput" /\ m[4].currency = "TFUEL"
           /\ m[5].type = "TxFee" /\ m[5].currency = "TFUEL" /\ m[5].value <= 0
<1> DEFINE m == Match(ops)
<1>1. Len(ops) = 5
  BY DescriptionsOf
<1>2. \A n \in 1..5 : m[n] \in Operation /\ Fits(m[n], SendDescriptions[n])
  BY <1>1, MatchFits DEF Descriptions
<1>3. m[5].value \in Int
  BY <1>2 DEF Operation
<1>4. /\ Fits(m[1], SendDescriptions[1]) /\ Fits(m[2], SendDescriptions[2])
      /\ Fits(m[3], SendDescriptions[3]) /\ Fits(m[4], SendDescriptions[4])
      /\ Fits(m[5], SendDescriptions[5])
  BY <1>2
<1>5. m[5].value * (-1) >= 0
  BY <1>4 DEF Fits, SendDescriptions, Description
<1>6. m[5].value <= 0
  BY <1>3, <1>5
<1> HIDE DEF m
<1>7. /\ m[1].type = "SendTxInput" /\ m[1].currency = "THETA"
      /\ m[2].type = "SendTxInput" /\ m[2].currency = "TFUEL"
      /\ m[3].type = "SendTxOutput" /\ m[3].currency = "THETA"
      /\ m[4].type = "SendTxOutput" /\ m[4].currency = "TFUEL"
      /\ m[5].type = "TxFee" /\ m[5].currency = "TFUEL"
  BY <1>4 DEF Fits, SendDescriptions, Description
<1> QED BY <1>2, <1>6, <1>7 DEF m

\* The two operations of a contract call.
LEMMA CallMatch ==
    ASSUME NEW ops \in Seq(Operation), Matches(ops), ~IsSend(ops)
    PROVE  LET m == Match(ops) IN
           /\ m[1] \in Operation /\ m[2] \in Operation
           /\ m[1].type = "SmartContractTxFrom" /\ m[1].currency = "TFUEL"
           /\ m[2].type = "SmartContractTxTo" /\ m[2].currency = "TFUEL"
<1> DEFINE m == Match(ops)
<1>1. Len(ops) = 2
  BY DescriptionsOf
<1>2. \A n \in 1..2 : m[n] \in Operation /\ Fits(m[n], ContractDescriptions[n])
  BY <1>1, MatchFits DEF Descriptions
<1> HIDE DEF m
<1>3. /\ m[1].type = "SmartContractTxFrom" /\ m[1].currency = "TFUEL"
      /\ m[2].type = "SmartContractTxTo" /\ m[2].currency = "TFUEL"
  BY <1>2 DEF Fits, ContractDescriptions, Description
<1> QED BY <1>2, <1>3 DEF m

\* The sender of a request is an account.
LEMMA SenderIsAccount ==
    ASSUME NEW ops \in Seq(Operation), Matches(ops)
    PROVE  Match(ops)[1].account \in Account
<1>1. Len(ops) \in {2, 5}
  BY DEF Matches
<1>2. 1 \in 1..Len(ops)
  BY <1>1
<1>3. Match(ops)[1] \in Operation
  BY <1>2, MatchFits
<1> QED BY <1>3 DEF Operation

\* The causes named by BadTerms, in the terms of the invariant.
LEMMA BadTermsAre ==
    ASSUME NEW c
    PROVE  /\ IsSend(Ops(c)) /\ -Match(Ops(c))[5].value < Terms.fee => BadTerms(c)
           /\ ~IsSend(Ops(c)) /\ (\/ Price(job[c].ask) < Terms.gasPrice
                                  \/ Limit(job[c].ask) > Terms.gasLimit) => BadTerms(c)
BY DEF BadTerms, Price, Limit

\* Flattening a sequence of one sequence.
LEMMA FlattenOne ==
    ASSUME NEW s
    PROVE  FlattenSeq(<<s>>) = s
<1> DEFINE S == <<s>>
           Body(f) == [i \in 1..Len(S) |-> IF i = 1 THEN S[i] ELSE f[i - 1] \o S[i]]
           flatten == CHOOSE f : f = Body(f)
<1>1. Len(S) = 1 /\ S[1] = s
  OBVIOUS
<1>2. \E f : f = Body(f)
  <2>1. Body([i \in 1..1 |-> s]) = [i \in 1..1 |-> s]
    BY <1>1
  <2> QED BY <2>1
<1>3. flatten = Body(flatten)
  BY <1>2
<1>4. flatten[1] = s
  BY <1>1, <1>3
<1> QED BY <1>1, <1>4 DEF FlattenSeq

\* Five elements put together as a transfer is.
LEMMA ConcatFive ==
    ASSUME NEW S, NEW a \in S, NEW b \in S, NEW c \in S, NEW d \in S, NEW e \in S
    PROVE  <<a, b>> \o <<c, d>> \o <<e>> = <<a, b, c, d, e>>
<1> DEFINE ab == <<a, b>>
           cd == <<c, d>>
           e1 == <<e>>
           all == <<a, b, c, d, e>>
<1>1. /\ ab \in Seq(S) /\ cd \in Seq(S) /\ e1 \in Seq(S) /\ all \in Seq(S)
      /\ Len(ab) = 2 /\ Len(cd) = 2 /\ Len(e1) = 1 /\ Len(all) = 5
      /\ ab[1] = a /\ ab[2] = b /\ cd[1] = c /\ cd[2] = d /\ e1[1] = e
      /\ all[1] = a /\ all[2] = b /\ all[3] = c /\ all[4] = d /\ all[5] = e
  OBVIOUS
<1> HIDE DEF ab, cd, e1, all
<1>2. /\ ab \o cd \in Seq(S) /\ Len(ab \o cd) = Len(ab) + Len(cd)
      /\ \A i \in 1..Len(ab) + Len(cd) :
            (ab \o cd)[i] = IF i <= Len(ab) THEN ab[i] ELSE cd[i - Len(ab)]
  <2>1. ab \in Seq(S) /\ cd \in Seq(S)
    BY <1>1
  <2> QED BY ONLY <2>1, ConcatProperties
<1>3. /\ (ab \o cd) \o e1 \in Seq(S) /\ Len((ab \o cd) \o e1) = 5
      /\ \A i \in 1..5 : ((ab \o cd) \o e1)[i] = IF i <= 4 THEN (ab \o cd)[i] ELSE e1[i - 4]
  BY <1>1, <1>2, ConcatProperties
<1>4. \A i \in 1..5 : ((ab \o cd) \o e1)[i] = all[i]
  BY <1>1, <1>2, <1>3
<1>5. (ab \o cd) \o e1 = all
  BY <1>1, <1>3, <1>4, SeqEqual
<1> QED BY <1>5 DEF ab, cd, e1, all

\* An operation is made of the four fields of a piece.
LEMMA OperationIsPiece ==
    ASSUME NEW op \in Operation
    PROVE  op = Piece(op.type, op.account, op.currency, op.value)
BY DEF Operation, Piece

\* What parse reads out of a transfer is what was asked for: the fee that
\* payloads adds to the input is taken out again.
LEMMA SendParsed ==
    ASSUME NEW ops \in Seq(Operation), Matches(ops), IsSend(ops),
           ~AddressesDiffer(Match(ops)), NEW sequenceNumber,
           NEW parsed, parsed = ParseSendTx(SendTx(Match(ops), sequenceNumber))
    PROVE  parsed = Intended(ops)
<1> DEFINE m == Match(ops)
           tx == SendTx(m, sequenceNumber)
           in == TxParty(m[1].account, -m[1].value, -m[2].value - m[5].value)
           out == TxParty(m[3].account, m[3].value, m[4].value)
           pieces == SendInput(tx, in) \o SendOutput(out) \o <<Fee(in.addr, tx.fee)>>
<1>1. /\ \A n \in 1..5 : m[n] \in Operation
      /\ m[1].type = "SendTxInput" /\ m[1].currency = "THETA"
      /\ m[2].type = "SendTxInput" /\ m[2].currency = "TFUEL"
      /\ m[3].type = "SendTxOutput" /\ m[3].currency = "THETA"
      /\ m[4].type = "SendTxOutput" /\ m[4].currency = "TFUEL"
      /\ m[5].type = "TxFee" /\ m[5].currency = "TFUEL"
  BY SendMatch
<1>2. /\ m[1] \in Operation /\ m[2] \in Operation /\ m[3] \in Operation
      /\ m[4] \in Operation /\ m[5] \in Operation
      /\ m[1].value \in Int /\ m[2].value \in Int /\ m[3].value \in Int
      /\ m[4].value \in Int /\ m[5].value \in Int
  BY <1>1 DEF Operation
<1>3. m = [n \in 1..5 |-> m[n]]
  BY DescriptionsOf DEF Match
<1>4. /\ m[1].account = m[2].account /\ m[2].account = m[5].account
      /\ m[3].account = m[4].account
  BY DEF AddressesDiffer
<1>5. tx.ins = <<in>> /\ tx.outs = <<out>> /\ tx.fee = -m[5].value
  BY DEF SendTx
<1>6. parsed = pieces
  <2>1. [i \in DOMAIN tx.ins |-> SendInput(tx, tx.ins[i])] = <<SendInput(tx, in)>>
    BY <1>5
  <2>2. [i \in DOMAIN tx.outs |-> SendOutput(tx.outs[i])] = <<SendOutput(out)>>
    BY <1>5
  <2>3. tx.ins[Len(tx.ins)].addr = in.addr
    BY <1>5
  <2> QED BY <2>1, <2>2, <2>3, FlattenOne DEF ParseSendTx
<1>7. /\ in.addr = m[1].account /\ in.theta = -m[1].value
      /\ in.tfuel = -m[2].value - m[5].value
      /\ out.addr = m[3].account /\ out.theta = m[3].value /\ out.tfuel = m[4].value
  BY DEF TxParty
<1>a. Intended(ops) = m
  BY DEF Intended
<1>b. Nil \notin Int
  BY ConstructionAssumption
<1> HIDE DEF m, in, out, tx
<1>8. SendInput(tx, in) = <<m[1], m[2]>>
  <2>1. OrZero(in.theta) = -m[1].value /\ OrZero(in.tfuel) = -m[2].value - m[5].value
    <3>1. \A x \in Int : OrZero(x) = x
      BY <1>b DEF OrZero
    <3>2. -m[1].value \in Int /\ -m[2].value - m[5].value \in Int
      <4>1. \A x, y \in Int : -x \in Int /\ -x - y \in Int
        OBVIOUS
      <4>2. m[1].value \in Int /\ m[2].value \in Int /\ m[5].value \in Int
        BY <1>2
      <4> QED BY <4>1, <4>2
    <3>3. in.theta = -m[1].value /\ in.tfuel = -m[2].value - m[5].value
      BY <1>7
    <3> QED BY <3>1, <3>2, <3>3
  <2>2. -OrZero(in.theta) = m[1].value /\ -(OrZero(in.tfuel) - tx.fee) = m[2].value
    <3>1. \A x, y \in Int : -(-x) = x /\ -((-x - y) - (-y)) = x
      OBVIOUS
    <3>2. m[1].value \in Int /\ m[2].value \in Int /\ m[5].value \in Int
      BY <1>2
    <3>3. tx.fee = -m[5].value
      BY <1>5
    <3>4. -(-m[1].value) = m[1].value
      BY <3>1, <3>2
    <3>5. -((-m[2].value - m[5].value) - (-m[5].value)) = m[2].value
      BY <3>1, <3>2
    <3> QED BY <2>1, <3>3, <3>4, <3>5
  <2> QED BY <1>1, <1>4, <1>7, <2>2, <1>2, OperationIsPiece DEF SendInput
<1>9. SendOutput(out) = <<m[3], m[4]>>
  <2>1. OrZero(out.theta) = m[3].value /\ OrZero(out.tfuel) = m[4].value
    BY <1>2, <1>7, <1>b DEF OrZero
  <2> QED BY <1>1, <1>4, <1>7, <2>1, <1>2, OperationIsPiece DEF SendOutput
<1>10. Fee(in.addr, tx.fee) = m[5]
  <2>1. -tx.fee = m[5].value
    BY <1>2, <1>5
  <2> QED BY <1>1, <1>4, <1>7, <2>1, <1>2, OperationIsPiece DEF Fee
<1>11. pieces = <<m[1], m[2], m[3], m[4], m[5]>>
  BY <1>2, <1>8, <1>9, <1>10, ConcatFive
<1> HIDE DEF pieces
<1>12. pieces = m
  BY <1>3, <1>11
<1> QED BY <1>6, <1>12, <1>a

\* In this form for the prover, which takes -0 for a literal.
LEMMA MinusZero ==
    ASSUME NEW v \in Int, v = 0
    PROVE  -v = 0
<1>1. v <= 0 /\ v >= 0
  OBVIOUS
<1>2. \A w \in Int : w <= 0 /\ w >= 0 => -w = 0
  OBVIOUS
<1> QED BY <1>1, <1>2

\* The same of a contract call: the amounts that are not 0.
LEMMA CallParsed ==
    ASSUME NEW ops \in Seq(Operation), Matches(ops), ~IsSend(ops),
           NEW n0, NEW limit, NEW price,
           NEW parsed,
           parsed = ParseSmartContractTxForConstruction(SmartContractTx(Match(ops), n0, limit, price))
    PROVE  parsed = Intended(ops)
<1> DEFINE m == Match(ops)
           tx == SmartContractTx(m, n0, limit, price)
           from == CoinPieces("SmartContractTxFrom", NonZero(tx.ins[1]), -1, -1)
           to == CoinPieces("SmartContractTxTo", NonZero(tx.outs[1]), 1, 1)
<1>1. /\ m[1] \in Operation /\ m[2] \in Operation
      /\ m[1].type = "SmartContractTxFrom" /\ m[1].currency = "TFUEL"
      /\ m[2].type = "SmartContractTxTo" /\ m[2].currency = "TFUEL"
  BY CallMatch
<1>2. m[1].value \in Int /\ m[2].value \in Int
  BY <1>1 DEF Operation
<1>3. /\ tx.ins[1] = [addr |-> m[1].account, theta |-> 0, tfuel |-> -m[1].value]
      /\ tx.outs[1] = [addr |-> m[2].account, theta |-> 0, tfuel |-> m[2].value]
  BY DEF SmartContractTx, TxParty
<1>4. /\ NonZero(tx.ins[1]).addr = m[1].account /\ NonZero(tx.ins[1]).theta = Nil
      /\ NonZero(tx.ins[1]).tfuel = DropZero(-m[1].value)
  BY <1>3 DEF NonZero, DropZero
<1>5. /\ NonZero(tx.outs[1]).addr = m[2].account /\ NonZero(tx.outs[1]).theta = Nil
      /\ NonZero(tx.outs[1]).tfuel = DropZero(m[2].value)
  BY <1>3 DEF NonZero, DropZero
<1>a. Intended(ops) = Present(m[1]) \o Present(m[2])
  BY DEF Intended
<1>b. Nil \notin Int
  BY ConstructionAssumption
<1> HIDE DEF m, tx
<1>6. from = Present(m[1])
  <2>1. CASE m[1].value = 0
    <3>1. -m[1].value = 0
      BY <1>2, <2>1, MinusZero
    <3>2. DropZero(-m[1].value) = Nil
      BY <3>1 DEF DropZero
    <3> QED BY <1>4, <2>1, <3>2 DEF CoinPieces, Present
  <2>2. CASE m[1].value # 0
    <3>1. DropZero(-m[1].value) = -m[1].value
      BY <1>2, <2>2 DEF DropZero
    <3>2. from = <<Piece("SmartContractTxFrom", m[1].account, "TFUEL", m[1].value)>>
      BY <1>2, <1>4, <1>b, <3>1 DEF CoinPieces
    <3> QED BY <1>1, <2>2, <3>2, OperationIsPiece DEF Present
  <2> QED BY <2>1, <2>2
<1>7. to = Present(m[2])
  <2>1. CASE m[2].value = 0
    BY <1>5, <2>1 DEF CoinPieces, DropZero, Present
  <2>2. CASE m[2].value # 0
    <3>1. DropZero(m[2].value) # Nil /\ 1 * DropZero(m[2].value) = m[2].value
      BY <1>2, <2>2, ConstructionAssumption DEF DropZero
    <3>2. to = <<Piece("SmartContractTxTo", m[2].account, "TFUEL", m[2].value)>>
      BY <1>5, <3>1 DEF CoinPieces
    <3> QED BY <1>1, <2>2, <3>2, OperationIsPiece DEF Present
  <2> QED BY <2>1, <2>2
<1>8. parsed = from \o to
  BY DEF ParseSmartContractTxForConstruction, tx, m
<1> HIDE DEF from, to
<1> QED BY <1>6, <1>7, <1>8, <1>a

-----------------------------------------------------------------------------
(* Lemmas on steps. *)

\* The sequence numbers of the pool only grow.
Grows == NodeType' /\ \A a \in Account : sequence[a] <= sequence'[a]

\* The fields of c's job after the step are those of j, but for its pc.
Takes(c, j) ==
    /\ DOMAIN job' = Client
    /\ \A d \in Client \ {c} : job'[d] = job[d]
    /\ DOMAIN job'[c] = Fields
    /\ job'[c].ask = j.ask /\ job'[c].sequence = j.sequence /\ job'[c].fee = j.fee
    /\ job'[c].gasLimit = j.gasLimit /\ job'[c].gasPrice = j.gasPrice
    /\ job'[c].terms = j.terms /\ job'[c].tx = j.tx /\ job'[c].account = j.account
    /\ job'[c].parsed = j.parsed

\* An answer is a step of one client.
LEMMA AnswerTakes ==
    ASSUME TypeInv, NEW c \in Client, NEW pc, NEW j, DOMAIN j = Fields, Answer(c, pc, j)
    PROVE  Takes(c, j) /\ job'[c].pc = pc /\ job'[c].err = j.err
BY DEF TypeInv, Answer, Takes, Fields

\* So is a failure.
LEMMA FailTakes ==
    ASSUME TypeInv, NEW c \in Client, NEW e, Fail(c, e)
    PROVE  Takes(c, job[c]) /\ job'[c].pc = "append" /\ job'[c].err = e
BY DEF TypeInv, Fail, Takes, Fields

\* A step that does not reach the node.
LEMMA QuietGrows ==
    ASSUME TypeInv, LastAccepted, UNCHANGED node
    PROVE  Grows /\ LastAccepted'
<1>1. UNCHANGED <<ledger, sequence, funds, accepted>>
  BY DEF node
<1>2. Grows
  BY <1>1 DEF Grows, TypeInv, NodeType
<1>3. LastAccepted'
  BY <1>1 DEF LastAccepted
<1> QED BY <1>2, <1>3

\* A transaction is carried along for a request, from one of the accounts.
LEMMA CarriedFor ==
    ASSUME NEW c \in Client, JobInv(c),
           job[c].pc \in {"parse", "combine", "hash", "submit"} \/ SubmitFailed(c)
    PROVE  /\ job[c].ask \in Request /\ Ops(c) \in Seq(Operation)
           /\ Built(c) /\ Sender(job[c].tx) \in Account
<1>1. SubmitFailed(c) => job[c].err # Nil
  BY ConstructionAssumption DEF SubmitFailed, ErrValue
<1>2. job[c].ask \in Request
  BY <1>1 DEF JobInv, Asked, At, Unrefused
<1>3. Ops(c) \in Seq(Operation)
  BY <1>2, RequestShape DEF Ops
<1>4. Built(c)
  BY DEF JobInv, Carried
<1>5. Sender(job[c].tx) \in Account
  BY <1>3, <1>4, SenderIsAccount DEF Built
<1> QED BY <1>2, <1>3, <1>4, <1>5

\* What holds of a client that does not move.
LEMMA OthersStay ==
    ASSUME TypeInv, Grows, NEW d \in Client, JobInv(d), job'[d] = job[d]
    PROVE  JobInv(d)'
<1>1. Asked(d)'
  BY DEF JobInv, Asked, At, Ops
<1>2. ASSUME NEW n, NEW a \in Account, WasNext(n, a)
      PROVE  WasNext(n, a)'
  BY <1>2 DEF WasNext, Grows, TypeInv, NodeType
<1>3. Prepared(d)'
  <2>1. ASSUME job[d].pc \in {"terms", "payloads"}, Matches(Ops(d))
        PROVE  WasNext(job[d].sequence, Match(Ops(d))[1].account)'
    <3>1. job[d].ask \in Request
      BY <2>1 DEF JobInv, Asked, At
    <3>2. Match(Ops(d))[1].account \in Account
      BY <2>1, <3>1, RequestShape, SenderIsAccount DEF Ops
    <3>3. WasNext(job[d].sequence, Match(Ops(d))[1].account)
      BY <2>1 DEF JobInv, Prepared
    <3> QED BY <1>2, <3>2, <3>3 DEF WasNext, Ops
  <2> QED BY <2>1 DEF JobInv, Prepared, GasFrom, At, Ops, WasNext
<1>4. Carried(d)'
  <2>1. ASSUME job[d].pc \in {"parse", "combine", "hash", "submit"} \/ SubmitFailed(d)
        PROVE  Built(d)'
    <3>1. Built(d) /\ Sender(job[d].tx) \in Account
      BY <2>1, CarriedFor
    <3>2. WasNext(job[d].tx.sequence, Sender(job[d].tx))'
      BY <1>2, <3>1 DEF Built, WasNext
    <3> QED BY <3>1, <3>2 DEF Built, GasFrom, Ops, WasNext
  <2>2. Signed(d)' = Signed(d) /\ SubmitFailed(d)' = SubmitFailed(d)
    BY DEF Signed, SubmitFailed
  <2> QED BY <2>1, <2>2 DEF JobInv, Carried, At
<1>5. ParsedFor(d)'
  BY DEF JobInv, ParsedFor, Ops
<1> QED BY <1>1, <1>3, <1>4, <1>5 DEF JobInv

\* A step of c keeps the invariant if it does so for c and for the node.
LEMMA StepOf ==
    ASSUME Inv, Grows, LastAccepted', NEW c \in Client, NEW j, Takes(c, j), JobInv(c)'
    PROVE  Inv'
<1>1. TypeInv'
  BY DEF Inv, TypeInv, Grows, Takes
<1>2. \A d \in Client \ {c} : JobInv(d)'
  BY OthersStay DEF Inv, Takes
<1> QED BY <1>1, <1>2 DEF Inv

\* A refusal before the transaction is submitted needs no explanation.
LEMMA RefusalKeeps ==
    ASSUME Inv, Grows, LastAccepted', NEW c \in Client, job[c].pc \in Unrefused \ {"idle"},
           NEW e, e # "ErrUnableToSubmitTx", Fail(c, e)
    PROVE  Inv'
<1>1. Takes(c, job[c]) /\ job'[c].pc = "append" /\ job'[c].err = e
  BY FailTakes DEF Inv
<1>2. Asked(c)'
  BY <1>1 DEF Inv, JobInv, Asked, At, Takes, Unrefused
<1>3. Prepared(c)' /\ Carried(c)' /\ ~SubmitFailed(c)'
  BY <1>1 DEF Prepared, Carried, At, SubmitFailed
<1>4. ParsedFor(c)'
  BY <1>1 DEF Inv, JobInv, ParsedFor, Ops, Takes
<1>5. JobInv(c)'
  BY <1>2, <1>3, <1>4 DEF JobInv
<1> QED BY <1>1, <1>5, StepOf

-----------------------------------------------------------------------------
(* The actions. *)

\* A client asks for a transaction.
LEMMA AskKeeps ==
    ASSUME Inv, NEW c \in Client, NEW ask \in Request, Ask(c, ask)
    PROVE  Inv'
<1> DEFINE next == IF ask.direct /\ Matches(ask.ops)
                   THEN ledger[Match(ask.ops)[1].account] + 1 ELSE 0
           j == [NoJob EXCEPT !.ask = ask, !.sequence = next,
                              !.gasLimit = IF ask.direct THEN ask.gasLimit ELSE Nil,
                              !.gasPrice = IF ask.direct THEN ask.gasPrice ELSE Nil]
           pc == IF ask.direct THEN "payloads" ELSE "derive"
<1>1. Grows /\ LastAccepted'
  BY QuietGrows DEF Inv, Ask, Pure
<1>2. /\ DOMAIN j = Fields /\ j.ask = ask /\ j.sequence = next /\ j.fee = Nil
      /\ j.gasLimit = (IF ask.direct THEN ask.gasLimit ELSE Nil)
      /\ j.gasPrice = (IF ask.direct THEN ask.gasPrice ELSE Nil)
      /\ j.parsed = <<>> /\ j.err = Nil
  BY DEF NoJob, Fields
<1>3. Answer(c, pc, j)
  BY DEF Ask
<1> HIDE DEF j
<1>4. Takes(c, j) /\ job'[c].pc = pc /\ job'[c].err = Nil
  BY <1>2, <1>3, AnswerTakes DEF Inv
<1>5. ask.ops \in Seq(Operation) /\ ask.direct \in BOOLEAN
  BY RequestShape
<1>6. Asked(c)'
  BY <1>2, <1>4, <1>5 DEF Asked, At, Ops, Takes
<1>7. Prepared(c)'
  <2>1. ASSUME Matches(ask.ops), ask.direct
        PROVE  next \in Nat \ {0} /\ next <= sequence'[Match(ask.ops)[1].account] + 1
    <3>1. Match(ask.ops)[1].account \in Account
      BY <1>5, <2>1, SenderIsAccount
    <3> QED BY <1>1, <2>1, <3>1 DEF Inv, TypeInv, NodeType, Grows
  <2>2. CASE ask.direct
    <3>1. /\ job'[c].ask = ask /\ job'[c].sequence = next
          /\ job'[c].gasLimit = ask.gasLimit /\ job'[c].gasPrice = ask.gasPrice
      BY <1>2, <1>4, <2>2 DEF Takes
    <3>2. GasFrom(job'[c], OrElse(ask.gasPrice, 0), OrElse(ask.gasLimit, DefaultGasLimit))
      BY <2>2, <3>1, RequestShape, ConstructionAssumption DEF GasFrom, Price, Limit, OrElse
    <3> HIDE DEF next
    <3> QED BY <2>1, <2>2, <3>1, <3>2 DEF Prepared, Ops, WasNext
  <2>3. CASE ~ask.direct
    BY <1>4, <2>3 DEF Prepared, At
  <2> QED BY <1>5, <2>2, <2>3
<1>8. Carried(c)' /\ ~SubmitFailed(c)'
  BY <1>4, ConstructionAssumption DEF Carried, At, SubmitFailed, ErrValue
<1>9. ParsedFor(c)'
  BY <1>2, <1>4 DEF ParsedFor, Takes
<1>10. JobInv(c)'
  BY <1>6, <1>7, <1>8, <1>9 DEF JobInv
<1> QED BY <1>1, <1>4, <1>10, StepOf

\* Each endpoint keeps what is known of its client: ConstructionDerive.
LEMMA DeriveKeeps ==
    ASSUME Inv, NEW c \in Client, ConstructionDerive(c)
    PROVE  Inv'
<1>1. Grows /\ LastAccepted'
  BY QuietGrows DEF Inv, ConstructionDerive, Pure
<1>2. At(c, "derive") /\ DOMAIN job[c] = Fields
  BY DEF ConstructionDerive, Inv, TypeInv
<1>3. CASE Fail(c, "ErrInvalidInputParam")
  BY <1>1, <1>2, <1>3, RefusalKeeps DEF At, Unrefused
<1>4. CASE Answer(c, "preprocess", job[c])
  <2>1. Takes(c, job[c]) /\ job'[c].pc = "preprocess" /\ job'[c].err = job[c].err
    BY <1>2, <1>4, AnswerTakes DEF Inv
  <2>2. Asked(c)'
    BY <1>2, <2>1 DEF Inv, JobInv, Asked, At, Takes, Unrefused
  <2>3. Prepared(c)' /\ Carried(c)' /\ ~SubmitFailed(c)'
    BY <2>1, <2>2, ConstructionAssumption
    DEF Prepared, Carried, At, SubmitFailed, Asked, Unrefused, ErrValue
  <2>4. ParsedFor(c)'
    BY <2>1 DEF Inv, JobInv, ParsedFor, Ops, Takes
  <2>5. JobInv(c)'
    BY <2>2, <2>3, <2>4 DEF JobInv
  <2> QED BY <1>1, <2>1, <2>5, StepOf
<1> QED BY <1>3, <1>4 DEF ConstructionDerive

\* ConstructionPreprocess.
LEMMA PreprocessKeeps ==
    ASSUME Inv, NEW c \in Client, ConstructionPreprocess(c)
    PROVE  Inv'
<1> DEFINE wrong == \/ ~Matches(Ops(c))
                    \/ /\ IsSend(Ops(c))
                       /\ AddressesDiffer(Match(Ops(c))) \/ SameAccount(Match(Ops(c)))
<1>1. Grows /\ LastAccepted'
  BY QuietGrows DEF Inv, ConstructionPreprocess, Pure
<1>2. At(c, "preprocess") /\ DOMAIN job[c] = Fields
  BY DEF ConstructionPreprocess, Inv, TypeInv
<1>3. CASE Fail(c, "ErrServiceInternal")
  BY <1>1, <1>2, <1>3, RefusalKeeps DEF At, Unrefused
<1>4. CASE ~wrong /\ Answer(c, "metadata", job[c])
  <2>1. Takes(c, job[c]) /\ job'[c].pc = "metadata" /\ job'[c].err = job[c].err
    BY <1>2, <1>4, AnswerTakes DEF Inv
  <2>2. Asked(c)'
    BY <1>2, <1>4, <2>1 DEF Inv, JobInv, Asked, At, Ops, Takes, Unrefused
  <2>3. Prepared(c)' /\ Carried(c)' /\ ~SubmitFailed(c)'
    BY <2>1, <2>2, ConstructionAssumption
    DEF Prepared, Carried, At, SubmitFailed, Asked, Unrefused, ErrValue
  <2>4. ParsedFor(c)'
    BY <2>1 DEF Inv, JobInv, ParsedFor, Ops, Takes
  <2>5. JobInv(c)'
    BY <2>2, <2>3, <2>4 DEF JobInv
  <2> QED BY <1>1, <2>1, <2>5, StepOf
<1> QED BY <1>3, <1>4 DEF ConstructionPreprocess

\* The first call of ConstructionMetadata.
LEMMA MetadataSequenceKeeps ==
    ASSUME Inv, NEW c \in Client, MetadataSequence(c)
    PROVE  Inv'
<1> DEFINE a == Match(Ops(c))[1].account
           j == [job[c] EXCEPT !.sequence = NextSequence(a)]
<1>1. Grows /\ LastAccepted'
  BY QuietGrows DEF Inv, MetadataSequence, Pure
<1>2. At(c, "metadata") /\ DOMAIN job[c] = Fields
  BY DEF MetadataSequence, Inv, TypeInv
<1>3. CASE Fail(c, "ErrInvalidInputParam")
  BY <1>1, <1>2, <1>3, RefusalKeeps DEF At, Unrefused
<1>4. CASE Answer(c, "terms", j)
  <2>1. /\ DOMAIN j = Fields /\ j.sequence = ledger[a] + 1
        /\ j.ask = job[c].ask /\ j.parsed = job[c].parsed /\ j.err = job[c].err
        /\ j.fee = job[c].fee /\ j.terms = job[c].terms
        /\ j.gasPrice = job[c].gasPrice /\ j.gasLimit = job[c].gasLimit
    BY <1>2 DEF NextSequence, Fields
  <2> HIDE DEF j
  <2>2. Takes(c, j) /\ job'[c].pc = "terms" /\ job'[c].err = job[c].err
    BY <1>4, <2>1, AnswerTakes DEF Inv
  <2>3. Asked(c)'
    BY <1>2, <2>1, <2>2 DEF Inv, JobInv, Asked, At, Ops, Takes, Unrefused
  <2>4. Prepared(c)'
    <3>1. job[c].ask \in Request /\ Matches(Ops(c))
      BY <1>2 DEF Inv, JobInv, Asked, At
    <3>2. a \in Account
      BY <3>1, RequestShape, SenderIsAccount DEF Ops
    <3>3. j.sequence \in Nat \ {0} /\ j.sequence <= sequence'[a] + 1
      BY <1>1, <2>1, <3>2 DEF Inv, TypeInv, NodeType, Grows
    <3> QED BY <2>1, <2>2, <3>3 DEF Prepared, At, Ops, Takes, WasNext
  <2>5. Carried(c)' /\ ~SubmitFailed(c)'
    BY <2>2, <2>3, ConstructionAssumption
    DEF Carried, At, SubmitFailed, Asked, Unrefused, ErrValue
  <2>6. ParsedFor(c)'
    BY <2>1, <2>2 DEF Inv, JobInv, ParsedFor, Ops, Takes
  <2>7. JobInv(c)'
    BY <2>3, <2>4, <2>5, <2>6 DEF JobInv
  <2> QED BY <1>1, <2>2, <2>7, StepOf
<1> QED BY <1>3, <1>4 DEF MetadataSequence

\* The first call of ConstructionMetadata, when it fails.
LEMMA MetadataSequenceFailsKeeps ==
    ASSUME Inv, NEW c \in Client, MetadataSequenceFails(c)
    PROVE  Inv'
<1> DEFINE j == [job[c] EXCEPT !.err = "ErrUnableToGetAccount"]
<1>1. Grows /\ LastAccepted'
  BY QuietGrows DEF Inv, MetadataSequenceFails
<1>2. At(c, "metadata") /\ DOMAIN job[c] = Fields /\ Answer(c, "failed", j)
  BY DEF MetadataSequenceFails, Inv, TypeInv
<1>3. /\ DOMAIN j = Fields /\ j.ask = job[c].ask /\ j.parsed = job[c].parsed
      /\ j.fee = job[c].fee /\ j.terms = job[c].terms
      /\ j.gasPrice = job[c].gasPrice /\ j.gasLimit = job[c].gasLimit
      /\ j.err = "ErrUnableToGetAccount"
  BY <1>2 DEF Fields
<1> HIDE DEF j
<1>4. Takes(c, j) /\ job'[c].pc = "failed" /\ job'[c].err = "ErrUnableToGetAccount"
  BY <1>2, <1>3, AnswerTakes DEF Inv
<1>5. Asked(c)'
  BY <1>2, <1>3, <1>4 DEF Inv, JobInv, Asked, At, Takes, Unrefused
<1>6. Prepared(c)' /\ Carried(c)' /\ ~SubmitFailed(c)'
  BY <1>4 DEF Prepared, Carried, At, SubmitFailed
<1>7. ParsedFor(c)'
  BY <1>3, <1>4 DEF Inv, JobInv, ParsedFor, Ops, Takes
<1>8. JobInv(c)'
  BY <1>5, <1>6, <1>7 DEF JobInv
<1> QED BY <1>1, <1>4, <1>8, StepOf

\* Metadata with the node's terms, or with those of height 0.
LEMMA FillInKeeps ==
    ASSUME Inv, NEW c \in Client, At(c, "terms"), Grows, LastAccepted',
           NEW given \in GivenFee(c), NEW terms, FillIn(c, given, terms),
           terms \in {Terms, OldTerms}
    PROVE  Inv'
<1> DEFINE ask == job[c].ask
           j == IF IsSend(Ops(c))
                THEN [job[c] EXCEPT !.terms = terms, !.fee = IF given = 0 THEN terms.fee ELSE given]
                ELSE [job[c] EXCEPT !.terms = terms, !.fee = 0,
                                    !.gasLimit = OrElse(ask.gasLimit, terms.gasLimit),
                                    !.gasPrice = OrElse(ask.gasPrice, terms.gasPrice)]
<1>1. DOMAIN job[c] = Fields /\ Answer(c, "payloads", j)
  BY DEF FillIn, Inv, TypeInv
<1>2. /\ DOMAIN j = Fields /\ j.ask = ask /\ j.parsed = job[c].parsed /\ j.err = job[c].err
      /\ j.sequence = job[c].sequence /\ j.terms = terms
      /\ IsSend(Ops(c)) => j.fee = IF given = 0 THEN terms.fee ELSE given
      /\ ~IsSend(Ops(c)) =>
            /\ j.gasLimit = OrElse(ask.gasLimit, terms.gasLimit)
            /\ j.gasPrice = OrElse(ask.gasPrice, terms.gasPrice)
  BY <1>1 DEF Fields
<1> HIDE DEF j
<1>3. Takes(c, j) /\ job'[c].pc = "payloads" /\ job'[c].err = job[c].err
  BY <1>1, <1>2, AnswerTakes DEF Inv
<1>4. /\ ask \in Request /\ ~ask.direct /\ Matches(Ops(c)) /\ Ops(c) \in Seq(Operation)
      /\ ask.gasLimit \in {Nil} \cup Nat /\ ask.gasPrice \in {Nil} \cup Nat
      /\ Ops(c) = ask.ops
  BY RequestShape DEF Inv, JobInv, Asked, At, Ops
<1>5. Asked(c)'
  BY <1>2, <1>3 DEF Inv, JobInv, Asked, At, Ops, Takes, Unrefused
<1>6. Prepared(c)'
  <2>1. WasNext(j.sequence, Match(Ops(c))[1].account)
    BY <1>2, <1>4 DEF Inv, JobInv, Prepared, At
  <2>2. Match(Ops(c))[1].account \in Account
    BY <1>4, SenderIsAccount
  <2>3. j.sequence \in Nat \ {0} /\ j.sequence <= sequence'[Match(Ops(c))[1].account] + 1
    BY <2>1, <2>2 DEF WasNext, Inv, TypeInv, NodeType, Grows
  <2>4. ASSUME ~IsSend(Ops(c))
        PROVE  GasFrom(j, OrElse(j.gasPrice, 0), OrElse(j.gasLimit, DefaultGasLimit))
    <3>1. terms.gasPrice \in Nat /\ terms.gasLimit \in Nat /\ Nil \notin Int
      BY ConstructionAssumption
    <3>2. j.gasPrice \in Nat /\ j.gasLimit \in Nat
      BY <1>2, <1>4, <2>4, <3>1 DEF OrElse
    <3>3. OrElse(j.gasPrice, 0) = j.gasPrice /\ OrElse(j.gasLimit, DefaultGasLimit) = j.gasLimit
      BY <3>1, <3>2 DEF OrElse
    <3>4. ASSUME terms # OldTerms
          PROVE  j.gasPrice = Price(ask) /\ j.gasLimit = Limit(ask)
      BY <1>2, <1>4, <2>4, <3>4 DEF Price, Limit
    <3> QED BY <1>2, <3>2, <3>3, <3>4 DEF GasFrom
  <2>5. job'[c].sequence = j.sequence /\ Ops(c)' = Ops(c)
    BY <1>2, <1>3, <1>4 DEF Takes, Ops
  <2>6. ~IsSend(Ops(c)) => GasFrom(job'[c], OrElse(job'[c].gasPrice, 0),
                                   OrElse(job'[c].gasLimit, DefaultGasLimit))
    BY <1>2, <1>3, <2>4 DEF GasFrom, Takes
  <2> QED BY <2>3, <2>5, <2>6 DEF Prepared, WasNext
<1>7. Carried(c)' /\ ~SubmitFailed(c)'
  BY <1>3, <1>5, ConstructionAssumption
  DEF Carried, At, SubmitFailed, Asked, Unrefused, ErrValue
<1>8. ParsedFor(c)'
  BY <1>2, <1>3 DEF Inv, JobInv, ParsedFor, Ops, Takes
<1>9. JobInv(c)'
  BY <1>5, <1>6, <1>7, <1>8 DEF JobInv
<1> QED BY <1>3, <1>9, StepOf

\* The second call of ConstructionMetadata, and its answer.
LEMMA MetadataTermsKeeps ==
    ASSUME Inv, NEW c \in Client,
           MetadataTerms(c) \/ MetadataTermsOfHeightZero(c) \/ MetadataTermsFail(c)
    PROVE  Inv'
<1>1. CASE MetadataTerms(c)
  <2>1. Grows /\ LastAccepted'
    BY <1>1, QuietGrows DEF Inv, MetadataTerms, Pure
  <2> QED BY <1>1, <2>1, FillInKeeps DEF MetadataTerms
<1>2. CASE MetadataTermsOfHeightZero(c)
  <2>1. Grows /\ LastAccepted'
    BY <1>2, QuietGrows DEF Inv, MetadataTermsOfHeightZero
  <2> QED BY <1>2, <2>1, FillInKeeps DEF MetadataTermsOfHeightZero
<1>3. CASE MetadataTermsFail(c)
  <2>1. Grows /\ LastAccepted'
    BY <1>3, QuietGrows DEF Inv, MetadataTermsFail
  <2> QED BY <1>3, <2>1, RefusalKeeps DEF MetadataTermsFail, At, Unrefused
<1> QED BY <1>1, <1>2, <1>3

\* ConstructionPayloads.
LEMMA PayloadsKeeps ==
    ASSUME Inv, NEW c \in Client, ConstructionPayloads(c)
    PROVE  Inv'
<1> DEFINE m == Match(Ops(c))
           tx == BuiltTx(job[c])
           j == [job[c] EXCEPT !.tx = tx, !.account = PayloadAccount(Ops(c))]
<1>1. Grows /\ LastAccepted'
  BY QuietGrows DEF Inv, ConstructionPayloads, Pure
<1>2. At(c, "payloads") /\ DOMAIN job[c] = Fields
  BY DEF ConstructionPayloads, Inv, TypeInv
<1>3. CASE Fail(c, "ErrServiceInternal")
  BY <1>1, <1>2, <1>3, RefusalKeeps DEF At, Unrefused
<1>4. CASE ~PayloadsRefused(c) /\ Answer(c, "parse", j)
  <2>1. /\ DOMAIN j = Fields /\ j.tx = tx /\ j.account = Ops(c)[1].account
        /\ j.ask = job[c].ask /\ j.parsed = job[c].parsed /\ j.err = job[c].err
        /\ j.fee = job[c].fee /\ j.terms = job[c].terms /\ j.sequence = job[c].sequence
        /\ j.gasPrice = job[c].gasPrice /\ j.gasLimit = job[c].gasLimit
    BY <1>2 DEF PayloadAccount, Fields
  <2>2. Matches(Ops(c)) /\ job[c].ask \in Request /\ Ops(c) \in Seq(Operation)
    BY <1>2, <1>4, RequestShape DEF PayloadsRefused, Inv, JobInv, Asked, At, Ops
  <2> HIDE DEF j
  <2>3. Takes(c, j) /\ job'[c].pc = "parse" /\ job'[c].err = job[c].err
    BY <1>4, <2>1, AnswerTakes DEF Inv
  <2>4. Asked(c)'
    BY <1>2, <2>1, <2>2, <2>3 DEF Inv, JobInv, Asked, At, Ops, Takes, Unrefused
  <2>5. WasNext(job[c].sequence, m[1].account) /\ m[1].account \in Account
    BY <1>2, <2>2, SenderIsAccount DEF Inv, JobInv, Prepared, At
  <2>6. /\ DOMAIN tx = TxFields /\ Sender(tx) = m[1].account /\ tx.sequence = job[c].sequence
        /\ IsSend(Ops(c)) => TransferOf(tx, m)
        /\ ~IsSend(Ops(c)) =>
              /\ CallOf(tx, m)
              /\ tx.gasPrice = OrElse(job[c].gasPrice, 0)
              /\ tx.gasLimit = OrElse(job[c].gasLimit, DefaultGasLimit)
    <3> HIDE DEF m
    <3>1. CASE IsSend(Ops(c))
      <4>1. tx = SendTx(m, job[c].sequence)
        BY <3>1 DEF BuiltTx, Ops, m
      <4> QED BY <3>1, <4>1 DEF SendTx, TxParty, Sender, TxFields, TransferOf
    <3>2. CASE ~IsSend(Ops(c))
      <4>1. tx = SmartContractTx(m, job[c].sequence, job[c].gasLimit, job[c].gasPrice)
        BY <3>2 DEF BuiltTx, Ops, m
      <4> QED BY <3>2, <4>1 DEF SmartContractTx, TxParty, Sender, TxFields, CallOf
    <3> QED BY <3>1, <3>2
  <2>7. ~IsSend(Ops(c)) => GasFrom(job'[c], tx.gasPrice, tx.gasLimit)
    <3>1. ~IsSend(Ops(c)) => GasFrom(job[c], tx.gasPrice, tx.gasLimit)
      BY <1>2, <2>6 DEF Inv, JobInv, Prepared, At
    <3> QED BY <2>1, <2>3, <3>1 DEF GasFrom, Takes
  <2>8. tx.sequence \in Nat \ {0} /\ tx.sequence <= sequence'[Sender(tx)] + 1
    BY <1>1, <2>5, <2>6 DEF WasNext, Inv, TypeInv, NodeType, Grows
  <2>9. BuiltTx(job'[c]) = tx
    BY <2>1, <2>3 DEF BuiltTx, Takes
  <2> HIDE DEF tx
  <2>10. Carried(c)' /\ ~SubmitFailed(c)'
    <3>1. Built(c)'
      BY <2>1, <2>2, <2>3, <2>6, <2>7, <2>8 DEF Built, Ops, Takes, WasNext
    <3>2. ~SubmitFailed(c)'
      BY <2>3, <2>4, ConstructionAssumption DEF SubmitFailed, Asked, Unrefused, ErrValue
    <3> QED BY <2>1, <2>3, <2>9, <3>1, <3>2 DEF Carried, At, Takes
  <2>11. Prepared(c)'
    BY <2>3 DEF Prepared, At
  <2>12. ParsedFor(c)'
    BY <2>1, <2>3 DEF Inv, JobInv, ParsedFor, Ops, Takes
  <2>13. JobInv(c)'
    BY <2>4, <2>10, <2>11, <2>12 DEF JobInv
  <2> QED BY <1>1, <2>3, <2>13, StepOf
<1> QED BY <1>3, <1>4 DEF ConstructionPayloads, BuiltTx, Ops

\* ConstructionParse.
LEMMA ParseKeeps ==
    ASSUME Inv, NEW c \in Client, ConstructionParse(c)
    PROVE  Inv'
<1> DEFINE tx == job[c].tx
           parsed == IF tx.kind = "send" THEN ParseSendTx(tx)
                     ELSE ParseSmartContractTxForConstruction(tx)
           j == [job[c] EXCEPT !.parsed = parsed]
<1>1. Grows /\ LastAccepted'
  BY QuietGrows DEF Inv, ConstructionParse, Pure
<1>2. At(c, "parse") /\ DOMAIN job[c] = Fields /\ UNCHANGED sequence
  BY DEF ConstructionParse, Inv, TypeInv, Pure, node
<1>3. CASE Fail(c, "ErrUnableToParseTx")
  BY <1>1, <1>2, <1>3, RefusalKeeps DEF At, Unrefused
<1>4. CASE Answer(c, "combine", j)
  <2>1. /\ DOMAIN j = Fields /\ j.parsed = parsed /\ j.tx = tx /\ j.account = job[c].account
        /\ j.ask = job[c].ask /\ j.err = job[c].err /\ j.fee = job[c].fee
        /\ j.terms = job[c].terms /\ j.gasPrice = job[c].gasPrice
        /\ j.gasLimit = job[c].gasLimit
    BY <1>2 DEF Fields
  <2> HIDE DEF j, parsed
  <2>2. Takes(c, j) /\ job'[c].pc = "combine" /\ job'[c].err = job[c].err
    BY <1>4, <2>1, AnswerTakes DEF Inv
  <2>3. /\ Built(c) /\ Ops(c) \in Seq(Operation) /\ tx = BuiltTx(job[c])
        /\ job[c].ask \in Request
    BY <1>2, CarriedFor DEF Inv, JobInv, Carried, At
  <2>4. Asked(c)'
    BY <1>2, <2>1, <2>2 DEF Inv, JobInv, Asked, At, Ops, Takes, Unrefused
  <2>5. Prepared(c)'
    BY <2>2 DEF Prepared, At
  <2>6. Carried(c)' /\ ~SubmitFailed(c)'
    <3>1. Built(c)'
      BY <1>2, <2>1, <2>2, <2>3 DEF Built, GasFrom, Ops, Takes, WasNext
    <3>2. ~SubmitFailed(c)'
      BY <2>2, <2>4, ConstructionAssumption DEF SubmitFailed, Asked, Unrefused, ErrValue
    <3> QED BY <2>2, <3>1, <3>2 DEF Carried, At
  <2>7. ParsedFor(c)'
    <3>1. CASE IsSend(Ops(c)) /\ ~AddressesDiffer(Match(Ops(c)))
      <4>1. parsed = ParseSendTx(SendTx(Match(Ops(c)), job[c].sequence))
        BY <2>3, <3>1 DEF Built, BuiltTx, TransferOf, Ops, parsed
      <4>2. Matches(Ops(c))
        BY <2>3 DEF Built
      <4>3. parsed = Intended(Ops(c))
        BY <2>3, <3>1, <4>1, <4>2, SendParsed
      <4> QED BY <2>1, <2>2, <4>3 DEF ParsedFor, Ops, Takes
    <3>2. CASE ~IsSend(Ops(c))
      <4>1. parsed = ParseSmartContractTxForConstruction(
                SmartContractTx(Match(Ops(c)), job[c].sequence, job[c].gasLimit, job[c].gasPrice))
        BY <2>3, <3>2 DEF Built, BuiltTx, CallOf, Ops, parsed
      <4>2. Matches(Ops(c))
        BY <2>3 DEF Built
      <4>3. parsed = Intended(Ops(c))
        BY <2>3, <3>2, <4>1, <4>2, CallParsed
      <4> QED BY <2>1, <2>2, <4>3 DEF ParsedFor, Ops, Takes
    <3>3. CASE IsSend(Ops(c)) /\ AddressesDiffer(Match(Ops(c)))
      <4>1. job[c].ask.direct
        BY <1>2, <2>3, <3>3, RequestShape DEF Inv, JobInv, Asked, At
      <4> QED BY <2>1, <2>2, <3>3, <4>1 DEF ParsedFor, Ops, Takes
    <3> QED BY <3>1, <3>2, <3>3
  <2>8. JobInv(c)'
    BY <2>4, <2>5, <2>6, <2>7 DEF JobInv
  <2> QED BY <1>1, <2>2, <2>8, StepOf
<1> QED BY <1>3, <1>4 DEF ConstructionParse

\* ConstructionCombine.
LEMMA CombineKeeps ==
    ASSUME Inv, NEW c \in Client, ConstructionCombine(c)
    PROVE  Inv'
<1> DEFINE signed == job[c].account = Sender(job[c].tx)
           j == [job[c] EXCEPT !.tx.signed = signed]
<1>1. Grows /\ LastAccepted'
  BY QuietGrows DEF Inv, ConstructionCombine, Pure
<1>2. At(c, "combine") /\ DOMAIN job[c] = Fields /\ UNCHANGED sequence
  BY DEF ConstructionCombine, Inv, TypeInv, Pure, node
<1>3. CASE Fail(c, "ErrInvalidInputParam") \/ Fail(c, "ErrUnableToParseTx")
  BY <1>1, <1>2, <1>3, RefusalKeeps DEF At, Unrefused
<1>4. CASE Answer(c, "hash", j)
  <2>1. Built(c)
    BY <1>2, CarriedFor DEF Inv, At
  <2>2. /\ DOMAIN j = Fields /\ j.tx = [job[c].tx EXCEPT !.signed = signed]
        /\ j.account = job[c].account /\ j.parsed = job[c].parsed
        /\ j.ask = job[c].ask /\ j.err = job[c].err /\ j.fee = job[c].fee
        /\ j.terms = job[c].terms /\ j.gasPrice = job[c].gasPrice
        /\ j.gasLimit = job[c].gasLimit
    BY <1>2 DEF Fields
  <2>3. /\ DOMAIN j.tx = TxFields /\ j.tx.signed = signed
        /\ j.tx.ins = job[c].tx.ins /\ j.tx.outs = job[c].tx.outs
        /\ j.tx.kind = job[c].tx.kind /\ j.tx.sequence = job[c].tx.sequence
        /\ j.tx.fee = job[c].tx.fee /\ j.tx.gasPrice = job[c].tx.gasPrice
        /\ j.tx.gasLimit = job[c].tx.gasLimit
    BY <2>1, <2>2 DEF Built, TxFields
  <2> HIDE DEF j, signed
  <2>4. Takes(c, j) /\ job'[c].pc = "hash" /\ job'[c].err = job[c].err
    BY <1>4, <2>2, AnswerTakes DEF Inv
  <2>5. Asked(c)'
    BY <1>2, <2>2, <2>4 DEF Inv, JobInv, Asked, At, Ops, Takes, Unrefused
  <2>6. Prepared(c)'
    BY <2>4 DEF Prepared, At
  <2>7. Built(c)'
    BY <1>2, <2>1, <2>2, <2>3, <2>4
    DEF Built, TransferOf, CallOf, GasFrom, Ops, Takes, WasNext, Sender
  <2>8. Signed(c)'
    BY <2>2, <2>3, <2>4 DEF Signed, Takes, Sender, signed
  <2>9. ~SubmitFailed(c)'
    BY <2>4, <2>5, ConstructionAssumption DEF SubmitFailed, Asked, Unrefused, ErrValue
  <2>10. Carried(c)'
    BY <2>4, <2>7, <2>8 DEF Carried, At
  <2>11. ParsedFor(c)'
    BY <2>2, <2>4 DEF Inv, JobInv, ParsedFor, Ops, Takes
  <2>12. JobInv(c)'
    BY <2>5, <2>6, <2>9, <2>10, <2>11 DEF JobInv
  <2> QED BY <1>1, <2>4, <2>12, StepOf
<1> QED BY <1>3, <1>4 DEF ConstructionCombine

\* A transaction that is carried along unchanged stays the one that was built.
LEMMA StaysBuilt ==
    ASSUME TypeInv, Grows, NEW c \in Client, JobInv(c),
           job[c].pc \in {"parse", "combine", "hash", "submit"} \/ SubmitFailed(c),
           NEW j, Takes(c, j), j.ask = job[c].ask, j.tx = job[c].tx, j.account = job[c].account,
           j.terms = job[c].terms
    PROVE  Built(c)' /\ (Signed(c) => Signed(c)')
<1>1. Built(c) /\ Sender(job[c].tx) \in Account
  BY CarriedFor
<1>2. WasNext(job[c].tx.sequence, Sender(job[c].tx))
  BY <1>1 DEF Built
<1>3. /\ job[c].tx.sequence \in Nat \ {0}
      /\ job[c].tx.sequence <= sequence'[Sender(job[c].tx)] + 1
  BY <1>1, <1>2 DEF WasNext, TypeInv, NodeType, Grows
<1>4. Built(c)'
  BY <1>1, <1>3 DEF Built, GasFrom, Ops, Takes, WasNext
<1>5. Signed(c) => Signed(c)'
  BY DEF Signed, Takes
<1> QED BY <1>4, <1>5

\* ConstructionHash.
LEMMA HashKeeps ==
    ASSUME Inv, NEW c \in Client, ConstructionHash(c)
    PROVE  Inv'
<1>1. Grows /\ LastAccepted'
  BY QuietGrows DEF Inv, ConstructionHash, Pure
<1>2. At(c, "hash") /\ DOMAIN job[c] = Fields
  BY DEF ConstructionHash, Inv, TypeInv
<1>3. CASE Fail(c, "ErrInvalidInputParam")
  BY <1>1, <1>2, <1>3, RefusalKeeps DEF At, Unrefused
<1>4. CASE Answer(c, "submit", job[c])
  <2>1. Takes(c, job[c]) /\ job'[c].pc = "submit" /\ job'[c].err = job[c].err
    BY <1>2, <1>4, AnswerTakes DEF Inv
  <2>2. Asked(c)' /\ Prepared(c)'
    BY <1>2, <2>1 DEF Inv, JobInv, Asked, Prepared, At, Ops, Takes, Unrefused
  <2>3. Built(c)' /\ Signed(c)'
    BY <1>1, <1>2, <2>1, StaysBuilt DEF Inv, JobInv, Carried, At
  <2>4. Carried(c)' /\ ~SubmitFailed(c)'
    BY <2>1, <2>2, <2>3, ConstructionAssumption
    DEF Carried, At, SubmitFailed, Asked, Unrefused, ErrValue
  <2>5. ParsedFor(c)'
    BY <2>1 DEF Inv, JobInv, ParsedFor, Ops, Takes
  <2>6. JobInv(c)'
    BY <2>2, <2>4, <2>5 DEF JobInv
  <2> QED BY <1>1, <2>1, <2>6, StepOf
<1> QED BY <1>3, <1>4 DEF ConstructionHash

\* What a transaction that was built may cost, in numbers.
LEMMA SpendsType ==
    ASSUME Inv, NEW c \in Client, job[c].ask \in Request, Ops(c) \in Seq(Operation), Built(c)
    PROVE  Spends(job[c].tx) \in [theta : Int, tfuel : Int]
<1> DEFINE tx == job[c].tx
           m == Match(Ops(c))
<1>1. CASE IsSend(Ops(c))
  <2>1. m[1] \in Operation /\ m[2] \in Operation /\ m[5] \in Operation
    BY <1>1, SendMatch DEF Built
  <2>2. m[1].value \in Int /\ m[2].value \in Int /\ m[5].value \in Int
    BY <2>1 DEF Operation
  <2>3. TransferOf(tx, m)
    BY <1>1 DEF Built
  <2> HIDE DEF tx, m
  <2>4. tx.ins[1].theta \in Int /\ tx.ins[1].tfuel \in Int
    <3>1. \A x, y \in Int : -x \in Int /\ -x - y \in Int
      OBVIOUS
    <3>2. -m[1].value \in Int /\ -m[2].value - m[5].value \in Int
      BY <2>2, <3>1
    <3> QED BY <2>3, <3>2, Zenon DEF TransferOf
  <2>5. tx.gasLimit * tx.gasPrice = 0
    BY <2>3 DEF TransferOf
  <2>6. tx.ins[1].tfuel + tx.gasLimit * tx.gasPrice \in Int
    BY <2>4, <2>5
  <2>7. Spends(tx) \in [theta : Int, tfuel : Int]
    BY <2>4, <2>6 DEF Spends
  <2> QED BY <2>7 DEF tx
<1>2. CASE ~IsSend(Ops(c))
  <2>1. m[1] \in Operation
    BY <1>2, CallMatch DEF Built
  <2>2. m[1].value \in Int
    BY <2>1 DEF Operation
  <2>3. CallOf(tx, m) /\ tx.gasLimit \in Nat /\ tx.gasPrice \in Nat
    BY <1>2 DEF Built, GasFrom
  <2> HIDE DEF tx, m
  <2>4. tx.ins[1].theta \in Int /\ tx.ins[1].tfuel \in Int
    BY <2>2, <2>3 DEF CallOf
  <2>5. tx.gasLimit * tx.gasPrice \in Nat
    BY <2>3
  <2>6. tx.ins[1].tfuel + tx.gasLimit * tx.gasPrice \in Int
    BY <2>4, <2>5
  <2>7. Spends(tx) \in [theta : Int, tfuel : Int]
    BY <2>4, <2>6 DEF Spends
  <2> QED BY <2>7 DEF tx
<1> QED BY <1>1, <1>2

\* The node takes the next transaction of an account.
LEMMA AcceptGrows ==
    ASSUME Inv, NEW c \in Client, At(c, "submit"), Accept(job[c].tx)
    PROVE  Grows /\ LastAccepted'
<1> DEFINE tx == job[c].tx
           a == Sender(tx)
           cost == Spends(tx)
<1>1. Built(c) /\ a \in Account /\ job[c].ask \in Request /\ Ops(c) \in Seq(Operation)
  BY CarriedFor DEF Inv, At
<1>2. /\ tx.sequence = sequence[a] + 1
      /\ cost.theta <= funds[a].theta /\ cost.tfuel <= funds[a].tfuel
  BY DEF Accept, Acceptable
<1>3. /\ sequence' = [sequence EXCEPT ![a] = tx.sequence]
      /\ funds' = [funds EXCEPT ![a] = [theta |-> @.theta - cost.theta,
                                        tfuel |-> @.tfuel - cost.tfuel]]
      /\ accepted' = accepted \cup {tx} /\ ledger' = ledger
  BY DEF Accept
<1>4. cost.theta \in Int /\ cost.tfuel \in Int
  BY <1>1, SpendsType
<1> HIDE DEF tx, a, cost
<1>5. NodeType
  BY DEF Inv, TypeInv
<1>6. funds' \in [Account -> [theta : Nat, tfuel : Nat]]
  <2>1. funds[a].theta \in Nat /\ funds[a].tfuel \in Nat /\ funds[a] \in [theta : Nat, tfuel : Nat]
    BY <1>1, <1>5 DEF NodeType
  <2>2. funds[a].theta - cost.theta \in Nat /\ funds[a].tfuel - cost.tfuel \in Nat
    BY <1>2, <1>4, <2>1
  <2>3. funds' = [funds EXCEPT ![a] = [theta |-> funds[a].theta - cost.theta,
                                       tfuel |-> funds[a].tfuel - cost.tfuel]]
    BY <1>3
  <2> QED BY <1>5, <2>2, <2>3 DEF NodeType
<1>7. Grows
  BY <1>1, <1>2, <1>3, <1>5, <1>6 DEF NodeType, Grows
<1>8. LastAccepted'
  <2> USE DEF a
  <2> QED BY <1>1, <1>2, <1>3, <1>5 DEF Inv, NodeType, LastAccepted
<1> QED BY <1>7, <1>8

\* A submit that is answered with an error.
LEMMA RefusedKeeps ==
    ASSUME Inv, Grows, LastAccepted', NEW c \in Client, At(c, "submit"),
           Fail(c, "ErrUnableToSubmitTx")
    PROVE  Inv'
<1>1. Takes(c, job[c]) /\ job'[c].pc = "append" /\ job'[c].err = "ErrUnableToSubmitTx"
  BY FailTakes DEF Inv
<1>2. job[c].ask \in Request
  BY CarriedFor DEF Inv, At
<1>3. Signed(c)
  BY DEF Inv, JobInv, Carried, At
<1>4. Asked(c)' /\ Prepared(c)'
  BY <1>1, <1>2 DEF Asked, Prepared, At, Takes, Unrefused
<1>5. Built(c)' /\ Signed(c)'
  BY <1>1, <1>3, StaysBuilt DEF Inv, At
<1>6. Carried(c)'
  BY <1>1, <1>5 DEF Carried, At
<1>7. ParsedFor(c)'
  BY <1>1 DEF Inv, JobInv, ParsedFor, Ops, Takes
<1>8. JobInv(c)'
  BY <1>4, <1>6, <1>7 DEF JobInv
<1> QED BY <1>1, <1>8, StepOf

\* ConstructionSubmit.
LEMMA SubmitKeeps ==
    ASSUME Inv, NEW c \in Client, ConstructionSubmit(c) \/ ConstructionSubmitFails(c)
    PROVE  Inv'
<1>1. At(c, "submit") /\ DOMAIN job[c] = Fields
  BY DEF ConstructionSubmit, ConstructionSubmitFails, Inv, TypeInv
<1>2. CASE Accept(job[c].tx) /\ Answer(c, "done", job[c])
  <2>1. Grows /\ LastAccepted'
    BY <1>1, <1>2, AcceptGrows
  <2>2. Takes(c, job[c]) /\ job'[c].pc = "done" /\ job'[c].err = job[c].err
    BY <1>1, <1>2, AnswerTakes DEF Inv
  <2>3. Asked(c)' /\ Prepared(c)'
    BY <1>1, <2>2 DEF Inv, JobInv, Asked, Prepared, At, Ops, Takes, Unrefused
  <2>4. Carried(c)'
    BY <2>2, <2>3, ConstructionAssumption
    DEF Carried, At, SubmitFailed, Asked, Unrefused, ErrValue
  <2>5. ParsedFor(c)'
    BY <2>2 DEF Inv, JobInv, ParsedFor, Ops, Takes
  <2>6. JobInv(c)'
    BY <2>3, <2>4, <2>5 DEF JobInv
  <2> QED BY <2>1, <2>2, <2>6, StepOf
<1>3. CASE Fail(c, "ErrUnableToSubmitTx") /\ (UNCHANGED node \/ Accept(job[c].tx))
  <2>1. Grows /\ LastAccepted'
    BY <1>1, <1>3, QuietGrows, AcceptGrows DEF Inv
  <2> QED BY <1>1, <1>3, <2>1, RefusedKeeps
<1> QED BY <1>2, <1>3 DEF ConstructionSubmit, ConstructionSubmitFails

\* A block with transactions of the pool.
LEMMA CommitKeeps ==
    ASSUME Inv, NEW a \in Account, Commit(a)
    PROVE  Inv'
<1>1. /\ UNCHANGED <<job, sequence, funds, accepted>>
      /\ \E n \in (ledger[a] + 1)..sequence[a] : ledger' = [ledger EXCEPT ![a] = n]
  BY DEF Commit
<1>2. Grows /\ LastAccepted'
  BY <1>1 DEF Inv, TypeInv, NodeType, Grows, LastAccepted
<1>3. TypeInv' /\ \A c \in Client : JobInv(c)'
  BY <1>1, <1>2, OthersStay DEF Inv, TypeInv, Grows
<1> QED BY <1>2, <1>3 DEF Inv

\* The steps after a refusal leave the transaction and its error alone.
LEMMA ErrorStepKeeps ==
    ASSUME Inv, Grows, LastAccepted', NEW c \in Client, job[c].pc \in {"append", "store", "send"},
           NEW j, Takes(c, j), NEW pc \in {"store", "send", "failed"}, job'[c].pc = pc,
           job'[c].err = job[c].err,
           j.ask = job[c].ask, j.tx = job[c].tx, j.account = job[c].account,
           j.parsed = job[c].parsed, j.fee = job[c].fee, j.terms = job[c].terms,
           j.gasPrice = job[c].gasPrice, j.gasLimit = job[c].gasLimit
    PROVE  Inv'
<1>1. Asked(c)' /\ Prepared(c)'
  BY DEF Inv, JobInv, Asked, Prepared, At, Takes, Unrefused
<1>2. ParsedFor(c)'
  BY DEF Inv, JobInv, ParsedFor, Ops, Takes
<1>3. ASSUME SubmitFailed(c)
      PROVE  Built(c)' /\ Signed(c)'
  BY <1>3, StaysBuilt DEF Inv, JobInv, Carried
<1>4. SubmitFailed(c)' = SubmitFailed(c)
  BY DEF SubmitFailed
<1>5. Carried(c)'
  BY <1>3, <1>4 DEF Carried, At
<1>6. JobInv(c)'
  BY <1>1, <1>2, <1>5 DEF JobInv
<1> QED BY <1>6, StepOf

\* An error whose text is built.
LEMMA ErrorTextKeeps ==
    ASSUME Inv, Grows, LastAccepted', NEW c \in Client, job[c].pc \in {"append", "send"},
           NEW pc \in {"store", "failed"}, NEW text,
           Answer(c, pc, [job[c] EXCEPT !.text = text])
    PROVE  Inv'
<1> DEFINE j == [job[c] EXCEPT !.text = text]
<1>1. DOMAIN job[c] = Fields
  BY DEF Inv, TypeInv
<1>2. /\ DOMAIN j = Fields /\ j.err = job[c].err
      /\ j.ask = job[c].ask /\ j.tx = job[c].tx /\ j.account = job[c].account
      /\ j.parsed = job[c].parsed /\ j.fee = job[c].fee /\ j.terms = job[c].terms
      /\ j.gasPrice = job[c].gasPrice /\ j.gasLimit = job[c].gasLimit
  BY <1>1 DEF Fields
<1> HIDE DEF j
<1>3. Answer(c, pc, j)
  BY DEF j
<1>4. Takes(c, j) /\ job'[c].pc = pc /\ job'[c].err = job[c].err
  BY <1>2, <1>3, AnswerTakes DEF Inv
<1> QED BY <1>2, <1>4, ErrorStepKeeps

\* An error.
LEMMA ErrorKeeps ==
    ASSUME Inv, NEW c \in Client, AppendFragment(c) \/ StoreMessage(c) \/ SendError(c)
    PROVE  Inv'
<1>1. Grows /\ LastAccepted'
  BY QuietGrows DEF Inv, AppendFragment, StoreMessage, SendError, Pure
<1>2. CASE AppendFragment(c)
  <2>1. PICK text : Answer(c, "store", [job[c] EXCEPT !.text = text])
    BY <1>2 DEF AppendFragment
  <2>2. job[c].pc = "append"
    BY <1>2 DEF AppendFragment, At
  <2> QED BY <1>1, <2>1, <2>2, ErrorTextKeeps
<1>3. CASE StoreMessage(c)
  <2>1. job[c].pc = "store" /\ Answer(c, "send", job[c]) /\ DOMAIN job[c] = Fields
    BY <1>3 DEF StoreMessage, At, Inv, TypeInv
  <2>2. Takes(c, job[c]) /\ job'[c].pc = "send" /\ job'[c].err = job[c].err
    BY <2>1, AnswerTakes DEF Inv
  <2> QED BY <1>1, <2>1, <2>2, ErrorStepKeeps
<1>4. CASE SendError(c)
  <2>1. PICK text : Answer(c, "failed", [job[c] EXCEPT !.text = text])
    BY <1>4 DEF SendError
  <2>2. job[c].pc = "send"
    BY <1>4 DEF SendError, At
  <2> QED BY <1>1, <2>1, <2>2, ErrorTextKeeps
<1> QED BY <1>2, <1>3, <1>4

\* The client submits again.
LEMMA ResubmitKeeps ==
    ASSUME Inv, NEW c \in Client, Resubmit(c)
    PROVE  Inv'
<1> DEFINE j == [job[c] EXCEPT !.retries = @ + 1, !.err = Nil, !.text = <<>>]
<1>1. Grows /\ LastAccepted'
  BY QuietGrows DEF Inv, Resubmit, Pure
<1>2. /\ At(c, "failed") /\ SubmitFailed(c) /\ DOMAIN job[c] = Fields
      /\ Answer(c, "submit", j)
  BY DEF Resubmit, SubmitFailed, Inv, TypeInv
<1>3. /\ DOMAIN j = Fields /\ j.err = Nil
      /\ j.ask = job[c].ask /\ j.tx = job[c].tx /\ j.account = job[c].account
      /\ j.parsed = job[c].parsed /\ j.fee = job[c].fee /\ j.terms = job[c].terms
      /\ j.gasPrice = job[c].gasPrice /\ j.gasLimit = job[c].gasLimit
  BY <1>2 DEF Fields
<1> HIDE DEF j
<1>4. Takes(c, j) /\ job'[c].pc = "submit" /\ job'[c].err = Nil
  BY <1>2, <1>3, AnswerTakes DEF Inv
<1>5. Asked(c)' /\ Prepared(c)'
  BY <1>2, <1>3, <1>4 DEF Inv, JobInv, Asked, Prepared, At, Takes
<1>6. Built(c)' /\ Signed(c)'
  BY <1>1, <1>2, <1>3, <1>4, StaysBuilt DEF Inv, JobInv, Carried
<1>7. Carried(c)' /\ ~SubmitFailed(c)'
  BY <1>4, <1>6, ConstructionAssumption DEF Carried, At, SubmitFailed, ErrValue
<1>8. ParsedFor(c)'
  BY <1>3, <1>4 DEF Inv, JobInv, ParsedFor, Ops, Takes
<1>9. JobInv(c)'
  BY <1>5, <1>7, <1>8 DEF JobInv
<1> QED BY <1>1, <1>4, <1>9, StepOf

-----------------------------------------------------------------------------
(* The theorems. *)

\* The invariant holds in every state: at each endpoint a job holds what the
\* endpoints before it handed over, and the node's sequence numbers are those
\* of the transactions it took.
THEOREM Invariant == Spec => []Inv
<1>1. Init => Inv
  <2>1. SUFFICES ASSUME Init PROVE Inv
    OBVIOUS
  <2>2. \A c \in Client : job[c] = NoJob
    BY <2>1 DEF Init
  <2>3. TypeInv /\ LastAccepted
    BY <2>1, ConstructionAssumption DEF Init, TypeInv, NodeType, LastAccepted, NoJob, Fields
  <2>4. ASSUME NEW c \in Client
        PROVE  JobInv(c)
    <3>1. /\ job[c].pc = "idle" /\ job[c].err = Nil /\ job[c].fee = Nil
          /\ job[c].parsed = <<>>
      BY <2>2 DEF NoJob
    <3>2. ~SubmitFailed(c)
      BY <3>1, ConstructionAssumption DEF SubmitFailed, ErrValue
    <3> QED BY <3>1, <3>2
            DEF JobInv, Asked, Prepared, Carried, ParsedFor, At
  <2> QED BY <2>3, <2>4 DEF Inv
<1>2. Inv /\ [Next]_vars => Inv'
  <2>1. SUFFICES ASSUME Inv, [Next]_vars PROVE Inv'
    OBVIOUS
  <2>2. CASE UNCHANGED vars
    <3>1. Grows /\ LastAccepted'
      BY <2>1, <2>2, QuietGrows DEF Inv, vars, node
    <3>2. TypeInv' /\ \A c \in Client : JobInv(c)'
      BY <2>1, <2>2, <3>1, OthersStay DEF Inv, TypeInv, Grows, vars
    <3> QED BY <3>1, <3>2 DEF Inv
  <2>3. ASSUME NEW c \in Client, NEW ask \in Request, Ask(c, ask)
        PROVE  Inv'
    BY <2>1, <2>3, AskKeeps
  <2>4. ASSUME NEW c \in Client, Serve(c)
        PROVE  Inv'
    BY <2>1, <2>4, DeriveKeeps, PreprocessKeeps, MetadataSequenceKeeps, MetadataTermsKeeps,
       PayloadsKeeps, ParseKeeps, CombineKeeps, HashKeeps, SubmitKeeps DEF Serve
  <2>5. ASSUME NEW c \in Client, ServeFails(c)
        PROVE  Inv'
    BY <2>1, <2>5, MetadataSequenceFailsKeeps, MetadataTermsKeeps, SubmitKeeps, ErrorKeeps
    DEF ServeFails
  <2>6. ASSUME NEW c \in Client, Resubmit(c)
        PROVE  Inv'
    BY <2>1, <2>6, ResubmitKeeps
  <2>7. ASSUME NEW a \in Account, Commit(a)
        PROVE  Inv'
    BY <2>1, <2>7, CommitKeeps
  <2> QED BY <2>1, <2>2, <2>3, <2>4, <2>5, <2>6, <2>7 DEF Next
<1> QED BY <1>1, <1>2, PTL DEF Spec

\* /construction/parse gives back the operations the client asked for, however
\* they were ordered: payloads and ParseSendTx undo each other.
THEOREM OperationsComeBack == Spec => []BuiltAsAsked
<1>1. Inv => BuiltAsAsked
  BY DEF Inv, JobInv, ParsedFor, BuiltAsAsked
<1> QED BY <1>1, Invariant, PTL

\* A client is left alone by the steps of the others.
LEMMA OneMoves ==
    ASSUME DOMAIN job = Client, NEW c \in Client, NEW d \in Client, c # d,
           \/ \E ask \in Request : Ask(d, ask)
           \/ Serve(d) \/ ServeFails(d) \/ Resubmit(d)
    PROVE  job'[c] = job[c]
<1>1. ASSUME NEW pc, NEW j, Answer(d, pc, j) PROVE job'[c] = job[c]
  BY <1>1 DEF Answer
<1>2. ASSUME NEW e, Fail(d, e) PROVE job'[c] = job[c]
  BY <1>2 DEF Fail
<1>3. CASE \E ask \in Request : Ask(d, ask)
  BY <1>1, <1>3 DEF Ask
<1>4. CASE Serve(d)
  BY <1>1, <1>2, <1>4
  DEF Serve, ConstructionDerive, ConstructionPreprocess, MetadataSequence, MetadataTerms, FillIn,
      ConstructionPayloads, ConstructionParse, ConstructionCombine, ConstructionHash,
      ConstructionSubmit
<1>5. CASE ServeFails(d)
  BY <1>1, <1>2, <1>5
  DEF ServeFails, MetadataSequenceFails, MetadataTermsOfHeightZero, FillIn, MetadataTermsFail,
      ConstructionSubmitFails, AppendFragment, StoreMessage, SendError
<1>6. CASE Resubmit(d)
  BY <1>1, <1>6 DEF Resubmit
<1> QED BY <1>3, <1>4, <1>5, <1>6

\* What the node does not accept has one of the causes.
LEMMA UnacceptableHasCause ==
    ASSUME Inv, NEW c \in Client, At(c, "submit"), ~Acceptable(job[c].tx)
    PROVE  Cause(c)
<1> DEFINE tx == job[c].tx
           m == Match(Ops(c))
           has == funds[Sender(tx)]
<1>1. /\ Built(c) /\ Signed(c) /\ Sender(tx) \in Account /\ Ops(c) \in Seq(Operation)
      /\ job[c].ask \in Request
  BY CarriedFor DEF Inv, JobInv, Carried, At
<1>2. /\ Sender(tx) = m[1].account /\ WasNext(tx.sequence, Sender(tx)) /\ Matches(Ops(c))
      /\ has.theta \in Nat /\ has.tfuel \in Nat /\ sequence[Sender(tx)] \in Nat
  BY <1>1 DEF Built, Inv, TypeInv, NodeType
<1>3. CASE ~tx.signed
  <2>1. Ops(c)[1].account # Sender(tx)
    BY <1>1, <1>3 DEF Signed, Built
  <2> QED BY <2>1 DEF Cause
<1>4. CASE tx.sequence # sequence[Sender(tx)] + 1
  <2>1. sequence[Sender(tx)] > 0 /\ sequence[Sender(tx)] >= tx.sequence
    BY <1>2, <1>4 DEF WasNext
  <2>2. PICK t \in accepted : Sender(t) = Sender(tx) /\ t.sequence = sequence[Sender(tx)]
    BY <1>1, <2>1 DEF Inv, LastAccepted
  <2>3. t.sequence >= tx.sequence
    BY <2>1, <2>2
  <2> QED BY <2>2, <2>3 DEF Cause, Overtaken
<1>5. CASE tx.signed /\ tx.sequence = sequence[Sender(tx)] + 1 /\ IsSend(Ops(c))
  <2>1. TransferOf(tx, m)
    BY <1>1, <1>5 DEF Built
  <2>2. \A n \in 1..5 : m[n] \in Operation
    BY <1>1, <1>2, <1>5, SendMatch
  <2>3. /\ m[1].value \in Int /\ m[2].value \in Int /\ m[3].value \in Int
        /\ m[4].value \in Int /\ m[5].value \in Int
    BY <2>2 DEF Operation
  <2>4. Terms.fee \in Nat
    BY ConstructionAssumption
  <2>5. CASE ~(tx.fee >= Terms.fee)
    <3>1. -m[5].value < Terms.fee
      BY <2>1, <2>3, <2>4, <2>5 DEF TransferOf
    <3>2. BadTerms(c)
      BY <1>5, <3>1, BadTermsAre
    <3> QED BY <3>2 DEF Cause
  <2>6. CASE ~Balanced(tx)
    <3>1. \/ -m[1].value # m[3].value
          \/ -m[2].value - m[5].value # m[4].value + (-m[5].value)
      BY <2>1, <2>6 DEF Balanced, TransferOf
    <3>2. m[1].value + m[3].value # 0 \/ m[2].value + m[4].value # 0
      <4>1. \A x, y, z \in Int : /\ -x # y => x + y # 0
                                 /\ -x - z # y + (-z) => x + y # 0
        OBVIOUS
      <4> HIDE DEF m
      <4> QED BY <2>3, <3>1, <4>1, Zenon
    <3>3. Unbalanced(Ops(c))
      BY <1>5, <3>2 DEF Unbalanced
    <3> QED BY <3>3 DEF Cause
  <2>7. CASE ~(Spends(tx).theta <= has.theta) \/ ~(Spends(tx).tfuel <= has.tfuel)
    <3>1. /\ Spends(tx).theta = -m[1].value
          /\ Spends(tx).tfuel = (-m[2].value - m[5].value) + tx.gasLimit * tx.gasPrice
      BY <2>1 DEF Spends, TransferOf
    <3>2. tx.gasLimit * tx.gasPrice = 0
      BY <2>1 DEF TransferOf
    <3> HIDE DEF m, tx, has
    <3>3. -m[1].value > has.theta \/ -m[2].value - m[5].value > has.tfuel
      BY <1>2, <2>3, <2>7, <3>1, <3>2
    <3>4. Unfunded(c)
      BY <1>2, <1>5, <3>3 DEF Unfunded, m, has
    <3> QED BY <3>4 DEF Cause
  <2>8. tx.kind = "send"
    BY <2>1 DEF TransferOf
  <2> QED BY <1>5, <2>5, <2>6, <2>7, <2>8 DEF Acceptable
<1>6. CASE tx.signed /\ tx.sequence = sequence[Sender(tx)] + 1 /\ ~IsSend(Ops(c))
  <2>1. CallOf(tx, m) /\ GasFrom(job[c], tx.gasPrice, tx.gasLimit) /\ tx.kind = "smartContract"
    BY <1>1, <1>6 DEF Built, CallOf
  <2>2. m[1] \in Operation
    BY <1>1, <1>2, <1>6, CallMatch
  <2>3. m[1].value \in Int /\ tx.gasLimit * tx.gasPrice \in Int
    BY <2>1, <2>2 DEF Operation, GasFrom
  <2>4. Terms.gasPrice \in Nat /\ Terms.gasLimit \in Nat
    BY ConstructionAssumption
  <2>5. Balanced(tx)
    BY <2>1 DEF Balanced
  <2>6. CASE job[c].terms = OldTerms
    BY <1>6, <2>6 DEF Cause, OldStatus
  <2>7. CASE /\ job[c].terms # OldTerms
             /\ ~(tx.gasPrice >= Terms.gasPrice) \/ ~(tx.gasLimit <= Terms.gasLimit)
    <3>1. Price(job[c].ask) < Terms.gasPrice \/ Limit(job[c].ask) > Terms.gasLimit
      BY <2>1, <2>4, <2>7 DEF GasFrom
    <3>2. BadTerms(c)
      BY <1>6, <3>1, BadTermsAre
    <3> QED BY <3>2 DEF Cause
  <2>8. CASE ~(Spends(tx).theta <= has.theta) \/ ~(Spends(tx).tfuel <= has.tfuel)
    <3>1. Spends(tx).theta = 0 /\ Spends(tx).tfuel = -m[1].value + tx.gasLimit * tx.gasPrice
      BY <2>1 DEF Spends, CallOf
    <3> HIDE DEF m, has
    <3>2. -m[1].value + tx.gasLimit * tx.gasPrice > has.tfuel
      <4> DEFINE gas == tx.gasLimit * tx.gasPrice
      <4>1. gas \in Int
        BY <2>3
      <4> HIDE DEF gas
      <4>2. Spends(tx).theta = 0 /\ Spends(tx).tfuel = -m[1].value + gas
        BY <3>1 DEF gas
      <4>3. -m[1].value + gas > has.tfuel
        BY <1>2, <2>3, <2>8, <4>1, <4>2
      <4> QED BY <4>3 DEF gas
    <3>3. Unfunded(c)
      BY <1>2, <1>6, <3>2 DEF Unfunded, m, has
    <3> QED BY <3>3 DEF Cause
  <2> QED BY <1>6, <2>1, <2>5, <2>6, <2>7, <2>8 DEF Acceptable
<1> QED BY <1>3, <1>4, <1>5, <1>6

\* Failed calls are counted.
Counted == faults \in Nat

LEMMA FaultsAreCounted == Spec => []Counted
<1>1. Init => Counted
  BY DEF Init, Counted
<1>2. Counted /\ [Next]_vars => Counted'
  <2>1. SUFFICES ASSUME faults \in Nat, [Next]_vars
                 PROVE  faults' = faults \/ \E f \in Faults : Fault(f)
    BY DEF Fault, Counted
  <2>2. ASSUME NEW c \in Client, Serve(c)
        PROVE  faults' = faults
    BY <2>2 DEF Serve, ConstructionDerive, ConstructionPreprocess, MetadataSequence, MetadataTerms,
                ConstructionPayloads, ConstructionParse, ConstructionCombine, ConstructionHash,
                ConstructionSubmit, Pure
  <2>3. ASSUME NEW c \in Client, ServeFails(c)
        PROVE  faults' = faults \/ \E f \in Faults : Fault(f)
    BY <2>3 DEF ServeFails, MetadataSequenceFails, MetadataTermsOfHeightZero, MetadataTermsFail,
                ConstructionSubmitFails, AppendFragment, StoreMessage, SendError, Pure, Fault
  <2> QED BY <2>1, <2>2, <2>3 DEF Next, vars, Ask, Resubmit, Commit, Pure
<1> QED BY <1>1, <1>2, PTL DEF Spec

\* A submit that the node refuses, after any failures and retries, is refused
\* for one of the causes (ConstructionSubmit, construction.go, line 605): the
\* client's terms, amounts or funds, a transaction of the sender in the pool,
\* the wrong signer, or terms filled in from a failed status call.
THEOREM RefusalsHaveCause == Spec => RefusedForCause
<1> DEFINE A == \A c \in Client :
               At(c, "submit") /\ job'[c].pc = "append" /\ faults' = faults => Cause(c)
<1>1. Inv /\ Counted /\ [Next]_vars => [A]_vars
  <2> SUFFICES ASSUME Inv, Counted, Next, NEW c \in Client,
                      At(c, "submit"), job'[c].pc = "append", faults' = faults
               PROVE  Cause(c)
    BY DEF vars
  <2>1. DOMAIN job = Client /\ job'[c].pc # job[c].pc
    BY DEF Inv, TypeInv, At
  <2>2. \A a \in Account : ~Commit(a)
    BY <2>1 DEF Commit
  <2>3. PICK d \in Client : \/ \E ask \in Request : Ask(d, ask)
                            \/ Serve(d) \/ ServeFails(d) \/ Resubmit(d)
    BY <2>2 DEF Next
  <2>4. d = c
    BY <2>1, <2>3, OneMoves
  <2>5. ConstructionSubmit(c)
    <3>1. ~ConstructionSubmitFails(c)
      BY DEF ConstructionSubmitFails, Fault, Counted
    <3> QED BY <2>3, <2>4, <3>1
            DEF At, Ask, Serve, ServeFails, Resubmit, ConstructionDerive, ConstructionPreprocess,
                MetadataSequence, MetadataTerms, ConstructionPayloads, ConstructionParse,
                ConstructionCombine, ConstructionHash, MetadataSequenceFails,
                MetadataTermsOfHeightZero, MetadataTermsFail, AppendFragment, StoreMessage,
                SendError
  <2>6. ~Acceptable(job[c].tx)
    <3>1. ~Answer(c, "done", job[c])
      BY AnswerTakes DEF Inv, TypeInv
    <3> QED BY <2>5, <3>1 DEF ConstructionSubmit
  <2> QED BY <2>6, UnacceptableHasCause
<1> QED BY <1>1, Invariant, FaultsAreCounted, PTL DEF Spec, RefusedForCause
=============================================================================
