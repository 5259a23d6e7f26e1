---------------------------- MODULE Construction ----------------------------
(***************************************************************************)
(* The construction endpoints, as a client goes through them: derive,      *)
(* preprocess, metadata, payloads, parse, combine, hash, submit.  Several  *)
(* clients do so at the same time, for the same accounts, against a node   *)
(* that screens a transaction into its pool and puts it on the ledger in a *)
(* block some time later.  A handler keeps no state, so it is one step up  *)
(* to each call to the node, with one exception: an error is a pointer to  *)
(* a global value, to whose Message the handler appends before the router  *)
(* writes the answer.  (That an endpoint refuses a request for its mode or *)
(* network is in Endpoints.)                                               *)
(***************************************************************************)
EXTENDS Parsers

CONSTANTS
    Account,      \* addresses
    Request,      \* what a client may want to have built
    Client,       \* clients, each with one request
    Torn,         \* a string whose two words come from two assignments
    Terms,        \* minimum fee, minimum gas price, maximum gas limit now
    OldTerms,     \* the same at height 0
    DefaultGasLimit,  \* 10000000, when the metadata has none
    TwoTo64,      \* the width of uint64, reduced
    Funds,        \* what each account can spend at first
    Faults,       \* calls to the node that may fail
    MaxFaults,    \* how many in one behaviour
    MaxRetries    \* how often a client submits again after an error

ErrValue == {"ErrInvalidInputParam", "ErrServiceInternal", "ErrUnableToParseTx",
             "ErrUnableToSubmitTx", "ErrUnableToGetAccount"}

\* What a client may get wrong on its way, besides its operations.
Slip == {"none", "key", "signer", "type", "sequence", "data", "transaction", "unsigned",
         "signature", "hash"}

\* Operations are records of Parsers!Piece.  A direct request calls payloads
\* without preprocess and metadata, with a sequence number of its own.
ASSUME ConstructionAssumption ==
    /\ Nil \notin Int /\ Nil \notin ErrValue
    /\ \A ask \in Request :
          /\ ask.ops \in Seq([type : STRING, account : Account, currency : STRING, value : Int])
          /\ ask.gasLimit \in {Nil} \cup Nat /\ ask.gasPrice \in {Nil} \cup Nat
          /\ ask.direct \in BOOLEAN /\ ask.slip \in Slip
    /\ {Terms, OldTerms} \subseteq [fee : Nat, gasPrice : Nat, gasLimit : Nat]
    /\ DefaultGasLimit \in Nat
    /\ TwoTo64 \in Nat
    /\ Funds \in [Account -> [theta : Nat, tfuel : Nat]]
    /\ Faults \subseteq {"down", "error", "lost"} /\ MaxFaults \in Nat /\ MaxRetries \in Nat

-----------------------------------------------------------------------------
(* getOperationDescriptions and MatchOperations: five operations are a       *)
(* transfer, two a call of a contract, in any order.                         *)

Description(type, currency, sign) == [type |-> type, currency |-> currency, sign |-> sign]

SendDescriptions ==
    <<Description("SendTxInput", "THETA", -1), Description("SendTxInput", "TFUEL", -1),
      Description("SendTxOutput", "THETA", 1), Description("SendTxOutput", "TFUEL", 1),
      Description("TxFee", "TFUEL", -1)>>
ContractDescriptions ==
    <<Description("SmartContractTxFrom", "TFUEL", -1), Description("SmartContractTxTo", "TFUEL", 1)>>

IsSend(ops) == Len(ops) = 5
Descriptions(ops) == IF IsSend(ops) THEN SendDescriptions ELSE ContractDescriptions
Fits(op, d) == op.type = d.type /\ op.currency = d.currency /\ op.value * d.sign >= 0

Matches(ops) ==
    /\ Len(ops) \in {2, 5}
    /\ \A n \in DOMAIN Descriptions(ops) : \E i \in DOMAIN ops : Fits(ops[i], Descriptions(ops)[n])

\* The operation that fits each description.
Match(ops) ==
    [n \in DOMAIN Descriptions(ops) |->
        ops[CHOOSE i \in DOMAIN ops : Fits(ops[i], Descriptions(ops)[n])]]

\* What preprocess checks of a transfer, and payloads does not.
AddressesDiffer(m) ==
    \/ m[1].account # m[2].account \/ m[2].account # m[5].account
    \/ m[3].account # m[4].account
SameAccount(m) == m[2].account = m[4].account

-----------------------------------------------------------------------------
(* Conversions, and the transaction that payloads builds. *)

OrElse(given, default) == IF given = Nil THEN default ELSE given

\* uint64(fee.(float64)) of an amount that is not positive: Go leaves it to the
\* machine, which wraps around (with 2^63 beyond the range) or gives 0.
Uint64(value) ==
    IF value = 0 THEN {0}
    ELSE {0, IF -value <= TwoTo64 \div 2 THEN TwoTo64 + value ELSE TwoTo64 \div 2}

TxParty(addr, theta, tfuel) == [addr |-> addr, theta |-> theta, tfuel |-> tfuel]

\* Mutant of SendTx: the fee is not added to the input.
SendTxNoFee(m, sequence) ==
    [kind |-> "send", sequence |-> sequence, signed |-> FALSE,
     ins |-> <<TxParty(m[1].account, -m[1].value, -m[2].value)>>,
     outs |-> <<TxParty(m[3].account, m[3].value, m[4].value)>>,
     fee |-> -m[5].value, gasLimit |-> 0, gasPrice |-> 0]

\* The fee is the one of the operations; that of the metadata is not used.
SendTx(m, sequence) ==
    [kind |-> "send", sequence |-> sequence, signed |-> FALSE,
     ins |-> <<TxParty(m[1].account, -m[1].value, -m[2].value - m[5].value)>>,
     outs |-> <<TxParty(m[3].account, m[3].value, m[4].value)>>,
     fee |-> -m[5].value, gasLimit |-> 0, gasPrice |-> 0]

SmartContractTx(m, sequence, gasLimit, gasPrice) ==
    [kind |-> "smartContract", sequence |-> sequence, signed |-> FALSE,
     ins |-> <<TxParty(m[1].account, 0, -m[1].value)>>,
     outs |-> <<TxParty(m[2].account, 0, m[2].value)>>,
     fee |-> 0,
     gasLimit |-> OrElse(gasLimit, DefaultGasLimit), gasPrice |-> OrElse(gasPrice, 0)]

Sender(tx) == tx.ins[1].addr

\* Who is asked to sign: the account of the first operation as it was sent.
PayloadAccount(ops) == ops[1].account

-----------------------------------------------------------------------------
VARIABLES
    job,       \* each client's way through the endpoints
    message,   \* what was appended to the messages of the global error values
    ledger,    \* sequence number of each account on the ledger
    sequence,  \* the same with the transactions of the pool
    funds,     \* what each account can still spend, with the pool
    accepted,  \* transactions the node has taken into the pool (history)
    faults     \* failed calls so far

vars == <<job, message, ledger, sequence, funds, accepted, faults>>
node == <<ledger, sequence, funds, accepted>>

NoJob == [pc |-> "idle", ask |-> Nil, sequence |-> 0, fee |-> Nil, gasLimit |-> Nil,
          gasPrice |-> Nil, terms |-> Nil, tx |-> Nil, account |-> Nil, parsed |-> <<>>,
          err |-> Nil, text |-> <<>>, retries |-> 0]

Init ==
    /\ job = [c \in Client |-> NoJob]
    /\ message = [e \in ErrValue |-> <<>>]
    /\ ledger = [a \in Account |-> 0]
    /\ sequence = [a \in Account |-> 0]
    /\ funds = Funds
    /\ accepted = {}
    /\ faults = 0

Fault(f) == f \in Faults /\ faults < MaxFaults /\ faults' = faults + 1

At(c, pc) == job[c].pc = pc
Ops(c) == job[c].ask.ops
Slips(c, slip) == job[c].ask.slip = slip

\* The handler answers and the client goes on to pc.
Answer(c, pc, fields) == job' = [job EXCEPT ![c] = [fields EXCEPT !.pc = pc]]

\* terr := e; the message is still to be appended.
Fail(c, e) == job' = [job EXCEPT ![c].pc = "append", ![c].err = e]

Pure == UNCHANGED <<message, node, faults>>

\* Mutant of NextSequence: the last number that was used.
SameSequence(a) == ledger[a]

\* account.Sequence plus one.  The node answers theta.GetAccount from the ledger:
\* transactions in its pool do not count yet.
NextSequence(a) == ledger[a] + 1

\* A client that calls payloads right away has its own way to the sequence number.
Ask(c, ask) ==
    /\ At(c, "idle")
    /\ LET next == IF ask.direct /\ Matches(ask.ops)
                   THEN ledger[Match(ask.ops)[1].account] + 1 ELSE 0
       IN Answer(c, IF ask.direct THEN "payloads" ELSE "derive",
                 [NoJob EXCEPT !.ask = ask, !.sequence = next,
                               !.gasLimit = IF ask.direct THEN ask.gasLimit ELSE Nil,
                               !.gasPrice = IF ask.direct THEN ask.gasPrice ELSE Nil])
    /\ Pure

\* No key, a key of another curve, or one that cannot be decompressed.
ConstructionDerive(c) ==
    /\ At(c, "derive")
    /\ IF Slips(c, "key") THEN Fail(c, "ErrInvalidInputParam")
                          ELSE Answer(c, "preprocess", job[c])
    /\ Pure

\* The options are a function of the request: nothing is kept.
ConstructionPreprocess(c) ==
    /\ At(c, "preprocess")
    /\ IF \/ ~Matches(Ops(c))
          \/ IsSend(Ops(c)) /\ (AddressesDiffer(Match(Ops(c))) \/ SameAccount(Match(Ops(c))))
       THEN Fail(c, "ErrServiceInternal")
       ELSE Answer(c, "metadata", job[c])
    /\ Pure

\* ConstructionMetadata up to the answer of theta.GetAccount.
MetadataSequence(c) ==
    /\ At(c, "metadata")
    /\ IF Slips(c, "signer") \/ Slips(c, "type") THEN Fail(c, "ErrInvalidInputParam")
       ELSE Answer(c, "terms", [job[c] EXCEPT !.sequence = NextSequence(Match(Ops(c))[1].account)])
    /\ Pure

\* This error is returned as it is, with nothing appended.
MetadataSequenceFails(c) ==
    /\ At(c, "metadata") /\ ~Slips(c, "signer") /\ Fault("down")
    /\ Answer(c, "failed", [job[c] EXCEPT !.err = "ErrUnableToGetAccount"])
    /\ UNCHANGED <<message, node>>

\* theta.GetStatus is called for what the client has not given.
GivenFee(c) == IF IsSend(Ops(c)) THEN Uint64(Match(Ops(c))[5].value) ELSE {0}
NeedsStatus(c, given) ==
    IF IsSend(Ops(c)) THEN given = 0
    ELSE job[c].ask.gasLimit = Nil \/ job[c].ask.gasPrice = Nil

FillIn(c, given, terms) ==
    LET ask == job[c].ask IN
    Answer(c, "payloads",
        IF IsSend(Ops(c))
        THEN [job[c] EXCEPT !.terms = terms, !.fee = IF given = 0 THEN terms.fee ELSE given]
        ELSE [job[c] EXCEPT !.terms = terms, !.fee = 0,
                            !.gasLimit = OrElse(ask.gasLimit, terms.gasLimit),
                            !.gasPrice = OrElse(ask.gasPrice, terms.gasPrice)])

MetadataTerms(c) ==
    /\ At(c, "terms")
    /\ \E given \in GivenFee(c) : FillIn(c, given, Terms)
    /\ Pure

\* GetStatus drops an error in the node's answer: the height is 0.
MetadataTermsOfHeightZero(c) ==
    /\ At(c, "terms") /\ Fault("error")
    /\ \E given \in GivenFee(c) : NeedsStatus(c, given) /\ FillIn(c, given, OldTerms)
    /\ UNCHANGED <<message, node>>

MetadataTermsFail(c) ==
    /\ At(c, "terms") /\ Fault("down")
    /\ \E given \in GivenFee(c) : NeedsStatus(c, given)
    /\ Fail(c, "ErrInvalidInputParam")
    /\ UNCHANGED <<message, node>>

PayloadsRefused(c) ==
    \/ Slips(c, "sequence")
    \/ ~Matches(Ops(c))
    \/ ~IsSend(Ops(c)) /\ Slips(c, "data")

ConstructionPayloads(c) ==
    /\ At(c, "payloads")
    /\ IF PayloadsRefused(c) THEN Fail(c, "ErrServiceInternal")
       ELSE LET m == Match(Ops(c))
                j == job[c]
                tx == IF IsSend(Ops(c)) THEN SendTx(m, j.sequence)
                      ELSE SmartContractTx(m, j.sequence, j.gasLimit, j.gasPrice)
            IN Answer(c, "parse", [j EXCEPT !.tx = tx, !.account = PayloadAccount(Ops(c))])
    /\ Pure

ConstructionParse(c) ==
    /\ At(c, "parse")
    /\ IF Slips(c, "transaction") THEN Fail(c, "ErrUnableToParseTx")
       ELSE LET tx == job[c].tx IN
            Answer(c, "combine", [job[c] EXCEPT !.parsed =
                IF tx.kind = "send" THEN ParseSendTx(tx)
                                    ELSE ParseSmartContractTxForConstruction(tx)])
    /\ Pure

\* The client has the payload signed by the account that it names.  The
\* signature is verified for that account, and SetSignature puts it at the
\* sender's place if the accounts agree; that it did not is not looked at.
ConstructionCombine(c) ==
    /\ At(c, "combine")
    /\ IF Slips(c, "unsigned") THEN Fail(c, "ErrUnableToParseTx")
       ELSE IF Slips(c, "signature") THEN Fail(c, "ErrInvalidInputParam")
       ELSE Answer(c, "hash", [job[c] EXCEPT !.tx.signed = job[c].account = Sender(job[c].tx)])
    /\ Pure

ConstructionHash(c) ==
    /\ At(c, "hash")
    /\ IF Slips(c, "hash") THEN Fail(c, "ErrInvalidInputParam")
                           ELSE Answer(c, "submit", job[c])
    /\ Pure

\* What a transaction may cost its sender: for a contract call, all of its gas.
Spends(tx) == [theta |-> tx.ins[1].theta, tfuel |-> tx.ins[1].tfuel + tx.gasLimit * tx.gasPrice]

Balanced(tx) ==
    tx.kind = "send" =>
        /\ tx.ins[1].theta = tx.outs[1].theta
        /\ tx.ins[1].tfuel = tx.outs[1].tfuel + tx.fee

\* The node (external) takes a signed transaction with the next sequence number
\* that meets its terms, adds up, and is within the funds of the sender.
Acceptable(tx) ==
    /\ tx.signed
    /\ tx.sequence = sequence[Sender(tx)] + 1
    /\ IF tx.kind = "send" THEN tx.fee >= Terms.fee
       ELSE tx.gasPrice >= Terms.gasPrice /\ tx.gasLimit <= Terms.gasLimit
    /\ Balanced(tx)
    /\ Spends(tx).theta <= funds[Sender(tx)].theta
    /\ Spends(tx).tfuel <= funds[Sender(tx)].tfuel

\* It is in the pool then, and what it may cost is set aside.
Accept(tx) ==
    /\ Acceptable(tx)
    /\ sequence' = [sequence EXCEPT ![Sender(tx)] = tx.sequence]
    /\ funds' = [funds EXCEPT ![Sender(tx)] = [theta |-> @.theta - Spends(tx).theta,
                                               tfuel |-> @.tfuel - Spends(tx).tfuel]]
    /\ accepted' = accepted \cup {tx}
    /\ UNCHANGED ledger

\* A block is finalized with some transactions of the account.
Commit(a) ==
    /\ \E n \in (ledger[a] + 1)..sequence[a] : ledger' = [ledger EXCEPT ![a] = n]
    /\ UNCHANGED <<job, message, sequence, funds, accepted, faults>>

ConstructionSubmit(c) ==
    /\ At(c, "submit")
    /\ \/ Accept(job[c].tx) /\ Answer(c, "done", job[c])
       \/ ~Acceptable(job[c].tx) /\ Fail(c, "ErrUnableToSubmitTx") /\ UNCHANGED node
    /\ UNCHANGED <<message, faults>>

\* The call does not reach the node, or its answer does not come back.
ConstructionSubmitFails(c) ==
    /\ At(c, "submit") /\ Fail(c, "ErrUnableToSubmitTx")
    /\ \/ Fault("down") /\ UNCHANGED node
       \/ Fault("lost") /\ Accept(job[c].tx)
    /\ UNCHANGED message

\* The client submits once more.
Resubmit(c) ==
    /\ At(c, "failed") /\ job[c].err = "ErrUnableToSubmitTx" /\ job[c].retries < MaxRetries
    /\ Answer(c, "submit", [job[c] EXCEPT !.retries = @ + 1, !.err = Nil, !.text = <<>>])
    /\ Pure

-----------------------------------------------------------------------------
(* terr.Message += fragment, on a global value and without a lock: the       *)
(* message is read, a longer string is made, and its two words are stored.   *)
(* The router reads it when it writes the answer.                            *)

\* What reading the message of e may give while others store theirs.
Seen(c, e) ==
    {message[e]} \cup
    (IF \E d \in Client \ {c} : job[d].pc = "store" /\ job[d].err = e THEN {Torn} ELSE {})

AppendFragment(c) ==
    /\ At(c, "append")
    /\ \E old \in Seen(c, job[c].err) :
          Answer(c, "store", [job[c] EXCEPT !.text = IF old = Torn THEN Torn ELSE Append(old, c)])
    /\ Pure

StoreMessage(c) ==
    /\ At(c, "store")
    /\ message' = [message EXCEPT ![job[c].err] = job[c].text]
    /\ Answer(c, "send", job[c])
    /\ UNCHANGED <<node, faults>>

SendError(c) ==
    /\ At(c, "send")
    /\ \E text \in Seen(c, job[c].err) : Answer(c, "failed", [job[c] EXCEPT !.text = text])
    /\ Pure

-----------------------------------------------------------------------------
Serve(c) ==
    \/ ConstructionDerive(c)
    \/ ConstructionPreprocess(c)
    \/ MetadataSequence(c)
    \/ MetadataTerms(c)
    \/ ConstructionPayloads(c)
    \/ ConstructionParse(c)
    \/ ConstructionCombine(c)
    \/ ConstructionHash(c)
    \/ ConstructionSubmit(c)

ServeFails(c) ==
    \/ MetadataSequenceFails(c)
    \/ MetadataTermsOfHeightZero(c)
    \/ MetadataTermsFail(c)
    \/ ConstructionSubmitFails(c)
    \/ AppendFragment(c)
    \/ StoreMessage(c)
    \/ SendError(c)

Next ==
    \/ \E c \in Client :
        \/ \E ask \in Request : Ask(c, ask)
        \/ Serve(c)
        \/ ServeFails(c)
        \/ Resubmit(c)
    \/ \E a \in Account : Commit(a)

Spec == Init /\ [][Next]_vars

-----------------------------------------------------------------------------
(* Correctness.                                                             *)

\* The operations in the order of their descriptions; amounts of 0 do not come
\* back from a contract call.
Present(op) == IF op.value = 0 THEN <<>> ELSE <<op>>
Intended(ops) ==
    IF IsSend(ops) THEN Match(ops) ELSE Present(Match(ops)[1]) \o Present(Match(ops)[2])

\* What /construction/parse reads out of a built transaction are the operations
\* the client asked for, whatever order they came in: adding the fee to the
\* input in payloads and taking it out in ParseSendTx cancel, and no amount
\* changes sign or currency.  Only a client that skips preprocess can have a
\* transfer built between other accounts than its operations name.
BuiltAsAsked ==
    \A c \in Client : job[c].parsed # <<>> =>
        \/ job[c].parsed = Intended(Ops(c))
        \/ job[c].ask.direct /\ IsSend(Ops(c)) /\ AddressesDiffer(Match(Ops(c)))

\* The client gave terms below the node's, or skipped metadata and gave none.
BadTerms(c) ==
    LET ask == job[c].ask
        price == IF ask.direct THEN OrElse(ask.gasPrice, 0) ELSE OrElse(ask.gasPrice, Terms.gasPrice)
        limit == IF ask.direct THEN OrElse(ask.gasLimit, DefaultGasLimit)
                               ELSE OrElse(ask.gasLimit, Terms.gasLimit)
    IN IF IsSend(Ops(c)) THEN -Match(Ops(c))[5].value < Terms.fee
       ELSE price < Terms.gasPrice \/ limit > Terms.gasLimit

\* The operations of a transfer do not add up: preprocess and payloads compare
\* no amounts.
Unbalanced(ops) ==
    IsSend(ops) /\ LET m == Match(ops) IN
                   m[1].value + m[3].value # 0 \/ m[2].value + m[4].value # 0

\* The sender cannot pay what the operations name, or the gas on top of it.
Unfunded(c) ==
    LET m == Match(Ops(c))
        has == funds[m[1].account]
    IN IF IsSend(Ops(c)) THEN -m[1].value > has.theta \/ -m[2].value - m[5].value > has.tfuel
       ELSE -m[1].value + job[c].tx.gasLimit * job[c].tx.gasPrice > has.tfuel

\* The pool has a transaction of the sender with this number or a later one.
Overtaken(tx) == \E t \in accepted : Sender(t) = Sender(tx) /\ t.sequence >= tx.sequence

\* The node filled in for a contract call the terms of height 0.
OldStatus(c) == ~IsSend(Ops(c)) /\ job[c].terms = OldTerms

Cause(c) ==
    \/ BadTerms(c) \/ Unbalanced(Ops(c)) \/ Unfunded(c)
    \/ Overtaken(job[c].tx)
    \/ Ops(c)[1].account # Sender(job[c].tx)
    \/ OldStatus(c)

\* When the node answers a submit with a refusal, whatever failed before, it is
\* the client's doing (its terms are too low, its operations do not add up or
\* its sender lacks the funds), or one of three things that the endpoints bring
\* about: another transaction of the sender, or this one when it is submitted
\* again, is in the pool with a number as high, for which metadata need not
\* have been late, since it asks the ledger; the sender's operation was not
\* the first, so payloads had the wrong account sign and combine returned it
\* unsigned; or the status call failed unnoticed.
RefusedForCause ==
    [][\A c \in Client :
          At(c, "submit") /\ job'[c].pc = "append" /\ faults' = faults => Cause(c)]_vars

\* theta.ros, line 56: max_fee = "300000000000000000", the fee a transfer names.
\* Metadata suggests no more than that, if the node is content with it.
FeeWithinMax ==
    \A c \in Client : job[c].fee # Nil /\ IsSend(Ops(c)) =>
        LET max == -Match(Ops(c))[5].value IN max >= Terms.fee => job[c].fee <= max

\* README.md, line 16: "Stateless, offline, curve-based transaction
\* construction".  The message of an error is about the request that failed.
StatelessErrors ==
    \A c \in Client : At(c, "failed") =>
        job[c].text = IF job[c].err = "ErrUnableToGetAccount" THEN <<>> ELSE <<c>>
=============================================================================
