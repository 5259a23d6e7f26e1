---------------------------- MODULE MCOperations ----------------------------
(* All transactions over two accounts, with at most two inputs, outputs or   *)
(* balance changes, and coins that are nil, zero or positive.                *)
EXTENDS Operations

CONSTANTS alice, bob

MCCoin == {Nil, 0, 3}
MCParty == [addr : Account, theta : MCCoin, tfuel : MCCoin]
MCChange == [addr : Account, token : {0, 1, 2}, negative : BOOLEAN, delta : {0, 2}]

Lists(S, min, max) == UNION {[1..n -> S] : n \in min..max}
Present(S) == {p \in S : p.tfuel # Nil}

Blank(kind, ins, outs, fee) ==
    [kind |-> kind, ins |-> ins, outs |-> outs, fee |-> fee,
     gasPrice |-> 0, gasUsed |-> 0, changes |-> <<>>]

Simple(kinds, from) == {Blank(k, <<p>>, <<>>, f) : k \in kinds, p \in from, f \in {0, 1}}

Paired(kinds, from, to) ==
    {Blank(k, <<p>>, <<q>>, f) : k \in kinds, p \in from, q \in to, f \in {0, 1}}

Coinbases == {Blank("coinbase", <<p>>, outs, 0) :
                 p \in MCParty, outs \in Lists(Present(MCParty), 0, 2)}

\* The ledger accepts a send whose inputs pay for the outputs and the fee.
SendFrom == [addr : Account, theta : {Nil, 3}, tfuel : {Nil, 2, 3}]
SendTo == [addr : Account, theta : {Nil, 3}, tfuel : {0, 2}]
SendIns == {ins \in Lists(SendFrom, 1, 2) : Len(ins) = 2 => ins[1].addr # ins[2].addr}
Thetas(ps) == SumFunction([i \in DOMAIN ps |-> OrZero(ps[i].theta)])
TFuels(ps) == SumFunction([i \in DOMAIN ps |-> OrZero(ps[i].tfuel)])

Sends == {t \in {Blank("send", ins, outs, f) : ins \in SendIns,
                                              outs \in Lists(SendTo, 0, 2), f \in {0, 1}} :
            /\ Thetas(t.ins) = Thetas(t.outs)
            /\ TFuels(t.ins) = TFuels(t.outs) + t.fee}

Contracts ==
    {[kind |-> "smartContract", ins |-> <<[addr |-> a, theta |-> 0, tfuel |-> 0]>>,
      outs |-> <<>>, fee |-> 0, gasPrice |-> 4, gasUsed |-> g, changes |-> cs] :
        a \in Account, g \in {0, 2}, cs \in Lists(MCChange, 0, 2) \cup {Nil}}

MCTransaction ==
    Coinbases \cup Sends \cup Contracts
    \cup Simple({"slash", "reserveFund", "releaseFund", "depositStake", "withdrawStake",
                 "returnStake"}, MCParty)
    \cup Simple({"splitRule"}, Present(MCParty))
    \cup Paired({"servicePayment"}, Present(MCParty), Present(MCParty))
    \cup Paired({"stakeReward", "construction"}, MCParty, MCParty)
=============================================================================
