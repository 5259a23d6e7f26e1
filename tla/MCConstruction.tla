--------------------------- MODULE MCConstruction ---------------------------
(* Two clients that build transfers and contract calls of two accounts.      *)
EXTENDS Construction, TLC

CONSTANTS alice, bob

MCTerms == [fee |-> 2, gasPrice |-> 3, gasLimit |-> 9]
MCOldTerms == [fee |-> 1, gasPrice |-> 1, gasLimit |-> 12]
MCFunds == [a \in Account |-> [theta |-> 7, tfuel |-> 40]]

Transfer(from, to, payer, theta, tfuel, fee) ==
    <<Piece("SendTxInput", from, "THETA", -theta), Piece("SendTxInput", payer, "TFUEL", -tfuel),
      Piece("SendTxOutput", to, "THETA", theta), Piece("SendTxOutput", to, "TFUEL", tfuel),
      Fee(from, fee)>>

Call(from, to, tfuel) ==
    <<Piece("SmartContractTxFrom", from, "TFUEL", -tfuel),
      Piece("SmartContractTxTo", to, "TFUEL", tfuel)>>

Swap(ops) == <<ops[Len(ops)]>> \o SubSeq(ops, 2, Len(ops) - 1) \o <<ops[1]>>
Rotate(ops) == Tail(ops) \o <<Head(ops)>>

Of(ops, direct, slip) ==
    [ops |-> ops, gasLimit |-> Nil, gasPrice |-> Nil, direct |-> direct, slip |-> slip]
WithGas(ops, limit, price, direct) ==
    [ops |-> ops, gasLimit |-> limit, gasPrice |-> price, direct |-> direct, slip |-> "none"]

Plain == Transfer(alice, bob, alice, 5, 4, 2)
Calls == Call(alice, bob, 4)

Good ==
    {Of(ops, FALSE, "none") : ops \in
        {Plain, Rotate(Rotate(Plain)), Swap(Plain), Transfer(bob, alice, bob, 0, 1, 0),
         Transfer(alice, bob, alice, 1, 0, 200),
         Transfer(bob, alice, bob, 2, 3, 1), Calls, Swap(Calls), Call(bob, alice, 0)}}
    \cup {WithGas(Calls, l, p, d) : l \in {9, 10}, p \in {Nil, 3}, d \in BOOLEAN}
    \cup {Of(Plain, TRUE, "none"), Of(Transfer(alice, bob, bob, 3, 1, 2), TRUE, "none")}

Bad ==
    {Of(Plain, FALSE, slip) : slip \in Slip \ {"none", "data"}}
    \cup {Of(Calls, FALSE, "data"), Of(Tail(Plain), FALSE, "none"), Of(Tail(Plain), TRUE, "none"),
          Of(Transfer(alice, bob, bob, 3, 1, 2), FALSE, "none"),
          Of([Plain EXCEPT ![4].value = 3], FALSE, "none"),
          Of(Transfer(alice, bob, alice, 8, 4, 2), FALSE, "none"),
          Of(Transfer(alice, alice, alice, 3, 1, 2), FALSE, "none")}

MCRequest == Good \cup Bad
FewRequests == {Of(Plain, FALSE, "none"), Of(Plain, FALSE, "key")}

ClientSymmetry == Permutations(Client)
=============================================================================
