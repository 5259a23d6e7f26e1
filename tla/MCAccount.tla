------------------------------ MODULE MCAccount ------------------------------
(* A chain of four blocks.  The account appears in block 1 and its balances  *)
(* change in every block, so that an answer tells which block it is of.      *)
EXTENDS Account

MCBalance ==
    [h \in Height |-> IF h = 0 THEN NoAccount ELSE [c \in Currency |-> IF c = "THETA" THEN 10 + h ELSE 20 + h]]

\* Block 2 has a rival in which the account is spent.
MCOrphanBalance == [h \in {2} |-> [c \in Currency |-> 0]]

Query(endpoint, id, currencies) ==
    [endpoint |-> endpoint, id |-> id, currencies |-> currencies, networkOk |-> TRUE]

At(index, hash) == [index |-> index, hash |-> hash]

\* By nothing, by height, by hash and by both, also for blocks the node does
\* not have; with and without a filter; for the wrong network.
MCRequest ==
    {Query("balance", id, c) :
        id \in {NoId, At(0, Nil), At(1, Nil), At(3, Nil), At(Nil, Hash(2)), At(Nil, Hash(3)), At(Nil, OrphanHash(2)),
                At(Nil, UnknownHash), At(2, Hash(2)), At(2, UnknownHash)},
        c \in {Nil, {"TFUEL"}}}
    \cup {Query("coins", NoId, c) : c \in {Nil, {"THETA"}, {}}}
    \cup {[Query("coins", NoId, Nil) EXCEPT !.networkOk = FALSE]}

\* One kind of request at a time.
ByOrphanHash == {Query("balance", At(Nil, OrphanHash(2)), Nil)}
OfGenesis == {Query("balance", At(0, Nil), Nil)}
OfLatest == {Query("balance", NoId, Nil)}
=============================================================================
