--------------------------- MODULE MCReturnStakes ---------------------------
(* Small chains for ReturnStakes and BlockSyncer.  The snapshot is block 2,  *)
(* blocks FirstHeight to MaxHeight are served and a stake is locked for 2    *)
(* blocks.                                                                   *)
EXTENDS BlockSyncer, TLC

\* A stake is named after its pool and the block of its withdrawal.
Table ==
    [v1 |-> [pool |-> "vcp",  w |-> 1, amount |-> 5],
     u1 |-> [pool |-> "vcp",  w |-> 1, amount |-> 2],
     g1 |-> [pool |-> "gcp",  w |-> 1, amount |-> 1],
     g2 |-> [pool |-> "gcp",  w |-> 2, amount |-> 3],
     e2 |-> [pool |-> "eenp", w |-> 2, amount |-> 4],
     v3 |-> [pool |-> "vcp",  w |-> 3, amount |-> 1],
     g3 |-> [pool |-> "gcp",  w |-> 3, amount |-> 7],
     e3 |-> [pool |-> "eenp", w |-> 3, amount |-> 2],
     e4 |-> [pool |-> "eenp", w |-> 4, amount |-> 6],
     g5 |-> [pool |-> "gcp",  w |-> 5, amount |-> 8]]

MCPool == [s \in Stake |-> Table[s].pool]
MCAmount == [s \in Stake |-> Table[s].amount]
MCWithdrawnAt == [s \in Stake |-> Table[s].w]

InStake(s) == s \in Stake
Rows(list) == [i \in DOMAIN list |-> [stake |-> list[i], slot |-> i - 1]]

\* The pools at the snapshot: all stakes, also those not withdrawn yet.
MCSnapshotRows ==
    Rows(SelectSeq(<<"v1", "u1", "v3", "g1", "g2", "g3", "g5", "e2", "e3", "e4">>, InStake))

ChainTxs(h) == CASE h = 2 -> <<"g2", "e2">>
                 [] h = 3 -> <<"v3", "g3", "e3">>
                 [] h = 4 -> <<"e4">>
                 [] OTHER -> <<>>

\* e2 was in the orphan of its own height too, e4 was in one before it was on
\* the chain, and g5 never got there if the chain ends at block 4.
LostTxs(h) == CASE h = 2 -> <<"e2">>
                [] h = 3 -> <<"e4">>
                [] h = 4 -> <<"g5">>
                [] OTHER -> <<>>

MCBlockTxs == [h \in Height |-> SelectSeq(ChainTxs(h), InStake)]
MCOrphanTxs == [h \in Height |-> SelectSeq(LostTxs(h), InStake)]

WorkerSymmetry == Permutations(Worker)
=============================================================================
