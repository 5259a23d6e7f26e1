----------------------------- MODULE BlockSyncer -----------------------------
(***************************************************************************)
(* The adaptor behind a Rosetta indexer (external: rosetta-cli, as set up  *)
(* by cli-test-config.json).  The indexer walks the chain upwards, has at  *)
(* most Window blocks in flight (max_sync_concurrency, 64), asks again for *)
(* a block whose request failed or timed out, and never asks again for one *)
(* it has received.  64 is far below the 28800 blocks of LockPeriod, which *)
(* is what makes the database of ReturnStakes work: the block of a         *)
(* withdrawal is answered before the block of its return is asked for.     *)
(***************************************************************************)
EXTENDS ReturnStakes

CONSTANT Window     \* how far the indexer runs ahead of the last gap

ASSUME WindowAssumption == Window \in 1..LockPeriod

\* Block h is still missing, nobody waits for it, and the gap is not too old.
MayAsk(h) ==
    /\ h \notin answered
    /\ \A r \in Worker : req[r].live => req[r].h # h
    /\ \A g \in Height : g <= h - Window => g \in answered

SyncRequest(r, h) == MayAsk(h) /\ BlockRequest(r, h)
SyncRequestFails(r, h) == MayAsk(h) /\ BlockRequestFails(r, h)

SyncNext ==
    \/ ServerStep
    \/ \E r \in Worker, h \in Height : SyncRequest(r, h)
    \/ \E r \in Worker, h \in Height : SyncRequestFails(r, h)

SyncSpec == Init /\ [][SyncNext]_vars

\* The start-up and every handler goroutine make progress, and the indexer
\* keeps asking for a block it misses.  Failures are never obliged to happen;
\* their number is bounded by MaxFaults.
Fairness ==
    /\ WF_vars(Boot)
    /\ \A r \in Worker : WF_vars(Handle(r))
    /\ \A h \in Height : WF_vars(\E r \in Worker : SyncRequest(r, h))

FairSyncSpec == SyncSpec /\ Fairness

-----------------------------------------------------------------------------
(* Correctness behind an indexer.                                           *)

\* Once the indexer has the answer for a block, each of its withdrawals is in
\* the database and stays there, although the write happens while the block is
\* parsed, the handlers of other blocks run at the same time, and requests die
\* in panics or with the process between two withdrawals.  (Not if database
\* reads fail or the indexer gives up on running handlers.)
ServedIsRecorded ==
    \A h \in answered : \A i \in DOMAIN BlockTxs[h] : Recorded(BlockTxs[h][i])

\* The stakes withdrawn in a served block that are due at height h.
ServedDue(h) == {s \in Stake : WithdrawnAt[s] \in Height /\ WithdrawnAt[s] + LockPeriod = h}

ReportedCredits(h) ==
    {<<reported[h][i].stake, reported[h][i].coins>> : i \in DOMAIN reported[h]}

\* A received block reports every stake that was withdrawn in a served block
\* and is returned at its height, in full: the returns are neither late, when
\* the block is asked for before the withdrawal was stored, nor lost.
ReturnsAreReported ==
    \A h \in answered : \A s \in ServedDue(h) : <<s, Credit(s)>> \in ReportedCredits(h)

\* The stakes an indexer sees are those of StakeLedger: the list read last from
\* a database that other handlers write to is, at the moment the block is
\* received, all that is due at its height; a block is never received again, nor
\* do its returns change.
Ledger == INSTANCE StakeLedger
    WITH received <- answered, returns <- [h \in Height |-> ReportedCredits(h)]

\* The adaptor behind an indexer implements the abstract ledger of stakes.
ImplementsLedger == Ledger!Spec

\* No step erases a recorded withdrawal: each Put by ParseTx writes a list read
\* earlier, which must still be what the database holds.
RecordedForever == [][\A s \in Stake : Recorded(s) => Recorded(s)']_vars

\* common/utils.go, line 948: "Stakes are returned 28800 blocks later, so store
\* tx in db for later processing".  When the block of a withdrawal has been
\* answered and no handler is working on it any more, it is stored.
SettledIsRecorded ==
    \A h \in answered :
        (\A r \in Worker : req[r].pc # "idle" => req[r].h # h) =>
            \A i \in DOMAIN BlockTxs[h] : Recorded(BlockTxs[h][i])

\* The indexer gets every block of the chain in the end, despite panicking
\* handlers, failed calls and timeouts, as long as these stop at some point.
EverythingAnswered == <>(answered = Height)
=============================================================================
