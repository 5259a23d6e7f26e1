---------------------------- MODULE ReturnStakes ----------------------------
(***************************************************************************)
(* The adaptor's only persistent state: the return_stakes database.  A     *)
(* stake withdrawn on the chain at height w is credited back to its source *)
(* at height w + LockPeriod by the ledger itself, with no transaction.     *)
(* Rosetta wants every balance change to be in some block, so the adaptor  *)
(* remembers each withdrawal under the height of its return and adds it to *)
(* the answer for that block.  Two paths write the database:               *)
(*   - at the very first start, GenStakesForSnapshot copies the stakes     *)
(*     that were already withdrawn in the node's snapshot;                 *)
(*   - every /block request re-parses the block's transactions, and        *)
(*     ParseTx stores each WithdrawStakeTx (Get, append, Put; no lock).    *)
(* Requests run in parallel, one goroutine each; the process may die       *)
(* between any two steps.  Clients here ask for any block at any time:     *)
(* module BlockSyncer adds the discipline of a Rosetta indexer.            *)
(***************************************************************************)
EXTENDS Integers, Sequences, FiniteSets

CONSTANTS
    Stake,          \* stakes withdrawn on the chain, one withdrawal each
    Pool,           \* the pool a stake is in: "vcp", "gcp" or "eenp"
    Amount,         \* the amount of a stake
    WithdrawnAt,    \* height of the block that withdraws it, Never if none does
    SnapshotHeight, \* height of the snapshot the node started from
    FirstHeight,    \* first block a client asks for
    MaxHeight,      \* last block of the (bounded) chain
    LockPeriod,     \* core.ReturnLockingPeriod, 28800 on the real chain
    BlockTxs,       \* withdrawals of each block, in block order
    OrphanTxs,      \* the same for a block of that height off the chain
    SnapshotRows,   \* rows of the three pools at the snapshot, in loop order
    Worker,         \* handler goroutines
    Faults,         \* kinds of failure the environment may inject
    MaxFaults       \* how many of them in one behaviour

Pools == {"vcp", "gcp", "eenp"}
FaultKinds == {"crash", "open", "rpc", "empty", "read", "write", "timeout",
               "orphan"}

Height == FirstHeight..MaxHeight
Never == MaxHeight + 1
Key == 0..(Never + LockPeriod)

ASSUME ChainAssumption ==
    /\ Pool \in [Stake -> Pools]
    /\ Amount \in [Stake -> Nat \ {0}]
    /\ MaxHeight \in Nat /\ SnapshotHeight \in Nat /\ FirstHeight \in Nat
    /\ FirstHeight \in SnapshotHeight..MaxHeight
    /\ LockPeriod \in Nat \ {0}
    /\ WithdrawnAt \in [Stake -> 0..Never]

\* A block holds the withdrawals made at its height, each of them once.
ASSUME BlocksAssumption ==
    /\ BlockTxs \in [Height -> Seq(Stake)]
    /\ \A h \in Height : \A i, j \in DOMAIN BlockTxs[h] :
          /\ WithdrawnAt[BlockTxs[h][i]] = h
          /\ BlockTxs[h][i] = BlockTxs[h][j] => i = j
    /\ \A s \in Stake : WithdrawnAt[s] \in Height =>
          \E i \in DOMAIN BlockTxs[WithdrawnAt[s]] : BlockTxs[WithdrawnAt[s]][i] = s

\* A withdrawal of an orphaned block is on the chain at the same height, later,
\* or never: the chain below is the one the orphan was built on.
ASSUME OrphansAssumption ==
    /\ OrphanTxs \in [Height -> Seq(Stake)]
    /\ \A h \in Height : \A i \in DOMAIN OrphanTxs[h] : WithdrawnAt[OrphanTxs[h][i]] >= h

\* The node lists every stake at most once; slot is the index within the
\* candidate's, guardian's or edge node's own list of stakes.
ASSUME SnapshotAssumption ==
    /\ SnapshotRows \in Seq([stake : Stake, slot : Nat])
    /\ \A i, j \in DOMAIN SnapshotRows :
          /\ SnapshotRows[i].stake = SnapshotRows[j].stake => i = j
          /\ i < j => LET p == Pool[SnapshotRows[i].stake]
                          q == Pool[SnapshotRows[j].stake]
                      IN  (q = "vcp" => p = "vcp") /\ (p = "eenp" => q = "eenp")

ASSUME FaultAssumption == Faults \subseteq FaultKinds /\ MaxFaults \in Nat

-----------------------------------------------------------------------------
(* What the node answers (external): the pools and the return height. *)

\* stake.Withdrawn in the pools at the snapshot height
Withdrawn(s) == WithdrawnAt[s] <= SnapshotHeight

\* stake.ReturnHeight: the ledger counts from the parent of the block that
\* withdraws, hence the adaptor's "actual return height is off-by-one".
ReturnHeight(s) == WithdrawnAt[s] + LockPeriod - 1

-----------------------------------------------------------------------------
(* Entries of the database: ReturnStakeTx and ReturnStakeTxs.  A hash is    *)
(* represented by the text that is hashed; a nil coin and a zero coin are   *)
(* the same once RLP-encoded.  No Put ever stores an empty list, so the     *)
(* empty list stands for a key that is not there.                           *)

Hash == ({"tx"} \X Stake) \cup (Pools \X Nat)
Coins == [theta : Nat, tfuel : Nat]
ReturnStakeTx == [hash : Hash, stake : Stake, coins : Coins]
ReturnStakeTxs == Seq(ReturnStakeTx)
KeyNotFound == <<>>

\* Mutants of StakeCoins: Theta for every pool; spent instead of returned.
CoinsAllTheta(s, amount) == [theta |-> amount, tfuel |-> 0]
CoinsSpent(s, amount) == [theta |-> -amount, tfuel |-> 0]

\* Validator and guardian stakes are in Theta, edge node stakes in TFuel.
StakeCoins(s, amount) ==
    IF Pool[s] = "eenp" THEN [theta |-> 0, tfuel |-> amount]
                        ELSE [theta |-> amount, tfuel |-> 0]

TxEntry(s, amount) ==
    [hash |-> <<"tx", s>>, stake |-> s, coins |-> StakeCoins(s, amount)]

SnapshotEntry(row) ==
    [hash |-> <<Pool[row.stake], row.slot>>,
     stake |-> row.stake,
     coins |-> StakeCoins(row.stake, Amount[row.stake])]

\* Mutants of AddOnce: append without looking; keep only the newest.
AddBlindly(list, e) == Append(list, e)
AddAlone(list, e) == <<e>>

\* ParseTx appends the new withdrawal unless its hash is already listed.
AddOnce(list, e) ==
    IF \E i \in DOMAIN list : list[i].hash = e.hash THEN list ELSE Append(list, e)

\* Mutants of WithdrawKey and SnapshotKey: off by one.
WithdrawKeyEarly(h) == h + LockPeriod - 1
SnapshotKeyRaw(rh) == rh

\* The database key for a withdrawal in block h, and for a snapshot stake.
WithdrawKey(h) == h + LockPeriod
SnapshotKey(rh) == rh + 1

-----------------------------------------------------------------------------
VARIABLES
    phase,      \* "down", "scan" and "store" (GenStakesForSnapshot), "serving"
    dirExists,  \* /data/return_stakes is there (persistent)
    open,       \* the database handle is not nil
    db,         \* contents of the database (persistent)
    row,        \* next row of the pools that GenStakesForSnapshot looks at
    returnStakeTxsMap,  \* its map, keyed by ReturnHeight
    req,        \* the /block request each goroutine is serving
    answered,   \* blocks that some client has received (history)
    reported,   \* the stake returns in the last answer for a block (history)
    faults      \* failures injected so far

vars == <<phase, dirExists, open, db, row, returnStakeTxsMap, req, answered,
          reported, faults>>

NoReq == [pc |-> "idle", h |-> FirstHeight, orphan |-> FALSE, i |-> 1, list |-> <<>>,
          live |-> FALSE]
NoEntries == [k \in Key |-> KeyNotFound]

ReqType == [pc : {"idle", "tx", "put"}, h : Height, orphan : BOOLEAN,
            i : Nat \ {0}, list : ReturnStakeTxs, live : BOOLEAN]

TypeOK ==
    /\ phase \in {"down", "scan", "store", "serving"}
    /\ dirExists \in BOOLEAN
    /\ open \in BOOLEAN
    /\ db \in [Key -> ReturnStakeTxs]
    /\ row \in Nat \ {0}
    /\ returnStakeTxsMap \in [Key -> ReturnStakeTxs]
    /\ req \in [Worker -> ReqType]
    /\ answered \subseteq Height
    /\ reported \in [Height -> ReturnStakeTxs]
    /\ faults \in 0..MaxFaults

Init ==
    /\ phase = "down"
    /\ dirExists = FALSE
    /\ open = FALSE
    /\ db = NoEntries
    /\ row = 1
    /\ returnStakeTxsMap = NoEntries
    /\ req = [r \in Worker |-> NoReq]
    /\ answered = {}
    /\ reported = [h \in Height |-> <<>>]
    /\ faults = 0

Fault(f) == f \in Faults /\ faults < MaxFaults /\ faults' = faults + 1

history == <<answered, reported>>
volatile == <<row, returnStakeTxsMap, req>>

-----------------------------------------------------------------------------
(* NewThetaRouter: open the database; copy the snapshot if it is new. *)

\* os.Stat before NewLDBDatabase decides whether the snapshot is copied.
StartWith(opened) ==
    /\ phase = "down"
    /\ phase' = IF dirExists THEN "serving" ELSE "scan"
    /\ open' = opened
    /\ UNCHANGED <<db, volatile, history>>

\* Opening the database creates its directory.
Start == StartWith(TRUE) /\ dirExists' = TRUE /\ UNCHANGED faults

\* NewLDBDatabase fails, before or after it has made the directory: the error
\* is overwritten and the handle stays nil.
StartOpenFails ==
    StartWith(FALSE) /\ dirExists' \in {dirExists, TRUE} /\ Fault("open")

\* Mutant of GrowMap: no pool writes the longer list back.
GrowMapNever(rh, e) ==
    [returnStakeTxsMap EXCEPT ![rh] = IF @ = KeyNotFound THEN <<e>> ELSE @]

\* returnStakeTxsMap after a withdrawn row: the validator loop writes the
\* longer list back, the guardian and edge node loops append to a copy of the
\* map's value and drop it.
GrowMap(rh, e) ==
    [returnStakeTxsMap EXCEPT ![rh] =
        IF @ = KeyNotFound \/ Pool[e.stake] = "vcp" THEN Append(@, e) ELSE @]

ScanRow ==
    /\ phase = "scan" /\ row \in DOMAIN SnapshotRows
    /\ LET rec == SnapshotRows[row] IN
          returnStakeTxsMap' =
             IF Withdrawn(rec.stake)
             THEN GrowMap(ReturnHeight(rec.stake), SnapshotEntry(rec))
             ELSE returnStakeTxsMap
    /\ row' = row + 1
    /\ UNCHANGED <<phase, dirExists, open, db, req, history, faults>>

ScanDone ==
    /\ phase = "scan" /\ row \notin DOMAIN SnapshotRows
    /\ phase' = "store"
    /\ UNCHANGED <<dirExists, open, db, volatile, history, faults>>

\* GetStatus or one of the pool RPCs fails.  The map is discarded, wherever
\* the scan was, and NewThetaRouter drops the error: it serves all the same.
ScanFails ==
    /\ phase = "scan" /\ Fault("rpc")
    /\ phase' = "serving"
    /\ returnStakeTxsMap' = NoEntries
    /\ UNCHANGED <<dirExists, open, db, row, req, history>>

\* One step of the range over the map, in Go's arbitrary order: rh is a key
\* it has not visited.  What was visited is removed here.
Visit(rh) ==
    /\ phase = "store" /\ returnStakeTxsMap[rh] # KeyNotFound
    /\ returnStakeTxsMap' = [returnStakeTxsMap EXCEPT ![rh] = KeyNotFound]

StorePut(rh) ==
    /\ Visit(rh) /\ open
    /\ db' = [db EXCEPT ![SnapshotKey(rh)] = returnStakeTxsMap[rh]]
    /\ UNCHANGED <<phase, dirExists, open, row, req, history, faults>>

\* The error of kvstore.Put is not looked at.
StorePutFails(rh) ==
    /\ Visit(rh) /\ open /\ Fault("write")
    /\ UNCHANGED <<phase, dirExists, open, db, row, req, history>>

StoreDone ==
    /\ phase = "store" /\ returnStakeTxsMap = NoEntries
    /\ phase' = "serving"
    /\ UNCHANGED <<dirExists, open, db, volatile, history, faults>>

Die ==
    /\ phase' = "down"
    /\ open' = FALSE
    /\ row' = 1
    /\ returnStakeTxsMap' = NoEntries
    /\ req' = [r \in Worker |-> NoReq]
    /\ UNCHANGED <<dirExists, db, history>>

\* Put through a nil handle panics in the main goroutine.
StoreNilHandle ==
    /\ phase = "store" /\ ~open /\ returnStakeTxsMap # NoEntries
    /\ Die /\ UNCHANGED faults

Crash == phase # "down" /\ Fault("crash") /\ Die

-----------------------------------------------------------------------------
(* blockAPIService.Block.  The RPCs to the node touch no state   *)
(* of the adaptor, so each is taken together with the database access that  *)
(* follows it; between two database accesses other requests may run.        *)

server == <<phase, dirExists, open, row, returnStakeTxsMap>>

Accept(r, h, orphan) ==
    /\ phase = "serving" /\ req[r].pc = "idle"
    /\ req' = [req EXCEPT ![r] = [NoReq EXCEPT !.pc = "tx", !.h = h, !.orphan = orphan,
                                              !.live = TRUE]]
    /\ UNCHANGED <<server, db, history>>

\* By height, or by the hash of the block on the chain.
BlockRequest(r, h) == Accept(r, h, FALSE) /\ UNCHANGED faults

\* By the hash of an orphaned block, which theta.GetBlock answers as well.
OrphanRequest(r, h) == Accept(r, h, TRUE) /\ Fault("orphan")

\* theta.GetBlockByHeight fails or finds nothing: ErrUnableToGetBlk.  (Nor does
\* a request refused for its mode or network change anything.)
BlockRequestFails(r, h) ==
    /\ phase = "serving" /\ req[r].pc = "idle" /\ Fault("rpc")
    /\ UNCHANGED <<server, req, db, history>>

\* The client's HTTP timeout: nobody waits for the answer any more, but the
\* handler does not look at its context and runs on.
TimeOut(r) ==
    /\ req[r].pc # "idle" /\ req[r].live /\ Fault("timeout")
    /\ req' = [req EXCEPT ![r].live = FALSE]
    /\ UNCHANGED <<server, db, history>>

\* Request r is about to parse a withdrawal, or has parsed them all.
RequestTxs(r) == IF req[r].orphan THEN OrphanTxs[req[r].h] ELSE BlockTxs[req[r].h]
AtTx(r) == req[r].pc = "tx" /\ req[r].i <= Len(RequestTxs(r))
AtEnd(r) == req[r].pc = "tx" /\ req[r].i > Len(RequestTxs(r))
CurrentStake(r) == RequestTxs(r)[req[r].i]

\* What GetStakeForTx may answer.  The pools of the height are the chain's, in
\* which a stake of an orphan is not withdrawn yet: a validator or guardian
\* stake is found all the same, an edge node stake (WithdrawnOnly) may not be.
StakeAmounts(r) ==
    {Amount[CurrentStake(r)]}
    \cup (IF req[r].orphan /\ Pool[CurrentStake(r)] = "eenp" THEN {0} ELSE {})

\* ParseTx up to the Put: amount is what GetStakeForTx answered, stored what
\* kvstore.Get did.
Remember(r, amount, stored) ==
    /\ AtTx(r) /\ open
    /\ req' = [req EXCEPT ![r].pc = "put",
                          ![r].list = AddOnce(stored, TxEntry(CurrentStake(r), amount))]
    /\ UNCHANGED <<server, db, history>>

ReadReturns(r) ==
    /\ AtTx(r)
    /\ \E amount \in StakeAmounts(r) : Remember(r, amount, db[WithdrawKey(req[r].h)])
    /\ UNCHANGED faults

\* GetEenpStakeByHeight answers with no stake: its zero value is used.  (So it
\* may when the first of the pools it gives for the height is an orphan's.)
ReadReturnsNoStake(r) ==
    /\ AtTx(r) /\ Pool[CurrentStake(r)] = "eenp" /\ Fault("empty")
    /\ Remember(r, 0, db[WithdrawKey(req[r].h)])

\* Any error of kvstore.Get is taken for an absent key.
ReadReturnsGetFails(r) ==
    /\ AtTx(r) /\ Fault("read")
    /\ Remember(r, Amount[CurrentStake(r)], KeyNotFound)

\* Mutant of PutReturns: the loop stays at the same transaction.
PutReturnsAgain(r) ==
    /\ req[r].pc = "put"
    /\ db' = [db EXCEPT ![WithdrawKey(req[r].h)] = req[r].list]
    /\ req' = [req EXCEPT ![r].pc = "tx"]
    /\ UNCHANGED <<server, history, faults>>

PutReturns(r) ==
    /\ req[r].pc = "put"
    /\ db' = [db EXCEPT ![WithdrawKey(req[r].h)] = req[r].list]
    /\ req' = [req EXCEPT ![r].pc = "tx", ![r].i = @ + 1]
    /\ UNCHANGED <<server, history, faults>>

\* The response: the transactions, then the stakes returned at this height.
\* The history keeps the answers for blocks of the chain.
Respond(r, returns) ==
    /\ AtEnd(r) /\ open
    /\ IF req[r].live /\ ~req[r].orphan
       THEN answered' = answered \cup {req[r].h} /\ reported' = [reported EXCEPT ![req[r].h] = returns]
       ELSE UNCHANGED history
    /\ req' = [req EXCEPT ![r] = NoReq]
    /\ UNCHANGED <<server, db>>

Reply(r) == AtEnd(r) /\ Respond(r, db[req[r].h]) /\ UNCHANGED faults

\* Any error of the last kvstore.Get means there are no returns.
ReplyGetFails(r) == Respond(r, KeyNotFound) /\ Fault("read")

\* A panic in a handler: net/http recovers, the client gets no answer.
Panic(r) ==
    /\ req' = [req EXCEPT ![r] = NoReq]
    /\ UNCHANGED <<server, db, history>>

\* The handle is nil: ParseTx panics by hand, kvstore.Get by dereference.
PanicNilHandle(r) == req[r].pc = "tx" /\ ~open /\ Panic(r) /\ UNCHANGED faults

\* GetStakeForTx fails.
PanicNoStakeRPC(r) == AtTx(r) /\ open /\ Fault("rpc") /\ Panic(r)

\* GetStakeForTx finds no such validator or guardian stake: nil, nil.
PanicNilStake(r) ==
    /\ AtTx(r) /\ open /\ Pool[CurrentStake(r)] # "eenp"
    /\ Fault("empty") /\ Panic(r)

PanicPutFails(r) == req[r].pc = "put" /\ Fault("write") /\ Panic(r)

-----------------------------------------------------------------------------
(* Steps of the start-up, of a handler, and failures of a handler. *)

Boot ==
    \/ Start
    \/ ScanRow
    \/ ScanDone
    \/ \E rh \in Key : StorePut(rh)
    \/ StoreDone

BootFails ==
    \/ StartOpenFails
    \/ ScanFails
    \/ \E rh \in Key : StorePutFails(rh)
    \/ StoreNilHandle
    \/ Crash

Handle(r) ==
    \/ ReadReturns(r)
    \/ PutReturns(r)
    \/ Reply(r)
    \/ PanicNilHandle(r)

HandleFails(r) ==
    \/ TimeOut(r)
    \/ ReadReturnsNoStake(r)
    \/ ReadReturnsGetFails(r)
    \/ ReplyGetFails(r)
    \/ PanicNoStakeRPC(r)
    \/ PanicNilStake(r)
    \/ PanicPutFails(r)

ServerStep ==
    \/ Boot
    \/ BootFails
    \/ \E r \in Worker : Handle(r)
    \/ \E r \in Worker : HandleFails(r)

Next ==
    \/ ServerStep
    \/ \E r \in Worker, h \in Height : BlockRequest(r, h)
    \/ \E r \in Worker, h \in Height : OrphanRequest(r, h)
    \/ \E r \in Worker, h \in Height : BlockRequestFails(r, h)

Spec == Init /\ [][Next]_vars

-----------------------------------------------------------------------------
(* Correctness, for clients that ask for any block at any time.             *)

\* What the ledger credits to the source when the stake is returned.
Credit(s) == [theta |-> IF Pool[s] \in {"vcp", "gcp"} THEN Amount[s] ELSE 0,
              tfuel |-> IF Pool[s] = "eenp" THEN Amount[s] ELSE 0]

Listed(s, txs) == \E i \in DOMAIN txs : txs[i] = s

\* A block off the chain whose withdrawals would be returned at height k has s.
Orphaned(s, k) == \E h \in Height : h + LockPeriod = k /\ Listed(s, OrphanTxs[h])

\* An entry that is due at height k.  The amount of an edge node stake is
\* trusted unless the node may answer without one.
DueAt(e, k) ==
    \/ /\ WithdrawnAt[e.stake] + LockPeriod = k
       /\ \/ e.coins = Credit(e.stake)
          \/ "empty" \in Faults /\ Pool[e.stake] = "eenp" /\ e.coins = [theta |-> 0, tfuel |-> 0]
    \/ "orphan" \in Faults /\ Orphaned(e.stake, k)

AllDueAt(list, k) == \A i \in DOMAIN list : DueAt(list[i], k)

\* Whatever the order of requests, failures and restarts, everything stored
\* under a height or reported in a block is a stake the ledger returns at that
\* very height, credited in the coin and the amount of its pool: the key
\* computed by ParseTx from the block and the one computed from the snapshot's
\* ReturnHeight agree, and no list is ever put under another key.  The one
\* exception is a stake of an orphaned block that a client has asked for by
\* hash: ParseTx stores it under the height it would be returned at.
ReturnsAreDue ==
    /\ \A k \in Key : AllDueAt(db[k], k)
    /\ \A h \in Height : AllDueAt(reported[h], h)

\* Entries of one stake are told apart by their hash, and then the stake is in
\* the snapshot as withdrawn and its block is served too.
Apart(x, y) ==
    x.stake = y.stake =>
        /\ x.hash # y.hash
        /\ Withdrawn(x.stake) /\ WithdrawnAt[x.stake] \in Height

NoRepeat(list) == \A i, j \in DOMAIN list : i # j => Apart(list[i], list[j])

\* No stake is stored or reported twice for a height, however often its block
\* is asked for again, by how many clients at once, and after which failures:
\* ParseTx compares hashes, on a list that may be stale when it is written.
\* Only a stake withdrawn in the snapshot block itself may be there twice, once
\* from the snapshot and once from the block, and only if clients ask for that
\* block (network.go, line 88, announces it as the oldest).
NoDoubleEntry ==
    /\ \A k \in Key : NoRepeat(db[k])
    /\ \A h \in Height : NoRepeat(reported[h])

Holds(list, s) == \E i \in DOMAIN list : list[i].stake = s

\* The withdrawal of s is in the database, under the height of its return.
Recorded(s) == Holds(db[WithdrawnAt[s] + LockPeriod], s)

\* An earlier withdrawn row of the snapshot has the same return height.
Shadowed(j) == \E i \in 1..(j - 1) :
    /\ Withdrawn(SnapshotRows[i].stake)
    /\ WithdrawnAt[SnapshotRows[i].stake] = WithdrawnAt[SnapshotRows[j].stake]

\* What an undisturbed first start copies from the snapshot at least: every
\* withdrawn validator stake, and of the guardian and edge node stakes those
\* that are the first of their return height.  They stay in the database while
\* blocks are served, also when the block served records withdrawals under the
\* same key: the handlers only ever add to these lists.
SnapshotKeepsFirst ==
    phase = "serving" /\ faults = 0 =>
        \A j \in DOMAIN SnapshotRows :
            LET s == SnapshotRows[j].stake
            IN  Withdrawn(s) /\ (Pool[s] = "vcp" \/ ~Shadowed(j)) => Recorded(s)

\* services/server.go, line 81: "populate kvstore for vcp/gcp/eenp stakes
\* having withdrawn:true".  Once the adaptor serves, every stake that was
\* withdrawn in the snapshot is in the database.
SnapshotPopulated ==
    phase = "serving" =>
        \A j \in DOMAIN SnapshotRows :
            Withdrawn(SnapshotRows[j].stake) => Recorded(SnapshotRows[j].stake)
=============================================================================
