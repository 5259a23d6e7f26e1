# A TLA+ verification project for the Theta Rosetta RPC adaptor

The adaptor is an HTTP server that answers the Rosetta API from a Theta node's
JSON-RPC interface. Most requests are translated into one or two calls to the
node and back. One thing makes it more than a translator: a stake withdrawn on
the chain is credited 28800 blocks later by the ledger itself, without a
transaction, and Rosetta wants each balance change to be in a block. So the
adaptor keeps a database of withdrawals by the height of their return, filled
as a side effect of serving blocks. That database, shared by concurrent
requests and surviving crashes, is the core of this project.

Files named `MC*.tla` and the `.cfg` files instantiate the modules for TLC;
`PROJECT.json` lists runs, mutants, the line-by-line map, findings and hazards.

## Inventory

| Component | Source | State | Operations | What makes it correct |
|---|---|---|---|---|
| Stake return tracking | `common/stake_service.go`, `ParseTx` in `common/utils.go`, `common/kvstore.go`, `common/db.go`, `common/types.go` | LevelDB `/data/return_stakes` (height -> list of returns); during the first start, a map by `ReturnHeight` | `GenStakesForSnapshot`, `GetStakeForTx`, Get/append/Put in `ParseTx` | every return is stored once, at its own height, in its own coin, and is never lost |
| Block endpoint | `services/block.go` | none of its own; one goroutine per request | `Block`, `BlockTransaction` | a block reports all stakes returned at its height |
| Router construction | `services/server.go` | the database handle, the chain id | `NewThetaRouter`, `StartServers` | the snapshot is copied exactly once |
| Operation mapping | `common/utils.go` | none | twelve `ParseXxxTx` | amounts add up to what the ledger does |
| Account endpoints | `services/account.go` | none | `AccountBalance`, `AccountCoins` | balances belong to the block they are reported for |
| Network endpoints | `services/network.go` | none | `NetworkList`, `NetworkStatus`, `NetworkOptions` | an announced block is a finalized one |
| Mempool endpoints | `services/mempool.go` | none | `Mempool`, `MempoolTransaction` | a listed transaction can be fetched, in a declared status |
| Construction endpoints | `services/construction.go` | none; changes the shared error values | derive, preprocess, metadata, payloads, parse, combine, hash, submit | what is built is what was asked for; a refusal by the node has a known cause |
| Shared error values | `common/errors.go` | global `*types.Error`s, mutable | `terr.Message +=` by handlers | an answer depends on its own request only |
| Lifecycle | `node/node.go`, `cmd/.../start.go` | a context, two channels, a wait group | start, interrupt, timer | an interrupt ends the process |
| Configuration | `common/config.go`, `cmd/.../root.go` | viper | flags, file | - |

**How they interact.** `start` -> `Node.Start` -> `StartServers` ->
`NewThetaRouter`, which opens the database, copies the snapshot the first time
and then listens. net/http runs each request in its own goroutine and recovers
its panics. `/block` calls `ParseTx` per transaction with the database and the
stake service; each `WithdrawStakeTx` asks the node for the stake and then does
Get, append and Put on the list for its return height. After the transactions
`/block` reads the list for its own height and appends those returns to the
answer. `/block/transaction` and `/mempool/transaction` call the same `ParseTx`
with a nil database.

**What is hard.**
- Concurrency: Get, append and Put take no lock, and handlers do not look at
  their context, so that a request that timed out still writes next to its retry.
- Failure: errors of opening the database, of copying the snapshot and of Put
  while copying are dropped; any error of Get counts as "not there"; in `ParseTx`
  errors are panics.
- Crashes: the directory is created before the snapshot is copied and is also
  what says that the copy was made.
- Order: a return is reported only if the block of the withdrawal was asked for
  earlier.
- Two calls to a node that goes on finalizing blocks in between.
- Boundaries: `ReturnHeight + 1` against `height + 28800`; height 0 meaning both
  genesis and latest; the fee of a send with several inputs;
  a fee that is not positive converted to an unsigned number.
- Shared memory: handlers append to the messages of global error values.
- Calls without a timeout.
- Signals: an unbuffered channel, and a main goroutine that never gets to the
  line where it would wait for the shutdown.

The `hazards` of `PROJECT.json` list these at their lines.

## Modules

### ReturnStakes: the database, the first start and `/block`

*State.* `phase`, `dirExists`, `open` and `db` are the process and its disk;
`row` and `returnStakeTxsMap` are the locals of `GenStakesForSnapshot`; `req[r]`
is what handler goroutine `r` has in hand (program counter, height, index of the
transaction, the list it is about to write, whether its client still waits).
`answered` and `reported` are history, what clients have received. `faults`
counts injected failures.

*Actions.* `Start`/`StartOpenFails` (os.Stat, then NewLDBDatabase), `ScanRow`,
`ScanDone`, `ScanFails`, `StorePut`, `StorePutFails`, `StoreDone`,
`StoreNilHandle` (GenStakesForSnapshot and what happens to its errors); `Crash`;
`BlockRequest` or `OrphanRequest` (a block off the chain, asked for by its
hash), then per withdrawal `ReadReturns` (GetStakeForTx and Get) and
`PutReturns`, then `Reply`; and each way these go wrong. A crash keeps
`dirExists` and `db`.

*Granularity.* Calls to the node change nothing in the adaptor, so each is one
step with the database access after it. Between two database accesses any other
handler, or a crash, may come. One row of the pools is a step of the scan, so
that the process may die at any row.

*Data.* A stake is identified by its withdrawal. A hash is the text that is
hashed: `<<"tx", s>>` for a transaction, pool and position for a snapshot stake.
Nil and zero coins are the same once RLP-encoded. Transactions other than
withdrawals touch no state and are left to `Operations`. The node's pools and
`ReturnHeight` are external: the ledger sets `ReturnHeight` from the parent of
the withdrawing block, which is what the `+ 1` ("off-by-one") in
`GenStakesForSnapshot` is for. A node that answers `GetStatus` with an RPC error
makes the adaptor ask for the pools of height 0, where nothing is withdrawn yet:
for the database that is the same as `ScanFails`.

A withdrawal of an orphaned block may be on the chain at the same height, later, or
never (`Never`). For such a block the node may have several pools of one height, and
`GetStakeForTx` takes the first: that the stake is then not found is
`PanicNilStake` or `ReadReturnsNoStake`.

A crash is the death of the process: what was put stays. That a machine may lose
writes that LevelDB has not synced yet (`Put` passes no write options) is not
modelled, so `RecordedForever` does not speak of it.

Clients in this module ask for any block at any time.

### BlockSyncer: the same behind an indexer

Extends ReturnStakes with the discipline of the Rosetta indexer that
`cli-test-config.json` configures (external): upwards, at most `Window` blocks
ahead of the oldest missing one, each block until it is received.
`Window <= LockPeriod` is assumed; in the repository it is 64 against 28800.

### StakeLedger: what an indexer is promised

An abstract specification with two variables, the blocks received and the
returns in each: a block is received once, together with exactly the stakes due
at its height that were withdrawn in served blocks, and some of the older ones
(those come from the snapshot, and some are lost). No database, no handlers, no
failures. `BlockSyncer` instantiates it with `answered` and what `reported`
amounts to; `ImplementsLedger` is the refinement.

### Parsers and Operations: `ParseTx`

`Parsers` has one operator per `ParseXxxTx`; it is shared by `Operations` and
`Construction`. Operations are records of type, account, currency and value. Their
indices and related operations are left out: each parser counts on its own, and
nothing in the repository says what the relations should be. So are metadata and
signatures. `Operations` has one
action per transaction type, each applying the operator that is its parser.
The kind `construction` is a smart contract transaction parsed by
`/construction/parse`, `returnStake` what `/block` does with an entry of the
database. Nil and zero coins differ, as in the code: the test against
`big.NewInt(0)` compares pointers and never excludes a zero.

### Account: `/account/balance` and `/account/coins`

A node that finalizes blocks, and handlers in two steps: find the block, then
look up the account. `HeightArg` is the height that is sent, where 0 (or none)
means the latest. `AccountCoins` sends none, which is where this is taken from.
So its coins may be of a later block than the one it names: `CoinsNotOlder` says
that this is all that can happen. `theta.GetBlock` answers for every block the node
has received, so `FromHash` finds blocks off the chain (`OrphanHash`) and blocks that
are not finalized yet; the account is looked up by the height in any case.

### Construction: the eight `/construction` endpoints and the shared errors

Each client wants one list of operations built (`Ask`) and goes through derive,
preprocess, metadata, payloads, parse, combine, hash and submit, or calls
payloads directly. `job[c]` is what the client carries from answer to answer: the
adaptor keeps nothing. A client may make one mistake on the way (`slip`), and
submit again after an error. The node (external) keeps two sequence numbers per
account, that of the `ledger`, which metadata asks for, and the one with the
transactions of its pool, and the `funds` that these leave. It takes a signed
transaction with the next number that meets its terms, adds up and is covered
(`Acceptable`); `Commit` puts transactions of the pool on the ledger. The endpoints
compare no amounts, so requests that do not add up get as far as submit.
`Terms` are those of now, `OldTerms` those of height 0, which a failed status call
stands for. Handlers are one step between calls to the node, with one exception:
an error is a pointer to a global value. `Fail`, `AppendFragment`, `StoreMessage`
and `SendError` are `terr := cmn.ErrX`, the read and the write of
`terr.Message += ...`, and the router's read when it encodes the answer. A Go
string has two words, so a read that races with a write may see `Torn`.
`Uint64` is the conversion of a float that is not positive, which Go leaves to the
machine: the choice is nondeterministic.

### Lifecycle: the start command

The main goroutine (`Notify`, `Spawn`, `Listen`, or `Fatal`) and the goroutine
waiting for the interrupt (`Receive`, `StopSignals`, `TimerFires`). `Interrupt` is
what the Go runtime does with a signal: the default action ends the process
unless Notify is in effect; then it goes to the channel if somebody is receiving,
and is dropped otherwise. Nothing after `n.Start` is reached, so there are no
actions for `Node.Wait`, `mainLoop` or the second `close(done)`.

### Endpoints: the HTTP side

Extends Lifecycle with `NewThetaRouter`'s chain id, a node whose chain grows and
whose transactions change status, and clients that send requests to every
endpoint. `Refused` is the mode and network check. The network and mempool
endpoints and `/block/transaction` are modelled in full, `/network/status` in its
two calls with the panic on a malformed `skip_edge_node` between them. The others appear with their checks and the fact that they call the
node; their own modules have the rest. A worker is a client and the goroutine of
its request; `listed` is what `/mempool` last told it. `called` records which
endpoints have called the node in offline mode. `CallHangs` is a call that the node
never answers.

### The proofs

`ReturnStakesProofs`, `SnapshotProofs` (also about ReturnStakes), `BlockSyncerProofs`,
`AccountProofs`, `EndpointsProofs`, `ConstructionProofs` and `OperationsProofs` hold the
theorems about the modules they are named after, `SumFacts` lemmas on sums and
flattened sequences.

## Runs

| Run | Constants worth knowing | Shows |
|---|---|---|
| `any_client` | 2 handlers, blocks 2..4 with the snapshot at 2, 7 stakes at 4 heights, orphans, all 8 kinds of failure, 2 of them | `TypeOK`, `ReturnsAreDue`, `NoDoubleEntry`; `SnapshotKeepsFirst`: what an undisturbed first start has copied is not lost to the blocks served after it |
| `syncer` | 3 handlers, blocks 3..7, lock period and window 3, crash / open / rpc / write, 3 of them | `ServedIsRecorded`, `ReturnsAreReported`, `RecordedForever`, and the refinement `ImplementsLedger` |
| `syncer_live` | 2 handlers, rpc / empty / read / write / timeout, 2 of them | `EverythingAnswered` |
| `operations` | 2 accounts, at most 2 inputs, outputs or balance changes | `BalancesUpToFees`, for the six kinds in `Tracked`: what fund, service payment, split rule, slash and reward transactions do to balances does not follow from the transaction alone |
| `account` | 4 blocks and one off the chain, requests by nothing, index, hash, both; failing calls | `BalanceOfItsBlock`, `CoinsNotOlder` |
| `construction` | 2 clients, 2 accounts with limited funds, 34 requests, one failing call, one resubmission | `BuiltAsAsked`, `RefusedForCause` |
| `endpoints` | every endpoint, online and offline, a transaction of each kind, 2 failures, 2 interrupts | `AnnouncedIsFinal` |
| `snapshot_interrupted` | violated | a crash while the snapshot is copied means it never is |
| `timed_out_retry` | violated | a timed-out handler and its retry lose a withdrawal of an answered block |
| `send_fee` | violated | a send with two inputs is one fee off |
| `stateless_errors` | violated | the second failing request gets the first one's message too |
| `interrupt_ignored` | violated | a caught interrupt does not end the process |

The violated runs each state a line of the repository (a comment, or a feature
listed in its README) and are explained under `findings`.

**Further counterexamples.** Configurations that refute other lines of the
repository, or the same one in another way. They are run by hand, with
`tlc -config <file> <module>`, and are not among the runs of `PROJECT.json`.

| Configuration | Module | Property | Line | TLC shows |
|---|---|---|---|---|
| `SnapshotShadowed.cfg` | `MCReturnStakes` | `SnapshotPopulated` | `services/server.go:81`, "populate kvstore for vcp/gcp/eenp stakes having withdrawn:true" | without any failure, a guardian or edge node stake that shares its return height with an earlier row is lost |
| `SnapshotUnwritten.cfg` | `MCReturnStakes` | `SnapshotPopulated` | the same | a write of the first start fails and the adaptor serves all the same |
| `FailedRead.cfg` | `MCReturnStakes` | `SettledIsRecorded` | `common/utils.go:948`, "store tx in db for later processing" | a failing read makes a handler overwrite recorded withdrawals |
| `BalanceOfOrphan.cfg` | `MCAccount` | `AtomicBalance` | `README.md:17`, "Atomic balance lookups" | asked by the hash of a block off the chain, the answer names it with the balance of the chain |
| `BalanceOfGenesis.cfg` | `MCAccount` | `AtomicBalance` | the same | the balance at block 0 is the latest one |
| `BalanceOfNoBlock.cfg` | `MCAccount` | `AtomicBalance` | the same | after a failed status call the answer names a block that does not exist |
| `FeeWithinMax.cfg` | `MCConstruction` | `FeeWithinMax` | `theta.ros:56`, `max_fee = "300000000000000000"` | the suggested fee is near 2^64 although the client named one |
| `AllTransactions.cfg` | `Endpoints` | `AllTransactions` | `README.md:18`, "access to all transaction traces" | an executed withdrawal cannot be fetched: a panic |
| `StatusDeclared.cfg` | `Endpoints` | `StatusDeclared` | `README.md:57`, "All Data APIs specified in ..." | an executed transaction is fetched in a status that `/network/options` does not declare |
| `ListedDeclared.cfg` | `Endpoints` | `ListedDeclared` | the same | a listed transaction is executed before it is fetched, and its status is undeclared |
| `OfflineStart.cfg` | `Endpoints` | `OfflineStart` | `common/config.go:35`, the mode "determines if the implementation is permitted to make outbound connections" | an offline adaptor calls the node when it starts |
| `OfflineRequests.cfg` | `Endpoints` | `OfflineRequests` | the same | an offline adaptor calls the node for `/mempool/transaction` |
| `RequestsTimeOut.cfg` | `Endpoints` | `RequestsTimeOut` | `common/config.go:24`, "CfgRPCTimeoutSecs set a timeout for RPC" | a call that the node never answers holds a request forever |

Two more departures
from what one might expect are not contradicted by any line of the repository and
are exceptions within passing properties: a stake withdrawn in the snapshot block
itself is reported twice if clients ask for that block (`NoDoubleEntry`); a block
asked for as an orphan leaves its withdrawals at a height where the ledger returns
nothing (`ReturnsAreDue`). Neither property speaks of entries that are missing:
that is what `ServedIsRecorded`, `SettledIsRecorded` and `SnapshotPopulated` are for.

**Bounds and why they are enough.** `LockPeriod` is 2 (3 in `syncer`): the cases are
that a return falls into a served block, that a block is both one with
withdrawals and one with returns, and that returns of the snapshot fall before
and among served blocks; each happens. The two writers of a key differ in the
block of the withdrawal, so three withdrawals in one block (needed to lose an
entry to a retry) and one in the next are enough. `MaxFaults` 2 or 3 allows a
failure during the recovery from another. Two handlers are what it takes to
interleave a read and a write; a third adds no new pair. The stakes of a
configuration are chosen so that snapshot stakes share return heights within and
across pools. Handlers are interchangeable, which `any_client` uses as symmetry
(it checks only invariants), and so are the clients of `construction`. In `operations` the transactions are all those over
the given accounts and coins, so nothing but the number of inputs is bounded.
`Account` uses one handler: handlers share no state, only the node's progress,
which happens between any two steps. The same holds of `endpoints`, where the kind
of the transaction, the mode and whether the node keeps balance changes are
chosen in the initial state, and where one transaction is enough since the
handlers look at one. In `construction` two clients are what it takes for one to
overtake the other between metadata and submit and for two messages to collide;
`TwoTo64` is 256, with fees on both sides of half of it; the requests cover each
branch of the handlers, operations in several orders, fees of 0, below and above
the node's, amounts that do not add up or exceed the funds, and each mistake. Each
of the six causes of `RefusedForCause` is met: the property fails without it.

**Deadlock** is not checked in the runs of the indexer, which stops when it has
all blocks, in `operations`, where a behaviour is one transaction, in
`construction`, where clients are done after one request, and in `endpoints`,
where the process may exit.

**Fairness** (`FairSyncSpec`, run `syncer_live`): weak fairness of the start-up,
of each handler and of the indexer's next request per block. The first two are
goroutines that never wait for each other: no lock is taken, every call either
returns or fails. The third is the indexer's retry loop. No failure is fair, and
failures are bounded by `MaxFaults`, so the run says that the indexer gets
through once failures stop. Crashes and failed opens are not among them here:
nothing in the adaptor restarts it, and with a nil handle every block panics
until somebody does.

`FairSpec` of `Endpoints` (`RequestsTimeOut.cfg`) has weak fairness of each handler:
once a call to the node has returned, the goroutine goes on. A call that hangs is
not among its steps, and since nothing sets a timeout no other step ends it.
Requests, failures, interrupts and the node's progress are not fair. `FairLifeSpec` has weak fairness of the two goroutines;
the violation of `ForcedShutdown` is a process in which every goroutine has done
all it can.

## Proofs

Every safety property that a passing run checks is also a theorem, for all
values of the constants that satisfy the assumptions of its module: any chain,
snapshot, transaction and request, any number of handlers or clients, and any
set and number of failures unless a hypothesis says otherwise. The assumptions
are named (`...Assumption`) and stand next to the constants; TLC evaluates them
in every run.

**`ReturnStakesProofs`**

- `TypeCorrect`: `Spec => []TypeOK`. `TypeOK` is inductive. What needs care is
  that keys stay in range (`WithdrawKey` of a served block, `SnapshotKey` of a
  map key that is not empty) and that lists are lists of entries after `AddOnce`
  and `GrowMap`.
- `ReturnsDue`: `Spec => []ReturnsAreDue`. The invariant is not inductive: a list
  in the hands of a handler, or in the map of the first start, reaches the
  database later. `DueInv` adds `ListsAreDue` (a handler's list is due at
  `WithdrawKey` of its block) and `MapIsDue` (a list of the map is due one after
  its `ReturnHeight`). `AddDue` says that `AddOnce` preserves it; `TxEntryDue` and
  `SnapshotEntryDue` are the two ways of computing the return height, and where
  they are shown to agree.
- `NoDoubles`: `Spec => []NoDoubleEntry`. `ParseTx` compares hashes and not stakes,
  so the invariant must say under which hashes a stake can be listed: `Clean` adds
  to `NoRepeat` that each entry has the hash of its transaction or is of a
  stake withdrawn before or at the snapshot. It is carried by `StoredClean`,
  `ListsClean` and `MapClean`, the last of which also says that the map holds
  stakes of rows already scanned, each stake having one row.

The assumptions are those on the chain (a block holds the withdrawals of its
height, each once), on orphans (what an orphaned block withdraws is not
withdrawn earlier on the chain), on the snapshot (each stake once, in the order of the loops)
and on failures (`MaxFaults` is a number).

**`SnapshotProofs`**: `SnapshotKept`, `Spec => []SnapshotKeepsFirst`. The property
speaks of a process that serves; the invariant follows a row through the start.
`Placed` says where the stake of a kept row is in each phase (map, map or
database, database and every list about to be put over it), `MapFollowsScan` that
the map has a list for exactly the return heights met so far, which is what
decides whether a guardian's row is kept, and `Legit` that nothing else gets into
a list. `Placed` holds while nothing has failed, the other parts always.

**`BlockSyncerProofs`**: the indexer and the adaptor together.

- `ServedBlocksAreRecorded` (`ServedIsRecorded`) and `RecordedIsForever`
  (`RecordedForever`). Get, append and Put are three steps without a lock, so the
  invariant is about exclusion: `Alone`, no two handlers work on the same block;
  `ListIsCurrent`, what a handler is about to put is what the database holds now,
  plus its entry; `Working`, the withdrawals it has passed are recorded; and
  `FreshDatabase`, the first start writes only where nothing is.
- `ReportedReturns` (`ReturnsAreReported`): a block is answered after every block
  whose withdrawals return in it, since `Window <= LockPeriod`.
- `LedgerImplemented`: `SyncSpec => ImplementsLedger`. Only `Reply` changes what
  `StakeLedger` sees, and is its `Receive`; all other steps, the failing ones
  included, stutter.
- `IndexerIsClient`: a behaviour of `SyncSpec` is one of `Spec`, so the theorems of
  `ReturnStakes` hold of it, here `ReturnsAreDue`.

The first two assume `Reliable`: no failing database reads, no timeouts. This is
not for convenience. A failed read counts as "not there" and the list is
overwritten, and a request that timed out still writes next to its retry: the run
`timed_out_retry` is the counterexample. Crashes, restarts, failed opens, calls and
writes are allowed at any time. The next two assume `Truthful`, that is moreover
no orphaned blocks and a node that knows the stakes of its blocks: a withdrawal
whose stake the node does not know is stored with amount 0.
`IndexerIsClient` has no hypothesis.

**`AccountProofs`**: `BalanceIsOfItsBlock` and `CoinsAreNotOlder`. Between its two
calls a handler must remember that height and hash belong to one block, and that it
is a finalized one unless the client gave the hash (`HandlersKnow`); the node's
progress keeps both. What the answer says of a block off the chain or of block 0
is not part of the theorem: the configurations `BalanceOf*.cfg` refute it.

**`EndpointsProofs`**: `AnnouncedBlocksAreFinal`. `Listening` says that requests exist
only in a process that has got the chain id of its node, `InFlight` that the height
`/network/status` holds between its two calls is finalized or 0.

**`ConstructionProofs`**: `OperationsComeBack` (`BuiltAsAsked`) and
`RefusalsHaveCause` (`RefusedForCause`). The adaptor keeps nothing, so the
invariant is about what a client carries (`JobInv`): `Asked` and `Prepared` are what
preprocess and metadata have made sure of, `Carried` what the built transaction
has in common with the request, in its parties (`TransferOf`, `CallOf`), its gas
terms (`GasFrom`) and its signature. `NodeType` has the ledger behind the pool and
no account overdrawn, `LastAccepted` ties the
node's sequence numbers to the transactions it accepted, and `WasNext` says that a
number read earlier was the next one then. `UnacceptableHasCause` goes through the
conjuncts of `Acceptable` and finds the cause of each that fails.

**`OperationsProofs`**: `BalancesAddUp` (`BalancesUpToFees`), for transactions of any
size, of the six kinds in `Tracked`. The invariant
says only that the operations are those of the transaction's kind; the rest is
about the parsers. `BalancesAddUp` goes kind by kind: the amounts of a list of
pieces add up over concatenation and flattening (`WeighConcat`, `WeighFlatten`);
an input of a send is reported with the fee left out (`SendAmount`), so the sum is
off by the fees of all inputs, of which the last one is charged (`SendBalances`).

**`SumFacts`** has the lemmas on `SumFunction` and `FlattenSeq` of the community
modules. Both are recursive functions chosen by their equation. The lemmas show
that such a function exists, that any two agree, and from that how sums behave
when an element is removed. The library's induction theorems cannot be used by
the provers, as they take a predicate as a parameter; `AllNumbers` replaces them
by a set of numbers that contains 0 and is closed under successor, from the
least number outside it.

The inductive invariants were checked by TLC on the instances of the runs before
they were proved. Doing the proofs led to three
changes of the models: a `CASE` whose guards overlap (in `Endpoints` and in
`ChangesOf`) says nothing about which branch is taken, and is now an `IF`; the
sums of `Operations` are written with `SumFunction`; and `SelectSeq` gave way to
`FlattenSeq`. The behaviours are the same.

**Only model-checked.** `EverythingAnswered`: liveness under
fairness is beyond the prover. The properties of the violated runs and of the further
counterexamples are refuted, not proved.

## Not modelled

- `AssembleTx`, `TxType.String`, `IsSupportedConstructionType`, `GetTxOpType`,
  `LDBDatabase.Delete`, `Has`, `Close` and the iterators, `Node.Stop`: nothing that runs
  calls them.
- What the pools contain at the snapshot block is the node's affair; the model has
  the withdrawals of that block in them, the case in which they may be doubled.
- Configuration and flag parsing: constants, and the mode of `Endpoints`.
- Indices and related operations of the operations; what transactions outside
  `Tracked` do to balances.
- Loss of writes that the operating system had not put on the disk.
- JSON, RLP and hexadecimal encodings, big integer formatting, curve arithmetic,
  logging, versions. Type assertions on malformed JSON options (`signer.(string)`)
  panic in the handler like the panics that are modelled.
- `/network/options` says that the mempool is taken into account for coins while
  the asserter is told that it is not; requests that ask for it are refused by
  the library before a handler sees them.

## Plan

1. Done: `ReturnStakes`, `BlockSyncer`, `StakeLedger`, `Parsers`, `Operations`,
   `Account`, `Construction`, `Lifecycle`, `Endpoints`, and the theorems above.
2. Next, proofs:
   - action properties of single components that the runs do not ask for yet (for
     instance that only `/block` and the first start ever write the database);
   - a weaker form of `ServedIsRecorded` without `Reliable`: what is lost, when a
     read fails or a handler is abandoned, is lost from one key only.
