-------------------------- MODULE BlockSyncerProofs --------------------------
(* Theorems about BlockSyncer, for every chain, snapshot, number of handlers *)
(* and window of the indexer, with crashes, failed calls and failed writes   *)
(* at any time.                                                              *)
EXTENDS BlockSyncer, ReturnStakesProofs

\* The database answers reads, and the indexer waits for its handlers.
Reliable == Faults \cap {"read", "timeout"} = {}

\* The node moreover knows the stakes of the blocks it has, and has one chain.
Truthful == Reliable /\ Faults \cap {"empty", "orphan"} = {}

-----------------------------------------------------------------------------
(* The inductive invariant of ServedIsRecorded. *)

\* The snapshot is copied into an empty database before any block is served: a
\* list of the map is put where nothing is.
FreshDatabase ==
    /\ open => dirExists
    /\ ~dirExists \/ phase = "scan" => db = NoEntries
    /\ ~dirExists \/ phase \in {"scan", "store"} => answered = {}
    /\ phase = "store" => \A rh \in Key :
          returnStakeTxsMap[rh] # KeyNotFound /\ SnapshotKey(rh) \in Key =>
              db[SnapshotKey(rh)] = KeyNotFound

Quiet == phase # "serving" => \A r \in Worker : req[r] = NoReq

\* The hash of a transaction stands for the stake it withdraws.
HashesMatch(list) ==
    \A n \in DOMAIN list, s \in Stake : list[n].hash = <<"tx", s>> => list[n].stake = s

StoredHashesMatch ==
    \A k \in Key : HashesMatch(db[k]) /\ HashesMatch(returnStakeTxsMap[k])

\* What a handler has read is still what the database holds.
ListIsCurrent(r) ==
    LET h == req[r].h
        i == req[r].i
    IN  /\ i \in DOMAIN BlockTxs[h]
        /\ \E amount \in Nat :
              req[r].list = AddOnce(db[WithdrawKey(h)], TxEntry(BlockTxs[h][i], amount))

\* A handler works on a block that is missing, whose older blocks are answered,
\* and has recorded the withdrawals it has passed.
Working(r) ==
    /\ req[r].pc \in {"tx", "put"} /\ req[r].live /\ ~req[r].orphan
    /\ req[r].h \notin answered
    /\ \A g \in Height : g <= req[r].h - Window => g \in answered
    /\ \A j \in DOMAIN BlockTxs[req[r].h] : j < req[r].i => Recorded(BlockTxs[req[r].h][j])
    /\ req[r].pc = "put" => open /\ ListIsCurrent(r)

HandlersWork == \A r \in Worker : req[r] = NoReq \/ Working(r)

\* No two handlers work on the same block, so no two write the same key.
Alone == \A q, r \in Worker : q # r /\ req[q] # NoReq /\ req[r] # NoReq => req[q].h # req[r].h

SyncParts ==
    /\ FreshDatabase /\ Quiet /\ StoredHashesMatch
    /\ HandlersWork /\ Alone /\ ServedIsRecorded
SyncInv == TypeOK /\ SyncParts

-----------------------------------------------------------------------------
(* Lemmas. *)

\* An indexer asks for blocks as any client does.
LEMMA SyncIsNext ==
    ASSUME [SyncNext]_vars
    PROVE  [Next]_vars
BY DEF SyncNext, Next, SyncRequest, SyncRequestFails

\* The keys a handler reads and writes are keys of the database.
LEMMA Keys ==
    ASSUME NEW h \in Height
    PROVE  h \in Key /\ WithdrawKey(h) \in Key /\ WithdrawKey(h) = h + LockPeriod
BY ChainAssumption DEF Height, Key, Never, WithdrawKey

\* Adding a withdrawal to a list keeps what is there and the list has the stake,
\* also when its hash is found and nothing is added.
LEMMA AddOnceHolds ==
    ASSUME NEW list \in ReturnStakeTxs, NEW s \in Stake, NEW amount \in Nat, HashesMatch(list)
    PROVE  LET new == AddOnce(list, TxEntry(s, amount))
           IN  /\ new \in ReturnStakeTxs
               /\ \A t : Holds(list, t) => Holds(new, t)
               /\ Holds(new, s)
               /\ HashesMatch(new)
<1> DEFINE e == TxEntry(s, amount)
           app == Append(list, e)
<1>1. e \in ReturnStakeTx /\ e.hash = <<"tx", s>> /\ e.stake = s
  BY EntryTypes DEF TxEntry
<1>2. AddOnce(list, e) \in ReturnStakeTxs
  BY <1>1, AddOnceType
<1>3. CASE \E n \in DOMAIN list : list[n].hash = e.hash
  BY <1>1, <1>2, <1>3 DEF AddOnce, Holds, HashesMatch
<1>4. CASE ~\E n \in DOMAIN list : list[n].hash = e.hash
  <2>1. AddOnce(list, e) = app
    BY <1>4 DEF AddOnce
  <2>2. /\ Len(list) \in Nat /\ DOMAIN list = 1..Len(list)
        /\ DOMAIN app = 1..(Len(list) + 1)
        /\ \A n \in 1..Len(list) : app[n] = list[n]
        /\ app[Len(list) + 1] = e
    BY <1>1, AppendProperties, LenProperties DEF ReturnStakeTxs
  <2> HIDE DEF app, e
  <2>3. \A n \in DOMAIN app : n \in DOMAIN list \/ n = Len(list) + 1
    BY <2>2
  <2>4. \A n \in DOMAIN list : n \in DOMAIN app /\ app[n] = list[n]
    BY <2>2
  <2>5. Len(list) + 1 \in DOMAIN app
    BY <2>2
  <2>6. HashesMatch(app)
    <3> SUFFICES ASSUME NEW n \in DOMAIN app, NEW t \in Stake, app[n].hash = <<"tx", t>>
                 PROVE  app[n].stake = t
      BY DEF HashesMatch
    <3>1. CASE n \in DOMAIN list
      BY <2>4, <3>1 DEF HashesMatch
    <3>2. CASE n = Len(list) + 1
      BY <1>1, <2>2, <3>2
    <3> QED BY <2>3, <3>1, <3>2
  <2>7. \A t : Holds(list, t) => Holds(app, t)
    BY <2>4 DEF Holds
  <2>8. Holds(app, s)
    BY <1>1, <2>2, <2>5 DEF Holds
  <2> QED BY <1>2, <2>1, <2>6, <2>7, <2>8 DEF e
<1> QED BY <1>3, <1>4

\* The empty list has no hashes and no stakes.
LEMMA NothingHeld == HashesMatch(KeyNotFound) /\ \A s : ~Holds(KeyNotFound, s)
BY DEF HashesMatch, Holds, KeyNotFound

\* What a snapshot entry is called is not the hash of a transaction.
LEMMA SnapshotHashesMatch ==
    ASSUME NEW list \in ReturnStakeTxs, HashesMatch(list), NEW j \in DOMAIN SnapshotRows
    PROVE  HashesMatch(Append(list, SnapshotEntry(SnapshotRows[j])))
<1> DEFINE e == SnapshotEntry(SnapshotRows[j])
           app == Append(list, e)
<1>1. e \in ReturnStakeTx
  BY EntryTypes
<1>2. \A s \in Stake : e.hash # <<"tx", s>>
  <2>1. SnapshotRows[j].stake \in Stake
    BY SnapshotRowType
  <2>2. Pool[SnapshotRows[j].stake] # "tx"
    BY <2>1, ChainAssumption DEF Pools
  <2> QED BY <2>2 DEF SnapshotEntry
<1> HIDE DEF e
<1>3. /\ Len(list) \in Nat /\ DOMAIN list = 1..Len(list)
      /\ DOMAIN app = 1..(Len(list) + 1)
      /\ \A n \in 1..Len(list) : app[n] = list[n]
      /\ app[Len(list) + 1] = e
  BY <1>1, AppendProperties, LenProperties DEF ReturnStakeTxs
<1> HIDE DEF app
<1>4. \A n \in DOMAIN app : n \in DOMAIN list \/ n = Len(list) + 1
  BY <1>3
<1> QED BY <1>2, <1>3, <1>4 DEF HashesMatch, e, app

\* A stake of a block is recorded under the key that its handler writes.
LEMMA RecordedKey ==
    ASSUME NEW h \in Height, NEW j \in DOMAIN BlockTxs[h]
    PROVE  /\ BlockTxs[h][j] \in Stake
           /\ WithdrawnAt[BlockTxs[h][j]] = h
           /\ Recorded(BlockTxs[h][j]) <=> Holds(db[WithdrawKey(h)], BlockTxs[h][j])
<1>1. BlockTxs[h] \in Seq(Stake)
  BY BlocksAssumption
<1>2. BlockTxs[h][j] \in Stake
  BY <1>1, ElementOfSeq, LenProperties
<1> QED BY <1>2, BlocksAssumption DEF Recorded, WithdrawKey

\* A handler, as the invariant knows it.
LEMMA WorkingShape ==
    ASSUME SyncInv, NEW r \in Worker, req[r].pc # "idle"
    PROVE  /\ req[r] # NoReq /\ Working(r)
           /\ req[r].h \in Height /\ req[r].i \in Nat \ {0} /\ req[r] \in ReqType
           /\ phase = "serving"
           /\ RequestTxs(r) = BlockTxs[req[r].h]
           /\ BlockTxs[req[r].h] \in Seq(Stake)
           /\ AtTx(r) => /\ req[r].i \in DOMAIN BlockTxs[req[r].h]
                         /\ CurrentStake(r) = BlockTxs[req[r].h][req[r].i]
                         /\ CurrentStake(r) \in Stake
           /\ AtEnd(r) => \A j \in DOMAIN BlockTxs[req[r].h] : Recorded(BlockTxs[req[r].h][j])
<1>1. req[r] # NoReq
  BY DEF NoReq
<1>2. Working(r)
  BY <1>1 DEF SyncInv, SyncParts, HandlersWork
<1>3. req[r] \in ReqType /\ req[r].h \in Height /\ req[r].i \in Nat \ {0}
  BY DEF SyncInv, TypeOK, ReqType
<1>4. phase = "serving"
  BY <1>1 DEF SyncInv, SyncParts, Quiet
<1>5. RequestTxs(r) = BlockTxs[req[r].h]
  BY <1>2 DEF Working, RequestTxs
<1>6. BlockTxs[req[r].h] \in Seq(Stake)
  BY <1>3, BlocksAssumption
<1>7. DOMAIN BlockTxs[req[r].h] = 1..Len(BlockTxs[req[r].h]) /\ Len(BlockTxs[req[r].h]) \in Nat
  BY <1>6, LenProperties
<1>8. ASSUME AtTx(r)
      PROVE  /\ req[r].i \in DOMAIN BlockTxs[req[r].h]
             /\ CurrentStake(r) = BlockTxs[req[r].h][req[r].i]
             /\ CurrentStake(r) \in Stake
  BY <1>3, <1>5, <1>7, <1>8, CurrentStakeType DEF AtTx, CurrentStake, SyncInv
<1>9. ASSUME AtEnd(r)
      PROVE  \A j \in DOMAIN BlockTxs[req[r].h] : Recorded(BlockTxs[req[r].h][j])
  BY <1>2, <1>3, <1>5, <1>7, <1>9 DEF AtEnd, Working
<1> QED BY <1>1, <1>2, <1>3, <1>4, <1>5, <1>6, <1>8, <1>9

-----------------------------------------------------------------------------
(* The invariant is inductive: one lemma per kind of step. *)

\* A step that writes nothing, answers nothing and only ends handlers.
LEMMA QuietStep ==
    ASSUME SyncInv, db' = db, answered' = answered,
           \A r \in Worker : req'[r] = req[r] \/ req'[r] = NoReq,
           open' = open \/ \A r \in Worker : req'[r] = NoReq,
           \A k \in Key : HashesMatch(returnStakeTxsMap'[k]),
           FreshDatabase', Quiet'
    PROVE  SyncParts'
<1>1. \A s : Recorded(s)' <=> Recorded(s)
  BY DEF Recorded, Holds
<1>2. ServedIsRecorded'
  BY <1>1 DEF SyncInv, SyncParts, ServedIsRecorded, Recorded, Holds
<1>3. StoredHashesMatch'
  BY DEF SyncInv, SyncParts, StoredHashesMatch, HashesMatch
<1>4. HandlersWork'
  <2> SUFFICES ASSUME NEW r \in Worker, req'[r] # NoReq
               PROVE  Working(r)'
    BY DEF HandlersWork, NoReq
  <2>1. req'[r] = req[r] /\ open' = open
    OBVIOUS
  <2>2. Working(r)
    BY <2>1 DEF SyncInv, SyncParts, HandlersWork
  <2> QED BY <2>1, <2>2 DEF Working, ListIsCurrent, Recorded, Holds
<1>5. Alone'
  BY DEF SyncInv, SyncParts, Alone, NoReq
<1> QED BY <1>2, <1>3, <1>4, <1>5 DEF SyncParts

\* The start-up, and its failures.
LEMMA BootStep ==
    ASSUME SyncInv, Boot
    PROVE  SyncParts'
<1>0. /\ TypeOK /\ FreshDatabase /\ Quiet /\ HandlersWork
      /\ \A k \in Key : HashesMatch(returnStakeTxsMap[k])
  BY DEF SyncInv, SyncParts, StoredHashesMatch
<1> USE <1>0 DEF history, volatile
<1>1. CASE Start
  <2>1. phase = "down" /\ db' = db /\ answered' = answered /\ req' = req /\ dirExists'
        /\ returnStakeTxsMap' = returnStakeTxsMap
        /\ phase' = IF dirExists THEN "serving" ELSE "scan"
    BY <1>1 DEF Start, StartWith
  <2>2. \A r \in Worker : req'[r] = NoReq
    BY <2>1 DEF Quiet
  <2>3. FreshDatabase' /\ Quiet'
    BY <2>1, <2>2 DEF FreshDatabase, Quiet, TypeOK
  <2> QED BY <2>1, <2>2, <2>3, QuietStep
<1>2. CASE ScanRow
  <2>1. phase = "scan" /\ phase' = phase /\ db' = db /\ answered' = answered /\ req' = req
        /\ dirExists' = dirExists /\ open' = open /\ row \in DOMAIN SnapshotRows
    BY <1>2 DEF ScanRow
  <2>2. ASSUME NEW k \in Key
        PROVE  HashesMatch(returnStakeTxsMap'[k])
    <3>1. returnStakeTxsMap[k] \in ReturnStakeTxs /\ HashesMatch(returnStakeTxsMap[k])
      BY DEF TypeOK
    <3>2. HashesMatch(Append(returnStakeTxsMap[k], SnapshotEntry(SnapshotRows[row])))
      BY <2>1, <3>1, SnapshotHashesMatch
    <3>3. \/ returnStakeTxsMap'[k] = returnStakeTxsMap[k]
          \/ returnStakeTxsMap'[k] = Append(returnStakeTxsMap[k], SnapshotEntry(SnapshotRows[row]))
      BY <1>2 DEF ScanRow, GrowMap, TypeOK
    <3> QED BY <3>1, <3>2, <3>3
  <2>3. FreshDatabase' /\ Quiet'
    BY <2>1 DEF FreshDatabase, Quiet
  <2> QED BY <2>1, <2>2, <2>3, QuietStep
<1>3. CASE ScanDone
  <2>1. phase = "scan" /\ phase' = "store" /\ db' = db /\ answered' = answered /\ req' = req
        /\ dirExists' = dirExists /\ open' = open /\ returnStakeTxsMap' = returnStakeTxsMap
    BY <1>3 DEF ScanDone
  <2>2. FreshDatabase' /\ Quiet'
    BY <2>1 DEF FreshDatabase, Quiet, NoEntries
  <2> QED BY <2>1, <2>2, QuietStep
<1>4. ASSUME NEW rh \in Key, StorePut(rh)
      PROVE  SyncParts'
  <2>1. /\ phase = "store" /\ phase' = phase /\ open /\ open' = open /\ dirExists' = dirExists
        /\ answered' = answered /\ req' = req
        /\ returnStakeTxsMap[rh] # KeyNotFound
        /\ returnStakeTxsMap' = [returnStakeTxsMap EXCEPT ![rh] = KeyNotFound]
        /\ db' = [db EXCEPT ![SnapshotKey(rh)] = returnStakeTxsMap[rh]]
    BY <1>4 DEF StorePut, Visit
  <2>2. answered = {} /\ \A r \in Worker : req'[r] = NoReq
    BY <2>1 DEF FreshDatabase, Quiet
  <2>3. \A k \in Key : HashesMatch(db'[k]) /\ HashesMatch(returnStakeTxsMap'[k])
    BY <2>1, NothingHeld DEF SyncInv, SyncParts, StoredHashesMatch, TypeOK
  <2>4. \A k \in Key : returnStakeTxsMap'[k] # KeyNotFound /\ SnapshotKey(k) \in Key =>
            db'[SnapshotKey(k)] = KeyNotFound
    <3> SUFFICES ASSUME NEW k \in Key, returnStakeTxsMap'[k] # KeyNotFound, SnapshotKey(k) \in Key
                 PROVE  db'[SnapshotKey(k)] = KeyNotFound
      OBVIOUS
    <3>1. k # rh /\ returnStakeTxsMap[k] # KeyNotFound
      BY <2>1 DEF TypeOK
    <3>2. SnapshotKey(k) # SnapshotKey(rh)
      BY <3>1, ChainAssumption DEF SnapshotKey, Key
    <3> QED BY <2>1, <3>1, <3>2 DEF FreshDatabase, TypeOK
  <2>5. FreshDatabase'
    BY <2>1, <2>2, <2>4 DEF FreshDatabase
  <2>6. Quiet' /\ Alone' /\ HandlersWork'
    BY <2>2 DEF Quiet, Alone, HandlersWork, NoReq
  <2>7. StoredHashesMatch' /\ ServedIsRecorded'
    BY <2>1, <2>2, <2>3 DEF StoredHashesMatch, HashesMatch, ServedIsRecorded
  <2> QED BY <2>5, <2>6, <2>7 DEF SyncParts
<1>5. CASE StoreDone
  <2>1. phase = "store" /\ phase' = "serving" /\ db' = db /\ answered' = answered /\ req' = req
        /\ dirExists' = dirExists /\ open' = open /\ returnStakeTxsMap' = returnStakeTxsMap
    BY <1>5 DEF StoreDone
  <2>2. FreshDatabase' /\ Quiet'
    BY <2>1 DEF FreshDatabase, Quiet
  <2> QED BY <2>1, <2>2, QuietStep
<1> QED BY <1>1, <1>2, <1>3, <1>4, <1>5 DEF Boot

\* A start that fails.
LEMMA BootFailsStep ==
    ASSUME SyncInv, BootFails
    PROVE  SyncParts'
<1>0. /\ TypeOK /\ FreshDatabase /\ Quiet /\ HandlersWork
      /\ \A k \in Key : HashesMatch(returnStakeTxsMap[k])
  BY DEF SyncInv, SyncParts, StoredHashesMatch
<1> USE <1>0 DEF history, volatile
<1>1. \A k \in Key : HashesMatch(NoEntries[k]) /\ NoEntries[k] = KeyNotFound
  BY NothingHeld DEF NoEntries
<1>2. CASE StartOpenFails
  <2>0. dirExists => dirExists'
    BY <1>2, Zenon DEF StartOpenFails
  <2>1. phase = "down" /\ db' = db /\ answered' = answered /\ req' = req /\ ~open'
        /\ returnStakeTxsMap' = returnStakeTxsMap
        /\ phase' = IF dirExists THEN "serving" ELSE "scan"
    BY <1>2 DEF StartOpenFails, StartWith
  <2>2. \A r \in Worker : req'[r] = NoReq
    BY <2>1 DEF Quiet
  <2>3. FreshDatabase' /\ Quiet'
    BY <2>0, <2>1, <2>2 DEF FreshDatabase, Quiet, TypeOK
  <2> QED BY <2>1, <2>2, <2>3, QuietStep
<1>3. CASE ScanFails
  <2>1. phase = "scan" /\ phase' = "serving" /\ db' = db /\ answered' = answered /\ req' = req
        /\ dirExists' = dirExists /\ open' = open /\ returnStakeTxsMap' = NoEntries
    BY <1>3 DEF ScanFails
  <2>2. FreshDatabase' /\ Quiet'
    BY <2>1 DEF FreshDatabase, Quiet
  <2> QED BY <1>1, <2>1, <2>2, QuietStep
<1>4. ASSUME NEW rh \in Key, StorePutFails(rh)
      PROVE  SyncParts'
  <2>1. phase = "store" /\ phase' = phase /\ db' = db /\ answered' = answered /\ req' = req
        /\ dirExists' = dirExists /\ open' = open
        /\ returnStakeTxsMap' = [returnStakeTxsMap EXCEPT ![rh] = KeyNotFound]
    BY <1>4 DEF StorePutFails, Visit
  <2>2. \A k \in Key : returnStakeTxsMap'[k] \in {returnStakeTxsMap[k], KeyNotFound}
    BY <2>1 DEF TypeOK
  <2>3. FreshDatabase' /\ Quiet'
    BY <2>1, <2>2 DEF FreshDatabase, Quiet
  <2> QED BY <2>1, <2>2, <2>3, NothingHeld, QuietStep
<1>5. CASE StoreNilHandle \/ Crash
  <2>1. phase' = "down" /\ db' = db /\ answered' = answered /\ dirExists' = dirExists /\ ~open'
        /\ returnStakeTxsMap' = NoEntries /\ \A r \in Worker : req'[r] = NoReq
    BY <1>5 DEF StoreNilHandle, Crash, Die
  <2>2. FreshDatabase' /\ Quiet'
    BY <2>1 DEF FreshDatabase, Quiet, NoReq
  <2> QED BY <1>1, <2>1, <2>2, QuietStep
<1> QED BY <1>2, <1>3, <1>4, <1>5 DEF BootFails

\* A handler reads the list that it is going to write.
LEMMA RememberStep ==
    ASSUME SyncInv, NEW r \in Worker, NEW amount \in Nat,
           Remember(r, amount, db[WithdrawKey(req[r].h)])
    PROVE  SyncParts'
<1> DEFINE h == req[r].h
           i == req[r].i
           list == AddOnce(db[WithdrawKey(h)], TxEntry(CurrentStake(r), amount))
           new == [req[r] EXCEPT !.pc = "put", !.list = list]
<1>1. /\ AtTx(r) /\ open /\ UNCHANGED <<server, db, history>>
      /\ req' = [req EXCEPT ![r].pc = "put", ![r].list = list]
  BY DEF Remember
<1>2. /\ req[r] # NoReq /\ Working(r) /\ phase = "serving" /\ req[r] \in ReqType
      /\ i \in DOMAIN BlockTxs[h] /\ CurrentStake(r) = BlockTxs[h][i]
  BY <1>1, WorkingShape DEF AtTx
<1>3. /\ db' = db /\ answered' = answered /\ open' = open /\ phase' = phase
      /\ returnStakeTxsMap' = returnStakeTxsMap /\ dirExists' = dirExists
  BY <1>1 DEF server, history
<1>4. req' = [req EXCEPT ![r] = new]
  BY <1>1 DEF SyncInv, TypeOK
<1>5. /\ new.pc = "put" /\ new.h = h /\ new.i = i /\ new.live = req[r].live
      /\ new.orphan = req[r].orphan /\ new.list = list
  BY <1>2 DEF ReqType
<1>6. req'[r] = new /\ \A q \in Worker : q # r => req'[q] = req[q]
  BY <1>4 DEF SyncInv, TypeOK
<1> HIDE DEF new
<1>7. Working(r)'
  <2>1. ListIsCurrent(r)'
    BY <1>2, <1>3, <1>5, <1>6 DEF ListIsCurrent
  <2>2. \A s : Recorded(s) => Recorded(s)'
    BY <1>3 DEF Recorded
  <2>3. (\A j \in DOMAIN BlockTxs[req[r].h] : j < req[r].i => Recorded(BlockTxs[req[r].h][j]))'
    BY <1>2, <1>5, <1>6, <2>2 DEF Working
  <2>4. open'
    BY <1>1, <1>3
  <2>5. (req[r].pc \in {"tx", "put"} /\ req[r].live /\ ~req[r].orphan)'
    BY <1>2, <1>5, <1>6 DEF Working
  <2>6. (req[r].h \notin answered /\ \A g \in Height : g <= req[r].h - Window => g \in answered)'
    BY <1>2, <1>3, <1>5, <1>6 DEF Working
  <2> QED BY <2>1, <2>3, <2>4, <2>5, <2>6 DEF Working
<1>8. HandlersWork'
  <2> SUFFICES ASSUME NEW q \in Worker, q # r, req'[q] # NoReq
               PROVE  Working(q)'
    BY <1>7 DEF HandlersWork, NoReq
  <2>1. Working(q)
    BY <1>6 DEF SyncInv, SyncParts, HandlersWork
  <2>2. req'[q] = req[q]
    BY <1>6
  <2>3. \A s : Recorded(s) => Recorded(s)'
    BY <1>3 DEF Recorded
  <2>4. ListIsCurrent(q) => ListIsCurrent(q)'
    BY <1>3, <2>2 DEF ListIsCurrent
  <2>5. (\A j \in DOMAIN BlockTxs[req[q].h] : j < req[q].i => Recorded(BlockTxs[req[q].h][j]))'
    BY <2>1, <2>2, <2>3 DEF Working
  <2>6. (req[q].pc \in {"tx", "put"} /\ req[q].live /\ ~req[q].orphan)'
    BY <2>1, <2>2 DEF Working
  <2>7. (req[q].h \notin answered /\ \A g \in Height : g <= req[q].h - Window => g \in answered)'
    BY <1>3, <2>1, <2>2 DEF Working
  <2>8. (req[q].pc = "put" => open /\ ListIsCurrent(q))'
    BY <1>3, <2>1, <2>2, <2>4 DEF Working
  <2> QED BY <2>5, <2>6, <2>7, <2>8 DEF Working
<1>9. Alone'
  BY <1>2, <1>5, <1>6 DEF SyncInv, SyncParts, Alone, NoReq
<1>10. FreshDatabase' /\ Quiet' /\ StoredHashesMatch' /\ ServedIsRecorded'
  BY <1>2, <1>3 DEF SyncInv, SyncParts, FreshDatabase, Quiet, StoredHashesMatch, HashesMatch,
                    ServedIsRecorded, Recorded, Holds
<1> QED BY <1>8, <1>9, <1>10 DEF SyncParts

\* A Put loses nothing, since the list is that of the database with one stake
\* more, and it records the stake that the handler is at.
LEMMA PutEffect ==
    ASSUME SyncInv, NEW r \in Worker, PutReturns(r)
    PROVE  /\ \A k \in Key : k # WithdrawKey(req[r].h) => db'[k] = db[k]
           /\ \A k \in Key : \A s : Holds(db[k], s) => Holds(db'[k], s)
           /\ \A k \in Key : HashesMatch(db'[k])
           /\ Holds(db'[WithdrawKey(req[r].h)], BlockTxs[req[r].h][req[r].i])
<1> DEFINE h == req[r].h
           i == req[r].i
           key == WithdrawKey(h)
<1>1. req[r].pc = "put" /\ db' = [db EXCEPT ![key] = req[r].list]
  BY DEF PutReturns
<1>2. Working(r) /\ h \in Height /\ i \in DOMAIN BlockTxs[h]
  BY <1>1, WorkingShape DEF Working, ListIsCurrent
<1>3. key \in Key /\ db \in [Key -> ReturnStakeTxs] /\ \A k \in Key : HashesMatch(db[k])
  BY <1>2, Keys DEF SyncInv, TypeOK, SyncParts, StoredHashesMatch
<1>4. BlockTxs[h][i] \in Stake
  BY <1>2, RecordedKey
<1>5. PICK amount \in Nat : req[r].list = AddOnce(db[key], TxEntry(BlockTxs[h][i], amount))
  BY <1>1, <1>2 DEF Working, ListIsCurrent
<1>6. db[key] \in ReturnStakeTxs /\ HashesMatch(db[key])
  BY <1>3
<1>7. /\ \A t : Holds(db[key], t) => Holds(req[r].list, t)
      /\ Holds(req[r].list, BlockTxs[h][i])
      /\ HashesMatch(req[r].list)
  BY <1>4, <1>5, <1>6, AddOnceHolds
<1>8. db'[key] = req[r].list /\ \A k \in Key : k # key => db'[k] = db[k]
  BY <1>1, <1>3
<1> HIDE DEF key, h, i
<1>9. \A k \in Key : \A s : Holds(db[k], s) => Holds(db'[k], s)
  BY <1>7, <1>8
<1>10. \A k \in Key : HashesMatch(db'[k])
  BY <1>3, <1>7, <1>8
<1> QED BY <1>7, <1>8, <1>9, <1>10 DEF key, h, i

\* The stakes of the chain are recorded under keys of the database.
LEMMA RecordedStays ==
    ASSUME \A k \in Key : \A s : Holds(db[k], s) => Holds(db'[k], s)
    PROVE  \A s \in Stake : Recorded(s) => Recorded(s)'
<1>1. \A s \in Stake : WithdrawnAt[s] + LockPeriod \in Key
  BY ChainAssumption DEF Key, Never
<1> QED BY <1>1 DEF Recorded, Holds

\* A handler stores the entries of a height.
LEMMA PutStep ==
    ASSUME SyncInv, NEW r \in Worker, PutReturns(r)
    PROVE  SyncParts'
<1> DEFINE h == req[r].h
           i == req[r].i
           key == WithdrawKey(h)
           new == [req[r] EXCEPT !.pc = "tx", !.i = i + 1]
<1>1. /\ req[r].pc = "put" /\ UNCHANGED <<server, history>>
      /\ req' = [req EXCEPT ![r].pc = "tx", ![r].i = @ + 1]
  BY DEF PutReturns
<1>2. /\ req[r] # NoReq /\ Working(r) /\ phase = "serving" /\ req[r] \in ReqType
      /\ h \in Height /\ i \in Nat \ {0} /\ i \in DOMAIN BlockTxs[h] /\ open
      /\ BlockTxs[h] \in Seq(Stake)
  BY <1>1, WorkingShape DEF Working, ListIsCurrent
<1>3. /\ answered' = answered /\ open' = open /\ phase' = phase
      /\ returnStakeTxsMap' = returnStakeTxsMap /\ dirExists' = dirExists
  BY <1>1 DEF server, history
<1>4. req' = [req EXCEPT ![r] = new]
  BY <1>1 DEF SyncInv, TypeOK
<1>5. /\ new.pc = "tx" /\ new.h = h /\ new.i = i + 1 /\ new.live = req[r].live
      /\ new.orphan = req[r].orphan
  BY <1>2 DEF ReqType
<1>6. req'[r] = new /\ \A q \in Worker : q # r => req'[q] = req[q]
  BY <1>4 DEF SyncInv, TypeOK
<1> HIDE DEF new
<1>7. \A s \in Stake : Recorded(s) => Recorded(s)'
  BY PutEffect, RecordedStays
<1>8. \A g \in Height : \A j \in DOMAIN BlockTxs[g] : BlockTxs[g][j] \in Stake
  BY RecordedKey
<1>9. \A s \in Stake : s = BlockTxs[h][i] => Recorded(s)'
  <2>1. WithdrawnAt[BlockTxs[h][i]] + LockPeriod = key
    BY <1>2, RecordedKey DEF WithdrawKey
  <2>2. Holds(db'[key], BlockTxs[h][i])
    BY PutEffect
  <2> QED BY <2>1, <2>2 DEF Recorded, Holds
<1>10. Working(r)'
  <2>1. ASSUME NEW j \in DOMAIN BlockTxs[h], j < i + 1
        PROVE  \A s \in Stake : s = BlockTxs[h][j] => Recorded(s)'
    <3>1. j \in Nat
      BY <1>2, LenProperties
    <3>2. CASE j = i
      BY <1>9, <3>2
    <3>3. CASE j < i
      BY <1>2, <1>7, <1>8, <3>3 DEF Working
    <3> QED BY <1>2, <2>1, <3>1, <3>2, <3>3
  <2>2. (\A j \in DOMAIN BlockTxs[req[r].h] : j < req[r].i => Recorded(BlockTxs[req[r].h][j]))'
    BY <1>2, <1>5, <1>6, <1>8, <2>1
  <2> QED BY <1>2, <1>3, <1>5, <1>6, <2>2 DEF Working
<1>11. ASSUME NEW q \in Worker, q # r, req[q] # NoReq
       PROVE  Working(q)'
  <2>1. Working(q) /\ req[q].h \in Height /\ req[q].h # h
    BY <1>2, <1>11 DEF SyncInv, SyncParts, HandlersWork, Alone, TypeOK, ReqType
  <2>2. WithdrawKey(req[q].h) # key /\ WithdrawKey(req[q].h) \in Key
    <3>1. h \in Nat /\ req[q].h \in Nat /\ LockPeriod \in Nat
      BY <1>2, <2>1, ChainAssumption DEF Height
    <3>2. WithdrawKey(req[q].h) # key
      BY <2>1, <3>1 DEF WithdrawKey
    <3> QED BY <2>1, <3>2, Keys
  <2>3. db'[WithdrawKey(req[q].h)] = db[WithdrawKey(req[q].h)]
    BY <2>2, PutEffect
  <2>4. req'[q] = req[q]
    BY <1>6, <1>11
  <2>5. (\A j \in DOMAIN BlockTxs[req[q].h] : j < req[q].i => Recorded(BlockTxs[req[q].h][j]))'
    BY <1>7, <1>8, <2>1, <2>4 DEF Working
  <2>6. req[q].pc = "put" => open' /\ ListIsCurrent(q)'
    BY <1>3, <2>1, <2>3, <2>4 DEF Working, ListIsCurrent
  <2> QED BY <1>3, <2>1, <2>4, <2>5, <2>6 DEF Working
<1>12. HandlersWork'
  BY <1>6, <1>10, <1>11 DEF HandlersWork, NoReq
<1>13. Alone'
  BY <1>2, <1>5, <1>6 DEF SyncInv, SyncParts, Alone, NoReq
<1>14. FreshDatabase' /\ Quiet'
  BY <1>2, <1>3 DEF SyncInv, SyncParts, FreshDatabase, Quiet
<1>15. StoredHashesMatch'
  BY <1>3, PutEffect DEF SyncInv, SyncParts, StoredHashesMatch, HashesMatch
<1>16. ServedIsRecorded'
  <2>1. \A g \in answered : g \in Height
    BY DEF SyncInv, TypeOK
  <2> QED BY <1>3, <1>7, <1>8, <2>1 DEF SyncInv, SyncParts, ServedIsRecorded, Recorded
<1> QED BY <1>12, <1>13, <1>14, <1>15, <1>16 DEF SyncParts

\* An answer is received when all withdrawals of the block are recorded.
LEMMA RespondStep ==
    ASSUME SyncInv, NEW r \in Worker, NEW returns, Respond(r, returns)
    PROVE  /\ SyncParts'
           /\ answered' = answered \cup {req[r].h}
           /\ reported' = [reported EXCEPT ![req[r].h] = returns]
<1> DEFINE h == req[r].h
<1>1. AtEnd(r) /\ open /\ req' = [req EXCEPT ![r] = NoReq] /\ UNCHANGED <<server, db>>
  BY DEF Respond
<1>2. /\ req[r] # NoReq /\ Working(r) /\ phase = "serving" /\ h \in Height
      /\ \A j \in DOMAIN BlockTxs[h] : Recorded(BlockTxs[h][j])
  BY <1>1, WorkingShape DEF AtEnd
<1>3. answered' = answered \cup {h} /\ reported' = [reported EXCEPT ![h] = returns]
  BY <1>2 DEF Respond, Working
<1>4. /\ db' = db /\ open' = open /\ phase' = phase
      /\ returnStakeTxsMap' = returnStakeTxsMap /\ dirExists' = dirExists
  BY <1>1 DEF server
<1>5. req'[r] = NoReq /\ \A q \in Worker : q # r => req'[q] = req[q]
  BY <1>1 DEF SyncInv, TypeOK
<1>6. \A s : Recorded(s) => Recorded(s)'
  BY <1>4 DEF Recorded
<1>7. ASSUME NEW q \in Worker, q # r, req[q] # NoReq
      PROVE  Working(q)'
  <2>1. Working(q) /\ req[q].h # h /\ req'[q] = req[q]
    BY <1>2, <1>5, <1>7 DEF SyncInv, SyncParts, HandlersWork, Alone
  <2>2. ListIsCurrent(q) => ListIsCurrent(q)'
    BY <1>4, <2>1 DEF ListIsCurrent
  <2>3. (\A j \in DOMAIN BlockTxs[req[q].h] : j < req[q].i => Recorded(BlockTxs[req[q].h][j]))'
    BY <1>6, <2>1 DEF Working
  <2> QED BY <1>3, <1>4, <2>1, <2>2, <2>3 DEF Working
<1>8. HandlersWork' /\ Alone'
  BY <1>5, <1>7 DEF SyncInv, SyncParts, HandlersWork, Alone, NoReq
<1>9. FreshDatabase'
  BY <1>1, <1>2, <1>4 DEF SyncInv, SyncParts, FreshDatabase
<1>10. Quiet' /\ StoredHashesMatch'
  BY <1>2, <1>4 DEF SyncInv, SyncParts, Quiet, StoredHashesMatch, HashesMatch
<1>11. ServedIsRecorded'
  BY <1>2, <1>3, <1>6 DEF SyncInv, SyncParts, ServedIsRecorded
<1> QED BY <1>3, <1>8, <1>9, <1>10, <1>11 DEF SyncParts

\* The indexer asks for a block that nobody works on, and not too far ahead.
LEMMA RequestStep ==
    ASSUME SyncInv, NEW r \in Worker, NEW h \in Height, SyncRequest(r, h)
    PROVE  SyncParts'
<1> DEFINE new == [NoReq EXCEPT !.pc = "tx", !.h = h, !.orphan = FALSE, !.live = TRUE]
<1>1. /\ MayAsk(h) /\ phase = "serving" /\ req[r].pc = "idle"
      /\ req' = [req EXCEPT ![r] = new] /\ UNCHANGED <<server, db, history>>
  BY DEF SyncRequest, BlockRequest, Accept
<1>2. /\ db' = db /\ answered' = answered /\ open' = open /\ phase' = phase
      /\ returnStakeTxsMap' = returnStakeTxsMap /\ dirExists' = dirExists
  BY <1>1 DEF server, history
<1>3. req'[r] = new /\ \A q \in Worker : q # r => req'[q] = req[q]
  BY <1>1 DEF SyncInv, TypeOK
<1>4. new.pc = "tx" /\ new.h = h /\ new.i = 1 /\ new.live /\ ~new.orphan
  BY DEF NoReq
<1> HIDE DEF new
<1>5. \A s : Recorded(s) => Recorded(s)'
  BY <1>2 DEF Recorded
<1>6. Working(r)'
  <2>1. ~\E j \in DOMAIN BlockTxs[h] : j < 1
    BY BlocksAssumption, LenProperties
  <2>2. (req[r].h \notin answered /\ \A g \in Height : g <= req[r].h - Window => g \in answered)'
    BY <1>1, <1>2, <1>3, <1>4 DEF MayAsk
  <2> QED BY <1>3, <1>4, <2>1, <2>2 DEF Working
<1>7. ASSUME NEW q \in Worker, q # r, req[q] # NoReq
      PROVE  Working(q)' /\ req[q].h # h
  <2>1. Working(q) /\ req'[q] = req[q]
    BY <1>3, <1>7 DEF SyncInv, SyncParts, HandlersWork
  <2>2. ListIsCurrent(q) => ListIsCurrent(q)'
    BY <1>2, <2>1 DEF ListIsCurrent
  <2>3. (\A j \in DOMAIN BlockTxs[req[q].h] : j < req[q].i => Recorded(BlockTxs[req[q].h][j]))'
    BY <1>5, <2>1 DEF Working
  <2>4. req[q].h # h
    BY <1>1, <2>1 DEF MayAsk, Working
  <2> QED BY <1>2, <2>1, <2>2, <2>3, <2>4 DEF Working
<1>8. HandlersWork'
  BY <1>3, <1>6, <1>7 DEF HandlersWork, NoReq
<1>9. Alone'
  <2> SUFFICES ASSUME NEW p \in Worker, NEW q \in Worker, p # q, req'[p] # NoReq, req'[q] # NoReq
               PROVE  req'[p].h # req'[q].h
    BY DEF Alone, NoReq
  <2>1. CASE p # r /\ q # r
    BY <1>3, <2>1 DEF SyncInv, SyncParts, Alone
  <2>2. CASE p = r
    BY <1>3, <1>4, <1>7, <2>2
  <2>3. CASE q = r
    BY <1>3, <1>4, <1>7, <2>3
  <2> QED BY <2>1, <2>2, <2>3
<1>10. FreshDatabase' /\ Quiet' /\ StoredHashesMatch'
  BY <1>1, <1>2 DEF SyncInv, SyncParts, FreshDatabase, Quiet, StoredHashesMatch, HashesMatch
<1>11. ServedIsRecorded'
  BY <1>2, <1>5 DEF SyncInv, SyncParts, ServedIsRecorded
<1> QED BY <1>8, <1>9, <1>10, <1>11 DEF SyncParts

\* A handler panics, or a request fails before it gets to the database.
LEMMA EndStep ==
    ASSUME SyncInv, NEW r \in Worker,
           Panic(r) \/ (phase = "serving" /\ UNCHANGED <<server, req, db, history>>)
    PROVE  SyncParts'
<1>1. /\ db' = db /\ answered' = answered /\ open' = open /\ phase' = phase
      /\ returnStakeTxsMap' = returnStakeTxsMap /\ dirExists' = dirExists
  BY DEF Panic, server, history
<1>2. \A q \in Worker : req'[q] = req[q] \/ req'[q] = NoReq
  BY DEF Panic, SyncInv, TypeOK
<1>3. FreshDatabase' /\ Quiet'
  BY <1>1, <1>2 DEF SyncInv, SyncParts, FreshDatabase, Quiet, NoReq
<1> QED BY <1>1, <1>2, <1>3, QuietStep DEF SyncInv, SyncParts, StoredHashesMatch

\* Every step of syncer and adaptor together.
LEMMA SyncStep ==
    ASSUME Reliable, SyncInv, [SyncNext]_vars
    PROVE  SyncInv'
<1>0. TypeOK /\ TypeOK'
  BY SyncIsNext, NextType DEF SyncInv
<1> SUFFICES SyncParts'
  BY <1>0 DEF SyncInv
<1>1. ASSUME NEW r \in Worker, Handle(r)
      PROVE  SyncParts'
  <2>1. CASE ReadReturns(r)
    BY <1>0, <2>1, RememberStep, StakeAmountsType DEF ReadReturns
  <2>2. CASE PutReturns(r)
    BY <2>2, PutStep
  <2>3. CASE Reply(r)
    BY <2>3, RespondStep DEF Reply
  <2>4. CASE PanicNilHandle(r)
    BY <2>4, EndStep DEF PanicNilHandle
  <2> QED BY <1>1, <2>1, <2>2, <2>3, <2>4 DEF Handle
<1>2. ASSUME NEW r \in Worker, HandleFails(r)
      PROVE  SyncParts'
  <2>1. ~TimeOut(r) /\ ~ReadReturnsGetFails(r) /\ ~ReplyGetFails(r)
    BY DEF Reliable, TimeOut, ReadReturnsGetFails, ReplyGetFails, Fault
  <2>2. CASE ReadReturnsNoStake(r)
    BY <2>2, RememberStep DEF ReadReturnsNoStake
  <2>3. CASE PanicNoStakeRPC(r) \/ PanicNilStake(r) \/ PanicPutFails(r)
    BY <2>3, EndStep DEF PanicNoStakeRPC, PanicNilStake, PanicPutFails
  <2> QED BY <1>2, <2>1, <2>2, <2>3 DEF HandleFails
<1>3. ASSUME NEW r \in Worker, NEW h \in Height, SyncRequestFails(r, h)
      PROVE  SyncParts'
  BY <1>3, EndStep DEF SyncRequestFails, BlockRequestFails
<1>4. CASE UNCHANGED vars
  BY <1>4 DEF vars, SyncInv, SyncParts, FreshDatabase, Quiet, StoredHashesMatch, HashesMatch,
              HandlersWork, Working, ListIsCurrent, Alone, ServedIsRecorded, Recorded, Holds
<1> QED BY <1>1, <1>2, <1>3, <1>4, BootStep, BootFailsStep, RequestStep DEF SyncNext, ServerStep

\* The initial state satisfies the invariant.
LEMMA SyncInit ==
    ASSUME Init
    PROVE  SyncInv
<1>1. TypeOK
  BY InitType
<1>2. FreshDatabase /\ Quiet /\ Alone /\ HandlersWork /\ ServedIsRecorded
  BY DEF Init, FreshDatabase, Quiet, Alone, HandlersWork, ServedIsRecorded
<1>3. StoredHashesMatch
  BY NothingHeld DEF Init, StoredHashesMatch, NoEntries
<1> QED BY <1>1, <1>2, <1>3 DEF SyncInv, SyncParts

\* The invariant holds in every state, if reads do not fail and the indexer waits.
THEOREM SyncInvariant ==
    ASSUME Reliable
    PROVE  SyncSpec => []SyncInv
<1>1. Init => SyncInv
  BY SyncInit
<1>2. SyncInv /\ [SyncNext]_vars => SyncInv'
  BY SyncStep
<1> QED BY <1>1, <1>2, PTL DEF SyncSpec

-----------------------------------------------------------------------------
(* What the indexer can rely on. *)

\* ParseTx has stored the withdrawals of every block that an indexer has
\* received, whatever crashes, panics and handlers of other blocks do.
THEOREM ServedBlocksAreRecorded ==
    ASSUME Reliable
    PROVE  SyncSpec => []ServedIsRecorded
<1>1. SyncInv => ServedIsRecorded
  BY DEF SyncInv, SyncParts
<1> QED BY <1>1, SyncInvariant, PTL

\* No Put of a step erases a recorded stake.
LEMMA RecordedStep ==
    ASSUME Reliable, SyncInv, [SyncNext]_vars
    PROVE  \A s \in Stake : Recorded(s) => Recorded(s)'
<1>1. CASE db' = db
  BY <1>1 DEF Recorded
<1>2. ASSUME NEW r \in Worker, PutReturns(r)
      PROVE  \A s \in Stake : Recorded(s) => Recorded(s)'
  BY <1>2, PutEffect, RecordedStays
<1>3. ASSUME NEW rh \in Key, StorePut(rh)
      PROVE  \A s \in Stake : Recorded(s) => Recorded(s)'
  <2>1. /\ phase = "store" /\ returnStakeTxsMap[rh] # KeyNotFound
        /\ db' = [db EXCEPT ![SnapshotKey(rh)] = returnStakeTxsMap[rh]]
    BY <1>3 DEF StorePut, Visit
  <2>2. ASSUME NEW k \in Key
        PROVE  db'[k] = db[k] \/ db[k] = KeyNotFound
    <3>1. CASE k = SnapshotKey(rh)
      BY <2>1, <3>1 DEF SyncInv, SyncParts, FreshDatabase
    <3>2. CASE k # SnapshotKey(rh)
      BY <2>1, <3>2 DEF SyncInv, TypeOK
    <3> QED BY <3>1, <3>2
  <2>3. \A k \in Key : \A s : Holds(db[k], s) => Holds(db'[k], s)
    BY <2>2, NothingHeld
  <2> QED BY <2>3, RecordedStays
<1>4. ASSUME NEW r \in Worker, Handle(r)
      PROVE  PutReturns(r) \/ db' = db
  BY <1>4 DEF Handle, ReadReturns, Remember, Reply, Respond, PanicNilHandle, Panic
<1>5. ASSUME NEW r \in Worker, HandleFails(r)
      PROVE  db' = db
  BY <1>5 DEF HandleFails, TimeOut, ReadReturnsNoStake, ReadReturnsGetFails, Remember,
              ReplyGetFails, Respond, PanicNoStakeRPC, PanicNilStake, PanicPutFails, Panic
<1>6. CASE Boot
  BY <1>1, <1>3, <1>6 DEF Boot, Start, StartWith, ScanRow, ScanDone, StoreDone
<1>7. CASE BootFails
  <2>1. db' = db
    BY <1>7 DEF BootFails, StartOpenFails, StartWith, ScanFails, StorePutFails, StoreNilHandle,
                Crash, Die
  <2> QED BY <1>1, <2>1
<1>8. ASSUME NEW r \in Worker, NEW h \in Height, SyncRequest(r, h) \/ SyncRequestFails(r, h)
      PROVE  db' = db
  BY <1>8 DEF SyncRequest, SyncRequestFails, BlockRequest, BlockRequestFails, Accept
<1>9. CASE UNCHANGED vars
  BY <1>1, <1>9 DEF vars
<1> QED BY <1>1, <1>2, <1>4, <1>5, <1>6, <1>7, <1>8, <1>9 DEF SyncNext, ServerStep

\* What is recorded stays recorded, at every step of every actor.
THEOREM RecordedIsForever ==
    ASSUME Reliable
    PROVE  SyncSpec => RecordedForever
<1>1. SyncInv /\ [SyncNext]_vars => [\A s \in Stake : Recorded(s) => Recorded(s)']_vars
  BY RecordedStep
<1> QED BY <1>1, SyncInvariant, PTL DEF SyncSpec, RecordedForever

-----------------------------------------------------------------------------
(* The answers: with a truthful node, they are those of StakeLedger. *)

\* What is known of every client is known of an indexer.
THEOREM IndexerIsClient == SyncSpec => []ReturnsAreDue
<1>1. [SyncNext]_vars => [Next]_vars
  BY SyncIsNext
<1>2. SyncSpec => Spec
  BY <1>1, PTL DEF SyncSpec, Spec
<1> QED BY <1>2, ReturnsDue, PTL

\* Only an answer that an indexer receives changes the history.
LEMMA HistoryStep ==
    ASSUME Reliable, [SyncNext]_vars
    PROVE  (\E r \in Worker : Reply(r)) \/ (answered' = answered /\ reported' = reported)
<1> USE DEF history
<1>1. ASSUME NEW r \in Worker, Handle(r)
      PROVE  Reply(r) \/ UNCHANGED history
  BY <1>1 DEF Handle, ReadReturns, Remember, PutReturns, PanicNilHandle, Panic
<1>2. ASSUME NEW r \in Worker, HandleFails(r)
      PROVE  UNCHANGED history
  <2>1. ~ReplyGetFails(r)
    BY DEF Reliable, ReplyGetFails, Fault
  <2> QED BY <1>2, <2>1 DEF HandleFails, TimeOut, ReadReturnsNoStake, ReadReturnsGetFails, Remember,
                            PanicNoStakeRPC, PanicNilStake, PanicPutFails, Panic
<1>3. CASE Boot
  BY <1>3 DEF Boot, Start, StartWith, ScanRow, ScanDone, StorePut, StoreDone
<1>4. CASE BootFails
  BY <1>4 DEF BootFails, StartOpenFails, StartWith, ScanFails, StorePutFails, StoreNilHandle,
              Crash, Die
<1>5. ASSUME NEW r \in Worker, NEW h \in Height, SyncRequest(r, h) \/ SyncRequestFails(r, h)
      PROVE  UNCHANGED history
  BY <1>5 DEF SyncRequest, SyncRequestFails, BlockRequest, BlockRequestFails, Accept
<1>6. CASE UNCHANGED vars
  BY <1>6 DEF vars
<1> QED BY <1>1, <1>2, <1>3, <1>4, <1>5, <1>6 DEF SyncNext, ServerStep

\* The list that an answer is made from: all entries are due at the height of
\* the block and in full, and no stake of a served block is missing.
LEMMA ReplyList ==
    ASSUME Truthful, SyncInv, ReturnsAreDue, NEW r \in Worker, Reply(r)
    PROVE  LET h == req[r].h
           IN  /\ h \in Height /\ h \notin answered
               /\ \A g \in Height : g + LockPeriod <= h => g \in answered
               /\ answered' = answered \cup {h}
               /\ reported' = [reported EXCEPT ![h] = db[h]]
               /\ \A n \in DOMAIN db[h] :
                     /\ db[h][n].stake \in Stake
                     /\ WithdrawnAt[db[h][n].stake] + LockPeriod = h
                     /\ db[h][n].coins = Credit(db[h][n].stake)
               /\ \A s \in ServedDue(h) : Holds(db[h], s)
<1> DEFINE h == req[r].h
<1>1. Respond(r, db[h]) /\ req[r].pc = "tx"
  BY DEF Reply, AtEnd
<1>2. answered' = answered \cup {h} /\ reported' = [reported EXCEPT ![h] = db[h]]
  BY <1>1, RespondStep
<1>3. h \in Height /\ Working(r)
  BY <1>1, WorkingShape
<1>4. h \notin answered
  BY <1>3 DEF Working
<1>5. \A g \in Height : g + LockPeriod <= h => g \in answered
  <2> SUFFICES ASSUME NEW g \in Height, g + LockPeriod <= h
               PROVE  g <= h - Window
    BY <1>3 DEF Working
  <2> QED BY <1>3, ChainAssumption, WindowAssumption DEF Height
<1>6. h \in Key
  BY <1>3, Keys
<1>7. ASSUME NEW n \in DOMAIN db[h]
      PROVE  /\ db[h][n].stake \in Stake
             /\ WithdrawnAt[db[h][n].stake] + LockPeriod = h
             /\ db[h][n].coins = Credit(db[h][n].stake)
  <2>1. db[h] \in Seq(ReturnStakeTx)
    BY <1>6 DEF SyncInv, TypeOK, ReturnStakeTxs
  <2>2. db[h][n] \in ReturnStakeTx
    BY <2>1, ElementOfSeq, LenProperties
  <2>3. DueAt(db[h][n], h)
    BY <1>6 DEF ReturnsAreDue, AllDueAt
  <2> QED BY <2>2, <2>3 DEF DueAt, Truthful, ReturnStakeTx
<1>8. ASSUME NEW s \in ServedDue(h)
      PROVE  Holds(db[h], s)
  <2>1. s \in Stake /\ WithdrawnAt[s] \in Height /\ WithdrawnAt[s] + LockPeriod = h
    BY DEF ServedDue
  <2>2. WithdrawnAt[s] \in answered
    BY <1>3, <1>5, <2>1, ChainAssumption DEF Height
  <2>3. PICK i \in DOMAIN BlockTxs[WithdrawnAt[s]] : BlockTxs[WithdrawnAt[s]][i] = s
    BY <2>1, BlocksAssumption
  <2>4. Recorded(s)
    BY <2>2, <2>3 DEF SyncInv, SyncParts, ServedIsRecorded
  <2> QED BY <2>1, <2>4 DEF Recorded
<1> QED BY <1>2, <1>3, <1>4, <1>5, <1>7, <1>8

\* What a block has reported, before and after an answer.
LEMMA CreditsAfterReply ==
    ASSUME TypeOK, NEW h \in Height, reported' = [reported EXCEPT ![h] = db[h]]
    PROVE  /\ \A g \in Height : g # h => ReportedCredits(g)' = ReportedCredits(g)
           /\ ReportedCredits(h)' = {<<db[h][n].stake, db[h][n].coins>> : n \in DOMAIN db[h]}
<1>1. reported'[h] = db[h] /\ \A g \in Height : g # h => reported'[g] = reported[g]
  BY DEF TypeOK
<1> QED BY <1>1 DEF ReportedCredits

\* Every received block reports every stake that is due, in full.
THEOREM ReportedReturns ==
    ASSUME Truthful
    PROVE  SyncSpec => []ReturnsAreReported
<1>1. Init => ReturnsAreReported
  BY DEF Init, ReturnsAreReported
<1>2. SyncInv /\ ReturnsAreDue /\ ReturnsAreReported /\ [SyncNext]_vars => ReturnsAreReported'
  <2> SUFFICES ASSUME SyncInv, ReturnsAreDue, ReturnsAreReported, [SyncNext]_vars
               PROVE  ReturnsAreReported'
    OBVIOUS
  <2>1. CASE answered' = answered /\ reported' = reported
    BY <2>1 DEF ReturnsAreReported, ReportedCredits
  <2>2. ASSUME NEW r \in Worker, Reply(r)
        PROVE  ReturnsAreReported'
    <3>1. PICK h \in Height : h = req[r].h
      BY <2>2, ReplyList
    <3>2. /\ answered' = answered \cup {h} /\ reported' = [reported EXCEPT ![h] = db[h]]
          /\ \A n \in DOMAIN db[h] : db[h][n].coins = Credit(db[h][n].stake)
          /\ \A s \in ServedDue(h) : Holds(db[h], s)
          /\ answered \subseteq Height
      BY <2>2, <3>1, ReplyList DEF SyncInv, TypeOK
    <3>3. /\ \A g \in Height : g # h => ReportedCredits(g)' = ReportedCredits(g)
          /\ ReportedCredits(h)' = {<<db[h][n].stake, db[h][n].coins>> : n \in DOMAIN db[h]}
      BY <3>2, CreditsAfterReply DEF SyncInv
    <3>4. \A s \in ServedDue(h) : <<s, Credit(s)>> \in ReportedCredits(h)'
      BY <3>2, <3>3 DEF Holds
    <3>5. ASSUME NEW g \in answered', NEW s \in ServedDue(g)
          PROVE  <<s, Credit(s)>> \in ReportedCredits(g)'
      <4>1. CASE g = h
        BY <3>4, <3>5, <4>1
      <4>2. CASE g # h
        BY <3>2, <3>3, <3>5, <4>2 DEF ReturnsAreReported
      <4> QED BY <4>1, <4>2
    <3> QED BY <3>5 DEF ReturnsAreReported, ServedDue
  <2> QED BY <2>1, <2>2, HistoryStep DEF Truthful
<1>3. Reliable
  BY DEF Truthful
<1> QED BY <1>1, <1>2, <1>3, SyncInvariant, IndexerIsClient, PTL DEF SyncSpec

\* The adaptor behind an indexer implements StakeLedger.
THEOREM LedgerImplemented ==
    ASSUME Truthful
    PROVE  SyncSpec => ImplementsLedger
<1>1. Init => Ledger!Init
  <2> SUFFICES ASSUME Init PROVE Ledger!Init
    OBVIOUS
  <2>1. \A h \in Height : ReportedCredits(h) = {}
    BY DEF Init, ReportedCredits
  <2> QED BY <2>1 DEF Init, Ledger!Init
<1>2. SyncInv /\ ReturnsAreDue /\ [SyncNext]_vars => [Ledger!Next]_(Ledger!vars)
  <2> SUFFICES ASSUME SyncInv, ReturnsAreDue, [SyncNext]_vars
               PROVE  [Ledger!Next]_(Ledger!vars)
    OBVIOUS
  <2>1. CASE answered' = answered /\ reported' = reported
    BY <2>1 DEF Ledger!vars, ReportedCredits
  <2>2. ASSUME NEW r \in Worker, Reply(r)
        PROVE  Ledger!Next
    <3>1. PICK h \in Height : h = req[r].h
      BY <2>2, ReplyList
    <3>2. /\ h \notin answered
          /\ \A g \in Height : g + LockPeriod <= h => g \in answered
          /\ answered' = answered \cup {h}
          /\ reported' = [reported EXCEPT ![h] = db[h]]
          /\ \A n \in DOMAIN db[h] :
                /\ db[h][n].stake \in Stake
                /\ WithdrawnAt[db[h][n].stake] + LockPeriod = h
                /\ db[h][n].coins = Credit(db[h][n].stake)
          /\ \A s \in ServedDue(h) : Holds(db[h], s)
      BY <2>2, <3>1, ReplyList
    <3> DEFINE older == {s \in Ledger!Due(h) : ~Ledger!Served(s) /\ Holds(db[h], s)}
               all == {<<s, Credit(s)>> : s \in {t \in Ledger!Due(h) : Ledger!Served(t)} \cup older}
               before == [g \in Height |-> ReportedCredits(g)]
    <3>3. /\ \A g \in Height : g # h => ReportedCredits(g)' = ReportedCredits(g)
          /\ ReportedCredits(h)' = {<<db[h][n].stake, db[h][n].coins>> : n \in DOMAIN db[h]}
      BY <3>2, CreditsAfterReply DEF SyncInv
    <3>4. {t \in Ledger!Due(h) : Ledger!Served(t)} = ServedDue(h)
      BY DEF Ledger!Due, Ledger!Served, ServedDue
    <3>5. \A s : Holds(db[h], s) <=> s \in {t \in Ledger!Due(h) : Ledger!Served(t)} \cup older
      BY <3>2, <3>4 DEF Ledger!Due, Holds
    <3>6. ReportedCredits(h)' = all
      BY <3>2, <3>3, <3>5 DEF Holds
    <3>7. before' = [before EXCEPT ![h] = all]
      BY <3>3, <3>6
    <3>8. older \in SUBSET {s \in Ledger!Due(h) : ~Ledger!Served(s)}
      OBVIOUS
    <3> QED BY <3>2, <3>7, <3>8 DEF Ledger!Next, Ledger!Receive
  <2> QED BY <2>1, <2>2, HistoryStep DEF Truthful
<1>3. Reliable
  BY DEF Truthful
<1> QED BY <1>1, <1>2, <1>3, SyncInvariant, IndexerIsClient, PTL
        DEF SyncSpec, ImplementsLedger, Ledger!Spec
=============================================================================
