------------------------- MODULE ReturnStakesProofs -------------------------
(* Theorems about ReturnStakes, for every chain, snapshot, number of         *)
(* handlers, set of failures and order of requests.                          *)
EXTENDS ReturnStakes, SequenceTheorems, TLAPS

-----------------------------------------------------------------------------
(* Lemmas on the entries and on the list operations of ParseTx. *)

\* A row of the snapshot names a stake and its slot.
LEMMA SnapshotRowType ==
    ASSUME NEW i \in DOMAIN SnapshotRows
    PROVE  SnapshotRows[i] \in [stake : Stake, slot : Nat]
<1>1. SnapshotRows \in Seq([stake : Stake, slot : Nat])
  BY SnapshotAssumption
<1> QED BY <1>1, ElementOfSeq, LenProperties

\* What the two writers store is an entry of the database.
LEMMA EntryTypes ==
    /\ \A s \in Stake, amount \in Nat : TxEntry(s, amount) \in ReturnStakeTx
    /\ \A i \in DOMAIN SnapshotRows : SnapshotEntry(SnapshotRows[i]) \in ReturnStakeTx
<1>1. \A s \in Stake, amount \in Nat : StakeCoins(s, amount) \in Coins
  BY DEF StakeCoins, Coins
<1>2. \A s \in Stake, amount \in Nat : TxEntry(s, amount) \in ReturnStakeTx
  BY <1>1 DEF TxEntry, ReturnStakeTx, Hash
<1>3. ASSUME NEW i \in DOMAIN SnapshotRows
      PROVE  SnapshotEntry(SnapshotRows[i]) \in ReturnStakeTx
  <2>1. SnapshotRows[i] \in [stake : Stake, slot : Nat]
    BY SnapshotRowType
  <2>2. PICK s \in Stake, n \in Nat : SnapshotRows[i] = [stake |-> s, slot |-> n]
    BY <2>1
  <2>3. Pool[s] \in Pools /\ Amount[s] \in Nat
    BY ChainAssumption
  <2>4. <<Pool[s], n>> \in Hash
    BY <2>3 DEF Hash
  <2> QED BY <1>1, <2>2, <2>3, <2>4 DEF SnapshotEntry, ReturnStakeTx
<1> QED BY <1>2, <1>3

\* Adding an entry to a stored list gives a list of entries.
LEMMA AddOnceType ==
    ASSUME NEW list \in ReturnStakeTxs, NEW e \in ReturnStakeTx
    PROVE  /\ AddOnce(list, e) \in ReturnStakeTxs
           /\ Append(list, e) \in ReturnStakeTxs
BY DEF AddOnce, ReturnStakeTxs

-----------------------------------------------------------------------------
(* Type correctness. *)

\* A request that is parsing a withdrawal is at a stake of its block.
LEMMA CurrentStakeType ==
    ASSUME TypeOK, NEW r \in Worker, AtTx(r)
    PROVE  /\ CurrentStake(r) \in Stake
           /\ ~req[r].orphan => WithdrawnAt[CurrentStake(r)] = req[r].h
           /\ req[r].orphan => Listed(CurrentStake(r), OrphanTxs[req[r].h])
           /\ Withdrawn(CurrentStake(r)) => WithdrawnAt[CurrentStake(r)] \in Height
<1>1. req[r].h \in Height /\ req[r].i \in Nat \ {0} /\ req[r].orphan \in BOOLEAN
  BY DEF TypeOK, ReqType
<1>2. BlockTxs[req[r].h] \in Seq(Stake) /\ OrphanTxs[req[r].h] \in Seq(Stake)
  BY <1>1, BlocksAssumption, OrphansAssumption
<1>3. req[r].i \in DOMAIN RequestTxs(r)
  BY <1>1, <1>2 DEF AtTx, RequestTxs
<1>4. CASE req[r].orphan
  <2>1. /\ CurrentStake(r) = OrphanTxs[req[r].h][req[r].i]
        /\ req[r].i \in DOMAIN OrphanTxs[req[r].h]
    BY <1>3, <1>4 DEF CurrentStake, RequestTxs
  <2>2. CurrentStake(r) \in Stake /\ WithdrawnAt[CurrentStake(r)] >= req[r].h
    BY <1>1, <1>2, <2>1, OrphansAssumption
  <2>3. Withdrawn(CurrentStake(r)) => WithdrawnAt[CurrentStake(r)] \in Height
    BY <1>1, <2>2, ChainAssumption DEF Withdrawn, Height
  <2> QED BY <1>4, <2>1, <2>2, <2>3 DEF Listed
<1>5. CASE ~req[r].orphan
  <2>1. /\ CurrentStake(r) = BlockTxs[req[r].h][req[r].i]
        /\ req[r].i \in DOMAIN BlockTxs[req[r].h]
    BY <1>3, <1>5 DEF CurrentStake, RequestTxs
  <2> QED BY <1>1, <1>2, <1>5, <2>1, BlocksAssumption
<1> QED BY <1>1, <1>4, <1>5

\* GetStakeForTx answers with the amount of the stake, or with none.
LEMMA StakeAmountsType ==
    ASSUME TypeOK, NEW r \in Worker, AtTx(r), NEW amount \in StakeAmounts(r)
    PROVE  /\ amount \in Nat
           /\ amount = Amount[CurrentStake(r)] \/ req[r].orphan
BY CurrentStakeType, ChainAssumption DEF StakeAmounts

\* The values a fresh process starts with.
LEMMA FreshTypes ==
    /\ KeyNotFound \in ReturnStakeTxs
    /\ NoReq \in ReqType
    /\ NoEntries \in [Key -> ReturnStakeTxs]
    /\ [r \in Worker |-> NoReq] \in [Worker -> ReqType]
    /\ [h \in Height |-> KeyNotFound] \in [Height -> ReturnStakeTxs]
<1>1. KeyNotFound \in ReturnStakeTxs
  BY DEF KeyNotFound, ReturnStakeTxs
<1>2. NoReq \in ReqType
  BY ChainAssumption DEF NoReq, ReqType, Height, ReturnStakeTxs
<1> QED BY <1>1, <1>2 DEF NoEntries

\* A failure is counted, up to the bound.
LEMMA FaultCount ==
    ASSUME faults \in 0..MaxFaults, NEW f, Fault(f)
    PROVE  faults' \in 0..MaxFaults
BY FaultAssumption DEF Fault

\* The initial state is well typed.
LEMMA InitType ==
    ASSUME Init
    PROVE  TypeOK
<1>1. faults \in 0..MaxFaults
  BY FaultAssumption DEF Init
<1>2. reported \in [Height -> ReturnStakeTxs]
  BY FreshTypes DEF Init, KeyNotFound
<1>3. phase \in {"down", "scan", "store", "serving"} /\ row \in Nat \ {0}
  BY DEF Init
<1>4. dirExists \in BOOLEAN /\ open \in BOOLEAN /\ answered \subseteq Height
  BY DEF Init
<1>5. req \in [Worker -> ReqType]
  BY FreshTypes DEF Init
<1>6. db \in [Key -> ReturnStakeTxs] /\ returnStakeTxsMap \in [Key -> ReturnStakeTxs]
  BY FreshTypes DEF Init
<1> QED BY <1>1, <1>2, <1>3, <1>4, <1>5, <1>6 DEF TypeOK

\* Every step, and every failure, keeps the types.
LEMMA NextType ==
    ASSUME TypeOK, [Next]_vars
    PROVE  TypeOK'
<1> USE DEF TypeOK, server, history, volatile
<1>1. CASE Boot
  <2>1. CASE Start
    BY <2>1 DEF Start, StartWith
  <2>2. CASE ScanRow
    <3>1. returnStakeTxsMap' \in [Key -> ReturnStakeTxs]
      BY <2>2, EntryTypes, AddOnceType DEF ScanRow, GrowMap
    <3> QED BY <2>2, <3>1 DEF ScanRow
  <2>3. CASE ScanDone
    BY <2>3 DEF ScanDone
  <2>4. ASSUME NEW rh \in Key, StorePut(rh) PROVE TypeOK'
    BY <2>4, FreshTypes DEF StorePut, Visit
  <2>5. CASE StoreDone
    BY <2>5 DEF StoreDone
  <2> QED BY <1>1, <2>1, <2>2, <2>3, <2>4, <2>5 DEF Boot
<1>2. CASE BootFails
  <2>1. CASE StartOpenFails
    <3>1. faults' \in 0..MaxFaults /\ dirExists' \in BOOLEAN
      BY <2>1, FaultCount DEF StartOpenFails
    <3> QED BY <2>1, <3>1 DEF StartOpenFails, StartWith
  <2>2. CASE ScanFails
    BY <2>2, FreshTypes, FaultCount DEF ScanFails
  <2>3. ASSUME NEW rh \in Key, StorePutFails(rh) PROVE TypeOK'
    BY <2>3, FreshTypes, FaultCount DEF StorePutFails, Visit
  <2>4. ASSUME Die, faults' \in 0..MaxFaults PROVE TypeOK'
    <3>1. req' \in [Worker -> ReqType]
      BY <2>4, FreshTypes DEF Die
    <3>2. returnStakeTxsMap' \in [Key -> ReturnStakeTxs]
      BY <2>4, FreshTypes DEF Die
    <3>3. phase' = "down" /\ row' = 1 /\ open' \in BOOLEAN
      BY <2>4 DEF Die
    <3>4. UNCHANGED <<dirExists, db, answered, reported>>
      BY <2>4 DEF Die
    <3> QED BY <2>4, <3>1, <3>2, <3>3, <3>4
  <2>5. CASE StoreNilHandle \/ Crash
    BY <2>4, <2>5, FaultCount DEF StoreNilHandle, Crash
  <2> QED BY <1>2, <2>1, <2>2, <2>3, <2>4, <2>5 DEF BootFails
<1>3. ASSUME NEW r \in Worker, NEW amount \in Nat, NEW stored \in ReturnStakeTxs,
             Remember(r, amount, stored), faults' \in 0..MaxFaults
      PROVE  TypeOK'
  <2>1. TxEntry(CurrentStake(r), amount) \in ReturnStakeTx
    BY <1>3, CurrentStakeType, EntryTypes DEF Remember
  <2>2. AddOnce(stored, TxEntry(CurrentStake(r), amount)) \in ReturnStakeTxs
    BY <1>3, <2>1, AddOnceType
  <2>3. req' \in [Worker -> ReqType]
    <3>1. PICK list \in ReturnStakeTxs :
              req' = [req EXCEPT ![r].pc = "put", ![r].list = list]
      BY <1>3, <2>2 DEF Remember
    <3>2. [req[r] EXCEPT !.pc = "put", !.list = list] \in ReqType
      BY <3>1 DEF ReqType
    <3>3. req' = [req EXCEPT ![r] = [req[r] EXCEPT !.pc = "put", !.list = list]]
      BY <3>1
    <3> QED BY <3>2, <3>3
  <2> QED BY <1>3, <2>3 DEF Remember
<1>4. ASSUME NEW r \in Worker, NEW returns \in ReturnStakeTxs,
             Respond(r, returns), faults' \in 0..MaxFaults
      PROVE  TypeOK'
  BY <1>4, FreshTypes DEF Respond, ReqType
<1>5. ASSUME NEW r \in Worker, Panic(r), faults' \in 0..MaxFaults PROVE TypeOK'
  BY <1>5, FreshTypes DEF Panic
<1>6. ASSUME NEW r \in Worker PROVE req[r] \in ReqType /\ db[req[r].h] \in ReturnStakeTxs
                                    /\ db[WithdrawKey(req[r].h)] \in ReturnStakeTxs
  <2>1. req[r].h \in Height
    BY DEF ReqType
  <2>2. req[r].h \in Key /\ WithdrawKey(req[r].h) \in Key
    BY <2>1, ChainAssumption DEF Height, Key, Never, WithdrawKey
  <2> QED BY <2>2
<1>7. ASSUME NEW r \in Worker, Handle(r) PROVE TypeOK'
  <2>1. CASE ReadReturns(r)
    BY <1>3, <1>6, <2>1, StakeAmountsType DEF ReadReturns
  <2>2. CASE PutReturns(r)
    <3>1. req' \in [Worker -> ReqType]
      BY <2>2 DEF PutReturns, ReqType
    <3>2. db' \in [Key -> ReturnStakeTxs]
      BY <2>2 DEF PutReturns, ReqType
    <3> QED BY <2>2, <3>1, <3>2 DEF PutReturns
  <2>3. CASE Reply(r)
    BY <1>4, <1>6, <2>3 DEF Reply
  <2>4. CASE PanicNilHandle(r)
    BY <1>5, <2>4 DEF PanicNilHandle
  <2> QED BY <1>7, <2>1, <2>2, <2>3, <2>4 DEF Handle
<1>8. ASSUME NEW r \in Worker, HandleFails(r) PROVE TypeOK'
  <2>1. CASE TimeOut(r)
    <3>1. req' \in [Worker -> ReqType]
      BY <2>1 DEF TimeOut, ReqType
    <3> QED BY <2>1, <3>1, FaultCount DEF TimeOut
  <2>2. CASE ReadReturnsNoStake(r)
    BY <1>3, <1>6, FaultCount, <2>2 DEF ReadReturnsNoStake
  <2>3. CASE ReadReturnsGetFails(r)
    <3>1. Amount[CurrentStake(r)] \in Nat
      BY <2>3, CurrentStakeType, ChainAssumption DEF ReadReturnsGetFails
    <3> QED BY <1>3, FaultCount, FreshTypes, <2>3, <3>1 DEF ReadReturnsGetFails
  <2>4. CASE ReplyGetFails(r)
    BY <1>4, FaultCount, FreshTypes, <2>4 DEF ReplyGetFails
  <2>5. CASE PanicNoStakeRPC(r) \/ PanicNilStake(r) \/ PanicPutFails(r)
    BY <1>5, FaultCount, <2>5 DEF PanicNoStakeRPC, PanicNilStake, PanicPutFails
  <2> QED BY <1>8, <2>1, <2>2, <2>3, <2>4, <2>5 DEF HandleFails
<1>9. ASSUME NEW r \in Worker, NEW h \in Height, BlockRequest(r, h) \/ OrphanRequest(r, h)
      PROVE  TypeOK'
  <2>1. faults' \in 0..MaxFaults
    BY <1>9, FaultCount DEF BlockRequest, OrphanRequest
  <2>2. PICK orphan \in BOOLEAN : Accept(r, h, orphan)
    BY <1>9 DEF BlockRequest, OrphanRequest
  <2> QED BY <2>1, <2>2, FreshTypes DEF Accept, NoReq, ReqType
<1>10. ASSUME NEW r \in Worker, NEW h \in Height, BlockRequestFails(r, h) PROVE TypeOK'
  BY <1>10, FaultCount DEF BlockRequestFails
<1>11. CASE UNCHANGED vars
  BY <1>11 DEF vars
<1> QED BY <1>1, <1>2, <1>7, <1>8, <1>9, <1>10, <1>11 DEF Next, ServerStep

\* Every variable keeps its type: in particular no handler leaves its block.
THEOREM TypeCorrect == Spec => []TypeOK
<1>1. Init => TypeOK
  BY InitType
<1>2. TypeOK /\ [Next]_vars => TypeOK'
  BY NextType
<1> QED BY <1>1, <1>2, PTL DEF Spec

-----------------------------------------------------------------------------
(* ReturnsAreDue.  It is not inductive: StorePut writes what the scan put in *)
(* the map, PutReturns what the handler read before.  The strengthening says *)
(* the same of these lists, each for the key it is going to be written to.   *)

MapIsDue == \A rh \in Key : AllDueAt(returnStakeTxsMap[rh], SnapshotKey(rh))
ListsAreDue == \A r \in Worker : AllDueAt(req[r].list, WithdrawKey(req[r].h))
OrphansAllowed == \A r \in Worker : req[r].orphan => "orphan" \in Faults
DueParts == ReturnsAreDue /\ MapIsDue /\ ListsAreDue /\ OrphansAllowed
DueInv == TypeOK /\ DueParts

\* The empty list is due at any height.
LEMMA NothingIsDue == \A k : AllDueAt(KeyNotFound, k)
BY DEF AllDueAt, KeyNotFound

\* A list that is due stays so when an entry that is due is added.
LEMMA AddDue ==
    ASSUME NEW list \in ReturnStakeTxs, NEW e \in ReturnStakeTx, NEW k,
           AllDueAt(list, k), DueAt(e, k)
    PROVE  AllDueAt(AddOnce(list, e), k) /\ AllDueAt(Append(list, e), k)
<1>1. AllDueAt(Append(list, e), k)
  BY AppendProperties DEF AllDueAt, ReturnStakeTxs
<1> QED BY <1>1 DEF AddOnce

\* ParseTx computes the key and the coins the ledger uses; an edge node stake
\* may be recorded without its amount if the node may answer without one.
LEMMA TxEntryDue ==
    ASSUME NEW s \in Stake
    PROVE  /\ DueAt(TxEntry(s, Amount[s]), WithdrawKey(WithdrawnAt[s]))
           /\ "empty" \in Faults /\ Pool[s] = "eenp"
                 => DueAt(TxEntry(s, 0), WithdrawKey(WithdrawnAt[s]))
BY ChainAssumption DEF TxEntry, StakeCoins, DueAt, Credit, WithdrawKey, Pools

\* A stake of an orphaned block is recorded under the height of its return
\* from that block.
LEMMA OrphanEntryDue ==
    ASSUME NEW h \in Height, NEW s \in Stake, NEW amount,
           Listed(s, OrphanTxs[h]), "orphan" \in Faults
    PROVE  DueAt(TxEntry(s, amount), WithdrawKey(h))
BY DEF TxEntry, DueAt, Orphaned, WithdrawKey

\* So does GenStakesForSnapshot, from the return height of the ledger.
LEMMA SnapshotEntryDue ==
    ASSUME NEW i \in DOMAIN SnapshotRows
    PROVE  LET s == SnapshotRows[i].stake
           IN  DueAt(SnapshotEntry(SnapshotRows[i]), SnapshotKey(ReturnHeight(s)))
<1>1. SnapshotRows[i].stake \in Stake
  BY SnapshotRowType
<1> QED BY <1>1, ChainAssumption
        DEF SnapshotEntry, StakeCoins, DueAt, Credit, SnapshotKey, ReturnHeight, Pools

\* Everything recorded or reported is due at its height, in the right coin.
THEOREM ReturnsDue == Spec => []ReturnsAreDue
<1>1. Init => DueInv
  <2> SUFFICES ASSUME Init PROVE DueParts
    BY InitType DEF DueInv
  <2> QED BY NothingIsDue
          DEF Init, DueParts, ReturnsAreDue, MapIsDue, ListsAreDue, OrphansAllowed, NoEntries,
              NoReq, KeyNotFound
<1>2. DueInv /\ [Next]_vars => DueInv'
  <2> SUFFICES ASSUME DueInv, [Next]_vars
               PROVE  DueParts'
    BY NextType DEF DueInv
  <2>0. TypeOK /\ ReturnsAreDue /\ MapIsDue /\ ListsAreDue /\ OrphansAllowed
    BY DEF DueInv, DueParts
  <2> USE <2>0 DEF DueParts, ReturnsAreDue, MapIsDue, ListsAreDue, OrphansAllowed
  <2>1. CASE Boot
    <3>1. CASE Start \/ ScanDone \/ StoreDone
      BY <3>1 DEF Start, StartWith, ScanDone, StoreDone, volatile, history
    <3>2. CASE ScanRow
      <4>1. MapIsDue'
        <5> DEFINE e == SnapshotEntry(SnapshotRows[row])
                   rh == ReturnHeight(SnapshotRows[row].stake)
        <5>1. e \in ReturnStakeTx /\ DueAt(e, SnapshotKey(rh))
          BY <3>2, EntryTypes, SnapshotEntryDue DEF ScanRow
        <5> HIDE DEF e, rh
        <5>2. \A k \in Key : AllDueAt(GrowMap(rh, e)[k], SnapshotKey(k))
          <6> TAKE k \in Key
          <6>1. returnStakeTxsMap[k] \in ReturnStakeTxs
            BY DEF TypeOK
          <6>2. CASE GrowMap(rh, e)[k] = returnStakeTxsMap[k]
            BY <6>2
          <6>3. CASE k = rh /\ GrowMap(rh, e)[k] = Append(returnStakeTxsMap[k], e)
            BY <5>1, <6>1, <6>3, AddDue
          <6> QED BY <6>2, <6>3 DEF GrowMap, TypeOK
        <5>3. returnStakeTxsMap' \in {returnStakeTxsMap, GrowMap(rh, e)}
          BY <3>2 DEF ScanRow, e, rh
        <5> QED BY <5>2, <5>3
      <4> QED BY <3>2, <4>1 DEF ScanRow, history
    <3>3. ASSUME NEW rh \in Key, StorePut(rh)
          PROVE  DueParts'
      <4>1. MapIsDue'
        BY <3>3, NothingIsDue DEF StorePut, Visit, TypeOK
      <4>2. \A k \in Key : AllDueAt(db'[k], k)
        BY <3>3 DEF StorePut, TypeOK
      <4> QED BY <3>3, <4>1, <4>2 DEF StorePut, history
    <3> QED BY <2>1, <3>1, <3>2, <3>3 DEF Boot
  <2>2. CASE BootFails
    <3>1. CASE StartOpenFails
      BY <3>1 DEF StartOpenFails, StartWith, volatile, history
    <3>2. CASE ScanFails
      BY <3>2, NothingIsDue DEF ScanFails, NoEntries, history
    <3>3. ASSUME NEW rh \in Key, StorePutFails(rh)
          PROVE  DueParts'
      <4>1. MapIsDue'
        BY <3>3, NothingIsDue DEF StorePutFails, Visit, TypeOK
      <4> QED BY <3>3, <4>1 DEF StorePutFails, history
    <3>4. CASE StoreNilHandle \/ Crash
      <4>1. Die
        BY <3>4 DEF StoreNilHandle, Crash
      <4>2. MapIsDue'
        BY <4>1, NothingIsDue DEF Die, NoEntries
      <4>3. ListsAreDue' /\ OrphansAllowed'
        BY <4>1, NothingIsDue DEF Die, NoReq, KeyNotFound
      <4> QED BY <4>1, <4>2, <4>3 DEF Die, history
    <3> QED BY <2>2, <3>1, <3>2, <3>3, <3>4 DEF BootFails
  <2>3. ASSUME NEW r \in Worker, NEW amount, NEW stored \in ReturnStakeTxs,
               Remember(r, amount, stored),
               TxEntry(CurrentStake(r), amount) \in ReturnStakeTx,
               DueAt(TxEntry(CurrentStake(r), amount), WithdrawKey(req[r].h)),
               AllDueAt(stored, WithdrawKey(req[r].h))
        PROVE  DueParts'
    <3>1. AllDueAt(AddOnce(stored, TxEntry(CurrentStake(r), amount)), WithdrawKey(req[r].h))
      BY <2>3, AddDue
    <3>2. ListsAreDue' /\ OrphansAllowed'
      BY <2>3, <3>1 DEF Remember, TypeOK, ReqType
    <3> QED BY <2>3, <3>2 DEF Remember, server, history
  <2>4. ASSUME NEW r \in Worker, AtTx(r), NEW amount \in Nat,
               \/ amount = Amount[CurrentStake(r)]
               \/ req[r].orphan
               \/ amount = 0 /\ "empty" \in Faults /\ Pool[CurrentStake(r)] = "eenp"
        PROVE  /\ TxEntry(CurrentStake(r), amount) \in ReturnStakeTx
               /\ DueAt(TxEntry(CurrentStake(r), amount), WithdrawKey(req[r].h))
    <3>1. req[r].h \in Height /\ req[r].orphan \in BOOLEAN
      BY DEF TypeOK, ReqType
    <3>2. TxEntry(CurrentStake(r), amount) \in ReturnStakeTx
      BY <2>4, CurrentStakeType, EntryTypes
    <3>3. CASE req[r].orphan
      BY <2>4, <3>1, <3>2, <3>3, CurrentStakeType, OrphanEntryDue
    <3>4. CASE ~req[r].orphan
      BY <2>4, <3>2, <3>4, CurrentStakeType, TxEntryDue
    <3> QED BY <3>1, <3>3, <3>4
  <2>5. ASSUME NEW r \in Worker
        PROVE  /\ req[r].h \in Height
               /\ db[WithdrawKey(req[r].h)] \in ReturnStakeTxs
               /\ AllDueAt(db[WithdrawKey(req[r].h)], WithdrawKey(req[r].h))
               /\ AllDueAt(db[req[r].h], req[r].h)
    <3>1. req[r].h \in Height
      BY DEF TypeOK, ReqType
    <3>2. req[r].h \in Key /\ WithdrawKey(req[r].h) \in Key
      BY <3>1, ChainAssumption DEF Height, Key, Never, WithdrawKey
    <3> QED BY <3>1, <3>2 DEF TypeOK
  <2>6. ASSUME NEW r \in Worker, NEW returns, Respond(r, returns), AllDueAt(returns, req[r].h)
        PROVE  DueParts'
    <3>1. ListsAreDue' /\ OrphansAllowed'
      BY <2>6, NothingIsDue DEF Respond, NoReq, KeyNotFound, TypeOK
    <3>2. \A h \in Height : AllDueAt(reported'[h], h)
      BY <2>6, <2>5 DEF Respond, TypeOK, history
    <3> QED BY <2>6, <3>1, <3>2 DEF Respond, server
  <2>7. ASSUME NEW r \in Worker, Panic(r) PROVE DueParts'
    <3>1. ListsAreDue' /\ OrphansAllowed'
      BY <2>7, NothingIsDue DEF Panic, NoReq, KeyNotFound, TypeOK
    <3> QED BY <2>7, <3>1 DEF Panic, server, history
  <2>8. ASSUME NEW r \in Worker, Handle(r) PROVE DueParts'
    <3>1. CASE ReadReturns(r)
      BY <2>3, <2>4, <2>5, <3>1, StakeAmountsType DEF ReadReturns
    <3>2. CASE PutReturns(r)
      <4>1. \A k \in Key : AllDueAt(db'[k], k)
        BY <3>2 DEF PutReturns, TypeOK
      <4>2. ListsAreDue' /\ OrphansAllowed'
        BY <3>2 DEF PutReturns, TypeOK, ReqType
      <4> QED BY <3>2, <4>1, <4>2 DEF PutReturns, server, history
    <3>3. CASE Reply(r)
      BY <2>5, <2>6, <3>3 DEF Reply
    <3>4. CASE PanicNilHandle(r)
      BY <2>7, <3>4 DEF PanicNilHandle
    <3> QED BY <2>8, <3>1, <3>2, <3>3, <3>4 DEF Handle
  <2>9. ASSUME NEW r \in Worker, HandleFails(r)
        PROVE  DueParts'
    <3>1. CASE TimeOut(r)
      <4>1. ListsAreDue'
        BY <3>1 DEF TimeOut, TypeOK, ReqType
      <4> QED BY <3>1, <4>1 DEF TimeOut, server, history
    <3>2. CASE ReadReturnsNoStake(r)
      BY <2>3, <2>4, <2>5, <3>2 DEF ReadReturnsNoStake, Fault
    <3>3. CASE ReadReturnsGetFails(r)
      <4>1. Amount[CurrentStake(r)] \in Nat
        BY <3>3, CurrentStakeType, ChainAssumption DEF ReadReturnsGetFails
      <4> QED BY <2>3, <2>4, <3>3, <4>1, NothingIsDue, FreshTypes DEF ReadReturnsGetFails
    <3>4. CASE ReplyGetFails(r)
      BY <2>6, <3>4, NothingIsDue DEF ReplyGetFails
    <3>5. CASE PanicNoStakeRPC(r) \/ PanicNilStake(r) \/ PanicPutFails(r)
      BY <2>7, <3>5 DEF PanicNoStakeRPC, PanicNilStake, PanicPutFails
    <3> QED BY <2>9, <3>1, <3>2, <3>3, <3>4, <3>5 DEF HandleFails
  <2>10. ASSUME NEW r \in Worker, NEW h \in Height,
                BlockRequest(r, h) \/ OrphanRequest(r, h) \/ BlockRequestFails(r, h)
         PROVE  DueParts'
    <3>1. CASE BlockRequestFails(r, h)
      BY <3>1 DEF BlockRequestFails, server, history
    <3>2. CASE BlockRequest(r, h) \/ OrphanRequest(r, h)
      <4>1. PICK orphan \in BOOLEAN : Accept(r, h, orphan) /\ (orphan => "orphan" \in Faults)
        BY <3>2 DEF BlockRequest, OrphanRequest, Fault
      <4>2. ListsAreDue' /\ OrphansAllowed'
        BY <4>1, NothingIsDue DEF Accept, NoReq, KeyNotFound, TypeOK
      <4> QED BY <4>1, <4>2 DEF Accept, server, history
    <3> QED BY <2>10, <3>1, <3>2
  <2>11. CASE UNCHANGED vars
    BY <2>11 DEF vars
  <2> QED BY <2>1, <2>2, <2>8, <2>9, <2>10, <2>11 DEF Next, ServerStep
<1>3. DueInv => ReturnsAreDue
  BY DEF DueInv, DueParts
<1> QED BY <1>1, <1>2, <1>3, PTL DEF Spec

-----------------------------------------------------------------------------
(* NoDoubleEntry.  ParseTx looks for the hash of the transaction, not for    *)
(* the stake, so it must be known that a stake withdrawn in a served block   *)
(* or an orphan is never stored under another hash, unless it is in the      *)
(* snapshot.  The map of the first start holds stakes of rows the scan has   *)
(* passed, and a stake has one row.                                          *)

Findable(e) == e.hash = <<"tx", e.stake>> \/ Withdrawn(e.stake)
Clean(list) == NoRepeat(list) /\ \A i \in DOMAIN list : Findable(list[i])
Scanned(s, n) == \E j \in DOMAIN SnapshotRows : j < n /\ SnapshotRows[j].stake = s

StoredClean ==
    /\ \A k \in Key : Clean(db[k])
    /\ \A h \in Height : Clean(reported[h])
MapClean == \A rh \in Key :
    /\ Clean(returnStakeTxsMap[rh])
    /\ \A i \in DOMAIN returnStakeTxsMap[rh] : Scanned(returnStakeTxsMap[rh][i].stake, row)
ListsClean == \A r \in Worker : Clean(req[r].list)
CleanParts == StoredClean /\ MapClean /\ ListsClean
CleanInv == TypeOK /\ CleanParts

\* The empty list is clean.
LEMMA NothingIsClean == Clean(KeyNotFound) /\ DOMAIN KeyNotFound = {}
BY DEF Clean, NoRepeat, KeyNotFound

\* An entry that is apart from those of the list may be appended.
LEMMA AppendClean ==
    ASSUME NEW list \in ReturnStakeTxs, NEW e \in ReturnStakeTx,
           Clean(list), Findable(e), \A i \in DOMAIN list : Apart(list[i], e)
    PROVE  Clean(Append(list, e))
<1> DEFINE app == Append(list, e)
<1>1. /\ Len(list) \in Nat /\ DOMAIN list = 1..Len(list)
      /\ DOMAIN app = 1..(Len(list) + 1)
      /\ \A i \in 1..Len(list) : app[i] = list[i]
      /\ app[Len(list) + 1] = e
  BY AppendProperties, LenProperties DEF ReturnStakeTxs
<1> HIDE DEF app
<1>2. \A i \in DOMAIN app : i \in DOMAIN list \/ i = Len(list) + 1
  BY <1>1
<1>3. \A i \in DOMAIN app : Findable(app[i])
  BY <1>1, <1>2 DEF Clean
<1>4. NoRepeat(app)
  <2>1. \A i \in DOMAIN list : Apart(list[i], e) /\ Apart(e, list[i])
    BY DEF Apart
  <2>2. \A i, j \in DOMAIN list : i # j => Apart(list[i], list[j])
    BY DEF Clean, NoRepeat
  <2> SUFFICES ASSUME NEW i \in DOMAIN app, NEW j \in DOMAIN app, i # j
               PROVE  Apart(app[i], app[j])
    BY DEF NoRepeat
  <2> QED BY <1>1, <1>2, <2>1, <2>2
<1> QED BY <1>3, <1>4 DEF Clean, app

\* ParseTx adds a withdrawal of a served block to a clean list at most once.
LEMMA AddOnceClean ==
    ASSUME NEW list \in ReturnStakeTxs, NEW s \in Stake, NEW amount,
           TxEntry(s, amount) \in ReturnStakeTx, Clean(list),
           Withdrawn(s) => WithdrawnAt[s] \in Height
    PROVE  Clean(AddOnce(list, TxEntry(s, amount)))
<1>1. TxEntry(s, amount).hash = <<"tx", s>> /\ TxEntry(s, amount).stake = s
  BY DEF TxEntry
<1>2. CASE \E i \in DOMAIN list : list[i].hash = TxEntry(s, amount).hash
  BY <1>2 DEF AddOnce
<1>3. CASE ~\E i \in DOMAIN list : list[i].hash = TxEntry(s, amount).hash
  <2>1. \A i \in DOMAIN list : Apart(list[i], TxEntry(s, amount))
    BY <1>1, <1>3 DEF Clean, Findable, Apart
  <2>2. Findable(TxEntry(s, amount))
    BY <1>1 DEF Findable
  <2>3. Clean(Append(list, TxEntry(s, amount)))
    BY <1>1, <2>1, <2>2, AppendClean
  <2> QED BY <1>3, <2>3 DEF AddOnce
<1> QED BY <1>2, <1>3

\* No step makes a stored list, a list in the hands of a handler or a list of
\* the first start unclean.
LEMMA NextClean ==
    ASSUME CleanInv, [Next]_vars
    PROVE  CleanParts'
<1>0. TypeOK /\ StoredClean /\ MapClean /\ ListsClean
  BY DEF CleanInv, CleanParts
<1> USE <1>0 DEF CleanParts, StoredClean, MapClean, ListsClean, Scanned
<1>1. CASE Boot
  <2>1. CASE Start \/ ScanDone \/ StoreDone
    BY <2>1 DEF Start, StartWith, ScanDone, StoreDone, volatile, history
  <2>2. CASE ScanRow
    <3>1. row \in DOMAIN SnapshotRows /\ row \in Nat /\ row' = row + 1
      BY <2>2 DEF ScanRow, TypeOK
    <3> DEFINE s == SnapshotRows[row].stake
               e == SnapshotEntry(SnapshotRows[row])
               rh == ReturnHeight(s)
    <3>2. \A t : Scanned(t, row) => Scanned(t, row + 1) /\ t # s
      <4>1. DOMAIN SnapshotRows \subseteq Nat
        BY SnapshotAssumption, LenProperties
      <4> QED BY <3>1, <4>1, SnapshotAssumption
    <3>3. Scanned(s, row + 1)
      BY <3>1
    <3>4. e \in ReturnStakeTx /\ e.stake = s
      BY <3>1, EntryTypes DEF SnapshotEntry
    <3>5. CASE Withdrawn(s)
      <4>1. Findable(e)
        BY <3>4, <3>5 DEF Findable, Withdrawn
      <4> HIDE DEF e, rh, s, Scanned
      <4>2. ASSUME NEW k \in Key
            PROVE  /\ Clean(GrowMap(rh, e)[k])
                   /\ \A i \in DOMAIN GrowMap(rh, e)[k] : Scanned(GrowMap(rh, e)[k][i].stake, row + 1)
        <5> DEFINE old == returnStakeTxsMap[k]
        <5>1. old \in ReturnStakeTxs /\ Clean(old) /\ \A i \in DOMAIN old : Scanned(old[i].stake, row)
          BY DEF TypeOK
        <5>2. CASE GrowMap(rh, e)[k] = old
          BY <3>2, <5>1, <5>2
        <5>3. CASE GrowMap(rh, e)[k] = Append(old, e)
          <6> HIDE DEF old
          <6>1. Clean(Append(old, e))
            BY <3>2, <3>4, <4>1, <5>1, AppendClean DEF Apart
          <6>2. \A i \in DOMAIN Append(old, e) :
                    Append(old, e)[i] = e \/ \E j \in DOMAIN old : Append(old, e)[i] = old[j]
            BY <5>1, AppendProperties, LenProperties DEF ReturnStakeTxs
          <6>3. \A i \in DOMAIN Append(old, e) : Scanned(Append(old, e)[i].stake, row + 1)
            BY <3>2, <3>3, <3>4, <5>1, <6>2
          <6> QED BY <5>3, <6>1, <6>3
        <5> QED BY <5>2, <5>3 DEF GrowMap, TypeOK
      <4>3. returnStakeTxsMap' = GrowMap(rh, e)
        BY <2>2, <3>5 DEF ScanRow, e, rh, s
      <4>4. MapClean'
        BY <3>1, <4>2, <4>3
      <4> QED BY <2>2, <4>4 DEF ScanRow, history
    <3>6. CASE ~Withdrawn(s)
      <4>1. returnStakeTxsMap' = returnStakeTxsMap
        BY <2>2, <3>6 DEF ScanRow
      <4> HIDE DEF Scanned
      <4>2. MapClean'
        BY <3>1, <3>2, <4>1
      <4> QED BY <2>2, <4>2 DEF ScanRow, history
    <3> QED BY <3>5, <3>6
  <2>3. ASSUME NEW rh \in Key, StorePut(rh) PROVE CleanParts'
    <3>1. MapClean'
      BY <2>3, NothingIsClean DEF StorePut, Visit, TypeOK
    <3>2. \A k \in Key : Clean(db'[k])
      BY <2>3 DEF StorePut, TypeOK
    <3> QED BY <2>3, <3>1, <3>2 DEF StorePut, history
  <2> QED BY <1>1, <2>1, <2>2, <2>3 DEF Boot
<1>2. CASE BootFails
  <2>1. CASE StartOpenFails
    BY <2>1 DEF StartOpenFails, StartWith, volatile, history
  <2>2. CASE ScanFails
    BY <2>2, NothingIsClean DEF ScanFails, NoEntries, history
  <2>3. ASSUME NEW rh \in Key, StorePutFails(rh) PROVE CleanParts'
    <3>1. MapClean'
      BY <2>3, NothingIsClean DEF StorePutFails, Visit, TypeOK
    <3> QED BY <2>3, <3>1 DEF StorePutFails, history
  <2>4. CASE StoreNilHandle \/ Crash
    <3>1. Die
      BY <2>4 DEF StoreNilHandle, Crash
    <3>2. MapClean'
      BY <3>1, NothingIsClean DEF Die, NoEntries
    <3>3. ListsClean'
      BY <3>1, NothingIsClean DEF Die, NoReq, KeyNotFound
    <3> QED BY <3>1, <3>2, <3>3 DEF Die, history
  <2> QED BY <1>2, <2>1, <2>2, <2>3, <2>4 DEF BootFails
<1>3. ASSUME NEW r \in Worker, AtTx(r), NEW amount \in Nat, NEW stored \in ReturnStakeTxs,
             Remember(r, amount, stored), Clean(stored)
      PROVE  CleanParts'
  <2>1. /\ CurrentStake(r) \in Stake
        /\ Withdrawn(CurrentStake(r)) => WithdrawnAt[CurrentStake(r)] \in Height
    BY <1>3, CurrentStakeType
  <2>3. Clean(AddOnce(stored, TxEntry(CurrentStake(r), amount)))
    BY <1>3, <2>1, AddOnceClean, EntryTypes
  <2>4. ListsClean'
    BY <1>3, <2>3 DEF Remember, TypeOK
  <2> QED BY <1>3, <2>4 DEF Remember, server, history
<1>4. ASSUME NEW r \in Worker
      PROVE  /\ req[r].h \in Height
             /\ db[WithdrawKey(req[r].h)] \in ReturnStakeTxs
             /\ Clean(db[WithdrawKey(req[r].h)])
             /\ Clean(db[req[r].h])
  <2>1. req[r].h \in Height
    BY DEF TypeOK, ReqType
  <2>2. req[r].h \in Key /\ WithdrawKey(req[r].h) \in Key
    BY <2>1, ChainAssumption DEF Height, Key, Never, WithdrawKey
  <2> QED BY <2>1, <2>2 DEF TypeOK
<1>5. ASSUME NEW r \in Worker, NEW returns, Respond(r, returns), Clean(returns)
      PROVE  CleanParts'
  <2>1. ListsClean'
    BY <1>5, NothingIsClean DEF Respond, NoReq, KeyNotFound, TypeOK
  <2>2. \A h \in Height : Clean(reported'[h])
    BY <1>4, <1>5 DEF Respond, TypeOK, history
  <2> QED BY <1>5, <2>1, <2>2 DEF Respond, server
<1>6. ASSUME NEW r \in Worker, Panic(r) PROVE CleanParts'
  <2>1. ListsClean'
    BY <1>6, NothingIsClean DEF Panic, NoReq, KeyNotFound, TypeOK
  <2> QED BY <1>6, <2>1 DEF Panic, server, history
<1>7. ASSUME NEW r \in Worker, AtTx(r) PROVE Amount[CurrentStake(r)] \in Nat
  BY <1>7, CurrentStakeType, ChainAssumption
<1>8. ASSUME NEW r \in Worker, Handle(r) PROVE CleanParts'
  <2>1. CASE ReadReturns(r)
    BY <1>3, <1>4, <2>1, StakeAmountsType DEF ReadReturns
  <2>2. CASE PutReturns(r)
    <3>1. \A k \in Key : Clean(db'[k])
      BY <2>2 DEF PutReturns, TypeOK
    <3>2. ListsClean'
      BY <2>2 DEF PutReturns, TypeOK, ReqType
    <3> QED BY <2>2, <3>1, <3>2 DEF PutReturns, server, history
  <2>3. CASE Reply(r)
    BY <1>4, <1>5, <2>3 DEF Reply
  <2>4. CASE PanicNilHandle(r)
    BY <1>6, <2>4 DEF PanicNilHandle
  <2> QED BY <1>8, <2>1, <2>2, <2>3, <2>4 DEF Handle
<1>9. ASSUME NEW r \in Worker, HandleFails(r) PROVE CleanParts'
  <2>1. CASE TimeOut(r)
    <3>1. ListsClean'
      BY <2>1 DEF TimeOut, TypeOK, ReqType
    <3> QED BY <2>1, <3>1 DEF TimeOut, server, history
  <2>2. CASE ReadReturnsNoStake(r)
    BY <1>3, <1>4, <2>2 DEF ReadReturnsNoStake
  <2>3. CASE ReadReturnsGetFails(r)
    BY <1>3, <1>7, <2>3, NothingIsClean, FreshTypes DEF ReadReturnsGetFails
  <2>4. CASE ReplyGetFails(r)
    BY <1>5, <2>4, NothingIsClean DEF ReplyGetFails
  <2>5. CASE PanicNoStakeRPC(r) \/ PanicNilStake(r) \/ PanicPutFails(r)
    BY <1>6, <2>5 DEF PanicNoStakeRPC, PanicNilStake, PanicPutFails
  <2> QED BY <1>9, <2>1, <2>2, <2>3, <2>4, <2>5 DEF HandleFails
<1>10. ASSUME NEW r \in Worker, NEW h \in Height,
              BlockRequest(r, h) \/ OrphanRequest(r, h) \/ BlockRequestFails(r, h)
       PROVE  CleanParts'
  <2>1. CASE BlockRequestFails(r, h)
    BY <2>1 DEF BlockRequestFails, server, history
  <2>2. CASE BlockRequest(r, h) \/ OrphanRequest(r, h)
    <3>1. PICK orphan : Accept(r, h, orphan)
      BY <2>2 DEF BlockRequest, OrphanRequest
    <3>2. ListsClean'
      BY <3>1, NothingIsClean DEF Accept, NoReq, KeyNotFound, TypeOK
    <3> QED BY <3>1, <3>2 DEF Accept, server, history
  <2> QED BY <1>10, <2>1, <2>2
<1>11. CASE UNCHANGED vars
  BY <1>11 DEF vars
<1> QED BY <1>1, <1>2, <1>8, <1>9, <1>10, <1>11 DEF Next, ServerStep

\* No stake is ever stored or reported twice for a height, except from the
\* snapshot and from the snapshot block itself.
THEOREM NoDoubles == Spec => []NoDoubleEntry
<1>1. Init => CleanInv
  <2> SUFFICES ASSUME Init PROVE CleanParts
    BY InitType DEF CleanInv
  <2>1. StoredClean /\ ListsClean
    BY NothingIsClean DEF Init, StoredClean, ListsClean, NoEntries, NoReq, KeyNotFound
  <2>2. MapClean
    BY NothingIsClean DEF Init, MapClean, NoEntries
  <2> QED BY <2>1, <2>2 DEF CleanParts
<1>2. CleanInv /\ [Next]_vars => CleanInv'
  BY NextType, NextClean DEF CleanInv
<1>3. CleanInv => NoDoubleEntry
  BY DEF CleanInv, CleanParts, StoredClean, Clean, NoDoubleEntry
<1> QED BY <1>1, <1>2, <1>3, PTL DEF Spec
=============================================================================
