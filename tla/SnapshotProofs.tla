--------------------------- MODULE SnapshotProofs ---------------------------
(* What the first start copies from the snapshot: SnapshotKeepsFirst, for    *)
(* every snapshot, chain, number of handlers and order of requests.          *)
EXTENDS ReturnStakesProofs

-----------------------------------------------------------------------------
(* The inductive invariant. *)

RowStake(j) == SnapshotRows[j].stake

\* The rows that GenStakesForSnapshot keeps: all of the validators, and of the
\* guardians and edge nodes the first of a return height.
Kept(j) ==
    /\ Withdrawn(RowStake(j))
    /\ Pool[RowStake(j)] = "vcp" \/ ~Shadowed(j)

\* Before the adaptor serves there are no requests.
NoRequestsYet == phase # "serving" => \A r \in Worker : req[r].pc = "idle"

\* The map has a list for exactly the return heights the scan has met.
MapFollowsScan ==
    /\ phase = "down" => row = 1
    /\ phase \in {"down", "scan"} =>
          \A rh \in Key : returnStakeTxsMap[rh] # KeyNotFound <=>
              \E i \in DOMAIN SnapshotRows :
                  i < row /\ Withdrawn(RowStake(i)) /\ ReturnHeight(RowStake(i)) = rh

\* Where the stake of a kept row is while nothing has failed: in the map once it
\* is scanned, then in the map or in the database, and while blocks are served
\* in the database and in every list that a handler is about to put there.
Placed(j) ==
    LET s == RowStake(j)
        scanned == returnStakeTxsMap[ReturnHeight(s)]
        key == WithdrawnAt[s] + LockPeriod
    IN  /\ phase \in {"down", "scan"} /\ j < row => Holds(scanned, s)
        /\ phase = "store" => IF scanned # KeyNotFound THEN Holds(scanned, s) ELSE Holds(db[key], s)
        /\ phase = "serving" =>
              /\ Holds(db[key], s)
              /\ \A r \in Worker : req[r].pc = "put" /\ WithdrawKey(req[r].h) = key =>
                    Holds(req[r].list, s)

Undisturbed ==
    /\ phase = "down" => ~dirExists
    /\ phase \in {"scan", "store"} => open
    /\ \A j \in DOMAIN SnapshotRows : Kept(j) => Placed(j)

SnapshotParts == NoRequestsYet /\ MapFollowsScan /\ (faults = 0 => Undisturbed)
SnapshotInv == TypeOK /\ SnapshotParts

-----------------------------------------------------------------------------
(* Lemmas. *)

\* The stake of a row, its return height and its key in the database.
LEMMA RowFacts ==
    ASSUME NEW j \in DOMAIN SnapshotRows
    PROVE  /\ j \in Nat \ {0} /\ RowStake(j) \in Stake
           /\ WithdrawnAt[RowStake(j)] \in Nat
           /\ ReturnHeight(RowStake(j)) \in Key
           /\ WithdrawnAt[RowStake(j)] + LockPeriod \in Key
           /\ SnapshotKey(ReturnHeight(RowStake(j))) = WithdrawnAt[RowStake(j)] + LockPeriod
<1>1. RowStake(j) \in Stake
  BY SnapshotRowType DEF RowStake
<1>2. j \in Nat \ {0}
  BY SnapshotAssumption, LenProperties
<1>3. WithdrawnAt[RowStake(j)] \in 0..Never /\ LockPeriod \in Nat \ {0} /\ MaxHeight \in Nat
  BY <1>1, ChainAssumption
<1> QED BY <1>1, <1>2, <1>3 DEF ReturnHeight, SnapshotKey, Key, Never

\* A row is shadowed by an earlier withdrawn row of its return height.
LEMMA ShadowedRow ==
    ASSUME NEW j \in DOMAIN SnapshotRows
    PROVE  Shadowed(j) <=>
               \E i \in DOMAIN SnapshotRows :
                   /\ i < j /\ Withdrawn(RowStake(i))
                   /\ ReturnHeight(RowStake(i)) = ReturnHeight(RowStake(j))
<1>1. DOMAIN SnapshotRows = 1..Len(SnapshotRows) /\ Len(SnapshotRows) \in Nat
  BY SnapshotAssumption, LenProperties
<1>2. \A i : i \in 1..(j - 1) <=> i \in DOMAIN SnapshotRows /\ i < j
  BY <1>1
<1>3. \A i \in DOMAIN SnapshotRows :
          WithdrawnAt[RowStake(i)] = WithdrawnAt[RowStake(j)]
              <=> ReturnHeight(RowStake(i)) = ReturnHeight(RowStake(j))
  BY RowFacts, ChainAssumption DEF ReturnHeight
<1> QED BY <1>2, <1>3 DEF Shadowed, RowStake

\* What a longer list holds.
LEMMA AppendHolds ==
    ASSUME NEW list \in ReturnStakeTxs, NEW e \in ReturnStakeTx
    PROVE  /\ \A s : Holds(list, s) => Holds(Append(list, e), s) /\ Holds(AddOnce(list, e), s)
           /\ Holds(Append(list, e), e.stake)
           /\ Append(list, e) # KeyNotFound
<1> DEFINE app == Append(list, e)
<1>1. /\ Len(list) \in Nat /\ DOMAIN list = 1..Len(list)
      /\ DOMAIN app = 1..(Len(list) + 1)
      /\ \A n \in 1..Len(list) : app[n] = list[n]
      /\ app[Len(list) + 1] = e
  BY AppendProperties, LenProperties DEF ReturnStakeTxs
<1> HIDE DEF app
<1>2. Len(list) + 1 \in DOMAIN app /\ \A n \in DOMAIN list : n \in DOMAIN app /\ app[n] = list[n]
  BY <1>1
<1>3. \A s : Holds(list, s) => Holds(app, s)
  BY <1>2 DEF Holds
<1>4. Holds(app, e.stake)
  BY <1>1, <1>2 DEF Holds
<1>5. app # KeyNotFound
  BY <1>2 DEF KeyNotFound
<1> QED BY <1>3, <1>4, <1>5 DEF AddOnce, app

\* The empty list.
LEMMA NothingHeld == \A s : ~Holds(KeyNotFound, s)
BY DEF Holds, KeyNotFound

\* GenStakesForSnapshot adds a row to the map exactly when it is to be kept.
LEMMA ScanKeeps ==
    ASSUME SnapshotInv, phase = "scan", row \in DOMAIN SnapshotRows,
           Withdrawn(RowStake(row)), NEW rh, rh = ReturnHeight(RowStake(row)),
           NEW e, e = SnapshotEntry(SnapshotRows[row])
    PROVE  GrowMap(rh, e) =
               IF Kept(row) THEN [returnStakeTxsMap EXCEPT ![rh] = Append(@, e)]
                            ELSE returnStakeTxsMap
<1>1. rh \in Key /\ returnStakeTxsMap \in [Key -> ReturnStakeTxs]
  BY RowFacts DEF SnapshotInv, TypeOK
<1>2. returnStakeTxsMap[rh] # KeyNotFound <=> Shadowed(row)
  BY <1>1, ShadowedRow DEF SnapshotInv, SnapshotParts, MapFollowsScan
<1>3. e.stake = RowStake(row)
  BY DEF SnapshotEntry, RowStake
<1>4. Kept(row) <=> returnStakeTxsMap[rh] = KeyNotFound \/ Pool[e.stake] = "vcp"
  BY <1>2, <1>3 DEF Kept
<1>5. CASE Kept(row)
  BY <1>4, <1>5 DEF GrowMap
<1>6. CASE ~Kept(row)
  <2>1. GrowMap(rh, e) = [returnStakeTxsMap EXCEPT ![rh] = @]
    BY <1>4, <1>6 DEF GrowMap
  <2> QED BY <1>1, <1>6, <2>1
<1> QED BY <1>5, <1>6

-----------------------------------------------------------------------------
(* The invariant is inductive: the first start. *)

\* ScanRow: a row moves into the map, or is dropped for good.
LEMMA ScanRowStep ==
    ASSUME SnapshotInv, ScanRow
    PROVE  SnapshotParts'
<1> DEFINE s == RowStake(row)
           rh == ReturnHeight(s)
           e == SnapshotEntry(SnapshotRows[row])
           map == returnStakeTxsMap
<1>1. /\ phase = "scan" /\ row \in DOMAIN SnapshotRows /\ row' = row + 1
      /\ phase' = phase /\ db' = db /\ req' = req /\ faults' = faults
      /\ dirExists' = dirExists /\ open' = open
      /\ map' = IF Withdrawn(s) THEN GrowMap(rh, e) ELSE map
  BY DEF ScanRow, RowStake
<1>2. /\ s \in Stake /\ rh \in Key /\ row \in Nat /\ e \in ReturnStakeTx /\ e.stake = s
      /\ map \in [Key -> ReturnStakeTxs]
  BY <1>1, RowFacts, EntryTypes DEF SnapshotEntry, RowStake, SnapshotInv, TypeOK
<1>3. /\ Kept(row) => map' = [map EXCEPT ![rh] = Append(@, e)]
      /\ ~Kept(row) => map' = map
  BY <1>1, ScanKeeps DEF Kept
<1>4. \A i \in DOMAIN SnapshotRows : i < row' <=> i < row \/ i = row
  BY <1>1, <1>2, RowFacts
<1> HIDE DEF e, rh, s
<1>5. ASSUME NEW k \in Key
      PROVE  /\ \A t : Holds(map[k], t) => Holds(map'[k], t)
             /\ map'[k] # KeyNotFound <=> map[k] # KeyNotFound \/ (k = rh /\ Kept(row))
  <2>1. map[k] \in ReturnStakeTxs
    BY <1>2
  <2>2. CASE k = rh /\ Kept(row)
    <3>1. map'[k] = Append(map[k], e)
      BY <1>2, <1>3, <2>2
    <3> QED BY <1>2, <2>1, <2>2, <3>1, AppendHolds
  <2>3. CASE ~(k = rh /\ Kept(row))
    <3>1. map'[k] = map[k]
      BY <1>2, <1>3, <2>3
    <3> QED BY <2>1, <2>3, <3>1
  <2> QED BY <2>2, <2>3
<1>6. Kept(row) => Holds(map'[rh], s)
  <2> SUFFICES ASSUME Kept(row) PROVE Holds(map'[rh], s)
    OBVIOUS
  <2>1. map'[rh] = Append(map[rh], e) /\ map[rh] \in ReturnStakeTxs
    BY <1>2, <1>3
  <2> QED BY <1>2, <2>1, AppendHolds
<1>7. NoRequestsYet'
  BY <1>1 DEF SnapshotInv, SnapshotParts, NoRequestsYet
<1>8. MapFollowsScan'
  <2>1. \A k \in Key : map[k] # KeyNotFound <=>
            \E i \in DOMAIN SnapshotRows :
                i < row /\ Withdrawn(RowStake(i)) /\ ReturnHeight(RowStake(i)) = k
    BY <1>1 DEF SnapshotInv, SnapshotParts, MapFollowsScan
  <2>2. Shadowed(row) => map[rh] # KeyNotFound
    BY <1>1, <1>2, <2>1, ShadowedRow DEF rh, s
  <2>3. Withdrawn(s) /\ ~Kept(row) => map[rh] # KeyNotFound
    BY <2>2 DEF Kept, s
  <2>4. Kept(row) => Withdrawn(s)
    BY DEF Kept, s
  <2>5. ASSUME NEW k \in Key
        PROVE  map'[k] # KeyNotFound <=>
                  \E i \in DOMAIN SnapshotRows :
                      i < row' /\ Withdrawn(RowStake(i)) /\ ReturnHeight(RowStake(i)) = k
    <3>1. map'[k] # KeyNotFound <=> map[k] # KeyNotFound \/ (k = rh /\ Withdrawn(s))
      BY <1>5, <2>3, <2>4
    <3> QED BY <1>1, <1>4, <2>1, <3>1 DEF rh, s
  <2> QED BY <1>1, <2>5 DEF MapFollowsScan
<1>9. ASSUME faults' = 0
       PROVE  Undisturbed'
  <2>1. Undisturbed
    BY <1>1, <1>9 DEF SnapshotInv, SnapshotParts
  <2>2. ASSUME NEW j \in DOMAIN SnapshotRows, Kept(j)
        PROVE  Placed(j)'
    <3>1. ReturnHeight(RowStake(j)) \in Key
      BY RowFacts
    <3>2. j < row => Holds(map'[ReturnHeight(RowStake(j))], RowStake(j))
      BY <1>1, <1>5, <2>1, <2>2, <3>1 DEF Undisturbed, Placed
    <3>3. j < row' => Holds(map'[ReturnHeight(RowStake(j))], RowStake(j))
      BY <1>4, <1>6, <2>2, <3>2 DEF rh, s
    <3> QED BY <1>1, <3>3 DEF Placed, Holds
  <2> QED BY <1>1, <2>1, <2>2 DEF Undisturbed
<1> QED BY <1>7, <1>8, <1>9 DEF SnapshotParts

\* The other steps of the start-up.
LEMMA BootStep ==
    ASSUME SnapshotInv, Boot
    PROVE  SnapshotParts'
<1> USE DEF history, volatile
<1>0. TypeOK /\ NoRequestsYet /\ MapFollowsScan /\ (faults = 0 => Undisturbed)
  BY DEF SnapshotInv, SnapshotParts
<1>1. CASE Start
  <2>1. /\ phase = "down" /\ phase' = IF dirExists THEN "serving" ELSE "scan"
        /\ open' /\ db' = db /\ req' = req /\ faults' = faults /\ row' = row
        /\ returnStakeTxsMap' = returnStakeTxsMap
    BY <1>1 DEF Start, StartWith
  <2>2. NoRequestsYet'
    BY <1>0, <2>1 DEF NoRequestsYet
  <2>3. MapFollowsScan'
    BY <1>0, <2>1 DEF MapFollowsScan
  <2>4. ASSUME faults' = 0
        PROVE  Undisturbed'
    <3>1. Undisturbed /\ phase' = "scan"
      BY <1>0, <2>1, <2>4 DEF Undisturbed
    <3> QED BY <2>1, <3>1 DEF Undisturbed, Placed, Holds
  <2> QED BY <2>2, <2>3, <2>4 DEF SnapshotParts
<1>2. CASE ScanDone
  <2>1. /\ phase = "scan" /\ phase' = "store" /\ row \notin DOMAIN SnapshotRows
        /\ dirExists' = dirExists /\ open' = open /\ db' = db /\ req' = req /\ faults' = faults
        /\ row' = row /\ returnStakeTxsMap' = returnStakeTxsMap
    BY <1>2 DEF ScanDone
  <2>2. NoRequestsYet' /\ MapFollowsScan'
    BY <1>0, <2>1 DEF NoRequestsYet, MapFollowsScan
  <2>3. \A j \in DOMAIN SnapshotRows : j < row
    BY <1>0, <2>1, SnapshotAssumption, LenProperties DEF TypeOK
  <2>4. ASSUME faults' = 0
        PROVE  Undisturbed'
    <3>1. Undisturbed
      BY <1>0, <2>1, <2>4
    <3>2. ASSUME NEW j \in DOMAIN SnapshotRows, Kept(j)
          PROVE  Placed(j)'
      <4>1. Holds(returnStakeTxsMap[ReturnHeight(RowStake(j))], RowStake(j))
        BY <2>1, <2>3, <3>1, <3>2 DEF Undisturbed, Placed
      <4>2. returnStakeTxsMap[ReturnHeight(RowStake(j))] # KeyNotFound
        BY <4>1, NothingHeld
      <4> QED BY <2>1, <4>1, <4>2 DEF Placed, Holds
    <3> QED BY <2>1, <3>1, <3>2 DEF Undisturbed
  <2> QED BY <2>2, <2>4 DEF SnapshotParts
<1>3. ASSUME NEW rh \in Key, StorePut(rh)
      PROVE  SnapshotParts'
  <2>1. /\ phase = "store" /\ phase' = phase /\ open /\ open' = open /\ req' = req /\ faults' = faults
        /\ returnStakeTxsMap[rh] # KeyNotFound
        /\ returnStakeTxsMap' = [returnStakeTxsMap EXCEPT ![rh] = KeyNotFound]
        /\ db' = [db EXCEPT ![SnapshotKey(rh)] = returnStakeTxsMap[rh]]
        /\ dirExists' = dirExists
    BY <1>3 DEF StorePut, Visit
  <2>2. NoRequestsYet' /\ MapFollowsScan'
    BY <1>0, <2>1 DEF NoRequestsYet, MapFollowsScan
  <2>3. ASSUME faults' = 0
        PROVE  Undisturbed'
    <3>1. Undisturbed
      BY <1>0, <2>1, <2>3
    <3>2. ASSUME NEW j \in DOMAIN SnapshotRows, Kept(j)
          PROVE  Placed(j)'
      <4> DEFINE s == RowStake(j)
                 at == ReturnHeight(s)
                 key == WithdrawnAt[s] + LockPeriod
      <4>1. at \in Key /\ key \in Key /\ SnapshotKey(at) = key
        BY RowFacts
      <4>2. IF returnStakeTxsMap[at] # KeyNotFound THEN Holds(returnStakeTxsMap[at], s)
                                                   ELSE Holds(db[key], s)
        BY <2>1, <3>1, <3>2 DEF Undisturbed, Placed
      <4>3. CASE at = rh
        <5>1. returnStakeTxsMap'[at] = KeyNotFound /\ db'[key] = returnStakeTxsMap[at]
          BY <1>0, <2>1, <4>1, <4>3 DEF TypeOK
        <5>2. Holds(db'[key], s)
          BY <2>1, <4>2, <4>3, <5>1
        <5> QED BY <2>1, <5>1, <5>2 DEF Placed, Holds
      <4>4. CASE at # rh
        <5>1. key # SnapshotKey(rh)
          BY <4>1, <4>4, ChainAssumption DEF SnapshotKey, Key
        <5>2. returnStakeTxsMap'[at] = returnStakeTxsMap[at] /\ db'[key] = db[key]
          BY <1>0, <2>1, <4>1, <4>4, <5>1 DEF TypeOK
        <5> QED BY <2>1, <4>2, <5>2 DEF Placed, Holds
      <4> QED BY <4>3, <4>4
    <3> QED BY <2>1, <3>1, <3>2 DEF Undisturbed
  <2> QED BY <2>2, <2>3 DEF SnapshotParts
<1>4. CASE StoreDone
  <2>1. /\ phase = "store" /\ phase' = "serving" /\ returnStakeTxsMap = NoEntries
        /\ dirExists' = dirExists /\ open' = open /\ db' = db /\ req' = req /\ faults' = faults
        /\ row' = row /\ returnStakeTxsMap' = returnStakeTxsMap
    BY <1>4 DEF StoreDone
  <2>2. NoRequestsYet' /\ MapFollowsScan'
    BY <1>0, <2>1 DEF NoRequestsYet, MapFollowsScan
  <2>3. ASSUME faults' = 0
        PROVE  Undisturbed'
    <3>1. Undisturbed
      BY <1>0, <2>1, <2>3
    <3>2. ASSUME NEW j \in DOMAIN SnapshotRows, Kept(j)
          PROVE  Placed(j)'
      <4>1. returnStakeTxsMap[ReturnHeight(RowStake(j))] = KeyNotFound
        BY <2>1, RowFacts DEF NoEntries
      <4>2. Holds(db[WithdrawnAt[RowStake(j)] + LockPeriod], RowStake(j))
        BY <2>1, <3>1, <3>2, <4>1 DEF Undisturbed, Placed
      <4>3. \A r \in Worker : req'[r].pc # "put"
        BY <1>0, <2>1 DEF NoRequestsYet
      <4> QED BY <2>1, <4>2, <4>3 DEF Placed, Holds
    <3> QED BY <2>1, <3>2 DEF Undisturbed
  <2> QED BY <2>2, <2>3 DEF SnapshotParts
<1> QED BY <1>1, <1>2, <1>3, <1>4, ScanRowStep DEF Boot

\* After a failure the rest of the invariant still holds.
LEMMA FaultIsCounted ==
    ASSUME TypeOK, NEW f, Fault(f)
    PROVE  faults' # 0
BY FaultAssumption DEF TypeOK, Fault

\* A start that fails.
LEMMA BootFailsStep ==
    ASSUME SnapshotInv, BootFails
    PROVE  SnapshotParts'
<1> USE DEF history, volatile
<1>0. TypeOK /\ NoRequestsYet /\ MapFollowsScan /\ (faults = 0 => Undisturbed)
  BY DEF SnapshotInv, SnapshotParts
<1>1. CASE StartOpenFails
  <2>1. /\ phase = "down" /\ phase' \in {"serving", "scan"}
        /\ db' = db /\ req' = req /\ row' = row /\ returnStakeTxsMap' = returnStakeTxsMap
    BY <1>1 DEF StartOpenFails, StartWith
  <2>2. NoRequestsYet' /\ MapFollowsScan'
    BY <1>0, <2>1 DEF NoRequestsYet, MapFollowsScan
  <2> QED BY <1>0, <1>1, <2>2, FaultIsCounted DEF SnapshotParts, StartOpenFails
<1>2. CASE ScanFails
  <2>1. /\ phase = "scan" /\ phase' = "serving"
        /\ db' = db /\ req' = req /\ returnStakeTxsMap' = NoEntries
    BY <1>2 DEF ScanFails
  <2>2. NoRequestsYet' /\ MapFollowsScan'
    BY <2>1 DEF NoRequestsYet, MapFollowsScan
  <2> QED BY <1>0, <1>2, <2>2, FaultIsCounted DEF SnapshotParts, ScanFails
<1>3. ASSUME NEW rh \in Key, StorePutFails(rh)
      PROVE  SnapshotParts'
  <2>1. /\ phase = "store" /\ phase' = phase /\ db' = db /\ req' = req
        /\ returnStakeTxsMap' = [returnStakeTxsMap EXCEPT ![rh] = KeyNotFound]
    BY <1>3 DEF StorePutFails, Visit
  <2>2. NoRequestsYet' /\ MapFollowsScan'
    BY <1>0, <2>1 DEF NoRequestsYet, MapFollowsScan
  <2> QED BY <1>0, <1>3, <2>2, FaultIsCounted DEF SnapshotParts, StorePutFails
<1>4. CASE StoreNilHandle \/ Crash
  <2>1. /\ phase' = "down" /\ row' = 1 /\ db' = db /\ returnStakeTxsMap' = NoEntries
        /\ req' = [r \in Worker |-> NoReq]
    BY <1>4 DEF StoreNilHandle, Crash, Die
  <2>2. \A r \in Worker : req'[r].pc = "idle" /\ req'[r].list = KeyNotFound
    BY <2>1 DEF NoReq, KeyNotFound
  <2>3. NoRequestsYet'
    BY <2>2 DEF NoRequestsYet
  <2>4. MapFollowsScan'
    BY <2>1, RowFacts DEF MapFollowsScan, NoEntries
  <2>5. faults' # 0
    <3>1. CASE Crash
      BY <1>0, <3>1, FaultIsCounted DEF Crash
    <3>2. CASE StoreNilHandle
      BY <1>0, <3>2 DEF StoreNilHandle, Undisturbed
    <3> QED BY <1>4, <3>1, <3>2
  <2> QED BY <2>3, <2>4, <2>5 DEF SnapshotParts
<1> QED BY <1>1, <1>2, <1>3, <1>4 DEF BootFails

-----------------------------------------------------------------------------
(* The handlers, any number of them on the same block. *)

\* A handler changes the database and its list; if both keep what they had, or
\* the step is a failure, the invariant is kept.
LEMMA ServingStep ==
    ASSUME SnapshotInv, phase = "serving", phase' = "serving",
           returnStakeTxsMap' = returnStakeTxsMap,
           faults' # 0 \/
             /\ faults' = faults
             /\ \A k \in Key : \A s : Holds(db[k], s) => Holds(db'[k], s)
             /\ \A r \in Worker : req'[r].pc = "put" =>
                   \/ req'[r].h = req[r].h /\ req'[r].list = req[r].list /\ req[r].pc = "put"
                   \/ \A s : Holds(db[WithdrawKey(req'[r].h)], s) => Holds(req'[r].list, s)
    PROVE  SnapshotParts'
<1>1. NoRequestsYet' /\ MapFollowsScan'
  BY DEF NoRequestsYet, MapFollowsScan
<1>2. ASSUME faults' = 0
      PROVE  Undisturbed'
  <2>1. Undisturbed
    BY <1>2 DEF SnapshotInv, SnapshotParts
  <2>2. ASSUME NEW j \in DOMAIN SnapshotRows, Kept(j)
        PROVE  Placed(j)'
    <3> DEFINE s == RowStake(j)
               key == WithdrawnAt[s] + LockPeriod
    <3>1. Holds(db[key], s) /\ \A r \in Worker :
              req[r].pc = "put" /\ WithdrawKey(req[r].h) = key => Holds(req[r].list, s)
      BY <2>1, <2>2 DEF Undisturbed, Placed
    <3>2. key \in Key
      BY RowFacts
    <3>3. Holds(db'[key], s)
      BY <1>2, <3>1, <3>2
    <3>4. \A r \in Worker : req'[r].pc = "put" /\ WithdrawKey(req'[r].h) = key =>
              Holds(req'[r].list, s)
      BY <1>2, <3>1
    <3> QED BY <3>3, <3>4 DEF Placed, Holds
  <2> QED BY <2>2 DEF Undisturbed
<1> QED BY <1>1, <1>2 DEF SnapshotParts

\* ParseTx up to its Put.
LEMMA RememberStep ==
    ASSUME SnapshotInv, NEW r \in Worker, NEW amount \in Nat, NEW stored \in ReturnStakeTxs,
           Remember(r, amount, stored),
           faults' # 0 \/ (faults' = faults /\ stored = db[WithdrawKey(req[r].h)])
    PROVE  SnapshotParts'
<1> DEFINE e == TxEntry(CurrentStake(r), amount)
           list == AddOnce(stored, e)
<1>1. /\ AtTx(r) /\ db' = db /\ phase' = phase /\ returnStakeTxsMap' = returnStakeTxsMap
      /\ req' = [req EXCEPT ![r].pc = "put", ![r].list = list]
  BY DEF Remember, server
<1>2. phase = "serving" /\ TypeOK
  BY <1>1 DEF AtTx, SnapshotInv, SnapshotParts, NoRequestsYet
<1>3. e \in ReturnStakeTx /\ e.stake = CurrentStake(r)
  BY <1>1, <1>2, CurrentStakeType, EntryTypes DEF TxEntry
<1> HIDE DEF e
<1>4. \A s : Holds(stored, s) => Holds(list, s)
  BY <1>3, AppendHolds
<1>5. req'[r].list = list /\ req'[r].h = req[r].h /\ \A q \in Worker : q # r => req'[q] = req[q]
  BY <1>1, <1>2 DEF TypeOK, ReqType
<1> HIDE DEF list
<1>6. faults' # 0 \/ \A q \in Worker : req'[q].pc = "put" =>
          \/ req'[q].h = req[q].h /\ req'[q].list = req[q].list /\ req[q].pc = "put"
          \/ \A s : Holds(db[WithdrawKey(req'[q].h)], s) => Holds(req'[q].list, s)
  BY <1>4, <1>5
<1> QED BY <1>1, <1>2, <1>6, ServingStep

\* A step that writes nothing, and after which no new list is about to be put.
LEMMA ReadOnlyStep ==
    ASSUME SnapshotInv, phase = "serving", phase' = phase, returnStakeTxsMap' = returnStakeTxsMap,
           db' = db, faults' # 0 \/ faults' = faults,
           \A r \in Worker : \/ req'[r].list = KeyNotFound /\ req'[r].pc # "put"
                             \/ req'[r].list = req[r].list /\ req'[r].h = req[r].h
                                /\ req'[r].pc = req[r].pc
    PROVE  SnapshotParts'
BY ServingStep

\* A handler, one of its failures, or a new request.
LEMMA HandlerStep ==
    ASSUME SnapshotInv, NEW r \in Worker, Handle(r) \/ HandleFails(r)
    PROVE  SnapshotParts'
<1> USE DEF server
<1>0. TypeOK /\ NoRequestsYet
  BY DEF SnapshotInv, SnapshotParts
<1>1. req[r].pc # "idle" => phase = "serving"
  BY <1>0 DEF NoRequestsYet
<1>2. /\ req[r] \in ReqType /\ WithdrawKey(req[r].h) \in Key
      /\ db[WithdrawKey(req[r].h)] \in ReturnStakeTxs
  <2>1. req[r] \in ReqType /\ req[r].h \in Height
    BY <1>0 DEF TypeOK, ReqType
  <2>2. WithdrawKey(req[r].h) \in Key
    BY <2>1, ChainAssumption DEF Height, Key, Never, WithdrawKey
  <2> QED BY <1>0, <2>1, <2>2 DEF TypeOK
<1>3. CASE ReadReturns(r)
  BY <1>0, <1>2, <1>3, RememberStep, StakeAmountsType DEF ReadReturns
<1>4. CASE ReadReturnsNoStake(r)
  BY <1>0, <1>2, <1>4, RememberStep, FaultIsCounted DEF ReadReturnsNoStake
<1>5. CASE ReadReturnsGetFails(r)
  <2>1. Amount[CurrentStake(r)] \in Nat
    BY <1>0, <1>5, CurrentStakeType, ChainAssumption DEF ReadReturnsGetFails
  <2> QED BY <1>0, <1>5, <2>1, NothingHeld, FreshTypes, RememberStep, FaultIsCounted
          DEF ReadReturnsGetFails
<1>6. CASE PutReturns(r)
  <2> DEFINE key == WithdrawKey(req[r].h)
  <2>1. /\ req[r].pc = "put" /\ phase' = phase /\ returnStakeTxsMap' = returnStakeTxsMap
        /\ db' = [db EXCEPT ![key] = req[r].list] /\ faults' = faults
        /\ req' = [req EXCEPT ![r].pc = "tx", ![r].i = @ + 1]
    BY <1>6 DEF PutReturns
  <2>2. db'[key] = req[r].list /\ \A k \in Key : k # key => db'[k] = db[k]
    BY <1>0, <1>2, <2>1 DEF TypeOK
  <2>3. /\ req'[r].pc = "tx" /\ req'[r].list = req[r].list
        /\ \A q \in Worker : q # r => req'[q] = req[q]
    BY <1>0, <1>2, <2>1 DEF TypeOK, ReqType
  <2>4. NoRequestsYet' /\ MapFollowsScan'
    BY <1>1, <2>1, <1>0 DEF NoRequestsYet, MapFollowsScan
  <2>5. ASSUME faults' = 0
        PROVE  Undisturbed'
    <3>1. Undisturbed
      BY <2>1, <2>5 DEF SnapshotInv, SnapshotParts
    <3>2. ASSUME NEW j \in DOMAIN SnapshotRows, Kept(j)
          PROVE  Placed(j)'
      <4> DEFINE s == RowStake(j)
                 at == WithdrawnAt[s] + LockPeriod
      <4>1. Holds(db[at], s) /\ \A q \in Worker :
                req[q].pc = "put" /\ WithdrawKey(req[q].h) = at => Holds(req[q].list, s)
        BY <1>1, <2>1, <3>1, <3>2 DEF Undisturbed, Placed
      <4>2. at \in Key
        BY RowFacts
      <4>3. Holds(db'[at], s)
        BY <2>1, <2>2, <4>1, <4>2
      <4>4. \A q \in Worker : req'[q].pc = "put" /\ WithdrawKey(req'[q].h) = at =>
                Holds(req'[q].list, s)
        BY <2>3, <4>1
      <4> QED BY <1>1, <2>1, <4>3, <4>4 DEF Placed, Holds
    <3> QED BY <1>1, <2>1, <3>2 DEF Undisturbed
  <2> QED BY <2>4, <2>5 DEF SnapshotParts
<1>7. ASSUME req[r].pc # "idle", req' = [req EXCEPT ![r] = NoReq], UNCHANGED <<server, db>>,
             faults' # 0 \/ faults' = faults
      PROVE  SnapshotParts'
  <2>1. \A q \in Worker : \/ req'[q].list = KeyNotFound /\ req'[q].pc # "put"
                          \/ req'[q] = req[q]
    BY <1>0, <1>7 DEF TypeOK, NoReq, KeyNotFound
  <2> QED BY <1>1, <1>7, <2>1, ReadOnlyStep
<1>8. CASE Reply(r) \/ ReplyGetFails(r)
  BY <1>0, <1>7, <1>8, FaultIsCounted DEF Reply, ReplyGetFails, Respond, AtEnd
<1>9. CASE PanicNilHandle(r) \/ PanicNoStakeRPC(r) \/ PanicNilStake(r) \/ PanicPutFails(r)
  BY <1>0, <1>7, <1>9, FaultIsCounted
  DEF PanicNilHandle, PanicNoStakeRPC, PanicNilStake, PanicPutFails, Panic, AtTx
<1>10. CASE TimeOut(r)
  <2>1. \A q \in Worker : req'[q].list = req[q].list /\ req'[q].h = req[q].h /\ req'[q].pc = req[q].pc
    BY <1>0, <1>2, <1>10 DEF TimeOut, TypeOK, ReqType
  <2>2. req[r].pc # "idle" /\ UNCHANGED <<server, db>> /\ faults' # 0
    BY <1>0, <1>10, FaultIsCounted DEF TimeOut
  <2> QED BY <1>1, <2>1, <2>2, ReadOnlyStep
<1> QED BY <1>3, <1>4, <1>5, <1>6, <1>8, <1>9, <1>10 DEF Handle, HandleFails

\* A step of one request.
LEMMA RequestStep ==
    ASSUME SnapshotInv, NEW r \in Worker, NEW h \in Height,
           BlockRequest(r, h) \/ OrphanRequest(r, h) \/ BlockRequestFails(r, h)
    PROVE  SnapshotParts'
<1> USE DEF server
<1>0. TypeOK
  BY DEF SnapshotInv
<1>1. CASE BlockRequestFails(r, h)
  BY <1>0, <1>1, FaultIsCounted, ReadOnlyStep DEF BlockRequestFails
<1>2. CASE BlockRequest(r, h) \/ OrphanRequest(r, h)
  <2>1. PICK orphan : Accept(r, h, orphan)
    BY <1>2 DEF BlockRequest, OrphanRequest
  <2>2. faults' # 0 \/ faults' = faults
    BY <1>0, <1>2, FaultIsCounted DEF BlockRequest, OrphanRequest
  <2>3. \A q \in Worker : \/ req'[q].list = KeyNotFound /\ req'[q].pc # "put"
                          \/ req'[q] = req[q]
    BY <1>0, <2>1 DEF Accept, TypeOK, NoReq, KeyNotFound
  <2> QED BY <2>1, <2>2, <2>3, ReadOnlyStep DEF Accept
<1> QED BY <1>1, <1>2

-----------------------------------------------------------------------------
\* The first start copies the rows it keeps, and they stay in the database
\* whatever requests come in while it serves, as long as nothing has failed.
THEOREM SnapshotKept == Spec => []SnapshotKeepsFirst
<1>1. Init => SnapshotInv
  <2> SUFFICES ASSUME Init PROVE SnapshotParts
    BY InitType DEF SnapshotInv
  <2>1. NoRequestsYet
    BY DEF Init, NoRequestsYet, NoReq
  <2>2. MapFollowsScan
    BY RowFacts DEF Init, MapFollowsScan, NoEntries
  <2>3. Undisturbed
    BY RowFacts DEF Init, Undisturbed, Placed
  <2> QED BY <2>1, <2>2, <2>3 DEF SnapshotParts
<1>2. SnapshotInv /\ [Next]_vars => SnapshotInv'
  <2> SUFFICES ASSUME SnapshotInv, [Next]_vars PROVE SnapshotParts'
    BY NextType DEF SnapshotInv
  <2>1. CASE UNCHANGED vars
    BY <2>1 DEF vars, SnapshotInv, SnapshotParts, NoRequestsYet, MapFollowsScan,
                Undisturbed, Placed, Holds
  <2> QED BY <2>1, BootStep, BootFailsStep, HandlerStep, RequestStep DEF Next, ServerStep
<1>3. SnapshotInv => SnapshotKeepsFirst
  <2> SUFFICES ASSUME SnapshotInv, phase = "serving", faults = 0,
                      NEW j \in DOMAIN SnapshotRows, Withdrawn(RowStake(j))
               PROVE  Pool[RowStake(j)] = "vcp" \/ ~Shadowed(j) => Recorded(RowStake(j))
    BY DEF SnapshotKeepsFirst, RowStake
  <2> QED BY DEF SnapshotInv, SnapshotParts, Undisturbed, Placed, Recorded, Kept
<1> QED BY <1>1, <1>2, <1>3, PTL DEF Spec
=============================================================================
