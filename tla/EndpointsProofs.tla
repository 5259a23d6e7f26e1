--------------------------- MODULE EndpointsProofs ---------------------------
(* Theorems about Endpoints, for every node, set of transactions, number of  *)
(* clients and set of failures, with the process interrupted at any time.    *)
EXTENDS Endpoints, TLAPS

-----------------------------------------------------------------------------
(* The inductive invariant: the process, and the request of each client. *)

Statuses == {"not_found", "pending", "finalized", "abandoned"}

CallType ==
    [pc : {"idle", "call", "peers", "hung"}, endpoint : Endpoint \cup {"none"},
     tx : Tx \cup {"none"}, seen : Nat, end : {"none", "refused", "error", "panic", "answer"},
     status : Statuses \cup {"none"}, listed : SUBSET Tx]

TypeInv ==
    /\ online \in BOOLEAN
    /\ tip \in SnapshotHeight..MaxHeight
    /\ kind \in [Tx -> {"plain", "contract", "withdrawal"}]
    /\ txStatus \in [Tx -> Statuses]
    /\ call \in [Worker -> CallType]

\* Only a process that listens, and then knows the chain id of its node, has
\* requests or remembers how they ended.
Listening ==
    /\ main = "listening" => chainId = "theta"
    /\ main # "listening" => \A w \in Worker : call[w] = NoCall

\* A request that has not ended is for an endpoint with a node.
InFlight(c) ==
    c.pc # "idle" =>
        /\ c.endpoint \in Gated \cup Ungated
        /\ c.endpoint \in TxEndpoints => c.tx \in Tx
        /\ c.pc = "peers" => c.endpoint = "/network/status" /\ c.seen \in {0} \cup SnapshotHeight..tip

\* What a /network/status says, once it has an answer.
Announced(c) ==
    c.pc = "idle" /\ c.endpoint = "/network/status" /\ c.end = "answer" =>
        c.seen \in SnapshotHeight..tip

CallInv(c) == InFlight(c) /\ Announced(c)

Inv == TypeInv /\ Listening /\ \A w \in Worker : CallInv(call[w])

-----------------------------------------------------------------------------
(* Lemmas. *)

\* While the node goes on, what is true of a request stays true.
LEMMA CallStays ==
    ASSUME TypeInv, NEW c, CallInv(c), tip' \in Nat, tip <= tip'
    PROVE  CallInv(c)'
<1>1. \A n \in SnapshotHeight..tip : n \in SnapshotHeight..tip'
  BY EndpointsAssumption DEF TypeInv
<1> QED BY <1>1 DEF CallInv, InFlight, Announced

\* A client that has asked for nothing.
LEMMA NoCallInv == NoCall \in CallType /\ CallInv(NoCall)
BY DEF NoCall, CallType, CallInv, InFlight, Announced

\* A step of one request that leaves process and node alone.
LEMMA RequestStep ==
    ASSUME Inv, NEW w \in Worker, NEW d \in CallType, CallInv(d),
           main = "listening", call' = [call EXCEPT ![w] = d],
           UNCHANGED <<life, online, chainId, theNode>>
    PROVE  Inv'
<1>1. main' = main /\ online' = online /\ chainId' = chainId /\ tip' = tip
      /\ kind' = kind /\ txStatus' = txStatus
  BY DEF life, theNode
<1>2. TypeInv'
  BY <1>1 DEF Inv, TypeInv
<1>3. Listening'
  BY <1>1 DEF Inv, Listening
<1>4. ASSUME NEW v \in Worker
      PROVE  CallInv(call[v])'
  <2>1. CallInv(call'[v])
    BY DEF Inv, TypeInv
  <2> QED BY <1>1, <2>1 DEF CallInv, InFlight, Announced
<1> QED BY <1>2, <1>3, <1>4 DEF Inv

\* A call to the node is made by a request in flight.
LEMMA CallMade ==
    ASSUME Inv, NEW w \in Worker, NEW pc \in {"call", "peers"}, NEW endpoints, Calls(w, pc, endpoints)
    PROVE  /\ main = "listening" /\ call[w] \in CallType /\ CallInv(call[w])
           /\ call[w].pc = pc /\ call[w].endpoint \in endpoints
           /\ UNCHANGED <<life, online, chainId, theNode>>
          
<1>1. call[w] \in CallType /\ CallInv(call[w]) /\ call[w].pc = pc /\ call[w].endpoint \in endpoints
  BY DEF Inv, TypeInv, Calls
<1>2. main = "listening"
  BY <1>1 DEF Inv, Listening, NoCall
<1> QED BY <1>1, <1>2 DEF Calls

\* A request that ends without an answer, or with one that names no block but a
\* finalized one.
LEMMA EndStep ==
    ASSUME Inv, NEW w \in Worker, NEW pc \in {"call", "peers"}, NEW endpoints, Calls(w, pc, endpoints),
           NEW how \in {"error", "panic", "answer"}, End(w, how),
           how = "answer" /\ call[w].endpoint = "/network/status" => call[w].seen \in SnapshotHeight..tip
    PROVE  Inv'
<1> DEFINE d == [call[w] EXCEPT !.pc = "idle", !.end = how]
<1>1. /\ main = "listening" /\ call[w] \in CallType /\ CallInv(call[w])
      /\ UNCHANGED <<life, online, chainId, theNode>>
     
  BY CallMade
<1>2. d \in CallType /\ d.pc = "idle" /\ d.end = how /\ d.endpoint = call[w].endpoint /\ d.seen = call[w].seen
  BY <1>1 DEF CallType
<1>3. CallInv(d)
  BY <1>2 DEF CallInv, InFlight, Announced
<1>4. call' = [call EXCEPT ![w] = d]
  BY DEF End, Inv, TypeInv
<1> QED BY <1>1, <1>2, <1>3, <1>4, RequestStep

\* The first call of NetworkStatus: the node's tip, or 0 for a zero status.
LEMMA StatusStep ==
    ASSUME Inv, NEW w \in Worker, NEW height \in Nat, height = 0 \/ height \in SnapshotHeight..tip,
           GetStatus(w, height)
    PROVE  Inv'
<1> DEFINE d == [call[w] EXCEPT !.pc = "peers", !.seen = height]
<1>1. /\ main = "listening" /\ call[w] \in CallType /\ CallInv(call[w])
      /\ call[w].endpoint = "/network/status" /\ call[w].pc = "call"
      /\ UNCHANGED <<life, online, chainId, theNode>>
  BY CallMade DEF GetStatus
<1>2. d \in CallType /\ d.pc = "peers" /\ d.endpoint = "/network/status" /\ d.seen = height
  BY <1>1 DEF CallType
<1>3. CallInv(d)
  BY <1>1, <1>2 DEF CallInv, InFlight, Announced, TxEndpoints
<1>4. call' = [call EXCEPT ![w] = d]
  BY DEF GetStatus, Inv, TypeInv
<1> QED BY <1>1, <1>2, <1>3, <1>4, RequestStep

-----------------------------------------------------------------------------
(* The invariant is inductive. *)

\* The process starts, stops or is interrupted.
LEMMA ProcessInv ==
    ASSUME Inv, Process
    PROVE  Inv'
<1>1. CASE Router
  <2>1. main = "router" /\ main' = "listening" /\ chainId' = "theta" /\ call' = call
        /\ online' = online /\ tip' = tip /\ kind' = kind /\ txStatus' = txStatus
    BY <1>1 DEF Router, Listen, theNode
  <2>2. TypeInv' /\ Listening'
    BY <2>1 DEF Inv, TypeInv, Listening
  <2>3. \A w \in Worker : CallInv(call[w])'
    BY <2>1 DEF Inv, CallInv, InFlight, Announced
  <2> QED BY <2>2, <2>3 DEF Inv
<1>2. CASE RouterFails
  <2>1. main = "router" /\ main' = "exited" /\ call' = call
        /\ online' = online /\ tip' = tip /\ kind' = kind /\ txStatus' = txStatus
    BY <1>2 DEF RouterFails, Fatal, theNode
  <2>2. TypeInv' /\ Listening'
    BY <2>1 DEF Inv, TypeInv, Listening
  <2>3. \A w \in Worker : CallInv(call[w])'
    BY <2>1 DEF Inv, CallInv, InFlight, Announced
  <2> QED BY <2>2, <2>3 DEF Inv
<1>3. ASSUME Cut, Other, main' # "exited" => (main' = "listening" <=> main = "listening")
      PROVE  Inv'
  <2>1. online' = online /\ tip' = tip /\ kind' = kind /\ txStatus' = txStatus
        /\ chainId' = chainId /\ called' = called
    BY <1>3 DEF Other, theNode
  <2>2. \A w \in Worker : call'[w] = NoCall \/ (main' # "exited" /\ call'[w] = call[w])
    BY <1>3 DEF Cut
  <2>3. call' \in [Worker -> CallType]
    BY <1>3, NoCallInv DEF Cut, Inv, TypeInv
  <2>4. TypeInv'
    BY <2>1, <2>3 DEF Inv, TypeInv
  <2>5. Listening'
    <3>1. CASE main' = "exited"
      BY <1>3, <3>1 DEF Cut, Listening, Inv
    <3>2. CASE main' # "exited"
      BY <1>3, <2>1, <3>2 DEF Cut, Listening, Inv
    <3> QED BY <3>1, <3>2
  <2>6. \A w \in Worker : CallInv(call'[w])
    BY <2>2, NoCallInv DEF Inv
  <2>7. \A w \in Worker : CallInv(call[w])'
    BY <2>1, <2>6 DEF CallInv, InFlight, Announced
  <2> QED BY <2>4, <2>5, <2>7 DEF Inv
<1>4. CASE ListenFails
  BY <1>3, <1>4 DEF ListenFails, Fatal
<1>5. CASE (Notify \/ Spawn \/ WatcherStep \/ Interrupt) /\ Cut /\ Other
  <2>1. main' # "exited" => (main' = "listening" <=> main = "listening")
    BY <1>5 DEF Notify, Spawn, WatcherStep, Receive, StopSignals, TimerFires, Interrupt
  <2> QED BY <1>3, <1>5, <2>1
<1> QED BY <1>1, <1>2, <1>4, <1>5 DEF Process

\* The node finalizes a block or moves a transaction.
LEMMA NodeInv ==
    ASSUME Inv, Finalize \/ \E t \in Tx : MoveTx(t)
    PROVE  Inv'
<1>1. main' = main /\ chainId' = chainId /\ online' = online /\ kind' = kind /\ call' = call
      /\ called' = called
  BY DEF Finalize, MoveTx, life
<1>2. tip' \in SnapshotHeight..MaxHeight /\ tip <= tip'
  BY EndpointsAssumption DEF Finalize, MoveTx, Inv, TypeInv
<1>3. txStatus' \in [Tx -> Statuses]
  BY DEF Finalize, MoveTx, TxMoves, Inv, TypeInv, Statuses
<1>4. TypeInv' /\ Listening'
  BY <1>1, <1>2, <1>3 DEF Inv, TypeInv, Listening
<1>5. tip' \in Nat
  BY <1>2, EndpointsAssumption
<1>6. \A w \in Worker : CallInv(call[w])'
  BY <1>1, <1>2, <1>5, CallStays DEF Inv
<1> QED BY <1>4, <1>6 DEF Inv

\* A request comes in.
LEMMA RequestInv ==
    ASSUME Inv, NEW w \in Worker, NEW e \in Endpoint, NEW t \in Tx \cup {"none"},
           NEW valid \in BOOLEAN, Request(w, e, t, valid)
    PROVE  Inv'
<1> DEFINE d == [NoCall EXCEPT
                   !.endpoint = e, !.tx = t, !.listed = call[w].listed,
                   !.pc = IF Refused(e, valid) \/ e \in Local THEN "idle" ELSE "call",
                   !.end = IF Refused(e, valid) THEN "refused"
                           ELSE IF e \in Local THEN "answer" ELSE "none"]
<1>1. call' = [call EXCEPT ![w] = d] /\ main = "listening"
      /\ UNCHANGED <<life, online, chainId, theNode>> /\ called' = called
      /\ (e \in TxEndpoints <=> t # "none")
  BY DEF Request
<1>2. call[w].listed \in SUBSET Tx
  BY DEF Inv, TypeInv, CallType
<1>3. /\ d.endpoint = e /\ d.tx = t /\ d.listed = call[w].listed /\ d.seen = 0 /\ d.status = "none"
      /\ d.pc = IF Refused(e, valid) \/ e \in Local THEN "idle" ELSE "call"
      /\ d.end \in {"none", "refused", "answer"}
      /\ d.end = "answer" => e \in Local
  BY DEF NoCall, Refused, Local
<1>4. d \in CallType
  <2> DEFINE x == IF Refused(e, valid) \/ e \in Local THEN "idle" ELSE "call"
             y == IF Refused(e, valid) THEN "refused"
                  ELSE IF e \in Local THEN "answer" ELSE "none"
  <2>1. d = [NoCall EXCEPT !.endpoint = e, !.tx = t, !.listed = call[w].listed,
                           !.pc = x, !.end = y]
    OBVIOUS
  <2>2. x \in {"idle", "call"} /\ y \in {"none", "refused", "error", "panic", "answer"}
    OBVIOUS
  <2> HIDE DEF x, y, d
  <2> QED BY <1>2, <2>1, <2>2, NoCallInv DEF CallType
<1>5. CallInv(d)
  BY <1>1, <1>3 DEF CallInv, InFlight, Announced, Refused, Endpoint, Local, Gated, Ungated
<1> QED BY <1>1, <1>4, <1>5, RequestStep

\* A handler takes a step.
LEMMA HandleInv ==
    ASSUME Inv, NEW w \in Worker, Handle(w)
    PROVE  Inv'
<1>1. CASE CallElsewhere(w)
  <2>1. call[w].endpoint # "/network/status"
    BY <1>1 DEF CallElsewhere, Calls, Elsewhere, Gated
  <2> QED BY <1>1, <2>1, EndStep DEF CallElsewhere
<1>2. CASE Mempool(w)
  <2> DEFINE d == [call[w] EXCEPT !.pc = "idle", !.end = "answer",
                                  !.listed = {t \in Tx : txStatus[t] = "pending"}]
  <2>1. /\ main = "listening" /\ call[w] \in CallType /\ call[w].endpoint = "/mempool"
        /\ UNCHANGED <<life, online, chainId, theNode>>
    BY <1>2, CallMade DEF Mempool
  <2>2. d \in CallType /\ d.pc = "idle" /\ d.endpoint = "/mempool"
    BY <2>1 DEF CallType
  <2>3. CallInv(d)
    BY <2>2 DEF CallInv, InFlight, Announced
  <2>4. call' = [call EXCEPT ![w] = d]
    BY <1>2 DEF Mempool, Inv, TypeInv
  <2> QED BY <2>1, <2>2, <2>3, <2>4, RequestStep
<1>3. CASE GetTransaction(w)
  <2> DEFINE t == call[w].tx
             end == CASE txStatus[t] = "not_found" -> "error"
                      [] txStatus[t] # "not_found" /\ ParseTxPanics(t) -> "panic"
                      [] OTHER -> "answer"
             d == [call[w] EXCEPT !.pc = "idle", !.end = end, !.status = txStatus[t]]
  <2>1. /\ main = "listening" /\ call[w] \in CallType /\ call[w].endpoint \in TxEndpoints
        /\ UNCHANGED <<life, online, chainId, theNode>>
    BY <1>3, CallMade DEF GetTransaction
  <2>2. t \in Tx
    BY <1>3, CallMade DEF GetTransaction, CallInv, InFlight
  <2>3. txStatus[t] \in Statuses /\ end \in {"error", "panic", "answer"}
    BY <2>2 DEF Inv, TypeInv
  <2>4. d \in CallType /\ d.pc = "idle" /\ d.end = end /\ d.status = txStatus[t] /\ d.tx = t
        /\ d.endpoint \in TxEndpoints
    BY <2>1, <2>3 DEF CallType
  <2>5. CallInv(d)
    BY <2>4 DEF CallInv, InFlight, Announced, TxEndpoints
  <2>6. call' = [call EXCEPT ![w] = d]
    BY <1>3 DEF GetTransaction, Inv, TypeInv
  <2> QED BY <2>1, <2>4, <2>5, <2>6, RequestStep
<1>4. CASE NetworkStatus(w)
  <2>1. tip \in Nat /\ tip \in SnapshotHeight..tip
    BY EndpointsAssumption DEF Inv, TypeInv
  <2> QED BY <1>4, <2>1, StatusStep DEF NetworkStatus
<1>5. CASE GetPeers(w)
  <2>1. call[w] \in CallType /\ call[w].seen \in {0} \cup SnapshotHeight..tip
        /\ call[w].endpoint = "/network/status"
    BY <1>5, CallMade DEF GetPeers, CallInv, InFlight
  <2>2. PeersEnd(w) \in {"panic", "answer"}
        /\ (PeersEnd(w) = "answer" => call[w].seen \in SnapshotHeight..tip)
    BY <2>1 DEF PeersEnd
  <2> QED BY <1>5, <2>1, <2>2, EndStep DEF GetPeers
<1>6. CASE SkipEdgeNodePanics(w)
  BY <1>6, EndStep DEF SkipEdgeNodePanics
<1> QED BY <1>1, <1>2, <1>3, <1>4, <1>5, <1>6 DEF Handle

\* A call of a handler fails.
LEMMA HandleFailsInv ==
    ASSUME Inv, NEW w \in Worker, HandleFails(w)
    PROVE  Inv'
<1>1. CASE CallFails(w)
  BY <1>1, EndStep DEF CallFails
<1>2. CASE NetworkStatusZero(w)
  BY <1>2, StatusStep DEF NetworkStatusZero
<1>3. CASE NetworkStatusFails(w)
  BY <1>3, EndStep DEF NetworkStatusFails
<1>4. CASE CallHangs(w)
  <2> DEFINE d == [call[w] EXCEPT !.pc = "hung"]
  <2>1. PICK pc \in {"call", "peers"} : \E endpoints : Calls(w, pc, endpoints)
    BY <1>4 DEF CallHangs
  <2>2. /\ main = "listening" /\ call[w] \in CallType /\ CallInv(call[w])
        /\ UNCHANGED <<life, online, chainId, theNode>> /\ call[w].pc = pc
    BY <2>1, CallMade
  <2>3. d \in CallType /\ d.pc = "hung" /\ d.endpoint = call[w].endpoint /\ d.tx = call[w].tx
    BY <2>2 DEF CallType
  <2>4. CallInv(d)
    BY <2>2, <2>3 DEF CallInv, InFlight, Announced
  <2>5. call' = [call EXCEPT ![w] = d]
    BY <1>4 DEF CallHangs, Inv, TypeInv
  <2> QED BY <2>2, <2>3, <2>4, <2>5, RequestStep
<1> QED BY <1>1, <1>2, <1>3, <1>4 DEF HandleFails

\* Every step keeps the invariant.
LEMMA NextInv ==
    ASSUME Inv, [Next]_vars
    PROVE  Inv'
<1>1. CASE UNCHANGED vars
  BY <1>1 DEF vars, services, life, Inv, TypeInv, Listening, CallInv, InFlight,
              Announced
<1>2. CASE Next
  BY <1>2, ProcessInv, NodeInv, RequestInv, HandleInv, HandleFailsInv DEF Next
<1> QED BY <1>1, <1>2

\* The invariant holds in every state.
THEOREM Invariant == Spec => []Inv
<1>1. Init => Inv
  <2> SUFFICES ASSUME Init PROVE Inv
    OBVIOUS
  <2>1. TypeInv
    BY NoCallInv, EndpointsAssumption DEF Init, TypeInv, Statuses
  <2> QED BY <2>1, NoCallInv DEF Init, LifeInit, Inv, Listening
<1>2. Inv /\ [Next]_vars => Inv'
  BY NextInv
<1> QED BY <1>1, <1>2, PTL DEF Spec

\* NetworkStatus announces finalized blocks only, and requests are compared with
\* the chain id of the node: a zero status is never announced.
THEOREM AnnouncedBlocksAreFinal == Spec => []AnnouncedIsFinal
<1>1. Inv => AnnouncedIsFinal
  BY DEF Inv, Listening, CallInv, Announced, AnnouncedIsFinal, Ended, NoCall
<1> QED BY <1>1, Invariant, PTL
=============================================================================
