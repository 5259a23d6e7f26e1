------------------------------ MODULE Endpoints ------------------------------
(***************************************************************************)
(* The HTTP side of the adaptor: NewThetaRouter, and for every endpoint    *)
(* what it checks, which calls to the node it makes and how it ends, while *)
(* the node goes on and the process may be interrupted (Lifecycle).  The   *)
(* network and mempool endpoints and /block/transaction are modelled in    *)
(* full; /block, /account and /construction only up to their checks and    *)
(* the fact that they call the node: see ReturnStakes, Account and         *)
(* Construction.                                                           *)
(***************************************************************************)
EXTENDS Lifecycle, FiniteSets

CONSTANTS
    Tx,             \* transactions of the chain
    SnapshotHeight, \* the oldest block the node has
    MaxHeight,      \* last block of the (bounded) chain
    Worker,         \* clients, each with one request and its goroutine at a time
    Faults,         \* how calls to the node may fail: "down", "error", "hang"
    MaxFaults       \* how many in one behaviour

ASSUME EndpointsAssumption ==
    /\ "none" \notin Tx
    /\ SnapshotHeight \in Nat \ {0} /\ MaxHeight \in Nat /\ SnapshotHeight <= MaxHeight
    /\ Faults \subseteq {"down", "error", "hang"} /\ MaxFaults \in Nat

\* Endpoints whose handlers return ErrUnavailableOffline unless the mode is
\* online, and the one that calls the node all the same.
Gated == {"/network/status", "/account/balance", "/account/coins", "/block",
          "/block/transaction", "/mempool", "/construction/metadata", "/construction/submit"}
Ungated == {"/mempool/transaction"}

\* Endpoints that need no node.
Local == {"/network/list", "/network/options", "/construction/derive",
          "/construction/preprocess", "/construction/payloads", "/construction/parse",
          "/construction/combine", "/construction/hash"}

Endpoint == Gated \cup Ungated \cup Local

\* Endpoints that call theta.GetTransaction, and those modelled elsewhere.
TxEndpoints == {"/mempool/transaction", "/block/transaction"}
Elsewhere == Gated \ {"/network/status", "/mempool", "/block/transaction"}

\* NetworkOptions: OperationStatuses.
DeclaredStatuses == {"pending", "valid", "invalid", "committed", "directly_finalized",
                     "indirectly_finalized", "trusted", "disposed"}

-----------------------------------------------------------------------------
VARIABLES
    online,     \* rosetta.mode
    chainId,    \* the chain id that SetChainId was given
    tip,        \* height of the latest finalized block
    kind,       \* "plain", "contract" or "withdrawal" for each transaction
    traces,     \* the node keeps the balance changes of executed contracts
    txStatus,   \* what the node says of each transaction
    call,       \* the request each worker serves, then how it ended
    called,     \* what has called the node while the mode is offline (history)
    faults      \* failed calls so far

services == <<online, chainId, tip, kind, traces, txStatus, call, called, faults>>
vars == <<life, services>>

\* The end of a request: refused, an error, a panic, or an answer.  listed is what
\* the client was last told by /mempool.
NoCall == [pc |-> "idle", endpoint |-> "none", tx |-> "none", seen |-> 0, end |-> "none",
           status |-> "none", listed |-> {}]

Init ==
    /\ LifeInit
    /\ online \in BOOLEAN
    /\ chainId = "none"
    /\ tip = SnapshotHeight
    /\ kind \in [Tx -> {"plain", "contract", "withdrawal"}]
    /\ traces \in BOOLEAN
    /\ txStatus = [t \in Tx |-> "not_found"]
    /\ call = [w \in Worker |-> NoCall]
    /\ called = {}
    /\ faults = 0

Fault(f) == f \in Faults /\ faults < MaxFaults /\ faults' = faults + 1
NoFault == UNCHANGED faults

Outbound(what) == called' = IF online THEN called ELSE called \cup {what}

-----------------------------------------------------------------------------
(* The node (external).  Height 0 and the zero hash are no block of it.      *)

theNode == <<tip, kind, traces, txStatus>>

Finalize ==
    /\ tip < MaxHeight /\ tip' = tip + 1
    /\ UNCHANGED <<life, online, chainId, kind, traces, txStatus, call, called, faults>>

\* A transaction is sent, executed, given up, forgotten.
TxMoves ==
    {<<"not_found", "pending">>, <<"pending", "finalized">>, <<"pending", "abandoned">>,
     <<"abandoned", "not_found">>}

MoveTx(t) ==
    /\ \E move \in TxMoves :
          txStatus[t] = move[1] /\ txStatus' = [txStatus EXCEPT ![t] = move[2]]
    /\ UNCHANGED <<life, online, chainId, tip, kind, traces, call, called, faults>>

\* The answer has balance changes: only once a contract has been executed.
HasChanges(t) == traces /\ txStatus[t] = "finalized"

-----------------------------------------------------------------------------
(* The process.  Its end cuts off what is being served.                      *)

Router ==
    /\ Listen
    /\ chainId' = "theta"
    /\ Outbound("start")
    /\ UNCHANGED <<online, theNode, call, faults>>

\* GetStatus fails; or the node answers it with an error, which GetStatus drops:
\* the chain id is empty then, and the asserter refuses it.
RouterFails ==
    /\ Fatal("router")
    /\ \/ Fault("down") /\ UNCHANGED chainId
       \/ Fault("error") /\ chainId' = "empty"
    /\ Outbound("start")
    /\ UNCHANGED <<online, theNode, call>>

Cut == call' = IF main' = "exited" THEN [w \in Worker |-> NoCall] ELSE call

Other == UNCHANGED <<online, chainId, theNode, called>>

ListenFails == Fatal("listening") /\ Cut /\ Other /\ Fault("down")

Process ==
    \/ /\ Notify \/ Spawn \/ WatcherStep \/ Interrupt
       /\ Cut /\ Other /\ NoFault
    \/ Router
    \/ RouterFails
    \/ ListenFails

-----------------------------------------------------------------------------
(* Requests. *)

End(w, how) == call' = [call EXCEPT ![w].pc = "idle", ![w].end = how]

\* The mode, then ValidateNetworkIdentifier (valid says what it finds).
Refused(e, valid) ==
    \/ e \in Gated /\ ~online
    \/ e # "/network/list" /\ ~valid

Request(w, e, t, valid) ==
    /\ main = "listening" /\ call[w].pc = "idle"
    /\ e \in TxEndpoints <=> t # "none"
    /\ call' = [call EXCEPT ![w] = [NoCall EXCEPT
          !.endpoint = e, !.tx = t, !.listed = call[w].listed,
          !.pc = IF Refused(e, valid) \/ e \in Local THEN "idle" ELSE "call",
          !.end = IF Refused(e, valid) THEN "refused"
                  ELSE IF e \in Local THEN "answer" ELSE "none"]]
    /\ UNCHANGED <<life, online, chainId, theNode, called, faults>>

\* Goroutine w is about to make a call to the node for one of these endpoints.
Calls(w, pc, endpoints) ==
    /\ call[w].pc = pc /\ call[w].endpoint \in endpoints
    /\ Outbound(call[w].endpoint)
    /\ UNCHANGED <<life, online, chainId, theNode>>

\* Any failure of the only call is an error of the endpoint.
CallFails(w) ==
    /\ Calls(w, "call", (Gated \cup Ungated) \ {"/network/status"})
    /\ Fault("down") \/ Fault("error")
    /\ End(w, "error")

\* jrpc.NewClient is given no timeout: a call that the node takes and never
\* answers holds its goroutine as long as the process lives.
CallHangs(w) ==
    /\ \/ Calls(w, "call", Gated \cup Ungated)
       \/ Calls(w, "peers", {"/network/status"})
    /\ Fault("hang")
    /\ call' = [call EXCEPT ![w].pc = "hung"]

CallElsewhere(w) == Calls(w, "call", Elsewhere) /\ End(w, "answer") /\ NoFault

Mempool(w) ==
    /\ Calls(w, "call", {"/mempool"})
    /\ call' = [call EXCEPT ![w].pc = "idle", ![w].end = "answer",
                            ![w].listed = {t \in Tx : txStatus[t] = "pending"}]
    /\ NoFault

\* ParseTx without a database panics on a withdrawal, and ParseSmartContractTx
\* without balance changes dereferences nil.
ParseTxPanics(t) ==
    \/ kind[t] = "withdrawal"
    \/ kind[t] = "contract" /\ ~HasChanges(t)

\* MempoolTransaction and BlockTransaction: theta.GetTransaction knows every
\* transaction, in the pool or in a block; its status becomes that of the
\* operations.
GetTransaction(w) ==
    LET t == call[w].tx IN
    /\ Calls(w, "call", TxEndpoints)
    /\ call' = [call EXCEPT ![w].pc = "idle",
          ![w].end = CASE txStatus[t] = "not_found" -> "error"
                       [] txStatus[t] # "not_found" /\ ParseTxPanics(t) -> "panic"
                       [] OTHER -> "answer",
          ![w].status = txStatus[t]]
    /\ NoFault

\* NetworkStatus: the first of its two calls.
GetStatus(w, height) ==
    /\ Calls(w, "call", {"/network/status"})
    /\ call' = [call EXCEPT ![w].pc = "peers", ![w].seen = height]

NetworkStatus(w) == GetStatus(w, tip) /\ NoFault

\* Between the two calls, val.(bool) of a skip_edge_node that is no boolean.
SkipEdgeNodePanics(w) ==
    /\ Calls(w, "call", {"/network/status"})
    /\ End(w, "panic")
    /\ NoFault

\* GetStatus drops an error in the node's answer and returns a zero status.
NetworkStatusZero(w) == GetStatus(w, 0) /\ Fault("error")

NetworkStatusFails(w) ==
    /\ \/ Calls(w, "call", {"/network/status"})
       \/ Calls(w, "peers", {"/network/status"})
    /\ Fault("down") /\ End(w, "error")

\* Mutant of PeersEnd: a missing time is taken for 0.
PeersEndAlways(w) == "answer"

\* A zero status has no LatestFinalizedBlockTime: nil is dereferenced.
PeersEnd(w) == IF call[w].seen = 0 THEN "panic" ELSE "answer"

\* The second call; an error in the node's answer means no peers.
GetPeers(w) ==
    /\ Calls(w, "peers", {"/network/status"})
    /\ NoFault \/ Fault("error")
    /\ End(w, PeersEnd(w))

Handle(w) ==
    \/ CallElsewhere(w)
    \/ Mempool(w)
    \/ GetTransaction(w)
    \/ NetworkStatus(w)
    \/ SkipEdgeNodePanics(w)
    \/ GetPeers(w)

HandleFails(w) ==
    \/ CallFails(w)
    \/ CallHangs(w)
    \/ NetworkStatusZero(w)
    \/ NetworkStatusFails(w)

Next ==
    \/ Process
    \/ Finalize
    \/ \E t \in Tx : MoveTx(t)
    \/ \E w \in Worker, e \in Endpoint, t \in Tx \cup {"none"}, valid \in BOOLEAN :
          Request(w, e, t, valid)
    \/ \E w \in Worker : Handle(w)
    \/ \E w \in Worker : HandleFails(w)

Spec == Init /\ [][Next]_vars

\* A handler goes on once its call to the node returns.
FairSpec == Spec /\ \A w \in Worker : WF_vars(Handle(w))

-----------------------------------------------------------------------------
(* Correctness.                                                             *)

Ended(w, how) == call[w].pc = "idle" /\ call[w].end = how

\* Once the router is made and requests come in, the chain id they are compared
\* with is the node's; a process that could not learn it has exited.  Every
\* announced current block is a finalized block at or above the oldest one,
\* although a failed status call looks like block 0 with the zero hash.
AnnouncedIsFinal ==
    \A w \in Worker :
        call[w].endpoint = "/network/status" /\ Ended(w, "answer") =>
            chainId = "theta" /\ call[w].seen \in SnapshotHeight..tip

\* README.md, line 18: "Idempotent access to all transaction traces and
\* receipts".  A request for an executed transaction that reaches the node is
\* answered, if the node itself keeps the traces.
AllTransactions ==
    \A w \in Worker :
        call[w].endpoint = "/block/transaction" /\ call[w].status = "finalized" /\ traces =>
            ~Ended(w, "panic")

\* README.md, line 57: "All Data APIs specified in
\* https://www.rosetta-api.org/docs/data_api_introduction.html".  The status of
\* the operations in an answer is one that /network/options declares, for a
\* transaction of a block ...
StatusDeclared ==
    \A w \in Worker :
        call[w].endpoint = "/block/transaction" /\ Ended(w, "answer") =>
            call[w].status \in DeclaredStatuses

\* ... and for one that the client fetches because /mempool has listed it.
ListedDeclared ==
    \A w \in Worker :
        call[w].endpoint = "/mempool/transaction" /\ call[w].tx \in call[w].listed
        /\ Ended(w, "answer") => call[w].status \in DeclaredStatuses

\* common/config.go, line 35: "CfgRosettaMode determines if the implementation
\* is permitted to make outbound connections."  An adaptor that is not online
\* starts without one, ...
OfflineStart == "start" \notin called

\* ... and serves its clients without one.
OfflineRequests == called \cap Endpoint = {}

\* common/config.go, line 24: "CfgRPCTimeoutSecs set a timeout for RPC."  Every
\* request ends, also when the node never answers.
RequestsTimeOut == \A w \in Worker : call[w].pc # "idle" ~> call[w].pc = "idle"
=============================================================================
