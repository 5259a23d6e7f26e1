------------------------------- MODULE Account -------------------------------
(***************************************************************************)
(* /account/balance and /account/coins: two calls to the node, one to find *)
(* out which block the answer is about and one for the account, while the  *)
(* node goes on finalizing blocks.  One account is enough, since answers   *)
(* for different accounts share nothing.                                   *)
(***************************************************************************)
EXTENDS Integers

CONSTANTS
    MaxHeight,  \* last block of the (bounded) chain
    Balance,    \* the account after each block, NoAccount before it exists
    OrphanBalance,  \* the same after a block off the chain, where there is one
    NoAccount,
    Nil,        \* an optional field that is absent
    Request,    \* the requests clients make
    Online,     \* rosetta.mode is "online"
    Worker,     \* handler goroutines
    Faults      \* "down": a call fails; "error": it answers with an RPC error;
                \* "server": that error has the code -32000

Height == 0..MaxHeight
Currency == {"THETA", "TFUEL"}
Amounts == [Currency -> Nat]

\* Block hashes: of the chain's block of each height and of the one that did not
\* make it, the zero hash of an empty status, and one that no block has.
Hash(h) == <<"block", h>>
OrphanHash(h) == <<"orphan", h>>
ZeroHash == <<"zero", 0>>
UnknownHash == <<"unknown", 0>>
Hashes == {Hash(h) : h \in Height} \cup {OrphanHash(h) : h \in Height} \cup {ZeroHash, UnknownHash}

\* The hashes by which the node may know a block of height h.
HashesAt(h) == {Hash(h)} \cup (IF h \in DOMAIN OrphanBalance THEN {OrphanHash(h)} ELSE {})

BlockId == [index : {Nil} \cup Nat, hash : {Nil} \cup Hashes]
NoId == [index |-> Nil, hash |-> Nil]

ASSUME AccountAssumption ==
    /\ MaxHeight \in Nat \ {0}
    /\ DOMAIN Balance = Height
    /\ \A h \in Height : Balance[h] = NoAccount \/ Balance[h] \in Amounts
    /\ DOMAIN OrphanBalance \subseteq Height \ {0}
    /\ \A h \in DOMAIN OrphanBalance : OrphanBalance[h] = NoAccount \/ OrphanBalance[h] \in Amounts
    /\ Nil \notin Nat /\ Nil \notin Hashes
    /\ Online \in BOOLEAN
    /\ Faults \subseteq {"down", "error", "server"}
    /\ \A q \in Request :
          /\ q.endpoint \in {"balance", "coins"} /\ q.networkOk \in BOOLEAN
          /\ q.id \in BlockId /\ (q.endpoint = "coins" => q.id = NoId)
          /\ q.currencies = Nil \/ q.currencies \in SUBSET Currency

VARIABLES
    finalized,  \* the node's last finalized block
    req,        \* the request of each handler: its block and program counter
    answer      \* what each handler answered last (history)

vars == <<finalized, req, answer>>

NoAnswer == [none |-> TRUE]  \* nothing yet, an error, or a recovered panic
Idle == [pc |-> "idle"]

\* The node is past its genesis block.
Init ==
    /\ finalized \in 1..MaxHeight
    /\ req = [w \in Worker |-> Idle]
    /\ answer = [w \in Worker |-> NoAnswer]

-----------------------------------------------------------------------------
(* The node (external): it finalizes blocks, and answers for an account at a *)
(* height, where height 0 means the latest block, as AccountCoins relies on. *)
(* It has one error code, -32000, for whatever it cannot find.               *)

Finalize ==
    /\ finalized < MaxHeight
    /\ finalized' = finalized + 1
    /\ UNCHANGED <<req, answer>>

GetAccount(height) ==
    LET at == IF height = 0 THEN finalized ELSE height
    IN IF at <= finalized THEN Balance[at] ELSE NoAccount

-----------------------------------------------------------------------------
(* The handlers. *)

\* A request in another mode or for another network is refused.
Ask(w, q) ==
    /\ req[w].pc = "idle"
    /\ IF Online /\ q.networkOk
       THEN req' = [req EXCEPT ![w] = [pc |-> "identify", q |-> q]] /\ UNCHANGED answer
       ELSE answer' = [answer EXCEPT ![w] = NoAnswer] /\ UNCHANGED req
    /\ UNCHANGED finalized

Named(w, height, hash) ==
    /\ req' = [req EXCEPT ![w] = [pc |-> "account", q |-> req[w].q,
                                  height |-> height, hash |-> hash]]
    /\ UNCHANGED <<finalized, answer>>

GiveUp(w) ==
    /\ req' = [req EXCEPT ![w] = Idle]
    /\ answer' = [answer EXCEPT ![w] = NoAnswer]
    /\ UNCHANGED finalized

Identifying(w) == req[w].pc = "identify"
Id(w) == req[w].q.id

\* No block is asked for (always so for coins): the latest of the status.
FromStatus(w) ==
    /\ Identifying(w) /\ Id(w) = NoId
    /\ Named(w, finalized, Hash(finalized))

\* GetStatus does not look at an RPC error: it returns the zero status.
FromFailedStatus(w) ==
    /\ Identifying(w) /\ Id(w) = NoId /\ "error" \in Faults
    /\ Named(w, 0, ZeroHash)

\* GetStatus fails: an error from AccountBalance, a nil status from which
\* AccountCoins panics.
StatusDown(w) ==
    Identifying(w) /\ Id(w) = NoId /\ "down" \in Faults /\ GiveUp(w)

\* Index and hash given: neither is checked.
FromBoth(w) ==
    /\ Identifying(w) /\ Id(w).index # Nil /\ Id(w).hash # Nil
    /\ Named(w, Id(w).index, Id(w).hash)

\* GetBlockIdentifierByHeight
FromIndex(w) ==
    /\ Identifying(w) /\ Id(w).index # Nil /\ Id(w).hash = Nil
    /\ IF Id(w).index <= finalized THEN Named(w, Id(w).index, Hash(Id(w).index)) ELSE GiveUp(w)

\* GetBlockIdentifierByHash.  theta.GetBlock answers for any block the node has
\* received: also for one that is not finalized yet, or never will be.
FromHash(w) ==
    /\ Identifying(w) /\ Id(w).index = Nil /\ Id(w).hash # Nil
    /\ \/ \E h \in Height : Id(w).hash \in HashesAt(h) /\ Named(w, h, Id(w).hash)
       \/ (\A h \in 0..finalized : Id(w).hash # Hash(h)) /\ GiveUp(w)

BlockIdentifierFails(w) ==
    /\ Identifying(w) /\ (Id(w).index = Nil) # (Id(w).hash = Nil)
    /\ Faults # {} /\ GiveUp(w)

\* Mutants of HeightArg: the latest account; the account before the block.
HeightArgLatest(w) == 0
HeightArgParent(w) == IF req[w].height = 0 THEN 0 ELSE req[w].height - 1

\* AccountCoins leaves the height out, which is the same as sending 0.
HeightArg(w) == IF req[w].q.endpoint = "coins" THEN 0 ELSE req[w].height

\* The currencies asked for, all if there is no filter.  An account that is
\* not found has zero of both, whatever the filter says.
Balances(account, currencies) ==
    IF account = NoAccount THEN [c \in Currency |-> 0]
    ELSE [c \in (IF currencies = Nil THEN Currency ELSE currencies) |-> account[c]]

Answer(w, account) ==
    /\ answer' = [answer EXCEPT ![w] =
          [q |-> req[w].q, height |-> req[w].height, hash |-> req[w].hash,
           balances |-> Balances(account, req[w].q.currencies)]]
    /\ req' = [req EXCEPT ![w] = Idle]
    /\ UNCHANGED finalized

Lookup(w) == req[w].pc = "account" /\ Answer(w, GetAccount(HeightArg(w)))

\* The node fails with its one error code: taken for an absent account.
LookupServerError(w) ==
    /\ req[w].pc = "account" /\ "server" \in Faults
    /\ Answer(w, NoAccount)

LookupFails(w) == req[w].pc = "account" /\ Faults # {} /\ GiveUp(w)

Next ==
    \/ Finalize
    \/ \E w \in Worker :
          \/ \E q \in Request : Ask(w, q)
          \/ FromStatus(w)
          \/ FromFailedStatus(w)
          \/ StatusDown(w)
          \/ FromBoth(w)
          \/ FromIndex(w)
          \/ FromHash(w)
          \/ BlockIdentifierFails(w)
          \/ Lookup(w)
          \/ LookupServerError(w)
          \/ LookupFails(w)

Spec == Init /\ [][Next]_vars

-----------------------------------------------------------------------------
(* Correctness.                                                             *)

Answers(endpoint) ==
    {answer[w] : w \in {v \in Worker : answer[v] # NoAnswer /\ answer[v].q.endpoint = endpoint}}

\* The adaptor found out itself which block is meant: not both were given.
Identified(q) == q.id.index = Nil \/ q.id.hash = Nil

\* The amounts of an answer are those of this account.
SameAmounts(balances, account) ==
    \A c \in DOMAIN balances : balances[c] = IF account = NoAccount THEN 0 ELSE account[c]

\* They are those after the chain's block of height h.
AreOf(balances, h) == SameAmounts(balances, Balance[h])

\* The node's one error code was taken for an absent account: it failed, or the
\* block asked for by its hash was not finalized yet.
Zeroed(q, balances) ==
    /\ "server" \in Faults \/ q.id.hash # Nil
    /\ balances = [c \in Currency |-> 0]

\* An answer of /account/balance about a block after genesis that the adaptor
\* identified itself gives a height and a hash that belong together, off the
\* chain only if the client gave that hash; and for a block of the chain it gives
\* the balances after that very block, although blocks are finalized between the
\* two calls, also the one that was asked for.
BalanceOfItsBlock ==
    \A a \in Answers("balance") :
        a.height > 0 /\ Identified(a.q) =>
            /\ a.height \in Height /\ a.hash \in HashesAt(a.height)
            /\ a.q.id.hash = Nil => a.hash = Hash(a.height)
            /\ a.hash = Hash(a.height) => AreOf(a.balances, a.height) \/ Zeroed(a.q, a.balances)

\* An answer of /account/coins is never older than the block it names: it may
\* be of any block finalized between the two calls, or zeros for an error.
CoinsNotOlder ==
    \A a \in Answers("coins") :
        Zeroed(a.q, a.balances) \/ \E h \in a.height..finalized : AreOf(a.balances, h)

\* README.md, line 17: "Atomic balance lookups".  The block an answer of
\* /account/balance names exists, and the balances are those after that block.
AtomicBalance ==
    \A a \in Answers("balance") : Identified(a.q) =>
        \E h \in Height :
            \/ a.hash = Hash(h) /\ SameAmounts(a.balances, Balance[h])
            \/ a.hash \in HashesAt(h) \ {Hash(h)} /\ SameAmounts(a.balances, OrphanBalance[h])
=============================================================================
