---------------------------- MODULE AccountProofs ----------------------------
(* Theorems about Account, for every chain of balances, set of requests,     *)
(* number of handlers and set of failures.                                   *)
EXTENDS Account, TLAPS

-----------------------------------------------------------------------------
(* The inductive invariant: what a handler knows between its two calls. *)

Handler ==
    {Idle} \cup [pc : {"identify"}, q : Request]
    \cup [pc : {"account"}, q : Request, height : Nat, hash : Hashes]

TypeInv ==
    /\ finalized \in 1..MaxHeight
    /\ req \in [Worker -> Handler]
    /\ DOMAIN answer = Worker

\* A block the adaptor has identified goes by a hash of its height, but for a
\* zero status; unless the client gave the hash, it is the chain's block and
\* finalized, whatever the node has finalized since.
Known(q, height, hash) ==
    /\ height \in Height
    /\ height > 0 => hash \in HashesAt(height)
    /\ q.id.hash = Nil => height <= finalized /\ (height > 0 => hash = Hash(height))

HandlersKnow ==
    \A w \in Worker : req[w].pc = "account" /\ Identified(req[w].q) =>
        Known(req[w].q, req[w].height, req[w].hash)

\* What the two properties say of one answer.
GoodBalance(a) ==
    a.height > 0 /\ Identified(a.q) =>
        /\ a.height \in Height /\ a.hash \in HashesAt(a.height)
        /\ a.q.id.hash = Nil => a.hash = Hash(a.height)
        /\ a.hash = Hash(a.height) => AreOf(a.balances, a.height) \/ Zeroed(a.q, a.balances)

GoodCoins(a) == Zeroed(a.q, a.balances) \/ \E h \in a.height..finalized : AreOf(a.balances, h)

GoodAnswer(a) ==
    /\ a.height \in Nat
    /\ a.q.endpoint = "balance" => GoodBalance(a)
    /\ a.q.endpoint = "coins" => GoodCoins(a)

AnswersGood == \A w \in Worker : answer[w] # NoAnswer => GoodAnswer(answer[w])

Inv == TypeInv /\ HandlersKnow /\ AnswersGood

-----------------------------------------------------------------------------
(* Lemmas on the operators. *)

\* Formatting an account answers with its own amounts, filtered or not.
LEMMA BalancesAreOf ==
    ASSUME NEW h \in Height, NEW currencies
    PROVE  AreOf(Balances(Balance[h], currencies), h)
BY DEF AreOf, SameAmounts, Balances

\* The node answers for the block it is asked about, or for its latest.
LEMMA GetAccountIs ==
    ASSUME finalized \in 1..MaxHeight, NEW height \in Nat
    PROVE  /\ height = 0 => GetAccount(height) = Balance[finalized]
           /\ height > 0 /\ height <= finalized => GetAccount(height) = Balance[height]
           /\ height > finalized => GetAccount(height) = NoAccount
BY DEF GetAccount

\* A request for coins never says which block it wants.
LEMMA RequestShape ==
    ASSUME NEW q \in Request
    PROVE  /\ q.endpoint \in {"balance", "coins"}
           /\ q.endpoint = "coins" => q.id = NoId
           /\ q.id.index = Nil \/ q.id.index \in Nat
           /\ q.id.hash = Nil \/ q.id.hash \in Hashes
BY AccountAssumption DEF BlockId

\* A handler between its two calls holds a request, a height and a hash.
LEMMA HandlerShape ==
    ASSUME TypeInv, NEW w \in Worker
    PROVE  /\ req[w].pc = "identify" => req[w].q \in Request
           /\ req[w].pc = "account" =>
                /\ req[w].q \in Request
                /\ req[w].height \in Nat
                /\ req[w].hash \in Hashes
BY DEF TypeInv, Handler, Idle

\* An answer from the account that Lookup gets is good.
LEMMA LookupGood ==
    ASSUME Inv, NEW w \in Worker, req[w].pc = "account",
           NEW a,
           a = [q |-> req[w].q, height |-> req[w].height, hash |-> req[w].hash,
                balances |-> Balances(GetAccount(HeightArg(w)), req[w].q.currencies)]
    PROVE  GoodAnswer(a)
<1> DEFINE q == req[w].q
<1>1. q \in Request /\ req[w].height \in Nat
  BY HandlerShape DEF Inv
<1>2. finalized \in 1..MaxHeight /\ finalized \in Height
  BY AccountAssumption DEF Inv, TypeInv, Height
<1>3. /\ a.q = q /\ a.height = req[w].height /\ a.hash = req[w].hash
      /\ a.balances = Balances(GetAccount(HeightArg(w)), q.currencies)
  OBVIOUS
<1>4. Identified(q) => Known(q, a.height, a.hash)
  BY <1>3 DEF Inv, HandlersKnow
<1>5. ASSUME a.q.endpoint = "balance"
      PROVE  GoodBalance(a)
  <2>1. SUFFICES ASSUME a.height > 0, Identified(a.q)
                 PROVE  /\ a.height \in Height /\ a.hash \in HashesAt(a.height)
                        /\ a.q.id.hash = Nil => a.hash = Hash(a.height)
                        /\ AreOf(a.balances, a.height) \/ Zeroed(a.q, a.balances)
    BY DEF GoodBalance
  <2>2. /\ a.height \in Height /\ a.hash \in HashesAt(a.height)
        /\ a.q.id.hash = Nil => a.height <= finalized /\ a.hash = Hash(a.height)
    BY <1>3, <1>4, <2>1 DEF Known
  <2>3. HeightArg(w) = a.height /\ a.height \in Nat
    BY <1>1, <1>3, <1>5 DEF HeightArg
  <2>4. CASE a.height <= finalized
    <3>1. GetAccount(HeightArg(w)) = Balance[a.height]
      BY <1>2, <2>1, <2>3, <2>4, GetAccountIs
    <3> QED BY <1>3, <2>2, <3>1, BalancesAreOf
  <2>5. CASE a.height > finalized
    <3>1. GetAccount(HeightArg(w)) = NoAccount
      BY <1>2, <2>3, <2>5, GetAccountIs
    <3>2. a.balances = [c \in Currency |-> 0]
      BY <1>3, <3>1 DEF Balances
    <3>3. a.q.id.hash # Nil
      BY <1>2, <2>2, <2>3, <2>5
    <3> QED BY <2>2, <3>2, <3>3 DEF Zeroed
  <2> QED BY <1>2, <2>3, <2>4, <2>5
<1>6. ASSUME a.q.endpoint = "coins"
      PROVE  GoodCoins(a)
  <2>1. q.id = NoId
    BY <1>1, <1>3, <1>6, RequestShape
  <2>2. Identified(q)
    BY <2>1 DEF Identified, NoId
  <2>3. finalized \in a.height..finalized
    BY <1>1, <1>2, <1>3, <1>4, <2>1, <2>2 DEF Known, NoId
  <2>4. HeightArg(w) = 0
    BY <1>3, <1>6 DEF HeightArg
  <2>5. GetAccount(HeightArg(w)) = Balance[finalized]
    BY <1>2, <2>4, GetAccountIs
  <2>6. AreOf(a.balances, finalized)
    BY <1>2, <1>3, <2>5, BalancesAreOf
  <2> QED BY <2>3, <2>6 DEF GoodCoins
<1> QED BY <1>1, <1>3, <1>5, <1>6 DEF GoodAnswer

\* An answer that takes an error of the node for an absent account is good.
LEMMA ServerErrorGood ==
    ASSUME Inv, NEW w \in Worker, req[w].pc = "account", "server" \in Faults,
           NEW a,
           a = [q |-> req[w].q, height |-> req[w].height, hash |-> req[w].hash,
                balances |-> Balances(NoAccount, req[w].q.currencies)]
    PROVE  GoodAnswer(a)
<1>1. req[w].height \in Nat
  BY HandlerShape DEF Inv
<1>2. Zeroed(a.q, a.balances)
  BY DEF Zeroed, Balances
<1>3. a.height > 0 /\ Identified(a.q) =>
          /\ a.height \in Height /\ a.hash \in HashesAt(a.height)
          /\ a.q.id.hash = Nil => a.hash = Hash(a.height)
  BY DEF Inv, HandlersKnow, Known
<1> QED BY <1>1, <1>2, <1>3 DEF GoodAnswer, GoodBalance, GoodCoins

-----------------------------------------------------------------------------
(* The invariant is inductive. *)

\* The first call of a handler leaves it with a block of the node.
LEMMA NamedInv ==
    ASSUME Inv, NEW w \in Worker, NEW height, NEW hash,
           req[w].q \in Request, height \in Nat, hash \in Hashes,
           Identified(req[w].q) => Known(req[w].q, height, hash),
           Named(w, height, hash)
    PROVE  Inv'
<1>1. req' = [req EXCEPT ![w] = [pc |-> "account", q |-> req[w].q,
                                 height |-> height, hash |-> hash]]
      /\ finalized' = finalized /\ answer' = answer
  BY DEF Named
<1>2. TypeInv'
  BY <1>1 DEF Inv, TypeInv, Handler
<1>3. HandlersKnow'
  <2> SUFFICES ASSUME NEW v \in Worker, (req[v].pc = "account" /\ Identified(req[v].q))'
               PROVE  Known(req[v].q, req[v].height, req[v].hash)'
    BY DEF HandlersKnow
  <2>1. CASE v = w
    BY <1>1, <2>1 DEF Inv, TypeInv, Known, Identified
  <2>2. CASE v # w
    BY <1>1, <2>2 DEF Inv, TypeInv, HandlersKnow, Known, Identified
  <2> QED BY <2>1, <2>2
<1>4. AnswersGood'
  BY <1>1 DEF Inv, AnswersGood, GoodAnswer, GoodBalance, GoodCoins, Zeroed, AreOf, SameAmounts
<1> QED BY <1>2, <1>3, <1>4 DEF Inv

\* A handler that ends, with a good answer or with none, leaves the invariant.
LEMMA EndInv ==
    ASSUME Inv, NEW w \in Worker, NEW a, a # NoAnswer => GoodAnswer(a),
           req' = [req EXCEPT ![w] = Idle],
           answer' = [answer EXCEPT ![w] = a],
           finalized' = finalized
    PROVE  Inv'
<1>1. TypeInv'
  BY DEF Inv, TypeInv, Handler
<1>2. HandlersKnow'
  BY DEF Inv, TypeInv, HandlersKnow, Known, Idle
<1>3. ASSUME NEW v \in Worker, answer'[v] # NoAnswer
      PROVE  GoodAnswer(answer'[v])
  BY <1>3 DEF Inv, TypeInv, AnswersGood
<1>4. AnswersGood'
  BY <1>3 DEF AnswersGood, GoodAnswer, GoodBalance, GoodCoins, Zeroed, AreOf, SameAmounts
<1> QED BY <1>1, <1>2, <1>4 DEF Inv

\* Every step keeps the invariant.
LEMMA NextInv ==
    ASSUME Inv, [Next]_vars
    PROVE  Inv'
<1>1. finalized \in 1..MaxHeight /\ finalized \in Nat /\ MaxHeight \in Nat
  BY AccountAssumption DEF Inv, TypeInv
<1>2. CASE UNCHANGED vars
  BY <1>2 DEF vars, Inv, TypeInv, HandlersKnow, Known, AnswersGood, GoodAnswer,
              GoodBalance, GoodCoins, Zeroed, AreOf, SameAmounts
<1>3. CASE Finalize
  <2>1. finalized' = finalized + 1 /\ finalized < MaxHeight /\ req' = req /\ answer' = answer
    BY <1>3 DEF Finalize
  <2>2. TypeInv'
    BY <1>1, <2>1 DEF Inv, TypeInv
  <2>3. HandlersKnow'
    <3> SUFFICES ASSUME NEW w \in Worker, req[w].pc = "account", Identified(req[w].q)
                 PROVE  Known(req[w].q, req[w].height, req[w].hash)'
      BY <2>1 DEF HandlersKnow
    <3>1. req[w].height \in Nat /\ Known(req[w].q, req[w].height, req[w].hash)
      BY HandlerShape DEF Inv, HandlersKnow
    <3> QED BY <1>1, <2>1, <3>1 DEF Known
  <2>4. ASSUME NEW a, GoodAnswer(a)
        PROVE  GoodAnswer(a)'
    <3>1. a.height \in Nat
      BY <2>4 DEF GoodAnswer
    <3>2. \A h \in a.height..finalized : h \in a.height..finalized'
      BY <1>1, <2>1, <3>1
    <3>3. GoodCoins(a) => GoodCoins(a)'
      BY <3>2 DEF GoodCoins, Zeroed, AreOf, SameAmounts
    <3>4. GoodBalance(a) => GoodBalance(a)'
      BY DEF GoodBalance, Zeroed, AreOf, SameAmounts
    <3> QED BY <2>4, <3>1, <3>3, <3>4 DEF GoodAnswer
  <2>5. AnswersGood'
    BY <2>1, <2>4 DEF Inv, AnswersGood
  <2> QED BY <2>2, <2>3, <2>5 DEF Inv
<1>4. ASSUME NEW w \in Worker, NEW q \in Request, Ask(w, q)
      PROVE  Inv'
  <2>1. CASE Online /\ q.networkOk
    <3>1. req' = [req EXCEPT ![w] = [pc |-> "identify", q |-> q]]
          /\ answer' = answer /\ finalized' = finalized
      BY <1>4, <2>1 DEF Ask
    <3>2. TypeInv'
      BY <3>1 DEF Inv, TypeInv, Handler
    <3>3. HandlersKnow'
      BY <3>1 DEF Inv, TypeInv, HandlersKnow, Known
    <3>4. AnswersGood'
      BY <3>1 DEF Inv, AnswersGood, GoodAnswer, GoodBalance, GoodCoins, Zeroed, AreOf, SameAmounts
    <3> QED BY <3>2, <3>3, <3>4 DEF Inv
  <2>2. CASE ~(Online /\ q.networkOk)
    <3>1. answer' = [answer EXCEPT ![w] = NoAnswer] /\ req' = req /\ finalized' = finalized
      BY <1>4, <2>2 DEF Ask
    <3>2. TypeInv' /\ HandlersKnow'
      BY <3>1 DEF Inv, TypeInv, HandlersKnow, Known
    <3>3. \A v \in Worker : answer'[v] # NoAnswer => answer'[v] = answer[v]
      BY <3>1 DEF Inv, TypeInv
    <3>4. AnswersGood'
      BY <3>1, <3>3 DEF Inv, AnswersGood, GoodAnswer, GoodBalance, GoodCoins, Zeroed, AreOf, SameAmounts
    <3> QED BY <3>2, <3>4 DEF Inv
  <2> QED BY <2>1, <2>2
<1>5. ASSUME NEW w \in Worker, GiveUp(w)
      PROVE  Inv'
  BY <1>5, EndInv DEF GiveUp
<1>6. ASSUME NEW w \in Worker, Identifying(w)
      PROVE  /\ req[w].q \in Request
             /\ Id(w).index = Nil \/ Id(w).index \in Nat
             /\ Id(w).hash = Nil \/ Id(w).hash \in Hashes
  <2>1. req[w].q \in Request
    BY <1>6, HandlerShape DEF Inv, Identifying
  <2> QED BY <2>1, RequestShape DEF Id
<1>7. ASSUME NEW w \in Worker
      PROVE  /\ \A h \in 0..finalized :
                    h \in Nat /\ Hash(h) \in Hashes /\ Known(req[w].q, h, Hash(h))
             /\ Known(req[w].q, 0, ZeroHash)
  BY <1>1 DEF Hashes, HashesAt, Height, Known
<1>8. ASSUME NEW w \in Worker, FromStatus(w)
      PROVE  Inv'
  <2>1. finalized \in 0..finalized
    BY <1>1
  <2> QED BY <1>6, <1>7, <1>8, <2>1, NamedInv DEF FromStatus
<1>9. ASSUME NEW w \in Worker, FromFailedStatus(w)
      PROVE  Inv'
  <2>1. ZeroHash \in Hashes
    BY DEF Hashes
  <2> QED BY <1>6, <1>7, <1>9, <2>1, NamedInv DEF FromFailedStatus
<1>10. ASSUME NEW w \in Worker, FromBoth(w)
       PROVE  Inv'
  <2>1. ~Identified(req[w].q) /\ Identifying(w)
    BY <1>10 DEF FromBoth, Identified, Id
  <2>2. Id(w).index \in Nat /\ Id(w).hash \in Hashes
    BY <1>6, <1>10, <2>1 DEF FromBoth
  <2> QED BY <1>6, <1>10, <2>1, <2>2, NamedInv DEF FromBoth
<1>11. ASSUME NEW w \in Worker, FromIndex(w)
       PROVE  Inv'
  <2>1. Identifying(w) /\ Id(w).index \in Nat
    BY <1>6, <1>11 DEF FromIndex
  <2>2. CASE Id(w).index <= finalized
    <3>1. Id(w).index \in 0..finalized
      BY <1>1, <2>1, <2>2
    <3>2. Named(w, Id(w).index, Hash(Id(w).index))
      BY <1>11, <2>2 DEF FromIndex
    <3> QED BY <1>6, <1>7, <2>1, <3>1, <3>2, NamedInv
  <2>3. CASE ~(Id(w).index <= finalized)
    BY <1>5, <1>11, <2>3 DEF FromIndex
  <2> QED BY <2>2, <2>3
<1>12. ASSUME NEW w \in Worker, FromHash(w)
       PROVE  Inv'
  <2>1. ASSUME NEW h \in Height, Id(w).hash \in HashesAt(h), Named(w, h, Id(w).hash)
        PROVE  Inv'
    <3>1. Identifying(w) /\ Id(w).hash # Nil /\ Id(w).hash \in Hashes /\ req[w].q \in Request
      BY <1>6, <1>12 DEF FromHash
    <3>2. h \in Nat /\ Known(req[w].q, h, Id(w).hash)
      BY <1>1, <2>1, <3>1 DEF Height, Known, Id
    <3> QED BY <2>1, <3>1, <3>2, NamedInv
  <2> QED BY <1>5, <1>12, <2>1 DEF FromHash
<1>13. ASSUME NEW w \in Worker, Lookup(w)
       PROVE  Inv'
  BY <1>13, LookupGood, EndInv DEF Lookup, Answer
<1>14. ASSUME NEW w \in Worker, LookupServerError(w)
       PROVE  Inv'
  BY <1>14, ServerErrorGood, EndInv DEF LookupServerError, Answer
<1> QED
  BY <1>2, <1>3, <1>4, <1>5, <1>8, <1>9, <1>10, <1>11, <1>12, <1>13, <1>14
  DEF Next, StatusDown, BlockIdentifierFails, LookupFails

\* The invariant holds in every state.
THEOREM Invariant == Spec => []Inv
<1>1. Init => Inv
  <2> SUFFICES ASSUME Init PROVE Inv
    OBVIOUS
  <2>1. TypeInv
    BY DEF Init, TypeInv, Handler
  <2> QED BY <2>1 DEF Init, Inv, HandlersKnow, AnswersGood, Idle
<1>2. Inv /\ [Next]_vars => Inv'
  BY NextInv
<1> QED BY <1>1, <1>2, PTL DEF Spec

\* An answer of /account/balance is about the block it names, however many
\* blocks the node finalizes between the two calls of AccountBalance.
THEOREM BalanceIsOfItsBlock == Spec => []BalanceOfItsBlock
<1>1. Inv => BalanceOfItsBlock
  BY DEF Inv, AnswersGood, GoodAnswer, GoodBalance, Identified, BalanceOfItsBlock, Answers
<1> QED BY <1>1, Invariant, PTL

\* An answer of /account/coins, whose second call names no height, is never of
\* a block before the one it names.
THEOREM CoinsAreNotOlder == Spec => []CoinsNotOlder
<1>1. Inv => CoinsNotOlder
  BY DEF Inv, AnswersGood, GoodAnswer, GoodCoins, CoinsNotOlder, Answers
<1> QED BY <1>1, Invariant, PTL
=============================================================================
