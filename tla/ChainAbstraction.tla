-------------------------- MODULE ChainAbstraction --------------------------
(***************************************************************************)
(* Chain abstraction (src/handlers/chain_agnostic/).  A wallet that lacks  *)
(* the tokens for a transfer asks for a plan: prepare finds funds on       *)
(* another chain, asks a bridge for quotes and answers with the            *)
(* transactions to sign, after it has stored an order in IRN.  The client  *)
(* then polls the order's status until the expected amount has arrived or  *)
(* the order has timed out.  Every poll reads the order, reads the         *)
(* wallet's balance and may write the order back, with nothing between two *)
(* polls.  Balances of the source chains and the bridges' quotes are       *)
(* inputs; the balance the order waits for is state, and anyone may change *)
(* it at any time.                                                         *)
(***************************************************************************)
EXTENDS RoutePlan

CONSTANTS
  Planner,     \* prepare requests under way
  Poller,      \* status requests under way
  Id,          \* orchestration identifiers, fresh for every order
  Request,     \* what clients ask for, see RequestShape
  Chain,       \* EVM chains, where transactions have nonces
  MaxAmount,   \* bound: balances and quotes
  MaxNonce,    \* bound: the nonces accounts start from
  Timeout,     \* BRIDGING_TIMEOUT
  MaxTime,     \* bound: how far the clock goes
  NULL

Amount == 0..MaxAmount

\* kind: a native transfer, an ERC-20 transfer, calldata that only a
\* simulation explains, or no calls at all.  moves: the transfers of the first
\* call, [asset, value], asset NULL if it is not supported; one unless a
\* simulation tells them.  accounts: CAIP-10 accounts the client names, NULL if
\* one is malformed.
RequestShape(r) ==
  /\ r.kind \in {"native", "transfer", "other", "empty"}
  /\ r.moves \in Seq([asset : Asset \cup {NULL}, value : Amount])
  /\ r.kind \in {"native", "transfer"} => Len(r.moves) = 1
  /\ r.kind = "native" => r.moves[1].value > 0
  /\ r.lifi \in BOOLEAN /\ r.v1 \in BOOLEAN

\* What a request is about once its first call is understood.
Job(r, move) == [kind |-> r.kind, asset |-> move.asset, value |-> move.value,
                 accounts |-> r.accounts, lifi |-> r.lifi, v1 |-> r.v1]

\* The assets that orders wait for.
Target == (UNION {{r.moves[k].asset : k \in DOMAIN r.moves} : r \in Request}) \ {NULL}

\* A request is a transaction of an EVM chain, and those are the chains of the
\* eip155 namespace.
ASSUME RequestAssumption ==
  /\ \A r \in Request : RequestShape(r)
  /\ \A a \in Target : a.chain \in Chain
  /\ \A a \in Asset : a.ns = "eip155" <=> a.chain \in Chain

\* StorageBridgingItem.
Order == [asset : Target, current : Amount, expected : Amount, created : Nat,
          status : {"pending", "completed", "error"}]

ASSUME BoundAssumption ==
  /\ MaxAmount \in Nat /\ MaxNonce \in Nat /\ Timeout \in Nat /\ MaxTime \in Nat
  /\ NULL \notin Id /\ NULL \notin Asset /\ NULL \notin Order /\ NULL # "available"

VARIABLES
  order,     \* [Id -> StorageBridgingItem or NULL]: what IRN holds
  wallet,    \* [Target -> Amount]: the sender's balance of what it wants to move
  plan,      \* [Planner -> record]: prepare handlers
  poll,      \* [Poller -> record]: status handlers
  now,       \* the clock
  reached    \* history: the orders whose expected amount the wallet has held

vars == <<order, wallet, plan, poll, now, reached>>

\* A nonce of the nonce manager: not asked for, being fetched by a spawned
\* task, ready, or not to be had.
NoNonce == [state |-> "none", n |-> 0]

IdlePlan == [pc |-> "idle", req |-> NULL, read |-> 0, funds |-> NULL, required |-> 0, quoted |-> 0,
             nonce |-> [c \in Chain |-> NoNonce], txs |-> <<>>, id |-> NULL, reply |-> NULL]
IdlePoll == [pc |-> "idle", id |-> NULL, read |-> NULL, reply |-> NULL]

Init ==
  /\ order = [i \in Id |-> NULL]
  /\ wallet = [a \in Target |-> 0]
  /\ plan = [p \in Planner |-> IdlePlan]
  /\ poll = [q \in Poller |-> IdlePoll]
  /\ now = 0
  /\ reached = {}

-----------------------------------------------------------------------------
(* The nonce manager of one prepare request. *)

\* initialize_nonce: one fetch per chain, whatever number of transactions.
InitializeNonce(nonce, c) ==
  [nonce EXCEPT ![c] = IF @.state = "none" THEN [state |-> "asked", n |-> 0] ELSE @]

GetNonceAgain(nonce, c) == nonce

\* get_nonce: the nonce, and the next one is one higher.
GetNonce(nonce, c) == [nonce EXCEPT ![c].n = @ + 1]

\* get_nonce awaits the spawned fetch.
NonceReady(p, c) == plan[p].nonce[c].state = "ready"

\* The spawned fetch ends: eth_getTransactionCount, pending block.
FetchNonce(p, c) ==
  /\ plan[p].nonce[c].state = "asked"
  /\ \E s \in {"ready", "failed"}, n \in 0..MaxNonce :
       /\ s = "failed" => n = 0
       /\ plan' = [plan EXCEPT ![p].nonce[c] = [state |-> s, n |-> n]]
  /\ UNCHANGED <<order, wallet, poll, now, reached>>

-----------------------------------------------------------------------------
(* Prepare. *)

Answer(p, r) == plan' = [plan EXCEPT ![p].pc = "done", ![p].reply = r]

Topup(p) == plan[p].req.value - plan[p].read

\* The top-up in units of the token it is bridged from.
SourceTopup(p) ==
  ConvertAmount(Topup(p), plan[p].req.asset.decimals, plan[p].funds.asset.decimals)

SourceAmountRaw(p, amount) == amount

\* A quoted amount, which is one of the token the transfer moves.
SourceAmount(p, amount) ==
  ConvertAmount(amount, plan[p].req.asset.decimals, plan[p].funds.asset.decimals)

\* The first transfer of a supported asset among those a simulation shows, as
\* a set of at most one.
SupportedMoves(r) ==
  LET supported == {k \in DOMAIN r.moves : r.moves[k].asset # NULL}
  IN  {r.moves[k] : k \in {j \in supported : \A i \in supported : j <= i}}

\* A native transfer; an asset the chain does not list is found out later.
NativeTransfer(r) == [moves |-> {r.moves[1]}, refusals |-> {"simulation_failed"}]

\* An ERC-20 transfer of a supported token, whose gas is cached or simulated.
Erc20Transfer(r) ==
  IF r.moves[1].asset = NULL
  THEN [moves |-> {}, refusals |-> {"unsupported"}]
  ELSE [moves |-> {r.moves[1]}, refusals |-> {"simulation_failed"}]

\* Anything else is simulated, and has to move a supported asset.
SimulatedCall(r) ==
  LET moves == {m \in SupportedMoves(r) : m.value > 0}
  IN  [moves |-> moves,
       refusals |-> {"simulation_failed"} \cup (IF moves = {} THEN {"unsupported"} ELSE {})]

FirstCall(r) ==
  CASE r.kind = "empty" -> [moves |-> {}, refusals |-> {"invalid"}]
    [] r.kind = "native" -> NativeTransfer(r)
    [] r.kind = "transfer" -> Erc20Transfer(r)
    [] r.kind = "other" -> SimulatedCall(r)

\* The request arrives and its first call is looked at.
Classify(p) ==
  /\ plan[p].pc = "idle"
  /\ \E r \in Request, i \in Id :
       LET call == FirstCall(r)
       IN  /\ order[i] = NULL /\ \A u \in Planner : plan[u].id # i
           /\ \/ \E reply \in call.refusals \cup {"error"} :
                   plan' = [plan EXCEPT ![p] = [IdlePlan EXCEPT !.pc = "done", !.reply = reply]]
              \/ \E move \in call.moves :
                   plan' = [plan EXCEPT ![p] =
                     [IdlePlan EXCEPT !.pc = "balance", !.req = Job(r, move), !.id = i,
                        !.nonce = IF move.asset = NULL THEN @ ELSE InitializeNonce(@, move.asset.chain)]]
  /\ UNCHANGED <<order, wallet, poll, now, reached>>

\* Any call to a node, a bridge or IRN may fail, and the request with it.
Fail(p) ==
  /\ plan[p].pc \in {"balance", "funds", "quote", "requote", "build", "store"}
  /\ Answer(p, "error")
  /\ UNCHANGED <<order, wallet, poll, now, reached>>

ReadBalance(p) ==
  /\ plan[p].pc = "balance"
  /\ LET r == plan[p].req
     IN  \/ r.asset = NULL /\ \E reply \in {"not_required", "unsupported"} : Answer(p, reply)
         \/ /\ r.asset # NULL /\ wallet[r.asset] >= r.value
            /\ NonceReady(p, r.asset.chain)
            /\ Answer(p, "not_required")
         \/ /\ r.asset # NULL /\ wallet[r.asset] < r.value
            /\ r.accounts = NULL /\ Answer(p, "invalid")
         \/ /\ r.asset # NULL /\ wallet[r.asset] < r.value
            /\ r.accounts # NULL
            /\ plan' = [plan EXCEPT ![p].pc = "funds", ![p].read = wallet[r.asset]]
  /\ UNCHANGED <<order, wallet, poll, now, reached>>

\* The balances of all sources are read one after another and are whatever
\* they are.
FindFunds(p) ==
  /\ plan[p].pc = "funds"
  /\ LET r == plan[p].req
         native == r.kind = "native"
     IN  \E balance \in [Sources(r.accounts, r.asset, native) -> Amount] :
           LET found == FundsFound(r.asset, native, Topup(p), r.accounts, balance)
           IN  \/ found = {} /\ Answer(p, "insufficient_funds")
               \/ \E s \in found :
                    plan' = [plan EXCEPT ![p].pc = "quote",
                               ![p].funds = [asset |-> s.asset, account |-> s.account, balance |-> balance[s]],
                               ![p].nonce = IF s.asset.ns = "eip155" THEN InitializeNonce(@, s.asset.chain) ELSE @]
  /\ UNCHANGED <<order, wallet, poll, now, reached>>

\* Bungee serves EVM sources, unless the client asks for LiFi.
Bungee(p) == plan[p].funds.asset.ns = "eip155" /\ ~plan[p].req.lifi

\* What Bungee answers: a quote or none; the least approval its transaction
\* needs, if any; the allowance there is.
BungeeQuotes == Amount \cup {NULL}
BungeeApprovals == Amount \cup {NULL}
BungeeAllowances == Amount

\* The first quote tells the fee, and so the amount to bridge.
Quote(p) ==
  /\ plan[p].pc = "quote" /\ Bungee(p)
  /\ \/ NULL \in BungeeQuotes /\ Answer(p, "no_routes")
     \/ \E amount \in BungeeQuotes \ {NULL} :
          LET fee == BridgingFee(SourceTopup(p), SourceAmount(p, amount))
              required == RequiredTopup(SourceTopup(p), fee)
          IN  IF plan[p].funds.balance < required
              THEN Answer(p, "insufficient_funds")
              ELSE plan' = [plan EXCEPT ![p].pc = "requote", ![p].required = required]
  /\ UNCHANGED <<order, wallet, poll, now, reached>>

\* The second quote is for that amount, and has to bring the top-up.
Requote(p) ==
  /\ plan[p].pc = "requote"
  /\ \/ NULL \in BungeeQuotes /\ Answer(p, "no_routes")
     \/ \E amount \in BungeeQuotes \ {NULL} :
          IF SourceTopup(p) > SourceAmount(p, amount)
          THEN Answer(p, "error")
          ELSE plan' = [plan EXCEPT ![p].pc = "build", ![p].quoted = amount]
  /\ UNCHANGED <<order, wallet, poll, now, reached>>

Tx(p, c, role) == [chain |-> c, role |-> role, nonce |-> plan[p].nonce[c].n]

\* The transactions on the source chain: the bridging, after an approval if one
\* is needed.
Transactions(p, approve) ==
  LET c == plan[p].funds.asset.chain
      first == Tx(p, c, "approve")
  IN  IF approve THEN <<first, [first EXCEPT !.role = "bridge", !.nonce = @ + 1]>>
                 ELSE <<Tx(p, c, "bridge")>>

Planned(p, approve) ==
  LET c == plan[p].funds.asset.chain
  IN  /\ NonceReady(p, c)
      /\ plan' = [plan EXCEPT ![p].pc = "store", ![p].txs = Transactions(p, approve),
                    ![p].nonce = IF approve THEN GetNonce(GetNonce(@, c), c) ELSE GetNonce(@, c)]

\* Bungee's transactions are simulated together for their gas, unless it is a
\* single native transfer.
Build(p) ==
  /\ plan[p].pc = "build" /\ Bungee(p)
  /\ \E least \in BungeeApprovals, allowance \in BungeeAllowances :
       Planned(p, least # NULL /\ least >= allowance)
  /\ UNCHANGED <<order, wallet, poll, now, reached>>

\* LiFi is asked how much to send so that the top-up arrives, on behalf of the
\* account that has the funds.  Whether that account has as much as LiFi asks
\* for is not looked at.
LifiSolana(p) ==
  /\ plan[p].pc = "quote" /\ plan[p].funds.asset.ns = "solana"
  /\ \E amount \in Amount :
       plan' = [plan EXCEPT ![p].pc = "store", ![p].required = amount,
                  ![p].txs = <<[chain |-> plan[p].funds.asset.chain, role |-> "bridge", nonce |-> 0]>>]
  /\ UNCHANGED <<order, wallet, poll, now, reached>>

\* An EVM quote for an account other than the sender trips an assertion.
LifiQuote(p) ==
  /\ plan[p].pc = "quote" /\ ~Bungee(p) /\ plan[p].funds.asset.ns = "eip155"
  /\ IF plan[p].funds.account # Sender
     THEN Answer(p, "panic")
     ELSE \E amount \in Amount : plan' = [plan EXCEPT ![p].pc = "build", ![p].required = amount]
  /\ UNCHANGED <<order, wallet, poll, now, reached>>

\* The allowance is asked of the token itself.
LifiBuild(p) ==
  /\ plan[p].pc = "build" /\ ~Bungee(p)
  /\ \E allowance \in Amount : Planned(p, allowance < plan[p].required)
  /\ UNCHANGED <<order, wallet, poll, now, reached>>

NewOrderOfTopup(p) ==
  [asset |-> plan[p].req.asset, current |-> plan[p].read, expected |-> Topup(p),
   created |-> now, status |-> "pending"]

NewOrder(p) ==
  [asset |-> plan[p].req.asset, current |-> plan[p].read, expected |-> plan[p].req.value,
   created |-> now, status |-> "pending"]

\* irn.set: the order is stored, and the answer may be lost.
Store(p) ==
  /\ plan[p].pc = "store"
  /\ order' = [order EXCEPT ![plan[p].id] = NewOrder(p)]
  /\ reached' = reached \cup {i \in {plan[p].id} : wallet[plan[p].req.asset] >= plan[p].req.value}
  /\ \/ Answer(p, "error")
     \/ plan' = [plan EXCEPT ![p].pc = "reply"]
  /\ UNCHANGED <<wallet, poll, now>>

\* The transfer itself comes last, and so does its nonce.  The first version
\* of the response has no room for funds on Solana.
Reply(p) ==
  /\ plan[p].pc = "reply"
  /\ LET c == plan[p].req.asset.chain
     IN  \/ plan[p].nonce[c].state = "failed" /\ Answer(p, "error")
         \/ /\ NonceReady(p, c)
            /\ IF plan[p].req.v1 /\ plan[p].funds.asset.ns = "solana"
               THEN Answer(p, "panic")
               ELSE plan' = [plan EXCEPT ![p].pc = "done", ![p].reply = "available",
                               ![p].txs = Append(@, Tx(p, c, "initial")),
                               ![p].nonce = GetNonce(@, c)]
  /\ UNCHANGED <<order, wallet, poll, now, reached>>

EndPlan(p) ==
  /\ plan[p].pc = "done"
  /\ plan' = [plan EXCEPT ![p] = IdlePlan]
  /\ UNCHANGED <<order, wallet, poll, now, reached>>

-----------------------------------------------------------------------------
(* Status. *)

AnswerPoll(q, r) == poll' = [poll EXCEPT ![q] = [IdlePoll EXCEPT !.pc = "done", !.id = poll[q].id, !.reply = r]]

\* The order is read.  A settled one is answered as it is.
ReadOrder(q, i) ==
  /\ poll[q].pc = "idle"
  /\ LET answered(r) == poll' = [poll EXCEPT ![q] = [IdlePoll EXCEPT !.pc = "done", !.id = i, !.reply = r]]
     IN  \/ answered("failed")
         \/ order[i] = NULL /\ answered("not_found")
         \/ order[i] # NULL /\ order[i].status # "pending" /\ answered(order[i].status)
         \/ /\ order[i] # NULL /\ order[i].status = "pending"
            /\ poll' = [poll EXCEPT ![q] = [IdlePoll EXCEPT !.pc = "check", !.id = i, !.read = order[i]]]
  /\ UNCHANGED <<order, wallet, plan, now, reached>>

PollFails(q) ==
  /\ poll[q].pc \in {"check", "completed", "error"}
  /\ AnswerPoll(q, "failed")
  /\ UNCHANGED <<order, wallet, plan, now, reached>>

Overdue(item) == now > item.created + Timeout

CheckBalanceForGrowth(q) ==
  /\ poll[q].pc = "check"
  /\ LET item == poll[q].read
     IN  \/ /\ wallet[item.asset] > item.current
            /\ poll' = [poll EXCEPT ![q].pc = "completed"]
         \/ /\ wallet[item.asset] <= item.current /\ Overdue(item)
            /\ poll' = [poll EXCEPT ![q].pc = "error"]
         \/ /\ wallet[item.asset] <= item.current /\ ~Overdue(item)
            /\ AnswerPoll(q, "pending")
  /\ UNCHANGED <<order, wallet, plan, now, reached>>

CheckBalanceSavesAlways(q) ==
  /\ poll[q].pc = "check"
  /\ LET item == poll[q].read
     IN  \/ /\ wallet[item.asset] >= item.expected
            /\ poll' = [poll EXCEPT ![q].pc = "completed"]
            /\ UNCHANGED order
         \/ /\ wallet[item.asset] < item.expected /\ Overdue(item)
            /\ poll' = [poll EXCEPT ![q].pc = "error"]
            /\ UNCHANGED order
         \/ /\ wallet[item.asset] < item.expected /\ ~Overdue(item)
            /\ AnswerPoll(q, "pending")
            /\ order' = [order EXCEPT ![poll[q].id] = item]
  /\ UNCHANGED <<wallet, plan, now, reached>>

\* The balance is read and the verdict found: enough, overdue or neither.
CheckBalance(q) ==
  /\ poll[q].pc = "check"
  /\ LET item == poll[q].read
     IN  \/ /\ wallet[item.asset] >= item.expected
            /\ poll' = [poll EXCEPT ![q].pc = "completed"]
         \/ /\ wallet[item.asset] < item.expected
            /\ Overdue(item)
            /\ poll' = [poll EXCEPT ![q].pc = "error"]
         \/ /\ wallet[item.asset] < item.expected
            /\ ~Overdue(item)
            /\ AnswerPoll(q, "pending")
  /\ UNCHANGED <<order, wallet, plan, now, reached>>

\* The verdict is written with the rest of the order as it was read; the
\* answer may be lost.
WriteVerdict(q) ==
  /\ poll[q].pc \in {"completed", "error"}
  /\ order' = [order EXCEPT ![poll[q].id] = [poll[q].read EXCEPT !.status = poll[q].pc]]
  /\ \E r \in {poll[q].pc, "failed"} : AnswerPoll(q, r)
  /\ UNCHANGED <<wallet, plan, now, reached>>

EndPoll(q) ==
  /\ poll[q].pc = "done"
  /\ poll' = [poll EXCEPT ![q] = IdlePoll]
  /\ UNCHANGED <<order, wallet, plan, now, reached>>

-----------------------------------------------------------------------------

\* Tokens arrive in the wallet, from the bridge or from elsewhere, or leave it.
MoveTokens(a) ==
  /\ \E n \in Amount :
       /\ wallet' = [wallet EXCEPT ![a] = n]
       /\ reached' = reached \cup
            {i \in Id : order[i] # NULL /\ order[i].asset = a /\ n >= order[i].expected}
  /\ UNCHANGED <<order, plan, poll, now>>

\* The clock goes on while an order may still time out.
Tick ==
  /\ now < MaxTime \/ \E i \in Id : order[i] # NULL /\ order[i].status = "pending" /\ ~Overdue(order[i])
  /\ now' = now + 1
  /\ UNCHANGED <<order, wallet, plan, poll, reached>>

Prepare(p) ==
  \/ Classify(p) \/ Fail(p) \/ ReadBalance(p) \/ FindFunds(p) \/ Quote(p) \/ Requote(p)
  \/ Build(p) \/ LifiSolana(p) \/ LifiQuote(p) \/ LifiBuild(p) \/ Store(p) \/ Reply(p) \/ EndPlan(p)
  \/ \E c \in Chain : FetchNonce(p, c)

Status(q) ==
  PollFails(q) \/ CheckBalance(q) \/ WriteVerdict(q) \/ EndPoll(q) \/ \E i \in Id : ReadOrder(q, i)

Next ==
  \/ Tick
  \/ \E p \in Planner : Prepare(p)
  \/ \E q \in Poller : Status(q)
  \/ \E a \in Target : MoveTokens(a)

\* Clients poll, and neither IRN nor the node fails every one of their polls.
Fairness ==
  /\ WF_vars(Tick)
  /\ \A q \in Poller :
       /\ SF_vars(CheckBalance(q)) /\ SF_vars(WriteVerdict(q)) /\ WF_vars(EndPoll(q))
       /\ \A i \in Id : SF_vars(ReadOrder(q, i) /\ poll'[q].pc = "check")

SafeSpec == Init /\ [][Next]_vars
Spec == SafeSpec /\ Fairness

-----------------------------------------------------------------------------
(* Properties. *)

\* Shapes of the store, the wallet and the handlers.
TypeOK ==
  /\ order \in [Id -> Order \cup {NULL}]
  /\ wallet \in [Target -> Amount]
  /\ now \in Nat
  /\ reached \subseteq Id
  /\ \A p \in Planner :
       /\ DOMAIN plan[p] = DOMAIN IdlePlan
       /\ plan[p].id \in Id \cup {NULL}
  /\ \A q \in Poller :
       /\ DOMAIN poll[q] = DOMAIN IdlePoll
       /\ poll[q].pc \in {"idle", "check", "completed", "error", "done"}
       /\ poll[q].pc \in {"check", "completed", "error"} => poll[q].id \in Id /\ poll[q].read \in Order

\* The transactions of a plan that go to one chain have consecutive nonces in
\* the order they are to be sent in, approval, bridging and transfer, also when
\* the funds are on the chain of the transfer and one manager serves both.
NoncesInOrder ==
  \A p \in Planner : plan[p].reply = "available" =>
    LET txs == plan[p].txs
        evm(i, j) == {k \in i..j : txs[k].chain = txs[j].chain}
    IN  \A i, j \in DOMAIN txs :
          i < j /\ txs[i].chain = txs[j].chain =>
            txs[j].nonce = txs[i].nonce + Cardinality(evm(i, j)) - 1

\* Five times any amount is a U256 number, in whichever token it is expressed.
AmountsFit ==
  \A a, b \in Asset :
    a.decimals <= b.decimals => 5 * MaxAmount * Scale[b.decimals - a.decimals] < Word

\* One unit of the token bridged from, in the token the transfer moves.
SourceUnit(p) ==
  LET d == plan[p].req.asset.decimals - plan[p].funds.asset.decimals
  IN  IF d > 0 THEN Scale[d] ELSE 1

\* A plan Bungee quoted, once it has arrived, leaves the transfer short of less
\* than one unit of the token bridged from, and of nothing if that token has as
\* many decimals; and its funds were enough for it when they were read.
PlanCoversTransfer ==
  \A p \in Planner : plan[p].reply = "available" /\ Bungee(p) =>
    /\ plan[p].read + plan[p].quoted > plan[p].req.value - SourceUnit(p)
    /\ AtLeast(plan[p].funds.balance, plan[p].funds.asset.decimals,
               plan[p].required, plan[p].funds.asset.decimals)
    /\ plan[p].required >= SourceTopup(p)

\* A plan the client is given can be polled: its order is stored, for what the
\* transfer needs, whatever polls have done to it since.
PlanIsTracked ==
  \A p \in Planner : plan[p].reply = "available" =>
    LET o == order[plan[p].id]
    IN  o # NULL /\ o.asset = plan[p].req.asset /\ o.expected = plan[p].req.value

\* An order is completed only if the wallet has held what it expects at some
\* time since it was stored, and failed only once it is overdue, however polls
\* overlap.
SettledRightly ==
  \A i \in Id : order[i] # NULL =>
    /\ order[i].status = "completed" => i \in reached
    /\ order[i].status = "error" => Overdue(order[i])

\* Orders seen through BridgingPromise.
Promise == INSTANCE BridgingPromise WITH
  status <- [i \in Id |-> IF order[i] = NULL THEN "none" ELSE order[i].status],
  funded <- reached,
  overdue <- {i \in Id : order[i] # NULL /\ Overdue(order[i])}

\* Polling keeps the promise made to the client, liveness included: an order
\* that is funded or overdue is settled by some poll.
KeepsPromise == Promise!Spec

=============================================================================
