----------------------- MODULE ChainAbstractionProofs -----------------------
(***************************************************************************)
(* Proofs about ChainAbstraction, for any tokens, requests, numbers of     *)
(* handlers and any timeout: an order is settled rightly however polls     *)
(* overlap, a plan given out is tracked, polling keeps the safety part of  *)
(* BridgingPromise, and a plan's nonces and amounts are right.             *)
(*                                                                         *)
(* The inductive invariant: orders are created under identifiers no other  *)
(* request has, so that nothing but a poll touches an order once it is     *)
(* stored (PlansInv); a poll holds the order it read in all but its status,*)
(* and a verdict it found stays true (PollsInv); an order the wallet       *)
(* covers now is among those it has covered (OrdersInv).  On top of it,    *)
(* each request by itself keeps what it has worked out so far (RouteInv):  *)
(* the amounts come from quotes that were compared, and the nonces of its  *)
(* source chain go on after those of its transactions.                     *)
(***************************************************************************)
EXTENDS ChainAbstraction, FiniteSetTheorems, WellFoundedInduction, TLAPS

PlanFields == {"pc", "req", "read", "funds", "required", "quoted", "nonce", "txs", "id", "reply"}
PollFields == {"pc", "id", "read", "reply"}

\* Handlers that have an identifier but have not stored their order.
Unstored == {"balance", "funds", "quote", "requote", "build", "store"}

\* Handlers that have found their transfer not to be covered.
Lacking == Unstored \ {"balance"}

\* A request as NewOrder needs it.
GoodJob(p) ==
  plan[p].req.asset \in Target /\ plan[p].req.value \in Amount /\ plan[p].read \in Amount

Tracked(p) ==
  LET o == order[plan[p].id]
  IN  o # NULL /\ o.asset = plan[p].req.asset /\ o.expected = plan[p].req.value

OrdersInv ==
  /\ order \in [Id -> Order \cup {NULL}]
  /\ wallet \in [Target -> Amount]
  /\ now \in Nat
  /\ reached \subseteq {i \in Id : order[i] # NULL}
  /\ \A i \in Id : order[i] # NULL =>
       /\ wallet[order[i].asset] >= order[i].expected => i \in reached
       /\ order[i].status = "completed" => i \in reached
       /\ order[i].status = "error" => Overdue(order[i])

PlanInv(p) ==
  /\ DOMAIN plan[p] = PlanFields
  /\ plan[p].id \in Id \cup {NULL}
  /\ plan[p].pc \in Unstored => plan[p].id \in Id /\ order[plan[p].id] = NULL
  /\ plan[p].pc = "balance" => plan[p].req.asset \in Target \cup {NULL} /\ plan[p].req.value \in Amount
  /\ plan[p].pc \in Lacking => GoodJob(p)
  /\ plan[p].pc = "reply" \/ plan[p].reply = "available" => plan[p].id \in Id /\ Tracked(p)
  /\ plan[p].pc # "done" => plan[p].reply = NULL

PlansInv ==
  /\ plan = [p \in Planner |-> plan[p]]
  /\ \A p \in Planner : PlanInv(p)
  /\ \A p, u \in Planner : plan[p].id = plan[u].id /\ plan[p].id # NULL => p = u

\* Two readings of an order agree in all but its status.
SameOrder(a, b) ==
  a.asset = b.asset /\ a.current = b.current /\ a.expected = b.expected /\ a.created = b.created

PollInv(q) ==
  /\ DOMAIN poll[q] = PollFields
  /\ poll[q].pc \in {"idle", "check", "completed", "error", "done"}
  /\ poll[q].pc \in {"check", "completed", "error"} =>
       /\ poll[q].id \in Id /\ poll[q].read \in Order
       /\ order[poll[q].id] # NULL /\ SameOrder(order[poll[q].id], poll[q].read)
  /\ poll[q].pc = "completed" => poll[q].id \in reached
  /\ poll[q].pc = "error" => Overdue(poll[q].read)

PollsInv ==
  /\ poll = [q \in Poller |-> poll[q]]
  /\ \A q \in Poller : PollInv(q)

Inv == OrdersInv /\ PlansInv /\ PollsInv

-----------------------------------------------------------------------------
(* The handlers' own state. *)

LEMMA OrderFields ==
  ASSUME NEW o \in Order
  PROVE  /\ o.asset \in Target /\ o.current \in Amount /\ o.expected \in Amount /\ o.created \in Nat
         /\ o.status \in {"pending", "completed", "error"}
         /\ o # NULL
BY BoundAssumption DEF Order

\* What the first call of a request moves is in order, if anything.
LEMMA MovesAreGood ==
  ASSUME NEW r \in Request, NEW m \in FirstCall(r).moves
  PROVE  m.asset \in Target \cup {NULL} /\ m.value \in Amount
<1>1. RequestShape(r)
  BY RequestAssumption
<1>2. \A k \in DOMAIN r.moves : r.moves[k].asset \in Target \cup {NULL} /\ r.moves[k].value \in Amount
  <2> SUFFICES ASSUME NEW k \in DOMAIN r.moves
               PROVE  r.moves[k].asset \in Target \cup {NULL} /\ r.moves[k].value \in Amount
    OBVIOUS
  <2> DEFINE M == [asset : Asset \cup {NULL}, value : Amount]
  <2>1. r.moves \in Seq(M)
    BY <1>1 DEF RequestShape
  <2> HIDE DEF M
  <2>2. r.moves[k] \in M
    BY <2>1
  <2> USE DEF M
  <2>3. r.moves[k].asset \in {r.moves[j].asset : j \in DOMAIN r.moves}
    OBVIOUS
  <2> QED
    BY <2>2, <2>3 DEF Target
<1>3. PICK k \in DOMAIN r.moves : m = r.moves[k]
  <2>1. CASE r.kind = "empty"
    BY <2>1 DEF FirstCall
  <2>2. CASE r.kind = "native"
    BY <2>2, <1>1 DEF FirstCall, NativeTransfer, RequestShape
  <2>3. CASE r.kind = "transfer"
    BY <2>3, <1>1 DEF FirstCall, Erc20Transfer, RequestShape
  <2>4. CASE r.kind = "other"
    BY <2>4 DEF FirstCall, SimulatedCall, SupportedMoves
  <2> QED
    BY <2>1, <2>2, <2>3, <2>4, <1>1 DEF RequestShape
<1> QED
  BY <1>2, <1>3

\* A step of one prepare request that leaves the orders alone.
PlanStep(p) ==
  /\ plan' = [u \in Planner |-> IF u = p THEN plan'[p] ELSE plan[u]]
  /\ DOMAIN plan'[p] = PlanFields
  /\ order' = order

\* It is enough to look at the request that moved, if it keeps its identifier.
LEMMA OnePlan ==
  ASSUME PlansInv, NEW p \in Planner, PlanStep(p), plan'[p].id = plan[p].id, PlanInv(p)'
  PROVE  PlansInv'
<1>1. \A u \in Planner : plan'[u].id = plan[u].id
  BY DEF PlanStep
<1>2. \A u \in Planner : PlanInv(u)'
  <2> SUFFICES ASSUME NEW u \in Planner, u # p
               PROVE  PlanInv(u)'
    OBVIOUS
  <2>1. plan'[u] = plan[u] /\ PlanInv(u)
    BY DEF PlanStep, PlansInv
  <2> QED
    BY <2>1 DEF PlanStep, PlanInv, GoodJob, Tracked
<1>3. plan' = [u \in Planner |-> plan'[u]]
  BY DEF PlanStep
<1> QED
  BY <1>1, <1>2, <1>3 DEF PlansInv

\* The request is answered, with anything but a plan.
LEMMA Refuse ==
  ASSUME PlansInv, NEW p \in Planner, NEW r, r # "available", Answer(p, r), order' = order
  PROVE  PlansInv'
<1>1. plan' = [u \in Planner |-> IF u = p THEN [plan[p] EXCEPT !.pc = "done", !.reply = r] ELSE plan[u]]
  BY DEF Answer, PlansInv
<1>2. PlanInv(p)
  BY DEF PlansInv
<1>3. /\ DOMAIN plan'[p] = PlanFields
      /\ plan'[p].pc = "done" /\ plan'[p].reply = r
      /\ plan'[p].id = plan[p].id
  BY <1>1, <1>2 DEF PlanInv, PlanFields
<1>4. PlanStep(p)
  BY <1>1, <1>3 DEF PlanStep
<1>5. PlanInv(p)'
  BY <1>2, <1>3 DEF PlanInv, Unstored, Lacking
<1> QED
  BY <1>3, <1>4, <1>5, OnePlan

\* The request goes on: what it is about and its answer do not change.
LEMMA Advance ==
  ASSUME PlansInv, NEW p \in Planner, PlanStep(p), plan[p].pc \in Unstored,
         plan'[p].pc \in Lacking, plan'[p].id = plan[p].id, plan'[p].reply = plan[p].reply, GoodJob(p)'
  PROVE  PlansInv'
<1>1. PlanInv(p)
  BY DEF PlansInv
<1>2. plan'[p].reply = NULL
  BY <1>1 DEF PlanInv, Unstored
<1>3. PlanInv(p)'
  BY <1>1, <1>2, BoundAssumption DEF PlanInv, PlanStep, Unstored, Lacking
<1> QED
  BY <1>3, OnePlan

LEMMA FetchNonceStep ==
  ASSUME PlansInv, NEW p \in Planner, NEW c \in Chain, FetchNonce(p, c)
  PROVE  PlansInv'
<1>1. PICK s \in {"ready", "failed"}, n \in 0..MaxNonce :
        plan' = [plan EXCEPT ![p].nonce[c] = [state |-> s, n |-> n]]
  BY DEF FetchNonce
<1>2. plan' = [u \in Planner |-> IF u = p THEN [plan[p] EXCEPT !.nonce[c] = [state |-> s, n |-> n]] ELSE plan[u]]
  BY <1>1 DEF PlansInv
<1>3. PlanInv(p)
  BY DEF PlansInv
<1>4. /\ DOMAIN plan'[p] = PlanFields
      /\ plan'[p].pc = plan[p].pc /\ plan'[p].req = plan[p].req /\ plan'[p].read = plan[p].read
      /\ plan'[p].id = plan[p].id /\ plan'[p].reply = plan[p].reply
  BY <1>2, <1>3 DEF PlanInv, PlanFields
<1>5. PlanStep(p)
  BY <1>2, <1>4 DEF PlanStep, FetchNonce
<1>6. PlanInv(p)'
  BY <1>3, <1>4, <1>5 DEF PlanInv, PlanStep, GoodJob, Tracked
<1> QED
  BY <1>4, <1>5, <1>6, OnePlan

\* A fresh record of a request, as IdlePlan has it.
LEMMA IdlePlanFields ==
  /\ DOMAIN IdlePlan = PlanFields
  /\ IdlePlan.pc = "idle" /\ IdlePlan.id = NULL /\ IdlePlan.reply = NULL
BY DEF IdlePlan, PlanFields

LEMMA ClassifyStep ==
  ASSUME PlansInv, NEW p \in Planner, Classify(p)
  PROVE  PlansInv'
<1>1. PICK r \in Request, i \in Id :
        /\ order[i] = NULL /\ \A u \in Planner : plan[u].id # i
        /\ \/ \E reply \in FirstCall(r).refusals \cup {"error"} :
                plan' = [plan EXCEPT ![p] = [IdlePlan EXCEPT !.pc = "done", !.reply = reply]]
           \/ \E move \in FirstCall(r).moves :
                plan' = [plan EXCEPT ![p] =
                  [IdlePlan EXCEPT !.pc = "balance", !.req = Job(r, move), !.id = i,
                     !.nonce = IF move.asset = NULL THEN @ ELSE InitializeNonce(@, move.asset.chain)]]
  BY DEF Classify
<1>2. order' = order
  BY DEF Classify
<1>3. CASE \E reply \in FirstCall(r).refusals \cup {"error"} :
             plan' = [plan EXCEPT ![p] = [IdlePlan EXCEPT !.pc = "done", !.reply = reply]]
  <2>1. PICK reply \in FirstCall(r).refusals \cup {"error"} :
          plan' = [plan EXCEPT ![p] = [IdlePlan EXCEPT !.pc = "done", !.reply = reply]]
    BY <1>3
  <2>2. reply # "available"
    <3>1. RequestShape(r)
      BY RequestAssumption
    <3> QED
      BY <3>1 DEF FirstCall, NativeTransfer, Erc20Transfer, SimulatedCall, RequestShape
  <2>3. plan' = [u \in Planner |-> IF u = p THEN [IdlePlan EXCEPT !.pc = "done", !.reply = reply] ELSE plan[u]]
    BY <2>1 DEF PlansInv
  <2>4. /\ DOMAIN plan'[p] = PlanFields
        /\ plan'[p].pc = "done" /\ plan'[p].reply = reply /\ plan'[p].id = NULL
    BY <2>3, IdlePlanFields DEF PlanFields
  <2>5. PlanInv(p)'
    BY <2>2, <2>4 DEF PlanInv, Unstored, Lacking
  <2>6. \A u \in Planner : PlanInv(u)'
    BY <2>3, <2>5, <1>2 DEF PlansInv, PlanInv, GoodJob, Tracked
  <2> QED
    BY <2>3, <2>4, <2>6 DEF PlansInv
<1>4. CASE \E move \in FirstCall(r).moves :
             plan' = [plan EXCEPT ![p] =
               [IdlePlan EXCEPT !.pc = "balance", !.req = Job(r, move), !.id = i,
                  !.nonce = IF move.asset = NULL THEN @ ELSE InitializeNonce(@, move.asset.chain)]]
  <2>1. PICK move \in FirstCall(r).moves :
          plan' = [plan EXCEPT ![p] =
            [IdlePlan EXCEPT !.pc = "balance", !.req = Job(r, move), !.id = i,
               !.nonce = IF move.asset = NULL THEN @ ELSE InitializeNonce(@, move.asset.chain)]]
    BY <1>4
  <2> DEFINE e == [IdlePlan EXCEPT !.pc = "balance", !.req = Job(r, move), !.id = i,
                     !.nonce = IF move.asset = NULL THEN @ ELSE InitializeNonce(@, move.asset.chain)]
  <2>2. plan' = [u \in Planner |-> IF u = p THEN e ELSE plan[u]]
    BY <2>1 DEF PlansInv
  <2>3. /\ DOMAIN e = PlanFields
        /\ e.pc = "balance" /\ e.reply = NULL /\ e.id = i /\ e.req = Job(r, move)
    BY IdlePlanFields DEF PlanFields
  <2>4. e.req.asset \in Target \cup {NULL} /\ e.req.value \in Amount
    BY <2>3, MovesAreGood DEF Job
  <2> HIDE DEF e
  <2>5. plan'[p] = e
    BY <2>2
  <2>6. PlanInv(p)'
    BY <2>3, <2>4, <2>5, <1>1, <1>2, BoundAssumption DEF PlanInv, Unstored, Lacking
  <2>7. \A u \in Planner : PlanInv(u)'
    BY <2>2, <2>6, <1>2 DEF PlansInv, PlanInv, GoodJob, Tracked
  <2>8. \A u, v \in Planner : plan'[u].id = plan'[v].id /\ plan'[u].id # NULL => u = v
    BY <2>2, <2>3, <1>1 DEF PlansInv
  <2> QED
    BY <2>2, <2>7, <2>8 DEF PlansInv
<1> QED
  BY <1>1, <1>3, <1>4

-----------------------------------------------------------------------------
(* One lemma for the steps that refuse or go on, and one for each of the others. *)

\* A step after which the request has only other data of its own.
LEMMA GoOn ==
  ASSUME PlansInv, NEW p \in Planner, NEW e, plan' = [plan EXCEPT ![p] = e], order' = order,
         DOMAIN e = PlanFields, plan[p].pc \in Unstored, e.pc \in Lacking,
         e.id = plan[p].id, e.reply = plan[p].reply, e.req = plan[p].req, e.read \in Amount,
         plan[p].req.asset \in Target, plan[p].req.value \in Amount
  PROVE  PlansInv'
<1>1. plan' = [u \in Planner |-> IF u = p THEN e ELSE plan[u]]
  BY DEF PlansInv
<1>2. plan'[p] = e
  BY <1>1
<1>3. PlanStep(p)
  BY <1>1, <1>2 DEF PlanStep
<1>4. GoodJob(p)'
  BY <1>2 DEF GoodJob
<1> QED
  BY <1>2, <1>3, <1>4, Advance

\* What is known of a request that goes on.
LEMMA AboutPlan ==
  ASSUME PlansInv, NEW p \in Planner, plan[p].pc \in Lacking
  PROVE  /\ DOMAIN plan[p] = PlanFields /\ plan[p].pc \in Unstored /\ plan[p].read \in Amount
         /\ plan[p].req.asset \in Target /\ plan[p].req.value \in Amount
BY DEF PlansInv, PlanInv, GoodJob, Unstored, Lacking

LEMMA FailStep ==
  ASSUME PlansInv, NEW p \in Planner, Fail(p)
  PROVE  PlansInv'
BY Refuse DEF Fail

LEMMA ReadBalanceStep ==
  ASSUME PlansInv, OrdersInv, NEW p \in Planner, ReadBalance(p)
  PROVE  PlansInv'
<1> DEFINE r == plan[p].req
<1>1. order' = order /\ plan[p].pc = "balance"
  BY DEF ReadBalance
<1>2. CASE \E reply \in {"not_required", "unsupported", "invalid"} : Answer(p, reply)
  BY <1>1, <1>2, Refuse
<1>3. CASE /\ r.asset # NULL
           /\ plan' = [plan EXCEPT ![p].pc = "funds", ![p].read = wallet[r.asset]]
  <2> DEFINE e == [plan[p] EXCEPT !.pc = "funds", !.read = wallet[r.asset]]
  <2>1. DOMAIN plan[p] = PlanFields /\ r.asset \in Target /\ r.value \in Amount
    BY <1>1, <1>3 DEF PlansInv, PlanInv
  <2>2. wallet[r.asset] \in Amount
    BY <2>1 DEF OrdersInv
  <2>3. plan' = [plan EXCEPT ![p] = e]
    BY <1>3 DEF PlansInv
  <2>4. /\ DOMAIN e = PlanFields /\ e.pc = "funds"
        /\ e.id = plan[p].id /\ e.reply = plan[p].reply /\ e.req = plan[p].req /\ e.read = wallet[r.asset]
    BY <2>1 DEF PlanFields
  <2> HIDE DEF e
  <2>5. plan[p].pc \in Unstored /\ e.pc \in Lacking
    BY <1>1, <2>4 DEF Unstored, Lacking
  <2> QED
    BY <1>1, <2>1, <2>2, <2>3, <2>4, <2>5, GoOn
<1> QED
  BY <1>2, <1>3 DEF ReadBalance

LEMMA FindFundsStep ==
  ASSUME PlansInv, NEW p \in Planner, FindFunds(p)
  PROVE  PlansInv'
<1>1. order' = order /\ plan[p].pc = "funds"
  BY DEF FindFunds
<1>2. CASE Answer(p, "insufficient_funds")
  BY <1>1, <1>2, Refuse
<1>3. CASE \E f, n : plan' = [plan EXCEPT ![p].pc = "quote", ![p].funds = f, ![p].nonce = n]
  <2>1. PICK f, n : plan' = [plan EXCEPT ![p].pc = "quote", ![p].funds = f, ![p].nonce = n]
    BY <1>3
  <2> DEFINE e == [plan[p] EXCEPT !.pc = "quote", !.funds = f, !.nonce = n]
  <2>2. plan[p].pc \in Lacking
    BY <1>1 DEF Unstored, Lacking
  <2>3. plan' = [plan EXCEPT ![p] = e]
    BY <2>1 DEF PlansInv
  <2>4. /\ DOMAIN e = PlanFields /\ e.pc = "quote" /\ e.read = plan[p].read
        /\ e.id = plan[p].id /\ e.reply = plan[p].reply /\ e.req = plan[p].req
    BY <2>2, AboutPlan DEF PlanFields
  <2> HIDE DEF e
  <2>5. e.pc \in Lacking
    BY <2>4 DEF Unstored, Lacking
  <2> QED
    BY <1>1, <2>2, <2>3, <2>4, <2>5, AboutPlan, GoOn
<1>4. Answer(p, "insufficient_funds")
      \/ \E f, n : plan' = [plan EXCEPT ![p].pc = "quote", ![p].funds = f, ![p].nonce = n]
  <2> DEFINE r == plan[p].req
             found(balance) == FundsFound(r.asset, r.kind = "native", Topup(p), r.accounts, balance)
  <2>1. PICK balance \in [Sources(r.accounts, r.asset, r.kind = "native") -> Amount] :
          \/ found(balance) = {} /\ Answer(p, "insufficient_funds")
          \/ \E s \in found(balance) :
               plan' = [plan EXCEPT ![p].pc = "quote",
                          ![p].funds = [asset |-> s.asset, account |-> s.account, balance |-> balance[s]],
                          ![p].nonce = IF s.asset.ns = "eip155" THEN InitializeNonce(@, s.asset.chain) ELSE @]
    BY DEF FindFunds
  <2> HIDE DEF found
  <2>2. CASE \E s \in found(balance) :
               plan' = [plan EXCEPT ![p].pc = "quote",
                          ![p].funds = [asset |-> s.asset, account |-> s.account, balance |-> balance[s]],
                          ![p].nonce = IF s.asset.ns = "eip155" THEN InitializeNonce(@, s.asset.chain) ELSE @]
    <3>1. PICK s \in found(balance) :
            plan' = [plan EXCEPT ![p].pc = "quote",
                       ![p].funds = [asset |-> s.asset, account |-> s.account, balance |-> balance[s]],
                       ![p].nonce = IF s.asset.ns = "eip155" THEN InitializeNonce(@, s.asset.chain) ELSE @]
      BY <2>2
    <3> DEFINE f == [asset |-> s.asset, account |-> s.account, balance |-> balance[s]]
               n == IF s.asset.ns = "eip155"
                    THEN InitializeNonce(plan[p].nonce, s.asset.chain) ELSE plan[p].nonce
    <3>2. plan' = [u \in Planner |->
                     IF u = p THEN [plan[p] EXCEPT !.pc = "quote", !.funds = f, !.nonce = n] ELSE plan[u]]
      BY <3>1 DEF PlansInv
    <3> HIDE DEF f, n
    <3>3. plan' = [plan EXCEPT ![p].pc = "quote", ![p].funds = f, ![p].nonce = n]
      BY <3>2 DEF PlansInv
    <3> QED
      BY <3>3
  <2> QED
    BY <2>1, <2>2
<1> QED
  BY <1>2, <1>3, <1>4

LEMMA QuoteStep ==
  ASSUME PlansInv, NEW p \in Planner, Quote(p)
  PROVE  PlansInv'
<1>1. order' = order /\ plan[p].pc = "quote"
  BY DEF Quote
<1>2. CASE \E r \in {"no_routes", "insufficient_funds"} : Answer(p, r)
  BY <1>1, <1>2, Refuse
<1>3. CASE \E n : plan' = [plan EXCEPT ![p].pc = "requote", ![p].required = n]
  <2>1. PICK n : plan' = [plan EXCEPT ![p].pc = "requote", ![p].required = n]
    BY <1>3
  <2> DEFINE e == [plan[p] EXCEPT !.pc = "requote", !.required = n]
  <2>2. plan[p].pc \in Lacking
    BY <1>1 DEF Unstored, Lacking
  <2>3. plan' = [plan EXCEPT ![p] = e]
    BY <2>1 DEF PlansInv
  <2>4. /\ DOMAIN e = PlanFields /\ e.pc = "requote" /\ e.read = plan[p].read
        /\ e.id = plan[p].id /\ e.reply = plan[p].reply /\ e.req = plan[p].req
    BY <2>2, AboutPlan DEF PlanFields
  <2> HIDE DEF e
  <2>5. e.pc \in Lacking
    BY <2>4 DEF Unstored, Lacking
  <2> QED
    BY <1>1, <2>2, <2>3, <2>4, <2>5, AboutPlan, GoOn
<1> QED
  BY <1>2, <1>3 DEF Quote

LEMMA RequoteStep ==
  ASSUME PlansInv, NEW p \in Planner, Requote(p)
  PROVE  PlansInv'
<1>1. order' = order /\ plan[p].pc = "requote"
  BY DEF Requote
<1>2. CASE \E r \in {"no_routes", "error"} : Answer(p, r)
  BY <1>1, <1>2, Refuse
<1>3. CASE \E n : plan' = [plan EXCEPT ![p].pc = "build", ![p].quoted = n]
  <2>1. PICK n : plan' = [plan EXCEPT ![p].pc = "build", ![p].quoted = n]
    BY <1>3
  <2> DEFINE e == [plan[p] EXCEPT !.pc = "build", !.quoted = n]
  <2>2. plan[p].pc \in Lacking
    BY <1>1 DEF Unstored, Lacking
  <2>3. plan' = [plan EXCEPT ![p] = e]
    BY <2>1 DEF PlansInv
  <2>4. /\ DOMAIN e = PlanFields /\ e.pc = "build" /\ e.read = plan[p].read
        /\ e.id = plan[p].id /\ e.reply = plan[p].reply /\ e.req = plan[p].req
    BY <2>2, AboutPlan DEF PlanFields
  <2> HIDE DEF e
  <2>5. e.pc \in Lacking
    BY <2>4 DEF Unstored, Lacking
  <2> QED
    BY <1>1, <2>2, <2>3, <2>4, <2>5, AboutPlan, GoOn
<1> QED
  BY <1>2, <1>3 DEF Requote

LEMMA LifiQuoteStep ==
  ASSUME PlansInv, NEW p \in Planner, LifiQuote(p)
  PROVE  PlansInv'
<1>1. order' = order /\ plan[p].pc = "quote"
  BY DEF LifiQuote
<1>2. CASE Answer(p, "panic")
  BY <1>1, <1>2, Refuse
<1>3. CASE \E n : plan' = [plan EXCEPT ![p].pc = "build", ![p].required = n]
  <2>1. PICK n : plan' = [plan EXCEPT ![p].pc = "build", ![p].required = n]
    BY <1>3
  <2> DEFINE e == [plan[p] EXCEPT !.pc = "build", !.required = n]
  <2>2. plan[p].pc \in Lacking
    BY <1>1 DEF Unstored, Lacking
  <2>3. plan' = [plan EXCEPT ![p] = e]
    BY <2>1 DEF PlansInv
  <2>4. /\ DOMAIN e = PlanFields /\ e.pc = "build" /\ e.read = plan[p].read
        /\ e.id = plan[p].id /\ e.reply = plan[p].reply /\ e.req = plan[p].req
    BY <2>2, AboutPlan DEF PlanFields
  <2> HIDE DEF e
  <2>5. e.pc \in Lacking
    BY <2>4 DEF Unstored, Lacking
  <2> QED
    BY <1>1, <2>2, <2>3, <2>4, <2>5, AboutPlan, GoOn
<1> QED
  BY <1>2, <1>3 DEF LifiQuote

LEMMA LifiSolanaStep ==
  ASSUME PlansInv, NEW p \in Planner, LifiSolana(p)
  PROVE  PlansInv'
<1>1. order' = order /\ plan[p].pc = "quote"
  BY DEF LifiSolana
<1>2. \E n, t : plan' = [plan EXCEPT ![p].pc = "store", ![p].required = n, ![p].txs = t]
  BY DEF LifiSolana
<1> QED
  <2>1. PICK n, t : plan' = [plan EXCEPT ![p].pc = "store", ![p].required = n, ![p].txs = t]
    BY <1>2
  <2> DEFINE e == [plan[p] EXCEPT !.pc = "store", !.required = n, !.txs = t]
  <2>2. plan[p].pc \in Lacking
    BY <1>1 DEF Unstored, Lacking
  <2>3. plan' = [plan EXCEPT ![p] = e]
    BY <2>1 DEF PlansInv
  <2>4. /\ DOMAIN e = PlanFields /\ e.pc = "store" /\ e.read = plan[p].read
        /\ e.id = plan[p].id /\ e.reply = plan[p].reply /\ e.req = plan[p].req
    BY <2>2, AboutPlan DEF PlanFields
  <2> HIDE DEF e
  <2>5. e.pc \in Lacking
    BY <2>4 DEF Unstored, Lacking
  <2> QED
    BY <1>1, <2>2, <2>3, <2>4, <2>5, AboutPlan, GoOn

\* The transactions are laid out, by either bridge.
LEMMA PlannedStep ==
  ASSUME PlansInv, NEW p \in Planner, NEW approve, Planned(p, approve), plan[p].pc = "build", order' = order
  PROVE  PlansInv'
<1>1. order' = order /\ plan[p].pc = "build"
  OBVIOUS
<1> DEFINE c == plan[p].funds.asset.chain
           ts == Transactions(p, approve)
           ns == IF approve THEN GetNonce(GetNonce(plan[p].nonce, c), c) ELSE GetNonce(plan[p].nonce, c)
<1>2. plan' = [u \in Planner |->
                 IF u = p THEN [plan[p] EXCEPT !.pc = "store", !.txs = ts, !.nonce = ns] ELSE plan[u]]
  BY DEF PlansInv, Planned
<1> HIDE DEF ts, ns
<1>3. \E t, n : plan' = [plan EXCEPT ![p].pc = "store", ![p].txs = t, ![p].nonce = n]
  <2>1. plan' = [plan EXCEPT ![p].pc = "store", ![p].txs = ts, ![p].nonce = ns]
    BY <1>2 DEF PlansInv
  <2> QED
    BY <2>1
<1> QED
  <2>1. PICK t, n : plan' = [plan EXCEPT ![p].pc = "store", ![p].txs = t, ![p].nonce = n]
    BY <1>3
  <2> DEFINE e == [plan[p] EXCEPT !.pc = "store", !.txs = t, !.nonce = n]
  <2>2. plan[p].pc \in Lacking
    BY <1>1 DEF Unstored, Lacking
  <2>3. plan' = [plan EXCEPT ![p] = e]
    BY <2>1 DEF PlansInv
  <2>4. /\ DOMAIN e = PlanFields /\ e.pc = "store" /\ e.read = plan[p].read
        /\ e.id = plan[p].id /\ e.reply = plan[p].reply /\ e.req = plan[p].req
    BY <2>2, AboutPlan DEF PlanFields
  <2> HIDE DEF e
  <2>5. e.pc \in Lacking
    BY <2>4 DEF Unstored, Lacking
  <2> QED
    BY <1>1, <2>2, <2>3, <2>4, <2>5, AboutPlan, GoOn

LEMMA BuildStep ==
  ASSUME PlansInv, NEW p \in Planner, Build(p) \/ LifiBuild(p)
  PROVE  PlansInv'
BY PlannedStep DEF Build, LifiBuild

LEMMA EndPlanStep ==
  ASSUME PlansInv, NEW p \in Planner, EndPlan(p)
  PROVE  PlansInv'
<1>1. order' = order /\ plan' = [u \in Planner |-> IF u = p THEN IdlePlan ELSE plan[u]]
  BY DEF EndPlan, PlansInv
<1>2. plan'[p] = IdlePlan
  BY <1>1
<1>3. PlanInv(p)'
  BY <1>2, IdlePlanFields, BoundAssumption DEF PlanInv, Unstored, Lacking
<1>4. \A u \in Planner : PlanInv(u)'
  BY <1>1, <1>3 DEF PlansInv, PlanInv, GoodJob, Tracked
<1> QED
  BY <1>1, <1>2, <1>4, IdlePlanFields DEF PlansInv

\* The answer has the transfer itself, and the order stays as it is.
LEMMA ReplyStep ==
  ASSUME PlansInv, NEW p \in Planner, Reply(p)
  PROVE  PlansInv'
<1>1. order' = order /\ plan[p].pc = "reply"
  BY DEF Reply
<1>2. CASE \E r \in {"error", "panic"} : Answer(p, r)
  BY <1>1, <1>2, Refuse
<1>3. CASE \E t, n : plan' = [plan EXCEPT ![p].pc = "done", ![p].reply = "available",
                                ![p].txs = t, ![p].nonce = n]
  <2>1. PICK t, n : plan' = [plan EXCEPT ![p].pc = "done", ![p].reply = "available",
                               ![p].txs = t, ![p].nonce = n]
    BY <1>3
  <2> DEFINE e == [plan[p] EXCEPT !.pc = "done", !.reply = "available", !.txs = t, !.nonce = n]
  <2>2. plan' = [u \in Planner |-> IF u = p THEN e ELSE plan[u]]
    BY <2>1 DEF PlansInv
  <2>3. PlanInv(p)
    BY DEF PlansInv
  <2>4. /\ DOMAIN e = PlanFields /\ e.pc = "done" /\ e.reply = "available"
        /\ e.id = plan[p].id /\ e.req = plan[p].req
    BY <2>3 DEF PlanFields, PlanInv
  <2> HIDE DEF e
  <2>5. plan'[p] = e
    BY <2>2
  <2>6. PlanStep(p)
    BY <1>1, <2>2, <2>4, <2>5 DEF PlanStep
  <2>7. PlanInv(p)'
    BY <1>1, <2>3, <2>4, <2>5 DEF PlanInv, Tracked, Unstored, Lacking
  <2> QED
    BY <2>4, <2>5, <2>6, <2>7, OnePlan
<1>4. \/ \E r \in {"error", "panic"} : Answer(p, r)
      \/ \E t, n : plan' = [plan EXCEPT ![p].pc = "done", ![p].reply = "available",
                              ![p].txs = t, ![p].nonce = n]
  <2> DEFINE c == plan[p].req.asset.chain
             ts == Append(plan[p].txs, Tx(p, c, "initial"))
             ns == GetNonce(plan[p].nonce, c)
             done == [u \in Planner |->
                        IF u = p THEN [plan[p] EXCEPT !.pc = "done", !.reply = "available",
                                         !.txs = ts, !.nonce = ns] ELSE plan[u]]
  <2>1. (\E r \in {"error", "panic"} : Answer(p, r)) \/ plan' = done
    BY DEF Reply, PlansInv
  <2> HIDE DEF ts, ns
  <2>2. plan' = done => plan' = [plan EXCEPT ![p].pc = "done", ![p].reply = "available",
                                   ![p].txs = ts, ![p].nonce = ns]
    BY DEF PlansInv
  <2> HIDE DEF done
  <2> QED
    BY <2>1, <2>2
<1> QED
  BY <1>2, <1>3, <1>4

-----------------------------------------------------------------------------
(* Storing an order. *)

LEMMA NewOrderIsOne ==
  ASSUME OrdersInv, PlansInv, NEW p \in Planner, Store(p)
  PROVE  /\ NewOrder(p) \in Order
         /\ NewOrder(p).asset = plan[p].req.asset /\ NewOrder(p).expected = plan[p].req.value
         /\ NewOrder(p).status = "pending"
         /\ plan[p].id \in Id /\ order[plan[p].id] = NULL
<1>1. plan[p].pc \in Lacking /\ plan[p].pc \in Unstored
  BY DEF Store, Lacking, Unstored
<1>2. GoodJob(p) /\ plan[p].id \in Id /\ order[plan[p].id] = NULL
  BY <1>1 DEF PlansInv, PlanInv
<1> QED
  BY <1>2 DEF NewOrder, Order, GoodJob, OrdersInv

LEMMA StoreOrders ==
  ASSUME OrdersInv, PlansInv, NEW p \in Planner, Store(p)
  PROVE  OrdersInv'
<1> DEFINE o == NewOrder(p)
           i == plan[p].id
<1>1. /\ o \in Order /\ o.asset = plan[p].req.asset /\ o.expected = plan[p].req.value
      /\ o.status = "pending" /\ i \in Id /\ order[i] = NULL
  BY NewOrderIsOne
<1>2. /\ order' = [order EXCEPT ![i] = o]
      /\ reached' = reached \cup {j \in {i} : wallet[o.asset] >= o.expected}
      /\ wallet' = wallet /\ now' = now
  BY <1>1 DEF Store
<1> HIDE DEF o, i
<1>3. o # NULL
  BY <1>1, BoundAssumption
<1>4. order' \in [Id -> Order \cup {NULL}]
  BY <1>1, <1>2 DEF OrdersInv
<1>5. \A j \in Id : order'[j] = IF j = i THEN o ELSE order[j]
  BY <1>2 DEF OrdersInv
<1>6. reached' \subseteq {j \in Id : order'[j] # NULL}
  BY <1>1, <1>2, <1>3, <1>5 DEF OrdersInv
<1>7. ASSUME NEW j \in Id, order'[j] # NULL
      PROVE  /\ wallet'[order'[j].asset] >= order'[j].expected => j \in reached'
             /\ order'[j].status = "completed" => j \in reached'
             /\ order'[j].status = "error" => Overdue(order[j])'
  <2>1. CASE j = i
    BY <1>1, <1>2, <1>5, <2>1
  <2>2. CASE j # i
    BY <1>2, <1>5, <1>7, <2>2 DEF OrdersInv, Overdue
  <2> QED
    BY <2>1, <2>2
<1> QED
  BY <1>2, <1>4, <1>6, <1>7 DEF OrdersInv

LEMMA StorePlans ==
  ASSUME OrdersInv, PlansInv, NEW p \in Planner, Store(p)
  PROVE  PlansInv'
<1> DEFINE o == NewOrder(p)
           i == plan[p].id
<1>1. /\ o \in Order /\ o.asset = plan[p].req.asset /\ o.expected = plan[p].req.value
      /\ i \in Id /\ order[i] = NULL
  BY NewOrderIsOne
<1>2. \A j \in Id : order'[j] = IF j = i THEN o ELSE order[j]
  BY <1>1 DEF Store, OrdersInv
<1> HIDE DEF o
<1>3. /\ plan' = [u \in Planner |-> IF u = p THEN plan'[p] ELSE plan[u]]
      /\ DOMAIN plan'[p] = PlanFields
      /\ plan'[p].id = i /\ plan'[p].req = plan[p].req
      /\ \/ plan'[p].pc = "done" /\ plan'[p].reply = "error"
         \/ plan'[p].pc = "reply" /\ plan'[p].reply = NULL
  <2>1. PlanInv(p) /\ plan[p].pc = "store"
    BY DEF PlansInv, Store
  <2>2. plan[p].reply = NULL /\ DOMAIN plan[p] = PlanFields
    BY <2>1 DEF PlanInv
  <2>3. CASE Answer(p, "error")
    <3>1. plan' = [u \in Planner |->
                     IF u = p THEN [plan[p] EXCEPT !.pc = "done", !.reply = "error"] ELSE plan[u]]
      BY <2>3 DEF Answer, PlansInv
    <3> QED
      BY <2>2, <3>1 DEF PlanFields
  <2>4. CASE plan' = [plan EXCEPT ![p].pc = "reply"]
    <3>1. plan' = [u \in Planner |-> IF u = p THEN [plan[p] EXCEPT !.pc = "reply"] ELSE plan[u]]
      BY <2>4 DEF PlansInv
    <3> QED
      BY <2>2, <3>1 DEF PlanFields
  <2> QED
    BY <2>3, <2>4 DEF Store
<1>4. \A u \in Planner : PlanInv(u)'
  <2> SUFFICES ASSUME NEW u \in Planner
               PROVE  PlanInv(u)'
    OBVIOUS
  <2>1. CASE u = p
    BY <1>1, <1>2, <1>3, <2>1, BoundAssumption DEF PlanInv, Tracked, Unstored, Lacking
  <2>2. CASE u # p
    <3>1. plan'[u] = plan[u] /\ PlanInv(u)
      BY <1>3, <2>2 DEF PlansInv
    <3>2. plan[u].id # i
      BY <1>1, <2>2, BoundAssumption DEF PlansInv
    <3>3. plan[u].id \in Id => order'[plan[u].id] = order[plan[u].id]
      BY <1>2, <3>2
    <3> QED
      BY <3>1, <3>3 DEF PlanInv, GoodJob, Tracked
  <2> QED
    BY <2>1, <2>2
<1> QED
  BY <1>3, <1>4 DEF PlansInv

LEMMA StorePolls ==
  ASSUME OrdersInv, PlansInv, PollsInv, NEW p \in Planner, Store(p)
  PROVE  PollsInv'
<1> DEFINE i == plan[p].id
<1>1. i \in Id /\ order[i] = NULL
  BY NewOrderIsOne
<1>2. \A j \in Id : j # i => order'[j] = order[j]
  BY DEF Store, OrdersInv
<1>3. poll' = poll /\ now' = now /\ reached \subseteq reached'
  BY DEF Store
<1> HIDE DEF i
<1>4. ASSUME NEW q \in Poller
      PROVE  PollInv(q)'
  <2>1. PollInv(q)
    BY DEF PollsInv
  <2> QED
    BY <1>1, <1>2, <1>3, <2>1 DEF PollInv, Overdue
<1> QED
  BY <1>3, <1>4 DEF PollsInv

-----------------------------------------------------------------------------
(* The status requests. *)

\* A step of one status request that leaves the rest alone.
LEMMA OnePoll ==
  ASSUME PollsInv, NEW q \in Poller, NEW e, plan' = plan, now' = now, reached' = reached, order' = order,
         poll' = [u \in Poller |-> IF u = q THEN e ELSE poll[u]], PollInv(q)'
  PROVE  PollsInv'
<1>1. \A u \in Poller : PollInv(u)'
  BY DEF PollsInv, PollInv, Overdue
<1> QED
  BY <1>1 DEF PollsInv

\* The answer to a poll.
Answered(i, r) == [IdlePoll EXCEPT !.pc = "done", !.id = i, !.reply = r]

LEMMA AnswerPollInv ==
  ASSUME PollsInv, NEW q \in Poller, NEW i, NEW r,
         poll' = [poll EXCEPT ![q] = Answered(i, r)]
  PROVE  /\ poll' = [u \in Poller |-> IF u = q THEN Answered(i, r) ELSE poll[u]]
         /\ PollInv(q)'
<1>1. DOMAIN Answered(i, r) = PollFields /\ Answered(i, r).pc = "done"
  BY DEF Answered, IdlePoll, PollFields
<1>2. poll' = [u \in Poller |-> IF u = q THEN Answered(i, r) ELSE poll[u]]
  BY DEF PollsInv
<1>3. poll'[q] = Answered(i, r)
  BY <1>2
<1> QED
  BY <1>1, <1>2, <1>3 DEF PollInv

LEMMA AnswerStep ==
  ASSUME PollsInv, NEW q \in Poller, NEW i, NEW r, UNCHANGED <<order, wallet, plan, now, reached>>,
         poll' = [poll EXCEPT ![q] = Answered(i, r)]
  PROVE  PollsInv'
BY AnswerPollInv, OnePoll

LEMMA ReadOrderStep ==
  ASSUME OrdersInv, PollsInv, NEW q \in Poller, NEW i \in Id, ReadOrder(q, i)
  PROVE  PollsInv'
<1>1. UNCHANGED <<order, wallet, plan, now, reached>>
  BY DEF ReadOrder
<1>2. CASE \E r : poll' = [poll EXCEPT ![q] = Answered(i, r)]
  BY <1>1, <1>2, AnswerStep
<1>3. CASE /\ order[i] # NULL
           /\ poll' = [poll EXCEPT ![q] = [IdlePoll EXCEPT !.pc = "check", !.id = i, !.read = order[i]]]
  <2> DEFINE e == [IdlePoll EXCEPT !.pc = "check", !.id = i, !.read = order[i]]
  <2>1. poll' = [u \in Poller |-> IF u = q THEN e ELSE poll[u]]
    BY <1>3 DEF PollsInv
  <2>2. DOMAIN e = PollFields /\ e.pc = "check" /\ e.id = i /\ e.read = order[i]
    BY DEF IdlePoll, PollFields
  <2> HIDE DEF e
  <2>3. poll'[q] = e /\ order[i] \in Order
    BY <1>3, <2>1 DEF OrdersInv
  <2>4. PollInv(q)'
    BY <1>1, <1>3, <2>2, <2>3 DEF PollInv, SameOrder
  <2> QED
    BY <1>1, <2>1, <2>4, OnePoll
<1> QED
  BY <1>2, <1>3 DEF ReadOrder, Answered

LEMMA PollFailsStep ==
  ASSUME PollsInv, NEW q \in Poller, PollFails(q)
  PROVE  PollsInv'
BY AnswerStep DEF PollFails, AnswerPoll, Answered

LEMMA EndPollStep ==
  ASSUME PollsInv, NEW q \in Poller, EndPoll(q)
  PROVE  PollsInv'
<1>1. UNCHANGED <<order, wallet, plan, now, reached>>
  BY DEF EndPoll
<1>2. poll' = [u \in Poller |-> IF u = q THEN IdlePoll ELSE poll[u]]
  BY DEF EndPoll, PollsInv
<1>3. DOMAIN IdlePoll = PollFields /\ IdlePoll.pc = "idle"
  BY DEF IdlePoll, PollFields
<1>4. PollInv(q)'
  BY <1>2, <1>3 DEF PollInv
<1> QED
  BY <1>1, <1>2, <1>4, OnePoll

\* A verdict is found on the order as it was read, which the store still has
\* in all but the status.
LEMMA CheckBalanceStep ==
  ASSUME OrdersInv, PollsInv, NEW q \in Poller, CheckBalance(q)
  PROVE  PollsInv'
<1> DEFINE i == poll[q].id
           item == poll[q].read
<1>1. UNCHANGED <<order, wallet, plan, now, reached>> /\ poll[q].pc = "check"
  BY DEF CheckBalance
<1>2. /\ PollInv(q) /\ DOMAIN poll[q] = PollFields /\ i \in Id /\ item \in Order
      /\ order[i] # NULL /\ SameOrder(order[i], item)
  BY <1>1 DEF PollsInv, PollInv
<1>3. CASE AnswerPoll(q, "pending")
  BY <1>1, <1>3, AnswerStep DEF AnswerPoll, Answered
<1>4. ASSUME NEW v \in {"completed", "error"}, poll' = [poll EXCEPT ![q].pc = v],
             v = "completed" => wallet[item.asset] >= item.expected,
             v = "error" => Overdue(item)
      PROVE  PollsInv'
  <2> DEFINE e == [poll[q] EXCEPT !.pc = v]
  <2>1. poll' = [u \in Poller |-> IF u = q THEN e ELSE poll[u]]
    BY <1>4 DEF PollsInv
  <2>2. DOMAIN e = PollFields /\ e.pc = v /\ e.id = i /\ e.read = item
    BY <1>2 DEF PollFields
  <2> HIDE DEF e
  <2>3. v = "completed" => i \in reached
    BY <1>2, <1>4 DEF OrdersInv, SameOrder
  <2>4. poll'[q] = e
    BY <2>1
  <2>5. PollInv(q)'
    BY <1>1, <1>2, <1>4, <2>2, <2>3, <2>4 DEF PollInv, Overdue
  <2> QED
    BY <1>1, <2>1, <2>5, OnePoll
<1> QED
  BY <1>3, <1>4 DEF CheckBalance

\* What a poll writes: the order it read, with its verdict.
LEMMA VerdictWritten ==
  ASSUME OrdersInv, PollsInv, NEW q \in Poller, WriteVerdict(q)
  PROVE  /\ poll[q].id \in Id /\ order[poll[q].id] # NULL
         /\ poll[q].pc \in {"completed", "error"}
         /\ order[poll[q].id] \in Order
         /\ order' = [order EXCEPT ![poll[q].id] = order'[poll[q].id]]
         /\ order'[poll[q].id] \in Order
         /\ SameOrder(order'[poll[q].id], order[poll[q].id])
         /\ order'[poll[q].id].status = poll[q].pc
         /\ poll[q].pc = "completed" => poll[q].id \in reached
         /\ poll[q].pc = "error" => Overdue(order[poll[q].id])
<1> DEFINE i == poll[q].id
           item == poll[q].read
           new == [item EXCEPT !.status = poll[q].pc]
<1>1. poll[q].pc \in {"completed", "error"} /\ order' = [order EXCEPT ![i] = new]
  BY DEF WriteVerdict
<1>2. /\ i \in Id /\ item \in Order /\ order[i] # NULL /\ SameOrder(order[i], item)
      /\ poll[q].pc = "completed" => i \in reached
      /\ poll[q].pc = "error" => Overdue(item)
  BY <1>1 DEF PollsInv, PollInv
<1>3. new \in Order /\ SameOrder(new, item) /\ new.status = poll[q].pc
  BY <1>1, <1>2 DEF Order, SameOrder
<1>4. order'[i] = new /\ order[i] \in Order
  BY <1>1, <1>2 DEF OrdersInv
<1> QED
  BY <1>1, <1>2, <1>3, <1>4 DEF SameOrder, Overdue

LEMMA WriteVerdictStep ==
  ASSUME OrdersInv, PlansInv, PollsInv, NEW q \in Poller, WriteVerdict(q)
  PROVE  OrdersInv' /\ PlansInv' /\ PollsInv'
<1> DEFINE i == poll[q].id
<1>1. /\ i \in Id /\ order[i] # NULL /\ poll[q].pc \in {"completed", "error"}
      /\ order' = [order EXCEPT ![i] = order'[i]]
      /\ order'[i] \in Order /\ SameOrder(order'[i], order[i]) /\ order'[i].status = poll[q].pc
      /\ poll[q].pc = "completed" => i \in reached
      /\ poll[q].pc = "error" => Overdue(order[i])
  BY VerdictWritten
<1>2. UNCHANGED <<wallet, plan, now, reached>>
  BY DEF WriteVerdict
<1>3. \A j \in Id : j # i => order'[j] = order[j]
  BY <1>1 DEF OrdersInv
<1>4. order'[i] # NULL
  BY <1>1, BoundAssumption
<1>5. OrdersInv'
  <2>1. order' \in [Id -> Order \cup {NULL}]
    BY <1>1 DEF OrdersInv
  <2>2. reached' \subseteq {j \in Id : order'[j] # NULL}
    BY <1>2, <1>3, <1>4 DEF OrdersInv
  <2>3. ASSUME NEW j \in Id, order'[j] # NULL
        PROVE  /\ wallet'[order'[j].asset] >= order'[j].expected => j \in reached'
               /\ order'[j].status = "completed" => j \in reached'
               /\ order'[j].status = "error" => Overdue(order[j])'
    <3>1. CASE j = i
      BY <1>1, <1>2, <3>1 DEF OrdersInv, SameOrder, Overdue
    <3>2. CASE j # i
      BY <1>2, <1>3, <2>3, <3>2 DEF OrdersInv, Overdue
    <3> QED
      BY <3>1, <3>2
  <2> QED
    BY <1>2, <2>1, <2>2, <2>3 DEF OrdersInv
<1>6. PlansInv'
  <2>1. ASSUME NEW p \in Planner
        PROVE  PlanInv(p)'
    BY <1>1, <1>2, <1>3, <1>4 DEF PlansInv, PlanInv, GoodJob, Tracked, SameOrder
  <2> QED
    BY <1>2, <2>1 DEF PlansInv
<1>7. PollsInv'
  <2>1. PICK r \in {poll[q].pc, "failed"} : AnswerPoll(q, r)
    BY DEF WriteVerdict
  <2>2. /\ poll' = [u \in Poller |-> IF u = q THEN Answered(i, r) ELSE poll[u]]
        /\ PollInv(q)'
    BY <2>1, AnswerPollInv DEF AnswerPoll, Answered
  <2>3. ASSUME NEW u \in Poller, u # q
        PROVE  PollInv(u)'
    <3>1. poll'[u] = poll[u] /\ PollInv(u)
      BY <2>2, <2>3 DEF PollsInv
    <3> QED
      BY <1>1, <1>2, <1>3, <1>4, <3>1 DEF PollInv, SameOrder, Overdue
  <2> QED
    BY <2>2, <2>3 DEF PollsInv
<1> QED
  BY <1>5, <1>6, <1>7

-----------------------------------------------------------------------------
(* The wallet and the clock. *)

LEMMA MoveTokensStep ==
  ASSUME Inv, NEW a \in Target, MoveTokens(a)
  PROVE  Inv'
<1>1. PICK n \in Amount :
        /\ wallet' = [wallet EXCEPT ![a] = n]
        /\ reached' = reached \cup {i \in Id : order[i] # NULL /\ order[i].asset = a /\ n >= order[i].expected}
        /\ UNCHANGED <<order, plan, poll, now>>
  BY DEF MoveTokens
<1>2. ASSUME NEW i \in Id, order[i] # NULL
      PROVE  wallet'[order[i].asset] >= order[i].expected => i \in reached'
  <2>1. order[i].asset \in Target
    BY <1>2, OrderFields DEF Inv, OrdersInv
  <2> QED
    BY <1>1, <1>2, <2>1 DEF Inv, OrdersInv
<1>3. OrdersInv'
  BY <1>1, <1>2 DEF Inv, OrdersInv, Overdue
<1>4. PlansInv'
  BY <1>1 DEF Inv, PlansInv, PlanInv, GoodJob, Tracked
<1>5. PollsInv'
  BY <1>1 DEF Inv, PollsInv, PollInv, Overdue
<1> QED
  BY <1>3, <1>4, <1>5 DEF Inv

\* What is overdue stays overdue.
LEMMA OverdueStays ==
  ASSUME NEW item \in Order, now \in Nat, now' = now + 1, Overdue(item)
  PROVE  Overdue(item)'
BY OrderFields, BoundAssumption DEF Overdue

LEMMA TickStep ==
  ASSUME Inv, Tick
  PROVE  Inv'
<1>1. UNCHANGED <<order, wallet, plan, poll, reached>> /\ now \in Nat /\ now' = now + 1
  BY DEF Inv, OrdersInv, Tick
<1>2. \A item \in Order : Overdue(item) => now' > item.created + Timeout
  BY <1>1, OrderFields, BoundAssumption DEF Overdue
<1>3. OrdersInv'
  BY <1>1, <1>2 DEF Inv, OrdersInv, Overdue
<1>4. PlansInv'
  BY <1>1 DEF Inv, PlansInv, PlanInv, GoodJob, Tracked
<1>5. PollsInv'
  BY <1>1, <1>2 DEF Inv, PollsInv, PollInv, Overdue
<1> QED
  BY <1>3, <1>4, <1>5 DEF Inv

-----------------------------------------------------------------------------
(* The invariant. *)

LEMMA InvInit ==
  Init => Inv
<1> SUFFICES ASSUME Init
             PROVE  Inv
  OBVIOUS
<1>1. OrdersInv
  BY BoundAssumption DEF Init, OrdersInv, Amount
<1>2. PlansInv
  <2>1. \A p \in Planner : PlanInv(p)
    BY IdlePlanFields, BoundAssumption DEF Init, PlanInv, Unstored, Lacking
  <2> QED
    BY <2>1, IdlePlanFields DEF Init, PlansInv
<1>3. PollsInv
  BY DEF Init, PollsInv, PollInv, IdlePoll, PollFields
<1> QED
  BY <1>1, <1>2, <1>3 DEF Inv

\* Only Store touches more than the requests themselves.
LEMMA PrepareStep ==
  ASSUME Inv, NEW p \in Planner, Prepare(p)
  PROVE  Inv'
<1>1. CASE Store(p)
  BY <1>1, StoreOrders, StorePlans, StorePolls DEF Inv
<1>2. CASE ~Store(p)
  <2>1. UNCHANGED <<order, wallet, poll, now, reached>>
    BY <1>2 DEF Prepare, Classify, Fail, ReadBalance, FindFunds, Quote, Requote, Build, LifiSolana,
                LifiQuote, LifiBuild, Reply, EndPlan, FetchNonce
  <2>2. PlansInv'
    BY <1>2, ClassifyStep, FailStep, ReadBalanceStep, FindFundsStep, QuoteStep, RequoteStep, BuildStep,
       LifiSolanaStep, LifiQuoteStep, ReplyStep, EndPlanStep, FetchNonceStep DEF Inv, Prepare
  <2>3. OrdersInv'
    BY <2>1 DEF Inv, OrdersInv, Overdue
  <2>4. PollsInv'
    BY <2>1 DEF Inv, PollsInv, PollInv, Overdue
  <2> QED
    BY <2>2, <2>3, <2>4 DEF Inv
<1> QED
  BY <1>1, <1>2

\* Only WriteVerdict touches more than the polls themselves.
LEMMA StatusStep ==
  ASSUME Inv, NEW q \in Poller, Status(q)
  PROVE  Inv'
<1>1. CASE WriteVerdict(q)
  BY <1>1, WriteVerdictStep DEF Inv
<1>2. CASE ~WriteVerdict(q)
  <2>1. UNCHANGED <<order, wallet, plan, now, reached>>
    BY <1>2 DEF Status, PollFails, CheckBalance, EndPoll, ReadOrder
  <2>2. PollsInv'
    BY <1>2, PollFailsStep, CheckBalanceStep, EndPollStep, ReadOrderStep DEF Inv, Status
  <2>3. OrdersInv'
    BY <2>1 DEF Inv, OrdersInv, Overdue
  <2>4. PlansInv'
    BY <2>1 DEF Inv, PlansInv, PlanInv, GoodJob, Tracked
  <2> QED
    BY <2>2, <2>3, <2>4 DEF Inv
<1> QED
  BY <1>1, <1>2

LEMMA InvStep ==
  Inv /\ [Next]_vars => Inv'
<1> SUFFICES ASSUME Inv, [Next]_vars
             PROVE  Inv'
  OBVIOUS
<1>1. CASE UNCHANGED vars
  BY <1>1 DEF vars, Inv, OrdersInv, PlansInv, PlanInv, GoodJob, Tracked, PollsInv, PollInv, Overdue
<1>2. CASE Next
  BY <1>2, TickStep, PrepareStep, StatusStep, MoveTokensStep DEF Next
<1> QED
  BY <1>1, <1>2

LEMMA Invariance ==
  SafeSpec => []Inv
BY InvInit, InvStep, PTL DEF SafeSpec

-----------------------------------------------------------------------------
(* What follows from it. *)

\* The store, the wallet and the handlers keep their shapes: every order in
\* IRN is a StorageBridgingItem, and a poll writes back one it has read.
THEOREM ChainTypes ==
  SafeSpec => []TypeOK
<1>1. Inv => TypeOK
  BY DEF Inv, OrdersInv, PlansInv, PlanInv, PollsInv, PollInv, TypeOK, IdlePlan, IdlePoll,
         PlanFields, PollFields
<1> QED
  BY <1>1, Invariance, PTL

\* handlers/chain_agnostic/status.rs: a completed order's wallet has held what
\* it expects since the order was stored and a failed one is overdue, however
\* many polls read, check and write the order at once.
THEOREM OrdersSettledRightly ==
  SafeSpec => []SettledRightly
<1>1. Inv => SettledRightly
  BY DEF Inv, OrdersInv, SettledRightly
<1> QED
  BY <1>1, Invariance, PTL

\* handlers/chain_agnostic/route.rs stores the order before it answers, and
\* polls write it back as they read it: whoever has a plan can poll for what
\* its transfer needs.
THEOREM PlansAreTracked ==
  SafeSpec => []PlanIsTracked
<1>1. Inv => PlanIsTracked
  BY DEF Inv, PlansInv, PlanInv, Tracked, PlanIsTracked
<1> QED
  BY <1>1, Invariance, PTL

-----------------------------------------------------------------------------
(* BridgingPromise is kept. *)

Statuses == [i \in Id |-> IF order[i] = NULL THEN "none" ELSE order[i].status]
OverdueOrders == {i \in Id : order[i] # NULL /\ Overdue(order[i])}

LEMMA PromiseInit ==
  Init => Promise!Init
BY DEF Init, Promise!Init

\* A stored order is one created.
LEMMA StoreCreates ==
  ASSUME Inv, NEW p \in Planner, Store(p)
  PROVE  \E i \in Id : Promise!Create(i)
<1>1. PICK i \in Id, o \in Order :
        /\ o.status = "pending" /\ o.created = now /\ order[i] = NULL
        /\ order' = [order EXCEPT ![i] = o]
        /\ reached' \in {reached, reached \cup {i}}
        /\ now' = now
  <2>1. NewOrder(p) \in Order /\ NewOrder(p).status = "pending" /\ plan[p].id \in Id /\ order[plan[p].id] = NULL
    BY NewOrderIsOne DEF Inv
  <2>2. NewOrder(p).created = now
    BY DEF NewOrder
  <2>3. /\ order' = [order EXCEPT ![plan[p].id] = NewOrder(p)]
        /\ reached' \in {reached, reached \cup {plan[p].id}}
        /\ now' = now
    BY DEF Store
  <2> QED
    BY <2>1, <2>2, <2>3
<1>2. ~(now > o.created + Timeout)
  BY <1>1, BoundAssumption DEF Inv, OrdersInv
<1>3. \A j \in Id : order'[j] = IF j = i THEN o ELSE order[j]
  BY <1>1 DEF Inv, OrdersInv
<1>4. o # NULL
  BY BoundAssumption
<1>5. Statuses' = [Statuses EXCEPT ![i] = "pending"]
  <2>1. \A j \in Id : (IF order'[j] = NULL THEN "none" ELSE order'[j].status)
                       = IF j = i THEN "pending" ELSE Statuses[j]
    BY <1>1, <1>3, <1>4 DEF Statuses
  <2>2. Statuses' = [j \in Id |-> IF j = i THEN "pending" ELSE Statuses[j]]
    BY <2>1 DEF Statuses
  <2>3. DOMAIN Statuses = Id
    BY DEF Statuses
  <2>4. Statuses = [j \in Id |-> Statuses[j]]
    BY DEF Statuses
  <2> HIDE DEF Statuses
  <2> QED
    BY <2>2, <2>3, <2>4
<1>6. OverdueOrders' = OverdueOrders
  BY <1>1, <1>2, <1>3, <1>4 DEF OverdueOrders, Overdue
<1>7. Statuses[i] = "none"
  BY <1>1 DEF Statuses
<1> QED
  BY <1>1, <1>5, <1>6, <1>7 DEF Promise!Create, Statuses, OverdueOrders

\* A verdict settles an order, overturns another verdict, or says what the
\* store says.
LEMMA VerdictSettles ==
  ASSUME Inv, NEW q \in Poller, WriteVerdict(q)
  PROVE  \/ \E i \in Id : Promise!Settle(i) \/ Promise!Overturn(i)
         \/ UNCHANGED Promise!vars
<1>1. PICK i \in Id, n \in Order, v \in {"completed", "error"} :
        /\ order[i] # NULL /\ order[i] \in Order
        /\ order' = [order EXCEPT ![i] = n]
        /\ SameOrder(n, order[i]) /\ n.status = v
        /\ v = "completed" => i \in reached
        /\ v = "error" => Overdue(order[i])
  BY VerdictWritten DEF Inv
<1>2. reached' = reached /\ now' = now
  BY DEF WriteVerdict
<1>3. \A j \in Id : order'[j] = IF j = i THEN n ELSE order[j]
  BY <1>1 DEF Inv, OrdersInv
<1>4. n # NULL
  BY BoundAssumption
<1>5. Statuses' = [Statuses EXCEPT ![i] = v]
  <2>1. \A j \in Id : (IF order'[j] = NULL THEN "none" ELSE order'[j].status)
                       = IF j = i THEN v ELSE Statuses[j]
    BY <1>1, <1>3, <1>4 DEF Statuses
  <2>2. Statuses' = [j \in Id |-> IF j = i THEN v ELSE Statuses[j]]
    BY <2>1 DEF Statuses
  <2>3. DOMAIN Statuses = Id
    BY DEF Statuses
  <2>4. Statuses = [j \in Id |-> Statuses[j]]
    BY DEF Statuses
  <2> HIDE DEF Statuses
  <2> QED
    BY <2>2, <2>3, <2>4
<1>6. OverdueOrders' = OverdueOrders
  BY <1>1, <1>2, <1>3, <1>4 DEF OverdueOrders, Overdue, SameOrder
<1>7. Statuses[i] = order[i].status /\ order[i].status \in {"pending", "completed", "error"}
  BY <1>1, OrderFields DEF Statuses
<1>8. \/ v = "completed" /\ i \in reached
      \/ v = "error" /\ i \in OverdueOrders
  BY <1>1 DEF OverdueOrders
<1>9. Promise!Verdict(i, v)
  BY <1>2, <1>5, <1>6, <1>8 DEF Promise!Verdict, Statuses, OverdueOrders
<1>10. CASE order[i].status = "pending"
  <2>1. Promise!Settle(i)
    BY <1>7, <1>9, <1>10 DEF Promise!Settle, Statuses
  <2> QED
    BY <2>1
<1>11. CASE order[i].status = v
  <2>1. Statuses' = Statuses
    BY <1>5, <1>7, <1>11 DEF Statuses
  <2> QED
    BY <1>2, <1>6, <2>1 DEF Promise!vars, Statuses, OverdueOrders
<1>12. CASE order[i].status # "pending" /\ order[i].status # v
  <2>1. i \in reached /\ i \in OverdueOrders
    BY <1>1, <1>7, <1>8, <1>12 DEF Inv, OrdersInv, OverdueOrders
  <2>2. Promise!Overturn(i)
    BY <1>7, <1>9, <1>12, <2>1 DEF Promise!Overturn, Statuses, OverdueOrders
  <2> QED
    BY <2>2
<1> QED
  BY <1>10, <1>11, <1>12

LEMMA TokensFund ==
  ASSUME Inv, NEW a \in Target, MoveTokens(a)
  PROVE  Promise!Fund
<1>1. PICK S \in SUBSET {i \in Id : order[i] # NULL} : reached' = reached \cup S
  BY DEF MoveTokens
<1>2. UNCHANGED <<order, now>>
  BY DEF MoveTokens
<1>3. \A i \in Id : order[i] # NULL => order[i].status # "none"
  BY OrderFields DEF Inv, OrdersInv
<1>4. S \in SUBSET Promise!Known
  BY <1>1, <1>3 DEF Promise!Known
<1> QED
  BY <1>1, <1>2, <1>4 DEF Promise!Fund, Overdue

LEMMA TimeLapses ==
  ASSUME Inv, Tick
  PROVE  Promise!Lapse
<1>1. UNCHANGED <<order, reached>> /\ now \in Nat /\ now' = now + 1
  BY DEF Tick, Inv, OrdersInv
<1>2. \A i \in Id : order[i] # NULL => order[i] \in Order /\ order[i].status # "none"
  BY OrderFields DEF Inv, OrdersInv
<1>3. OverdueOrders' = OverdueOrders \cup OverdueOrders'
  BY <1>1, <1>2, OverdueStays DEF OverdueOrders
<1>4. OverdueOrders' \in SUBSET Promise!Known
  BY <1>1, <1>2 DEF OverdueOrders, Promise!Known
<1> QED
  BY <1>1, <1>3, <1>4 DEF Promise!Lapse, OverdueOrders

LEMMA StepKeepsPromise ==
  Inv /\ [Next]_vars => [Promise!Next]_(Promise!vars)
<1> SUFFICES ASSUME Inv, [Next]_vars
             PROVE  [Promise!Next]_(Promise!vars)
  OBVIOUS
<1>1. CASE UNCHANGED <<order, now, reached>>
  BY <1>1 DEF Promise!vars, Overdue
<1>2. CASE \E p \in Planner : Store(p)
  BY <1>2, StoreCreates DEF Promise!Next
<1>3. CASE \E q \in Poller : WriteVerdict(q)
  BY <1>3, VerdictSettles DEF Promise!Next
<1>4. CASE \E a \in Target : MoveTokens(a)
  BY <1>4, TokensFund DEF Promise!Next
<1>5. CASE Tick
  BY <1>5, TimeLapses DEF Promise!Next
<1>6. ASSUME NEW p \in Planner, Prepare(p), ~Store(p)
      PROVE  UNCHANGED <<order, now, reached>>
  BY <1>6 DEF Prepare, Classify, Fail, ReadBalance, FindFunds, Quote, Requote, Build, LifiSolana,
              LifiQuote, LifiBuild, Reply, EndPlan, FetchNonce
<1>7. ASSUME NEW q \in Poller, Status(q), ~WriteVerdict(q)
      PROVE  UNCHANGED <<order, now, reached>>
  BY <1>7 DEF Status, PollFails, CheckBalance, EndPoll, ReadOrder
<1> QED
  BY <1>1, <1>2, <1>3, <1>4, <1>5, <1>6, <1>7 DEF Next, vars

\* Polling keeps the safety part of its promise: the orders of
\* handlers/chain_agnostic, seen through their status, implement
\* BridgingPromise.
THEOREM PromiseIsSafe ==
  SafeSpec => Promise!SafeSpec
BY PromiseInit, StepKeepsPromise, Invariance, PTL DEF SafeSpec, Promise!SafeSpec

-----------------------------------------------------------------------------
(* What a plan says.  The nonces, the amounts and the transactions of a plan    *)
(* are gathered by several steps, with a fetch of another chain's nonce between *)
(* any two of them; RouteInv tells how far each has got.                        *)

NonceState == [state : {"none", "asked", "ready", "failed"}, n : Nat]
Roles == {"approve", "bridge", "initial"}

OfBungee(r) == r.funds.asset.ns = "eip155" /\ ~r.req.lifi
Lack(r) == r.req.value - r.read
InSource(r, amount) == ConvertAmount(amount, r.req.asset.decimals, r.funds.asset.decimals)

Given(r) == r.reply = "available"

\* What is to be bridged was worked out from some first quote, and is there.
RequiredIsThere(r) ==
  /\ r.funds.balance \in Amount /\ ~(r.funds.balance < r.required)
  /\ \E amount \in Amount :
       r.required = RequiredTopup(InSource(r, Lack(r)),
                                  BridgingFee(InSource(r, Lack(r)), InSource(r, amount)))

\* The second quote brings what is lacking.
QuoteBrings(r) == r.quoted \in Amount /\ ~(InSource(r, Lack(r)) > InSource(r, r.quoted))

Transact(c, role, n) == [chain |-> c, role |-> role, nonce |-> n]

\* The transactions on the source chain, and the nonce that comes after them.
Staged(r) ==
  LET c == r.funds.asset.chain
  IN  \E n \in Nat :
        \/ /\ r.txs = <<Transact(c, "bridge", n)>>
           /\ c \in Chain => r.nonce[c] = [state |-> "ready", n |-> n + 1]
        \/ /\ r.txs = <<Transact(c, "approve", n), Transact(c, "bridge", n + 1)>>
           /\ c \in Chain => r.nonce[c] = [state |-> "ready", n |-> n + 2]

InOrder(txs) ==
  \A i, j \in DOMAIN txs :
    i < j /\ txs[i].chain = txs[j].chain =>
      txs[j].nonce = txs[i].nonce + Cardinality({k \in i..j : txs[k].chain = txs[j].chain}) - 1

RouteInv(r) ==
  /\ r.nonce \in [Chain -> NonceState]
  /\ r.pc \in Lacking \cup {"reply"} \/ Given(r) =>
       /\ r.req.asset \in Target /\ r.req.value \in Amount /\ r.read \in Amount
       /\ r.read < r.req.value
  /\ r.pc \in {"quote", "requote", "build", "store", "reply"} \/ Given(r) =>
       r.funds.asset \in Asset /\ r.funds.balance \in Amount
  /\ r.pc \in {"requote", "build"} => r.funds.asset.ns = "eip155"
  /\ r.pc \in {"requote", "build", "store", "reply"} \/ Given(r) => (OfBungee(r) => RequiredIsThere(r))
  /\ r.pc \in {"build", "store", "reply"} \/ Given(r) => (OfBungee(r) => QuoteBrings(r))
  /\ r.pc \in {"store", "reply"} => Staged(r)
  /\ Given(r) => InOrder(r.txs)

RoutesInv == \A p \in Planner : RouteInv(plan[p])

\* A request that has no plan yet, or is refused one.
LEMMA NoRoute ==
  ASSUME NEW r, r.nonce \in [Chain -> NonceState], r.reply # "available",
         r.pc \in {"idle", "balance", "done"}
  PROVE  RouteInv(r)
BY DEF RouteInv, Lacking, Unstored, Given

\* The nonces a manager gives out are nonces.
LEMMA NonceTypes ==
  ASSUME NEW m \in [Chain -> NonceState], NEW c \in Chain
  PROVE  /\ InitializeNonce(m, c) \in [Chain -> NonceState]
         /\ GetNonce(m, c) \in [Chain -> NonceState]
         /\ GetNonce(m, c)[c].state = m[c].state /\ GetNonce(m, c)[c].n = m[c].n + 1
<1>1. m[c] \in NonceState
  OBVIOUS
<1>2. InitializeNonce(m, c) \in [Chain -> NonceState]
  BY <1>1 DEF InitializeNonce, NonceState
<1>3. GetNonce(m, c) = [m EXCEPT ![c] = [m[c] EXCEPT !.n = m[c].n + 1]]
  BY DEF GetNonce
<1>4. /\ [m[c] EXCEPT !.n = m[c].n + 1] \in NonceState
      /\ [m[c] EXCEPT !.n = m[c].n + 1].state = m[c].state
      /\ [m[c] EXCEPT !.n = m[c].n + 1].n = m[c].n + 1
  BY <1>1 DEF NonceState
<1> QED
  BY <1>2, <1>3, <1>4

LEMMA IdleRoute == RouteInv(IdlePlan)
<1>1. IdlePlan.nonce \in [Chain -> NonceState]
  BY DEF IdlePlan, NoNonce, NonceState
<1>2. IdlePlan.pc = "idle" /\ IdlePlan.reply = NULL
  BY DEF IdlePlan
<1> QED
  BY <1>1, <1>2, NoRoute, BoundAssumption

\* What Target's assets are.
LEMMA TargetFacts ==
  ASSUME NEW a \in Target
  PROVE  a \in Asset /\ a.chain \in Chain /\ a.ns = "eip155" /\ a.decimals \in Nat
<1>1. PICK r \in Request : \E k \in DOMAIN r.moves : a = r.moves[k].asset /\ a # NULL
  BY DEF Target
<1>0. PICK k \in DOMAIN r.moves : a = r.moves[k].asset /\ a # NULL
  BY <1>1
<1> DEFINE M == [asset : Asset \cup {NULL}, value : Amount]
<1>2. r.moves \in Seq(M)
  BY RequestAssumption DEF RequestShape
<1> HIDE DEF M
<1>3. r.moves[k] \in M
  BY <1>0, <1>2
<1> USE DEF M
<1>4. a \in Asset
  BY <1>0, <1>3
<1> QED
  BY <1>4, RequestAssumption, AssetAssumption

LEMMA AnswerRoute ==
  ASSUME PlansInv, NEW p \in Planner, RouteInv(plan[p]), NEW r, r # "available", Answer(p, r)
  PROVE  RouteInv(plan'[p])
<1>1. plan'[p] = [plan[p] EXCEPT !.pc = "done", !.reply = r]
  BY DEF Answer, PlansInv
<1>2. DOMAIN plan[p] = PlanFields
  BY DEF PlansInv, PlanInv
<1>3. plan'[p].pc = "done" /\ plan'[p].reply = r /\ plan'[p].nonce = plan[p].nonce
  BY <1>1, <1>2 DEF PlanFields
<1> QED
  BY <1>3, NoRoute DEF RouteInv

LEMMA FetchNonceRoute ==
  ASSUME PlansInv, NEW p \in Planner, RouteInv(plan[p]), NEW c \in Chain, FetchNonce(p, c)
  PROVE  RouteInv(plan'[p])
<1>1. PICK s \in {"ready", "failed"}, n \in 0..MaxNonce :
        plan' = [plan EXCEPT ![p].nonce[c] = [state |-> s, n |-> n]]
  BY DEF FetchNonce
<1> DEFINE m == [plan[p].nonce EXCEPT ![c] = [state |-> s, n |-> n]]
<1>2. plan' = [u \in Planner |-> IF u = p THEN [plan[p] EXCEPT !.nonce = m] ELSE plan[u]]
  BY <1>1 DEF PlansInv
<1>3. DOMAIN plan[p] = PlanFields /\ plan[p].nonce \in [Chain -> NonceState]
  BY DEF PlansInv, PlanInv, RouteInv
<1>4. m \in [Chain -> NonceState]
  <2>1. [state |-> s, n |-> n] \in NonceState
    BY BoundAssumption DEF NonceState
  <2> QED
    BY <1>3, <2>1
<1>5. \A d \in Chain : m[d] = plan[p].nonce[d] \/ plan[p].nonce[d].state = "asked"
  BY <1>3 DEF FetchNonce
<1> HIDE DEF m
<1>6. /\ plan'[p].pc = plan[p].pc /\ plan'[p].req = plan[p].req /\ plan'[p].read = plan[p].read
      /\ plan'[p].funds = plan[p].funds /\ plan'[p].required = plan[p].required
      /\ plan'[p].quoted = plan[p].quoted /\ plan'[p].txs = plan[p].txs
      /\ plan'[p].reply = plan[p].reply /\ plan'[p].nonce = m
  BY <1>2, <1>3 DEF PlanFields
<1>7. Staged(plan[p]) => Staged(plan'[p])
  <2> SUFFICES ASSUME Staged(plan[p]) PROVE Staged(plan'[p])
    OBVIOUS
  <2> DEFINE d == plan[p].funds.asset.chain
  <2>1. ASSUME NEW n2 \in Nat, d \in Chain, plan[p].nonce[d] = [state |-> "ready", n |-> n2]
        PROVE  m[d] = [state |-> "ready", n |-> n2]
    BY <1>5, <2>1
  <2>2. /\ plan'[p].funds.asset.chain = d /\ plan'[p].txs = plan[p].txs
        /\ \A e : plan'[p].nonce[e] = m[e]
    BY <1>6
  <2> HIDE DEF d
  <2>3. PICK n3 \in Nat :
          \/ /\ plan[p].txs = <<Transact(d, "bridge", n3)>>
             /\ d \in Chain => plan[p].nonce[d] = [state |-> "ready", n |-> n3 + 1]
          \/ /\ plan[p].txs = <<Transact(d, "approve", n3), Transact(d, "bridge", n3 + 1)>>
             /\ d \in Chain => plan[p].nonce[d] = [state |-> "ready", n |-> n3 + 2]
    BY DEF Staged, d
  <2>4. /\ d \in Chain /\ plan[p].nonce[d] = [state |-> "ready", n |-> n3 + 1] =>
             plan'[p].nonce[d] = [state |-> "ready", n |-> n3 + 1]
        /\ d \in Chain /\ plan[p].nonce[d] = [state |-> "ready", n |-> n3 + 2] =>
             plan'[p].nonce[d] = [state |-> "ready", n |-> n3 + 2]
    BY <2>1, <2>2
  <2> QED
    BY <2>2, <2>3, <2>4 DEF Staged
<1> QED
  BY <1>4, <1>6, <1>7 DEF RouteInv, Given, OfBungee, RequiredIsThere, QuoteBrings, InSource, Lack

LEMMA ClassifyRoute ==
  ASSUME PlansInv, NEW p \in Planner, Classify(p)
  PROVE  RouteInv(plan'[p])
<1>1. PICK r \in Request, i \in Id :
        \/ \E reply \in FirstCall(r).refusals \cup {"error"} :
             plan' = [plan EXCEPT ![p] = [IdlePlan EXCEPT !.pc = "done", !.reply = reply]]
        \/ \E move \in FirstCall(r).moves :
             plan' = [plan EXCEPT ![p] =
               [IdlePlan EXCEPT !.pc = "balance", !.req = Job(r, move), !.id = i,
                  !.nonce = IF move.asset = NULL THEN @ ELSE InitializeNonce(@, move.asset.chain)]]
  BY DEF Classify
<1>2. IdlePlan.nonce \in [Chain -> NonceState]
  BY IdleRoute DEF RouteInv
<1>3. ASSUME NEW reply \in FirstCall(r).refusals \cup {"error"},
             plan' = [plan EXCEPT ![p] = [IdlePlan EXCEPT !.pc = "done", !.reply = reply]]
      PROVE  RouteInv(plan'[p])
  <2>1. reply # "available"
    <3>1. RequestShape(r)
      BY RequestAssumption
    <3> QED
      BY <1>3, <3>1 DEF FirstCall, NativeTransfer, Erc20Transfer, SimulatedCall, RequestShape
  <2>2. plan'[p] = [IdlePlan EXCEPT !.pc = "done", !.reply = reply]
    BY <1>3 DEF PlansInv
  <2>3. plan'[p].pc = "done" /\ plan'[p].reply = reply /\ plan'[p].nonce = IdlePlan.nonce
    BY <2>2, IdlePlanFields DEF PlanFields
  <2> QED
    BY <1>2, <2>1, <2>3, NoRoute
<1>4. ASSUME NEW move \in FirstCall(r).moves,
             plan' = [plan EXCEPT ![p] =
               [IdlePlan EXCEPT !.pc = "balance", !.req = Job(r, move), !.id = i,
                  !.nonce = IF move.asset = NULL THEN @ ELSE InitializeNonce(@, move.asset.chain)]]
      PROVE  RouteInv(plan'[p])
  <2> DEFINE j == Job(r, move)
             m == IF move.asset = NULL THEN IdlePlan.nonce
                                       ELSE InitializeNonce(IdlePlan.nonce, move.asset.chain)
  <2>1. m \in [Chain -> NonceState]
    <3>1. move.asset # NULL => move.asset \in Target
      BY MovesAreGood
    <3> QED
      BY <1>2, <3>1, TargetFacts, NonceTypes
  <2>2. plan'[p] = [IdlePlan EXCEPT !.pc = "balance", !.req = j, !.id = i, !.nonce = m]
    BY <1>4 DEF PlansInv
  <2> HIDE DEF m, j
  <2>3. plan'[p].pc = "balance" /\ plan'[p].reply = NULL /\ plan'[p].nonce = m
    BY <2>2, IdlePlanFields DEF PlanFields
  <2> QED
    BY <2>1, <2>3, NoRoute, BoundAssumption
<1> QED
  BY <1>1, <1>3, <1>4

LEMMA ReadBalanceRoute ==
  ASSUME PlansInv, OrdersInv, NEW p \in Planner, RouteInv(plan[p]), ReadBalance(p)
  PROVE  RouteInv(plan'[p])
<1> DEFINE r == plan[p].req
<1>1. CASE \E reply \in {"not_required", "unsupported", "invalid"} : Answer(p, reply)
  BY <1>1, AnswerRoute
<1>2. CASE /\ r.asset # NULL /\ wallet[r.asset] < r.value
           /\ plan' = [plan EXCEPT ![p].pc = "funds", ![p].read = wallet[r.asset]]
  <2>1. /\ DOMAIN plan[p] = PlanFields /\ r.asset \in Target /\ r.value \in Amount
        /\ plan[p].reply = NULL
    BY <1>2 DEF PlansInv, PlanInv, ReadBalance
  <2>2. wallet[r.asset] \in Amount
    BY <2>1 DEF OrdersInv
  <2>3. plan'[p] = [plan[p] EXCEPT !.pc = "funds", !.read = wallet[r.asset]]
    BY <1>2 DEF PlansInv
  <2>4. /\ plan'[p].pc = "funds" /\ plan'[p].reply = NULL /\ plan'[p].nonce = plan[p].nonce
        /\ plan'[p].req = r /\ plan'[p].read = wallet[r.asset]
    BY <2>1, <2>3 DEF PlanFields
  <2> HIDE DEF r
  <2> QED
    BY <1>2, <2>1, <2>2, <2>4, BoundAssumption DEF RouteInv, Given
<1> QED
  BY <1>1, <1>2 DEF ReadBalance

\* Funds are found among the sources, which are of assets that can be bridged.
LEMMA FundsAreOfAsset ==
  ASSUME NEW target, NEW native, NEW value, NEW accounts, NEW balance,
         NEW s \in FundsFound(target, native, value, accounts, balance)
  PROVE  s \in Sources(accounts, target, native) /\ s.asset \in Asset
<1>1. s \in Sources(accounts, target, native)
  BY DEF FundsFound
<1>2. PICK a \in Bridgeable(target, native) :
        s \in {[asset |-> a, account |-> h] : h \in Holders(accounts, a)}
  BY <1>1 DEF Sources
<1>3. s.asset = a
  BY <1>2
<1> QED
  BY <1>1, <1>2, <1>3 DEF Bridgeable

LEMMA FindFundsRoute ==
  ASSUME PlansInv, NEW p \in Planner, RouteInv(plan[p]), FindFunds(p)
  PROVE  RouteInv(plan'[p])
<1> DEFINE r == plan[p].req
           found(balance) == FundsFound(r.asset, r.kind = "native", Topup(p), r.accounts, balance)
<1>1. PICK balance \in [Sources(r.accounts, r.asset, r.kind = "native") -> Amount] :
        \/ found(balance) = {} /\ Answer(p, "insufficient_funds")
        \/ \E s \in found(balance) :
             plan' = [plan EXCEPT ![p].pc = "quote",
                        ![p].funds = [asset |-> s.asset, account |-> s.account, balance |-> balance[s]],
                        ![p].nonce = IF s.asset.ns = "eip155" THEN InitializeNonce(@, s.asset.chain) ELSE @]
  BY DEF FindFunds
<1>2. ASSUME NEW s \in found(balance),
             plan' = [plan EXCEPT ![p].pc = "quote",
                        ![p].funds = [asset |-> s.asset, account |-> s.account, balance |-> balance[s]],
                        ![p].nonce = IF s.asset.ns = "eip155" THEN InitializeNonce(@, s.asset.chain) ELSE @]
      PROVE  RouteInv(plan'[p])
  <2> DEFINE f == [asset |-> s.asset, account |-> s.account, balance |-> balance[s]]
             m == IF s.asset.ns = "eip155"
                  THEN InitializeNonce(plan[p].nonce, s.asset.chain) ELSE plan[p].nonce
  <2>1. s \in Sources(r.accounts, r.asset, r.kind = "native") /\ s.asset \in Asset
    BY FundsAreOfAsset
  <2>2. balance[s] \in Amount
    BY <2>1
  <2>3. f.asset \in Asset /\ f.balance \in Amount
    BY <2>1, <2>2
  <2>4. m \in [Chain -> NonceState]
    <3>1. s.asset.ns = "eip155" => s.asset.chain \in Chain
      BY <2>1, RequestAssumption
    <3> QED
      BY <3>1, NonceTypes DEF RouteInv
  <2>5. plan'[p] = [plan[p] EXCEPT !.pc = "quote", !.funds = f, !.nonce = m]
    BY <1>2 DEF PlansInv
  <2> HIDE DEF f, m, found
  <2>6. plan[p].pc = "funds" /\ DOMAIN plan[p] = PlanFields /\ plan[p].reply = NULL
    BY DEF FindFunds, PlansInv, PlanInv
  <2>7. /\ plan'[p].pc = "quote" /\ plan'[p].reply = NULL /\ plan'[p].nonce = m
        /\ plan'[p].req = r /\ plan'[p].read = plan[p].read /\ plan'[p].funds = f
    BY <2>5, <2>6 DEF PlanFields
  <2>8. r.asset \in Target /\ r.value \in Amount /\ plan[p].read \in Amount /\ plan[p].read < r.value
    BY <2>6 DEF RouteInv, Lacking, Unstored
  <2> HIDE DEF r
  <2> QED
    BY <2>3, <2>4, <2>7, <2>8, BoundAssumption DEF RouteInv, Given
<1> QED
  BY <1>1, <1>2, AnswerRoute

\* A request that is being quoted or built, and what is known of it.
LEMMA AboutRoute ==
  ASSUME PlansInv, NEW p \in Planner, RouteInv(plan[p]), plan[p].pc \in {"quote", "requote", "build", "reply"}
  PROVE  /\ DOMAIN plan[p] = PlanFields /\ plan[p].reply = NULL
         /\ plan[p].nonce \in [Chain -> NonceState]
         /\ plan[p].req.asset \in Target /\ plan[p].req.value \in Amount /\ plan[p].read \in Amount
         /\ plan[p].read < plan[p].req.value
         /\ plan[p].funds.asset \in Asset /\ plan[p].funds.balance \in Amount
BY DEF RouteInv, PlansInv, PlanInv, Lacking, Unstored

LEMMA QuoteRoute ==
  ASSUME PlansInv, NEW p \in Planner, RouteInv(plan[p]), Quote(p)
  PROVE  RouteInv(plan'[p])
<1>1. CASE \E r \in {"no_routes", "insufficient_funds"} : Answer(p, r)
  BY <1>1, AnswerRoute
<1>2. ASSUME NEW amount \in BungeeQuotes \ {NULL},
             ~(plan[p].funds.balance <
                 RequiredTopup(SourceTopup(p), BridgingFee(SourceTopup(p), SourceAmount(p, amount)))),
             plan' = [plan EXCEPT ![p].pc = "requote",
                        ![p].required = RequiredTopup(SourceTopup(p),
                            BridgingFee(SourceTopup(p), SourceAmount(p, amount)))]
      PROVE  RouteInv(plan'[p])
  <2> DEFINE n == RequiredTopup(SourceTopup(p), BridgingFee(SourceTopup(p), SourceAmount(p, amount)))
  <2>1. plan[p].pc = "quote" /\ Bungee(p)
    BY DEF Quote
  <2>2. plan'[p] = [plan[p] EXCEPT !.pc = "requote", !.required = n]
    BY <1>2 DEF PlansInv
  <2>3. amount \in Amount
    BY <1>2 DEF BungeeQuotes
  <2>4. ~(plan[p].funds.balance < n)
    BY <1>2
  <2>5. n = RequiredTopup(InSource(plan[p], Lack(plan[p])),
                          BridgingFee(InSource(plan[p], Lack(plan[p])), InSource(plan[p], amount)))
    BY DEF SourceTopup, SourceAmount, InSource, Lack, Topup
  <2> HIDE DEF n
  <2>6. /\ plan'[p].pc = "requote" /\ plan'[p].reply = NULL /\ plan'[p].nonce = plan[p].nonce
        /\ plan'[p].req = plan[p].req /\ plan'[p].read = plan[p].read
        /\ plan'[p].funds = plan[p].funds /\ plan'[p].required = n
    BY <2>1, <2>2, AboutRoute DEF PlanFields
  <2>7. RequiredIsThere(plan'[p])
    <3>1. \A a : InSource(plan'[p], a) = InSource(plan[p], a)
      BY <2>6 DEF InSource
    <3>2. Lack(plan'[p]) = Lack(plan[p])
      BY <2>6 DEF Lack
    <3> QED
      BY <2>1, <2>3, <2>4, <2>5, <2>6, <3>1, <3>2, AboutRoute DEF RequiredIsThere
  <2> QED
    BY <2>1, <2>6, <2>7, AboutRoute, BoundAssumption DEF RouteInv, Given, Bungee, Lacking, Unstored
<1> QED
  BY <1>1, <1>2 DEF Quote

LEMMA RequoteRoute ==
  ASSUME PlansInv, NEW p \in Planner, RouteInv(plan[p]), Requote(p)
  PROVE  RouteInv(plan'[p])
<1>1. CASE \E r \in {"no_routes", "error"} : Answer(p, r)
  BY <1>1, AnswerRoute
<1>2. ASSUME NEW amount \in BungeeQuotes \ {NULL}, ~(SourceTopup(p) > SourceAmount(p, amount)),
             plan' = [plan EXCEPT ![p].pc = "build", ![p].quoted = amount]
      PROVE  RouteInv(plan'[p])
  <2>1. plan[p].pc = "requote"
    BY DEF Requote
  <2>2. plan'[p] = [plan[p] EXCEPT !.pc = "build", !.quoted = amount]
    BY <1>2 DEF PlansInv
  <2>3. amount \in Amount
    BY <1>2 DEF BungeeQuotes
  <2>4. /\ plan'[p].pc = "build" /\ plan'[p].reply = NULL /\ plan'[p].nonce = plan[p].nonce
        /\ plan'[p].req = plan[p].req /\ plan'[p].read = plan[p].read
        /\ plan'[p].funds = plan[p].funds /\ plan'[p].required = plan[p].required
        /\ plan'[p].quoted = amount
    BY <2>1, <2>2, AboutRoute DEF PlanFields
  <2>5. /\ \A a : InSource(plan'[p], a) = InSource(plan[p], a)
        /\ Lack(plan'[p]) = Lack(plan[p])
        /\ OfBungee(plan'[p]) <=> OfBungee(plan[p])
    BY <2>4 DEF InSource, Lack, OfBungee
  <2>6. QuoteBrings(plan'[p])
    BY <1>2, <2>3, <2>4, <2>5 DEF QuoteBrings, SourceTopup, SourceAmount, InSource, Lack, Topup
  <2>7. OfBungee(plan'[p]) => RequiredIsThere(plan'[p])
    BY <2>1, <2>4, <2>5 DEF RouteInv, RequiredIsThere
  <2>8. plan[p].funds.asset.ns = "eip155"
    BY <2>1 DEF RouteInv
  <2> QED
    BY <2>1, <2>4, <2>6, <2>7, <2>8, AboutRoute, BoundAssumption DEF RouteInv, Given, Lacking, Unstored
<1> QED
  BY <1>1, <1>2 DEF Requote

LEMMA LifiQuoteRoute ==
  ASSUME PlansInv, NEW p \in Planner, RouteInv(plan[p]), LifiQuote(p)
  PROVE  RouteInv(plan'[p])
<1>1. CASE Answer(p, "panic")
  BY <1>1, AnswerRoute
<1>2. ASSUME NEW amount \in Amount, plan' = [plan EXCEPT ![p].pc = "build", ![p].required = amount]
      PROVE  RouteInv(plan'[p])
  <2>1. plan[p].pc = "quote" /\ ~Bungee(p) /\ plan[p].funds.asset.ns = "eip155"
    BY DEF LifiQuote
  <2>2. plan'[p] = [plan[p] EXCEPT !.pc = "build", !.required = amount]
    BY <1>2 DEF PlansInv
  <2>3. /\ plan'[p].pc = "build" /\ plan'[p].reply = NULL /\ plan'[p].nonce = plan[p].nonce
        /\ plan'[p].req = plan[p].req /\ plan'[p].read = plan[p].read
        /\ plan'[p].funds = plan[p].funds
    BY <2>1, <2>2, AboutRoute DEF PlanFields
  <2>4. ~OfBungee(plan'[p])
    BY <2>1, <2>3 DEF OfBungee, Bungee
  <2> QED
    BY <2>1, <2>3, <2>4, AboutRoute, BoundAssumption DEF RouteInv, Given, Lacking, Unstored
<1> QED
  BY <1>1, <1>2 DEF LifiQuote

\* LiFi's transaction on Solana has no nonce, and no chain of a nonce.
LEMMA LifiSolanaRoute ==
  ASSUME PlansInv, NEW p \in Planner, RouteInv(plan[p]), LifiSolana(p)
  PROVE  RouteInv(plan'[p])
<1> DEFINE c == plan[p].funds.asset.chain
           t == <<Transact(c, "bridge", 0)>>
<1>1. plan[p].pc = "quote" /\ plan[p].funds.asset.ns = "solana"
  BY DEF LifiSolana
<1>2. PICK amount \in Amount :
        plan' = [plan EXCEPT ![p].pc = "store", ![p].required = amount, ![p].txs = t]
  BY DEF LifiSolana, Transact
<1>3. plan'[p] = [plan[p] EXCEPT !.pc = "store", !.required = amount, !.txs = t]
  BY <1>2 DEF PlansInv
<1>4. c \notin Chain
  BY <1>1, AboutRoute, RequestAssumption
<1>5. t = <<Transact(c, "bridge", 0)>>
  OBVIOUS
<1> HIDE DEF t
<1>6. /\ plan'[p].pc = "store" /\ plan'[p].reply = NULL /\ plan'[p].nonce = plan[p].nonce
      /\ plan'[p].req = plan[p].req /\ plan'[p].read = plan[p].read
      /\ plan'[p].funds = plan[p].funds /\ plan'[p].txs = t
  BY <1>1, <1>3, AboutRoute DEF PlanFields
<1>7. Staged(plan'[p])
  BY <1>4, <1>5, <1>6 DEF Staged
<1>8. ~OfBungee(plan'[p])
  BY <1>1, <1>6 DEF OfBungee
<1> QED
  BY <1>1, <1>6, <1>7, <1>8, AboutRoute, BoundAssumption DEF RouteInv, Given, Lacking, Unstored

LEMMA NextTransact ==
  ASSUME NEW c, NEW n \in Nat
  PROVE  [Transact(c, "approve", n) EXCEPT !.role = "bridge", !.nonce = @ + 1]
           = Transact(c, "bridge", n + 1)
<1> DEFINE e == [Transact(c, "approve", n) EXCEPT !.role = "bridge", !.nonce = @ + 1]
<1>1. e \in [chain : {c}, role : {"bridge"}, nonce : {n + 1}]
  BY DEF Transact
<1> HIDE DEF e
<1>2. e = Transact(c, "bridge", n + 1)
  BY <1>1 DEF Transact
<1> QED
  BY <1>2 DEF e

\* The transactions are numbered from the nonce the manager has, and the manager
\* goes on after the last of them.
LEMMA PlannedRoute ==
  ASSUME PlansInv, NEW p \in Planner, RouteInv(plan[p]), NEW approve,
         plan[p].pc = "build", Planned(p, approve)
  PROVE  RouteInv(plan'[p])
<1> DEFINE c == plan[p].funds.asset.chain
           m == plan[p].nonce
           t == Transactions(p, approve)
           ns == IF approve THEN GetNonce(GetNonce(m, c), c) ELSE GetNonce(m, c)
<1>1. c \in Chain /\ m[c].state = "ready"
  <2>1. plan[p].funds.asset.ns = "eip155"
    BY DEF RouteInv
  <2> QED
    BY <2>1, AboutRoute, RequestAssumption DEF Planned, NonceReady
<1>2. m \in [Chain -> NonceState] /\ m[c].n \in Nat
  BY <1>1, AboutRoute DEF NonceState
<1>3. /\ ns \in [Chain -> NonceState] /\ ns[c].state = "ready"
      /\ approve => ns[c].n = m[c].n + 2
      /\ ~approve => ns[c].n = m[c].n + 1
  <2>1. /\ GetNonce(m, c) \in [Chain -> NonceState]
        /\ GetNonce(m, c)[c].state = "ready" /\ GetNonce(m, c)[c].n = m[c].n + 1
    BY <1>1, <1>2, NonceTypes
  <2>2. /\ GetNonce(GetNonce(m, c), c) \in [Chain -> NonceState]
        /\ GetNonce(GetNonce(m, c), c)[c].state = "ready"
        /\ GetNonce(GetNonce(m, c), c)[c].n = (m[c].n + 1) + 1
    BY <1>1, <2>1, NonceTypes
  <2>3. CASE approve
    <3>1. ns = GetNonce(GetNonce(m, c), c)
      BY <2>3
    <3>2. ns[c].n = (m[c].n + 1) + 1
      BY <2>2, <3>1
    <3>3. ns \in [Chain -> NonceState] /\ ns[c].state = "ready"
      BY <2>2, <3>1
    <3> HIDE DEF c, m, ns
    <3> QED
      BY <1>2, <2>3, <3>2, <3>3
  <2>4. CASE ~approve
    BY <2>1, <2>4
  <2> QED
    BY <2>3, <2>4
<1>4. /\ approve => ns[c] = [state |-> "ready", n |-> m[c].n + 2]
      /\ ~approve => ns[c] = [state |-> "ready", n |-> m[c].n + 1]
  <2>1. ns[c] \in NonceState
    BY <1>1, <1>3
  <2> HIDE DEF ns
  <2> QED
    BY <1>3, <2>1 DEF NonceState
<1>5. t = IF approve THEN <<Transact(c, "approve", m[c].n), Transact(c, "bridge", m[c].n + 1)>>
                     ELSE <<Transact(c, "bridge", m[c].n)>>
  <2>1. Tx(p, c, "approve") = Transact(c, "approve", m[c].n) /\ Tx(p, c, "bridge") = Transact(c, "bridge", m[c].n)
    BY DEF Tx, Transact
  <2>2. [Transact(c, "approve", m[c].n) EXCEPT !.role = "bridge", !.nonce = @ + 1]
          = Transact(c, "bridge", m[c].n + 1)
    BY <1>2, NextTransact
  <2> QED
    BY <2>1, <2>2 DEF Transactions
<1>6. plan'[p] = [plan[p] EXCEPT !.pc = "store", !.txs = t, !.nonce = ns]
  BY DEF Planned, PlansInv
<1> HIDE DEF t, ns
<1>7. /\ plan'[p].pc = "store" /\ plan'[p].reply = NULL /\ plan'[p].nonce = ns
      /\ plan'[p].req = plan[p].req /\ plan'[p].read = plan[p].read
      /\ plan'[p].funds = plan[p].funds /\ plan'[p].txs = t
      /\ plan'[p].required = plan[p].required /\ plan'[p].quoted = plan[p].quoted
  BY <1>6, AboutRoute DEF PlanFields
<1>8. Staged(plan'[p])
  <2>1. plan'[p].funds.asset.chain = c /\ plan'[p].txs = t /\ plan'[p].nonce[c] = ns[c]
    BY <1>7
  <2> HIDE DEF c, m
  <2>2. CASE approve
    BY <1>2, <1>4, <1>5, <2>1, <2>2 DEF Staged
  <2>3. CASE ~approve
    BY <1>2, <1>4, <1>5, <2>1, <2>3 DEF Staged
  <2> QED
    BY <2>2, <2>3
<1>9. /\ \A a : InSource(plan'[p], a) = InSource(plan[p], a)
      /\ Lack(plan'[p]) = Lack(plan[p])
      /\ OfBungee(plan'[p]) <=> OfBungee(plan[p])
  BY <1>7 DEF InSource, Lack, OfBungee
<1>10. OfBungee(plan'[p]) => RequiredIsThere(plan'[p]) /\ QuoteBrings(plan'[p])
  BY <1>7, <1>9 DEF RouteInv, RequiredIsThere, QuoteBrings
<1> QED
  BY <1>3, <1>7, <1>8, <1>10, AboutRoute, BoundAssumption DEF RouteInv, Given, Lacking, Unstored

LEMMA BuildRoute ==
  ASSUME PlansInv, NEW p \in Planner, RouteInv(plan[p]), Build(p) \/ LifiBuild(p)
  PROVE  RouteInv(plan'[p])
BY PlannedRoute DEF Build, LifiBuild

LEMMA StoreRoute ==
  ASSUME PlansInv, NEW p \in Planner, RouteInv(plan[p]), Store(p)
  PROVE  RouteInv(plan'[p])
<1>1. CASE Answer(p, "error")
  BY <1>1, AnswerRoute
<1>2. CASE plan' = [plan EXCEPT ![p].pc = "reply"]
  <2>1. plan[p].pc = "store" /\ DOMAIN plan[p] = PlanFields /\ plan[p].reply = NULL
    BY DEF Store, PlansInv, PlanInv
  <2>2. plan'[p] = [plan[p] EXCEPT !.pc = "reply"]
    BY <1>2 DEF PlansInv
  <2>3. /\ plan'[p].pc = "reply" /\ plan'[p].reply = NULL /\ plan'[p].nonce = plan[p].nonce
        /\ plan'[p].req = plan[p].req /\ plan'[p].read = plan[p].read
        /\ plan'[p].funds = plan[p].funds /\ plan'[p].required = plan[p].required
        /\ plan'[p].quoted = plan[p].quoted /\ plan'[p].txs = plan[p].txs
    BY <2>1, <2>2 DEF PlanFields
  <2>4. Staged(plan[p]) => Staged(plan'[p])
    BY <2>3 DEF Staged
  <2> QED
    BY <2>1, <2>3, <2>4, BoundAssumption
       DEF RouteInv, Given, OfBungee, RequiredIsThere, QuoteBrings, InSource, Lack, Lacking, Unstored
<1> QED
  BY <1>1, <1>2 DEF Store

\* Transactions of one chain that follow each other and count up are in order.
LEMMA RunsInOrder ==
  ASSUME NEW t, NEW len \in Nat, DOMAIN t = 1..len, \A i \in 1..len : t[i].nonce \in Nat,
         \A i, j \in 1..len : i < j /\ t[i].chain = t[j].chain =>
           /\ \A k \in i..j : t[k].chain = t[j].chain
           /\ t[j].nonce = t[i].nonce + (j - i)
  PROVE  InOrder(t)
<1> SUFFICES ASSUME NEW i \in 1..len, NEW j \in 1..len, i < j, t[i].chain = t[j].chain
             PROVE  t[j].nonce = t[i].nonce
                      + Cardinality({k \in i..j : t[k].chain = t[j].chain}) - 1
  BY DEF InOrder
<1> DEFINE S == {k \in i..j : t[k].chain = t[j].chain}
<1>1. S = i..j
  OBVIOUS
<1>2. Cardinality(i..j) = IF i > j THEN 0 ELSE j - i + 1
  BY FS_Interval
<1>3. Cardinality(i..j) = j - i + 1
  BY <1>2
<1>4. t[j].nonce = t[i].nonce + (j - i) /\ t[i].nonce \in Nat
  OBVIOUS
<1>5. Cardinality(S) = j - i + 1
  BY <1>1, <1>3
<1> HIDE DEF S
<1>6. t[j].nonce = t[i].nonce + Cardinality(S) - 1
  BY <1>4, <1>5
<1> QED
  BY <1>6 DEF S

LEMMA AppendIs ==
  ASSUME NEW S, NEW s \in Seq(S), NEW x \in S, NEW t, t = Append(s, x)
  PROVE  /\ Len(t) = Len(s) + 1 /\ DOMAIN t = 1..(Len(s) + 1)
         /\ t[Len(s) + 1] = x /\ \A i \in 1..Len(s) : t[i] = s[i]
OBVIOUS

\* The transfer, on whatever chain, after the one transaction of the bridge ...
LEMMA TransferSecond ==
  ASSUME NEW t, DOMAIN t = 1..2, NEW n \in Nat,
         t[1].nonce = n, t[2].nonce \in Nat,
         t[2].chain = t[1].chain => t[2].nonce = n + 1
  PROVE  InOrder(t)
<1>1. \A i \in 1..2 : t[i].nonce \in Nat
  OBVIOUS
<1>2. ASSUME NEW i \in 1..2, NEW j \in 1..2, i < j, t[i].chain = t[j].chain
      PROVE  /\ \A h \in i..j : t[h].chain = t[j].chain
             /\ t[j].nonce = t[i].nonce + (j - i)
  <2>1. i = 1 /\ j = 2
    BY <1>2
  <2>2. t[2].chain = t[1].chain /\ t[2].nonce = t[1].nonce + (2 - 1)
    BY <1>2, <2>1
  <2>3. \A h \in 1..2 : t[h].chain = t[2].chain
    BY <2>2
  <2> QED
    BY <2>1, <2>2, <2>3
<1> QED
  BY <1>1, <1>2, RunsInOrder

\* ... or after the approval and the transaction of the bridge, which are on one
\* chain.
LEMMA TransferThird ==
  ASSUME NEW t, DOMAIN t = 1..3, NEW n \in Nat,
         t[1].nonce = n, t[2].nonce = n + 1, t[3].nonce \in Nat, t[2].chain = t[1].chain,
         t[3].chain = t[1].chain => t[3].nonce = n + 2
  PROVE  InOrder(t)
<1>1. \A i \in 1..3 : t[i].nonce \in Nat
  OBVIOUS
<1>2. ASSUME NEW i \in 1..3, NEW j \in 1..3, i < j, t[i].chain = t[j].chain
      PROVE  /\ \A h \in i..j : t[h].chain = t[j].chain
             /\ t[j].nonce = t[i].nonce + (j - i)
  <2>1. CASE j = 2
    <3>1. i = 1
      BY <1>2, <2>1
    <3>2. \A h \in 1..2 : t[h].chain = t[2].chain
      OBVIOUS
    <3>3. t[2].nonce = t[1].nonce + (2 - 1)
      OBVIOUS
    <3> QED
      BY <2>1, <3>1, <3>2, <3>3
  <2>2. CASE j = 3
    <3>1. i = 1 \/ i = 2
      BY <1>2, <2>2
    <3>2. t[3].chain = t[1].chain /\ t[3].nonce = n + 2
      BY <1>2, <2>2, <3>1
    <3>3. \A h \in 1..3 : t[h].chain = t[3].chain
      BY <3>2
    <3>4. t[3].nonce = t[1].nonce + (3 - 1) /\ t[3].nonce = t[2].nonce + (3 - 2)
      BY <3>2
    <3> QED
      BY <2>2, <3>1, <3>3, <3>4
  <2>3. j # 1
    BY <1>2
  <2> QED
    BY <2>1, <2>2, <2>3
<1> QED
  BY <1>1, <1>2, RunsInOrder

LEMMA TransferLast ==
  ASSUME NEW c, NEW d, NEW n \in Nat, NEW k \in Nat, NEW s, NEW t,
         t = Append(s, Transact(d, "initial", k)),
         \/ s = <<Transact(c, "bridge", n)>> /\ (d = c => k = n + 1)
         \/ /\ s = <<Transact(c, "approve", n), Transact(c, "bridge", n + 1)>>
            /\ d = c => k = n + 2
  PROVE  InOrder(t)
<1> DEFINE x == Transact(d, "initial", k)
           a == Transact(c, "approve", n)
           b1 == Transact(c, "bridge", n)
           b2 == Transact(c, "bridge", n + 1)
           S == {x, a, b1, b2}
<1>1. /\ x.chain = d /\ x.nonce = k /\ a.chain = c /\ a.nonce = n
      /\ b1.chain = c /\ b1.nonce = n /\ b2.chain = c /\ b2.nonce = n + 1
  BY DEF Transact
<1>2. x \in S /\ a \in S /\ b1 \in S /\ b2 \in S
  OBVIOUS
<1>3. t = Append(s, x)
  OBVIOUS
<1>4. \/ s = <<b1>> /\ (d = c => k = n + 1)
      \/ s = <<a, b2>> /\ (d = c => k = n + 2)
  BY Zenon
<1> HIDE DEF x, a, b1, b2, S
<1>5. CASE s = <<b1>> /\ (d = c => k = n + 1)
  <2>1. s \in Seq(S) /\ Len(s) = 1 /\ s[1] = b1
    BY <1>2, <1>5
  <2>2. /\ Len(t) = Len(s) + 1 /\ DOMAIN t = 1..(Len(s) + 1)
        /\ t[Len(s) + 1] = x /\ \A i \in 1..Len(s) : t[i] = s[i]
    BY <1>2, <1>3, <2>1, AppendIs
  <2>3. DOMAIN t = 1..2 /\ t[1] = b1 /\ t[2] = x
    BY <2>1, <2>2
  <2>4. t[2].chain = t[1].chain => t[2].nonce = n + 1
    BY <1>1, <1>5, <2>3
  <2>5. t[1].nonce = n /\ t[2].nonce \in Nat
    BY <1>1, <2>3
  <2> QED
    BY <2>3, <2>4, <2>5, TransferSecond
<1>6. CASE s = <<a, b2>> /\ (d = c => k = n + 2)
  <2>1. s \in Seq(S) /\ Len(s) = 2 /\ s[1] = a /\ s[2] = b2
    BY <1>2, <1>6
  <2>2. /\ Len(t) = Len(s) + 1 /\ DOMAIN t = 1..(Len(s) + 1)
        /\ t[Len(s) + 1] = x /\ \A i \in 1..Len(s) : t[i] = s[i]
    BY <1>2, <1>3, <2>1, AppendIs
  <2>3. DOMAIN t = 1..3 /\ t[1] = a /\ t[2] = b2 /\ t[3] = x
    BY <2>1, <2>2
  <2>4. t[3].chain = t[1].chain => t[3].nonce = n + 2
    BY <1>1, <1>6, <2>3
  <2>5. t[1].nonce = n /\ t[2].nonce = n + 1 /\ t[3].nonce \in Nat /\ t[2].chain = t[1].chain
    BY <1>1, <2>3
  <2> QED
    BY <2>3, <2>4, <2>5, TransferThird
<1> QED
  BY <1>4, <1>5, <1>6

LEMMA ReplyRoute ==
  ASSUME PlansInv, NEW p \in Planner, RouteInv(plan[p]), Reply(p)
  PROVE  RouteInv(plan'[p])
<1> DEFINE d == plan[p].req.asset.chain
           c == plan[p].funds.asset.chain
           m == plan[p].nonce
           t == Append(plan[p].txs, Transact(d, "initial", m[d].n))
           ns == GetNonce(m, d)
<1>1. CASE \E r \in {"error", "panic"} : Answer(p, r)
  BY <1>1, AnswerRoute
<1>2. CASE /\ NonceReady(p, d)
           /\ plan' = [plan EXCEPT ![p].pc = "done", ![p].reply = "available", ![p].txs = t, ![p].nonce = ns]
  <2>1. plan[p].pc = "reply"
    BY DEF Reply
  <2>2. d \in Chain /\ m \in [Chain -> NonceState] /\ m[d].n \in Nat
    <3>1. d \in Chain /\ m \in [Chain -> NonceState]
      BY <2>1, AboutRoute, TargetFacts
    <3> QED
      BY <3>1 DEF NonceState
  <2>3. ns \in [Chain -> NonceState]
    BY <2>2, NonceTypes
  <2>4. InOrder(t)
    <3>1. PICK n \in Nat :
            \/ /\ plan[p].txs = <<Transact(c, "bridge", n)>>
               /\ c \in Chain => m[c] = [state |-> "ready", n |-> n + 1]
            \/ /\ plan[p].txs = <<Transact(c, "approve", n), Transact(c, "bridge", n + 1)>>
               /\ c \in Chain => m[c] = [state |-> "ready", n |-> n + 2]
      BY <2>1 DEF RouteInv, Staged
    <3> HIDE DEF c, m, d
    <3>2. CASE /\ plan[p].txs = <<Transact(c, "bridge", n)>>
               /\ c \in Chain => m[c] = [state |-> "ready", n |-> n + 1]
      <4>1. d = c => m[d].n = n + 1
        BY <2>2, <3>2
      <4> QED
        BY <2>2, <3>2, <4>1, TransferLast
    <3>3. CASE /\ plan[p].txs = <<Transact(c, "approve", n), Transact(c, "bridge", n + 1)>>
               /\ c \in Chain => m[c] = [state |-> "ready", n |-> n + 2]
      <4>1. d = c => m[d].n = n + 2
        BY <2>2, <3>3
      <4> QED
        BY <2>2, <3>3, <4>1, TransferLast
    <3> QED
      BY <3>1, <3>2, <3>3
  <2>5. plan'[p] = [plan[p] EXCEPT !.pc = "done", !.reply = "available", !.txs = t, !.nonce = ns]
    BY <1>2 DEF PlansInv
  <2> HIDE DEF t, ns
  <2>6. /\ plan'[p].pc = "done" /\ plan'[p].reply = "available" /\ plan'[p].nonce = ns
        /\ plan'[p].req = plan[p].req /\ plan'[p].read = plan[p].read
        /\ plan'[p].funds = plan[p].funds /\ plan'[p].txs = t
        /\ plan'[p].required = plan[p].required /\ plan'[p].quoted = plan[p].quoted
    BY <2>1, <2>5, AboutRoute DEF PlanFields
  <2>7. /\ \A a : InSource(plan'[p], a) = InSource(plan[p], a)
        /\ Lack(plan'[p]) = Lack(plan[p])
        /\ OfBungee(plan'[p]) <=> OfBungee(plan[p])
    BY <2>6 DEF InSource, Lack, OfBungee
  <2>8. OfBungee(plan'[p]) => RequiredIsThere(plan'[p]) /\ QuoteBrings(plan'[p])
    BY <2>1, <2>6, <2>7 DEF RouteInv, RequiredIsThere, QuoteBrings
  <2> HIDE DEF c, d, m
  <2> QED
    BY <2>1, <2>3, <2>4, <2>6, <2>8, AboutRoute DEF RouteInv, Given, Lacking, Unstored
<1> QED
  BY <1>1, <1>2 DEF Reply, Tx, Transact

LEMMA EndPlanRoute ==
  ASSUME PlansInv, NEW p \in Planner, EndPlan(p)
  PROVE  RouteInv(plan'[p])
<1>1. plan'[p] = IdlePlan
  BY DEF EndPlan, PlansInv
<1> QED
  BY <1>1, IdleRoute

\* Every step keeps every request's route.
LEMMA RoutesStep ==
  Inv /\ RoutesInv /\ [Next]_vars => RoutesInv'
<1> SUFFICES ASSUME Inv, RoutesInv, [Next]_vars PROVE RoutesInv'
  OBVIOUS
<1>1. ASSUME NEW p \in Planner, Prepare(p) PROVE RoutesInv'
  <2> USE DEF Inv
  <2>1. RouteInv(plan[p])
    BY DEF RoutesInv
  <2>2. RouteInv(plan'[p])
    <3>1. ASSUME Fail(p) PROVE RouteInv(plan'[p])
      BY <2>1, <3>1, AnswerRoute DEF Fail
    <3> QED
      BY <1>1, <2>1, <3>1, ClassifyRoute, ReadBalanceRoute, FindFundsRoute, QuoteRoute, RequoteRoute,
         BuildRoute, LifiSolanaRoute, LifiQuoteRoute, StoreRoute, ReplyRoute, EndPlanRoute,
         FetchNonceRoute DEF Prepare
  <2>3. \A u \in Planner : u # p => plan'[u] = plan[u]
    BY <1>1 DEF PlansInv, Prepare, Classify, Fail, ReadBalance, FindFunds, Quote, Requote, Build, LifiSolana,
       LifiQuote, LifiBuild, Planned, Store, Reply, EndPlan, FetchNonce, Answer
  <2> QED
    BY <2>2, <2>3 DEF RoutesInv
<1>2. ASSUME NEW q \in Poller, Status(q) PROVE UNCHANGED plan
  BY <1>2 DEF Status, PollFails, CheckBalance, WriteVerdict, EndPoll, ReadOrder
<1>3. ASSUME NEW a \in Target, MoveTokens(a) PROVE UNCHANGED plan
  BY <1>3 DEF MoveTokens
<1>4. ASSUME Tick \/ UNCHANGED vars PROVE UNCHANGED plan
  BY <1>4 DEF Tick, vars
<1>5. UNCHANGED plan => RoutesInv'
  BY DEF RoutesInv
<1> QED
  BY <1>1, <1>2, <1>3, <1>4, <1>5 DEF Next

LEMMA RoutesInvariance ==
  SafeSpec => []RoutesInv
<1>1. Init => RoutesInv
  BY IdleRoute DEF Init, RoutesInv
<1>2. Inv /\ RoutesInv /\ [Next]_vars => RoutesInv'
  BY RoutesStep
<1> QED
  BY <1>1, <1>2, Invariance, PTL DEF SafeSpec

\* nonce_manager.rs: approval, bridging and transfer that go to one chain have
\* consecutive nonces in that order, whatever chains the bridge and the transfer
\* are on and whenever the fetches end.
THEOREM PlansNoncesInOrder ==
  SafeSpec => []NoncesInOrder
<1>1. RoutesInv => NoncesInOrder
  BY DEF RoutesInv, RouteInv, Given, NoncesInOrder, InOrder
<1> QED
  BY <1>1, RoutesInvariance, PTL

-----------------------------------------------------------------------------
(* What plans cover. *)

LEMMA Least ==
  ASSUME NEW S \in SUBSET Nat, S # {}
  PROVE  \E x \in S : \A y \in S : x <= y
<1> DEFINE R == OpToRel(<, Nat)
<1>1. R = {ss \in Nat \X Nat : ss[1] < ss[2]}
  BY DEF OpToRel
<1>2. IsWellFoundedOn(R, Nat)
  BY NatLessThanWellFounded
<1> HIDE DEF R
<1>3. PICK x \in S : \A y \in S : ~ (<<y, x>> \in R)
  <2>1. S \subseteq Nat
    OBVIOUS
  <2> QED
    BY <1>2, <2>1, WFMin, Zenon
<1>4. ASSUME NEW y \in S PROVE x <= y
  <2>1. x \in Nat /\ y \in Nat
    OBVIOUS
  <2>2. y < x => <<y, x>> \in R
    BY <1>1, <2>1
  <2> QED
    BY <1>3, <2>1, <2>2
<1> QED
  BY <1>4

\* Induction, over a set of naturals.
LEMMA Induct ==
  ASSUME NEW S \in SUBSET Nat, 0 \in S, \A n \in S : n + 1 \in S
  PROVE  S = Nat
<1>1. SUFFICES ASSUME Nat \ S # {} PROVE FALSE
  OBVIOUS
<1>2. PICK x \in Nat \ S : \A y \in Nat \ S : x <= y
  BY <1>1, Least
<1>3. x - 1 \in S /\ x # 0
  BY <1>2
<1>4. (x - 1) + 1 \in S
  BY <1>3
<1> QED
  BY <1>2, <1>4

\* The first m + 1 powers of Base.
Powers(m, f) ==
  /\ f \in [0..m -> Nat \ {0}] /\ f[0] = 1
  /\ \A k \in 1..m : f[k] = Base * f[k - 1]

LEMMA MorePowers ==
  ASSUME NEW m \in Nat, NEW f, Powers(m, f)
  PROVE  \E g : Powers(m + 1, g)
<1> DEFINE g == [k \in 0..(m + 1) |-> IF k = m + 1 THEN Base * f[m] ELSE f[k]]
<1>1. f[m] \in Nat \ {0} /\ f \in [0..m -> Nat \ {0}] /\ f[0] = 1 /\ \A k \in 1..m : f[k] = Base * f[k - 1]
  BY DEF Powers
<1>2. Base * f[m] \in Nat \ {0}
  BY <1>1, WordAssumption
<1>3. g \in [0..(m + 1) -> Nat \ {0}] /\ g[0] = 1
  BY <1>1, <1>2
<1>4. ASSUME NEW k \in 1..(m + 1) PROVE g[k] = Base * g[k - 1]
  <2>1. CASE k = m + 1
    <3>1. g[k] = Base * f[m] /\ g[m] = f[m] /\ k - 1 = m
      BY <2>1
    <3> QED
      BY <3>1
  <2>2. CASE k # m + 1
    <3>1. k \in 1..m /\ g[k] = f[k] /\ g[k - 1] = f[k - 1]
      BY <2>2
    <3> QED
      BY <1>1, <3>1
  <2> QED
    BY <2>1, <2>2
<1> HIDE DEF g
<1>5. Powers(m + 1, g)
  BY <1>3, <1>4 DEF Powers
<1> QED
  BY <1>5

LEMMA PowersExist == \A m \in Nat : \E f : Powers(m, f)
<1> DEFINE S == {m \in Nat : \E f : Powers(m, f)}
           f0 == [k \in 0..0 |-> 1]
<1>1. Powers(0, f0)
  BY DEF Powers
<1> HIDE DEF f0
<1>2. 0 \in S /\ \A m \in S : m + 1 \in S
  BY <1>1, MorePowers
<1>3. S \in SUBSET Nat
  OBVIOUS
<1> HIDE DEF S
<1>4. S = Nat
  BY <1>2, <1>3, Induct
<1> QED
  BY <1>4 DEF S

LEMMA PowersAgree ==
  ASSUME NEW m \in Nat, NEW n \in Nat, NEW f, NEW g, Powers(m, f), Powers(n, g),
         NEW k \in Nat, k <= m, k <= n
  PROVE  f[k] = g[k]
<1> DEFINE S == {i \in Nat : i <= m /\ i <= n => f[i] = g[i]}
<1>1. 0 \in S
  BY DEF Powers
<1>2. ASSUME NEW i \in S PROVE i + 1 \in S
  <2>1. SUFFICES ASSUME i + 1 <= m, i + 1 <= n PROVE f[i + 1] = g[i + 1]
    OBVIOUS
  <2>2. f[i] = g[i] /\ i + 1 \in 1..m /\ i + 1 \in 1..n /\ (i + 1) - 1 = i
    BY <2>1
  <2> QED
    BY <2>2 DEF Powers
<1>3. S \in SUBSET Nat
  OBVIOUS
<1> HIDE DEF S
<1>4. S = Nat
  BY <1>1, <1>2, <1>3, Induct
<1> QED
  BY <1>4 DEF S

\* The recursive definition of Scale defines a function: it has these values.
LEMMA ScaleIs ==
  /\ Scale[0] = 1
  /\ \A k \in Nat : Scale[k] \in Nat \ {0}
<1> DEFINE p(n) == CHOOSE f : Powers(n, f)
           F == [n \in Nat |-> p(n)[n]]
<1>1. \A n \in Nat : Powers(n, p(n))
  BY PowersExist
<1> HIDE DEF p
<1>2. ASSUME NEW n \in Nat PROVE F[n] \in Nat \ {0} /\ F[n] = IF n = 0 THEN 1 ELSE Base * F[n - 1]
  <2>1. Powers(n, p(n))
    BY <1>1
  <2>2. F[n] = p(n)[n] /\ F[n] \in Nat \ {0}
    BY <2>1 DEF Powers
  <2>3. CASE n = 0
    BY <2>1, <2>2, <2>3 DEF Powers
  <2>4. CASE n # 0
    <3>1. n - 1 \in Nat /\ n - 1 <= n /\ n \in 1..n
      BY <2>4
    <3>2. Powers(n - 1, p(n - 1)) /\ F[n - 1] = p(n - 1)[n - 1]
      BY <1>1, <3>1
    <3>3. p(n)[n - 1] = p(n - 1)[n - 1]
      BY <2>1, <3>1, <3>2, PowersAgree
    <3>4. p(n)[n] = Base * p(n)[n - 1]
      BY <2>1, <3>1 DEF Powers
    <3> QED
      BY <2>2, <2>4, <3>2, <3>3, <3>4
  <2> QED
    BY <2>3, <2>4
<1>3. F = [k \in Nat |-> IF k = 0 THEN 1 ELSE Base * F[k - 1]]
  BY <1>2
<1> HIDE DEF F
<1>4. Scale = [k \in Nat |-> IF k = 0 THEN 1 ELSE Base * Scale[k - 1]]
  BY <1>3 DEF Scale
<1>5. Scale[0] = 1 /\ \A k \in Nat : Scale[k + 1] = Base * Scale[k]
  BY <1>4
<1> DEFINE S == {k \in Nat : Scale[k] \in Nat \ {0}}
<1>6. 0 \in S /\ \A k \in S : k + 1 \in S
  BY <1>5, WordAssumption
<1>7. S \in SUBSET Nat
  OBVIOUS
<1> HIDE DEF S
<1>8. S = Nat
  BY <1>6, <1>7, Induct
<1> QED
  BY <1>5, <1>8 DEF S

\* Fewer decimals truncate, more decimals multiply, and what truncates to less is
\* less by at most one unit.
LEMMA ConvertAtLeast ==
  ASSUME NEW a \in Nat, NEW b \in Nat, NEW u \in Nat \ {0}, a \div u <= b \div u
  PROVE  b > a - u
OBVIOUS

LEMMA ScaledAtLeast ==
  ASSUME NEW a \in Nat, NEW b \in Nat, NEW u \in Nat \ {0}, a * u <= b * u
  PROVE  a <= b
OBVIOUS

LEMMA ScaledMost ==
  ASSUME NEW a \in Nat, NEW b \in Nat, NEW u \in Nat \ {0}, a <= b
  PROVE  a * u \in Nat /\ b * u \in Nat /\ a * u <= b * u
OBVIOUS

LEMMA DividedLess ==
  ASSUME NEW a \in Nat, NEW u \in Nat \ {0}
  PROVE  a \div u \in Nat /\ a \div u <= a
OBVIOUS

LEMMA FitsUnwrapped ==
  ASSUME NEW x \in Nat, x < Word
  PROVE  x % Word = x
BY WordAssumption

LEMMA SlippageBounded ==
  ASSUME NEW t \in Nat, NEW f \in Nat, f <= t
  PROVE  (f * 250) \div 100 \in Nat /\ (f * 250) \div 100 + t + f <= 5 * t
OBVIOUS

\* Amounts that fit are converted without wrapping.
LEMMA Converted ==
  ASSUME AmountsFit, NEW a \in Asset, NEW b \in Asset, NEW n \in Amount
  PROVE  LET x == a.decimals
             y == b.decimals
             c == ConvertAmount(n, x, y)
         IN  /\ c \in Nat /\ 5 * c < Word
             /\ x >= y => c = n \div Scale[x - y]
             /\ x < y => c = n * Scale[y - x]
<1> DEFINE x == a.decimals
           y == b.decimals
           c == ConvertAmount(n, x, y)
<1>1. x \in Nat /\ y \in Nat /\ n \in Nat /\ n <= MaxAmount /\ MaxAmount \in Nat
  BY AssetAssumption, BoundAssumption DEF Amount
<1>2. x <= y => 5 * MaxAmount * Scale[y - x] < Word
  BY DEF AmountsFit
<1>3. 5 * MaxAmount * Scale[x - x] < Word
  BY <1>1 DEF AmountsFit
<1>0. c = IF x >= y THEN n \div Scale[x - y] ELSE (n * Scale[y - x]) % Word
  BY DEF ConvertAmount
<1> HIDE DEF x, y, c
<1>4. CASE x >= y
  <2>1. x - y \in Nat /\ x - x = 0
    BY <1>1, <1>4
  <2>2. Scale[x - y] \in Nat \ {0} /\ Scale[x - x] = 1
    BY <2>1, ScaleIs
  <2>3. n \div Scale[x - y] \in Nat /\ n \div Scale[x - y] <= n
    BY <1>1, <2>2, DividedLess
  <2>4. 5 * MaxAmount < Word
    BY <1>1, <1>3, <2>2
  <2>5. c \in Nat /\ c <= n /\ c = n \div Scale[x - y]
    BY <1>0, <1>4, <2>3
  <2>6. 5 * c < Word
    BY <1>1, <2>4, <2>5, WordAssumption
  <2> QED
    BY <1>1, <1>4, <2>5, <2>6 DEF x, y, c
<1>5. CASE x < y
  <2>1. y - x \in Nat
    BY <1>1, <1>5
  <2>2. Scale[y - x] \in Nat \ {0}
    BY <2>1, ScaleIs
  <2>3. n * Scale[y - x] \in Nat /\ MaxAmount * Scale[y - x] \in Nat /\ n * Scale[y - x] <= MaxAmount * Scale[y - x]
    BY <1>1, <2>2, ScaledMost
  <2>4. 5 * (MaxAmount * Scale[y - x]) < Word
    BY <1>1, <1>2, <1>5, <2>2
  <2>5. 5 * (n * Scale[y - x]) < Word /\ n * Scale[y - x] < Word
    BY <2>3, <2>4, WordAssumption
  <2>6. c = n * Scale[y - x]
    <3>1. ~ (x >= y)
      BY <1>1, <1>5
    <3>2. (n * Scale[y - x]) % Word = n * Scale[y - x]
      BY <2>3, <2>5, FitsUnwrapped
    <3> QED
      BY <1>0, <3>1, <3>2
  <2> QED
    BY <1>1, <1>5, <2>3, <2>5, <2>6 DEF x, y, c
<1> QED
  BY <1>1, <1>4, <1>5

\* What a Bungee plan brings and bridges, from what prepare compared.
LEMMA Covered ==
  ASSUME AmountsFit, NEW r, r.req.asset \in Asset, r.funds.asset \in Asset,
         r.req.value \in Amount, r.read \in Amount, r.read < r.req.value,
         RequiredIsThere(r), QuoteBrings(r)
  PROVE  LET x == r.req.asset.decimals
             y == r.funds.asset.decimals
         IN  /\ r.quoted > (r.req.value - r.read) - (IF x - y > 0 THEN Scale[x - y] ELSE 1)
             /\ AtLeast(r.funds.balance, y, r.required, y)
             /\ r.required >= ConvertAmount(r.req.value - r.read, x, y)
<1> DEFINE x == r.req.asset.decimals
           y == r.funds.asset.decimals
           lack == r.req.value - r.read
           need == ConvertAmount(lack, x, y)
           got == ConvertAmount(r.quoted, x, y)
<1>1. x \in Nat /\ y \in Nat
  BY AssetAssumption
<1>2. lack \in Amount /\ lack \in Nat /\ r.quoted \in Amount /\ r.quoted \in Nat
  BY BoundAssumption DEF Amount, QuoteBrings
<1>3. /\ need \in Nat /\ 5 * need < Word
      /\ x >= y => need = lack \div Scale[x - y]
      /\ x < y => need = lack * Scale[y - x]
  <2> HIDE DEF lack
  <2> QED
    BY <1>2, Converted
<1>4. /\ got \in Nat
      /\ x >= y => got = r.quoted \div Scale[x - y]
      /\ x < y => got = r.quoted * Scale[y - x]
  BY <1>2, Converted
<1>5. need <= got
  <2>1. ~(need > got)
    BY DEF QuoteBrings, InSource, Lack
  <2> HIDE DEF need, got
  <2> QED
    BY <1>3, <1>4, <2>1
<1>6. PICK amount \in Amount : r.required = RequiredTopup(need, BridgingFee(need, ConvertAmount(amount, x, y)))
  BY DEF RequiredIsThere, InSource, Lack
<1> DEFINE back == ConvertAmount(amount, x, y)
           fee == BridgingFee(need, back)
<1>7. back \in Nat
  BY Converted
<1>8. r.funds.balance \in Nat /\ ~(r.funds.balance < r.required)
  BY BoundAssumption DEF RequiredIsThere, Amount
<1> HIDE DEF x, y, lack, need, got, back
<1>9. r.quoted > lack - (IF x - y > 0 THEN Scale[x - y] ELSE 1)
  <2>1. CASE x < y
    <3>1. Scale[y - x] \in Nat \ {0}
      BY <1>1, <2>1, ScaleIs
    <3>2. lack * Scale[y - x] <= r.quoted * Scale[y - x]
      BY <1>3, <1>4, <1>5, <2>1
    <3>3. lack <= r.quoted
      BY <1>2, <3>1, <3>2, ScaledAtLeast
    <3> QED
      BY <1>1, <1>2, <2>1, <3>3
  <2>2. CASE x >= y
    <3>1. Scale[x - y] \in Nat \ {0} /\ (x = y => Scale[x - y] = 1)
      <4>1. x - y \in Nat /\ (x = y => x - y = 0)
        BY <1>1, <2>2
      <4> QED
        BY <4>1, ScaleIs
    <3>2. lack \div Scale[x - y] <= r.quoted \div Scale[x - y]
      BY <1>3, <1>4, <1>5, <2>2
    <3>3. r.quoted > lack - Scale[x - y]
      BY <1>2, <3>1, <3>2, ConvertAtLeast
    <3>4. CASE x = y
      <4>1. ~ (x - y > 0)
        BY <1>1, <3>4
      <4> QED
        BY <3>1, <3>3, <3>4, <4>1
    <3>5. CASE x # y
      <4>1. x - y > 0
        BY <1>1, <2>2, <3>5
      <4> QED
        BY <3>3, <4>1
    <3> QED
      BY <3>4, <3>5
  <2> QED
    BY <1>1, <2>1, <2>2
<1>10. fee \in Nat /\ fee <= need
  BY <1>3, <1>7 DEF BridgingFee
<1>11. r.required = (fee * 250) \div 100 + need + fee /\ r.required >= need /\ r.required \in Nat
  <2>1. r.required = ((fee * 250) \div 100 + need + fee) % Word
    BY <1>6 DEF RequiredTopup, BridgingFeeSlippage, back
  <2> HIDE DEF fee
  <2> DEFINE cut == (fee * 250) \div 100
  <2>2. cut \in Nat /\ cut + need + fee <= 5 * need
    BY <1>3, <1>10, SlippageBounded
  <2>3. r.required = (cut + need + fee) % Word
    BY <2>1
  <2> HIDE DEF cut
  <2>4. cut + need + fee \in Nat /\ cut + need + fee < Word /\ cut + need + fee >= need
    BY <1>3, <1>10, <2>2, WordAssumption
  <2>5. r.required = cut + need + fee
    BY <2>3, <2>4, FitsUnwrapped
  <2> QED
    BY <2>4, <2>5 DEF cut
<1>12. AtLeast(r.funds.balance, y, r.required, y)
  <2>1. Scale[y - y] = 1
    <3>1. y - y = 0
      BY <1>1
    <3> QED
      BY <3>1, ScaleIs
  <2>2. r.required * Scale[y - y] = r.required
    BY <1>11, <2>1
  <2>3. r.funds.balance >= r.required
    BY <1>8, <1>11
  <2> QED
    BY <1>1, <2>2, <2>3 DEF AtLeast
<1> QED
  BY <1>9, <1>11, <1>12 DEF x, y, lack, need

\* check_bridging..., bungee.rs and mod.rs: a plan given out leaves the transfer
\* short of less than one unit of what is bridged, and bridges no more than its
\* funds were, for any tokens, amounts and quotes of which five times fit a word.
THEOREM PlansCoverTransfer ==
  ASSUME AmountsFit
  PROVE  SafeSpec => []PlanCoversTransfer
<1>1. RoutesInv => PlanCoversTransfer
  <2> SUFFICES ASSUME RoutesInv, NEW p \in Planner, plan[p].reply = "available", Bungee(p)
               PROVE  /\ plan[p].read + plan[p].quoted > plan[p].req.value - SourceUnit(p)
                      /\ AtLeast(plan[p].funds.balance, plan[p].funds.asset.decimals,
                                 plan[p].required, plan[p].funds.asset.decimals)
                      /\ plan[p].required >= SourceTopup(p)
    BY DEF PlanCoversTransfer
  <2> DEFINE r == plan[p]
             x == r.req.asset.decimals
             y == r.funds.asset.decimals
             unit == IF x - y > 0 THEN Scale[x - y] ELSE 1
  <2>1. /\ r.req.asset \in Asset /\ r.funds.asset \in Asset
        /\ r.req.value \in Amount /\ r.read \in Amount /\ r.read < r.req.value
        /\ RequiredIsThere(r) /\ QuoteBrings(r)
    BY TargetFacts DEF RoutesInv, RouteInv, Given, Bungee, OfBungee
  <2>2. /\ r.quoted > (r.req.value - r.read) - unit
        /\ AtLeast(r.funds.balance, y, r.required, y)
        /\ r.required >= ConvertAmount(r.req.value - r.read, x, y)
    BY <2>1, Covered
  <2>3. r.req.value \in Nat /\ r.read \in Nat /\ r.quoted \in Nat
    BY <2>1, BoundAssumption DEF Amount, QuoteBrings
  <2>4. unit \in Int
    <3>1. x \in Nat /\ y \in Nat
      BY <2>1, AssetAssumption
    <3> HIDE DEF x, y
    <3>2. x - y > 0 => Scale[x - y] \in Nat \ {0}
      BY <3>1, ScaleIs
    <3> QED
      BY <3>2
  <2>5. r.read + r.quoted > r.req.value - unit
    <3> HIDE DEF unit
    <3> QED
      BY <2>2, <2>3, <2>4
  <2> QED
    BY <2>2, <2>5 DEF SourceUnit, SourceTopup, Topup
<1> QED
  BY <1>1, RoutesInvariance, PTL

=============================================================================
