--------------------------- MODULE RpcProxyProofs ---------------------------
(***************************************************************************)
(* Proofs about RpcProxy, for any providers, tables, priorities, inputs    *)
(* and outcomes that satisfy its assumptions, and any number of requests:  *)
(*                                                                         *)
(*   ProxyTypes             the shapes of requests, weights and counters   *)
(*   ProxyCallsAreRouted    whom a request may be sent to                  *)
(*   ProxyUnavailableTried  what "unavailable" means                       *)
(*                                                                         *)
(* A request in the loop has a line of providers: those it has called, then*)
(* those in its queue.  A draw fixes the line, with all it has to satisfy, *)
(* and each call moves a provider from the queue to the calls: the line    *)
(* stays, so that an empty queue means the whole line was called.  That a  *)
(* draw is as long as the budget allows needs a weight that is a number,   *)
(* whatever the updater has stored meanwhile: the types of the metrics.    *)
(***************************************************************************)
EXTENDS RpcProxy, FiniteSetTheorems, SequenceTheorems, TLAPS

-----------------------------------------------------------------------------
(* Weights. *)

Counter == [ok : 0..MaxCount, failed : 0..MaxCount]

LEMMA AvailabilityCounts ==
  ASSUME NEW m \in [Chain -> [Provider -> Counter]], NEW p \in Provider
  PROVE  ProviderAvailability(m, p) \in Availability
<1> DEFINE Pair == Chain \X (1..MaxCount)
           A == {x \in Pair : x[2] <= m[x[1]][p].ok}
           B == {x \in Pair : x[2] <= m[x[1]][p].failed}
<1>1. IsFiniteSet(Chain) /\ MaxCount \in Nat
  BY SetsAssumption, BoundsAssumption
<1>2. IsFiniteSet(1..MaxCount)
  <2>1. 1 \in Int /\ MaxCount \in Int
    BY <1>1
  <2> QED
    BY <2>1, FS_Interval
<1>3. IsFiniteSet(Pair)
  BY <1>1, <1>2, FS_Product
<1>4. A \subseteq Pair /\ B \subseteq Pair
  OBVIOUS
<1>5. ProviderAvailability(m, p) = [ok |-> Cardinality(A), failed |-> Cardinality(B)]
  BY DEF ProviderAvailability
<1> HIDE DEF Pair, A, B
<1>6. Cardinality(A) \in Nat /\ Cardinality(B) \in Nat
  <2>1. IsFiniteSet(A) /\ IsFiniteSet(B)
    BY <1>3, <1>4, FS_Subset
  <2> QED
    BY <2>1, FS_CardinalityType
<1> QED
  BY <1>5, <1>6 DEF Availability

LEMMA WeightIsNumber ==
  ASSUME NEW a \in Availability, NEW b \in Availability, NEW n \in 0..MaxPriority
  PROVE  Scaled(ChainWeight(a, b), n) \in Nat
<1>1. /\ a.ok \in Nat /\ a.failed \in Nat /\ b.ok \in Nat /\ b.failed \in Nat
  BY DEF Availability
<1>2. Total(a) \in Nat /\ Total(b) \in Nat
  BY <1>1 DEF Total
<1> DEFINE num(x) == IF Total(x) = 0 THEN 1 ELSE x.ok
           den(x) == IF Total(x) = 0 THEN 1 ELSE Total(x)
<1>3. num(a) \in Nat /\ num(b) \in Nat /\ den(a) \in Nat \ {0} /\ den(b) \in Nat \ {0}
  BY <1>1, <1>2
<1>4. ChainWeight(a, b) = (num(a) * num(b) * PerfectWeight) \div (den(a) * den(b))
  BY DEF ChainWeight
<1> HIDE DEF num, den
<1>5. num(a) * num(b) * PerfectWeight \in Nat
  BY <1>3 DEF PerfectWeight
<1>6. den(a) * den(b) \in Nat \ {0}
  BY <1>3
<1>7. ChainWeight(a, b) \in Nat
  <2> DEFINE x == num(a) * num(b) * PerfectWeight
             y == den(a) * den(b)
  <2>1. x \in Nat /\ y \in Nat \ {0} /\ ChainWeight(a, b) = x \div y
    BY <1>4, <1>5, <1>6
  <2> HIDE DEF x, y
  <2> QED
    BY <2>1
<1> DEFINE w == ChainWeight(a, b)
<1>8. w * n \in Nat /\ n \in Nat
  BY <1>7 DEF MaxPriority
<1> HIDE DEF w
<1> QED
  BY <1>8 DEF Scaled, MaxPriority, w

LEMMA NewWeights ==
  ASSUME NEW m \in [Chain -> [Provider -> Counter]], NEW c \in Chain, NEW p \in Provider
  PROVE  NewWeight(m, c, p) \in Nat
<1>1. ProviderAvailability(m, p) \in Availability
  BY AvailabilityCounts
<1>2. m[c][p] \in Availability
  BY BoundsAssumption DEF Counter, Availability
<1>3. Priority[c][p] \in 0..MaxPriority
  BY TablesAssumption
<1> QED
  BY <1>1, <1>2, <1>3, WeightIsNumber DEF NewWeight

-----------------------------------------------------------------------------
(* Draws. *)

LEMMA LeastIs ==
  ASSUME NEW m \in Nat, NEW n \in Nat
  PROVE  Least(m, n) \in Nat /\ Least(m, n) <= m /\ Least(m, n) <= n
BY DEF Least

\* There are n different members to draw.
LEMMA DrawsExist ==
  ASSUME NEW S, IsFiniteSet(S), NEW n \in Nat, n <= Cardinality(S)
  PROVE  Draws(S, n) # {}
<1> DEFINE N == Cardinality(S)
<1>1. N \in Nat /\ ExistsBijection(1..N, S)
  BY FS_CardinalityType
<1>2. PICK f : f \in Bijection(1..N, S)
  BY <1>1 DEF ExistsBijection
<1>3. f \in [1..N -> S] /\ \A i, j \in 1..N : f[i] = f[j] => i = j
  BY <1>2 DEF Bijection, Injection, IsInjective
<1> DEFINE s == [k \in 1..n |-> f[k]]
<1>4. \A k \in 1..n : k \in 1..N
  BY <1>1
<1>5. s \in [1..n -> S]
  BY <1>3, <1>4
<1>6. \A i, j \in 1..n : i # j => s[i] # s[j]
  BY <1>3, <1>4
<1> HIDE DEF s
<1> QED
  BY <1>5, <1>6 DEF Draws

\* Every provider of the chain can be drawn, whatever its weight.
LEMMA WhatIsDrawn ==
  ASSUME NEW c \in Chain, \A p \in Resolver[c] : weight[c][p] \in Nat
  PROVE  LET n == Least(MaxCalls, Cardinality(Resolver[c]))
         IN  /\ n \in Nat /\ n <= MaxCalls
             /\ Resolver[c] # {} => RpcDraws(WeightsOf(c), MaxCalls) # {}
             /\ \A s \in RpcDraws(WeightsOf(c), MaxCalls) : s \in Draws(Resolver[c], n)
<1> DEFINE S == Resolver[c]
           W == WeightsOf(c)
           drawable == {p \in DOMAIN W : IndexWeight(W[p]) > 0}
           n == Least(MaxCalls, Cardinality(S))
<1>1. IsFiniteSet(S)
  BY SetsAssumption, TablesAssumption, FS_Subset
<1>2. Cardinality(S) \in Nat /\ MaxCalls \in Nat
  BY <1>1, FS_CardinalityType, BoundsAssumption
<1>3. n \in Nat /\ n <= MaxCalls /\ n <= Cardinality(S)
  BY <1>2, LeastIs
<1>4. drawable = S
  BY DEF WeightsOf, IndexWeight
<1>5. RpcDraws(W, MaxCalls) = IF drawable = {} THEN {} ELSE Draws(drawable, Least(MaxCalls, Cardinality(drawable)))
  BY DEF RpcDraws
<1> HIDE DEF S, W, drawable, n
<1>6. RpcDraws(W, MaxCalls) = IF S = {} THEN {} ELSE Draws(S, n)
  BY <1>4, <1>5 DEF n
<1>7. Draws(S, n) # {}
  BY <1>1, <1>3, DrawsExist
<1> QED
  BY <1>3, <1>6, <1>7 DEF S, W, n

-----------------------------------------------------------------------------
(* Requests. *)

\* The line of a request: the providers it has called in the loop, then those
\* it has yet to call.
InLine(q) == Len(LoopCalls(q)) + Len(q.queue)
Line(q) ==
  [k \in 1..InLine(q) |-> IF k <= Len(LoopCalls(q)) THEN LoopCalls(q)[k].provider
                          ELSE q.queue[k - Len(LoopCalls(q))]]

Lined(in, n, line) ==
  /\ n \in Nat /\ n <= MaxCalls
  /\ \A k \in 1..n : IF in.exact = NULL THEN line[k] \in Resolver[in.chain]
                     ELSE line[k] = in.exact /\ in.testing
  /\ \A j, k \in 1..n : line[j] = line[k] => j = k

\* How long the line of a request is.
Budget(in) ==
  IF in.exact = NULL THEN Least(MaxCalls, Cardinality(Resolver[in.chain])) ELSE 1

AllRefused(q) == \A i \in 1..Len(q.tried) : ~Acceptable(q.tried[i].out)

Fine(q) ==
  /\ q \in RequestRecord
  /\ q.pc \in {"session", "route", "loop"} => q.in \in Input /\ ~q.in.local /\ AllRefused(q) /\ q.reply = NULL
  /\ q.pc = "session" => ViaSession(q) /\ q.tried = <<>>
  /\ q.pc \in {"route", "loop"} /\ ViaSession(q) => q.tried # <<>>
  /\ q.pc = "route" => LoopCalls(q) = <<>>
  /\ q.pc \in {"session", "route"} => q.queue = <<>>
  /\ ViaSession(q) /\ q.tried # <<>> => q.tried[1].provider = SessionProvider[q.in.chain]
  /\ Lined(q.in, InLine(q), Line(q))
  /\ q.pc = "loop" \/ q.reply = "unavailable" => InLine(q) = Budget(q.in)
  /\ q.reply = "unavailable" => AllRefused(q) /\ q.queue = <<>>

LEMMA Lengths ==
  ASSUME NEW q \in RequestRecord
  PROVE  /\ q.tried \in Seq(Call) /\ q.queue \in Seq(Provider)
         /\ LoopCalls(q) \in Seq(Call) /\ Len(LoopCalls(q)) \in Nat /\ Len(q.queue) \in Nat
         /\ InLine(q) \in Nat
<1>1. q.tried \in Seq(Call) /\ q.queue \in Seq(Provider)
  BY DEF RequestRecord
<1>2. q.tried # <<>> => Tail(q.tried) \in Seq(Call)
  BY <1>1
<1>3. LoopCalls(q) \in Seq(Call)
  BY <1>1, <1>2 DEF LoopCalls
<1>4. Len(LoopCalls(q)) \in Nat /\ Len(q.queue) \in Nat
  BY <1>1, <1>3
<1> QED
  BY <1>1, <1>3, <1>4 DEF InLine

\* A request with no line.
LEMMA EmptyLine ==
  ASSUME NEW q \in RequestRecord, LoopCalls(q) = <<>>, q.queue = <<>>
  PROVE  InLine(q) = 0 /\ Lined(q.in, InLine(q), Line(q))
<1>1. InLine(q) = 0
  BY DEF InLine
<1> QED
  BY <1>1, BoundsAssumption DEF Lined

LEMMA IdleIsFine == Fine(Idle)
<1>1. Idle \in RequestRecord
  BY DEF Idle, RequestRecord
<1>2. LoopCalls(Idle) = <<>> /\ Idle.queue = <<>> /\ Idle.in = NULL /\ Idle.tried = <<>> /\ Idle.reply = NULL
  BY DEF LoopCalls, Idle, ViaSession
<1>3. NULL # "unavailable"
  BY SetsAssumption DEF Error
<1>4. Idle.pc = "idle"
  BY DEF Idle
<1>5. ~ViaSession(Idle)
  BY <1>2 DEF ViaSession
<1> QED
  BY <1>1, <1>2, <1>3, <1>4, <1>5, EmptyLine DEF Fine

\* A call in the loop takes a provider from the queue; the line stays.
LEMMA LineStays ==
  ASSUME NEW q \in RequestRecord, NEW q2 \in RequestRecord, NEW out \in Outcome, q.queue # <<>>,
         ViaSession(q) => q.tried # <<>>, q2.in = q.in, q2.queue = Tail(q.queue),
         q2.tried = Append(q.tried, [provider |-> Head(q.queue), out |-> out])
  PROVE  InLine(q2) = InLine(q) /\ Line(q2) = Line(q)
<1> DEFINE call == [provider |-> Head(q.queue), out |-> out]
           m == Len(LoopCalls(q))
<1>1. /\ q.tried \in Seq(Call) /\ q.queue \in Seq(Provider) /\ LoopCalls(q) \in Seq(Call)
      /\ m \in Nat /\ Len(q.queue) \in Nat
  BY Lengths
<1>2. /\ q2.tried \in Seq(Call) /\ Len(q2.tried) = Len(q.tried) + 1 /\ q2.tried # <<>>
      /\ q2.tried[Len(q.tried) + 1] = call /\ \A k \in 1..Len(q.tried) : q2.tried[k] = q.tried[k]
  <2>1. call \in Call
    BY <1>1 DEF Call
  <2> HIDE DEF call
  <2>2. q2.tried = Append(q.tried, call)
    BY DEF call
  <2> QED
    BY <1>1, <2>1, <2>2, AppendProperties
<1>3. ViaSession(q2) <=> ViaSession(q)
  BY DEF ViaSession
<1>4. /\ Len(LoopCalls(q2)) = m + 1
      /\ \A k \in 1..m : LoopCalls(q2)[k] = LoopCalls(q)[k]
      /\ LoopCalls(q2)[m + 1] = call
  <2>1. CASE ViaSession(q)
    <3>1. LoopCalls(q) = Tail(q.tried) /\ LoopCalls(q2) = Tail(q2.tried) /\ q.tried # <<>>
      BY <1>2, <1>3, <2>1 DEF LoopCalls
    <3>2. Len(q.tried) = m + 1 /\ \A k \in 1..m : LoopCalls(q)[k] = q.tried[k + 1]
      BY <1>1, <3>1
    <3>3. Len(LoopCalls(q2)) = m + 1 /\ \A k \in 1..(m + 1) : LoopCalls(q2)[k] = q2.tried[k + 1]
      BY <1>1, <1>2, <3>1, <3>2
    <3>4. /\ \A k \in 1..(m + 1) : q2.tried[k] = q.tried[k]
          /\ q2.tried[(m + 1) + 1] = call
      BY <1>2, <3>2
    <3> HIDE DEF m, call
    <3>5. ASSUME NEW k \in 1..m PROVE LoopCalls(q2)[k] = LoopCalls(q)[k]
      <4>1. k \in 1..(m + 1) /\ k + 1 \in 1..(m + 1)
        BY <1>1
      <4>2. LoopCalls(q2)[k] = q2.tried[k + 1]
        BY <3>3, <4>1
      <4>3. q2.tried[k + 1] = q.tried[k + 1]
        BY <3>4, <4>1
      <4> QED
        BY <3>2, <4>2, <4>3
    <3>6. LoopCalls(q2)[m + 1] = call
      <4>1. m + 1 \in 1..(m + 1)
        BY <1>1
      <4> QED
        BY <3>3, <3>4, <4>1
    <3> QED
      BY <3>3, <3>5, <3>6
  <2>2. CASE ~ViaSession(q)
    <3>1. LoopCalls(q) = q.tried /\ LoopCalls(q2) = q2.tried
      BY <1>3, <2>2 DEF LoopCalls
    <3> QED
      BY <1>2, <3>1
  <2> QED
    BY <2>1, <2>2
<1>5. /\ Len(q2.queue) = Len(q.queue) - 1 /\ Head(q.queue) = q.queue[1] /\ Len(q.queue) >= 1
      /\ \A k \in 1..(Len(q.queue) - 1) : q2.queue[k] = q.queue[k + 1]
  BY <1>1
<1>6. InLine(q2) = InLine(q) /\ InLine(q) = m + Len(q.queue) /\ InLine(q) \in Nat
  <2>1. InLine(q) = m + Len(q.queue) /\ InLine(q2) = (m + 1) + (Len(q.queue) - 1)
    BY <1>4, <1>5 DEF InLine
  <2> DEFINE L == Len(q.queue)
  <2>2. m \in Nat /\ L \in Nat
    BY <1>1
  <2>3. InLine(q) = m + L /\ InLine(q2) = (m + 1) + (L - 1)
    BY <2>1
  <2> HIDE DEF m, L
  <2>4. (m + 1) + (L - 1) = m + L /\ m + L \in Nat
    BY <2>2
  <2>5. InLine(q2) = InLine(q) /\ InLine(q) = m + L /\ InLine(q) \in Nat
    BY <2>3, <2>4
  <2> QED
    BY <2>5 DEF m, L
<1>7. ASSUME NEW k \in 1..InLine(q)
      PROVE  (IF k <= Len(LoopCalls(q2)) THEN LoopCalls(q2)[k].provider ELSE q2.queue[k - Len(LoopCalls(q2))]) =
             (IF k <= m THEN LoopCalls(q)[k].provider ELSE q.queue[k - m])
  <2>1. CASE k <= m
    <3>1. k \in 1..m /\ k <= m + 1
      BY <1>1, <1>6, <2>1
    <3> QED
      BY <1>4, <2>1, <3>1
  <2>2. CASE k = m + 1
    <3>1. ~(k <= m) /\ k - m = 1 /\ call.provider = q.queue[1]
      BY <1>1, <1>5, <2>2
    <3> QED
      BY <1>4, <2>2, <3>1
  <2>3. CASE k > m + 1
    <3>1. k - (m + 1) \in 1..(Len(q.queue) - 1) /\ (k - (m + 1)) + 1 = k - m
      BY <1>1, <1>6, <2>3
    <3>2. q2.queue[k - (m + 1)] = q.queue[k - m]
      BY <1>5, <3>1
    <3> QED
      BY <1>1, <1>4, <1>6, <2>3, <3>2
  <2>4. k \in Int /\ m \in Nat
    BY <1>1, <1>6
  <2> HIDE DEF m
  <2>5. k <= m \/ k = m + 1 \/ k > m + 1
    BY <2>4
  <2> QED
    BY <2>1, <2>2, <2>3, <2>5
<1> QED
  BY <1>6, <1>7 DEF Line

-----------------------------------------------------------------------------
(* The steps of a request. *)

LEMMA Replies ==
  /\ NULL \notin {"unavailable", "unsupported_chain", "unsupported_provider", "invalid_parameter"}
  /\ NULL \notin Provider /\ NULL \notin Input
BY SetsAssumption DEF Error

LEMMA AcceptableForSession ==
  ASSUME NEW out, ~SessionAcceptable(out)
  PROVE  ~Acceptable(out)
BY DEF SessionAcceptable, Acceptable

\* A request without calls, or with one to its session's provider.
LEMMA NoLoopYet ==
  ASSUME NEW q \in RequestRecord, q.queue = <<>>,
         q.tried = <<>> \/ (ViaSession(q) /\ Len(q.tried) = 1)
  PROVE  LoopCalls(q) = <<>> /\ InLine(q) = 0 /\ Lined(q.in, InLine(q), Line(q))
<1>1. q.tried \in Seq(Call)
  BY Lengths
<1>2. LoopCalls(q) = <<>>
  <2>1. CASE q.tried = <<>>
    BY <2>1 DEF LoopCalls
  <2>2. CASE ViaSession(q) /\ Len(q.tried) = 1
    <3>0. q.tried # <<>>
      BY <1>1, <2>2, EmptySeq
    <3>1. LoopCalls(q) = Tail(q.tried) /\ q.tried # <<>>
      BY <2>2, <3>0 DEF LoopCalls
    <3>2. Tail(q.tried) \in Seq(Call) /\ Len(Tail(q.tried)) = 0
      BY <1>1, <2>2, <3>1
    <3> QED
      BY <3>1, <3>2, EmptySeq
  <2> QED
    BY <2>1, <2>2
<1> QED
  BY <1>2, EmptyLine

LEMMA ReceiveFine ==
  ASSUME NEW in \in Input, NEW pc, NEW reply,
         \/ pc = "done" /\ reply \in {"local", "unsupported_provider"}
         \/ pc = "session" /\ ~in.local /\ in.session /\ SessionProvider[in.chain] \in Registered /\ reply = NULL
         \/ /\ pc = "route" /\ ~in.local /\ reply = NULL
            /\ ~(in.session /\ SessionProvider[in.chain] # NULL)
  PROVE  Fine([pc |-> pc, in |-> in, queue |-> <<>>, tried |-> <<>>, reply |-> reply])
<1> DEFINE q == [pc |-> pc, in |-> in, queue |-> <<>>, tried |-> <<>>, reply |-> reply]
<1>1. q \in RequestRecord
  BY DEF RequestRecord, Error
<1>2. /\ q.pc = pc /\ q.in = in /\ q.queue = <<>> /\ q.tried = <<>> /\ q.reply = reply
  OBVIOUS
<1> HIDE DEF q
<1>3. LoopCalls(q) = <<>> /\ InLine(q) = 0 /\ Lined(q.in, InLine(q), Line(q))
  BY <1>1, <1>2, NoLoopYet
<1>4. reply # "unavailable"
  BY Replies
<1>5. AllRefused(q)
  BY <1>2 DEF AllRefused
<1>6. in # NULL /\ (pc = "session" => SessionProvider[in.chain] # NULL)
  BY Replies, SetsAssumption
<1>7. q.pc = "session" => ViaSession(q)
  BY <1>2, <1>6 DEF ViaSession
<1>8. q.pc \in {"route", "loop"} => ~ViaSession(q)
  BY <1>2 DEF ViaSession
<1>9. Fine(q)
  BY <1>1, <1>2, <1>3, <1>4, <1>5, <1>7, <1>8 DEF Fine
<1> QED
  BY <1>9 DEF q

LEMMA ReceiveKeeps ==
  ASSUME NEW r \in Request, Receive(r)
  PROVE  \E q : Fine(q) /\ req' = [req EXCEPT ![r] = q]
<1>1. PICK in \in Input :
        LET fixed == SessionProvider[in.chain]
            start == [Idle EXCEPT !.in = in]
        IN  req' = [req EXCEPT ![r] =
              CASE in.local -> [start EXCEPT !.pc = "done", !.reply = "local"]
                [] ~in.local /\ in.session /\ fixed \in Registered
                     -> [start EXCEPT !.pc = "session"]
                [] ~in.local /\ in.session /\ fixed \in Provider \ Registered
                     -> [start EXCEPT !.pc = "done", !.reply = "unsupported_provider"]
                [] OTHER -> [start EXCEPT !.pc = "route"]]
  BY DEF Receive
<1> DEFINE fixed == SessionProvider[in.chain]
           q(pc, reply) == [pc |-> pc, in |-> in, queue |-> <<>>, tried |-> <<>>, reply |-> reply]
<1>2. fixed \in Provider \cup {NULL} /\ in.local \in BOOLEAN /\ in.session \in BOOLEAN
  BY SetsAssumption, TablesAssumption DEF AnyInput
<1>3. CASE in.local
  <2>1. req' = [req EXCEPT ![r] = q("done", "local")]
    BY <1>1, <1>3 DEF Idle
  <2>2. Fine(q("done", "local"))
    BY ReceiveFine
  <2> QED
    BY <2>1, <2>2
<1>4. CASE ~in.local /\ in.session /\ fixed \in Registered
  <2>1. req' = [req EXCEPT ![r] = q("session", NULL)]
    BY <1>1, <1>4 DEF Idle
  <2>2. Fine(q("session", NULL))
    BY <1>4, ReceiveFine
  <2> QED
    BY <2>1, <2>2
<1>5. CASE ~in.local /\ in.session /\ fixed \in Provider \ Registered
  <2>1. req' = [req EXCEPT ![r] = q("done", "unsupported_provider")]
    BY <1>1, <1>5 DEF Idle
  <2>2. Fine(q("done", "unsupported_provider"))
    BY ReceiveFine
  <2> QED
    BY <2>1, <2>2
<1>6. CASE ~in.local /\ ~(in.session /\ fixed # NULL)
  <2>1. req' = [req EXCEPT ![r] = q("route", NULL)]
    BY <1>1, <1>6, Replies, SetsAssumption DEF Idle
  <2>2. Fine(q("route", NULL))
    BY <1>6, ReceiveFine
  <2> QED
    BY <2>1, <2>2
<1> QED
  BY <1>2, <1>3, <1>4, <1>5, <1>6, SetsAssumption

\* A request after a step.
Now(q, pc, queue, tried, reply) ==
  [pc |-> pc, in |-> q.in, queue |-> queue, tried |-> tried, reply |-> reply]

LEMMA NowIs ==
  ASSUME NEW q \in RequestRecord, NEW pc, NEW queue, NEW tried, NEW reply
  PROVE  /\ [q EXCEPT !.pc = pc] = Now(q, pc, q.queue, q.tried, q.reply)
         /\ [q EXCEPT !.reply = reply] = Now(q, q.pc, q.queue, q.tried, reply)
         /\ [q EXCEPT !.queue = queue] = Now(q, q.pc, queue, q.tried, q.reply)
         /\ [q EXCEPT !.tried = tried] = Now(q, q.pc, q.queue, tried, q.reply)
BY DEF RequestRecord, Now

LEMMA NowFields ==
  ASSUME NEW q, NEW pc, NEW queue, NEW tried, NEW reply
  PROVE  LET n == Now(q, pc, queue, tried, reply)
         IN  n.pc = pc /\ n.in = q.in /\ n.queue = queue /\ n.tried = tried /\ n.reply = reply
BY DEF Now

LEMMA NowTyped ==
  ASSUME NEW q \in RequestRecord, NEW pc \in {"idle", "session", "route", "loop", "done"},
         NEW queue \in Seq(Provider), NEW tried \in Seq(Call),
         NEW reply \in Error \cup {"local", "provider", NULL}
  PROVE  Now(q, pc, queue, tried, reply) \in RequestRecord
BY DEF RequestRecord, Now

LEMMA SessionKeeps ==
  ASSUME NEW r \in Request, req[r] \in RequestRecord, Fine(req[r]), SessionCall(r)
  PROVE  \E q : Fine(q) /\ req' = [req EXCEPT ![r] = q]
<1> DEFINE p == req[r]
           c == req[r].in.chain
<1>1. /\ p \in RequestRecord /\ p.pc = "session" /\ p.in \in Input /\ ~p.in.local /\ p.reply = NULL
      /\ ViaSession(p) /\ p.tried = <<>> /\ p.queue = <<>>
  <2>1. p.pc = "session"
    BY DEF SessionCall
  <2> QED
    BY <2>1 DEF Fine
<1>2. PICK out \in Outcome :
        req' = [req EXCEPT ![r] =
          IF SessionAcceptable(out)
          THEN [@ EXCEPT !.pc = "done", !.tried = <<[provider |-> SessionProvider[c], out |-> out]>>, !.reply = "provider"]
          ELSE [@ EXCEPT !.pc = "route", !.tried = <<[provider |-> SessionProvider[c], out |-> out]>>]]
  BY DEF SessionCall
<1> DEFINE call == [provider |-> SessionProvider[c], out |-> out]
           q == IF SessionAcceptable(out)
                THEN Now(p, "done", p.queue, <<call>>, "provider")
                ELSE Now(p, "route", p.queue, <<call>>, p.reply)
<1>3. SessionProvider[c] \in Provider
  BY <1>1, TablesAssumption, SetsAssumption DEF ViaSession, AnyInput
<1>4. call \in Call
  BY <1>3 DEF Call
<1>5. /\ q \in RequestRecord /\ q.in = p.in /\ q.queue = <<>> /\ q.tried = <<call>>
      /\ SessionAcceptable(out) => q.pc = "done" /\ q.reply = "provider"
      /\ ~SessionAcceptable(out) => q.pc = "route" /\ q.reply = NULL
  <2>1. <<call>> \in Seq(Call) /\ p.queue \in Seq(Provider)
    BY <1>1, <1>4
  <2> HIDE DEF p, call
  <2>2. /\ Now(p, "done", p.queue, <<call>>, "provider") \in RequestRecord
        /\ Now(p, "route", p.queue, <<call>>, NULL) \in RequestRecord
    BY <1>1, <2>1, NowTyped
  <2> QED
    BY <1>1, <2>2, NowFields
<1>6. req' = [req EXCEPT ![r] = q]
  <2>1. /\ [p EXCEPT !.pc = "done", !.tried = <<call>>, !.reply = "provider"] =
             Now(p, "done", p.queue, <<call>>, "provider")
        /\ [p EXCEPT !.pc = "route", !.tried = <<call>>] =
             Now(p, "route", p.queue, <<call>>, p.reply)
    <3> HIDE DEF p, call
    <3>1. [p EXCEPT !.pc = "done", !.tried = <<call>>, !.reply = "provider"] =
            [[[p EXCEPT !.pc = "done"] EXCEPT !.tried = <<call>>] EXCEPT !.reply = "provider"]
      OBVIOUS
    <3>2. [p EXCEPT !.pc = "route", !.tried = <<call>>] =
            [[p EXCEPT !.pc = "route"] EXCEPT !.tried = <<call>>]
      OBVIOUS
    <3>3. /\ [p EXCEPT !.pc = "done"] = Now(p, "done", p.queue, p.tried, p.reply)
          /\ [p EXCEPT !.pc = "route"] = Now(p, "route", p.queue, p.tried, p.reply)
      BY <1>1, NowIs
    <3>4. /\ [Now(p, "done", p.queue, p.tried, p.reply) EXCEPT !.tried = <<call>>] =
               Now(p, "done", p.queue, <<call>>, p.reply)
          /\ [Now(p, "done", p.queue, <<call>>, p.reply) EXCEPT !.reply = "provider"] =
               Now(p, "done", p.queue, <<call>>, "provider")
          /\ [Now(p, "route", p.queue, p.tried, p.reply) EXCEPT !.tried = <<call>>] =
               Now(p, "route", p.queue, <<call>>, p.reply)
      BY DEF Now
    <3> QED
      BY <3>1, <3>2, <3>3, <3>4, Zenon
  <2> QED
    BY <1>2, <2>1
<1> HIDE DEF q, call, p
<1>7. ViaSession(q)
  BY <1>1, <1>5 DEF ViaSession
<1>8. Len(q.tried) = 1 /\ q.tried[1] = call /\ q.tried # <<>>
  BY <1>5
<1>9. LoopCalls(q) = <<>> /\ InLine(q) = 0 /\ Lined(q.in, InLine(q), Line(q))
  BY <1>5, <1>7, <1>8, NoLoopYet
<1>10. ~SessionAcceptable(out) => AllRefused(q)
  BY <1>8, AcceptableForSession DEF AllRefused, call
<1>11. call.provider = SessionProvider[q.in.chain]
  BY <1>5 DEF call, p
<1>12. Fine(q)
  BY <1>1, <1>5, <1>7, <1>8, <1>9, <1>10, <1>11, Replies DEF Fine
<1> QED
  BY <1>6, <1>12

\* A refused request keeps its empty line.
LEMMA RefusalFine ==
  ASSUME NEW p \in RequestRecord, Fine(p), p.pc = "route",
         NEW e \in {"unsupported_provider", "invalid_parameter", "unsupported_chain"}
  PROVE  Fine(Now(p, "done", p.queue, p.tried, e))
<1> DEFINE q == Now(p, "done", p.queue, p.tried, e)
<1>1. p.tried \in Seq(Call) /\ p.queue \in Seq(Provider)
  BY Lengths
<1>2. q \in RequestRecord
  BY <1>1, NowTyped DEF Error
<1>3. q.pc = "done" /\ q.in = p.in /\ q.queue = p.queue /\ q.tried = p.tried /\ q.reply = e
  BY NowFields
<1> HIDE DEF q
<1>4. LoopCalls(p) = <<>> /\ p.queue = <<>>
  BY DEF Fine
<1>5. (ViaSession(q) <=> ViaSession(p)) /\ LoopCalls(q) = LoopCalls(p)
  BY <1>3 DEF LoopCalls, ViaSession
<1>6. InLine(q) = 0 /\ Lined(q.in, InLine(q), Line(q))
  BY <1>2, <1>3, <1>4, <1>5, EmptyLine
<1>7. ViaSession(q) /\ q.tried # <<>> => q.tried[1].provider = SessionProvider[q.in.chain]
  BY <1>3, <1>5 DEF Fine
<1>8. Fine(q)
  BY <1>2, <1>3, <1>6, <1>7 DEF Fine
<1> QED
  BY <1>8 DEF q

LEMMA ListIs ==
  ASSUME NEW S, NEW n \in Nat, NEW s \in [1..n -> S]
  PROVE  s \in Seq(S) /\ Len(s) = n
<1>1. s \in Seq(S)
  BY SeqDef
<1> QED
  BY <1>1

\* The list a request goes through is its line.
LEMMA ListFine ==
  ASSUME NEW p \in RequestRecord, Fine(p), p.pc = "route", NEW n \in Nat, n <= MaxCalls, n = Budget(p.in),
         NEW s \in [1..n -> Provider],
         \A i, j \in 1..n : i # j => s[i] # s[j],
         \A k \in 1..n : IF p.in.exact = NULL THEN s[k] \in Resolver[p.in.chain]
                         ELSE s[k] = p.in.exact /\ p.in.testing
  PROVE  Fine(Now(p, "loop", s, p.tried, p.reply))
<1> DEFINE q == Now(p, "loop", s, p.tried, p.reply)
<1>1. p.tried \in Seq(Call) /\ s \in Seq(Provider) /\ Len(s) = n
  BY Lengths, ListIs
<1>2. /\ p.in \in Input /\ ~p.in.local /\ AllRefused(p) /\ p.reply = NULL
      /\ LoopCalls(p) = <<>>
      /\ ViaSession(p) => p.tried # <<>> /\ p.tried[1].provider = SessionProvider[p.in.chain]
  BY DEF Fine
<1>3. q \in RequestRecord
  BY <1>1, <1>2, NowTyped
<1>4. q.pc = "loop" /\ q.in = p.in /\ q.queue = s /\ q.tried = p.tried /\ q.reply = p.reply
  BY NowFields
<1> HIDE DEF q
<1>5. (ViaSession(q) <=> ViaSession(p)) /\ LoopCalls(q) = <<>>
  BY <1>2, <1>4 DEF LoopCalls, ViaSession
<1>6. Len(LoopCalls(q)) = 0 /\ InLine(q) = n
  BY <1>1, <1>4, <1>5 DEF InLine
<1>7. ASSUME NEW k \in 1..n PROVE Line(q)[k] = s[k]
  <2>1. ~(k <= 0) /\ k - 0 = k
    OBVIOUS
  <2> QED
    BY <1>4, <1>6, <2>1 DEF Line
<1>8. Lined(q.in, InLine(q), Line(q))
  <2>1. \A j, k \in 1..n : Line(q)[j] = Line(q)[k] => j = k
    BY <1>7
  <2>2. \A k \in 1..n : IF q.in.exact = NULL THEN Line(q)[k] \in Resolver[q.in.chain]
                        ELSE Line(q)[k] = q.in.exact /\ q.in.testing
    BY <1>4, <1>7
  <2> QED
    BY <1>6, <2>1, <2>2 DEF Lined
<1>9. AllRefused(q)
  BY <1>2, <1>4 DEF AllRefused
<1>10. q.reply # "unavailable"
  BY <1>2, <1>4, Replies
<1>11. Fine(q)
  BY <1>2, <1>3, <1>4, <1>5, <1>6, <1>8, <1>9, <1>10 DEF Fine
<1> QED
  BY <1>11 DEF q

\* Two fields of a request at once.
LEMMA TwoFields ==
  ASSUME NEW p \in RequestRecord, NEW a, NEW b
  PROVE  /\ [p EXCEPT !.pc = a, !.queue = b] = Now(p, a, b, p.tried, p.reply)
         /\ [p EXCEPT !.queue = a, !.tried = b] = Now(p, p.pc, a, b, p.reply)
<1> DEFINE n == Now(p, a, p.queue, p.tried, p.reply)
<1>1. [p EXCEPT !.pc = a] = n /\ [p EXCEPT !.queue = a] = Now(p, p.pc, a, p.tried, p.reply)
  BY NowIs
<1>2. /\ [n EXCEPT !.queue = b] = Now(p, a, b, p.tried, p.reply)
      /\ [Now(p, p.pc, a, p.tried, p.reply) EXCEPT !.tried = b] = Now(p, p.pc, a, b, p.reply)
  BY DEF Now
<1>3. /\ [p EXCEPT !.pc = a, !.queue = b] = [[p EXCEPT !.pc = a] EXCEPT !.queue = b]
      /\ [p EXCEPT !.queue = a, !.tried = b] = [[p EXCEPT !.queue = a] EXCEPT !.tried = b]
  OBVIOUS
<1> QED
  BY <1>1, <1>2, <1>3, Zenon

LEMMA RouteKeeps ==
  ASSUME NEW r \in Request, req \in [Request -> RequestRecord], Fine(req[r]), Route(r),
         weight \in [Chain -> [Provider -> Nat]]
  PROVE  \E q : Fine(q) /\ req' = [req EXCEPT ![r] = q]
<1> DEFINE p == req[r]
           in == req[r].in
           draws == RpcDraws(WeightsOf(in.chain), MaxCalls)
<1>1. p \in RequestRecord /\ p.pc = "route" /\ in \in Input /\ in.chain \in Chain
  BY SetsAssumption DEF Route, Fine, AnyInput
<1>2. ASSUME NEW e, req' = [req EXCEPT ![r].pc = "done", ![r].reply = e],
             e \in {"unsupported_provider", "invalid_parameter", "unsupported_chain"}
      PROVE  \E q : Fine(q) /\ req' = [req EXCEPT ![r] = q]
  <2>1. [req EXCEPT ![r].pc = "done", ![r].reply = e] =
          [req EXCEPT ![r] = [p EXCEPT !.pc = "done", !.reply = e]]
    OBVIOUS
  <2> HIDE DEF p
  <2>3. [p EXCEPT !.pc = "done", !.reply = e] = Now(p, "done", p.queue, p.tried, e)
    <3> DEFINE n == Now(p, "done", p.queue, p.tried, p.reply)
    <3>1. [p EXCEPT !.pc = "done", !.reply = e] = [[p EXCEPT !.pc = "done"] EXCEPT !.reply = e]
      OBVIOUS
    <3>2. [p EXCEPT !.pc = "done"] = n
      BY <1>1, NowIs
    <3>3. [n EXCEPT !.reply = e] = Now(p, "done", p.queue, p.tried, e)
      BY DEF Now
    <3> QED
      BY <3>1, <3>2, <3>3, Zenon
  <2>2. Fine(Now(p, "done", p.queue, p.tried, e))
    BY <1>1, <1>2, RefusalFine DEF p
  <2> QED
    BY <1>2, <2>1, <2>2, <2>3, Zenon
<1>3. ASSUME NEW s, req' = [req EXCEPT ![r].pc = "loop", ![r].queue = s],
             Fine(Now(p, "loop", s, p.tried, p.reply))
      PROVE  \E q : Fine(q) /\ req' = [req EXCEPT ![r] = q]
  <2>1. [req EXCEPT ![r].pc = "loop", ![r].queue = s] =
          [req EXCEPT ![r] = [p EXCEPT !.pc = "loop", !.queue = s]]
    OBVIOUS
  <2> HIDE DEF p
  <2>2. [p EXCEPT !.pc = "loop", !.queue = s] = Now(p, "loop", s, p.tried, p.reply)
    BY <1>1, TwoFields
  <2> QED
    BY <1>3, <2>1, <2>2, Zenon
<1>4. CASE in.exact # NULL /\ ExactRefused(in) # NULL /\
           req' = [req EXCEPT ![r].pc = "done", ![r].reply = ExactRefused(in)]
  <2>1. ExactRefused(in) \in {"unsupported_provider", "invalid_parameter"}
    BY <1>4 DEF ExactRefused
  <2> QED
    BY <1>2, <1>4, <2>1
<1>5. CASE in.exact # NULL /\ ExactRefused(in) = NULL /\
           req' = [req EXCEPT ![r].pc = "loop", ![r].queue = <<in.exact>>]
  <2>1. in.exact \in Registered /\ in.testing
    BY <1>1, <1>5, Replies, SetsAssumption DEF ExactRefused, AnyInput
  <2>2. in.exact \in Provider
    BY <2>1, SetsAssumption
  <2> DEFINE s == <<in.exact>>
  <2>3. s \in [1..1 -> Provider] /\ \A k \in 1..1 : s[k] = in.exact
    BY <2>2
  <2>4. Budget(in) = 1 /\ 1 <= MaxCalls /\ 1 \in Nat
    BY <1>5, BoundsAssumption DEF Budget
  <2> HIDE DEF s
  <2>5. /\ \A i, j \in 1..1 : i # j => s[i] # s[j]
        /\ \A k \in 1..1 : IF in.exact = NULL THEN s[k] \in Resolver[in.chain]
                           ELSE s[k] = in.exact /\ in.testing
    BY <1>5, <2>1, <2>3
  <2>6. Fine(Now(p, "loop", s, p.tried, p.reply))
    BY <1>1, <2>3, <2>4, <2>5, ListFine
  <2> QED
    BY <1>3, <1>5, <2>6 DEF s
<1>6. CASE in.exact = NULL /\ Resolver[in.chain] = {} /\
           req' = [req EXCEPT ![r].pc = "done", ![r].reply = "unsupported_chain"]
  BY <1>2, <1>6
<1> DEFINE n == Least(MaxCalls, Cardinality(Resolver[in.chain]))
<1>7. /\ n \in Nat /\ n <= MaxCalls
      /\ Resolver[in.chain] # {} => draws # {}
      /\ \A s \in draws : s \in Draws(Resolver[in.chain], n)
  <2>1. \A x \in Resolver[in.chain] : weight[in.chain][x] \in Nat
    BY <1>1, TablesAssumption, SetsAssumption
  <2> DEFINE c == in.chain
  <2>2. c \in Chain /\ \A x \in Resolver[c] : weight[c][x] \in Nat
    BY <1>1, <2>1
  <2> HIDE DEF c
  <2>3. LET m == Least(MaxCalls, Cardinality(Resolver[c]))
        IN  /\ m \in Nat /\ m <= MaxCalls
            /\ Resolver[c] # {} => RpcDraws(WeightsOf(c), MaxCalls) # {}
            /\ \A s \in RpcDraws(WeightsOf(c), MaxCalls) : s \in Draws(Resolver[c], m)
    BY <2>2, WhatIsDrawn
  <2> QED
    BY <2>3 DEF c
<1>8. ASSUME in.exact = NULL, NEW s \in draws, req' = [req EXCEPT ![r].pc = "loop", ![r].queue = s]
      PROVE  \E q : Fine(q) /\ req' = [req EXCEPT ![r] = q]
  <2>1. /\ s \in [1..n -> Resolver[in.chain]]
        /\ \A i, j \in 1..n : i # j => s[i] # s[j]
    BY <1>7, <1>8 DEF Draws
  <2>2. Resolver[in.chain] \subseteq Provider
    BY <1>1, TablesAssumption, SetsAssumption
  <2>3. n = Budget(in)
    BY <1>8 DEF Budget
  <2>4. /\ s \in [1..n -> Provider]
        /\ \A k \in 1..n : IF in.exact = NULL THEN s[k] \in Resolver[in.chain]
                           ELSE s[k] = in.exact /\ in.testing
    <3> HIDE DEF n
    <3> QED
      BY <1>8, <2>1, <2>2
  <2> HIDE DEF n
  <2>5. Fine(Now(p, "loop", s, p.tried, p.reply))
    BY <1>1, <1>7, <2>1, <2>3, <2>4, ListFine
  <2> QED
    BY <1>3, <1>8, <2>5
<1>9. \/ in.exact # NULL /\ ExactRefused(in) # NULL /\
         req' = [req EXCEPT ![r].pc = "done", ![r].reply = ExactRefused(in)]
      \/ in.exact # NULL /\ ExactRefused(in) = NULL /\
         req' = [req EXCEPT ![r].pc = "loop", ![r].queue = <<in.exact>>]
      \/ in.exact = NULL /\ Resolver[in.chain] = {} /\
         req' = [req EXCEPT ![r].pc = "done", ![r].reply = "unsupported_chain"]
      \/ Resolver[in.chain] # {} /\ draws = {}
      \/ in.exact = NULL /\ \E s \in draws : req' = [req EXCEPT ![r].pc = "loop", ![r].queue = s]
  BY DEF Route
<1> HIDE DEF in, draws, p, n
<1> QED
  BY <1>4, <1>5, <1>6, <1>7, <1>8, <1>9

\* A call takes the next provider of the line, and ends the request or not.
LEMMA LoopKeeps ==
  ASSUME NEW r \in Request, Fine(req[r]), LoopCall(r)
  PROVE  \E q : Fine(q) /\ req' = [req EXCEPT ![r] = q]
<1> DEFINE p == req[r]
<1>1. PICK out \in Outcome :
        LET call == [provider |-> Head(req[r].queue), out |-> out]
            rest == [req[r] EXCEPT !.queue = Tail(@), !.tried = Append(@, call)]
        IN  req' = [req EXCEPT ![r] = IF Acceptable(out)
                                      THEN [rest EXCEPT !.pc = "done", !.reply = "provider"]
                                      ELSE rest]
  BY DEF LoopCall
<1> DEFINE call == [provider |-> Head(p.queue), out |-> out]
           tried == Append(p.tried, call)
           queue == Tail(p.queue)
           q == IF Acceptable(out) THEN Now(p, "done", queue, tried, "provider")
                ELSE Now(p, p.pc, queue, tried, p.reply)
<1>2. /\ p \in RequestRecord /\ p.pc = "loop" /\ p.queue # <<>> /\ p.in \in Input /\ ~p.in.local
      /\ AllRefused(p) /\ p.reply = NULL
      /\ ViaSession(p) => p.tried # <<>> /\ p.tried[1].provider = SessionProvider[p.in.chain]
      /\ Lined(p.in, InLine(p), Line(p)) /\ InLine(p) = Budget(p.in)
  BY DEF LoopCall, Fine
<1>3. req' = [req EXCEPT ![r] = q]
  <2> DEFINE rest == [p EXCEPT !.queue = queue, !.tried = tried]
             done == Now(p, "done", queue, tried, p.reply)
  <2>1. req' = [req EXCEPT ![r] = IF Acceptable(out) THEN [rest EXCEPT !.pc = "done", !.reply = "provider"]
                                  ELSE rest]
    BY <1>1
  <2> HIDE DEF p, queue, tried
  <2>2. rest = Now(p, p.pc, queue, tried, p.reply)
    BY <1>2, TwoFields
  <2>3. /\ [Now(p, p.pc, queue, tried, p.reply) EXCEPT !.pc = "done"] = done
        /\ [done EXCEPT !.reply = "provider"] = Now(p, "done", queue, tried, "provider")
    BY DEF Now
  <2> HIDE DEF rest, done
  <2>4. [rest EXCEPT !.pc = "done", !.reply = "provider"] = [[rest EXCEPT !.pc = "done"] EXCEPT !.reply = "provider"]
    OBVIOUS
  <2>5. [rest EXCEPT !.pc = "done", !.reply = "provider"] = Now(p, "done", queue, tried, "provider")
    BY <2>2, <2>3, <2>4, Zenon
  <2> QED
    BY <2>1, <2>2, <2>5
<1>4. p.tried \in Seq(Call) /\ p.queue \in Seq(Provider) /\ queue \in Seq(Provider) /\ Head(p.queue) \in Provider
  BY <1>2, Lengths
<1>5. call \in Call
  BY <1>4 DEF Call
<1>6. /\ tried \in Seq(Call) /\ Len(tried) = Len(p.tried) + 1 /\ tried # <<>> /\ Len(p.tried) \in Nat
      /\ tried[Len(p.tried) + 1] = call /\ \A k \in 1..Len(p.tried) : tried[k] = p.tried[k]
  <2> HIDE DEF call, p
  <2> QED
    BY <1>4, <1>5, AppendProperties
<1>7. /\ q \in RequestRecord /\ q.in = p.in /\ q.queue = queue /\ q.tried = tried
      /\ Acceptable(out) => q.pc = "done" /\ q.reply = "provider"
      /\ ~Acceptable(out) => q.pc = "loop" /\ q.reply = NULL
  <2> HIDE DEF p, queue, tried
  <2>1. /\ Now(p, "done", queue, tried, "provider") \in RequestRecord
        /\ Now(p, "loop", queue, tried, NULL) \in RequestRecord
    BY <1>2, <1>4, <1>6, NowTyped
  <2> QED
    BY <1>2, <2>1, NowFields
<1> HIDE DEF q
<1>8. InLine(q) = InLine(p) /\ Line(q) = Line(p)
  <2>1. q.tried = Append(p.tried, [provider |-> Head(p.queue), out |-> out]) /\ q.queue = Tail(p.queue)
    BY <1>7
  <2> HIDE DEF p, call, tried, queue
  <2> QED
    BY <1>2, <1>7, <2>1, LineStays
<1> HIDE DEF p, queue
<1>9. ViaSession(q) <=> ViaSession(p)
  BY <1>7 DEF ViaSession
<1>10. ViaSession(q) => q.tried # <<>> /\ q.tried[1].provider = SessionProvider[q.in.chain]
  <2>1. ASSUME ViaSession(q) PROVE 1 \in 1..Len(p.tried)
    <3> DEFINE t == p.tried
    <3>1. t # <<>> /\ t \in Seq(Call)
      BY <1>2, <1>4, <1>9, <2>1
    <3> HIDE DEF t
    <3>2. Len(t) \in Nat \ {0}
      BY <3>1, EmptySeq
    <3> QED
      BY <3>2 DEF t
  <2> HIDE DEF tried
  <2> QED
    BY <1>2, <1>6, <1>7, <1>9, <2>1
<1>11. ~Acceptable(out) => AllRefused(q)
  <2> HIDE DEF tried
  <2>1. SUFFICES ASSUME ~Acceptable(out), NEW k \in 1..Len(q.tried)
                 PROVE  ~Acceptable(q.tried[k].out)
    BY DEF AllRefused
  <2>2. k \in 1..Len(p.tried) \/ k = Len(p.tried) + 1
    BY <1>6, <1>7
  <2>3. CASE k \in 1..Len(p.tried)
    BY <1>2, <1>6, <1>7, <2>3 DEF AllRefused
  <2>4. CASE k = Len(p.tried) + 1
    BY <1>6, <1>7, <2>1, <2>4
  <2> QED
    BY <2>2, <2>3, <2>4
<1>12. q.reply # "unavailable"
  BY <1>7, Replies
<1>13. Lined(q.in, InLine(q), Line(q)) /\ InLine(q) = Budget(q.in)
  BY <1>2, <1>7, <1>8
<1>14. Fine(q)
  BY <1>2, <1>7, <1>10, <1>11, <1>12, <1>13 DEF Fine
<1> QED
  BY <1>3, <1>14

LEMMA ExhaustedKeeps ==
  ASSUME NEW r \in Request, req \in [Request -> RequestRecord], Fine(req[r]), Exhausted(r)
  PROVE  \E q : Fine(q) /\ req' = [req EXCEPT ![r] = q]
<1> DEFINE p == req[r]
           q == Now(p, "done", p.queue, p.tried, "unavailable")
<1>1. /\ p \in RequestRecord /\ p.pc = "loop" /\ p.queue = <<>> /\ AllRefused(p)
      /\ ViaSession(p) /\ p.tried # <<>> => p.tried[1].provider = SessionProvider[p.in.chain]
      /\ Lined(p.in, InLine(p), Line(p)) /\ InLine(p) = Budget(p.in)
  BY DEF Exhausted, Fine
<1>2. req' = [req EXCEPT ![r] = q]
  <2>1. req' = [req EXCEPT ![r].pc = "done", ![r].reply = "unavailable"]
    BY DEF Exhausted
  <2>2. [req EXCEPT ![r].pc = "done", ![r].reply = "unavailable"] =
          [req EXCEPT ![r] = [p EXCEPT !.pc = "done", !.reply = "unavailable"]]
    OBVIOUS
  <2> DEFINE n == Now(p, "done", p.queue, p.tried, p.reply)
  <2>3. [p EXCEPT !.pc = "done", !.reply = "unavailable"] = [[p EXCEPT !.pc = "done"] EXCEPT !.reply = "unavailable"]
    OBVIOUS
  <2>4. [p EXCEPT !.pc = "done"] = n /\ [n EXCEPT !.reply = "unavailable"] = q
    <3> HIDE DEF p
    <3>1. [p EXCEPT !.pc = "done"] = n
      BY <1>1, NowIs
    <3>2. [n EXCEPT !.reply = "unavailable"] = q
      BY DEF Now
    <3> QED
      BY <3>1, <3>2
  <2> HIDE DEF p, q, n
  <2> QED
    BY <2>1, <2>2, <2>3, <2>4, Zenon
<1>3. p.tried \in Seq(Call) /\ p.queue \in Seq(Provider)
  BY <1>1, Lengths
<1>4. q \in RequestRecord /\ q.pc = "done" /\ q.in = p.in /\ q.queue = p.queue /\ q.tried = p.tried
      /\ q.reply = "unavailable"
  <2> HIDE DEF p
  <2>1. "done" \in {"idle", "session", "route", "loop", "done"} /\ "unavailable" \in Error
    BY DEF Error
  <2>2. q \in RequestRecord
    BY <1>1, <1>3, <2>1, NowTyped
  <2>3. q.pc = "done" /\ q.in = p.in /\ q.queue = p.queue /\ q.tried = p.tried
    BY DEF Now
  <2>4. q.reply = "unavailable"
    BY DEF Now
  <2> QED
    BY <2>2, <2>3, <2>4
<1> HIDE DEF p, q
<1>5. (ViaSession(q) <=> ViaSession(p)) /\ LoopCalls(q) = LoopCalls(p)
  BY <1>4 DEF LoopCalls, ViaSession
<1>6. InLine(q) = InLine(p) /\ Line(q) = Line(p)
  BY <1>4, <1>5 DEF InLine, Line
<1>7. AllRefused(q)
  BY <1>1, <1>4 DEF AllRefused
<1>8. Fine(q)
  BY <1>1, <1>4, <1>5, <1>6, <1>7 DEF Fine
<1> QED
  BY <1>2, <1>8

LEMMA LeaveKeeps ==
  ASSUME NEW r \in Request, Leave(r)
  PROVE  \E q : Fine(q) /\ req' = [req EXCEPT ![r] = q]
BY IdleIsFine DEF Leave

-----------------------------------------------------------------------------
(* The counters and the weights. *)

Metered ==
  /\ weight \in [Chain -> [Provider -> Nat]]
  /\ counts \in [Chain -> [Provider -> Counter]]
  /\ updating \in BOOLEAN
  /\ DOMAIN fresh \subseteq Pairs
  /\ \A cp \in DOMAIN fresh : fresh[cp] \in Nat

LEMMA PairsAre ==
  ASSUME NEW cp \in Pairs
  PROVE  cp[1] \in Chain /\ cp[2] \in Provider
BY DEF Pairs

LEMMA CountedIs ==
  ASSUME counts \in [Chain -> [Provider -> Counter]], NEW c \in Chain, NEW p \in Provider, NEW out
  PROVE  Counted(c, p, out) \in [Chain -> [Provider -> Counter]]
<1>1. ASSUME NEW n \in 0..MaxCount PROVE Capped(n) \in 0..MaxCount
  BY BoundsAssumption DEF Capped, Least
<1>2. counts[c][p].ok \in 0..MaxCount /\ counts[c][p].failed \in 0..MaxCount
  BY DEF Counter
<1> DEFINE ok == Capped(counts[c][p].ok)
           failed == Capped(counts[c][p].failed)
<1>3. ok \in 0..MaxCount /\ failed \in 0..MaxCount
  BY <1>1, <1>2
<1>4. Counted(c, p, out) = IF out.kind \in Failed THEN counts
                           ELSE IF CountsAsSuccess(out.status) THEN [counts EXCEPT ![c][p].ok = ok]
                           ELSE [counts EXCEPT ![c][p].failed = failed]
  BY DEF Counted
<1> HIDE DEF ok, failed
<1>5. /\ [counts EXCEPT ![c][p].ok = ok] \in [Chain -> [Provider -> Counter]]
      /\ [counts EXCEPT ![c][p].failed = failed] \in [Chain -> [Provider -> Counter]]
  BY <1>3 DEF Counter
<1> QED
  BY <1>4, <1>5

\* A request's step counts an answer or none.
LEMMA MeteredBySteps ==
  ASSUME Metered, UNCHANGED <<weight, updating, fresh>>,
         counts' = counts \/ \E c \in Chain, p \in Provider, out \in Outcome : counts' = Counted(c, p, out)
  PROVE  Metered'
<1>1. counts' \in [Chain -> [Provider -> Counter]]
  BY CountedIs DEF Metered
<1> QED
  BY <1>1 DEF Metered

LEMMA QueryKeeps ==
  ASSUME Metered, QueryMetrics
  PROVE  Metered'
<1>1. /\ updating' = TRUE /\ weight' = weight
      /\ fresh' = [cp \in Measured(counts) |-> NewWeight(counts, cp[1], cp[2])]
  BY DEF QueryMetrics
<1>2. PICK gone \in SUBSET Pairs :
        counts' = [c \in Chain |-> [p \in Provider |-> IF <<c, p>> \in gone THEN None ELSE counts[c][p]]]
  BY DEF QueryMetrics
<1>3. None \in Counter
  BY BoundsAssumption DEF None, Counter
<1>4. counts' \in [Chain -> [Provider -> Counter]]
  BY <1>2, <1>3 DEF Metered
<1>5. Measured(counts) \subseteq Pairs
  BY DEF Measured
<1>6. \A cp \in Measured(counts) : NewWeight(counts, cp[1], cp[2]) \in Nat
  BY <1>5, PairsAre, NewWeights DEF Metered
<1>7. DOMAIN fresh' \subseteq Pairs /\ \A cp \in DOMAIN fresh' : fresh'[cp] \in Nat
  BY <1>1, <1>5, <1>6
<1> QED
  BY <1>1, <1>4, <1>7 DEF Metered

LEMMA ApplyKeeps ==
  ASSUME Metered, ApplyWeight
  PROVE  Metered'
<1>1. PICK cp \in DOMAIN fresh :
        /\ weight' = [weight EXCEPT ![cp[1]][cp[2]] = fresh[cp]]
        /\ fresh' = [x \in DOMAIN fresh \ {cp} |-> fresh[x]]
  BY DEF ApplyWeight
<1>2. fresh[cp] \in Nat /\ cp[1] \in Chain /\ cp[2] \in Provider
  BY PairsAre DEF Metered
<1>3. weight' \in [Chain -> [Provider -> Nat]]
  BY <1>1, <1>2 DEF Metered
<1>4. DOMAIN fresh' \subseteq Pairs /\ \A x \in DOMAIN fresh' : fresh'[x] \in Nat
  BY <1>1 DEF Metered
<1> QED
  BY <1>3, <1>4 DEF ApplyWeight, Metered

-----------------------------------------------------------------------------
(* The invariant. *)

ProxyInv ==
  /\ req \in [Request -> RequestRecord] /\ Metered
  /\ \A r \in Request : Fine(req[r])

LEMMA ProxyInit == Init => ProxyInv
<1> SUFFICES ASSUME Init PROVE ProxyInv
  OBVIOUS
<1>1. req = [r \in Request |-> Idle]
  BY DEF Init
<1>2. Idle \in RequestRecord
  BY IdleIsFine DEF Fine
<1>3. req \in [Request -> RequestRecord] /\ \A r \in Request : Fine(req[r])
  BY <1>1, <1>2, IdleIsFine
<1>4. None \in Counter /\ \A n \in 0..MaxPriority : n \in Nat
  BY BoundsAssumption DEF None, Counter, MaxPriority
<1>5. weight \in [Chain -> [Provider -> Nat]]
  BY <1>4, TablesAssumption DEF Init
<1>6. counts \in [Chain -> [Provider -> Counter]]
  BY <1>4 DEF Init
<1>7. DOMAIN fresh = {} /\ updating \in BOOLEAN
  BY DEF Init
<1> QED
  BY <1>3, <1>5, <1>6, <1>7 DEF ProxyInv, Metered

LEMMA OneRequest ==
  ASSUME ProxyInv, Metered', NEW r \in Request, \E q : Fine(q) /\ req' = [req EXCEPT ![r] = q]
  PROVE  ProxyInv'
<1>1. PICK q : Fine(q) /\ req' = [req EXCEPT ![r] = q]
  OBVIOUS
<1>2. q \in RequestRecord
  BY <1>1 DEF Fine
<1>3. req' \in [Request -> RequestRecord]
  BY <1>1, <1>2 DEF ProxyInv
<1>4. \A x \in Request : Fine(req'[x])
  BY <1>1 DEF ProxyInv
<1> QED
  BY <1>3, <1>4 DEF ProxyInv

LEMMA ProxyStep == ProxyInv /\ [Next]_vars => ProxyInv'
<1> SUFFICES ASSUME ProxyInv, [Next]_vars PROVE ProxyInv'
  OBVIOUS
<1>1. /\ req \in [Request -> RequestRecord] /\ Metered /\ weight \in [Chain -> [Provider -> Nat]]
      /\ \A r \in Request : req[r] \in RequestRecord /\ Fine(req[r])
  BY DEF ProxyInv, Metered
<1>2. ASSUME NEW r \in Request, Receive(r) PROVE ProxyInv'
  BY <1>1, <1>2, ReceiveKeeps, OneRequest, MeteredBySteps DEF Receive
<1>3. ASSUME NEW r \in Request, SessionCall(r) PROVE ProxyInv'
  <2>1. req[r].in \in Input /\ SessionProvider[req[r].in.chain] # NULL /\ req[r].in.chain \in Chain
    BY <1>1, <1>3, SetsAssumption DEF SessionCall, Fine, ViaSession, AnyInput
  <2>2. SessionProvider[req[r].in.chain] \in Provider
    BY <2>1, TablesAssumption
  <2>3. \E c \in Chain, p \in Provider, out \in Outcome : counts' = Counted(c, p, out)
    BY <1>3, <2>1, <2>2 DEF SessionCall
  <2>4. UNCHANGED <<weight, updating, fresh>>
    BY <1>3 DEF SessionCall
  <2> QED
    BY <1>1, <1>3, <2>3, <2>4, SessionKeeps, OneRequest, MeteredBySteps
<1>4. ASSUME NEW r \in Request, Route(r) PROVE ProxyInv'
  <2>1. UNCHANGED <<weight, counts, updating, fresh>>
    BY <1>4 DEF Route
  <2> QED
    BY <1>1, <1>4, <2>1, RouteKeeps, OneRequest, MeteredBySteps
<1>5. ASSUME NEW r \in Request, LoopCall(r) PROVE ProxyInv'
  <2>1. req[r].in \in Input /\ req[r].in.chain \in Chain
    BY <1>1, <1>5, SetsAssumption DEF LoopCall, Fine, AnyInput
  <2>2. Head(req[r].queue) \in Provider
    <3>1. req[r].queue \in Seq(Provider) /\ req[r].queue # <<>>
      BY <1>1, <1>5, Lengths DEF LoopCall
    <3> QED
      BY <3>1
  <2>3. \E c \in Chain, p \in Provider, out \in Outcome : counts' = Counted(c, p, out)
    BY <1>5, <2>1, <2>2 DEF LoopCall
  <2>4. UNCHANGED <<weight, updating, fresh>>
    BY <1>5 DEF LoopCall
  <2> QED
    BY <1>1, <1>5, <2>3, <2>4, LoopKeeps, OneRequest, MeteredBySteps
<1>6. ASSUME NEW r \in Request, Exhausted(r) PROVE ProxyInv'
  BY <1>1, <1>6, ExhaustedKeeps, OneRequest, MeteredBySteps DEF Exhausted
<1>7. ASSUME NEW r \in Request, Leave(r) PROVE ProxyInv'
  <2>1. UNCHANGED <<weight, counts, updating, fresh>>
    BY <1>7 DEF Leave
  <2> QED
    BY <1>1, <1>7, <2>1, LeaveKeeps, OneRequest, MeteredBySteps
<1>8. CASE QueryMetrics
  BY <1>1, <1>8, QueryKeeps DEF ProxyInv, QueryMetrics
<1>9. CASE ApplyWeight
  BY <1>1, <1>9, ApplyKeeps DEF ProxyInv, ApplyWeight
<1>10. CASE EndRound
  BY <1>1, <1>10 DEF ProxyInv, Metered, EndRound
<1>11. CASE UNCHANGED vars
  BY <1>11 DEF ProxyInv, Metered, vars
<1> QED
  BY <1>2, <1>3, <1>4, <1>5, <1>6, <1>7, <1>8, <1>9, <1>10, <1>11 DEF Next, Step

LEMMA ProxyAlways == Spec => []ProxyInv
BY ProxyInit, ProxyStep, PTL DEF Spec

-----------------------------------------------------------------------------
(* The theorems. *)

\* The calls of a fine request are the beginning of its line.
LEMMA CallsInLine ==
  ASSUME NEW q, Fine(q)
  PROVE  /\ Len(LoopCalls(q)) \in Nat /\ Len(LoopCalls(q)) <= InLine(q)
         /\ q.queue = <<>> => Len(LoopCalls(q)) = InLine(q)
         /\ \A k \in 1..Len(LoopCalls(q)) : k \in 1..InLine(q) /\ LoopCalls(q)[k].provider = Line(q)[k]
<1>1. Len(LoopCalls(q)) \in Nat /\ Len(q.queue) \in Nat /\ InLine(q) = Len(LoopCalls(q)) + Len(q.queue)
  BY Lengths DEF Fine, InLine
<1> DEFINE l == Len(LoopCalls(q))
           n == Len(q.queue)
<1>2. l \in Nat /\ n \in Nat /\ InLine(q) = l + n
  BY <1>1
<1>3. q.queue = <<>> => n = 0
  OBVIOUS
<1> HIDE DEF l, n
<1>4. \A k \in 1..l : k \in 1..InLine(q) /\ k <= l
  BY <1>2
<1>5. l \in Nat /\ l <= InLine(q) /\ (q.queue = <<>> => l = InLine(q))
  BY <1>2, <1>3
<1> QED
  BY <1>4, <1>5 DEF Line, l

\* Requests, counters and weights keep their shapes: whatever the updater
\* works out from the metrics is a number a draw can use.
THEOREM ProxyTypes == Spec => []TypeOK
<1>1. ProxyInv => TypeOK
  BY DEF ProxyInv, Metered, TypeOK, Counter
<1> QED
  BY <1>1, ProxyAlways, PTL

\* rpc_call sends a request to its session's provider, then to at most
\* MaxCalls different providers of its chain, or to the one provider a testing
\* project asks for.
THEOREM ProxyCallsAreRouted == Spec => []CallsAreRouted
<1>1. ProxyInv => CallsAreRouted
  <2>1. SUFFICES ASSUME ProxyInv, NEW r \in Request
        PROVE  LET q == req[r]
                   loop == LoopCalls(q)
               IN  /\ ViaSession(q) /\ q.tried # <<>> =>
                        q.tried[1].provider = SessionProvider[q.in.chain]
                   /\ Len(loop) <= MaxCalls
                   /\ \A i, j \in 1..Len(loop) : i # j => loop[i].provider # loop[j].provider
                   /\ \A i \in 1..Len(loop) :
                        IF q.in.exact = NULL
                        THEN loop[i].provider \in Resolver[q.in.chain]
                        ELSE loop[i].provider = q.in.exact /\ q.in.testing
    BY DEF CallsAreRouted
  <2> DEFINE q == req[r]
             loop == LoopCalls(q)
  <2>2. Fine(q)
    BY <2>1 DEF ProxyInv
  <2>3. /\ ViaSession(q) /\ q.tried # <<>> => q.tried[1].provider = SessionProvider[q.in.chain]
        /\ Lined(q.in, InLine(q), Line(q))
    BY <2>2 DEF Fine
  <2> HIDE DEF q
  <2>4. /\ Len(loop) \in Nat /\ Len(loop) <= InLine(q)
        /\ \A k \in 1..Len(loop) : k \in 1..InLine(q) /\ loop[k].provider = Line(q)[k]
    BY <2>2, CallsInLine
  <2> HIDE DEF loop
  <2>5. Len(loop) <= MaxCalls
    BY <2>3, <2>4, BoundsAssumption DEF Lined
  <2>6. \A i, j \in 1..Len(loop) : i # j => loop[i].provider # loop[j].provider
    BY <2>3, <2>4 DEF Lined
  <2>7. \A i \in 1..Len(loop) :
          IF q.in.exact = NULL THEN loop[i].provider \in Resolver[q.in.chain]
          ELSE loop[i].provider = q.in.exact /\ q.in.testing
    BY <2>3, <2>4 DEF Lined
  <2> QED
    BY <2>3, <2>5, <2>6, <2>7 DEF q, loop
<1> QED
  BY <1>1, ProxyAlways, PTL

\* Different members of a list are as many as its places.
LEMMA DifferentAreCounted ==
  ASSUME NEW n \in Nat, NEW f, \A i, j \in 1..n : f[i] = f[j] => i = j
  PROVE  Cardinality({f[i] : i \in 1..n}) = n
<1> DEFINE T == {f[i] : i \in 1..n}
           g == [i \in 1..n |-> f[i]]
<1>1. g \in [1..n -> T] /\ (\A i, j \in 1..n : g[i] = g[j] => i = j) /\ \A t \in T : \E i \in 1..n : g[i] = t
  OBVIOUS
<1> HIDE DEF T, g
<1>2. g \in Bijection(1..n, T)
  BY <1>1 DEF Bijection, Injection, IsInjective, Surjection
<1>3. ExistsBijection(1..n, T)
  BY <1>2 DEF ExistsBijection
<1> QED
  BY <1>3, FS_CountingElements DEF T

\* rpc_call reports a chain as temporarily unavailable only after it called as
\* many different providers as the budget and the chain have, in vain, with
\* whatever weights the updater had stored by then.
THEOREM ProxyUnavailableTried == Spec => []UnavailableMeansTried
<1>1. ProxyInv => UnavailableMeansTried
  <2>1. SUFFICES ASSUME ProxyInv, NEW r \in Request, req[r].reply = "unavailable"
        PROVE  LET q == req[r]
                   called == {LoopCalls(q)[i].provider : i \in 1..Len(LoopCalls(q))}
               IN  /\ \A i \in 1..Len(q.tried) : ~Acceptable(q.tried[i].out)
                   /\ IF q.in.exact = NULL
                      THEN Cardinality(called) = Least(MaxCalls, Cardinality(Resolver[q.in.chain]))
                      ELSE called = {q.in.exact}
    BY DEF UnavailableMeansTried
  <2> DEFINE q == req[r]
             loop == LoopCalls(q)
             n == InLine(q)
             called == {loop[i].provider : i \in 1..Len(loop)}
  <2>2. Fine(q) /\ q.reply = "unavailable"
    BY <2>1 DEF ProxyInv
  <2>3. Lined(q.in, n, Line(q)) /\ n = Budget(q.in) /\ AllRefused(q) /\ q.queue = <<>>
    BY <2>2 DEF Fine
  <2> HIDE DEF q
  <2>4. Len(loop) = n /\ \A k \in 1..Len(loop) : k \in 1..n /\ loop[k].provider = Line(q)[k]
    BY <2>2, <2>3, CallsInLine
  <2>5. n \in Nat /\ \A j, k \in 1..n : Line(q)[j] = Line(q)[k] => j = k
    BY <2>3 DEF Lined
  <2> HIDE DEF loop, n
  <2>6. called = {Line(q)[i] : i \in 1..n}
    BY <2>4
  <2> DEFINE line == Line(q)
  <2>7. Cardinality(called) = n
    <3>1. n \in Nat /\ \A i, j \in 1..n : line[i] = line[j] => i = j
      BY <2>5
    <3> HIDE DEF line
    <3>2. Cardinality({line[i] : i \in 1..n}) = n
      BY <3>1, DifferentAreCounted
    <3> QED
      BY <2>6, <3>2, Zenon DEF line
  <2>8. ASSUME q.in.exact # NULL PROVE called = {q.in.exact}
    <3>1. n = 1
      BY <2>3, <2>8 DEF Budget
    <3>2. \A k \in 1..n : Line(q)[k] = q.in.exact
      BY <2>3, <2>8 DEF Lined
    <3>3. \A i \in 1..1 : line[i] = q.in.exact
      BY <3>1, <3>2
    <3> HIDE DEF line
    <3>4. {line[i] : i \in 1..1} = {q.in.exact}
      BY <3>3
    <3>5. called = {line[i] : i \in 1..1}
      BY <2>6, <3>1, Zenon DEF line
    <3> QED
      BY <3>4, <3>5
  <2> HIDE DEF called, line
  <2>9. /\ \A i \in 1..Len(q.tried) : ~Acceptable(q.tried[i].out)
        /\ IF q.in.exact = NULL
           THEN Cardinality(called) = Least(MaxCalls, Cardinality(Resolver[q.in.chain]))
           ELSE called = {q.in.exact}
    BY <2>3, <2>7, <2>8 DEF AllRefused, Budget
  <2> QED
    BY <2>9 DEF q, loop, called
<1> QED
  BY <1>1, ProxyAlways, PTL

=============================================================================
