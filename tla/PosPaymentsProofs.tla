------------------------- MODULE PosPaymentsProofs -------------------------
(***************************************************************************)
(* Proofs about PosPayments, for any batches of intents, decimals and      *)
(* widths that satisfy PosAssumption, and any number of calls:             *)
(*                                                                         *)
(*   PaymentsBuiltAsIntended  whatever order the builders end in           *)
(*   PaymentsSettledTruly     an outcome is reported only if it is one     *)
(*                                                                         *)
(* The inductive invariant PosInv has three parts.  BuildInv: a task that  *)
(* has ended has left, at its intent's place, the index of a transaction   *)
(* of that intent, and no other task has left that index.  ChainInv: nodes *)
(* catch up with executed transactions only, and only Tron's stay signed.  *)
(* CheckInv: a check is about a transaction that has left the wallet, and  *)
(* one that reads a receipt about one that is no longer just signed.       *)
(***************************************************************************)
EXTENDS PosPayments, SequenceTheorems, WellFoundedInduction, TLAPS

-----------------------------------------------------------------------------
(* Amounts. *)

LEMMA Least ==
  ASSUME NEW S \in SUBSET Nat, S # {}
  PROVE  \E x \in S : \A y \in S : x <= y
<1> DEFINE R == OpToRel(<, Nat)
<1>1. R = {ss \in Nat \X Nat : ss[1] < ss[2]}
  BY DEF OpToRel
<1>2. IsWellFoundedOn(R, Nat)
  BY NatLessThanWellFounded
<1> HIDE DEF R
<1>3. PICK x \in S : \A y \in S : ~ (<<y, x>> \in R)
  <2>1. S \subseteq Nat
    OBVIOUS
  <2> QED
    BY <1>2, <2>1, WFMin, Zenon
<1>4. ASSUME NEW y \in S PROVE x <= y
  <2>1. x \in Nat /\ y \in Nat
    OBVIOUS
  <2>2. y < x => <<y, x>> \in R
    BY <1>1, <2>1
  <2> QED
    BY <1>3, <2>1, <2>2
<1> QED
  BY <1>4

\* Induction, over a set of naturals.
LEMMA Induct ==
  ASSUME NEW S \in SUBSET Nat, 0 \in S, \A n \in S : n + 1 \in S
  PROVE  S = Nat
<1>1. SUFFICES ASSUME Nat \ S # {} PROVE FALSE
  OBVIOUS
<1>2. PICK x \in Nat \ S : \A y \in Nat \ S : x <= y
  BY <1>1, Least
<1>3. x - 1 \in S /\ x # 0
  BY <1>2
<1>4. (x - 1) + 1 \in S
  BY <1>3
<1> QED
  BY <1>2, <1>4

\* The first m + 1 powers of Unit.
Powers(m, f) ==
  /\ f \in [0..m -> Nat \ {0}] /\ f[0] = 1
  /\ \A k \in 1..m : f[k] = Unit * f[k - 1]

LEMMA MorePowers ==
  ASSUME NEW m \in Nat, NEW f, Powers(m, f)
  PROVE  \E g : Powers(m + 1, g)
<1> DEFINE g == [k \in 0..(m + 1) |-> IF k = m + 1 THEN Unit * f[m] ELSE f[k]]
<1>1. f[m] \in Nat \ {0} /\ f \in [0..m -> Nat \ {0}] /\ f[0] = 1 /\ \A k \in 1..m : f[k] = Unit * f[k - 1]
  BY DEF Powers
<1>2. Unit * f[m] \in Nat \ {0}
  BY <1>1, PosAssumption
<1>3. g \in [0..(m + 1) -> Nat \ {0}] /\ g[0] = 1
  BY <1>1, <1>2
<1>4. ASSUME NEW k \in 1..(m + 1) PROVE g[k] = Unit * g[k - 1]
  <2>1. CASE k = m + 1
    <3>1. g[k] = Unit * f[m] /\ g[m] = f[m] /\ k - 1 = m
      BY <2>1
    <3> QED
      BY <3>1
  <2>2. CASE k # m + 1
    <3>1. k \in 1..m /\ g[k] = f[k] /\ g[k - 1] = f[k - 1]
      BY <2>2
    <3> QED
      BY <1>1, <3>1
  <2> QED
    BY <2>1, <2>2
<1> HIDE DEF g
<1>5. Powers(m + 1, g)
  BY <1>3, <1>4 DEF Powers
<1> QED
  BY <1>5

LEMMA PowersExist == \A m \in Nat : \E f : Powers(m, f)
<1> DEFINE S == {m \in Nat : \E f : Powers(m, f)}
           f0 == [k \in 0..0 |-> 1]
<1>1. Powers(0, f0)
  BY DEF Powers
<1> HIDE DEF f0
<1>2. 0 \in S /\ \A m \in S : m + 1 \in S
  BY <1>1, MorePowers
<1>3. S \in SUBSET Nat
  OBVIOUS
<1> HIDE DEF S
<1>4. S = Nat
  BY <1>2, <1>3, Induct
<1> QED
  BY <1>4 DEF S

LEMMA PowersAgree ==
  ASSUME NEW m \in Nat, NEW n \in Nat, NEW f, NEW g, Powers(m, f), Powers(n, g),
         NEW k \in Nat, k <= m, k <= n
  PROVE  f[k] = g[k]
<1> DEFINE S == {i \in Nat : i <= m /\ i <= n => f[i] = g[i]}
<1>1. 0 \in S
  BY DEF Powers
<1>2. ASSUME NEW i \in S PROVE i + 1 \in S
  <2>1. SUFFICES ASSUME i + 1 <= m, i + 1 <= n PROVE f[i + 1] = g[i + 1]
    OBVIOUS
  <2>2. f[i] = g[i] /\ i + 1 \in 1..m /\ i + 1 \in 1..n /\ (i + 1) - 1 = i
    BY <2>1
  <2> QED
    BY <2>2 DEF Powers
<1>3. S \in SUBSET Nat
  OBVIOUS
<1> HIDE DEF S
<1>4. S = Nat
  BY <1>1, <1>2, <1>3, Induct
<1> QED
  BY <1>4 DEF S

\* The recursive definition of Places defines a function: it has these values.
LEMMA PlacesIs ==
  /\ Places[0] = 1
  /\ \A k \in Nat : Places[k] \in Nat \ {0}
<1> DEFINE p(n) == CHOOSE f : Powers(n, f)
           F == [n \in Nat |-> p(n)[n]]
<1>1. \A n \in Nat : Powers(n, p(n))
  BY PowersExist
<1> HIDE DEF p
<1>2. ASSUME NEW n \in Nat PROVE F[n] \in Nat \ {0} /\ F[n] = IF n = 0 THEN 1 ELSE Unit * F[n - 1]
  <2>1. Powers(n, p(n))
    BY <1>1
  <2>2. F[n] = p(n)[n] /\ F[n] \in Nat \ {0}
    BY <2>1 DEF Powers
  <2>3. CASE n = 0
    BY <2>1, <2>2, <2>3 DEF Powers
  <2>4. CASE n # 0
    <3>1. n - 1 \in Nat /\ n - 1 <= n /\ n \in 1..n
      BY <2>4
    <3>2. Powers(n - 1, p(n - 1)) /\ F[n - 1] = p(n - 1)[n - 1]
      BY <1>1, <3>1
    <3>3. p(n)[n - 1] = p(n - 1)[n - 1]
      BY <2>1, <3>1, <3>2, PowersAgree
    <3>4. p(n)[n] = Unit * p(n)[n - 1]
      BY <2>1, <3>1 DEF Powers
    <3> QED
      BY <2>2, <2>4, <3>2, <3>3, <3>4
  <2> QED
    BY <2>3, <2>4
<1>3. F = [k \in Nat |-> IF k = 0 THEN 1 ELSE Unit * F[k - 1]]
  BY <1>2
<1> HIDE DEF F
<1>4. Places = [k \in Nat |-> IF k = 0 THEN 1 ELSE Unit * Places[k - 1]]
  BY <1>3 DEF Places
<1>5. Places[0] = 1 /\ \A k \in Nat : Places[k + 1] = Unit * Places[k]
  BY <1>4
<1> DEFINE S == {k \in Nat : Places[k] \in Nat \ {0}}
<1>9. Unit \in Nat \ {0}
  BY PosAssumption
<1>6. 0 \in S /\ \A k \in S : k + 1 \in S
  BY <1>5, <1>9
<1>7. S \in SUBSET Nat
  OBVIOUS
<1> HIDE DEF S
<1>8. S = Nat
  BY <1>6, <1>7, Induct
<1> QED
  BY <1>5, <1>8 DEF S


LEMMA Divides ==
  ASSUME NEW x \in Nat, NEW d \in Nat \ {0}
  PROVE  (x \div d) * d <= x /\ x < ((x \div d) + 1) * d
OBVIOUS

-----------------------------------------------------------------------------
(* The invariant. *)

\* An intent a builder works on, and a transaction that is what it asks for.
Accepted(p) == p \in PaymentIntent /\ p.asset.reference \in DOMAIN Decimals /\ Valid(p)

Matches(t, p) ==
  LET asked == p.units * Places[Decimals[p.asset.reference]]
  IN  /\ t.ns = p.asset.ns /\ t.chain = p.asset.chain /\ t.token = p.asset.reference
      /\ t.from = p.sender.address /\ t.to = p.recipient.address
      /\ p.sender.chain = t.chain /\ p.recipient.chain = t.chain
      /\ p.units >= 0 =>
           t.amount * Places[p.scale] <= asked /\ asked < (t.amount + 1) * Places[p.scale]

\* A call under way, or answered with its transactions.
BuildFine(q, known) ==
  LET n == Len(q.intents)
  IN  /\ n \in Nat
      /\ q.left = [i \in 1..n |-> q.left[i]] /\ q.out = [i \in 1..n |-> q.out[i]]
      /\ \A i \in 1..n : Accepted(q.intents[i])
      /\ \A i \in 1..n : q.left[i] = <<>> =>
           q.out[i] \in 1..Len(known) /\ Matches(known[q.out[i]], q.intents[i])
      /\ \A i, j \in 1..n : q.left[i] = <<>> /\ q.left[j] = <<>> /\ q.out[i] = q.out[j] => i = j
      /\ q.pc = "built" => \A i \in 1..n : q.left[i] = <<>>

BuildRecord(q) == q = [pc |-> q.pc, intents |-> q.intents, left |-> q.left, out |-> q.out]

BuildInv ==
  /\ building = [b \in BuildCall |-> building[b]]
  /\ \A b \in BuildCall :
       /\ BuildRecord(building[b])
       /\ building[b].pc \in {"building", "built"} => BuildFine(building[b], txs)

OnChain == {"offered", "signed", "pool", "ok", "failed", "dropped", "expired"}
Asked == {p \in PaymentIntent : Accepted(p)}
Transactions == {TransactionRpc(p) : p \in Asked}

ChainInv ==
  /\ txs \in Seq(Transactions) /\ onChain \in Seq(OnChain) /\ Len(onChain) = Len(txs)
  /\ \A t \in caughtUp : t \in 1..Len(txs) /\ onChain[t] \in Executed
  /\ \A t \in 1..Len(txs) : onChain[t] = "signed" => txs[t].ns = "tron"

CheckRecord(k) == k = [pc |-> k.pc, id |-> k.id, tx |-> k.tx, status |-> k.status]

CheckFine(k, known, made) ==
  k.pc # "idle" =>
    /\ k.id \in 1..Len(known) /\ k.tx \in 1..Len(known) /\ made[k.tx] # "offered"
    /\ k.pc \in {"eip155", "solana", "fallback"} => known[k.tx].ns # "tron"
    /\ k.pc = "receipt" => made[k.tx] # "signed"

CheckInv ==
  /\ check = [c \in CheckCall |-> check[c]]
  /\ \A c \in CheckCall : CheckRecord(check[c]) /\ CheckFine(check[c], txs, onChain)

PosInv == BuildInv /\ ChainInv /\ CheckInv

\* What a step of anyone leaves of the transactions others know of.
Onward ==
  /\ Len(txs) \in Nat /\ Len(txs') \in Nat /\ Len(txs) <= Len(txs')
  /\ \A t \in 1..Len(txs) :
       /\ txs'[t] = txs[t]
       /\ onChain[t] # "offered" => onChain'[t] # "offered"
       /\ onChain[t] \notin {"offered", "signed"} => onChain'[t] # "signed"

-----------------------------------------------------------------------------
(* Builders. *)

\* The transaction of an intent is what the intent asks for.
LEMMA IntentIsMatched ==
  ASSUME NEW p, Accepted(p)
  PROVE  Matches(TransactionRpc(p), p) /\ TransactionRpc(p) \in Transactions
<1>1. p \in PaymentIntent /\ p.asset.reference \in DOMAIN Decimals /\ Valid(p)
  BY DEF Accepted
<1>2. p.units \in Int /\ p.scale \in Nat /\ Decimals[p.asset.reference] \in Nat
  BY <1>1, PosAssumption DEF PaymentIntent
<1>3. p.sender.chain = p.asset.chain /\ p.recipient.chain = p.asset.chain
  BY <1>1 DEF Valid
<1> DEFINE t == TransactionRpc(p)
<1>4. /\ t.ns = p.asset.ns /\ t.chain = p.asset.chain /\ t.token = p.asset.reference
      /\ t.from = p.sender.address /\ t.to = p.recipient.address /\ t.amount = ParseUnits(p)
  BY DEF TransactionRpc
<1>5. ASSUME p.units >= 0
      PROVE  LET asked == p.units * Places[Decimals[p.asset.reference]]
             IN  t.amount * Places[p.scale] <= asked /\ asked < (t.amount + 1) * Places[p.scale]
  <2> DEFINE m == Places[Decimals[p.asset.reference]]
             d == Places[p.scale]
  <2>1. m \in Nat \ {0} /\ d \in Nat \ {0}
    BY <1>2, PlacesIs
  <2>2. t.amount = (p.units * m) \div d
    BY <1>4, <1>5 DEF ParseUnits, Magnitude
  <2>3. p.units \in Nat
    BY <1>2, <1>5
  <2> HIDE DEF m, d, t
  <2>4. p.units * m \in Nat
    BY <2>1, <2>3
  <2>5. t.amount * d <= p.units * m /\ p.units * m < (t.amount + 1) * d
    BY <2>1, <2>2, <2>4, Divides
  <2> QED
    BY <2>5 DEF m, d
<1>6. t \in Transactions
  BY <1>1 DEF Transactions, Asked, Accepted
<1> HIDE DEF t
<1>7. Matches(t, p)
  BY <1>3, <1>4, <1>5 DEF Matches
<1> QED
  BY <1>6, <1>7 DEF t

\* What is known of the transactions stays so.
LEMMA BuildStays ==
  ASSUME NEW q, BuildFine(q, txs), Onward
  PROVE  BuildFine(q, txs')
<1>1. ASSUME NEW i \in 1..Len(q.intents), q.left[i] = <<>>
      PROVE  q.out[i] \in 1..Len(txs') /\ Matches(txs'[q.out[i]], q.intents[i])
  <2>1. q.out[i] \in 1..Len(txs) /\ Matches(txs[q.out[i]], q.intents[i])
    BY <1>1 DEF BuildFine
  <2>2. q.out[i] \in 1..Len(txs') /\ txs'[q.out[i]] = txs[q.out[i]]
    BY <2>1 DEF Onward
  <2> QED
    BY <2>1, <2>2
<1> QED
  BY <1>1 DEF BuildFine

\* A step of one call.
LEMMA OneBuild ==
  ASSUME BuildInv, Onward, NEW b \in BuildCall, NEW q, building' = [building EXCEPT ![b] = q],
         BuildRecord(q), q.pc \in {"building", "built"} => BuildFine(q, txs')
  PROVE  BuildInv'
<1>1. building' = [x \in BuildCall |-> building'[x]]
  BY DEF BuildInv
<1>2. ASSUME NEW x \in BuildCall
      PROVE  /\ BuildRecord(building'[x])
             /\ building'[x].pc \in {"building", "built"} => BuildFine(building'[x], txs')
  <2>1. CASE x = b
    BY <2>1 DEF BuildInv
  <2>2. CASE x # b
    <3>1. building'[x] = building[x]
      BY <2>2 DEF BuildInv
    <3> QED
      BY <3>1, BuildStays DEF BuildInv
  <2> QED
    BY <2>1, <2>2
<1> QED
  BY <1>1, <1>2 DEF BuildInv

LEMMA BuildsStay ==
  ASSUME BuildInv, Onward, UNCHANGED building
  PROVE  BuildInv'
BY BuildStays DEF BuildInv

LEMMA NothingMoves ==
  ASSUME ChainInv, UNCHANGED <<txs, onChain>>
  PROVE  Onward
BY DEF ChainInv, Onward

\* An intent that is valid has calls to make.
LEMMA StepsToTake ==
  ASSUME NEW p, Valid(p)
  PROVE  Steps(p) # <<>>
<1>1. CASE p.asset.ns = "eip155"
  BY <1>1 DEF Steps, EvmSteps
<1>2. CASE p.asset.ns = "solana"
  BY <1>2 DEF Steps, SolanaSteps
<1>3. CASE p.asset.ns = "tron"
  BY <1>3 DEF Steps, TronSteps
<1> QED
  BY <1>1, <1>2, <1>3 DEF Valid, SupportedNamespaces

LEMMA StartKeeps ==
  ASSUME PosInv, NEW b \in BuildCall, StartBuild(b)
  PROVE  BuildInv'
<1>1. Onward
  BY NothingMoves DEF PosInv, StartBuild
<1>2. CASE building' = [building EXCEPT ![b] = [IdleBuild EXCEPT !.pc = "failed"]]
  <2> DEFINE q == [IdleBuild EXCEPT !.pc = "failed"]
  <2>1. BuildRecord(q) /\ q.pc \notin {"building", "built"}
    BY DEF BuildRecord, IdleBuild
  <2> QED
    BY <1>1, <1>2, <2>1, OneBuild DEF PosInv
<1>3. CASE \E s \in Batches :
             /\ \A i \in 1..Len(s) : Valid(s[i])
             /\ building' = [building EXCEPT ![b] =
                  [pc |-> "building", intents |-> s, left |-> [i \in 1..Len(s) |-> Steps(s[i])],
                   out |-> [i \in 1..Len(s) |-> Absent]]]
  <2>1. PICK s \in Batches :
             /\ \A i \in 1..Len(s) : Valid(s[i])
             /\ building' = [building EXCEPT ![b] =
                  [pc |-> "building", intents |-> s, left |-> [i \in 1..Len(s) |-> Steps(s[i])],
                   out |-> [i \in 1..Len(s) |-> Absent]]]
    BY <1>3
  <2> DEFINE q == [pc |-> "building", intents |-> s, left |-> [i \in 1..Len(s) |-> Steps(s[i])],
                   out |-> [i \in 1..Len(s) |-> Absent]]
  <2>2. /\ s \in Seq(PaymentIntent) /\ Len(s) \in Nat
        /\ \A i \in 1..Len(s) : s[i] \in PaymentIntent /\ s[i].asset.reference \in DOMAIN Decimals
    BY PosAssumption
  <2>3. \A i \in 1..Len(s) : Accepted(s[i]) /\ Steps(s[i]) # <<>>
    BY <2>1, <2>2, StepsToTake DEF Accepted
  <2>4. BuildFine(q, txs')
    BY <2>2, <2>3 DEF BuildFine
  <2>5. BuildRecord(q)
    BY DEF BuildRecord
  <2>6. building' = [building EXCEPT ![b] = q]
    BY <2>1
  <2> HIDE DEF q
  <2> QED
    BY <1>1, <2>4, <2>5, <2>6, OneBuild DEF PosInv
<1> QED
  BY <1>2, <1>3 DEF StartBuild

LEMMA TwoFields ==
  ASSUME NEW q, BuildRecord(q), NEW left, NEW out
  PROVE  [q EXCEPT !.left = left, !.out = out] =
           [pc |-> q.pc, intents |-> q.intents, left |-> left, out |-> out]
<1>1. [q EXCEPT !.left = left] = [pc |-> q.pc, intents |-> q.intents, left |-> left, out |-> q.out]
  BY DEF BuildRecord
<1>2. [q EXCEPT !.left = left, !.out = out] = [[q EXCEPT !.left = left] EXCEPT !.out = out]
  OBVIOUS
<1>3. [[pc |-> q.pc, intents |-> q.intents, left |-> left, out |-> q.out] EXCEPT !.out = out] =
        [pc |-> q.pc, intents |-> q.intents, left |-> left, out |-> out]
  OBVIOUS
<1> QED
  BY <1>1, <1>2, <1>3, Zenon

LEMMA BuildStepKeeps ==
  ASSUME PosInv, NEW b \in BuildCall, NEW i \in DOMAIN building[b].left, BuildStep(b, i)
  PROVE  BuildInv' /\ ChainInv' /\ Onward
<1> DEFINE q == building[b]
           p == building[b].intents[i]
           rest == Tail(building[b].left[i])
<1>1. /\ q.pc = "building" /\ q.left[i] # <<>> /\ BuildRecord(q) /\ BuildFine(q, txs)
      /\ building = [x \in BuildCall |-> building[x]]
  BY DEF BuildStep, PosInv, BuildInv
<1>2. i \in 1..Len(q.intents) /\ Len(q.intents) \in Nat /\ Accepted(p)
  BY <1>1 DEF BuildFine
<1>3. CASE rest # <<>>
  <2> DEFINE q2 == [pc |-> q.pc, intents |-> q.intents, left |-> [q.left EXCEPT ![i] = rest], out |-> q.out]
  <2>1. building' = [building EXCEPT ![b].left[i] = rest] /\ UNCHANGED <<txs, onChain, caughtUp>>
    BY <1>3 DEF BuildStep
  <2>2. building' = [building EXCEPT ![b] = q2]
    <3>1. q2 = [q EXCEPT !.left = [q.left EXCEPT ![i] = rest]]
      BY <1>1 DEF BuildRecord
    <3>2. building' = [building EXCEPT ![b] = [q EXCEPT !.left = [q.left EXCEPT ![i] = rest]]]
      BY <2>1
    <3> QED
      BY <3>1, <3>2
  <2>3. Onward
    BY <2>1, NothingMoves DEF PosInv
  <2>4. BuildRecord(q2)
    BY DEF BuildRecord
  <2>5. /\ q2.pc = "building" /\ q2.intents = q.intents /\ q2.out = q.out
        /\ q2.left = [q.left EXCEPT ![i] = rest]
    BY <1>1
  <2> HIDE DEF q2
  <2>6. \A j \in 1..Len(q.intents) : q2.left[j] = <<>> => q.left[j] = <<>>
    BY <1>1, <1>2, <1>3, <2>5 DEF BuildFine
  <2>7. q2.left = [j \in 1..Len(q2.intents) |-> q2.left[j]]
    BY <1>1, <1>2, <2>5 DEF BuildFine
  <2>8. BuildFine(q2, txs)
    <3> HIDE DEF q
    <3>1. /\ Len(q2.intents) \in Nat /\ q2.out = [j \in 1..Len(q2.intents) |-> q2.out[j]]
          /\ \A j \in 1..Len(q2.intents) : Accepted(q2.intents[j])
      BY <1>1, <2>5 DEF BuildFine
    <3>2. ASSUME NEW j \in 1..Len(q2.intents), q2.left[j] = <<>>
          PROVE  q2.out[j] \in 1..Len(txs) /\ Matches(txs[q2.out[j]], q2.intents[j])
      BY <1>1, <2>5, <2>6, <3>2 DEF BuildFine
    <3>3. ASSUME NEW j \in 1..Len(q2.intents), NEW k \in 1..Len(q2.intents),
                 q2.left[j] = <<>>, q2.left[k] = <<>>, q2.out[j] = q2.out[k]
          PROVE  j = k
      <4>1. q.left[j] = <<>> /\ q.left[k] = <<>> /\ q.out[j] = q.out[k]
        BY <2>5, <2>6, <3>3
      <4> QED
        BY <1>1, <2>5, <4>1 DEF BuildFine
    <3> QED
      BY <2>5, <2>7, <3>1, <3>2, <3>3 DEF BuildFine
  <2>9. BuildFine(q2, txs')
    BY <2>1, <2>8
  <2>10. ChainInv'
    BY <2>1 DEF PosInv, ChainInv
  <2> QED
    BY <2>2, <2>3, <2>4, <2>9, <2>10, OneBuild DEF PosInv
<1>4. CASE rest = <<>>
  <2> DEFINE q2 == [pc |-> q.pc, intents |-> q.intents, left |-> [q.left EXCEPT ![i] = rest],
                    out |-> [q.out EXCEPT ![i] = Len(txs) + 1]]
             t == TransactionRpc(p)
  <2>1. /\ txs' = Append(txs, t) /\ onChain' = Append(onChain, "offered") /\ caughtUp' = caughtUp
        /\ building' = [building EXCEPT ![b].left[i] = rest, ![b].out[i] = Len(txs) + 1]
    BY <1>4 DEF BuildStep
  <2>2. building' = [building EXCEPT ![b] = q2]
    <3> DEFINE q3 == [q EXCEPT !.left = [q.left EXCEPT ![i] = rest],
                               !.out = [q.out EXCEPT ![i] = Len(txs) + 1]]
    <3>1. q2 = q3
      <4> HIDE DEF q, rest
      <4> QED
        BY <1>1, TwoFields
    <3>2. building' = [building EXCEPT ![b] = q3]
      BY <1>1, <2>1 DEF BuildRecord
    <3> QED
      BY <3>1, <3>2
  <2>3. t \in Transactions /\ Matches(t, p) /\ "offered" \in OnChain
    BY <1>2, IntentIsMatched DEF OnChain
  <2>4. BuildRecord(q2)
    BY DEF BuildRecord
  <2>5. /\ q2.pc = "building" /\ q2.intents = q.intents
        /\ q2.left = [q.left EXCEPT ![i] = rest] /\ q2.out = [q.out EXCEPT ![i] = Len(txs) + 1]
    BY <1>1
  <2> HIDE DEF q2, t
  <2>6. /\ txs' \in Seq(Transactions) /\ Len(txs) \in Nat /\ Len(txs') = Len(txs) + 1
        /\ txs'[Len(txs) + 1] = t /\ \A k \in 1..Len(txs) : txs'[k] = txs[k]
    BY <2>1, <2>3 DEF PosInv, ChainInv
  <2>7. /\ onChain' \in Seq(OnChain) /\ Len(onChain') = Len(txs')
        /\ onChain'[Len(txs) + 1] = "offered" /\ \A k \in 1..Len(txs) : onChain'[k] = onChain[k]
    BY <2>1, <2>3, <2>6 DEF PosInv, ChainInv
  <2>8. Onward
    BY <2>6, <2>7 DEF Onward
  <2>9. ChainInv'
    <3>1. \A x \in caughtUp' : x \in 1..Len(txs') /\ onChain'[x] \in Executed
      BY <2>1, <2>6, <2>7 DEF PosInv, ChainInv
    <3>2. \A x \in 1..Len(txs') : onChain'[x] = "signed" => txs'[x].ns = "tron"
      <4> SUFFICES ASSUME NEW x \in 1..Len(txs'), onChain'[x] = "signed" PROVE txs'[x].ns = "tron"
        OBVIOUS
      <4>1. x \in 1..Len(txs)
        BY <2>6, <2>7
      <4> QED
        BY <2>6, <2>7, <4>1 DEF PosInv, ChainInv
    <3> QED
      BY <2>6, <2>7, <3>1, <3>2 DEF ChainInv
  <2>10. BuildFine(q2, txs')
    <3>1. /\ q2.left = [j \in 1..Len(q2.intents) |-> q2.left[j]]
          /\ q2.out = [j \in 1..Len(q2.intents) |-> q2.out[j]]
      BY <1>1, <1>2, <2>5 DEF BuildFine
    <3>2. \A j \in 1..Len(q2.intents) : Accepted(q2.intents[j])
      BY <1>1, <2>5 DEF BuildFine
    <3>3. q2.out[i] = Len(txs) + 1
      BY <1>1, <1>2, <2>5 DEF BuildFine
    <3>4. ASSUME NEW j \in 1..Len(q2.intents), q2.left[j] = <<>>, j # i
          PROVE  q2.out[j] = q.out[j] /\ q.left[j] = <<>>
      BY <1>1, <1>2, <2>5, <3>4 DEF BuildFine
    <3>5. ASSUME NEW j \in 1..Len(q2.intents), q2.left[j] = <<>>, j # i
          PROVE  q2.out[j] \in 1..Len(txs) /\ Matches(txs[q2.out[j]], q2.intents[j])
      BY <1>1, <2>5, <3>4, <3>5 DEF BuildFine
    <3>6. ASSUME NEW j \in 1..Len(q2.intents), q2.left[j] = <<>>
          PROVE  q2.out[j] \in 1..Len(txs') /\ Matches(txs'[q2.out[j]], q2.intents[j])
      <4>1. CASE j = i
        BY <2>3, <2>5, <2>6, <3>3, <4>1
      <4>2. CASE j # i
        BY <2>6, <3>5, <3>6, <4>2
      <4> QED
        BY <4>1, <4>2
    <3>7. ASSUME NEW j \in 1..Len(q2.intents), NEW k \in 1..Len(q2.intents),
                 q2.left[j] = <<>>, q2.left[k] = <<>>, q2.out[j] = q2.out[k]
          PROVE  j = k
      <4>1. CASE j = i /\ k # i
        BY <2>6, <3>3, <3>5, <3>7, <4>1
      <4>2. CASE j # i /\ k = i
        BY <2>6, <3>3, <3>5, <3>7, <4>2
      <4>3. CASE j # i /\ k # i
        <5>1. q.left[j] = <<>> /\ q.left[k] = <<>> /\ q.out[j] = q.out[k]
          BY <3>4, <3>7, <4>3
        <5> HIDE DEF q
        <5> QED
          BY <1>1, <2>5, <5>1 DEF BuildFine
      <4> QED
        BY <4>1, <4>2, <4>3
    <3> QED
      BY <1>2, <2>5, <3>1, <3>2, <3>6, <3>7 DEF BuildFine
  <2> QED
    BY <2>2, <2>4, <2>8, <2>9, <2>10, OneBuild DEF PosInv
<1> QED
  BY <1>3, <1>4

LEMMA BuildFailsKeeps ==
  ASSUME PosInv, NEW b \in BuildCall, BuildFails(b) \/ FinishBuild(b) \/ EndBuild(b)
  PROVE  BuildInv'
<1>0. Onward
  BY NothingMoves DEF PosInv, BuildFails, FinishBuild, EndBuild
<1>1. CASE BuildFails(b)
  <2> DEFINE q == [IdleBuild EXCEPT !.pc = "failed"]
  <2>1. BuildRecord(q) /\ q.pc \notin {"building", "built"}
    BY DEF BuildRecord, IdleBuild
  <2> QED
    BY <1>0, <1>1, <2>1, OneBuild DEF PosInv, BuildFails
<1>2. CASE FinishBuild(b)
  <2> DEFINE q == building[b]
             q2 == [building[b] EXCEPT !.pc = "built"]
  <2>1. /\ building' = [building EXCEPT ![b] = q2] /\ txs' = txs
        /\ BuildRecord(q) /\ BuildFine(q, txs) /\ \A i \in DOMAIN q.left : q.left[i] = <<>>
    BY <1>2 DEF FinishBuild, JoinAll, PosInv, BuildInv
  <2>2. BuildRecord(q2) /\ q2.intents = q.intents /\ q2.left = q.left /\ q2.out = q.out
    BY <2>1 DEF BuildRecord
  <2> HIDE DEF q2
  <2>3. BuildFine(q2, txs)
    BY <2>1, <2>2 DEF BuildFine
  <2> QED
    BY <1>0, <2>1, <2>2, <2>3, OneBuild DEF PosInv
<1>3. CASE EndBuild(b)
  <2>1. BuildRecord(IdleBuild) /\ IdleBuild.pc \notin {"building", "built"}
    BY DEF BuildRecord, IdleBuild
  <2> QED
    BY <1>0, <1>3, <2>1, OneBuild DEF PosInv, EndBuild
<1> QED
  BY <1>1, <1>2, <1>3

-----------------------------------------------------------------------------
(* The wallet and the chains. *)

\* One transaction goes from one state to another.
LEMMA ChainMoves ==
  ASSUME ChainInv, NEW t \in 1..Len(txs), NEW x \in OnChain,
         onChain' = [onChain EXCEPT ![t] = x], UNCHANGED <<txs, caughtUp>>,
         onChain[t] \notin Executed, x = "signed" => txs[t].ns = "tron", x # "offered",
         onChain[t] # "offered" => x # "signed"
  PROVE  ChainInv' /\ Onward
<1>1. txs \in Seq(Transactions) /\ onChain \in Seq(OnChain) /\ Len(onChain) = Len(txs) /\ Len(txs) \in Nat
  BY DEF ChainInv
<1>2. /\ onChain' \in Seq(OnChain) /\ Len(onChain') = Len(txs)
      /\ \A k \in 1..Len(txs) : onChain'[k] = IF k = t THEN x ELSE onChain[k]
  BY <1>1, ExceptSeq
<1>3. Onward
  BY <1>1, <1>2 DEF Onward
<1>4. \A k \in caughtUp' : k \in 1..Len(txs') /\ onChain'[k] \in Executed
  BY <1>2 DEF ChainInv
<1>5. \A k \in 1..Len(txs') : onChain'[k] = "signed" => txs'[k].ns = "tron"
  BY <1>2 DEF ChainInv
<1> QED
  BY <1>1, <1>2, <1>3, <1>4, <1>5 DEF ChainInv

LEMMA ChainStepKeeps ==
  ASSUME ChainInv, NEW t \in DOMAIN txs, ChainNext(t)
  PROVE  ChainInv' /\ Onward /\ UNCHANGED <<building, check>>
<1>1. t \in 1..Len(txs) /\ onChain[t] \in OnChain
  BY DEF ChainInv
<1>2. CASE WalletActs(t)
  <2> DEFINE x == IF txs[t].ns = "tron" THEN "signed" ELSE "pool"
  <2>1. onChain' = [onChain EXCEPT ![t] = x] /\ onChain[t] = "offered" /\ UNCHANGED <<building, txs, caughtUp, check>>
    BY <1>2 DEF WalletActs
  <2>2. x \in OnChain /\ x # "offered" /\ (x = "signed" => txs[t].ns = "tron")
    BY DEF OnChain
  <2> HIDE DEF x
  <2> QED
    BY <1>1, <2>1, <2>2, ChainMoves DEF Executed
<1>3. CASE ChainExecutes(t)
  <2>1. PICK x \in Executed : onChain' = [onChain EXCEPT ![t] = x]
    BY <1>3 DEF ChainExecutes
  <2>2. x \in OnChain /\ x # "offered" /\ x # "signed"
    BY DEF Executed, OnChain
  <2>3. onChain[t] = "pool" /\ UNCHANGED <<building, txs, caughtUp, check>>
    BY <1>3 DEF ChainExecutes
  <2>4. onChain[t] \notin Executed
    BY <2>3 DEF Executed
  <2> QED
    BY <1>1, <2>1, <2>2, <2>3, <2>4, ChainMoves
<1>4. CASE PoolDrops(t)
  <2>1. /\ onChain' = [onChain EXCEPT ![t] = "dropped"] /\ onChain[t] = "pool"
        /\ UNCHANGED <<building, txs, caughtUp, check>>
    BY <1>4 DEF PoolDrops
  <2>2. "dropped" \in OnChain /\ onChain[t] \notin Executed
    BY <2>1 DEF OnChain, Executed
  <2> QED
    BY <1>1, <2>1, <2>2, ChainMoves
<1>5. CASE Expires(t)
  <2>1. /\ onChain' = [onChain EXCEPT ![t] = "expired"] /\ onChain[t] \in {"signed", "dropped"}
        /\ UNCHANGED <<building, txs, caughtUp, check>>
    BY <1>5 DEF Expires
  <2>2. "expired" \in OnChain /\ onChain[t] \notin Executed
    BY <2>1 DEF OnChain, Executed
  <2> QED
    BY <1>1, <2>1, <2>2, ChainMoves
<1>6. CASE NodesCatchUp(t)
  <2>1. /\ caughtUp' = caughtUp \cup {t} /\ onChain[t] \in Executed
        /\ UNCHANGED <<building, txs, onChain, check>>
    BY <1>6 DEF NodesCatchUp
  <2> QED
    BY <1>1, <2>1, NothingMoves DEF ChainInv
<1> QED
  BY <1>2, <1>3, <1>4, <1>5, <1>6 DEF ChainNext

-----------------------------------------------------------------------------
(* Checks. *)

LEMMA CheckStays ==
  ASSUME NEW k, CheckFine(k, txs, onChain), Onward
  PROVE  CheckFine(k, txs', onChain')
BY DEF CheckFine, Onward

LEMMA ChecksStay ==
  ASSUME CheckInv, Onward, UNCHANGED check
  PROVE  CheckInv'
BY CheckStays DEF CheckInv

LEMMA OneCheck ==
  ASSUME CheckInv, Onward, NEW c \in CheckCall, NEW k, check' = [check EXCEPT ![c] = k],
         CheckRecord(k), CheckFine(k, txs', onChain')
  PROVE  CheckInv'
<1>1. check' = [x \in CheckCall |-> check'[x]]
  BY DEF CheckInv
<1>2. ASSUME NEW x \in CheckCall
      PROVE  CheckRecord(check'[x]) /\ CheckFine(check'[x], txs', onChain')
  <2>1. CASE x = c
    BY <2>1 DEF CheckInv
  <2>2. CASE x # c
    <3>1. check'[x] = check[x]
      BY <2>2 DEF CheckInv
    <3> QED
      BY <3>1, CheckStays DEF CheckInv
  <2> QED
    BY <2>1, <2>2
<1> QED
  BY <1>1, <1>2 DEF CheckInv

\* A namespace a check may be for.
LEMMA OfANamespace ==
  ASSUME ChainInv, NEW t \in 1..Len(txs)
  PROVE  txs[t].ns \in SupportedNamespaces
<1>1. txs[t] \in Transactions
  BY DEF ChainInv
<1>2. PICK p \in Asked : txs[t] = TransactionRpc(p)
  BY <1>1 DEF Transactions
<1> QED
  BY <1>2 DEF Asked, Accepted, Valid, TransactionRpc

\* What a node says of an outcome is the outcome, on the chain it is asked for.
LEMMA NodesAreTrue ==
  ASSUME ChainInv, NEW t \in 1..Len(txs), NEW chain, NEW said \in NodeSays(t, chain)
  PROVE  /\ said \in Executed => said = onChain[t] /\ txs[t].chain = chain
         /\ said \in {"unknown", "pool", "ok", "failed"}
         /\ said # "unknown" => onChain[t] \notin {"offered", "signed"}
<1>1. CASE txs[t].chain # chain
  BY <1>1 DEF NodeSays, Executed
<1>2. CASE txs[t].chain = chain /\ t \in caughtUp
  BY <1>2 DEF NodeSays, Executed, ChainInv
<1>3. CASE txs[t].chain = chain /\ t \notin caughtUp
  BY <1>3 DEF NodeSays, Executed
<1> QED
  BY <1>1, <1>2, <1>3

\* What SettledTruly asks of an answer.
TrueAnswer(k) ==
  /\ k.status = "CONFIRMED" => onChain'[k.tx] = "ok"
  /\ k.status = "FAILED" => onChain'[k.tx] = "failed"
  /\ k.status \in {"CONFIRMED", "FAILED"} => txs[k.id].chain = txs[k.tx].chain
  /\ k.status # "error" => onChain'[k.tx] # "signed"

LEMMA AnsweredIs ==
  ASSUME NEW c \in CheckCall, check = [x \in CheckCall |-> check[x]], CheckRecord(check[c]),
         NEW status, Answer(c, status)
  PROVE  check' = [check EXCEPT ![c] =
           [pc |-> "answered", id |-> check[c].id, tx |-> check[c].tx, status |-> status]]
<1> DEFINE k == check[c]
           k1 == [pc |-> "answered", id |-> k.id, tx |-> k.tx, status |-> k.status]
           k2 == [pc |-> "answered", id |-> k.id, tx |-> k.tx, status |-> status]
<1>1. check' = [check EXCEPT ![c] = [[k EXCEPT !.pc = "answered"] EXCEPT !.status = status]]
  BY DEF Answer
<1>2. [k EXCEPT !.pc = "answered"] = k1
  BY DEF CheckRecord
<1>3. [k1 EXCEPT !.status = status] = k2
  OBVIOUS
<1> HIDE DEF k, k1, k2
<1>4. check' = [check EXCEPT ![c] = k2]
  BY <1>1, <1>2, <1>3
<1> QED
  BY <1>4 DEF k, k2

\* An answer about a transaction of which a node said so much, and which is not
\* just signed.
LEMMA AnswerIsTrue ==
  ASSUME PosInv, NEW c \in CheckCall, check[c].pc # "idle", UNCHANGED <<txs, onChain>>,
         onChain[check[c].tx] # "signed",
         NEW said, said \in NodeSays(check[c].tx, ChainOf(c)) \cup {"unknown"}, Answer(c, StatusOf(said))
  PROVE  CheckInv' /\ TrueAnswer(check'[c])
<1> DEFINE k == check[c]
           k2 == [pc |-> "answered", id |-> k.id, tx |-> k.tx, status |-> StatusOf(said)]
<1>1. /\ CheckRecord(k) /\ CheckFine(k, txs, onChain) /\ check = [x \in CheckCall |-> check[x]]
  BY DEF PosInv, CheckInv
<1>2. k.id \in 1..Len(txs) /\ k.tx \in 1..Len(txs) /\ onChain[k.tx] # "offered"
  BY <1>1 DEF CheckFine
<1>3. check' = [check EXCEPT ![c] = k2]
  BY <1>1, AnsweredIs
<1>4. Onward
  BY NothingMoves DEF PosInv
<1>5. CheckRecord(k2) /\ CheckFine(k2, txs', onChain')
  BY <1>2 DEF CheckRecord, CheckFine
<1>6. check'[c] = k2
  BY <1>1, <1>3
<1>7. said \in Executed => said = onChain[k.tx] /\ txs[k.tx].chain = txs[k.id].chain
  <2>1. SUFFICES ASSUME said \in Executed
                 PROVE  said = onChain[k.tx] /\ txs[k.tx].chain = ChainOf(c)
    BY DEF ChainOf
  <2>2. said \in NodeSays(k.tx, ChainOf(c))
    BY <2>1 DEF Executed
  <2> QED
    BY <1>2, <2>1, <2>2, NodesAreTrue DEF PosInv
<1>8. TrueAnswer(k2)
  BY <1>7 DEF TrueAnswer, StatusOf, Executed
<1> HIDE DEF k2
<1> QED
  BY <1>3, <1>4, <1>5, <1>6, <1>8, OneCheck DEF PosInv

\* A check goes on to another step.
LEMMA CheckGoesOn ==
  ASSUME PosInv, NEW c \in CheckCall, NEW pc, check[c].pc # "idle", check' = [check EXCEPT ![c].pc = pc],
         UNCHANGED <<txs, onChain>>, pc # "answered",
         pc \in {"eip155", "solana", "fallback"} => txs[check[c].tx].ns # "tron",
         pc = "receipt" => onChain[check[c].tx] # "signed"
  PROVE  CheckInv' /\ check'[c].pc # "answered"
<1> DEFINE k == check[c]
           k2 == [pc |-> pc, id |-> k.id, tx |-> k.tx, status |-> k.status]
<1>1. /\ CheckRecord(k) /\ CheckFine(k, txs, onChain) /\ check = [x \in CheckCall |-> check[x]]
  BY DEF PosInv, CheckInv
<1>2. check' = [check EXCEPT ![c] = k2]
  <2>1. check' = [check EXCEPT ![c] = [k EXCEPT !.pc = pc]]
    OBVIOUS
  <2>2. [k EXCEPT !.pc = pc] = k2
    BY <1>1 DEF CheckRecord
  <2> QED
    BY <2>1, <2>2
<1>3. Onward
  BY NothingMoves DEF PosInv
<1>4. CheckRecord(k2) /\ k2.pc = pc /\ k2.id = k.id /\ k2.tx = k.tx
  BY DEF CheckRecord
<1> HIDE DEF k2
<1>5. CheckFine(k2, txs', onChain')
  BY <1>1, <1>4 DEF CheckFine
<1>6. check'[c] = k2
  BY <1>1, <1>2
<1> QED
  BY <1>2, <1>3, <1>4, <1>5, <1>6, OneCheck DEF PosInv

LEMMA ErrorIsTrue ==
  ASSUME PosInv, NEW c \in CheckCall, check[c].pc # "idle", Onward, Answer(c, "error")
  PROVE  CheckInv' /\ TrueAnswer(check'[c])
<1> DEFINE k == check[c]
           k2 == [pc |-> "answered", id |-> k.id, tx |-> k.tx, status |-> "error"]
<1>1. /\ CheckRecord(k) /\ CheckFine(k, txs, onChain) /\ check = [x \in CheckCall |-> check[x]]
  BY DEF PosInv, CheckInv
<1>2. check' = [check EXCEPT ![c] = k2]
  BY <1>1, AnsweredIs
<1>3. CheckFine(k, txs', onChain')
  BY <1>1, CheckStays
<1>4. CheckRecord(k2) /\ CheckFine(k2, txs', onChain')
  BY <1>1, <1>3 DEF CheckRecord, CheckFine
<1>5. check'[c] = k2
  BY <1>1, <1>2
<1>6. TrueAnswer(k2)
  BY DEF TrueAnswer
<1> HIDE DEF k2
<1> QED
  BY <1>2, <1>4, <1>5, <1>6, OneCheck DEF PosInv

LEMMA StartCheckKeeps ==
  ASSUME PosInv, NEW c \in CheckCall, NEW id \in DOMAIN txs, NEW t \in DOMAIN txs, StartCheck(c, id, t)
  PROVE  /\ CheckInv'
         /\ check'[c].pc = "answered" => TrueAnswer(check'[c])
<1>1. check = [x \in CheckCall |-> check[x]] /\ Onward
  BY NothingMoves DEF PosInv, CheckInv, StartCheck
<1>2. id \in 1..Len(txs) /\ t \in 1..Len(txs) /\ onChain[t] # "offered" /\ UNCHANGED <<txs, onChain>>
  BY DEF PosInv, ChainInv, StartCheck
<1>3. CASE txs[id].ns = txs[t].ns
  <2> DEFINE k == [pc |-> txs[id].ns, id |-> id, tx |-> t, status |-> Absent]
  <2>1. check' = [check EXCEPT ![c] = k]
    BY <1>3 DEF StartCheck
  <2>2. txs[id].ns \in {"eip155", "solana", "tron"}
    BY <1>2, OfANamespace DEF PosInv, SupportedNamespaces
  <2>3. CheckRecord(k) /\ CheckFine(k, txs', onChain') /\ k.pc # "answered"
    BY <1>2, <1>3, <2>2 DEF CheckRecord, CheckFine
  <2>4. check'[c] = k
    BY <1>1, <2>1
  <2> HIDE DEF k
  <2> QED
    BY <1>1, <2>1, <2>3, <2>4, OneCheck DEF PosInv
<1>4. CASE txs[id].ns # txs[t].ns
  <2> DEFINE k == [pc |-> "answered", id |-> id, tx |-> t, status |-> "error"]
  <2>1. check' = [check EXCEPT ![c] = k]
    BY <1>4 DEF StartCheck
  <2>2. CheckRecord(k) /\ CheckFine(k, txs', onChain') /\ TrueAnswer(k)
    BY <1>2 DEF CheckRecord, CheckFine, TrueAnswer
  <2>3. check'[c] = k
    BY <1>1, <2>1
  <2> HIDE DEF k
  <2> QED
    BY <1>1, <2>1, <2>2, <2>3, OneCheck DEF PosInv
<1> QED
  BY <1>3, <1>4

LEMMA AskingKeeps ==
  ASSUME PosInv, NEW c \in CheckCall,
         CheckEvm(c) \/ CheckSolana(c) \/ FallBack(c) \/ LookUp(c) \/ ReadReceipt(c)
  PROVE  /\ CheckInv'
         /\ check'[c].pc = "answered" => TrueAnswer(check'[c])
<1>0. /\ CheckFine(check[c], txs, onChain) /\ UNCHANGED <<txs, onChain>> /\ check[c].pc # "idle"
  BY DEF PosInv, CheckInv, CheckEvm, CheckSolana, FallBack, LookUp, ReadReceipt
<1>1. check[c].tx \in 1..Len(txs) /\ check[c].id \in 1..Len(txs)
  BY <1>0 DEF CheckFine
<1>2. ASSUME check[c].pc \in {"eip155", "solana", "fallback"}
      PROVE  onChain[check[c].tx] # "signed" /\ txs[check[c].tx].ns # "tron"
  BY <1>0, <1>1, <1>2 DEF CheckFine, PosInv, ChainInv
<1>3. CASE \/ CheckEvm(c) \/ FallBack(c) \/ ReadReceipt(c)
           \/ CheckSolana(c) /\ check'[c].pc # "fallback"
  <2>1. onChain[check[c].tx] # "signed"
    BY <1>0, <1>2, <1>3 DEF CheckFine, CheckEvm, CheckSolana, FallBack, ReadReceipt
  <2>2. PICK said \in NodeSays(check[c].tx, ChainOf(c)) \cup {"unknown"} : Answer(c, StatusOf(said))
    <3>1. CASE CheckSolana(c) /\ check'[c].pc # "fallback"
      <4>1. PICK said \in NodeSays(check[c].tx, ChainOf(c)) :
              IF said \in Executed THEN Answer(c, StatusOf(said))
              ELSE check' = [check EXCEPT ![c].pc = "fallback"]
        BY <3>1 DEF CheckSolana
      <4>2. check = [x \in CheckCall |-> check[x]] /\ CheckRecord(check[c])
        BY DEF PosInv, CheckInv
      <4>3. ASSUME check' = [check EXCEPT ![c].pc = "fallback"] PROVE check'[c].pc = "fallback"
        BY <4>2, <4>3 DEF CheckRecord
      <4> QED
        BY <3>1, <4>1, <4>3
    <3> QED
      BY <1>3, <3>1 DEF CheckEvm, FallBack, ReadReceipt
  <2> QED
    BY <1>0, <2>1, <2>2, AnswerIsTrue
<1>4. CASE CheckSolana(c) /\ check'[c].pc = "fallback"
  <2>1. PICK said \in NodeSays(check[c].tx, ChainOf(c)) :
          IF said \in Executed THEN Answer(c, StatusOf(said))
          ELSE check' = [check EXCEPT ![c].pc = "fallback"]
    BY <1>4 DEF CheckSolana
  <2>2. CASE said \in Executed
    <3>1. onChain[check[c].tx] # "signed"
      BY <1>2, <1>4 DEF CheckSolana
    <3> QED
      BY <1>0, <2>1, <2>2, <3>1, AnswerIsTrue
  <2>3. CASE said \notin Executed
    <3>1. check[c].pc = "solana"
      BY <1>4 DEF CheckSolana
    <3> QED
      BY <1>0, <1>2, <2>1, <2>3, <3>1, CheckGoesOn
  <2> QED
    BY <2>2, <2>3
<1>5. CASE LookUp(c)
  <2>1. PICK said \in NodeSays(check[c].tx, ChainOf(c)) :
          check' = [check EXCEPT ![c].pc = IF said = "unknown" THEN "broadcast" ELSE "receipt"]
    BY <1>5 DEF LookUp
  <2> DEFINE pc == IF said = "unknown" THEN "broadcast" ELSE "receipt"
  <2>2. said # "unknown" => onChain[check[c].tx] # "signed"
    BY <1>1, NodesAreTrue DEF PosInv
  <2>3. /\ pc # "answered" /\ pc \notin {"eip155", "solana", "fallback"}
        /\ pc = "receipt" => onChain[check[c].tx] # "signed"
    BY <2>2
  <2>4. check' = [check EXCEPT ![c].pc = pc]
    BY <2>1
  <2> HIDE DEF pc
  <2> QED
    BY <1>0, <2>3, <2>4, CheckGoesOn
<1> QED
  BY <1>3, <1>4, <1>5

LEMMA BroadcastKeeps ==
  ASSUME PosInv, NEW c \in CheckCall, Broadcast(c)
  PROVE  CheckInv' /\ ChainInv' /\ Onward /\ TrueAnswer(check'[c])
<1> DEFINE t == check[c].tx
<1>0. /\ CheckFine(check[c], txs, onChain) /\ check[c].pc = "broadcast" /\ UNCHANGED <<txs, caughtUp>>
      /\ check = [x \in CheckCall |-> check[x]] /\ CheckRecord(check[c])
  BY DEF PosInv, CheckInv, Broadcast
<1>1. t \in 1..Len(txs) /\ check[c].id \in 1..Len(txs) /\ onChain[t] # "offered"
  BY <1>0 DEF CheckFine
<1>2. CASE Taken(c)
  <2>1. onChain' = [onChain EXCEPT ![t] = "pool"] /\ Answer(c, "PENDING")
    BY <1>2 DEF Broadcast
  <2>2. onChain[t] \notin Executed /\ "pool" \in OnChain
    BY <1>2 DEF Taken, Executed, OnChain
  <2>3. ChainInv' /\ Onward
    BY <1>0, <1>1, <2>1, <2>2, ChainMoves DEF PosInv
  <2>4. onChain'[t] = "pool"
    BY <1>1, <2>1 DEF PosInv, ChainInv
  <2> DEFINE k == [pc |-> "answered", id |-> check[c].id, tx |-> t, status |-> "PENDING"]
  <2>5. check' = [check EXCEPT ![c] = k]
    BY <1>0, <2>1, AnsweredIs
  <2>6. CheckRecord(k) /\ CheckFine(k, txs', onChain') /\ TrueAnswer(k)
    BY <1>0, <1>1, <2>4 DEF CheckRecord, CheckFine, TrueAnswer
  <2>7. check'[c] = k
    BY <1>0, <2>5
  <2> HIDE DEF k
  <2> QED
    BY <2>3, <2>5, <2>6, <2>7, OneCheck DEF PosInv
<1>3. CASE ~Taken(c)
  <2>1. onChain' = onChain /\ Answer(c, "error")
    BY <1>3 DEF Broadcast
  <2>2. ChainInv' /\ Onward
    BY <1>0, <2>1, NothingMoves DEF PosInv, ChainInv
  <2> QED
    BY <1>0, <2>1, <2>2, ErrorIsTrue
<1> QED
  BY <1>2, <1>3

-----------------------------------------------------------------------------
(* The theorems. *)

LEMMA CheckStepKeeps ==
  ASSUME PosInv, NEW c \in CheckCall, CheckNext(c)
  PROVE  /\ CheckInv' /\ ChainInv' /\ Onward /\ UNCHANGED <<building, txs>>
         /\ check'[c].pc = "answered" /\ check[c].pc # "answered" => TrueAnswer(check'[c])
<1>0. /\ check = [x \in CheckCall |-> check[x]] /\ CheckRecord(check[c])
  BY DEF PosInv, CheckInv
<1>1. CASE Broadcast(c)
  BY <1>1, BroadcastKeeps DEF Broadcast
<1>2. ASSUME UNCHANGED <<txs, onChain, caughtUp>> PROVE ChainInv' /\ Onward
  BY <1>2, NothingMoves DEF PosInv, ChainInv
<1>3. CASE \E id, t \in DOMAIN txs : StartCheck(c, id, t)
  <2>1. PICK id \in DOMAIN txs, t \in DOMAIN txs : StartCheck(c, id, t)
    BY <1>3
  <2>2. UNCHANGED <<building, txs, onChain, caughtUp>>
    BY <2>1 DEF StartCheck
  <2> QED
    BY <1>2, <2>1, <2>2, StartCheckKeeps
<1>4. CASE CheckEvm(c) \/ CheckSolana(c) \/ FallBack(c) \/ LookUp(c) \/ ReadReceipt(c)
  <2>1. UNCHANGED <<building, txs, onChain, caughtUp>>
    BY <1>4 DEF CheckEvm, CheckSolana, FallBack, LookUp, ReadReceipt
  <2> QED
    BY <1>2, <1>4, <2>1, AskingKeeps
<1>5. CASE CheckFails(c)
  <2>1. UNCHANGED <<building, txs, onChain, caughtUp>> /\ check[c].pc # "idle" /\ Answer(c, "error")
    BY <1>5 DEF CheckFails
  <2> QED
    BY <1>2, <2>1, ErrorIsTrue
<1>6. CASE EndCheck(c)
  <2>1. UNCHANGED <<building, txs, onChain, caughtUp>> /\ check' = [check EXCEPT ![c] = IdleCheck]
    BY <1>6 DEF EndCheck
  <2>2. CheckRecord(IdleCheck) /\ CheckFine(IdleCheck, txs', onChain') /\ IdleCheck.pc = "idle"
    BY DEF IdleCheck, CheckRecord, CheckFine
  <2>3. check'[c] = IdleCheck
    BY <1>0, <2>1
  <2> QED
    BY <1>2, <2>1, <2>2, <2>3, OneCheck DEF PosInv
<1> QED
  BY <1>1, <1>3, <1>4, <1>5, <1>6 DEF CheckNext, FirstStep, SecondStep

\* One step of a check answers that check and no other.
LEMMA OneIsAnswered ==
  ASSUME PosInv, NEW c \in CheckCall, CheckNext(c), NEW d \in CheckCall, d # c
  PROVE  check'[d] = check[d]
<1>1. check = [x \in CheckCall |-> check[x]]
  BY DEF PosInv, CheckInv
<1>2. \E k : check' = [check EXCEPT ![c] = k]
  BY Zenon DEF CheckNext, StartCheck, FirstStep, SecondStep, CheckEvm, CheckSolana, LookUp, FallBack, Broadcast,
     ReadReceipt, CheckFails, EndCheck, Answer
<1> QED
  BY <1>1, <1>2

LEMMA BuildNextKeeps ==
  ASSUME PosInv, NEW b \in BuildCall, BuildNext(b)
  PROVE  BuildInv' /\ ChainInv' /\ Onward /\ UNCHANGED check
<1>1. ASSUME UNCHANGED <<txs, onChain, caughtUp>> PROVE ChainInv' /\ Onward
  BY <1>1, NothingMoves DEF PosInv, ChainInv
<1>2. CASE StartBuild(b)
  BY <1>1, <1>2, StartKeeps DEF StartBuild
<1>3. CASE BuildFails(b) \/ FinishBuild(b) \/ EndBuild(b)
  BY <1>1, <1>3, BuildFailsKeeps DEF BuildFails, FinishBuild, EndBuild
<1>4. CASE \E i \in DOMAIN building[b].left : BuildStep(b, i)
  BY <1>4, BuildStepKeeps DEF BuildStep
<1> QED
  BY <1>2, <1>3, <1>4 DEF BuildNext

LEMMA PosInvInit == PosInit => PosInv
<1> SUFFICES ASSUME PosInit PROVE PosInv
  OBVIOUS
<1>1. BuildInv
  BY DEF PosInit, BuildInv, BuildRecord, IdleBuild
<1>2. ChainInv
  BY DEF PosInit, ChainInv
<1>3. CheckInv
  BY DEF PosInit, CheckInv, CheckRecord, CheckFine, IdleCheck
<1> QED
  BY <1>1, <1>2, <1>3 DEF PosInv

LEMMA PosInvStep == PosInv /\ [PosNext]_posVars => PosInv'
<1> SUFFICES ASSUME PosInv, [PosNext]_posVars PROVE PosInv'
  OBVIOUS
<1>1. ASSUME NEW b \in BuildCall, BuildNext(b) PROVE PosInv'
  BY <1>1, BuildNextKeeps, ChecksStay DEF PosInv
<1>2. ASSUME NEW t \in DOMAIN txs, ChainNext(t) PROVE PosInv'
  BY <1>2, ChainStepKeeps, BuildsStay, ChecksStay DEF PosInv
<1>3. ASSUME NEW c \in CheckCall, CheckNext(c) PROVE PosInv'
  BY <1>3, CheckStepKeeps, BuildsStay DEF PosInv
<1>4. CASE UNCHANGED posVars
  BY <1>4 DEF posVars, PosInv, BuildInv, ChainInv, CheckInv
<1> QED
  BY <1>1, <1>2, <1>3, <1>4 DEF PosNext

LEMMA PosInvariance == PosSpec => []PosInv
BY PosInvInit, PosInvStep, PTL DEF PosSpec

\* Whatever order the builders end in, and whoever builds meanwhile, the
\* transactions of an answer are those of the intents, in their order, each for
\* its amount down to what its token can hold.
THEOREM PaymentsBuiltAsIntended == PosSpec => []BuiltAsIntended
<1>1. PosInv => BuiltAsIntended
  <2> SUFFICES ASSUME PosInv, NEW b \in BuildCall, building[b].pc = "built"
               PROVE  /\ IsInjective(building[b].out)
                      /\ \A i \in DOMAIN building[b].out : Matches(txs[building[b].out[i]], building[b].intents[i])
    BY DEF BuiltAsIntended, Matches
  <2> DEFINE q == building[b]
  <2>1. BuildFine(q, txs) /\ q.pc = "built"
    BY DEF PosInv, BuildInv
  <2>2. DOMAIN q.out = 1..Len(q.intents) /\ \A i \in 1..Len(q.intents) : q.left[i] = <<>>
    BY <2>1 DEF BuildFine
  <2> HIDE DEF q
  <2>3. \A i \in DOMAIN q.out : Matches(txs[q.out[i]], q.intents[i])
    BY <2>1, <2>2 DEF BuildFine
  <2>4. IsInjective(q.out)
    BY <2>1, <2>2 DEF BuildFine, IsInjective
  <2> QED
    BY <2>3, <2>4 DEF q
<1> QED
  BY <1>1, PosInvariance, PTL

\* An outcome is reported only if the chain of the id executed the transaction
\* so, and any answer about a Tron transaction but an error means it was put on
\* its way.
THEOREM PaymentsSettledTruly == PosSpec => SettledTruly
<1>1. ASSUME PosInv, [PosNext]_posVars, NEW c \in CheckCall,
             check'[c].pc = "answered", check[c].pc # "answered"
      PROVE  TrueAnswer(check'[c])
  <2>1. CASE \E d \in CheckCall : CheckNext(d)
    <3>1. PICK d \in CheckCall : CheckNext(d)
      BY <2>1
    <3>2. d = c
      BY <1>1, <3>1, OneIsAnswered
    <3> QED
      BY <1>1, <3>1, <3>2, CheckStepKeeps
  <2>2. CASE ~\E d \in CheckCall : CheckNext(d)
    <3>1. UNCHANGED check
      BY <1>1, <2>2, BuildNextKeeps, ChainStepKeeps DEF PosNext, posVars, PosInv
    <3> QED
      BY <1>1, <3>1
  <2> QED
    BY <2>1, <2>2
<1>2. PosInv /\ [PosNext]_posVars =>
        [\A c \in CheckCall : check'[c].pc = "answered" /\ check[c].pc # "answered" =>
           LET t == check'[c].tx
               status == check'[c].status
           IN  /\ status = "CONFIRMED" => onChain'[t] = "ok"
               /\ status = "FAILED" => onChain'[t] = "failed"
               /\ status \in {"CONFIRMED", "FAILED"} => txs[check'[c].id].chain = txs[t].chain
               /\ status # "error" => onChain'[t] # "signed"]_posVars
  BY <1>1 DEF TrueAnswer
<1> QED
  BY <1>2, PosInvariance, PTL DEF PosSpec, SettledTruly

=============================================================================
