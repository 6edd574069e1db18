------------------------- MODULE WalletCallsProofs -------------------------
(***************************************************************************)
(* Theorems about sessions and the wallet methods over them, for any number*)
(* of handlers, permissions, keys, batches and bundles.                    *)
(*                                                                         *)
(* Sessions.  An item, stored or read by a handler that will write it back,*)
(* has the key, the permissions and the expiry it was created with         *)
(* (Stored, Coherent), because a permission is created once (CreatesApart).*)
(*                                                                         *)
(* Wallet methods.  A bundle being sent is at one of its items, with the   *)
(* identifiers of those before it, and carries a co-signature within the   *)
(* permission of that one, then in the form of the validator (Sending).    *)
(* Operations keep what they were sent with, and the executed ones have    *)
(* nonces of their own, all below the account's (Taken).                   *)
(***************************************************************************)
EXTENDS WalletCalls, WellFoundedInduction, SequenceTheorems, TLAPS

-----------------------------------------------------------------------------
(* The invariants. *)

\* What no handler changes of a permission.
AsGranted(i, g) == i.key = g.key /\ i.permissions = g.permissions /\ i.expiry = g.expiry

\* A stored item is of a permission that was created, as it was created.
Stored == \A p \in Pci : item[p] # NULL => granted[p] # NULL /\ AsGranted(item[p].value, granted[p])

\* What a handler holds agrees with the permission it is about; a signature it
\* made is within it.
Coherent(q, g) ==
  /\ q.pc # "idle" => q.req # NULL
  /\ q.pc # "done" => q.sig = NULL
  /\ q.pc = "read" => q.req.op # "create"
  /\ q.pc = "write" => q.read # NULL /\ q.req.op \in {"create", "activate", "revoke"}
  /\ q.pc = "write" /\ q.req.op = "create" => g[q.req.pci] = NULL
  /\ q.pc = "write" /\ q.req.op # "create" =>
       g[q.req.pci] # NULL /\ AsGranted(q.read, g[q.req.pci])
  /\ q.sig # NULL =>
       /\ q.req # NULL /\ q.req.op = "cosign" /\ q.req.batch # NULL /\ g[q.req.pci] # NULL
       /\ WithinGrant(g[q.req.pci], q.req.batch, q.sig)

\* Two handlers never create one permission.
Creates(q, p) == q.req # NULL /\ q.req.op = "create" /\ q.req.pci = p
CreatesApart == \A t, u \in Task : \A p \in Pci : Creates(task[t], p) /\ Creates(task[u], p) => t = u

SessionInv == TypeOK /\ Stored /\ (\A t \in Task : Coherent(task[t], granted)) /\ CreatesApart

\* A signature as it goes out.
SentSignature ==
  [key : Key, at : 0..MaxTime, mode : {"use", "enable"},
   bytes : [abi : BOOLEAN, parts : Seq({"ecdsa", "passkey"})]]

\* Contexts an operation is sent with.
SentContext == {"enable", "enable_ownable", "unsafe"}

Operations ==
  [pci : Pci, batch : Batch, nonce : Nat, client : {"ecdsa", "passkey"}, context : SentContext,
   sig : SentSignature, status : {"none", "success", "reverted"}]

SendPcs == {"cosign", "context", "encode", "send"}

CallShape(c) ==
  /\ DOMAIN c = {"pc", "bundle", "step", "sig", "context", "op", "ids", "reply"}
  /\ c.pc \in {"idle", "nonce", "stub", "limits", "data", "done"} \cup SendPcs
  /\ c.bundle \in Bundle \cup {<<>>}
  /\ c.step \in Nat \ {0}
  /\ c.ids \in Seq(Nat)

\* The signature and the validator agree, unless the context was replaced.
Fits(bytes, client, context) ==
  (ValidatorOf(context) = "multikey") # bytes.abi => client = "passkey" /\ bytes.parts[1] = "passkey"

\* Whose permission covers a signature for an item of a bundle.
Covered(i, sig, g) == g[i.pci] # NULL /\ WithinGrant(g[i.pci], i.batch, sig)

\* How far the handler of a bundle has got.
Sending(c, g, en) ==
  /\ c.pc \in SendPcs => c.bundle \in Bundle /\ Len(c.ids) = c.step - 1 /\ c.reply = NULL
  /\ c.pc \in SendPcs \ {"cosign"} => c.step <= Len(c.bundle) /\ Covered(c.bundle[c.step], c.sig, g)
  /\ c.pc \in {"context", "encode"} => c.sig \in CoSignature
  /\ c.pc \in {"encode", "send"} => c.context \in SentContext
  /\ c.pc = "send" =>
       /\ c.sig \in SentSignature
       /\ Fits(c.sig.bytes, c.bundle[c.step].client, c.context)
       /\ c.sig.mode = "use" => c.bundle[c.step].pci \in en

\* What the identifiers of a handler stand for.
Named(c, s) ==
  /\ c.bundle # <<>> =>
       /\ Len(c.ids) <= Len(c.bundle)
       /\ \A k \in 1..Len(c.ids) :
            /\ c.ids[k] \in 1..Len(s)
            /\ s[c.ids[k]].pci = c.bundle[k].pci
            /\ s[c.ids[k]].batch = c.bundle[k].batch
            /\ s[c.ids[k]].nonce = c.bundle[k].nonce
       /\ c.reply = "sent" => Len(c.ids) = Len(c.bundle)
  /\ c.reply = "confirmed" => Len(c.ids) = 1 /\ c.ids[1] \in 1..Len(s) /\ s[c.ids[1]].status = "success"

\* What the bundler has taken.
Taken ==
  /\ sent \in Seq(Operations) /\ enabled \subseteq Pci /\ nonce \in Nat
  /\ \A k \in 1..Len(sent) :
       /\ Covered(sent[k], sent[k].sig, granted)
       /\ Fits(sent[k].sig.bytes, sent[k].client, sent[k].context)
       /\ sent[k].sig.mode = "use" => sent[k].pci \in enabled
       /\ sent[k].status # "none" => sent[k].nonce < nonce
  /\ \A j, k \in 1..Len(sent) :
       sent[j].status # "none" /\ sent[k].status # "none" /\ sent[j].nonce = sent[k].nonce => j = k

WalletInv ==
  /\ Taken
  /\ call = [w \in Caller |-> call[w]]
  /\ \A w \in Caller : CallShape(call[w]) /\ Sending(call[w], granted, enabled) /\ Named(call[w], sent)

-----------------------------------------------------------------------------
(* Arithmetic of batches. *)

LEMMA Least ==
  ASSUME NEW S \in SUBSET Nat, S # {}
  PROVE  \E x \in S : \A y \in S : x <= y
<1> DEFINE R == OpToRel(<, Nat)
<1>1. R = {ss \in Nat \X Nat : ss[1] < ss[2]}
  BY DEF OpToRel
<1>2. IsWellFoundedOn(R, Nat)
  BY NatLessThanWellFounded
<1> HIDE DEF R
<1>3. PICK x \in S : \A y \in S : ~ (<<y, x>> \in R)
  <2>1. S \subseteq Nat
    OBVIOUS
  <2> QED
    BY <1>2, <2>1, WFMin, Zenon
<1>4. ASSUME NEW y \in S PROVE x <= y
  <2>1. x \in Nat /\ y \in Nat
    OBVIOUS
  <2>2. y < x => <<y, x>> \in R
    BY <1>1, <2>1
  <2> QED
    BY <1>3, <2>1, <2>2
<1> QED
  BY <1>4

\* Induction, over a set of naturals.
LEMMA Induct ==
  ASSUME NEW S \in SUBSET Nat, 0 \in S, \A n \in S : n + 1 \in S
  PROVE  S = Nat
<1>1. SUFFICES ASSUME Nat \ S # {} PROVE FALSE
  OBVIOUS
<1>2. PICK x \in Nat \ S : \A y \in Nat \ S : x <= y
  BY <1>1, Least
<1>3. x - 1 \in S /\ x # 0
  BY <1>2
<1>4. (x - 1) + 1 \in S
  BY <1>3
<1> QED
  BY <1>2, <1>4

\* A bounded set of naturals has a greatest element.
LEMMA Greatest ==
  ASSUME NEW n \in Nat, NEW S \in SUBSET (0..n), S # {}
  PROVE  \E x \in S : \A y \in S : y <= x
<1> DEFINE D == {n - x : x \in S}
<1>1. D \in SUBSET Nat /\ D # {}
  <2>1. ASSUME NEW x \in S PROVE n - x \in Nat
    OBVIOUS
  <2>2. D \in SUBSET Nat
    BY <2>1
  <2>3. PICK x : x \in S
    OBVIOUS
  <2>4. n - x \in D
    BY <2>3
  <2> QED
    BY <2>2, <2>4
<1>2. PICK d \in D : \A e \in D : d <= e
  BY <1>1, Least
<1>3. PICK x \in S : d = n - x
  BY <1>2
<1>4. ASSUME NEW y \in S PROVE y <= x
  <2>1. n - y \in D
    OBVIOUS
  <2>2. d <= n - y
    BY <1>2, <2>1
  <2> QED
    BY <1>3, <2>2
<1> QED
  BY <1>4

\* A sum of steps, along a sequence, exists up to every length.
LEMMA RunningSum ==
  ASSUME NEW n \in Nat, NEW h \in [Nat \X Nat -> Nat]
  PROVE  \E f \in [0..n -> Nat] : f = [k \in 0..n |-> IF k = 0 THEN 0 ELSE h[<<f[k - 1], k>>]]
<1> DEFINE Defined(m) == \E f \in [0..m -> Nat] :
                            f = [k \in 0..m |-> IF k = 0 THEN 0 ELSE h[<<f[k - 1], k>>]]
           S == {m \in Nat : Defined(m)}
<1>1. Defined(0)
  <2> DEFINE f == [k \in 0..0 |-> 0]
  <2>1. f \in [0..0 -> Nat] /\ f = [k \in 0..0 |-> IF k = 0 THEN 0 ELSE h[<<f[k - 1], k>>]]
    OBVIOUS
  <2> QED
    BY <2>1
<1>2. ASSUME NEW m \in Nat, Defined(m) PROVE Defined(m + 1)
  <2>1. PICK f \in [0..m -> Nat] : f = [k \in 0..m |-> IF k = 0 THEN 0 ELSE h[<<f[k - 1], k>>]]
    BY <1>2
  <2> DEFINE g == [k \in 0..(m + 1) |-> IF k = m + 1 THEN h[<<f[m], m + 1>>] ELSE f[k]]
  <2>2. h[<<f[m], m + 1>>] \in Nat
    OBVIOUS
  <2>3. g \in [0..(m + 1) -> Nat]
    BY <2>2
  <2>4. ASSUME NEW k \in 0..(m + 1) PROVE g[k] = IF k = 0 THEN 0 ELSE h[<<g[k - 1], k>>]
    <3>1. CASE k = m + 1
      <4>1. g[k] = h[<<f[m], m + 1>>] /\ g[m] = f[m] /\ k - 1 = m /\ k # 0
        BY <3>1
      <4> QED
        BY <3>1, <4>1
    <3>2. CASE k # m + 1
      <4>1. k \in 0..m /\ g[k] = f[k]
        BY <3>2
      <4>2. f[k] = IF k = 0 THEN 0 ELSE h[<<f[k - 1], k>>]
        BY <2>1, <4>1
      <4>3. k # 0 => g[k - 1] = f[k - 1]
        BY <4>1
      <4> QED
        BY <4>1, <4>2, <4>3
    <3> QED
      BY <3>1, <3>2
  <2>5. g = [k \in 0..(m + 1) |-> IF k = 0 THEN 0 ELSE h[<<g[k - 1], k>>]]
    BY <2>3, <2>4
  <2> QED
    BY <2>3, <2>5
<1> HIDE DEF Defined
<1>3. 0 \in S /\ \A m \in S : m + 1 \in S
  BY <1>1, <1>2
<1>4. S = Nat
  <2>1. S \in SUBSET Nat
    OBVIOUS
  <2> HIDE DEF S
  <2> QED
    BY <1>3, <2>1, Induct
<1>5. Defined(n)
  BY <1>4
<1> QED
  BY <1>5 DEF Defined

LEMMA ModSmall == ASSUME NEW n \in Nat, n < Word PROVE n % Word = n
BY LifeAssumption

LEMMA ModNat == ASSUME NEW n \in Nat PROVE n % Word \in Nat
BY LifeAssumption

\* The wrapped sum of a batch is its value, as long as that is a U256.
LEMMA SumIsValue ==
  ASSUME NEW b \in Seq(Transaction)
  PROVE  Value(b) \in Nat /\ (Value(b) < Word => Sum(b) = Value(b))
<1> DEFINE n == Len(b)
           amount(k) == IF k \in 1..n THEN b[k].value ELSE 0
           plain == [x \in Nat \X Nat |-> x[1] + amount(x[2])]
           wrapped == [x \in Nat \X Nat |-> (x[1] + amount(x[2])) % Word]
           V == CHOOSE s : s = [k \in 0..n |-> IF k = 0 THEN 0 ELSE s[k - 1] + b[k].value]
           W == CHOOSE s : s = [k \in 0..n |-> IF k = 0 THEN 0 ELSE (s[k - 1] + b[k].value) % Word]
<1>1. n \in Nat /\ \A k \in Nat : amount(k) \in Nat
  <2>1. ASSUME NEW k \in 1..n PROVE b[k].value \in Nat
    <3>1. b[k] \in Transaction
      OBVIOUS
    <3>2. b[k].value \in 0..(Word - 1)
      BY <3>1 DEF Transaction
    <3> QED
      BY <3>2, LifeAssumption
  <2> QED
    BY <2>1
<1>2. Value(b) = V[n] /\ Sum(b) = W[n]
  BY DEF Value, Sum
<1>3. V = [k \in 0..n |-> IF k = 0 THEN 0 ELSE V[k - 1] + b[k].value]
  <2>1. plain \in [Nat \X Nat -> Nat]
    BY <1>1
  <2>2. PICK f \in [0..n -> Nat] : f = [k \in 0..n |-> IF k = 0 THEN 0 ELSE plain[<<f[k - 1], k>>]]
    <3> HIDE DEF plain
    <3> QED
      BY <1>1, <2>1, RunningSum
  <2>3. ASSUME NEW k \in 0..n, k # 0 PROVE plain[<<f[k - 1], k>>] = f[k - 1] + b[k].value
    <3>1. k \in Nat /\ k \in 1..n /\ k - 1 \in 0..n
      BY <1>1, <2>3
    <3>2. f[k - 1] \in Nat
      BY <2>2, <3>1
    <3> QED
      BY <3>1, <3>2
  <2>4. f = [k \in 0..n |-> IF k = 0 THEN 0 ELSE f[k - 1] + b[k].value]
    <3> HIDE DEF plain
    <3> QED
      BY <2>2, <2>3
  <2> QED
    BY <2>4
<1>4. W = [k \in 0..n |-> IF k = 0 THEN 0 ELSE (W[k - 1] + b[k].value) % Word]
  <2>1. wrapped \in [Nat \X Nat -> Nat]
    <3>1. ASSUME NEW x \in Nat \X Nat PROVE (x[1] + amount(x[2])) % Word \in Nat
      <4>1. x[1] \in Nat /\ amount(x[2]) \in Nat
        BY <1>1
      <4> HIDE DEF amount
      <4>2. x[1] + amount(x[2]) \in Nat
        BY <4>1
      <4> QED
        BY <4>2, ModNat
    <3> QED
      BY <3>1
  <2>2. PICK f \in [0..n -> Nat] : f = [k \in 0..n |-> IF k = 0 THEN 0 ELSE wrapped[<<f[k - 1], k>>]]
    <3> HIDE DEF wrapped
    <3> QED
      BY <1>1, <2>1, RunningSum
  <2>3. ASSUME NEW k \in 0..n, k # 0
        PROVE wrapped[<<f[k - 1], k>>] = (f[k - 1] + b[k].value) % Word
    <3>1. k \in Nat /\ k \in 1..n /\ k - 1 \in 0..n
      BY <1>1, <2>3
    <3>2. f[k - 1] \in Nat
      BY <2>2, <3>1
    <3> QED
      BY <3>1, <3>2
  <2>4. f = [k \in 0..n |-> IF k = 0 THEN 0 ELSE (f[k - 1] + b[k].value) % Word]
    <3> HIDE DEF wrapped
    <3> QED
      BY <2>2, <2>3
  <2> QED
    BY <2>4
<1> HIDE DEF V, W
<1> DEFINE Agree(m) == m <= n => V[m] \in Nat /\ (V[m] < Word => W[m] = V[m])
           S == {m \in Nat : Agree(m)}
<1>5. 0 \in S
  BY <1>1, <1>3, <1>4
<1>6. ASSUME NEW m \in S PROVE m + 1 \in S
  <2>1. SUFFICES ASSUME m + 1 <= n PROVE Agree(m + 1)
    BY <1>6
  <2>2. V[m] \in Nat /\ (V[m] < Word => W[m] = V[m])
    BY <1>1, <1>6, <2>1
  <2>3. b[m + 1].value \in Nat
    BY <1>1, <2>1
  <2>4. V[m + 1] = V[m] + b[m + 1].value /\ W[m + 1] = (W[m] + b[m + 1].value) % Word
    BY <1>1, <1>3, <1>4, <2>1
  <2>5. V[m + 1] \in Nat /\ V[m] <= V[m + 1]
    BY <2>2, <2>3, <2>4
  <2>6. V[m + 1] < Word => W[m + 1] = V[m + 1] % Word
    BY <2>2, <2>4, <2>5, LifeAssumption
  <2> QED
    BY <2>5, <2>6, ModSmall
<1>7. S = Nat
  <2>1. S \in SUBSET Nat
    OBVIOUS
  <2> HIDE DEF S
  <2> QED
    BY <1>5, <1>6, <2>1, Induct
<1>8. Agree(n)
  BY <1>1, <1>7
<1> QED
  BY <1>1, <1>2, <1>8

-----------------------------------------------------------------------------
(* Sessions: lemmas. *)

\* A batch that is signed passed every check.
LEMMA SignedPassed ==
  ASSUME NEW i \in Item, NEW b, Verdict(i, b) = "signed"
  PROVE  /\ b # NULL /\ ~(i.expiry < now)
         /\ OfType(i.permissions, "contract-call") # {} =>
              TargetsGranted(OfType(i.permissions, "contract-call"), b)
         /\ OfType(i.permissions, "native-token-recurring-allowance") # {} =>
              \E q \in OfType(i.permissions, "native-token-recurring-allowance") : ~(Sum(b) > q.amount)
BY Zenon DEF Verdict

LEMMA VerdictIsOne == ASSUME NEW i, NEW b PROVE Verdict(i, b) \in Verdicts
BY DEF Verdict, Verdicts

\* The amounts a permission names are U256 numbers.
LEMMA AmountsAreNumbers ==
  ASSUME NEW g \in Item
  PROVE  \A q \in OfType(g.permissions, "native-token-recurring-allowance") : q.amount \in 0..(Word - 1)
<1> SUFFICES ASSUME NEW q \in g.permissions, q.type = "native-token-recurring-allowance"
             PROVE  q.amount \in 0..(Word - 1)
  BY DEF OfType
<1>1. g.permissions \in Grant
  BY DEF Item
<1>2. q \in Permission
  BY <1>1, InputsAssumption
<1> QED
  BY <1>2 DEF Permission

\* What the co-signer signs is within the permission its item agrees with.
LEMMA SignedIsWithin ==
  ASSUME NEW i \in Item, NEW g \in Item, AsGranted(i, g), NEW b \in Batch, now \in 0..MaxTime,
         Verdict(i, b) = "signed"
  PROVE  b # NULL /\ Signature(i) \in CoSignature /\ WithinGrant(g, b, Signature(i))
<1> DEFINE contracts == OfType(g.permissions, "contract-call")
           allowances == OfType(g.permissions, "native-token-recurring-allowance")
           amounts == {q.amount : q \in allowances}
           targets == {q.target : q \in contracts}
<1>1. /\ b # NULL /\ ~(i.expiry < now)
      /\ contracts # {} => TargetsGranted(contracts, b)
      /\ allowances # {} => \E q \in allowances : ~(Sum(b) > q.amount)
  BY SignedPassed DEF AsGranted
<1>2. Signature(i) \in CoSignature /\ Signature(i).key = g.key /\ Signature(i).at <= g.expiry
  <2>1. i.key \in Key /\ i.expiry \in 0..MaxTime /\ i.expiry = g.expiry /\ i.key = g.key
    BY DEF Item, AsGranted
  <2>2. /\ Signature(i).key = i.key /\ Signature(i).at = now
        /\ Signature(i) = [key |-> i.key, at |-> now, format |-> Signature(i).format]
        /\ Signature(i).format \in {<<"client", "server">>, <<"abi", "server", "client">>}
    BY DEF Signature
  <2>3. now <= i.expiry
    BY <1>1, <2>1, LifeAssumption
  <2>4. Signature(i) \in CoSignature
    BY <2>1, <2>2 DEF CoSignature
  <2> QED
    BY <2>1, <2>2, <2>3, <2>4
<1>3. b \in Seq(Transaction)
  BY <1>1, InputsAssumption
<1>4. targets # {} => \A k \in DOMAIN b : b[k].call => b[k].to \in targets
  <2>1. SUFFICES ASSUME contracts # {}, NEW k \in DOMAIN b, b[k].call PROVE b[k].to \in targets
    OBVIOUS
  <2>2. CallTargets(b) \subseteq targets
    BY <1>1, <2>1 DEF TargetsGranted
  <2>3. k \in {j \in DOMAIN b : b[j].call}
    BY <2>1
  <2>4. b[k].to \in CallTargets(b)
    BY <2>3 DEF CallTargets
  <2> QED
    BY <2>2, <2>4
<1>5. ASSUME amounts # {}, Value(b) < Word
      PROVE \E a \in amounts : Value(b) <= a /\ \A c \in amounts : c <= a
  <2>1. amounts \in SUBSET (0..(Word - 1)) /\ Word - 1 \in Nat
    BY AmountsAreNumbers, LifeAssumption
  <2>2. PICK a \in amounts : \A c \in amounts : c <= a
    BY <1>5, <2>1, Greatest
  <2>3. PICK q \in allowances : ~(Sum(b) > q.amount)
    BY <1>1, <1>5
  <2>4. q.amount \in amounts /\ q.amount \in Int /\ a \in Int
    BY <2>1
  <2>5. Value(b) \in Nat /\ Sum(b) = Value(b)
    BY <1>3, <1>5, SumIsValue
  <2>6. Value(b) <= a
    BY <2>2, <2>3, <2>4, <2>5
  <2> QED
    BY <2>2, <2>6
<1> QED
  BY <1>1, <1>2, <1>4, <1>5 DEF WithinGrant

\* A step of one handler that touches nothing else.
LEMMA OneHandler ==
  ASSUME SessionInv, NEW t \in Task, NEW q \in HandlerState, Coherent(q, granted),
         \A p \in Pci : \A u \in Task : Creates(q, p) /\ Creates(task[u], p) => u = t,
         task' = [task EXCEPT ![t] = q], UNCHANGED <<item, now, history>>
  PROVE  SessionInv'
<1> USE DEF SessionInv
<1>0. task \in [Task -> HandlerState]
  BY DEF TypeOK
<1>1. task' \in [Task -> HandlerState]
  BY <1>0
<1>2. task'[t] = q /\ \A u \in Task \ {t} : task'[u] = task[u]
  BY <1>0
<1>3. granted' = granted /\ revoked' = revoked
  BY DEF history
<1>4. TypeOK'
  BY <1>1, <1>3 DEF TypeOK
<1>5. Stored'
  BY <1>3 DEF Stored
<1>6. \A u \in Task : Coherent(task'[u], granted')
  BY <1>2, <1>3
<1>7. CreatesApart'
  <2>1. SUFFICES ASSUME NEW u \in Task, NEW v \in Task, NEW p \in Pci,
                        Creates(task'[u], p), Creates(task'[v], p)
                 PROVE  u = v
    BY DEF CreatesApart
  <2>2. CASE u # t /\ v # t
    BY <1>2, <2>1, <2>2 DEF CreatesApart
  <2>3. CASE u = t \/ v = t
    BY <1>2, <2>1, <2>3
  <2> QED
    BY <2>2, <2>3
<1> QED
  BY <1>4, <1>5, <1>6, <1>7

LEMMA IdleHandler ==
  ASSUME NEW g
  PROVE  Idle \in HandlerState /\ Coherent(Idle, g) /\ \A p : ~Creates(Idle, p)
BY NullAssumption DEF Idle, HandlerState, Coherent, Creates, Verdicts

\* A handler replies: its request stays, and so does what it created.
LEMMA Replied ==
  ASSUME NEW q \in HandlerState, NEW g, Coherent(q, g), q.pc \in {"read", "write"},
         NEW r \in Verdicts \cup {"ok", "error", "not_found", NULL}
  PROVE  LET d == [q EXCEPT !.pc = "done", !.read = NULL, !.reply = r]
         IN  /\ d \in HandlerState /\ Coherent(d, g)
             /\ \A p : Creates(d, p) => Creates(q, p)
BY DEF HandlerState, Coherent, Creates

LEMMA ReplyKeeps ==
  ASSUME SessionInv, NEW t \in Task, task[t].pc \in {"read", "write"},
         NEW r \in Verdicts \cup {"ok", "error", "not_found", NULL},
         Reply(t, r), UNCHANGED <<item, now, history>>
  PROVE  SessionInv'
<1> DEFINE q == [task[t] EXCEPT !.pc = "done", !.read = NULL, !.reply = r]
<1>1. task \in [Task -> HandlerState] /\ task[t] \in HandlerState /\ Coherent(task[t], granted)
  BY DEF SessionInv, TypeOK
<1>2. q \in HandlerState /\ Coherent(q, granted) /\ \A p : Creates(q, p) => Creates(task[t], p)
  BY <1>1, Replied
<1>3. task' = [task EXCEPT ![t] = q]
  BY <1>1 DEF Reply
<1>4. \A p \in Pci : \A u \in Task : Creates(q, p) /\ Creates(task[u], p) => u = t
  BY <1>2 DEF SessionInv, CreatesApart
<1> HIDE DEF q
<1> QED
  BY <1>2, <1>3, <1>4, OneHandler

LEMMA SessionInit == Init => SessionInv
<1> SUFFICES ASSUME Init PROVE SessionInv
  OBVIOUS
<1>1. Idle \in HandlerState /\ Coherent(Idle, granted) /\ \A p : ~Creates(Idle, p)
  BY IdleHandler
<1>2. 0 \in 0..MaxTime
  BY LifeAssumption
<1> QED
  BY <1>1, <1>2 DEF Init, SessionInv, TypeOK, Stored, CreatesApart

LEMMA ItemFound ==
  ASSUME SessionInv, NEW p \in Pci, item[p] # NULL
  PROVE  /\ item[p].value \in Item /\ granted[p] \in Item /\ granted[p] # NULL
         /\ AsGranted(item[p].value, granted[p])
BY DEF SessionInv, TypeOK, Stored, Record

LEMMA RequestIsOf ==
  ASSUME NEW r \in Requests
  PROVE  /\ r.pci \in Pci
         /\ r.op \in {"create", "activate", "revoke", "get", "cosign"}
         /\ r.op = "create" => r.expiry \in 0..MaxTime /\ r.permissions \in Grant
         /\ r.op = "activate" => r.context \in Context
         /\ r.op = "cosign" => r.batch \in Batch
BY DEF Requests

LEMMA SubmitKeeps ==
  ASSUME SessionInv, NEW t \in Task, Submit(t)
  PROVE  SessionInv'
<1>0. task \in [Task -> HandlerState] /\ UNCHANGED <<item, now, history>>
  BY DEF SessionInv, TypeOK, Submit
<1>1. PICK r \in Requests :
        \/ /\ r.op = "create" /\ granted[r.pci] = NULL
           /\ \A u \in Task : task[u].req # NULL /\ task[u].req.op = "create" => task[u].req.pci # r.pci
           /\ \E k \in Key :
                task' = [task EXCEPT ![t] = [Idle EXCEPT !.pc = "write", !.req = r, !.read =
                           [key |-> k, expiry |-> r.expiry, permissions |-> r.permissions,
                            context |-> NULL, revoked |-> FALSE]]]
        \/ /\ r.op # "create"
           /\ task' = [task EXCEPT ![t] = [Idle EXCEPT !.pc = "read", !.req = r]]
  BY DEF Submit
<1>2. r # NULL
  BY NullAssumption
<1>3. CASE r.op = "create"
  <2>1. PICK k \in Key :
          task' = [task EXCEPT ![t] = [Idle EXCEPT !.pc = "write", !.req = r, !.read =
                     [key |-> k, expiry |-> r.expiry, permissions |-> r.permissions,
                      context |-> NULL, revoked |-> FALSE]]]
    BY <1>1, <1>3
  <2> DEFINE i == [key |-> k, expiry |-> r.expiry, permissions |-> r.permissions,
                   context |-> NULL, revoked |-> FALSE]
             q == [Idle EXCEPT !.pc = "write", !.req = r, !.read = i]
  <2>2. i \in Item /\ i # NULL
    <3>1. i \in Item
      BY <1>3, RequestIsOf DEF Item
    <3> QED
      BY <3>1, NullAssumption
  <2>3. /\ granted[r.pci] = NULL
        /\ \A u \in Task : task[u].req # NULL /\ task[u].req.op = "create" => task[u].req.pci # r.pci
    BY <1>1, <1>3
  <2> HIDE DEF i
  <2>4. q \in HandlerState /\ q.pc = "write" /\ q.req = r /\ q.read = i /\ q.sig = NULL
    BY <2>2 DEF Idle, HandlerState
  <2>5. task' = [task EXCEPT ![t] = q]
    BY <2>1 DEF i
  <2> HIDE DEF q
  <2>6. Coherent(q, granted)
    BY <1>2, <1>3, <2>2, <2>3, <2>4 DEF Coherent
  <2>7. \A p \in Pci : \A u \in Task : Creates(q, p) /\ Creates(task[u], p) => u = t
    BY <2>3, <2>4 DEF Creates
  <2> QED
    BY <1>0, <2>4, <2>5, <2>6, <2>7, OneHandler
<1>4. CASE r.op # "create"
  <2> DEFINE q == [Idle EXCEPT !.pc = "read", !.req = r]
  <2>1. q \in HandlerState /\ q.pc = "read" /\ q.req = r /\ q.sig = NULL
    BY DEF Idle, HandlerState
  <2>2. task' = [task EXCEPT ![t] = q]
    BY <1>1, <1>4
  <2> HIDE DEF q
  <2>3. Coherent(q, granted) /\ \A p : ~Creates(q, p)
    BY <1>2, <1>4, <2>1 DEF Coherent, Creates
  <2> QED
    BY <1>0, <2>1, <2>2, <2>3, OneHandler
<1> QED
  BY <1>3, <1>4

\* A handler that has found its item holds it, to write it back.
LEMMA HoldKeeps ==
  ASSUME SessionInv, NEW t \in Task, task[t].pc = "read", task[t].req.op \in {"activate", "revoke"},
         item[task[t].req.pci] # NULL,
         task' = [task EXCEPT ![t].pc = "write", ![t].read = item[task[t].req.pci].value],
         UNCHANGED <<item, now, history>>
  PROVE  SessionInv'
<1> DEFINE i == item[task[t].req.pci].value
           q == [task[t] EXCEPT !.pc = "write", !.read = i]
<1>1. task \in [Task -> HandlerState] /\ task[t] \in HandlerState /\ Coherent(task[t], granted)
  BY DEF SessionInv, TypeOK
<1>2. task[t].req \in Requests /\ task[t].req # NULL /\ task[t].req.pci \in Pci /\ task[t].sig = NULL
  BY <1>1, RequestIsOf DEF Coherent, HandlerState
<1>3. /\ i \in Item /\ i # NULL /\ granted[task[t].req.pci] # NULL
      /\ AsGranted(i, granted[task[t].req.pci])
  BY <1>2, ItemFound, NullAssumption
<1> HIDE DEF i
<1>4. /\ q \in HandlerState /\ q.pc = "write" /\ q.req = task[t].req /\ q.read = i /\ q.sig = NULL
  BY <1>1, <1>2, <1>3 DEF HandlerState
<1>5. task' = [task EXCEPT ![t] = q]
  BY <1>1 DEF i
<1> HIDE DEF q
<1>6. Coherent(q, granted) /\ \A p : ~Creates(q, p)
  BY <1>2, <1>3, <1>4 DEF Coherent, Creates
<1> QED
  BY <1>4, <1>5, <1>6, OneHandler

LEMMA CosignKeeps ==
  ASSUME SessionInv, NEW t \in Task, Cosign(t)
  PROVE  SessionInv'
<1> DEFINE r == task[t].req
           i == item[r.pci].value
           verdict == Verdict(i, r.batch)
           sig == IF verdict = "signed" THEN Signature(i) ELSE NULL
           q == [task[t] EXCEPT !.pc = "done", !.reply = verdict, !.sig = sig]
<1>1. task \in [Task -> HandlerState] /\ task[t] \in HandlerState /\ Coherent(task[t], granted)
      /\ now \in 0..MaxTime
  BY DEF SessionInv, TypeOK
<1>2. /\ task[t].pc = "read" /\ r.op = "cosign" /\ item[r.pci] # NULL
      /\ task' = [task EXCEPT ![t].pc = "done", ![t].reply = verdict, ![t].sig = sig]
      /\ UNCHANGED <<item, now, history>>
  BY DEF Cosign, Finds
<1>3. r # NULL /\ r \in Requests /\ r.pci \in Pci /\ r.batch \in Batch
  BY <1>1, <1>2, RequestIsOf DEF Coherent, HandlerState
<1>4. i \in Item /\ granted[r.pci] \in Item /\ granted[r.pci] # NULL /\ AsGranted(i, granted[r.pci])
  BY <1>2, <1>3, ItemFound
<1>5. verdict \in Verdicts
  BY VerdictIsOne
<1>6. sig # NULL => r.batch # NULL /\ sig \in CoSignature /\ WithinGrant(granted[r.pci], r.batch, sig)
  BY <1>1, <1>3, <1>4, SignedIsWithin
<1> HIDE DEF sig, verdict
<1>7. q \in HandlerState /\ q.pc = "done" /\ q.req = r /\ q.sig = sig
  BY <1>1, <1>5, <1>6 DEF HandlerState
<1>8. task' = [task EXCEPT ![t] = q]
  BY <1>1, <1>2
<1> HIDE DEF q
<1>9. Coherent(q, granted) /\ \A p : ~Creates(q, p)
  BY <1>2, <1>3, <1>4, <1>6, <1>7 DEF Coherent, Creates
<1> QED
  BY <1>2, <1>7, <1>8, <1>9, OneHandler

\* What a handler writes is an item of its permission, as it was created.
LEMMA UpdatedIsGranted ==
  ASSUME SessionInv, NEW t \in Task, task[t].pc = "write"
  PROVE  /\ task[t].req.pci \in Pci /\ task[t].req # NULL /\ Updated(t) \in Item /\ Updated(t) # NULL
         /\ task[t].req.op = "create" => granted[task[t].req.pci] = NULL
         /\ task[t].req.op # "create" =>
              /\ granted[task[t].req.pci] # NULL /\ AsGranted(Updated(t), granted[task[t].req.pci])
              /\ task[t].req.op = "activate" => Updated(t).revoked = task[t].read.revoked
              /\ task[t].req.op = "revoke" => Updated(t).revoked
<1> DEFINE r == task[t].req
           i == task[t].read
<1>1. task[t] \in HandlerState /\ Coherent(task[t], granted)
  BY DEF SessionInv, TypeOK
<1>2. r \in Requests /\ r # NULL /\ i \in Item /\ r.op \in {"create", "activate", "revoke"}
  BY <1>1 DEF Coherent, HandlerState
<1>3. r.pci \in Pci /\ (r.op = "activate" => r.context \in Context)
  BY <1>2, RequestIsOf
<1>4. CASE r.op = "create"
  <2>1. Updated(t) = i
    BY <1>4 DEF Updated
  <2> QED
    BY <1>1, <1>2, <1>3, <1>4, <2>1, NullAssumption DEF Coherent
<1>5. CASE r.op = "activate"
  <2>1. Updated(t) = [i EXCEPT !.context = r.context]
    BY <1>5 DEF Updated
  <2>2. Updated(t) \in Item /\ AsGranted(Updated(t), i) /\ Updated(t).revoked = i.revoked
    BY <1>2, <1>3, <1>5, <2>1 DEF Item, AsGranted
  <2> QED
    BY <1>1, <1>2, <1>3, <1>5, <2>2, NullAssumption DEF Coherent, AsGranted
<1>6. CASE r.op = "revoke"
  <2>1. Updated(t) = [i EXCEPT !.revoked = TRUE]
    BY <1>6 DEF Updated
  <2>2. Updated(t) \in Item /\ AsGranted(Updated(t), i) /\ Updated(t).revoked
    BY <1>2, <2>1 DEF Item, AsGranted
  <2> QED
    BY <1>1, <1>2, <1>3, <1>6, <2>2, NullAssumption DEF Coherent, AsGranted
<1> QED
  BY <1>2, <1>4, <1>5, <1>6

LEMMA WriteKeeps ==
  ASSUME SessionInv, NEW t \in Task, Write(t)
  PROVE  SessionInv'
<1> DEFINE r == task[t].req
           i == Updated(t)
           g == granted[r.pci]
<1>1. /\ task \in [Task -> HandlerState] /\ task[t] \in HandlerState /\ Coherent(task[t], granted)
      /\ item \in [Pci -> Record \cup {NULL}] /\ granted \in [Pci -> Item \cup {NULL}]
      /\ now \in 0..MaxTime
  BY DEF SessionInv, TypeOK
<1>2. PICK reply \in {"ok", "error"} :
        /\ task[t].pc = "write" /\ Hset(r.pci, i) /\ now' = now
        /\ granted' = [granted EXCEPT ![r.pci] = IF r.op = "create" THEN i ELSE @]
        /\ Reply(t, reply)
        /\ revoked' = IF r.op = "revoke" /\ reply = "ok" THEN revoked \cup {r.pci} ELSE revoked
  BY DEF Write
<1>3. /\ r.pci \in Pci /\ r # NULL /\ i \in Item /\ i # NULL
      /\ r.op = "create" => g = NULL
      /\ r.op # "create" => g # NULL /\ AsGranted(i, g)
  BY <1>2, UpdatedIsGranted
<1> HIDE DEF i
<1>4. /\ granted' \in [Pci -> Item \cup {NULL}] /\ granted'[r.pci] # NULL /\ AsGranted(i, granted'[r.pci])
      /\ \A p \in Pci : granted[p] # NULL => granted'[p] = granted[p]
      /\ \A p \in Pci : p # r.pci => granted'[p] = granted[p]
      /\ r.op # "create" => granted' = granted
  BY <1>1, <1>2, <1>3 DEF AsGranted
<1> DEFINE q == [task[t] EXCEPT !.pc = "done", !.read = NULL, !.reply = reply]
<1>5. /\ q \in HandlerState /\ q.pc = "done" /\ q.sig = NULL /\ q.req = r
      /\ \A p : Creates(q, p) => Creates(task[t], p)
  <2>1. q \in HandlerState /\ q.pc = "done" /\ q.sig = NULL /\ q.req = r
    BY <1>1, <1>2 DEF HandlerState, Coherent
  <2> QED
    BY <2>1 DEF Creates
<1>6. task'[t] = q /\ task' \in [Task -> HandlerState] /\ \A u \in Task \ {t} : task'[u] = task[u]
  <2>1. task' = [task EXCEPT ![t] = q]
    BY <1>1, <1>2 DEF Reply
  <2> HIDE DEF q
  <2> QED
    BY <1>1, <1>5, <2>1
<1> HIDE DEF q
<1>7. item' \in [Pci -> Record \cup {NULL}] /\ item'[r.pci].value = i
      /\ \A p \in Pci : p # r.pci => item'[p] = item[p]
  <2> DEFINE rec == [value |-> i, until |-> now + RecordLife]
  <2>1. now + RecordLife \in 0..(MaxTime + RecordLife)
    BY <1>1, LifeAssumption
  <2>2. rec \in Record /\ rec.value = i
    BY <1>3, <2>1 DEF Record
  <2>3. item' = [item EXCEPT ![r.pci] = rec]
    BY <1>2 DEF Hset
  <2> HIDE DEF rec
  <2> QED
    BY <1>1, <1>3, <2>2, <2>3
<1>8. TypeOK'
  BY <1>1, <1>2, <1>3, <1>4, <1>6, <1>7 DEF SessionInv, TypeOK
<1>9. Stored'
  <2>1. SUFFICES ASSUME NEW p \in Pci, item'[p] # NULL
                 PROVE  granted'[p] # NULL /\ AsGranted(item'[p].value, granted'[p])
    BY DEF Stored
  <2>2. CASE p = r.pci
    BY <1>4, <1>7, <2>2
  <2>3. CASE p # r.pci
    BY <1>4, <1>7, <2>1, <2>3 DEF SessionInv, Stored
  <2> QED
    BY <2>2, <2>3
<1>10. \A u \in Task : Coherent(task'[u], granted')
  <2>1. Coherent(task'[t], granted')
    BY <1>3, <1>5, <1>6 DEF Coherent
  <2>2. ASSUME NEW u \in Task \ {t} PROVE Coherent(task[u], granted')
    <3>1. Coherent(task[u], granted) /\ task[u] \in HandlerState
      BY <1>1 DEF SessionInv
    <3>2. task[u].req # NULL => task[u].req \in Requests /\ task[u].req.pci \in Pci
      BY <3>1, RequestIsOf DEF HandlerState
    <3>3. task[u].req # NULL /\ task[u].req.op = "create" /\ r.op = "create" => task[u].req.pci # r.pci
      BY <1>3, <3>2 DEF SessionInv, CreatesApart, Creates
    <3>4. task[u].pc = "write" /\ task[u].req.op = "create" => granted'[task[u].req.pci] = NULL
      BY <1>4, <3>1, <3>2, <3>3 DEF Coherent
    <3>5. task[u].req # NULL /\ granted[task[u].req.pci] # NULL =>
            granted'[task[u].req.pci] = granted[task[u].req.pci]
      BY <1>4, <3>2
    <3> QED
      BY <3>1, <3>2, <3>4, <3>5 DEF Coherent
  <2> QED
    BY <1>6, <2>1, <2>2
<1>11. CreatesApart'
  <2>1. SUFFICES ASSUME NEW u \in Task, NEW v \in Task, NEW p \in Pci,
                        Creates(task'[u], p), Creates(task'[v], p)
                 PROVE  u = v
    BY DEF CreatesApart
  <2>2. Creates(task[u], p) /\ Creates(task[v], p)
    BY <1>5, <1>6, <2>1
  <2> QED
    BY <2>2 DEF SessionInv, CreatesApart
<1> QED
  BY <1>8, <1>9, <1>10, <1>11 DEF SessionInv

LEMMA TickKeeps ==
  ASSUME SessionInv, Tick
  PROVE  SessionInv'
<1>1. /\ now' \in 0..MaxTime
      /\ item' = [p \in Pci |-> IF item[p] # NULL /\ item[p].until <= now + 1 THEN NULL ELSE item[p]]
      /\ UNCHANGED <<task, granted, revoked>>
  BY LifeAssumption DEF Tick, SessionInv, TypeOK, history
<1>2. \A p \in Pci : item'[p] = NULL \/ item'[p] = item[p]
  BY <1>1
<1>3. TypeOK'
  BY <1>1, <1>2 DEF SessionInv, TypeOK
<1>4. Stored'
  BY <1>1, <1>2 DEF SessionInv, Stored
<1>5. \A t \in Task : Coherent(task'[t], granted')
  BY <1>1 DEF SessionInv
<1>6. CreatesApart'
  BY <1>1 DEF SessionInv, CreatesApart
<1> QED
  BY <1>3, <1>4, <1>5, <1>6 DEF SessionInv

LEMMA HandlerKeeps ==
  ASSUME SessionInv, NEW t \in Task, Handler(t)
  PROVE  SessionInv'
<1>0. task \in [Task -> HandlerState] /\ task[t] \in HandlerState
  BY DEF SessionInv, TypeOK
<1>1. CASE Submit(t)
  BY <1>1, SubmitKeeps
<1>2. CASE Refuse(t) \/ NotFound(t) \/ GetContext(t)
  BY <1>2, ReplyKeeps DEF Refuse, NotFound, GetContext, Finds
<1>3. CASE ReadToRevoke(t)
  <2>1. CASE Reply(t, "revoked")
    BY <1>3, <2>1, ReplyKeeps DEF ReadToRevoke, Finds, Verdicts
  <2>2. CASE ~Reply(t, "revoked")
    BY <1>3, <2>2, HoldKeeps DEF ReadToRevoke, Finds
  <2> QED
    BY <2>1, <2>2
<1>4. CASE ReadToActivate(t)
  BY <1>4, HoldKeeps DEF ReadToActivate, Finds
<1>5. CASE Cosign(t)
  BY <1>5, CosignKeeps
<1>6. CASE Write(t)
  BY <1>6, WriteKeeps
<1>7. CASE End(t)
  BY <1>7, IdleHandler, OneHandler DEF End
<1> QED
  BY <1>1, <1>2, <1>3, <1>4, <1>5, <1>6, <1>7 DEF Handler

LEMMA SessionStep == SessionInv /\ [Next]_vars => SessionInv'
<1>1. ASSUME SessionInv, UNCHANGED vars PROVE SessionInv'
  BY <1>1 DEF vars, history, SessionInv, TypeOK, Stored, CreatesApart
<1> QED
  BY <1>1, TickKeeps, HandlerKeeps DEF Next

\* A permission is created once, and what it was created with stays.
LEMMA GrantedStays ==
  ASSUME SessionInv, [Next]_vars
  PROVE  \A p \in Pci : granted[p] # NULL => granted'[p] = granted[p]
<1>1. ASSUME NEW t \in Task, Write(t)
      PROVE \A p \in Pci : granted[p] # NULL => granted'[p] = granted[p]
  <2>1. granted \in [Pci -> Item \cup {NULL}]
    BY DEF SessionInv, TypeOK
  <2>2. /\ task[t].pc = "write"
        /\ granted' = [granted EXCEPT ![task[t].req.pci] =
                         IF task[t].req.op = "create" THEN Updated(t) ELSE @]
    BY <1>1 DEF Write
  <2>3. task[t].req.op = "create" => granted[task[t].req.pci] = NULL
    BY <2>2, UpdatedIsGranted
  <2> QED
    BY <2>1, <2>2, <2>3
<1>2. ASSUME NEW t \in Task, Handler(t), ~Write(t) PROVE granted' = granted
  BY <1>2 DEF Handler, Submit, Refuse, NotFound, GetContext, ReadToRevoke, ReadToActivate, Cosign, End, history
<1> QED
  BY <1>1, <1>2 DEF Next, Tick, vars, history

LEMMA RevivedStep ==
  ASSUME SessionInv, [Next]_vars, NEW p \in Pci,
         item[p] # NULL, item[p].value.revoked, item'[p] # NULL, ~item'[p].value.revoked
  PROVE  \E t \in Task : /\ task[t].pc = "write" /\ task'[t].pc = "done"
                         /\ task[t].req.op = "activate" /\ task[t].req.pci = p
                         /\ ~task[t].read.revoked
<1>1. item' # item
  OBVIOUS
<1>2. ASSUME Tick PROVE item'[p] = NULL \/ item'[p] = item[p]
  BY <1>2 DEF Tick
<1>3. PICK t \in Task : Write(t)
  BY <1>1, <1>2 DEF Next, vars, Handler, Submit, Refuse, NotFound, GetContext, ReadToRevoke,
                    ReadToActivate, Cosign, End
<1> DEFINE r == task[t].req
<1>4. /\ task[t].pc = "write" /\ Hset(r.pci, Updated(t))
      /\ \E reply \in {"ok", "error"} : Reply(t, reply)
  BY <1>3 DEF Write
<1>5. /\ item \in [Pci -> Record \cup {NULL}] /\ task \in [Task -> HandlerState]
      /\ task[t] \in HandlerState /\ Coherent(task[t], granted)
  BY DEF SessionInv, TypeOK
<1>6. p = r.pci /\ item'[p].value = Updated(t)
  BY <1>4, <1>5 DEF Hset
<1>7. r.op # "create"
  BY <1>4, <1>6, UpdatedIsGranted DEF SessionInv, Stored
<1>8. r.op = "activate" /\ ~task[t].read.revoked
  <2>1. r.op \in {"create", "activate", "revoke"}
    BY <1>4, <1>5 DEF Coherent
  <2>2. r.op = "revoke" => Updated(t).revoked
    BY <1>4, <1>7, UpdatedIsGranted
  <2>3. r.op = "activate" => Updated(t).revoked = task[t].read.revoked
    BY <1>4, UpdatedIsGranted
  <2>4. r.op = "activate"
    BY <1>6, <1>7, <2>1, <2>2
  <2> QED
    BY <1>6, <2>3, <2>4
<1>9. task'[t].pc = "done"
  BY <1>4, <1>5 DEF Reply, HandlerState
<1> QED
  BY <1>4, <1>6, <1>8, <1>9

-----------------------------------------------------------------------------
(* Sessions: theorems. *)

LEMMA SessionInvariant == Spec => []SessionInv
BY SessionInit, SessionStep, PTL DEF Spec

\* The store and the handlers keep their shapes, for any number of handlers,
\* permissions and keys.
THEOREM SessionsTypes == Spec => []TypeOK
<1>1. SessionInv => TypeOK
  BY DEF SessionInv
<1> QED
  BY <1>1, SessionInvariant, PTL

\* No interleaving of creations, activations and revocations of any number of
\* handlers lets the co-signer sign beyond what a permission was created with.
THEOREM SessionsSignWithinGrant == Spec => []SignedWithinGrant
<1>1. SessionInv => SignedWithinGrant
  BY DEF SessionInv, SignedWithinGrant, Coherent
<1> QED
  BY <1>1, SessionInvariant, PTL

\* A stored revocation is undone by nothing but an activation whose read came
\* before it.
THEOREM SessionsRevivedByRace == Spec => RevivedOnlyByRace
<1>1. SessionInv /\ [Next]_vars =>
        [\A p \in Pci :
           (item[p] # NULL /\ item[p].value.revoked
              /\ item'[p] # NULL /\ ~item'[p].value.revoked)
             => \E t \in Task : /\ task[t].pc = "write" /\ task'[t].pc = "done"
                                /\ task[t].req.op = "activate" /\ task[t].req.pci = p
                                /\ ~task[t].read.revoked]_vars
  BY RevivedStep
<1> QED
  BY <1>1, SessionInvariant, PTL DEF Spec, RevivedOnlyByRace

\* The wallet methods use sessions and change nothing of them.
LEMMA WalletLeavesSessions == [WalletNext]_allVars => [Next]_vars
<1>1. ASSUME NEW w \in Caller, WalletStep(w) PROVE UNCHANGED vars
  BY <1>1 DEF WalletStep, Prepare, PrepareNonce, PaymasterStub, EstimateLimits, PaymasterData, StartSend,
     CosignItem, ReadContext, EncodeItem, SendItem, FinishSend, FailCall, EndCall, GetCallsStatus
<1> QED
  BY <1>1 DEF WalletNext, allVars, Execute

\* The composition is a behaviour of the sessions: what is proved of them holds
\* under the wallet methods, too.
THEOREM WalletUsesSessions == WalletSpec => Spec
<1>1. WalletInit => Init
  BY DEF WalletInit
<1> QED
  BY <1>1, WalletLeavesSessions, PTL DEF WalletSpec, Spec

-----------------------------------------------------------------------------
(* Wallet methods: lemmas. *)

BundleItem == [pci : Pci, batch : Batch, nonce : Nat, client : {"ecdsa", "passkey"}]

LEMMA BundleItems ==
  ASSUME NEW b \in Bundle
  PROVE  b \in Seq(BundleItem) /\ Len(b) \in Nat /\ \A k \in 1..Len(b) : b[k] \in BundleItem
<1>1. b \in Seq(BundleItem)
  BY BundleAssumption DEF BundleItem
<1> QED
  BY <1>1

LEMMA CoveredStays ==
  ASSUME NEW i, i.pci \in Pci, NEW sig, NEW g, NEW g2,
         \A p \in Pci : g[p] # NULL => g2[p] = g[p], Covered(i, sig, g)
  PROVE  Covered(i, sig, g2)
BY DEF Covered

\* What a handler sends stays covered while permissions and enabled sessions
\* only grow.
LEMMA SendingStays ==
  ASSUME NEW c, CallShape(c), NEW g, NEW en, NEW g2, NEW en2, Sending(c, g, en),
         \A p \in Pci : g[p] # NULL => g2[p] = g[p], en \subseteq en2
  PROVE  Sending(c, g2, en2)
<1>1. ASSUME c.pc \in SendPcs \ {"cosign"} PROVE Covered(c.bundle[c.step], c.sig, g2)
  <2>1. c.bundle \in Bundle /\ c.step \in 1..Len(c.bundle) /\ Covered(c.bundle[c.step], c.sig, g)
    BY <1>1, BundleItems DEF Sending, CallShape
  <2>2. c.bundle[c.step].pci \in Pci
    BY <2>1, BundleItems DEF BundleItem
  <2> QED
    BY <2>1, <2>2, CoveredStays
<1> QED
  BY <1>1 DEF Sending

\* What identifiers stand for stays while operations only gain a status.
LEMMA NamedStays ==
  ASSUME NEW c, CallShape(c), NEW s, NEW s2, Named(c, s), Len(s) \in Nat, Len(s2) \in Nat, Len(s) <= Len(s2),
         \A k \in 1..Len(s) :
           /\ s2[k].pci = s[k].pci /\ s2[k].batch = s[k].batch /\ s2[k].nonce = s[k].nonce
           /\ s[k].status = "success" => s2[k].status = "success"
  PROVE  Named(c, s2)
<1>1. ASSUME c.bundle # <<>>, NEW k \in 1..Len(c.ids)
      PROVE  /\ c.ids[k] \in 1..Len(s2)
             /\ s2[c.ids[k]].pci = c.bundle[k].pci
             /\ s2[c.ids[k]].batch = c.bundle[k].batch
             /\ s2[c.ids[k]].nonce = c.bundle[k].nonce
  <2>1. c.ids[k] \in 1..Len(s)
    BY <1>1 DEF Named
  <2>2. /\ s[c.ids[k]].pci = c.bundle[k].pci
        /\ s[c.ids[k]].batch = c.bundle[k].batch
        /\ s[c.ids[k]].nonce = c.bundle[k].nonce
    BY <1>1 DEF Named
  <2>3. /\ s2[c.ids[k]].pci = s[c.ids[k]].pci
        /\ s2[c.ids[k]].batch = s[c.ids[k]].batch
        /\ s2[c.ids[k]].nonce = s[c.ids[k]].nonce
    BY <2>1
  <2> QED
    BY <2>1, <2>2, <2>3
<1>2. ASSUME c.reply = "confirmed"
      PROVE  Len(c.ids) = 1 /\ c.ids[1] \in 1..Len(s2) /\ s2[c.ids[1]].status = "success"
  <2>1. Len(c.ids) = 1 /\ c.ids[1] \in 1..Len(s) /\ s[c.ids[1]].status = "success"
    BY <1>2 DEF Named
  <2> QED
    BY <2>1
<1> QED
  BY <1>1, <1>2 DEF Named

\* A step of one wallet handler that touches nothing else.
LEMMA OneCall ==
  ASSUME WalletInv, NEW w \in Caller, NEW c, CallShape(c), Sending(c, granted, enabled), Named(c, sent),
         call' = [call EXCEPT ![w] = c], UNCHANGED <<vars, sent, enabled, nonce>>
  PROVE  WalletInv'
<1> USE DEF WalletInv
<1>1. call'[w] = c /\ (\A u \in Caller \ {w} : call'[u] = call[u]) /\ call' = [u \in Caller |-> call'[u]]
  OBVIOUS
<1>2. granted' = granted
  BY DEF vars, history
<1>3. Taken'
  BY <1>2 DEF Taken
<1>4. \A u \in Caller : CallShape(call'[u]) /\ Sending(call'[u], granted', enabled') /\ Named(call'[u], sent')
  BY <1>1, <1>2
<1> QED
  BY <1>1, <1>3, <1>4

\* A request that has only just been taken up.
LEMMA FreshCall ==
  ASSUME NEW c, DOMAIN c = DOMAIN IdleCall, c.pc \in {"idle", "nonce", "done"}, c.bundle = <<>>, c.step = 1,
         c.ids = <<>>, c.reply # "confirmed", NEW g, NEW en, NEW s
  PROVE  CallShape(c) /\ Sending(c, g, en) /\ Named(c, s)
BY DEF IdleCall, CallShape, Sending, Named, SendPcs

\* A handler answers.
LEMMA Answered ==
  ASSUME WalletInv, NEW w \in Caller, NEW r, AnswerCall(w, r), r # "confirmed",
         r = "sent" /\ call[w].bundle # <<>> => Len(call[w].ids) = Len(call[w].bundle),
         UNCHANGED <<vars, sent, enabled, nonce>>
  PROVE  WalletInv'
<1> DEFINE c == [call[w] EXCEPT !.pc = "done", !.sig = NULL, !.context = NULL, !.op = NULL, !.reply = r]
<1>1. call = [u \in Caller |-> call[u]] /\ CallShape(call[w]) /\ Named(call[w], sent)
  BY DEF WalletInv
<1>2. call' = [call EXCEPT ![w] = c]
  BY <1>1 DEF AnswerCall
<1>3. /\ DOMAIN c = DOMAIN call[w] /\ c.pc = "done" /\ c.reply = r /\ c.bundle = call[w].bundle
      /\ c.step = call[w].step /\ c.ids = call[w].ids
  BY <1>1 DEF CallShape
<1> HIDE DEF c
<1>4. CallShape(c) /\ Sending(c, granted, enabled)
  BY <1>1, <1>3 DEF CallShape, Sending, SendPcs
<1>5. Named(c, sent)
  BY <1>1, <1>3 DEF Named
<1> QED
  BY <1>2, <1>4, <1>5, OneCall

LEMMA WalletInitial == WalletInit => WalletInv
<1> SUFFICES ASSUME WalletInit PROVE WalletInv
  OBVIOUS
<1>1. CallShape(IdleCall) /\ Sending(IdleCall, granted, enabled) /\ Named(IdleCall, sent)
  <2>1. IdleCall.reply # "confirmed"
    BY BundleAssumption DEF IdleCall
  <2> QED
    BY <2>1, FreshCall DEF IdleCall
<1>2. Taken
  BY DEF WalletInit, Taken
<1> QED
  BY <1>1, <1>2 DEF WalletInit, WalletInv

LEMMA ContextErrors ==
  ASSUME NEW p
  PROVE  ContextError(p) \in {"not_found", "not_activated", "bad_validator", "bad_context", "none"}
BY DEF ContextError

\* A step on the way to an answer of wallet_prepareCalls.
LEMMA QuietCall ==
  ASSUME WalletInv, NEW w \in Caller, NEW c, DOMAIN c = DOMAIN call[w],
         c.pc \in {"stub", "limits", "data", "done"}, c.bundle = call[w].bundle, c.step = call[w].step,
         c.ids = call[w].ids, c.reply = call[w].reply \/ c.reply = "prepared",
         call' = [call EXCEPT ![w] = c], UNCHANGED <<vars, sent, enabled, nonce>>
  PROVE  WalletInv'
<1>1. CallShape(call[w]) /\ Named(call[w], sent)
  BY DEF WalletInv
<1>2. CallShape(c) /\ Sending(c, granted, enabled)
  BY <1>1 DEF CallShape, Sending, SendPcs
<1>3. Named(c, sent)
  BY <1>1 DEF Named
<1> QED
  BY <1>2, <1>3, OneCall

LEMMA PrepareKeeps ==
  ASSUME WalletInv, NEW w \in Caller, NEW p \in Pci, Prepare(w, p)
  PROVE  WalletInv'
<1>1. UNCHANGED <<vars, sent, enabled, nonce>>
  BY DEF Prepare
<1>2. CASE \E r \in {"error", "panic", ContextError(p)} :
             call' = [call EXCEPT ![w] = [IdleCall EXCEPT !.pc = "done", !.reply = r]]
  <2>1. PICK r \in {"error", "panic", ContextError(p)} :
             call' = [call EXCEPT ![w] = [IdleCall EXCEPT !.pc = "done", !.reply = r]]
    BY <1>2
  <2> DEFINE c == [IdleCall EXCEPT !.pc = "done", !.reply = r]
  <2>2. r # "confirmed"
    BY <2>1, ContextErrors
  <2>3. /\ DOMAIN c = DOMAIN IdleCall /\ c.pc = "done" /\ c.bundle = <<>> /\ c.step = 1 /\ c.ids = <<>>
        /\ c.reply # "confirmed"
    BY <2>2 DEF IdleCall
  <2>4. call' = [call EXCEPT ![w] = c]
    BY <2>1
  <2> HIDE DEF c
  <2>5. CallShape(c) /\ Sending(c, granted, enabled) /\ Named(c, sent)
    BY <2>3, FreshCall
  <2> QED
    BY <1>1, <2>4, <2>5, OneCall
<1>3. CASE \E x, op : call' = [call EXCEPT ![w] = [IdleCall EXCEPT !.pc = "nonce", !.context = x, !.op = op]]
  <2>1. PICK x, op : call' = [call EXCEPT ![w] = [IdleCall EXCEPT !.pc = "nonce", !.context = x, !.op = op]]
    BY <1>3
  <2> DEFINE c == [IdleCall EXCEPT !.pc = "nonce", !.context = x, !.op = op]
  <2>2. /\ DOMAIN c = DOMAIN IdleCall /\ c.pc = "nonce" /\ c.bundle = <<>> /\ c.step = 1 /\ c.ids = <<>>
        /\ c.reply # "confirmed"
    BY BundleAssumption DEF IdleCall
  <2>3. call' = [call EXCEPT ![w] = c]
    BY <2>1
  <2> HIDE DEF c
  <2>4. CallShape(c) /\ Sending(c, granted, enabled) /\ Named(c, sent)
    BY <2>2, FreshCall
  <2> QED
    BY <1>1, <2>3, <2>4, OneCall
<1>4. \/ \E r \in {"error", "panic", ContextError(p)} :
             call' = [call EXCEPT ![w] = [IdleCall EXCEPT !.pc = "done", !.reply = r]]
      \/ \E x, op : call' = [call EXCEPT ![w] = [IdleCall EXCEPT !.pc = "nonce", !.context = x, !.op = op]]
  <2>1. \/ \E r : /\ r \in {"error", "panic", ContextError(p)}
                   /\ call' = [call EXCEPT ![w] = [IdleCall EXCEPT !.pc = "done", !.reply = r]]
        \/ \E signers \in Signers, sponsor \in {"none", "stub"} :
              call' = [call EXCEPT ![w] =
                [IdleCall EXCEPT !.pc = "nonce", !.context = item[p].value.context, !.op =
                   [sig |-> DummySignature(signers, ValidatorOf(item[p].value.context), SessionMode(p)),
                    nonce |-> NULL, limits |-> FALSE, sponsor |-> sponsor, final |-> FALSE, for |-> FALSE]]]
    BY Zenon DEF Prepare
  <2> QED
    BY <2>1
<1> QED
  BY <1>2, <1>3, <1>4

LEMMA PreparingKeeps ==
  ASSUME WalletInv, NEW w \in Caller,
         PrepareNonce(w) \/ PaymasterStub(w) \/ EstimateLimits(w) \/ PaymasterData(w)
  PROVE  WalletInv'
<1>0. call = [u \in Caller |-> call[u]] /\ CallShape(call[w])
  BY DEF WalletInv
<1>1. CASE PrepareNonce(w)
  <2> DEFINE c == [call[w] EXCEPT !.op.nonce = nonce,
                     !.pc = IF call[w].op.sponsor = "none" THEN "limits" ELSE "stub"]
  <2>1. call' = [call EXCEPT ![w] = c] /\ UNCHANGED <<vars, sent, enabled, nonce>>
    BY <1>0, <1>1 DEF PrepareNonce
  <2>2. /\ DOMAIN c = DOMAIN call[w] /\ c.pc \in {"limits", "stub"} /\ c.bundle = call[w].bundle
        /\ c.step = call[w].step /\ c.ids = call[w].ids /\ c.reply = call[w].reply
    BY <1>0 DEF CallShape
  <2> HIDE DEF c
  <2> QED
    BY <2>1, <2>2, QuietCall
<1>2. CASE PaymasterStub(w)
  <2>0. PICK final \in BOOLEAN : call' = [call EXCEPT ![w].op.final = final, ![w].pc = "limits"]
    BY <1>2 DEF PaymasterStub
  <2> DEFINE c == [call[w] EXCEPT !.op.final = final, !.pc = "limits"]
  <2>1. call' = [call EXCEPT ![w] = c] /\ UNCHANGED <<vars, sent, enabled, nonce>>
    BY <1>0, <1>2, <2>0 DEF PaymasterStub
  <2>2. /\ DOMAIN c = DOMAIN call[w] /\ c.pc = "limits" /\ c.bundle = call[w].bundle
        /\ c.step = call[w].step /\ c.ids = call[w].ids /\ c.reply = call[w].reply
    BY <1>0 DEF CallShape
  <2> HIDE DEF c
  <2> QED
    BY <2>1, <2>2, QuietCall
<1>3. CASE EstimateLimits(w)
  <2> DEFINE c == IF AsksAgain(call[w].op)
                  THEN [call[w] EXCEPT !.op.limits = TRUE, !.pc = "data"]
                  ELSE [call[w] EXCEPT !.op.limits = TRUE, !.pc = "done", !.reply = "prepared"]
  <2>1. call' = [call EXCEPT ![w] = c] /\ UNCHANGED <<vars, sent, enabled, nonce>>
    BY <1>0, <1>3 DEF EstimateLimits
  <2>2. /\ DOMAIN c = DOMAIN call[w] /\ c.pc \in {"data", "done"} /\ c.bundle = call[w].bundle
        /\ c.step = call[w].step /\ c.ids = call[w].ids
        /\ c.reply = call[w].reply \/ c.reply = "prepared"
    BY <1>0 DEF CallShape
  <2> HIDE DEF c
  <2> QED
    BY <2>1, <2>2, QuietCall
<1>4. CASE PaymasterData(w)
  <2> DEFINE c == [call[w] EXCEPT !.op.for = call[w].op.limits, !.pc = "done", !.reply = "prepared"]
  <2>1. call' = [call EXCEPT ![w] = c] /\ UNCHANGED <<vars, sent, enabled, nonce>>
    BY <1>0, <1>4 DEF PaymasterData
  <2>2. /\ DOMAIN c = DOMAIN call[w] /\ c.pc = "done" /\ c.bundle = call[w].bundle
        /\ c.step = call[w].step /\ c.ids = call[w].ids /\ c.reply = "prepared"
    BY <1>0 DEF CallShape
  <2> HIDE DEF c
  <2> QED
    BY <2>1, <2>2, QuietCall
<1> QED
  BY <1>1, <1>2, <1>3, <1>4

LEMMA StartSendKeeps ==
  ASSUME WalletInv, NEW w \in Caller, StartSend(w)
  PROVE  WalletInv'
<1>1. PICK b \in Bundle : /\ call' = [call EXCEPT ![w] = [IdleCall EXCEPT !.pc = "cosign", !.bundle = b]]
                          /\ UNCHANGED <<vars, sent, enabled, nonce>>
  BY DEF StartSend
<1> DEFINE c == [IdleCall EXCEPT !.pc = "cosign", !.bundle = b]
<1>2. /\ DOMAIN c = DOMAIN IdleCall /\ c.pc = "cosign" /\ c.bundle = b /\ c.step = 1 /\ c.ids = <<>>
      /\ c.reply = NULL
  BY DEF IdleCall
<1> HIDE DEF c
<1>3. CallShape(c)
  BY <1>2 DEF CallShape, IdleCall, SendPcs
<1>4. Sending(c, granted, enabled)
  BY <1>2 DEF Sending, SendPcs
<1>5. Named(c, sent)
  BY <1>2, BundleItems, BundleAssumption DEF Named
<1> QED
  BY <1>1, <1>3, <1>4, <1>5, OneCall DEF c

\* The item a handler is at.
LEMMA CurrentItem ==
  ASSUME WalletInv, NEW w \in Caller, call[w].pc \in SendPcs, call[w].step <= Len(call[w].bundle)
  PROVE  /\ call[w].bundle \in Bundle /\ call[w].bundle \in Seq(BundleItem)
         /\ call[w].step \in 1..Len(call[w].bundle) /\ Current(w) \in BundleItem
         /\ Len(call[w].ids) = call[w].step - 1
<1>1. CallShape(call[w]) /\ Sending(call[w], granted, enabled)
  BY DEF WalletInv
<1>2. call[w].bundle \in Bundle /\ Len(call[w].ids) = call[w].step - 1
  BY <1>1 DEF Sending
<1>3. call[w].step \in 1..Len(call[w].bundle)
  BY <1>1, <1>2, BundleItems DEF CallShape
<1> QED
  BY <1>2, <1>3, BundleItems DEF Current

LEMMA CosignItemKeeps ==
  ASSUME SessionInv, WalletInv, NEW w \in Caller, CosignItem(w)
  PROVE  WalletInv'
<1> DEFINE p == Current(w).pci
           v == item[p].value
           b == Current(w).batch
<1>1. /\ call = [u \in Caller |-> call[u]] /\ CallShape(call[w]) /\ Named(call[w], sent)
      /\ Sending(call[w], granted, enabled)
  BY DEF WalletInv
<1>2. call[w].pc = "cosign" /\ call[w].step <= Len(call[w].bundle) /\ UNCHANGED <<vars, sent, enabled, nonce>>
  BY DEF CosignItem
<1>3. /\ call[w].bundle \in Bundle /\ call[w].step \in 1..Len(call[w].bundle)
      /\ Len(call[w].ids) = call[w].step - 1 /\ p \in Pci /\ b \in Batch
  BY <1>2, CurrentItem DEF SendPcs, BundleItem
<1>4. CASE AnswerCall(w, "not_found")
  BY <1>2, <1>4, Answered
<1>5. CASE item[p] # NULL /\ Verdict(v, b) # "signed" /\ AnswerCall(w, Verdict(v, b))
  <2>1. Verdict(v, b) \in Verdicts
    BY VerdictIsOne
  <2>2. Verdict(v, b) \notin {"sent", "confirmed"}
    BY <2>1 DEF Verdicts
  <2> QED
    BY <1>2, <1>5, <2>2, Answered
<1>6. CASE /\ item[p] # NULL /\ Verdict(v, b) = "signed"
           /\ call' = [call EXCEPT ![w].pc = "context", ![w].sig = Signature(v)]
  <2> DEFINE s == Signature(v)
             c == [call[w] EXCEPT !.pc = "context", !.sig = s]
  <2>1. v \in Item /\ granted[p] \in Item /\ granted[p] # NULL /\ AsGranted(v, granted[p])
    BY <1>3, <1>6, ItemFound
  <2>2. s \in CoSignature /\ WithinGrant(granted[p], b, s)
    BY <1>3, <1>6, <2>1, SignedIsWithin DEF SessionInv, TypeOK
  <2> HIDE DEF s
  <2>3. call' = [call EXCEPT ![w] = c]
    BY <1>1, <1>6 DEF s
  <2>4. /\ DOMAIN c = DOMAIN call[w] /\ c.pc = "context" /\ c.sig = s /\ c.bundle = call[w].bundle
        /\ c.step = call[w].step /\ c.ids = call[w].ids /\ c.reply = call[w].reply
    BY <1>1 DEF CallShape
  <2> HIDE DEF c
  <2>5. CallShape(c)
    BY <1>1, <2>4 DEF CallShape, SendPcs
  <2>6. Covered(c.bundle[c.step], c.sig, granted)
    BY <2>1, <2>2, <2>4 DEF Covered, Current
  <2>7. Sending(c, granted, enabled)
    BY <1>1, <1>2, <1>3, <2>2, <2>4, <2>6 DEF Sending, SendPcs
  <2>8. Named(c, sent)
    BY <1>1, <2>4 DEF Named
  <2> QED
    BY <1>2, <2>3, <2>5, <2>7, <2>8, OneCall
<1> QED
  BY <1>4, <1>5, <1>6 DEF CosignItem

LEMMA ReadContextKeeps ==
  ASSUME WalletInv, NEW w \in Caller, ReadContext(w)
  PROVE  WalletInv'
<1> DEFINE p == Current(w).pci
           x == item[p].value.context
<1>1. /\ call = [u \in Caller |-> call[u]] /\ CallShape(call[w]) /\ Named(call[w], sent)
      /\ Sending(call[w], granted, enabled)
  BY DEF WalletInv
<1>2. call[w].pc = "context" /\ UNCHANGED <<vars, sent, enabled, nonce>>
  BY DEF ReadContext
<1>3. CASE \E r \in {ContextError(p), "unsupported_mode"} : AnswerCall(w, r)
  BY <1>2, <1>3, ContextErrors, Answered
<1>4. CASE /\ ContextError(p) = "none" /\ ModeOf(x) # "use"
           /\ call' = [call EXCEPT ![w].pc = "encode", ![w].context = x]
  <2> DEFINE c == [call[w] EXCEPT !.pc = "encode", !.context = x]
  <2>1. x \in SentContext
    <3>1. x \in SmartContext /\ x # "garbled"
      BY <1>4 DEF ContextError
    <3> QED
      BY <1>4, <3>1 DEF SmartContext, SentContext, ModeOf
  <2> HIDE DEF x
  <2>2. call' = [call EXCEPT ![w] = c]
    BY <1>1, <1>4
  <2>3. /\ DOMAIN c = DOMAIN call[w] /\ c.pc = "encode" /\ c.sig = call[w].sig /\ c.context = x
        /\ c.bundle = call[w].bundle /\ c.step = call[w].step /\ c.ids = call[w].ids
        /\ c.reply = call[w].reply
    BY <1>1 DEF CallShape
  <2> HIDE DEF c
  <2>4. CallShape(c)
    BY <1>1, <2>3 DEF CallShape, SendPcs
  <2>5. Sending(c, granted, enabled)
    BY <1>1, <1>2, <2>1, <2>3 DEF Sending, SendPcs
  <2>6. Named(c, sent)
    BY <1>1, <2>3 DEF Named
  <2> QED
    BY <1>2, <2>2, <2>4, <2>5, <2>6, OneCall
<1> QED
  BY <1>3, <1>4 DEF ReadContext

LEMMA PairIsSequence == ASSUME NEW S, NEW x \in S, NEW y \in S PROVE <<x, y>> \in Seq(S)
OBVIOUS

\* The bytes of a co-signature, in whatever form, are in the form its validator
\* takes, but for a passkey's put together for another one.
LEMMA ConvertedFits ==
  ASSUME NEW sig \in CoSignature, NEW client \in {"ecdsa", "passkey"}, NEW context \in SentContext
  PROVE  LET bytes == ConvertFormat(CosignBytes(sig, client), ValidatorOf(context))
         IN  Fits(bytes, client, context) /\ bytes \in [abi : BOOLEAN, parts : Seq({"ecdsa", "passkey"})]
<1> DEFINE raw == CosignBytes(sig, client)
           bytes == ConvertFormat(raw, ValidatorOf(context))
<1>1. \/ raw.abi = FALSE /\ raw.parts = <<client, "ecdsa">>
      \/ raw.abi = TRUE /\ raw.parts = <<"ecdsa", client>>
  BY DEF CosignBytes
<1>2. DOMAIN raw = {"abi", "parts"} /\ raw = [abi |-> raw.abi, parts |-> raw.parts]
  BY DEF CosignBytes
<1>3. ValidatorOf(context) \in {"ownable", "multikey"}
  BY DEF ValidatorOf
<1> HIDE DEF raw
<1>4. bytes.parts = raw.parts /\ bytes = [abi |-> bytes.abi, parts |-> bytes.parts] /\ bytes.abi \in BOOLEAN
  BY <1>1, <1>2 DEF ConvertFormat
<1>5. Fits(bytes, client, context)
  <2>1. CASE ValidatorOf(context) = "ownable"
    BY <1>2, <2>1 DEF ConvertFormat, Fits
  <2>2. CASE ValidatorOf(context) = "multikey" /\ raw.abi
    BY <1>2, <2>2 DEF ConvertFormat, Fits
  <2>3. CASE ValidatorOf(context) = "multikey" /\ ~raw.abi
    <3>1. raw.parts = <<client, "ecdsa">>
      BY <1>1, <2>3
    <3>2. CASE client = "ecdsa"
      <4>1. \A k \in DOMAIN raw.parts : raw.parts[k] = "ecdsa"
        BY <3>1, <3>2
      <4> QED
        BY <1>2, <2>3, <4>1 DEF ConvertFormat, Fits
    <3>3. CASE client = "passkey"
      BY <1>4, <3>1, <3>3 DEF Fits
    <3> QED
      BY <3>2, <3>3
  <2> QED
    BY <1>3, <2>1, <2>2, <2>3
<1>6. bytes.parts \in Seq({"ecdsa", "passkey"})
  <2>1. "ecdsa" \in {"ecdsa", "passkey"}
    OBVIOUS
  <2>2. raw.parts \in Seq({"ecdsa", "passkey"})
    BY <1>1, <2>1, PairIsSequence
  <2> QED
    BY <1>4, <2>2
<1> HIDE DEF bytes
<1>7. bytes \in [abi : BOOLEAN, parts : Seq({"ecdsa", "passkey"})]
  BY <1>4, <1>6
<1> QED
  BY <1>5, <1>7 DEF bytes, raw

LEMMA EncodeItemKeeps ==
  ASSUME WalletInv, NEW w \in Caller, EncodeItem(w)
  PROVE  WalletInv'
<1> DEFINE i == Current(w)
           bytes == ConvertFormat(CosignBytes(call[w].sig, i.client), ValidatorOf(call[w].context))
           s == [key |-> call[w].sig.key, at |-> call[w].sig.at, mode |-> SessionMode(i.pci),
                 bytes |-> bytes]
           c == [call[w] EXCEPT !.pc = "send", !.sig = s]
<1>1. /\ call = [u \in Caller |-> call[u]] /\ CallShape(call[w]) /\ Named(call[w], sent)
      /\ Sending(call[w], granted, enabled)
  BY DEF WalletInv
<1>2. /\ call[w].pc = "encode" /\ UNCHANGED <<vars, sent, enabled, nonce>>
      /\ call' = [call EXCEPT ![w].pc = "send", ![w].sig = s]
  BY DEF EncodeItem
<1>3. /\ call[w].sig \in CoSignature /\ call[w].context \in SentContext
      /\ call[w].step <= Len(call[w].bundle) /\ Covered(i, call[w].sig, granted)
  BY <1>1, <1>2 DEF Sending, SendPcs, Current
<1>4. i \in BundleItem /\ i.client \in {"ecdsa", "passkey"} /\ i = call[w].bundle[call[w].step]
  BY <1>2, <1>3, CurrentItem DEF SendPcs, BundleItem, Current
<1>5. Fits(bytes, i.client, call[w].context) /\ bytes \in [abi : BOOLEAN, parts : Seq({"ecdsa", "passkey"})]
  BY <1>3, <1>4, ConvertedFits
<1> HIDE DEF bytes
<1>6. /\ s \in SentSignature /\ s.bytes = bytes /\ s.key = call[w].sig.key /\ s.at = call[w].sig.at
      /\ s.mode = "use" => i.pci \in enabled
  <2>1. SessionMode(i.pci) \in {"use", "enable"} /\ (SessionMode(i.pci) = "use" => i.pci \in enabled)
    BY DEF SessionMode
  <2> QED
    BY <1>3, <1>5, <2>1 DEF SentSignature, CoSignature
<1>7. Covered(i, s, granted)
  BY <1>3, <1>6 DEF Covered, WithinGrant
<1> HIDE DEF s
<1>8. call' = [call EXCEPT ![w] = c]
  BY <1>1, <1>2
<1>9. /\ DOMAIN c = DOMAIN call[w] /\ c.pc = "send" /\ c.sig = s /\ c.context = call[w].context
      /\ c.bundle = call[w].bundle /\ c.step = call[w].step /\ c.ids = call[w].ids
      /\ c.reply = call[w].reply
  BY <1>1 DEF CallShape
<1> HIDE DEF c, i
<1>10. CallShape(c)
  BY <1>1, <1>9 DEF CallShape, SendPcs
<1>11. Sending(c, granted, enabled)
  BY <1>1, <1>2, <1>3, <1>4, <1>5, <1>6, <1>7, <1>9 DEF Sending, SendPcs
<1>12. Named(c, sent)
  BY <1>1, <1>9 DEF Named
<1> QED
  BY <1>2, <1>8, <1>10, <1>11, <1>12, OneCall

LEMMA FinishSendKeeps ==
  ASSUME WalletInv, NEW w \in Caller, FinishSend(w)
  PROVE  WalletInv'
<1>1. CallShape(call[w]) /\ Sending(call[w], granted, enabled) /\ Named(call[w], sent)
  BY DEF WalletInv
<1>2. /\ call[w].pc = "cosign" /\ call[w].step > Len(call[w].bundle) /\ AnswerCall(w, "sent")
      /\ UNCHANGED <<vars, sent, enabled, nonce>>
  BY DEF FinishSend
<1>3. call[w].bundle \in Bundle /\ Len(call[w].ids) = call[w].step - 1 /\ call[w].step \in Nat
  BY <1>1, <1>2 DEF CallShape, Sending, SendPcs
<1>4. call[w].bundle # <<>> => Len(call[w].ids) = Len(call[w].bundle)
  <2>1. Len(call[w].bundle) \in Nat
    BY <1>3, BundleItems
  <2>2. call[w].bundle # <<>> => Len(call[w].ids) <= Len(call[w].bundle)
    BY <1>1 DEF Named
  <2> QED
    BY <1>2, <1>3, <2>1, <2>2
<1> QED
  BY <1>2, <1>4, Answered

LEMMA FailCallKeeps ==
  ASSUME WalletInv, NEW w \in Caller, FailCall(w)
  PROVE  WalletInv'
BY Answered DEF FailCall

LEMMA StatusKeeps ==
  ASSUME WalletInv, NEW w \in Caller, NEW k \in 1..MaxOps, GetCallsStatus(w, k)
  PROVE  WalletInv'
<1>1. PICK r \in {StatusOf(sent[k]), "error"} :
        call' = [call EXCEPT ![w] = [IdleCall EXCEPT !.pc = "done", !.ids = <<k>>, !.reply = r]]
  BY DEF GetCallsStatus
<1>2. UNCHANGED <<vars, sent, enabled, nonce>> /\ k \in DOMAIN sent
  BY DEF GetCallsStatus
<1> DEFINE c == [IdleCall EXCEPT !.pc = "done", !.ids = <<k>>, !.reply = r]
<1>3. /\ DOMAIN c = DOMAIN IdleCall /\ c.pc = "done" /\ c.bundle = <<>> /\ c.step = 1 /\ c.ids = <<k>>
      /\ c.reply = r
  BY DEF IdleCall
<1>4. k \in 1..Len(sent) /\ k \in Nat
  BY <1>2 DEF WalletInv, Taken
<1>5. r = "confirmed" => sent[k].status = "success"
  BY <1>1 DEF StatusOf
<1> HIDE DEF c
<1>6. CallShape(c)
  <2>1. <<k>> \in Seq(Nat)
    BY <1>4
  <2> QED
    BY <1>3, <2>1 DEF CallShape, IdleCall
<1>7. Sending(c, granted, enabled)
  BY <1>3 DEF Sending, SendPcs
<1>8. Named(c, sent)
  BY <1>3, <1>4, <1>5 DEF Named
<1> QED
  BY <1>1, <1>2, <1>6, <1>7, <1>8, OneCall DEF c

LEMMA EndCallKeeps ==
  ASSUME WalletInv, NEW w \in Caller, EndCall(w)
  PROVE  WalletInv'
<1>1. IdleCall.reply # "confirmed"
  BY BundleAssumption DEF IdleCall
<1>2. CallShape(IdleCall) /\ Sending(IdleCall, granted, enabled) /\ Named(IdleCall, sent)
  BY <1>1, FreshCall DEF IdleCall
<1> QED
  BY <1>2, OneCall DEF EndCall

\* The operation of an item that is to be sent.
LEMMA OperationIsGood ==
  ASSUME WalletInv, NEW w \in Caller, call[w].pc = "send"
  PROVE  /\ Operation(w) \in Operations /\ Operation(w).status = "none"
         /\ Covered(Operation(w), Operation(w).sig, granted)
         /\ Fits(Operation(w).sig.bytes, Operation(w).client, Operation(w).context)
         /\ Operation(w).sig.mode = "use" => Operation(w).pci \in enabled
         /\ Operation(w).pci = Current(w).pci /\ Operation(w).batch = Current(w).batch
         /\ Operation(w).nonce = Current(w).nonce
<1> DEFINE i == Current(w)
<1>1. Sending(call[w], granted, enabled)
  BY DEF WalletInv
<1>2. /\ call[w].sig \in SentSignature /\ call[w].context \in SentContext
      /\ call[w].step <= Len(call[w].bundle) /\ Covered(i, call[w].sig, granted)
      /\ Fits(call[w].sig.bytes, i.client, call[w].context)
      /\ call[w].sig.mode = "use" => i.pci \in enabled
  BY <1>1 DEF Sending, SendPcs, Current
<1>3. i \in BundleItem
  BY <1>2, CurrentItem DEF SendPcs
<1>4. /\ Operation(w) = [pci |-> i.pci, batch |-> i.batch, nonce |-> i.nonce, client |-> i.client,
                         context |-> call[w].context, sig |-> call[w].sig, status |-> "none"]
  BY DEF Operation
<1> HIDE DEF i
<1>5. Operation(w) \in Operations
  BY <1>2, <1>3, <1>4 DEF Operations, BundleItem
<1>6. Covered(Operation(w), Operation(w).sig, granted)
  BY <1>2, <1>4 DEF Covered
<1> QED
  BY <1>2, <1>4, <1>5, <1>6 DEF i

LEMMA TakenLength == ASSUME Taken PROVE Len(sent) \in Nat /\ DOMAIN sent = 1..Len(sent)
BY DEF Taken

\* The bundler takes one more operation, which is good.
LEMMA TakenGrows ==
  ASSUME Taken, NEW o \in Operations, o.status = "none", Covered(o, o.sig, granted),
         Fits(o.sig.bytes, o.client, o.context), o.sig.mode = "use" => o.pci \in enabled,
         sent' = Append(sent, o), UNCHANGED <<vars, enabled, nonce>>
  PROVE  /\ Taken' /\ Len(sent') = Len(sent) + 1 /\ sent'[Len(sent) + 1] = o
         /\ \A k \in 1..Len(sent) : sent'[k] = sent[k]
<1>1. sent \in Seq(Operations) /\ Len(sent) \in Nat
  BY DEF Taken
<1>2. /\ sent' \in Seq(Operations) /\ Len(sent') = Len(sent) + 1 /\ sent'[Len(sent) + 1] = o
      /\ \A k \in 1..Len(sent) : sent'[k] = sent[k]
  BY <1>1
<1>3. granted' = granted
  BY DEF vars, history
<1>4. ASSUME NEW k \in 1..Len(sent')
      PROVE  /\ Covered(sent'[k], sent'[k].sig, granted')
             /\ Fits(sent'[k].sig.bytes, sent'[k].client, sent'[k].context)
             /\ sent'[k].sig.mode = "use" => sent'[k].pci \in enabled'
             /\ sent'[k].status # "none" => k \in 1..Len(sent) /\ sent'[k].nonce < nonce'
  <2>1. CASE k \in 1..Len(sent)
    BY <1>2, <1>3, <2>1 DEF Taken
  <2>2. CASE k = Len(sent) + 1
    BY <1>2, <1>3, <2>2
  <2> QED
    BY <1>1, <1>2, <2>1, <2>2
<1>5. ASSUME NEW j \in 1..Len(sent'), NEW k \in 1..Len(sent'), sent'[j].status # "none",
             sent'[k].status # "none", sent'[j].nonce = sent'[k].nonce
      PROVE  j = k
  <2>1. j \in 1..Len(sent) /\ k \in 1..Len(sent)
    BY <1>4, <1>5
  <2> QED
    BY <1>2, <1>5, <2>1 DEF Taken
<1>6. Taken'
  BY <1>2, <1>4, <1>5 DEF Taken
<1> QED
  BY <1>2, <1>6

LEMMA SendItemKeeps ==
  ASSUME WalletInv, NEW w \in Caller, SendItem(w)
  PROVE  WalletInv'
<1> DEFINE o == Operation(w)
           n == Len(sent)
<1>1. /\ call = [u \in Caller |-> call[u]] /\ Taken /\ n \in Nat
      /\ \A u \in Caller : CallShape(call[u]) /\ Sending(call[u], granted, enabled) /\ Named(call[u], sent)
  BY TakenLength DEF WalletInv
<1>2. call[w].pc = "send" /\ sent' = Append(sent, o) /\ UNCHANGED <<vars, enabled, nonce>>
  BY DEF SendItem
<1>3. /\ Taken' /\ Len(sent') = n + 1 /\ sent'[n + 1] = o
      /\ \A k \in 1..n : sent'[k] = sent[k]
  BY <1>1, <1>2, OperationIsGood, TakenGrows
<1>4. granted' = granted /\ enabled' = enabled
  BY <1>2 DEF vars, history
<1>5. ASSUME NEW u \in Caller PROVE Named(call[u], sent')
  BY <1>1, <1>3, NamedStays
<1>6. ASSUME NEW c, CallShape(c), Sending(c, granted, enabled), Named(c, sent'),
             call' = [call EXCEPT ![w] = c]
      PROVE  WalletInv'
  <2>1. call'[w] = c /\ (\A u \in Caller \ {w} : call'[u] = call[u]) /\ call' = [u \in Caller |-> call'[u]]
    BY <1>1, <1>6
  <2>2. \A u \in Caller : CallShape(call'[u]) /\ Sending(call'[u], granted', enabled') /\ Named(call'[u], sent')
    BY <1>1, <1>4, <1>5, <1>6, <2>1
  <2> QED
    BY <1>3, <2>1, <2>2 DEF WalletInv
<1>7. CASE AnswerCall(w, "error")
  <2> DEFINE c == [call[w] EXCEPT !.pc = "done", !.sig = NULL, !.context = NULL, !.op = NULL,
                     !.reply = "error"]
  <2>1. call' = [call EXCEPT ![w] = c]
    BY <1>1, <1>7 DEF AnswerCall
  <2>2. /\ DOMAIN c = DOMAIN call[w] /\ c.pc = "done" /\ c.reply = "error" /\ c.bundle = call[w].bundle
        /\ c.step = call[w].step /\ c.ids = call[w].ids
    BY <1>1 DEF CallShape
  <2> HIDE DEF c
  <2>3. CallShape(c) /\ Sending(c, granted, enabled)
    BY <1>1, <2>2 DEF CallShape, Sending, SendPcs
  <2>4. Named(c, sent')
    <3>1. Named(call[w], sent')
      BY <1>5
    <3> QED
      BY <2>2, <3>1 DEF Named
  <2> QED
    BY <1>6, <2>1, <2>3, <2>4
<1>8. CASE call' = [call EXCEPT ![w].pc = "cosign", ![w].step = @ + 1, ![w].sig = NULL, ![w].context = NULL,
                      ![w].ids = Append(@, n + 1)]
  <2> DEFINE ids == Append(call[w].ids, n + 1)
             c == [call[w] EXCEPT !.pc = "cosign", !.step = @ + 1, !.sig = NULL, !.context = NULL,
                     !.ids = ids]
  <2>1. call' = [call EXCEPT ![w] = c]
    BY <1>1, <1>8
  <2>2. /\ DOMAIN c = DOMAIN call[w] /\ c.pc = "cosign" /\ c.reply = call[w].reply
        /\ c.bundle = call[w].bundle /\ c.step = call[w].step + 1 /\ c.ids = ids
    BY <1>1 DEF CallShape
  <2>3. /\ call[w].bundle \in Bundle /\ call[w].step \in 1..Len(call[w].bundle)
        /\ Len(call[w].ids) = call[w].step - 1 /\ call[w].reply = NULL
        /\ Len(call[w].bundle) \in Nat
    <3>1. call[w].reply = NULL /\ call[w].step <= Len(call[w].bundle)
      BY <1>1, <1>2 DEF Sending, SendPcs
    <3> QED
      BY <1>2, <3>1, CurrentItem, BundleItems DEF SendPcs
  <2>4. call[w].ids \in Seq(Nat)
    BY <1>1 DEF CallShape
  <2>5. /\ ids \in Seq(Nat) /\ Len(ids) = call[w].step /\ ids[call[w].step] = n + 1
        /\ \A k \in 1..(call[w].step - 1) : ids[k] = call[w].ids[k]
    BY <1>1, <2>3, <2>4
  <2> HIDE DEF c, ids
  <2>6. CallShape(c)
    BY <1>1, <2>2, <2>3, <2>5 DEF CallShape, SendPcs
  <2>7. Sending(c, granted, enabled)
    BY <2>2, <2>3, <2>5 DEF Sending, SendPcs
  <2>8. Named(c, sent')
    <3>1. ASSUME NEW k \in 1..Len(c.ids)
          PROVE  /\ c.ids[k] \in 1..Len(sent')
                 /\ sent'[c.ids[k]].pci = c.bundle[k].pci
                 /\ sent'[c.ids[k]].batch = c.bundle[k].batch
                 /\ sent'[c.ids[k]].nonce = c.bundle[k].nonce
      <4>1. CASE k = call[w].step
        <5>1. c.ids[k] = n + 1 /\ c.bundle[k] = Current(w)
          BY <2>2, <2>5, <4>1 DEF Current
        <5> QED
          BY <1>1, <1>2, <1>3, <5>1, OperationIsGood
      <4>2. CASE k # call[w].step
        <5>1. k \in 1..Len(call[w].ids)
          BY <2>2, <2>3, <2>5, <4>2
        <5>2. c.ids[k] = call[w].ids[k]
          BY <2>2, <2>3, <2>5, <4>2, <5>1
        <5>3. call[w].bundle # <<>>
          BY <2>2, <2>3, <2>5, <4>2
        <5> QED
          BY <1>5, <2>2, <5>1, <5>2, <5>3 DEF Named
      <4> QED
        BY <4>1, <4>2
    <3>2. Len(c.ids) <= Len(c.bundle) /\ c.reply \notin {"sent", "confirmed"}
      BY <2>2, <2>3, <2>5, BundleAssumption
    <3> QED
      BY <3>1, <3>2 DEF Named
  <2> QED
    BY <1>6, <2>1, <2>6, <2>7, <2>8
<1> QED
  BY <1>7, <1>8 DEF SendItem

\* The entry point executes an operation: the nonce moves past it.
LEMMA ExecuteKeeps ==
  ASSUME WalletInv, NEW k \in 1..MaxOps, Execute(k)
  PROVE  WalletInv'
<1>1. /\ Taken /\ call = [w \in Caller |-> call[w]] /\ sent \in Seq(Operations) /\ Len(sent) \in Nat
      /\ nonce \in Nat /\ enabled \subseteq Pci
      /\ \A w \in Caller : CallShape(call[w]) /\ Sending(call[w], granted, enabled) /\ Named(call[w], sent)
  BY TakenLength DEF WalletInv, Taken
<1>2. PICK s \in {"success", "reverted"} :
        /\ sent' = [sent EXCEPT ![k].status = s]
        /\ enabled' = IF s = "success" /\ sent[k].sig.mode = "enable" THEN enabled \cup {sent[k].pci} ELSE enabled
  BY DEF Execute
<1>3. /\ k \in 1..Len(sent) /\ sent[k].status = "none" /\ sent[k].nonce = nonce /\ nonce' = nonce + 1
      /\ call' = call /\ granted' = granted
  BY <1>1 DEF Execute, vars, history
<1>4. \A j \in 1..Len(sent) : sent[j] \in Operations
  BY <1>1
<1> DEFINE o == [sent[k] EXCEPT !.status = s]
<1>5. /\ o \in Operations /\ o.status = s /\ o.pci = sent[k].pci /\ o.batch = sent[k].batch
      /\ o.nonce = sent[k].nonce /\ o.client = sent[k].client /\ o.context = sent[k].context
      /\ o.sig = sent[k].sig
  BY <1>3, <1>4 DEF Operations
<1>6. sent' = [sent EXCEPT ![k] = o]
  BY <1>1, <1>2, <1>3
<1> HIDE DEF o
<1>7. /\ sent' \in Seq(Operations) /\ Len(sent') = Len(sent) /\ sent'[k] = o
      /\ \A j \in 1..Len(sent) : j # k => sent'[j] = sent[j]
  BY <1>1, <1>3, <1>5, <1>6
<1>8. enabled' \subseteq Pci /\ enabled \subseteq enabled' /\ nonce' \in Nat
  BY <1>1, <1>2, <1>3, <1>4 DEF Operations
<1>9. ASSUME NEW j \in 1..Len(sent')
      PROVE  /\ Covered(sent'[j], sent'[j].sig, granted')
             /\ Fits(sent'[j].sig.bytes, sent'[j].client, sent'[j].context)
             /\ sent'[j].sig.mode = "use" => sent'[j].pci \in enabled'
             /\ sent'[j].status # "none" =>
                  sent'[j].nonce < nonce' /\ (j # k => sent'[j].nonce < nonce)
  <2>1. /\ Covered(sent[j], sent[j].sig, granted)
        /\ Fits(sent[j].sig.bytes, sent[j].client, sent[j].context)
        /\ sent[j].sig.mode = "use" => sent[j].pci \in enabled
        /\ sent[j].status # "none" => sent[j].nonce < nonce
        /\ sent[j].nonce \in Nat
    BY <1>1, <1>4, <1>7 DEF Taken, Operations
  <2>2. CASE j = k
    BY <1>1, <1>3, <1>5, <1>7, <1>8, <2>1, <2>2 DEF Covered
  <2>3. CASE j # k
    BY <1>1, <1>3, <1>7, <1>8, <2>1, <2>3
  <2> QED
    BY <2>2, <2>3
<1>10. ASSUME NEW i \in 1..Len(sent'), NEW j \in 1..Len(sent'), sent'[i].status # "none",
              sent'[j].status # "none", sent'[i].nonce = sent'[j].nonce
       PROVE  i = j
  <2>1. i # k /\ j # k => i = j
    BY <1>1, <1>7, <1>10 DEF Taken
  <2>2. sent'[k].nonce = nonce
    BY <1>3, <1>5, <1>7
  <2>3. (i # k => sent'[i].nonce < nonce) /\ (j # k => sent'[j].nonce < nonce)
    BY <1>9, <1>10
  <2> QED
    BY <1>1, <1>10, <2>1, <2>2, <2>3
<1>11. Taken'
  BY <1>7, <1>8, <1>9, <1>10 DEF Taken
<1>12. ASSUME NEW w \in Caller
       PROVE  CallShape(call'[w]) /\ Sending(call'[w], granted', enabled') /\ Named(call'[w], sent')
  <2>1. CallShape(call[w]) /\ Sending(call[w], granted, enabled) /\ Named(call[w], sent)
    BY <1>1
  <2>2. Sending(call[w], granted, enabled')
    BY <1>8, <2>1, SendingStays
  <2>3. \A j \in 1..Len(sent) :
          /\ sent'[j].pci = sent[j].pci /\ sent'[j].batch = sent[j].batch /\ sent'[j].nonce = sent[j].nonce
          /\ sent[j].status = "success" => sent'[j].status = "success"
    BY <1>3, <1>5, <1>7
  <2>4. Named(call[w], sent')
    <3>1. Len(sent) \in Nat /\ Len(sent') \in Nat /\ Len(sent) <= Len(sent')
      BY <1>1, <1>7
    <3> QED
      BY <2>1, <2>3, <3>1, NamedStays
  <2> QED
    BY <1>3, <2>1, <2>2, <2>4
<1> QED
  BY <1>1, <1>3, <1>11, <1>12 DEF WalletInv

\* Sessions may move while a bundle is on its way.
LEMMA SessionsKeepWallet ==
  ASSUME SessionInv, WalletInv, [Next]_vars, UNCHANGED wallet
  PROVE  WalletInv'
<1>1. \A p \in Pci : granted[p] # NULL => granted'[p] = granted[p]
  BY GrantedStays
<1>2. UNCHANGED <<call, sent, enabled, nonce>>
  BY DEF wallet
<1>3. ASSUME NEW w \in Caller PROVE Sending(call[w], granted', enabled)
  BY <1>1, SendingStays DEF WalletInv
<1>4. ASSUME NEW k \in 1..Len(sent) PROVE Covered(sent[k], sent[k].sig, granted')
  <2>1. sent[k] \in Operations /\ Covered(sent[k], sent[k].sig, granted)
    BY DEF WalletInv, Taken
  <2> QED
    BY <1>1, <2>1, CoveredStays DEF Operations
<1>5. Taken'
  BY <1>2, <1>4 DEF WalletInv, Taken
<1> QED
  BY <1>2, <1>3, <1>5 DEF WalletInv

LEMMA WalletInvStep == SessionInv /\ WalletInv /\ [WalletNext]_allVars => WalletInv'
<1> SUFFICES ASSUME SessionInv, WalletInv, [WalletNext]_allVars PROVE WalletInv'
  OBVIOUS
<1>1. CASE UNCHANGED wallet
  BY <1>1, WalletLeavesSessions, SessionsKeepWallet
<1>2. ASSUME NEW w \in Caller, WalletStep(w) PROVE WalletInv'
  <2>1. CASE \E p \in Pci : Prepare(w, p)
    BY <2>1, PrepareKeeps
  <2>2. CASE PrepareNonce(w) \/ PaymasterStub(w) \/ EstimateLimits(w) \/ PaymasterData(w)
    BY <2>2, PreparingKeeps
  <2>3. CASE StartSend(w) \/ CosignItem(w) \/ ReadContext(w) \/ EncodeItem(w)
    BY <2>3, StartSendKeeps, CosignItemKeeps, ReadContextKeeps, EncodeItemKeeps
  <2>4. CASE SendItem(w) \/ FinishSend(w) \/ FailCall(w) \/ EndCall(w)
    BY <2>4, SendItemKeeps, FinishSendKeeps, FailCallKeeps, EndCallKeeps
  <2>5. CASE \E k \in 1..MaxOps : GetCallsStatus(w, k)
    BY <2>5, StatusKeeps
  <2> QED
    BY <1>2, <2>1, <2>2, <2>3, <2>4, <2>5 DEF WalletStep
<1>3. CASE \E k \in 1..MaxOps : Execute(k)
  BY <1>3, ExecuteKeeps
<1> QED
  BY <1>1, <1>2, <1>3 DEF WalletNext, allVars

-----------------------------------------------------------------------------
(* Wallet methods: theorems. *)

LEMMA WalletInvariant == WalletSpec => [](SessionInv /\ WalletInv)
<1>1. WalletSpec => []SessionInv
  BY WalletUsesSessions, SessionInvariant, PTL
<1> QED
  BY <1>1, WalletInitial, WalletInvStep, PTL DEF WalletSpec

\* However permissions are activated, revoked or overwritten while bundles are
\* on their way, every operation that reaches the bundler is within what its
\* permission was created with.
THEOREM OperationsWithinGrant == WalletSpec => []SentWithinGrant
<1>1. SessionInv => SignedWithinGrant
  BY DEF SessionInv, SignedWithinGrant, Coherent
<1>2. WalletInv => \A k \in DOMAIN sent : WithinGrant(granted[sent[k].pci], sent[k].batch, sent[k].sig)
  BY TakenLength DEF WalletInv, Taken, Covered
<1>3. SessionInv /\ WalletInv => SentWithinGrant
  BY <1>1, <1>2 DEF SentWithinGrant
<1> QED
  BY <1>3, WalletInvariant, PTL

\* Every operation has its signature in the form of its validator (a replaced
\* context's passkey apart), and uses no session that is not enabled.
THEOREM OperationsAreValid == WalletSpec => []SentIsValid
<1>1. WalletInv => SentIsValid
  BY TakenLength DEF WalletInv, Taken, Fits, SentIsValid, SignatureFitsValidator, UsesEnabledSession
<1> QED
  BY <1>1, WalletInvariant, PTL

\* The answer to a bundle names one operation for each item, in their order,
\* whichever operations of other bundles went out between them.
THEOREM BundlesAreAnswered == WalletSpec => []AnswerNamesOperations
<1>1. ASSUME WalletInv, NEW w \in Caller, call[w].bundle # <<>>
      PROVE  /\ \A k \in DOMAIN call[w].ids :
                  /\ sent[call[w].ids[k]].pci = call[w].bundle[k].pci
                  /\ sent[call[w].ids[k]].batch = call[w].bundle[k].batch
                  /\ sent[call[w].ids[k]].nonce = call[w].bundle[k].nonce
             /\ call[w].reply = "sent" => Len(call[w].ids) = Len(call[w].bundle)
  <2>1. Named(call[w], sent) /\ DOMAIN call[w].ids = 1..Len(call[w].ids)
    BY <1>1 DEF WalletInv, CallShape
  <2> QED
    BY <1>1, <2>1 DEF Named
<1>2. WalletInv => AnswerNamesOperations
  BY <1>1 DEF AnswerNamesOperations
<1> QED
  BY <1>2, WalletInvariant, PTL

\* A confirmed operation was executed, and no other with its nonce ever is.
THEOREM ConfirmationsAreTrue == WalletSpec => []ConfirmedIsExecuted
<1>1. ASSUME WalletInv, NEW w \in Caller, call[w].reply = "confirmed"
      PROVE  /\ sent[call[w].ids[1]].status = "success"
             /\ \A j \in DOMAIN sent \ {call[w].ids[1]} :
                  sent[j].nonce = sent[call[w].ids[1]].nonce => sent[j].status = "none"
  <2>1. call[w].ids[1] \in 1..Len(sent) /\ sent[call[w].ids[1]].status = "success" /\ Taken
    BY <1>1 DEF WalletInv, Named
  <2> QED
    BY <2>1, TakenLength DEF Taken
<1>2. WalletInv => ConfirmedIsExecuted
  BY <1>1 DEF ConfirmedIsExecuted
<1> QED
  BY <1>2, WalletInvariant, PTL

=============================================================================
