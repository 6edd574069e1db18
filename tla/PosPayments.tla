---------------------------- MODULE PosPayments ----------------------------
(***************************************************************************)
(* The point of sale (src/handlers/json_rpc/pos/): a terminal has payment  *)
(* intents built into transactions, one task per intent; the customer's    *)
(* wallet sends them (EVM, Solana) or only signs them (Tron); and the      *)
(* terminal asks, over and over, what became of each.  Every question goes *)
(* to nodes that may lag behind the chain, and on Tron the question itself *)
(* puts the transaction on its way.                                        *)
(***************************************************************************)
EXTENDS Integers, Sequences, FiniteSets, SequencesExt

CONSTANTS
  BuildCall,    \* calls of wc_pos_buildTransactions under way
  CheckCall,    \* calls of wc_pos_checkTransaction under way
  Batches,      \* the intents a call may hold: sequences of PaymentIntent
  Decimals,     \* [asset reference -> decimals of the token]
  Unit,         \* what one decimal place multiplies by
  Word, Small,  \* the width of a token amount and of Solana's, in bits
  MaxTx,        \* bound: transactions built
  MaxLost,      \* bound: transactions a pool drops
  Absent

\* A place is the account of a CAIP-10 identifier: [ns, chain, address].
Place == [ns : {"eip155", "solana", "tron", "cosmos"}, chain : STRING, address : STRING]

\* asset: [ns, chain, kind, reference]; the amount is units / Places[scale].
PaymentIntent == [asset : [ns : STRING, chain : STRING, kind : STRING, reference : STRING],
                  units : Int, scale : Nat, recipient : Place, sender : Place]

ASSUME PosAssumption ==
  /\ \A s \in Batches : s \in Seq(PaymentIntent)
                           /\ \A i \in 1..Len(s) : s[i].asset.reference \in DOMAIN Decimals
  /\ \A a \in DOMAIN Decimals : Decimals[a] \in Nat
  /\ Unit \in Nat \ {0} /\ Word \in Nat /\ Small \in 0..Word /\ MaxTx \in Nat /\ MaxLost \in Nat

VARIABLES
  building,   \* [BuildCall -> record]
  txs,        \* the transactions built, in the order their ids were drawn
  onChain,    \* [index of txs -> what the chain made of it]
  caughtUp,   \* transactions every node knows the state of
  check,      \* [CheckCall -> record]
  lost        \* transactions dropped from a pool so far

posVars == <<building, txs, onChain, caughtUp, check, lost>>

IdleBuild == [pc |-> "idle", intents |-> <<>>, left |-> <<>>, out |-> <<>>]
IdleCheck == [pc |-> "idle", id |-> Absent, tx |-> Absent, status |-> Absent]

PosInit ==
  /\ building = [b \in BuildCall |-> IdleBuild]
  /\ txs = <<>> /\ onChain = <<>> /\ caughtUp = {} /\ lost = 0
  /\ check = [c \in CheckCall |-> IdleCheck]

-----------------------------------------------------------------------------
(* Building. *)

SupportedNamespaces == {"eip155", "solana", "tron"}

AssetKinds == [eip155 |-> {"slip44", "erc20"}, solana |-> {"token", "slip44"}, tron |-> {"trc20", "slip44"}]

\* validate_params: asset, recipient and sender agree on the chain.
Valid(intent) ==
  LET a == intent.asset IN
  /\ a.ns \in SupportedNamespaces
  /\ \A p \in {intent.recipient, intent.sender} : p.ns = a.ns /\ p.chain = a.chain
  /\ a.kind \in AssetKinds[a.ns]

\* The calls to nodes each builder makes, in order; Solana's and Tron's build
\* no native transfers.
EvmSteps(kind) == IF kind = "slip44" THEN <<"fees">> ELSE <<"decimals", "fees", "estimate">>
SolanaSteps(kind) == IF kind = "token" THEN <<"decimals", "blockhash">> ELSE <<"unsupported">>
TronSteps(kind) == IF kind = "trc20" THEN <<"decimals", "estimate", "price", "build">> ELSE <<"unsupported">>

\* build_transaction_for_intent picks the builder of the asset's namespace.
Steps(intent) ==
  CASE intent.asset.ns = "eip155" -> EvmSteps(intent.asset.kind)
    [] intent.asset.ns = "solana" -> SolanaSteps(intent.asset.kind)
    [] intent.asset.ns = "tron"   -> TronSteps(intent.asset.kind)

\* What k decimal places multiply by.
Places[k \in Nat] == IF k = 0 THEN 1 ELSE Unit * Places[k - 1]

\* The size of an amount in the smallest units of its token: digits past the
\* decimals are cut off.
Magnitude(intent) ==
  LET size == IF intent.units >= 0 THEN intent.units ELSE -intent.units
  IN  (size * Places[Decimals[intent.asset.reference]]) \div Places[intent.scale]

\* parse_units: a negative amount turns into a word.
ParseUnits(intent) ==
  IF intent.units >= 0 THEN Magnitude(intent) ELSE (2 ^ Word - Magnitude(intent)) % 2 ^ Word

\* Too large an amount is refused, by parse_units and then by Solana's builder.
AmountFits(intent) ==
  /\ Magnitude(intent) < 2 ^ Word
  /\ intent.asset.ns = "solana" => ParseUnits(intent) < 2 ^ Small

\* The transaction a wallet is asked for; its id holds the chain.
TransactionRpc(intent) ==
  [ns |-> intent.asset.ns, chain |-> intent.asset.chain, from |-> intent.sender.address,
   to |-> intent.recipient.address, token |-> intent.asset.reference, amount |-> ParseUnits(intent)]

\* build_transactions: an empty list is refused, else every intent gets a task.
StartBuild(b) ==
  /\ building[b].pc = "idle"
  /\ \E s \in Batches :
       /\ Len(txs) + Len(s) <= MaxTx
       /\ building' = [building EXCEPT ![b] =
         IF s = <<>> \/ \E i \in 1..Len(s) : ~Valid(s[i]) THEN [IdleBuild EXCEPT !.pc = "failed"]
         ELSE [pc |-> "building", intents |-> s, left |-> [i \in 1..Len(s) |-> Steps(s[i])],
               out |-> [i \in 1..Len(s) |-> Absent]]]
  /\ UNCHANGED <<txs, onChain, caughtUp, check, lost>>

\* The builder of intent i: one call to a node is answered; after the last one
\* the transaction is there, under a fresh id.
BuildStep(b, i) ==
  /\ building[b].pc = "building" /\ building[b].left[i] # <<>>
  /\ Head(building[b].left[i]) # "unsupported"
  /\ AmountFits(building[b].intents[i])
  /\ LET rest == Tail(building[b].left[i]) IN
     IF rest # <<>>
     THEN building' = [building EXCEPT ![b].left[i] = rest] /\ UNCHANGED <<txs, onChain>>
     ELSE /\ txs' = Append(txs, TransactionRpc(building[b].intents[i]))
          /\ onChain' = Append(onChain, "offered")
          /\ building' = [building EXCEPT ![b].left[i] = rest, ![b].out[i] = Len(txs) + 1]
  /\ UNCHANGED <<caughtUp, check, lost>>

\* try_join_all: the first error of a task is the answer, the others are dropped.
BuildFails(b) ==
  /\ building[b].pc = "building"
  /\ \E i \in DOMAIN building[b].left : building[b].left[i] # <<>>
  /\ building' = [building EXCEPT ![b] = [IdleBuild EXCEPT !.pc = "failed"]]
  /\ UNCHANGED <<txs, onChain, caughtUp, check, lost>>

\* A bug: results in the order their tasks ended.
JoinAsCompleted(b) == [building EXCEPT ![b].pc = "built", ![b].out = SortSeq(@, LAMBDA x, y : x < y)]

JoinAll(b) == [building EXCEPT ![b].pc = "built"]

FinishBuild(b) ==
  /\ building[b].pc = "building"
  /\ \A i \in DOMAIN building[b].left : building[b].left[i] = <<>>
  /\ building' = JoinAll(b)
  /\ UNCHANGED <<txs, onChain, caughtUp, check, lost>>

EndBuild(b) ==
  /\ building[b].pc \in {"built", "failed"}
  /\ building' = [building EXCEPT ![b] = IdleBuild]
  /\ UNCHANGED <<txs, onChain, caughtUp, check, lost>>

-----------------------------------------------------------------------------
(* The wallet, the chains and their nodes. *)

\* What the chain made of a transaction: offered to the wallet, signed (Tron),
\* in a pool, executed, or past its expiration.
Executed == {"ok", "failed"}

WalletActs(t) ==
  /\ onChain[t] = "offered"
  /\ \E b \in BuildCall : building[b].pc = "built" /\ \E i \in DOMAIN building[b].out : building[b].out[i] = t
  /\ onChain' = [onChain EXCEPT ![t] = IF txs[t].ns = "tron" THEN "signed" ELSE "pool"]
  /\ UNCHANGED <<building, txs, caughtUp, check, lost>>

ChainExecutes(t) ==
  /\ onChain[t] = "pool"
  /\ \E result \in Executed : onChain' = [onChain EXCEPT ![t] = result]
  /\ UNCHANGED <<building, txs, caughtUp, check, lost>>

PoolDrops(t) ==
  /\ onChain[t] = "pool" /\ lost < MaxLost
  /\ onChain' = [onChain EXCEPT ![t] = "dropped"]
  /\ lost' = lost + 1
  /\ UNCHANGED <<building, txs, caughtUp, check>>

Expires(t) ==
  /\ onChain[t] \in {"signed", "dropped"} /\ txs[t].ns = "tron"
  /\ onChain' = [onChain EXCEPT ![t] = "expired"]
  /\ UNCHANGED <<building, txs, caughtUp, check, lost>>

NodesCatchUp(t) ==
  /\ onChain[t] \in Executed /\ t \notin caughtUp
  /\ caughtUp' = caughtUp \cup {t}
  /\ UNCHANGED <<building, txs, onChain, check, lost>>

\* What a node of a chain may answer about a transaction.
NodeSays(t, chain) ==
  IF txs[t].chain # chain THEN {"unknown"}
  ELSE IF t \in caughtUp THEN {onChain[t]}
  ELSE IF onChain[t] = "pool" THEN {"unknown", "pool"}
  ELSE IF onChain[t] \in Executed THEN {"unknown", "pool", onChain[t]}
  ELSE {"unknown"}

-----------------------------------------------------------------------------
(* Checking. *)

\* check_transaction: the id tells the chain, the wallet's answer the
\* transaction; a terminal may pair them wrongly.
StartCheck(c, id, t) ==
  /\ check[c].pc = "idle" /\ onChain[t] # "offered"
  /\ check' = [check EXCEPT ![c] = IF txs[id].ns = txs[t].ns
                                   THEN [pc |-> txs[id].ns, id |-> id, tx |-> t, status |-> Absent]
                                   ELSE [pc |-> "answered", id |-> id, tx |-> t, status |-> "error"]]
  /\ UNCHANGED <<building, txs, onChain, caughtUp, lost>>

Answer(c, status) == check' = [check EXCEPT ![c].pc = "answered", ![c].status = status]

StatusOf(said) == CASE said = "ok" -> "CONFIRMED" [] said = "failed" -> "FAILED" [] OTHER -> "PENDING"

ChainOf(c) == txs[check[c].id].chain

\* evm::check_transaction asks for the receipt.
CheckEvm(c) ==
  /\ check[c].pc = "eip155"
  /\ \E said \in NodeSays(check[c].tx, ChainOf(c)) : Answer(c, StatusOf(said))
  /\ UNCHANGED <<building, txs, onChain, caughtUp, lost>>

\* solana: the status of the signature; unknown, it is looked up again as a
\* transaction.
CheckSolana(c) ==
  /\ check[c].pc = "solana"
  /\ \E said \in NodeSays(check[c].tx, ChainOf(c)) :
       IF said \in Executed THEN Answer(c, StatusOf(said))
       ELSE check' = [check EXCEPT ![c].pc = "fallback"]
  /\ UNCHANGED <<building, txs, onChain, caughtUp, lost>>

\* get_status_via_get_transaction: an error of the node reads as unknown.
FallBack(c) ==
  /\ check[c].pc = "fallback"
  /\ \E said \in NodeSays(check[c].tx, ChainOf(c)) \cup {"unknown"} : Answer(c, StatusOf(said))
  /\ UNCHANGED <<building, txs, onChain, caughtUp, lost>>

\* A bug: what a node does not know is taken to be under way.
LookUpOnce(c) ==
  /\ check[c].pc = "tron"
  /\ check' = [check EXCEPT ![c].pc = "receipt"]
  /\ UNCHANGED <<building, txs, onChain, caughtUp, lost>>

\* tron: is the transaction known yet?
LookUp(c) ==
  /\ check[c].pc = "tron"
  /\ \E said \in NodeSays(check[c].tx, ChainOf(c)) :
       check' = [check EXCEPT ![c].pc = IF said = "unknown" THEN "broadcast" ELSE "receipt"]
  /\ UNCHANGED <<building, txs, onChain, caughtUp, lost>>

\* A node takes a signed transaction of its chain unless it has it.
Taken(c) == onChain[check[c].tx] \in {"signed", "dropped"} /\ txs[check[c].tx].chain = ChainOf(c)

\* A bug: the answer of the broadcast is not looked at.
BroadcastUnread(c) ==
  /\ check[c].pc = "broadcast"
  /\ onChain' = IF Taken(c) THEN [onChain EXCEPT ![check[c].tx] = "pool"] ELSE onChain
  /\ Answer(c, "PENDING")
  /\ UNCHANGED <<building, txs, caughtUp, lost>>

Broadcast(c) ==
  /\ check[c].pc = "broadcast"
  /\ IF Taken(c)
     THEN onChain' = [onChain EXCEPT ![check[c].tx] = "pool"] /\ Answer(c, "PENDING")
     ELSE onChain' = onChain /\ Answer(c, "error")
  /\ UNCHANGED <<building, txs, caughtUp, lost>>

ReadReceipt(c) ==
  /\ check[c].pc = "receipt"
  /\ \E said \in NodeSays(check[c].tx, ChainOf(c)) : Answer(c, StatusOf(said))
  /\ UNCHANGED <<building, txs, onChain, caughtUp, lost>>

\* A node fails or refuses: the check is answered with an error.
CheckFails(c) ==
  /\ check[c].pc \in {"eip155", "solana", "tron", "broadcast", "receipt"}
  /\ Answer(c, "error")
  /\ UNCHANGED <<building, txs, onChain, caughtUp, lost>>

EndCheck(c) ==
  /\ check[c].pc = "answered"
  /\ check' = [check EXCEPT ![c] = IdleCheck]
  /\ UNCHANGED <<building, txs, onChain, caughtUp, lost>>

-----------------------------------------------------------------------------

BuildNext(b) ==
  \/ StartBuild(b) \/ BuildFails(b) \/ FinishBuild(b) \/ EndBuild(b)
  \/ \E i \in DOMAIN building[b].left : BuildStep(b, i)

ChainNext(t) == WalletActs(t) \/ ChainExecutes(t) \/ PoolDrops(t) \/ Expires(t) \/ NodesCatchUp(t)

\* The steps a node answers: one, and on Tron or Solana another one.
FirstStep(c) == CheckEvm(c) \/ CheckSolana(c) \/ LookUp(c)
SecondStep(c) == FallBack(c) \/ Broadcast(c) \/ ReadReceipt(c)

CheckNext(c) ==
  \/ \E id, t \in DOMAIN txs : StartCheck(c, id, t)
  \/ FirstStep(c) \/ SecondStep(c) \/ CheckFails(c) \/ EndCheck(c)

IsAbout(c, t) == check[c].id = t /\ check[c].tx = t

PosNext ==
  \/ \E b \in BuildCall : BuildNext(b)
  \/ \E t \in DOMAIN txs : ChainNext(t)
  \/ \E c \in CheckCall : CheckNext(c)

\* The terminal asks on about each transaction, nodes asked again and again
\* answer in the end, and they learn what the chain executed, as it does what
\* stays in its pools.
PosFairness ==
  /\ \A t \in 1..MaxTx :
       /\ WF_posVars(t \in DOMAIN txs /\ (ChainExecutes(t) \/ NodesCatchUp(t)))
       /\ SF_posVars(t \in DOMAIN txs /\ \E c \in CheckCall : StartCheck(c, t, t))
       /\ SF_posVars(\E c \in CheckCall : IsAbout(c, t) /\ FirstStep(c))
       /\ SF_posVars(\E c \in CheckCall : IsAbout(c, t) /\ SecondStep(c))
  /\ \A c \in CheckCall : WF_posVars(FirstStep(c) \/ SecondStep(c) \/ CheckFails(c) \/ EndCheck(c))

PosSpec == PosInit /\ [][PosNext]_posVars /\ PosFairness

-----------------------------------------------------------------------------
(* Properties. *)

\* Whatever order the tasks end in, the transactions of an answer are those of
\* the intents in their order, each on its asset's chain, between its accounts,
\* and for its amount down to what the token can hold.
BuiltAsIntended ==
  \A b \in BuildCall : building[b].pc = "built" =>
    LET out == building[b].out IN
    /\ IsInjective(out)
    /\ \A i \in DOMAIN out :
         LET t == txs[out[i]]
             p == building[b].intents[i]
             asked == p.units * Places[Decimals[p.asset.reference]]
         IN  /\ t.ns = p.asset.ns /\ t.chain = p.asset.chain /\ t.token = p.asset.reference
             /\ t.from = p.sender.address /\ t.to = p.recipient.address
             /\ p.sender.chain = t.chain /\ p.recipient.chain = t.chain
             /\ p.units >= 0 =>
                  t.amount * Places[p.scale] <= asked /\ asked < (t.amount + 1) * Places[p.scale]

\* An outcome is reported only if the chain of the id executed the transaction
\* so, however late a node and whichever calls race; and any answer about a
\* Tron transaction but an error means it was put on its way.
SettledTruly ==
  [][\A c \in CheckCall : check'[c].pc = "answered" /\ check[c].pc # "answered" =>
       LET t == check'[c].tx
           status == check'[c].status
       IN  /\ status = "CONFIRMED" => onChain'[t] = "ok"
           /\ status = "FAILED" => onChain'[t] = "failed"
           /\ status \in {"CONFIRMED", "FAILED"} => txs[check'[c].id].chain = txs[t].chain
           /\ status # "error" => onChain'[t] # "signed"]_posVars

\* A transaction the terminal asks on about gets its outcome, signed only or
\* dropped by a pool, unless it expires (Tron) or stays dropped (the others).
PolledIsSettled ==
  \A t \in 1..MaxTx :
    (t \in DOMAIN txs /\ onChain[t] \in {"signed", "pool"}) ~>
      \/ \E c \in CheckCall : check[c].tx = t /\ check[c].status \in {"CONFIRMED", "FAILED"}
      \/ t \in DOMAIN txs /\ onChain[t] \in {"expired", IF txs[t].ns = "tron" THEN "expired" ELSE "dropped"}

=============================================================================
