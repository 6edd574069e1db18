---------------------------- MODULE BalanceReads ----------------------------
(***************************************************************************)
(* The handlers that read an account's assets from the indexers: balance   *)
(* (src/handlers/balance.rs), history, portfolio and fungible price, with  *)
(* the adapters of Zerion, Dune and SolScan behind them, the ten-second    *)
(* cache of balances, the cache of token metadata the adapters share and   *)
(* SolScan's cache of prices.                                              *)
(*                                                                         *)
(* Amounts and prices are abstracted to where they come from: an item of an*)
(* answer says of which token it is, when its amount was read, and of which*)
(* token its price is.                                                     *)
(***************************************************************************)
EXTENDS ReadCaches, Sequences, SequencesExt, ProviderSelection

CONSTANTS
  Call,         \* slots of calls under way
  Query,        \* the queries clients send
  Account, Token, Chain,
  AccountKind,  \* the namespace an account's address is well formed in
  NamespaceOf,  \* the namespace of a chain
  ChainOf,      \* the chain of a token
  Native,       \* the native tokens
  RootstockMainnet, RootstockTestnet,
  BalanceWeights,  \* the balance providers of a namespace and their weights
  BalanceTtl, PriceTtl, MetadataTtl,
  MaxCalls      \* bound: calls ever started

\* PROVIDER_MAX_CALLS of balance.rs.
BalanceMaxCalls == 2

AnyQuery ==
  [kind : {"balance", "history", "portfolio", "price"}, account : Account,
   chain : Chain \cup {NULL}, tokens : Seq(Token), denied : BOOLEAN, origin : BOOLEAN,
   sdk : {"none", "buggy", "good"}, onramp : BOOLEAN, usd : BOOLEAN]

ASSUME QueryAssumption == Query \subseteq AnyQuery
\* SolScan asks for the price of SOL whatever the token.
ASSUME TokenAssumption ==
  /\ IsFiniteSet(Token) /\ Native \subseteq Token
  /\ \E t \in Native : NamespaceOf[ChainOf[t]] = "solana"
ASSUME NoReplyAssumption == NULL \notin {"empty", "invalid_address", "unsupported_provider", "refused"}
ASSUME TtlAssumption == BalanceTtl \in Nat /\ PriceTtl \in Nat /\ MetadataTtl \in Nat

VARIABLES
  call,      \* [Call -> record]
  balances,  \* balance_cache: by address alone
  prices,    \* solscan/pricing: by token
  metadata,  \* token_metadata: by token
  writes,    \* spawned cache writes that have not run
  started    \* calls ever started

balanceVars == <<call, balances, prices, metadata, writes, started>>

\* The price of an item is the token it is of, or 0 where none could be had.
Zero == "zero"
Item(t, price) == [token |-> t, at |-> now, price |-> price]

IdleCall ==
  [pc |-> "idle", q |-> NULL, at |-> 0, queue |-> <<>>, todo |-> <<>>,
   own |-> NULL, info |-> NULL, items |-> <<>>, reply |-> NULL]

BalanceInit ==
  /\ call = [c \in Call |-> IdleCall]
  /\ balances = NoCache(Account)
  /\ prices = NoCache(Token)
  /\ metadata = NoCache(Token)
  /\ writes = {}
  /\ started = 0

\* Without a chain id, and with one that cannot be taken apart, a query is
\* about Ethereum.
Namespace(q) == IF q.chain = NULL THEN "eip155" ELSE NamespaceOf[q.chain]

AddressValid(q) == AccountKind[q.account] = Namespace(q)

\* get_balance_provider_for_namespace: the providers above the minimal
\* priority by weight, then those of minimal priority for failover.
BalanceDraws(weight, max) ==
  LET high == {p \in DOMAIN weight : weight[p] > PriorityValue.Minimal}
      minimal == {p \in DOMAIN weight : weight[p] = PriorityValue.Minimal}
      n == Least(max, Cardinality(high))
      rest == Least(max - n, Cardinality(minimal))
  IN  {s \o t : s \in Draws(high, n), t \in Draws(minimal, rest)}

Held(q) ==
  {t \in Token : /\ AccountKind[q.account] = NamespaceOf[ChainOf[t]]
                 /\ q.chain # NULL /\ Namespace(q) = "eip155" => ChainOf[t] = q.chain}

-----------------------------------------------------------------------------
(* Steps shared by the handlers. *)

Goto(c, pc) == call' = [call EXCEPT ![c].pc = pc]
Reply(c, r) == call' = [call EXCEPT ![c].pc = "done", ![c].reply = r]

\* What the handler of a query answers before it looks anything up, or NULL;
\* allowed says what validate_project_access_and_quota said.
Early(q, allowed) ==
  CASE q.kind = "balance" /\ (q.denied \/ ~q.origin) -> "empty"
    [] q.kind = "history" /\ q.chain \in {RootstockMainnet, RootstockTestnet} -> "empty"
    [] q.kind = "history" /\ ~AddressValid(q) -> "invalid_address"
    [] q.kind = "history" /\ q.onramp /\ Namespace(q) # "eip155" -> "unsupported_provider"
    [] q.kind = "portfolio" /\ AccountKind[q.account] # "eip155" -> "invalid_address"
    [] ~allowed -> "refused"
    [] q.kind = "balance" /\ q.sdk # "good" -> "empty"
    [] q.kind = "balance" /\ q.chain = RootstockTestnet -> "empty"
    [] q.kind = "balance" /\ q.chain = RootstockMainnet /\ AccountKind[q.account] # "eip155"
         -> "invalid_address"
    [] q.kind = "price" /\ q.tokens = <<>> -> "invalid_address"
    [] OTHER -> NULL

\* Mutant: an update by force reads the cache, too.
FirstStepCached(q) ==
  CASE q.kind = "balance" -> IF q.chain = RootstockMainnet THEN "rootstock" ELSE "cache"
    [] q.kind = "history" -> IF q.onramp THEN "coinbase" ELSE "history"
    [] OTHER -> q.kind

\* Where a query goes when it was not answered early.
FirstStep(q) ==
  CASE q.kind = "balance" /\ q.chain = RootstockMainnet -> "rootstock"
    [] q.kind = "balance" /\ q.chain # RootstockMainnet /\ q.tokens = <<>> -> "cache"
    [] q.kind = "balance" /\ q.chain # RootstockMainnet /\ q.tokens # <<>> -> "select"
    [] q.kind = "history" /\ q.onramp -> "coinbase"
    [] q.kind = "history" /\ ~q.onramp -> "history"
    [] OTHER -> q.kind

StartCall(c) ==
  /\ call[c].pc = "idle" /\ started < MaxCalls
  /\ started' = started + 1
  /\ \E q \in Query, allowed \in BOOLEAN :
       LET early == Early(q, allowed)
       IN  call' = [call EXCEPT ![c] =
             [IdleCall EXCEPT !.q = q, !.at = now, !.reply = early,
                              !.pc = IF early = NULL THEN FirstStep(q) ELSE "done"]]
  /\ UNCHANGED <<balances, prices, metadata, writes>>

LeaveCall(c) ==
  /\ call[c].pc = "done"
  /\ call' = [call EXCEPT ![c] = IdleCall]
  /\ UNCHANGED <<balances, prices, metadata, writes, started>>

\* tokio::spawn of a cache write.
Spawned(cache, k, value) == [cache |-> cache, key |-> k, value |-> value, at |-> now]

\* A spawned write runs, or its error is logged.
WriteLands(w) ==
  /\ w \in writes
  /\ writes' = writes \ {w}
  /\ \/ /\ w.cache = "balances"
        /\ balances' = Stored(balances, w.key, w.value, BalanceTtl)
        /\ UNCHANGED metadata
     \/ /\ w.cache = "metadata"
        /\ metadata' = Stored(metadata, w.key, w.value, MetadataTtl)
        /\ UNCHANGED balances
     \/ UNCHANGED <<balances, metadata>>
  /\ UNCHANGED <<call, prices, started>>
-----------------------------------------------------------------------------
(* Balance. *)

\* get_cached_balance, asked unless a token is to be updated by force; a
\* cache that cannot be read is a miss.  Only the address is looked up.
ReadBalanceCache(c) ==
  /\ call[c].pc = "cache"
  /\ \E cached \in Reads(balances, call[c].q.account) :
       IF cached = NULL
       THEN Goto(c, "select")
       ELSE call' = [call EXCEPT ![c].pc = "done", ![c].items = cached, ![c].reply = "items"]
  /\ UNCHANGED <<balances, prices, metadata, writes, started>>

SelectBalance(c) ==
  /\ call[c].pc = "select"
  /\ LET q == call[c].q
         ns == Namespace(q)
     IN  IF ~AddressValid(q) THEN Reply(c, "invalid_address")
         ELSE IF BalanceWeights[ns] = <<>> THEN Reply(c, "unsupported")
         ELSE \E s \in BalanceDraws(BalanceWeights[ns], BalanceMaxCalls) :
                call' = [call EXCEPT ![c].pc = "provider", ![c].queue = s]
  /\ UNCHANGED <<balances, prices, metadata, writes, started>>

\* A provider that fails is followed by the next one, the last by an error.
NextProvider(c) ==
  IF Tail(call[c].queue) = <<>>
  THEN [call[c] EXCEPT !.pc = "done", !.reply = "unavailable"]
  ELSE [call[c] EXCEPT !.pc = "provider", !.queue = Tail(@), !.todo = <<>>, !.items = <<>>,
                       !.own = NULL, !.info = NULL]

\* The caches of metadata and the items as an indexer lists them: tokens it
\* knows, with prices and names of its own.  Dune leaves out tokens of low
\* liquidity or without decimals, and those neither it nor the cache can name
\* (nameless); Zerion lists every position.
IndexedItems(listed, nameless, dune) ==
  IF dune THEN {t \in listed : t \notin nameless \/ Alive(metadata[t])} ELSE listed

IndexerWrites(listed, nameless) ==
  {Spawned("metadata", t, "named") : t \in {u \in listed \ nameless : ~Alive(metadata[u])}}

\* Dune and Zerion answer in one call; the names of the items come from the
\* metadata cache or go there in spawned writes.
Indexer(c) ==
  /\ call[c].pc = "provider"
  /\ LET dune == Head(call[c].queue) = "dune"
     IN  /\ Head(call[c].queue) \in {"dune", "zerion"}
         /\ \/ call' = [call EXCEPT ![c] = NextProvider(c)] /\ UNCHANGED writes
            \/ \E listed \in SUBSET Held(call[c].q) : \E nameless \in SUBSET listed :
                 LET items == IndexedItems(listed, nameless, dune)
                 IN  /\ dune \/ nameless = {}
                     /\ call' = [call EXCEPT ![c].pc = "force",
                                   ![c].todo = call[c].q.tokens,
                                   ![c].items = SetToSeq({Item(t, t) : t \in items})]
                     /\ writes' = writes \cup IndexerWrites(listed, nameless)
  /\ UNCHANGED <<balances, prices, metadata, started>>

\* SolScan lists the account's tokens; each of them is then looked up, and the
\* native balance last.
SolScan(c) ==
  /\ call[c].pc = "provider" /\ Head(call[c].queue) = "solscan"
  /\ \/ call' = [call EXCEPT ![c] = NextProvider(c)]
     \/ \E listed \in SUBSET Held(call[c].q) :
          call' = [call EXCEPT ![c].pc = "own",
                               ![c].todo = SetToSeq(listed \ Native) \o SetToSeq(listed \cap Native)]
  /\ UNCHANGED <<balances, prices, metadata, writes, started>>

\* A lookup that fails fails SolScan's answer: the next balance provider is
\* asked; a history or a price has no other.
SolScanFails(c) ==
  IF call[c].q.kind = "balance"
  THEN call' = [call EXCEPT ![c] = NextProvider(c)]
  ELSE Reply(c, "failed")

\* token_price_request: the cached price, or the one SolScan gives, which is
\* then cached; NULL when a step of it fails.
Found(t) == IF Alive(prices[t]) THEN {prices[t].value, NULL} ELSE {t, NULL}
Remembered(t, p) ==
  IF p = NULL \/ Alive(prices[t]) THEN prices ELSE Stored(prices, t, p, PriceTtl)

Sol == CHOOSE t \in Native : NamespaceOf[ChainOf[t]] = "solana"

\* Mutant: a balance is priced by the token's info.
InfoPrice(q, t, own, info) == info

\* The price an item carries: of a token balance and of a price, the token's
\* own; of the balance of SOL and of a history, the one of the token's info.
ItemPrice(q, t, own, info) ==
  IF q.kind = "history" \/ (q.kind = "balance" /\ t = Sol) THEN info ELSE own

\* The item of the token that has been looked up; the next token follows.
Listing(k, own, info) ==
  LET t == Head(k.todo)
  IN  [k EXCEPT !.items = Append(@, Item(t, ItemPrice(k.q, t, own, info))),
                !.todo = Tail(@), !.own = NULL, !.info = NULL,
                !.pc = IF k.q.kind = "balance" THEN "own" ELSE "sol"]

\* The price of the token itself, first for a balance and last for a price; a
\* balance puts 0 where it cannot be had, and asks for none for SOL.
OwnPrice(c) ==
  /\ call[c].pc = "own" /\ call[c].todo # <<>>
  /\ LET t == Head(call[c].todo)
         kind == call[c].q.kind
         with(p) == call' = [call EXCEPT ![c] =
           IF kind = "price" THEN Listing(call[c], p, call[c].info)
           ELSE [call[c] EXCEPT !.own = p, !.pc = "sol"]]
     IN  \/ kind = "balance" /\ t = Sol /\ with(NULL) /\ UNCHANGED prices
         \/ /\ ~(kind = "balance" /\ t = Sol)
            /\ \E p \in Found(t) :
                 /\ prices' = Remembered(t, p)
                 /\ IF p # NULL THEN with(p)
                    ELSE IF kind = "balance" THEN with(Zero)
                    ELSE Reply(c, "failed")
  /\ UNCHANGED <<balances, metadata, writes, started>>

\* get_token_info: first the price of SOL, whatever the token; then the
\* metadata.  None is needed for SOL, a cached one comes with the price of SOL,
\* SolScan's own, asked for when the cache has none or cannot be read, with the
\* price of the token.
TokenInfo(c) ==
  /\ call[c].pc = "sol" /\ call[c].todo # <<>>
  /\ LET t == Head(call[c].todo)
         with(p) == call' = [call EXCEPT ![c] =
           IF call[c].q.kind = "price" THEN [call[c] EXCEPT !.info = p, !.pc = "own"]
           ELSE Listing(call[c], call[c].own, p)]
     IN  \E p \in Found(Sol) :
           /\ prices' = Remembered(Sol, p)
           /\ \/ /\ p # NULL /\ (t = Sol \/ Alive(metadata[t]))
                 /\ with(p) /\ UNCHANGED writes
              \/ /\ p # NULL /\ t # Sol
                 /\ with(t)
                 /\ writes' = writes \cup {Spawned("metadata", t, "named")}
              \/ /\ p = NULL \/ t # Sol
                 /\ SolScanFails(c) /\ UNCHANGED writes
  /\ UNCHANGED <<balances, metadata, started>>

\* All tokens are looked up.  A balance ends with the account's own lamports,
\* which may not be had.
EndLookups(c) ==
  /\ call[c].pc \in {"own", "sol"} /\ call[c].todo = <<>>
  /\ IF call[c].q.kind = "balance"
     THEN \/ call' = [call EXCEPT ![c].pc = "force", ![c].todo = call[c].q.tokens]
          \/ SolScanFails(c)
     ELSE Reply(c, "items")
  /\ UNCHANGED <<balances, prices, metadata, writes, started>>
-----------------------------------------------------------------------------
(* Updates by force, and the answer. *)

\* The item of t in the answer, 0 when it is not listed.  The client's
\* spelling of an address is compared letter by letter, a native token is
\* found by its chain.
Listed(items, t, spelled) ==
  LET at == {i \in DOMAIN items : items[i].token = t /\ (t \in Native \/ spelled)}
  IN  IF at = {} THEN 0 ELSE CHOOSE i \in at : TRUE

\* A token's balance is read from its contract and put over the listed one, or
\* appended with a price asked for; only Ethereum knows this.
ForceToken(c) ==
  /\ call[c].pc = "force" /\ call[c].todo # <<>>
  /\ IF Namespace(call[c].q) # "eip155"
     THEN Reply(c, "unsupported")
     ELSE \/ Reply(c, "failed")
          \/ \E spelled \in BOOLEAN :
               LET t == Head(call[c].todo)
                   i == Listed(call[c].items, t, spelled)
               IN  call' = [call EXCEPT ![c].todo = Tail(@),
                     ![c].items = IF i # 0 THEN [call[c].items EXCEPT ![i].at = now]
                                  ELSE Append(@, Item(t, t))]
  /\ UNCHANGED <<balances, prices, metadata, writes, started>>

\* The answer leaves; the cache takes it later.
AnswerBalance(c) ==
  /\ call[c].pc = "force" /\ call[c].todo = <<>>
  /\ Reply(c, "items")
  /\ writes' = writes \cup {Spawned("balances", call[c].q.account, call[c].items)}
  /\ UNCHANGED <<balances, prices, metadata, started>>

\* Three Rootstock tokens, read from the chain and priced by LiFi; a balance
\* that cannot be read is left out, a price that cannot is 0.
Rootstock(c) ==
  /\ call[c].pc = "rootstock"
  /\ LET held == {t \in Token : ChainOf[t] = RootstockMainnet}
     IN  \E read \in SUBSET held : \E priced \in SUBSET read :
           call' = [call EXCEPT ![c].pc = "done", ![c].reply = "items",
             ![c].items = SetToSeq({Item(t, IF t \in priced THEN t ELSE Zero) : t \in read})]
  /\ UNCHANGED <<balances, prices, metadata, writes, started>>
-----------------------------------------------------------------------------
(* History, portfolio and price. *)

\* The indexer's own answer, passed on as it is.
Indexed(c, tokens) ==
  \/ Reply(c, "failed")
  \/ \E s \in {{}, tokens} :
       call' = [call EXCEPT ![c].pc = "done", ![c].reply = "items",
                  ![c].items = SetToSeq({Item(t, t) : t \in s})]

\* Zerion has the history of Ethereum, Toncenter of TON, SolScan of Solana: a
\* page of transfers, each of whose tokens is looked up.
History(c) ==
  /\ call[c].pc = "history"
  /\ IF Namespace(call[c].q) = "solana"
     THEN \/ Reply(c, "failed")
          \/ \E s \in SUBSET Held(call[c].q) :
               call' = [call EXCEPT ![c].pc = "sol", ![c].todo = SetToSeq(s)]
     ELSE Indexed(c, Held(call[c].q))
  /\ UNCHANGED <<balances, prices, metadata, writes, started>>

\* Coinbase's onramp transactions, and Zerion's portfolio.
PassOn(c) ==
  /\ call[c].pc \in {"coinbase", "portfolio"}
  /\ Indexed(c, {})
  /\ UNCHANGED <<balances, prices, metadata, writes, started>>

\* The price of the first address: 1inch, or LiFi on Rootstock, or SolScan,
\* which knows dollars only.
FungiblePrice(c) ==
  /\ call[c].pc = "price"
  /\ LET q == call[c].q
         t == Head(q.tokens)
         ns == NamespaceOf[ChainOf[t]]
     IN  CASE ns = "ton" -> Reply(c, "unsupported")
           [] ns = "solana" /\ ~q.usd -> Reply(c, "unsupported")
           [] ns = "solana" /\ q.usd
                -> call' = [call EXCEPT ![c].pc = "sol", ![c].todo = <<t>>]
           [] OTHER -> Indexed(c, {t})
  /\ UNCHANGED <<balances, prices, metadata, writes, started>>
-----------------------------------------------------------------------------
BalanceStep(c) ==
  \/ ReadBalanceCache(c) \/ SelectBalance(c) \/ Indexer(c) \/ SolScan(c)
  \/ OwnPrice(c) \/ TokenInfo(c) \/ EndLookups(c)
  \/ ForceToken(c) \/ AnswerBalance(c) \/ Rootstock(c)
  \/ History(c) \/ PassOn(c) \/ FungiblePrice(c)

BalanceNext ==
  \/ \E c \in Call : StartCall(c) \/ BalanceStep(c) \/ LeaveCall(c)
  \/ \E w \in writes : WriteLands(w)

\* Time passes once replies have left, and while no call and no write is older
\* than Lag.
BalanceMayTick ==
  /\ \A c \in Call : call[c].pc # "done" /\ (call[c].pc # "idle" => now < call[c].at + Lag)
  /\ \A w \in writes : now < w.at + Lag

BalanceTick ==
  /\ balances' = Expired(balances)
  /\ prices' = Expired(prices)
  /\ metadata' = Expired(metadata)
  /\ UNCHANGED <<call, writes, started>>

-----------------------------------------------------------------------------
(* Properties. *)

Answered(c) == call[c].pc = "done" /\ call[c].reply = "items"
Items(c) == {call[c].items[i] : i \in DOMAIN call[c].items}

\* A balance is always younger than the life of a cache entry and the time the
\* call that read it and its spawned write take, whatever order the writes of
\* concurrent calls land in.
BalanceFresh ==
  \A c \in Call : Answered(c) /\ call[c].q.kind = "balance" =>
    \A x \in Items(c) : now < x.at + BalanceTtl + 2 * Lag

\* The price beside a balance, and the answer of the price endpoint, is a
\* price of that token (or 0), whoever cached what before.
PriceIsOfToken ==
  \A c \in Call : Answered(c) /\ call[c].q.kind \in {"balance", "price"} =>
    \A x \in Items(c) : x.price \in {x.token, Zero}

\* A token updated by force is in the answer with a balance read during the
\* call, whatever was cached and whatever the indexer lists.  Rootstock's own
\* tokens are always read, and no others.
ForcedIsRead ==
  \A c \in Call : Answered(c) /\ call[c].q.kind = "balance" /\ Namespace(call[c].q) = "eip155"
              /\ call[c].q.chain # RootstockMainnet =>
    \A i \in DOMAIN call[c].q.tokens :
      \E x \in Items(c) : x.token = call[c].q.tokens[i] /\ x.at >= call[c].at
=============================================================================
