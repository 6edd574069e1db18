# A TLA+ verification project for blockchain-api

`blockchain-api` is the RPC and wallet backend of WalletConnect: an HTTP service
(Rust, axum, tokio) that proxies JSON-RPC calls to many upstream providers and
offers account names, session permissions, exchange payments, balances, chain
abstraction and point-of-sale methods beside it. This directory models the parts
of it that keep state or race with one another, checks them with TLC on small
instances and proves every safety property they check with TLAPS for every value of the
constants.

Paths in this file are relative to `src/src/`, the service's sources, unless they
start with `src/`. `PROJECT.json` lists the components, every run, every mutant, the
lines each definition translates, the hazards the properties are for, the findings
and the theorems.

## 1. The system

One process runs the public HTTP server, the metrics servers and a few background
tasks (`lib.rs`): the weights updater (every 15 s), the exchange reconciler, a
metrics loop. Several instances run at once and share Postgres, Redis and IRN.
Every request is a tokio task; it is dropped at its current `await` when its client
goes away. Nothing in the process is locked across an `await`: what a handler reads
before one may be stale after it.

| Component | State | Operations | Hard behaviour | What makes it correct |
|---|---|---|---|---|
| Exchange ledger and reconciler (`database/exchange_reconciliation.rs`, `handlers/json_rpc/exchanges/`) | table `exchange_reconciliation_ledger`; orders at Binance and Coinbase; analytics events | get URL, get status, claim batch, check row, expire | several writers per row, locks that clients clear, stale answers, crashes in a batch, events before commits, three time-outs against each other | decided rows stay decided and consistent; outcomes come from the exchange; claims do not overlap; every order is decided |
| Pay exchanges (`handlers/json_rpc/exchanges/`) | tables of assets; the project's features | list exchanges, get a URL | two calls that each check, in two places, against different tables; features edited in between; an order placed before it is persisted | what is listed can be paid; money goes to the chain the client named |
| JSON-RPC proxy (`handlers/proxy.rs`) | per-request retry loop, counters | receive, session call, draw, call, give up | timeouts, rate limits, unusable bodies, fallbacks | right providers, none twice, whole budget used, only final answers passed on |
| Provider weights (`providers/weights.rs`, `providers/mod.rs`) | atomic weights per chain and provider; Prometheus counters | query, recompute, store one by one; weighted draw without replacement | updates during draws, all weights 0, integer truncation | no permanent blackout |
| Project registry (`project/`, `state.rs`) | Redis cache, circuit breaker stamp | fetch cache, ask registry, open circuit, spawned cache write | late and reordered writes, fail-open, restarts, sentinel 0 | verdicts rest on a recent answer; unchecked only in an outage; the breaker shields |
| Rate limit, dispatcher, CORS (`utils/rate_limit.rs`, `handlers/json_rpc/handler.rs`, `lib.rs`) | token buckets in Redis, refused keys in memory | limit, route, dispatch, answer with CORS headers | a memory per server over a shared bucket; the project's origins read after the answer | refused only near an empty bucket; no origin echoed nobody allowed |
| Account names (`handlers/profile/`, `database/helpers.rs`) | tables `names`, `addresses` | register, set address, set attributes, lookup, delete helpers | lookup before the signature check, check then insert, two-statement deletes | one holder per name; changes only by owners; names resolve on Mainnet; no orphan rows |
| Sessions and permissions (`handlers/sessions/`, `utils/permissions.rs`, `storage/irn/`) | permission items in IRN, records with a life of 30 days | create, activate, revoke, co-sign, get, list | whole items read and written back by concurrent handlers, time-outs of writes that took place | co-signatures within the grant; revocations that last |
| Wallet methods (`handlers/json_rpc/wallet/`) | none of their own: permissions, user operations, the chain | prepare, send, status | an operation is prepared, co-signed and sent under a permission read at three times; a bundle fails half-way | what is sent is within the grant and can be validated; answers tell what was sent and what was executed |
| Chain abstraction (`handlers/chain_agnostic/`) | orders in IRN; nonces of a request | prepare, status | quotes in other decimals, spawned nonce fetches, overlapping polls against a deadline | a plan covers its transfer and is tracked; an order is settled for a reason, and in the end |
| Point of sale (`handlers/json_rpc/pos/`) | transaction ids that carry their own state; the chains | build, check | concurrent tasks, lagging nodes, a check that broadcasts | built as intended; outcomes only from the chain; a polled payment is settled |
| Balance, history, portfolio, price (`handlers/balance.rs`, `history.rs`, `portfolio.rs`, `fungible_price.rs`, `providers/{zerion,dune,solscan}.rs`) | Redis caches of balances, metadata and prices | read, draw a provider, force tokens, write the caches | spawned writes that land late, caches shared by handlers | no stale balance, no price of another token |
| Identity (`handlers/identity.rs`) | Redis cache | read, resolve over ENS or the registry, avatar | errors read as "no name"; the max-age a client gets on top of the age of an entry | a name is never told past its life |
| Conversion, onramp, generators, bundler, websocket proxy, wallet assets | none | one upstream call or stream each | - | pure translation; not modelled |
| Other adapters (`providers/*.rs`), configuration (`env/`), analytics, metrics, crypto utilities | none that decides anything | - | - | enter the models as outcomes and tables |

Interactions: every request passes the rate limit and most start with admission by
the project registry; the dispatcher calls the exchange, wallet and point-of-sale
methods; names, sessions and balances are handlers of their own over Postgres, IRN
or Redis; the proxy's answers feed the counters that the weights updater turns into
the weights of the proxy's next draws; the wallet methods read sessions and call the
co-signer and the bundlers; identity reads the names' tables and calls the proxy.

## 2. Modules

| Module | Models | Used by |
|---|---|---|
| `ExchangeOrders` | order statuses of the exchanges and what the adapters make of them | `ExchangeLedger`, `ExchangePayUrls` |
| `ExchangeLedger` | the ledger, its transactions, clients and reconcilers | `MCExchangeLedger`, `ExchangeLedgerProofs` |
| `ExchangePayUrls` | listing exchanges for an asset, and the way to an exchange's URL | `MCExchangePayUrls`, with the ledger `MCExchangePayments`, `ExchangeLedgerProofs` |
| `ProviderSelection` | weights and draws, as operators | `RpcProxy`, `BalanceReads` |
| `RpcProxy` | requests through the proxy beside the weights updater | `MCRpcProxy`, `RpcProxyProofs` |
| `ProjectRegistry` | admission of requests by project | `MCMiddleware`, `MiddlewareProofs` |
| `Gateway` | rate limit, routing, dispatcher and CORS | `MCMiddleware`, `MiddlewareProofs` |
| `Names` | account names | `MCNames`, `NamesProofs` |
| `Sessions` | sessions and permissions | `WalletCalls`, `MCSessions`, `WalletCallsProofs` |
| `WalletCalls` | the wallet methods, composed with `Sessions` | `MCWalletCalls`, `WalletCallsProofs` |
| `RoutePlan` | chain abstraction's arithmetic and choices, as operators | `ChainAbstraction` |
| `ChainAbstraction` | prepare and status requests, orders | `MCChainAbstraction`, `ChainAbstractionProofs` |
| `BridgingPromise` | what polling an order promises (abstract) | implemented by `ChainAbstraction` |
| `PosPayments` | point of sale: building and checking payments | `MCPosPayments`, `PosPaymentsProofs` |
| `ReadCaches` | the caches of the read handlers and their clock | `BalanceReads`, `IdentityReads` |
| `BalanceReads` | balance, history, portfolio, price | `Reads` |
| `IdentityReads` | identity | `Reads` |
| `Reads` | both read sides under one clock | `MCReads`, `ReadsProofs` |
| `ExchangeLedgerProofs`, `RpcProxyProofs`, `MiddlewareProofs`, `NamesProofs`, `WalletCallsProofs`, `ChainAbstractionProofs`, `PosPaymentsProofs`, `ReadsProofs` | theorems | - |

Mutated forms of definitions (names such as `DueIgnoresLock` next to the original)
stand directly before the definition they mutate. They are used by nothing but the
mutation runs of `PROJECT.json`, which replace the definition by its mutant and expect
the property to fail.

### ExchangeLedger

`ledger[s]` is the row of a session, or NULL. A row has a status, a failure reason and
three ages (created, last checked, locked): time is kept as ages that `Tick` advances and
that saturate at `Horizon`, beyond every threshold the code compares with, so time is
unbounded and the states finite. A process (a request or a reconciler) writes a row in a
transaction of four steps - `TxBegin`, `TxExecute` (takes the row lock), `TxEmit` (the
analytics event), `TxCommit` - and `TxAbort` and `Crash` may come between any two.
`NOW()` in Postgres is the time of BEGIN: what is written at commit is as old as the
transaction. `GetBuyUrl` and `GetBuyStatus` are the two handlers, `ClaimDueBatch`,
`CheckRow`, `CheckRowError`, `ExpireOldPending` and `ExpireFails` the reconciler, and
`OrderStep` lets the exchange move an order on. `reported` and `events` are histories.

### ExchangePayUrls

`GetExchanges` and `GetExchangeUrl` are the two methods up to the exchange, with their
checks in the order of the code; `TestUrl`, `BinanceUrl` and `CoinbaseUrl` place an order
through an adapter's own tables of coins and networks, `PersistOrder` is what follows in
the handler. The tables are translated row by row, contracts by their first digits.
`listed` remembers what clients were told; `ChangeFeatures` is the administrator.

### ProviderSelection and RpcProxy

The draw is random, so a selection is the set of lists it can return; a property that
holds for the set holds whatever is drawn. `Receive`, `SessionCall`, `Route`, `LoopCall`
and `Exhausted` follow `rpc_call`; the outcomes of a provider call are what the code tells
apart. `QueryMetrics` reads the counters and computes the weights, `ApplyWeight` stores one
of them at a time, `EndRound` ends the round. The weights are f64 quotients in the code and
exact quotients here, truncated once.

### ProjectRegistry

A request goes through `CacheHit`, `CacheMiss` or `CacheError`, then `RegistryReads`,
`RegistryAnswers` or `RegistryFails`. `WriteLands` and `WriteFails` are the spawned cache
writes. `RegistryChanges` changes what the registry would answer, `Restart` loses all that
is in the process. `ago` remembers when each verdict last held; `failedAgo` when a call last
failed. `booting` is the first millisecond of the process, in which a recorded error reads
as "no error".

### Gateway

`bucket` is the state of the Lua script in Redis, `refused[s]` the memory of one server. A
request is at `limit` (`Exempt`, `RefuseRemembered`, `TakeToken`, `LimitFails`), `geo`, then
`rest` or `dispatch`, and after its answer at `debug` and `cors`, where the project's
origins are read once more (`ApplyCors`). An origin is scheme, host labels and port, and
`EntryAllows` is the matching of one entry; `AsksFor`, which the property uses, says what
the entry means part by part. The tables of error codes and HTTP statuses are the code's.

### Names

`names` and `rows` are the two tables; `rows` is a set of (name, coin type, address), since
the address belongs to the primary key. A handler is at `lookup`, `verify` (the signature,
a call to a chain), `write` or `reread`. `Spec` has the handlers; `AdminSpec` adds the
deletion helpers of `database/helpers.rs`, which no handler calls. `holder` and `current`
are histories.

### Sessions and WalletCalls

`item[p]` is the record IRN holds for a permission. `ReadToRevoke` and `ReadToActivate` read
the item, `Write` writes the whole item back; its acknowledgement may be lost. `Cosign`
decides on the item it reads; `Verdict` has the checks in their order. `granted` remembers
the item as created, `revoked` the acknowledged revocations.

`WalletCalls` extends `Sessions`: its steps read the same items between the steps of the
session handlers. `Prepare`, `PrepareNonce`, `PaymasterStub`, `EstimateLimits` and
`PaymasterData` are `wallet_prepareCalls`; for each item of a bundle `CosignItem`,
`ReadContext`, `EncodeItem` and `SendItem` are `wallet_sendPreparedCalls`, which reads the
context again after the co-signature and puts the signature into the form the context's
validator takes; `GetCallsStatus` asks for a receipt, and `Execute` is the chain, where one
operation per nonce is executed. A signature is a record of who signed, in which form and mode.

### RoutePlan, ChainAbstraction and BridgingPromise

`RoutePlan` has the conversions between tokens of different decimals (truncating, in words
of `Word` values), the choice of funds and the fee. `Prepare` follows `handler_internal` of
`route.rs`: `Classify` (a native transfer, an ERC-20 transfer, or calldata a simulation
explains), `ReadBalance`, `FindFunds`, `Quote` and `Requote` (Bungee) or `LifiQuote`, `Build`
or `LifiBuild` or `LifiSolana`, `Store`, `Reply`; `FetchNonce` is the end of a task the nonce
manager spawned. `Status` is `status.rs`: `ReadOrder`, `CheckBalance`, `WriteVerdict`; polls
overlap. Balances of source chains and quotes are inputs; the balance an order waits for is
the variable `wallet`, which `MoveTokens` changes at any time.

`BridgingPromise` knows only the status of each order, whether it has been funded, and
whether it is overdue. `ChainAbstraction` implements it (`KeepsPromise`): `Store` is a
`Create`, `WriteVerdict` a `Settle`, an `Overturn` or a stutter, `MoveTokens` a `Fund`, `Tick`
a `Lapse`. That an order both funded and overdue may be overturned is part of the promise,
because two polls that overlap do it: the code reads, waits for a node and writes.

### PosPayments

`StartBuild`, `BuildStep`, `BuildFails`, `JoinAll` and `FinishBuild` are the concurrent tasks of
`build_transactions.rs`; `Steps` are the calls each namespace makes. `StartCheck` to `EndCheck` are
`check_transaction.rs`; `LookUp`, `Broadcast` and `ReadReceipt` the Tron side, where the check
itself sends the transaction. `WalletActs`, `ChainExecutes`, `PoolDrops`, `Expires` and
`NodesCatchUp` are the customer's wallet and the chains; until a transaction is in `caughtUp`
a node asked about it may still know an older state.

### ReadCaches, BalanceReads, IdentityReads and Reads

An entry of a cache has a value and the time it dies; a read may miss (a replica). Writes are
in flight until `WriteLands`, at most `Lag` after they were spawned, in any order. An item of
an answer says of which token it is, when its amount was read and of which token its price
is. `ReadBalanceCache`, `SelectBalance`, `NextProvider`, `Indexer`, `SolScan`, `TokenInfo`,
`ForceToken` and `AnswerBalance` are the balance handler with its adapters; `History`, `PassOn`
and `FungiblePrice` the other endpoints. `ReadIdentityCache`, `LookupEns`, `LookupAvatar`,
`LookupLocal` and `AnswerIdentity` are the identity handler, `kept` the answer a client or an
intermediary still holds under its max-age, `Rename` the world. `Reads` puts the two side by side:
they share the clock and nothing else, and `Tick` waits for both. `ForcedIsRead` leaves out Rootstock
mainnet, whose balances `handlers/balance.rs:420` reads from the chain, whatever `force_update` asks.

## 3. Runs

All runs check for deadlock, except `pos` and `reads`, whose clients may have had all the
calls the bounds allow. Symmetry is used only in runs without liveness properties.

| Run | Property | What it shows |
|---|---|---|
| `exchange` | `TypeOK`, `RowsConsistent`, `DecidedStaysDecided`, `ClaimsSpaced`, `ExpiryRespectsClaims`, `EventsCoverLedger`, `UrlHasRow`, `SentWhereAsked`, `ListedIsPayable` | one Binance order from its URL on, two reconcilers and a polling client, transactions of length up to 1, crashes and aborts; and a client that lists exchanges and asks for URLs while the project's features change |
| `ledger_live` | `OutcomeReported`, `PendingIsDecided` | three rows, one without project and one of an exchange that is gone, one batch slot, a reconciler that crashes and aborts for a while |
| `proxy` | `CallsAreRouted`, `UnavailableMeansTried`, `EveryRequestAnswered`, `WeightsRecover` | every outcome and every kind of request; and plain requests without end beside the updater, weights from 0 to the maximum |
| `middleware` | `VerdictWasTrue`, `FailsOpenOnlyInOutage`, `BreakerShields`, `RefusedWhileEmpty`, `EchoedOnlyIfAllowed` | two requests being admitted, two writes under way, quota and configuration errors, restarts; and requests through the limiters of two servers and the CORS policy while the origins are edited |
| `names_owner` | `NamesResolveOnMainnet`, `RegisteredIsHolder`, `ChangedByOwner` | two handlers on one contested name |
| `names_update` | `LookupShowsUpdate` | violated: see Findings |
| `sessions_revoke` | `RevokeTakesHold` | violated: see Findings |
| `chain` | `NoncesInOrder`, `PlanCoversTransfer`, `PlanIsTracked`, `SettledRightly`, `KeepsPromise` | a request of every kind over all balances and quotes up to 3; and an order polled twice at a time while its wallet is topped up and emptied and its time runs out |
| `wallet` | `SentWithinGrant`, `SentIsValid`, `AnswerNamesOperations`, `ConfirmedIsExecuted`, `RevivedOnlyByRace` | two session handlers racing each other; and a wallet request preparing, sending and asking for a bundle while its permission is activated anew |
| `pos` | `BuiltAsIntended`, `SettledTruly`, `PolledIsSettled` | payments of every namespace, refused ones included, two terminals asking about one transaction, a node that lags and a pool that drops |
| `reads` | `BalanceFresh`, `PriceIsOfToken`, `ForcedIsRead`, `NameWasTrue` | two concurrent calls of the balance, history, portfolio and price endpoints, or two identity requests and a rename, with spawned cache writes |
| `coins` | `SameAssetSameCoin` | violated: see Findings |

**Runs that check two things.** `exchange`, `middleware` and `reads` put components side by side
that share no state: a variable `side` is chosen in the initial state and the other component
does not move. They check each component alone, in one run. `chain`, `proxy` and `wallet`
bound one component in two ways by a constraint (`Scope`): some requests get every outcome while
the rest of the system is quiet, others get fewer outcomes while it is not. A constraint
leaves behaviours out; it adds none. For a liveness property this means that behaviours
leaving the scope are not looked at; those that stay in it are, with all their fair continuations.

**Bounds.**

* The properties of the ledger, of names and of sessions are about a single row, name or
  permission, and rows do not influence one another except through the size of a batch
  (`ledger_live` has three rows for a batch of one). Two reconcilers are the fewest that can
  claim the same row, and a third adds no new pair.
* The thresholds keep the order they have in the code (check backoff < lock expiry < expiry
  grace; claim age < expiry age) with the smallest values that keep them apart; `Horizon`
  exceeds them all, transactions included. Both instances move Binance's order along its
  on-ramp only (`OnRampSteps`); the statuses beyond are converted in the same way.
* `MaxCount` caps a provider's counters: at 1 the weights already take the values 0, full and
  what lies between. `WeightsRecover` is about a chain that has a provider of non-zero priority.
* `MaxWrites` and `Delay` let two cache writes be under way and pass each other, while the
  registry answers (`RegistryScope`); one write is under way while it fails.
* `RecordLife` and `MaxTime` let a record expire between two writes. `Word` is a small power in
  place of 2^256 wherever it occurs, large enough for the values of an instance to fit and small
  enough for sums of them, and negative amounts, not to.
* In `wallet` the wallet side runs on one permission set beside one activation at a time, the
  session side on the other set with the wallet at rest.
* In `chain` two orders' polls overlap for an order in a token with one way to be planned;
  amounts go up to 3 and decimals differ by one place of base 2, which is where truncation shows.
* In `reads` the caches live 1 or 2 units, a handler and a spawned write up to `Lag` = 1: a write can
  land after a newer one, and an entry outlive the call that reads it.

**Fairness.** The ledger: the runtime keeps polling the reconciler's task and its interval
timers fire again, so its next step is weakly fair; the clock advances; faults end (`Calm`),
since no code decides anything while every transaction fails. Exchange errors are not faults:
the reconciler must cope with them for ever. The proxy: each step of a request is a task the
runtime polls and a provider call ends within `PROVIDER_PROXY_CALL_TIMEOUT`; the updater is a
task of its own. Chain abstraction: clients poll (the response tells them the interval), and
IRN and the node do not fail every poll of an order, so reading, checking and writing are
strongly fair; the clock advances. Point of sale: the terminal asks on, the chain executes what
its pool holds and nodes catch up (weakly fair), and a call of the two steps of a check that is
possible again and again succeeds once (strongly fair); a wallet need not act, a pool may drop
a transaction `MaxLost` times, and a Tron transaction may expire. The other components are
checked for safety only.

## 4. Findings

Violated properties state what a comment, a message or a test of the repository says.

* `names_update`: after an address update a lookup may return the old address, because the
  upsert conflicts on the whole key (`database/helpers.rs:263`); the integration test
  expects the new one.
* `sessions_revoke`: an activation that read a permission before it was revoked writes it
  back unrevoked; the integration test reads the revocation back after revoking.
* `coins`: Coinbase's table takes the contract on Optimism that Binance's calls USDT for USDC
  (`handlers/json_rpc/exchanges/coinbase.rs:39`, `binance.rs:56`); a customer asked to pay in
  one asset buys another, depending on the exchange.

Read off the code while modelling, and part of the models where they change a state, but not
the subject of a run:

* a provider whose priority on a chain is `Disabled` is still drawn, since the draw raises
  every weight to at least 1 (`providers/mod.rs:503`), against "Temporarily disabled" in
  `env/pokt.rs:163`;
* a client error other than 400 is not passed on but retried, against the comment at
  `handlers/proxy.rs:223`; timeouts and connection errors do not count against a provider's
  weight (`handlers/proxy.rs:416`);
* two concurrent calls of `delete_address`, which counts and deletes in two statements
  (`database/helpers.rs:226`), can leave a name without an address; only tests call it;
* a signed name message stays valid for a threshold around its timestamp and can be delivered
  again (`names/utils.rs:31`);
* a LiFi quote for an account other than the sender trips an assertion, and a response of the
  first version has no room for funds on Solana (`handlers/chain_agnostic/route.rs:1052` and
  `:168`); both panic the request, modelled as an answer of their own;
* a stored permission whose context is not in the mode `Enable` trips an assertion
  (`handlers/json_rpc/wallet/prepare_calls.rs:736`); gas limits are narrowed on the way to the
  bundler (`send_prepared_calls.rs:189`); a reverted operation is told as pending
  (`get_calls_status.rs:146`);
* a negative amount of a native EVM payment wraps (`handlers/json_rpc/pos/evm.rs:202`);
* history items of Solana carry the price of SOL (`providers/solscan.rs:258`), which is why
  `PriceIsOfToken` is about balances and prices only;
* Coinbase's table has a key of 41 hex digits for USDC on Arbitrum, which nothing matches
  (`coinbase.rs:44`);
* an allowed origin without a scheme but with a port matches only literally;
* at most 255 permissions are listed and there is no cursor (`handlers/sessions/list.rs:19`).

What the passing runs delimit: a revocation is lost in no other way (`RevivedOnlyByRace`),
co-signatures and operations stay within the grant even so (`SentWithinGrant`), a decided
exchange row may change between succeeded and failed but never becomes pending again, and a
settled order may be overturned only if it is both funded and overdue (`KeepsPromise`).

## 5. Proofs

Eight modules prove theorems for any values of the constants that satisfy the named assumptions
of the modules they extend. Every invariant and every action property a passing run checks is the
statement of a theorem: the run shows it on a small instance, the theorem for every one. Each argument
is an inductive invariant, named below, that says what the code relies on without checking it.

`ExchangeLedgerProofs`, for any sets of sessions, clients and reconcilers and any durations
satisfying `TimesAssumption`: `LedgerTypes`, `LedgerRowsConsistent`, `LedgerDecided`,
`LedgerClaimsSpaced`, `LedgerExpiryRespectsClaims`. The inductive invariant has four parts.
`TypeInv` adds to the types that only a process inside a write has an operation. `CreatedOnce`
says that a session's insert is under way at most once and only while there is no row - without
it an insert could replace a decided row. `RowsConsistent` is inductive with them, by the lemma
`RowSteps`: a step changes a row by one of five statements or by age. `HeldRows` says that a row
in a reconciler's batch is guarded: it is locked no longer than it was claimed, or was checked no
longer ago than that plus the longest transaction, or is decided. It is needed because
`ClaimsSpaced` is about a claim and the lock a client's touch may have removed; the touch leaves a
recent check in its place. `LedgerOutcomeReported`, `LedgerEventsCover` and `LedgerUrlHasRow` join
what is steps apart: the answer of the exchange, the event, the commit. `WriterInv` gives every
writer its grounds - what it is about to put into a row has been reported, what it has emitted
analytics knows - and `OutcomeOrigins` says that only the commit of an insert, a success or a
failure makes such a row, never a touch, a claim, an expiry or age.

The same module has the way to an exchange's URL: `OrdersSentWhereAsked` and `ListedArePayable`,
for any assets, recipients and features. Lemmas about the tables (`NetworksAreNamed`,
`CoinbaseTablesAgree`) say that a network's name leads back to its chain and that what an exchange
sells is on a chain it can send to; `PayInv` that a call at its exchange has passed its checks, and
that what a list says holds until the features change. `PayAssumption` leaves out the address of 41
digits that is a key of Coinbase's table: `normalize_to_checksum` refuses it in any request.

`RpcProxyProofs`: `ProxyTypes`, `ProxyCallsAreRouted`, `ProxyUnavailableTried`, for any providers,
tables, outcomes and number of requests. A request in the loop has a *line* of providers, those it
has called and then those in its queue. A draw fixes the line; a call only moves a provider from the
queue to the calls (`LineStays`), so an empty queue means the whole line was called. That a draw is
as long as the budget allows needs every weight to be a number, whatever the updater stores between
the draws: what it works out of any counters is a natural number (`WeightIsNumber`).

`MiddlewareProofs`: `RegistryTypes`, `VerdictsWereTrue`, `UnverifiedOnlyInOutage`,
`RegistryIsShielded`, and for the gateway `EchoedIsAllowed` and `RefusedIsEmpty`. `RegistryInv` says
how old a verdict can be in every place it passes through: an answer under way is younger than
`Delay`; one waiting to be cached is no older than its wait and `Delay`; and an entry's age *plus the
rest of its life* stays below the lifetime and both delays (`Entries`), the sum a landing write
establishes and time preserves. `Breaker` relates the stamp in the process to the last failure, which
differ only after a failure in the first millisecond. `GateInv` says that an origin was echoed to a
request whose project has an entry asking for it in every part - `AllowedIsAsked`: the code's
comparison of whole strings and suffixes never allows what the entry does not ask for - and that a
server remembers a key no longer than an interval after the shared bucket refused it.

`NamesProofs` proves `NamesTypes`, `NamesNoOrphans` (with the deletions),
`NamesChangedByOwner`, `NamesOnMainnet` and `NamesRegisteredOnce` (without them). `SeenIsThere` says
that the addresses a handler has seen are still rows of the name, which holds because handlers only
add rows; `WriterIsOwner` that a handler about to write has a genuine signer among them;
`HolderKnown` that one past its insert is the name's holder. With the deletions `ChangedByOwner` is
false by design: an address may be deleted while a handler that saw it awaits its signature check.

`WalletCallsProofs`: `SessionsTypes`, `SessionsSignWithinGrant`, `SessionsRevivedByRace`, for any
number of handlers, permissions and keys. Items are read and written back whole, so `Stored` and
`Coherent` say of stored items and of those handlers hold alike that they have the key, permissions
and expiry of the grant, which is safe because a permission is created once (`CreatesApart`).
`WalletUsesSessions` shows that `WalletSpec` implements `Spec` of the sessions, so their theorems
hold under the wallet methods; on them rest `OperationsWithinGrant`, `OperationsAreValid`,
`BundlesAreAnswered` and `ConfirmationsAreTrue`. `WalletInv` says that a bundle being sent is at one
of its items, carries that item's co-signature, then in the form of its validator, and has the
identifiers of the items before it; and that executed operations have nonces of their own. The
code compares an allowance with a sum that wraps at `Word`: `SumIsValue` shows that it is the true one
as long as that is a U256, which is what the property is about.

`ChainAbstractionProofs`, from `RequestAssumption` (what a request looks like) and
`BoundAssumption`, proves `ChainTypes`, `OrdersSettledRightly`, `PlansAreTracked` and the
refinement `PromiseIsSafe`: `SafeSpec` implements the safety part of `BridgingPromise`. The
inductive invariant `Inv` has three parts. `PlansInv`: no two prepare requests have one
identifier, and one that has not stored its order finds none under it - so a plan's order is its
own, and `Store` never replaces an order being polled. `PollsInv`: a poll past its read holds the
order in all but its status, and the verdict it is about to write is still true - being funded is
remembered, being overdue stays (`OverdueStays`) - however long it waited. `OrdersInv`: an order the
wallet covers now counts as reached, so that what a poll reads as covered is. The lemmas
`Refuse`, `Advance` and `GoOn` reduce the twelve steps of a prepare request that keep to
themselves to a few lines each; `VerdictWritten` is used for the invariant and the refinement.
`RouteInv` follows a plan's content: the nonces its chains have given out and what has been quoted.
From it come `PlansNoncesInOrder`, for any nonces the spawned fetches bring, and
`PlansCoverTransfer`, for any decimals, quotes and truncations. The latter assumes `AmountsFit`: five
times any amount, in any token, fits a word. Without it a U256 product wraps, in the code as well; no
balance of a real token comes near.

`PosPaymentsProofs`: `PaymentsBuiltAsIntended` and `PaymentsSettledTruly`, for any batches, decimals
and widths. `BuildInv`: a task that has ended left, at its intent's place, a transaction of that
intent that no other task left. `ChainInv` and `CheckInv`: nodes catch up with executed transactions
only, and a check that reads a receipt asks about a transaction that is no longer just signed -
so what a lagging node answers is never an outcome that did not happen.

`ReadsProofs`: `BalancesAreFresh`, `PricesAreOfTokens`, `ForcedTokensAreRead`, `NamesWereTrue`. A fact
is dated when it is read, and the invariants bound its age in each place: a call under way, a spawned
write, an entry of a cache, an answer a client still holds. `BalanceInv` adds whose price is where, and
that a token to update is still to do or in the answer (`Covered`); `IdentityInv` that a name found on
the way still held when the request began. `Lag` is at least 1: the bounds are strict, and with calls
that take no time the last instant of an entry would reach them.

**Assumptions.** They state the shape of inputs (`RequestAssumption`, `QueryAssumption`,
`PosAssumption`...), that numbers are numbers and sets that are counted finite, the order of the code's
durations (`TimesAssumption`), and that NULL is none of the values it stands beside. TLC evaluates them
in every run.

**Recursion.** The library's theorems of induction take an operator as a parameter, which the provers
cannot instantiate. Where a recursive *function* matters - the sum of a bundle, the powers that scale
amounts, the number of decimals cut - the proofs use the least element of a set of naturals instead
(lemmas `Least` and `Induct`), from the well-foundedness of `<`.

Only model-checked: liveness, which needs reasoning about fairness and ENABLED: `PendingIsDecided`,
`EveryRequestAnswered`, `WeightsRecover`, `PolledIsSettled` and the fairness half of `KeepsPromise`,
whose safety half is `PromiseIsSafe`. What holds under a run's constraint or beside a fairness
condition is proved of the specification without them.

## 6. Not modelled

* `wallet_getAssets`, conversion, onramp, generators, bundler operations, health: each translates
  one request for one upstream and keeps no state; admission, which they start with, is modelled.
* The websocket proxy: two loops of a stream library joined over one connection; the code decides
  nothing between them.
* The adapters other than those named above: HTTP calls whose outcomes `RpcProxy` enumerates. Their
  rewriting of statuses is a table per provider.
* Encodings, signatures (an input: genuine or not), metrics and analytics beyond the events and
  counters named above, infrastructure code.
* The chance of a draw, only its support. Of `env/` and the configuration only that providers have
  chains and priorities.
* IRN, Redis, Postgres, Prometheus, exchanges, bridges, bundlers, chains and upstream providers are
  external and enter through what the code can observe of them.

What could follow: an abstract payment - requested, pending, decided - that `ExchangeLedger`
implements, its step simulation proved from `RowInv` and its end checked in `ledger_live`; an abstract
cache, whose entries have an age and a lifetime, that the registry's and the read handlers' caches
implement; and the wallet's assets.
