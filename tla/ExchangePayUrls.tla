--------------------------- MODULE ExchangePayUrls ---------------------------
(***************************************************************************)
(* The pay exchanges as a client meets them (handlers/json_rpc/exchanges): *)
(* it asks which exchanges sell an asset to a project, and then asks one   *)
(* of them for a URL to pay at.  Both calls read the project's features,   *)
(* which an administrator may change in between.  The order is placed at   *)
(* the exchange before it is persisted; what becomes of it from there is   *)
(* ExchangeLedger's business.                                              *)
(***************************************************************************)
EXTENDS Integers, Sequences, FiniteSets, SequencesExt, ExchangeOrders

CONSTANTS
  PayCall,      \* calls under way
  AssetText,    \* what clients name assets by, None if malformed
  Recipient,    \* CAIP-10 accounts they pay to, None if malformed
  AmountText,   \* amounts: [decimal, hex], None for what the text is not
  FeatureSets,  \* the features a project may have
  MaxChanges,   \* bound: changes of the features
  MaxOrders,    \* bound: orders placed
  None

\* form: whether the address is spelled with its checksum.
Asset == [ns : STRING, chain : STRING, reference : STRING, form : {"checksum", "other"}]

\* normalize_to_checksum takes no address of another length than 40 digits.
ASSUME PayAssumption ==
  /\ AssetText \ {None} \subseteq Asset
  /\ Recipient \ {None} \subseteq [ns : STRING, chain : STRING, address : STRING]
  /\ AmountText \subseteq [decimal : Nat \cup {None}, hex : Nat \cup {None}]
  /\ FeatureSets \subseteq [payments : BOOLEAN, fund_from_exchange : BOOLEAN, coinbase : BOOLEAN]
  /\ MaxChanges \in Nat /\ MaxOrders \in Nat
  /\ \A a \in AssetText \ {None} : a.reference # "0xAf88_of_41_digits"
  /\ None \notin {"internal", "refused", "not_found", "invalid", "unsupported"}

VARIABLES
  payConfig,   \* how the service is configured
  features,    \* the project's features
  changes,     \* changes made to them
  listed,      \* the lists clients were given
  payCall,     \* [PayCall -> record]
  placed       \* orders at the exchanges, in the order they were placed

payVars == <<payConfig, features, changes, listed, payCall, placed>>

IdleCall == [pc |-> "idle", exchange |-> None, source |-> None, asset |-> None, recipient |-> None,
             amount |-> None, answer |-> None]

\* allowed: the project is the testing project or among the allowed ones;
\* binance, coinbase: the exchange's credentials are configured.
PayInit ==
  /\ payConfig \in [allowed : BOOLEAN, binance : BOOLEAN, coinbase : BOOLEAN]
  /\ features \in FeatureSets
  /\ changes = 0
  /\ listed = {}
  /\ payCall = [c \in PayCall |-> IdleCall]
  /\ placed = <<>>

-----------------------------------------------------------------------------
(* The tables of the exchanges: asset contracts by chain, and what the       *)
(* exchange calls them.  An address is given by its first digits.            *)

CoinbaseCrypto ==
  {<<"base", "0x8335", "USDC">>, <<"optimism", "0x94b0", "USDC">>,
   <<"arbitrum", "0xAf88_of_41_digits", "USDC">>, <<"polygon", "0x2791", "USDC">>,
   <<"ethereum", "0xA0b8", "USDC">>, <<"ethereum", "native", "ETH">>, <<"ethereum", "0xdAC1", "USDT">>,
   <<"solana", "EPjF", "USDC">>}

\* Mutant: a chain is forgotten.
CoinbaseNetworkShort == [base |-> "base", polygon |-> "polygon", ethereum |-> "ethereum", solana |-> "solana"]

CoinbaseNetwork == [base |-> "base", optimism |-> "optimism", arbitrum |-> "arbitrum", polygon |-> "polygon",
                    ethereum |-> "ethereum", solana |-> "solana"]

BinanceCrypto ==
  {<<"ethereum", "0xA0b8", "USDC">>, <<"polygon", "0x2791", "USDC">>, <<"base", "0x8335", "USDC">>,
   <<"arbitrum", "0xaf88", "USDC">>, <<"ethereum", "native", "ETH">>, <<"solana", "native", "SOL">>,
   <<"ethereum", "0xdAC1", "USDT">>, <<"arbitrum", "0xFd08", "USDT">>, <<"optimism", "0x94b0", "USDT">>,
   <<"polygon", "0xc213", "USDT">>, <<"solana", "EPjF", "USDC">>, <<"solana", "Es9v", "USDT">>,
   <<"rootstock", "0x2AcC", "RIF">>}

BinanceNetwork == [ethereum |-> "ETH", polygon |-> "MATIC", base |-> "BASE", arbitrum |-> "ARBITRUM",
                   optimism |-> "OPTIMISM", solana |-> "SOL", rootstock |-> "RSK"]

TestAssets == {<<"sepolia", "native">>, <<"base-sepolia", "native">>}

\* Caip19Asset::parse: EVM contracts get their checksum, other addresses are
\* taken as they are spelled.
ParseAsset(t) == IF t.ns = "eip155" THEN [t EXCEPT !.form = "checksum"] ELSE t

Coins(table, a) ==
  {row[3] : row \in {r \in table : r[1] = a.chain /\ r[2] = a.reference /\ a.form = "checksum"}}

\* is_asset_supported: Coinbase looks at its first table only.
IsAssetSupported(x, a) ==
  CASE x = "binance" -> Coins(BinanceCrypto, a) # {} /\ a.chain \in DOMAIN BinanceNetwork
    [] x = "coinbase" -> Coins(CoinbaseCrypto, a) # {}
    [] x = "reown_test" -> <<a.chain, a.reference>> \in TestAssets

\* is_coinbase_enabled_in_config: some item of the feature's configuration names
\* it.
EnabledInConfig(f) == f.coinbase

\* is_enabled: Coinbase only funds wallets.
IsEnabled(x, source, f) ==
  x = "coinbase" => source = "fund-wallet" /\ f.fund_from_exchange /\ EnabledInConfig(f)

\* is_feature_enabled_for_project_id.
IsFeatureEnabled(source, f) ==
  payConfig.allowed \/ IF source = "fund-wallet" THEN f.fund_from_exchange ELSE f.payments

-----------------------------------------------------------------------------
(* The list. *)

\* get_supported_exchanges, of a client that names an asset.
SupportedExchanges(a, source, f) ==
  {x \in ExchangeIds : IsAssetSupported(x, ParseAsset(a)) /\ IsEnabled(x, source, f)}

End(c, answer) == payCall' = [payCall EXCEPT ![c] = [@ EXCEPT !.pc = "done", !.answer = answer]]

\* wc_getExchanges for an asset, with includeOnly, with exclude, with neither or
\* with both.  A malformed asset gives an empty list, and so do filters that leave
\* none.  (A client that names no asset is told of every enabled exchange; no URL
\* follows from such a list.)
GetExchanges(c) ==
  /\ payCall[c].pc = "idle"
  /\ \E source \in {"fund-wallet", "payments"}, a \in AssetText,
       only, without \in {None} \cup {{x} : x \in ExchangeIds} :
       LET all == IF a = None THEN {} ELSE SupportedExchanges(a, source, features)
           kept == {x \in all : (only # None => x \in only) /\ (without # None => x \notin without)}
       IN  \/ End(c, "internal") /\ UNCHANGED listed
           \/ /\ ~IsFeatureEnabled(source, features) /\ End(c, "refused") /\ UNCHANGED listed
           \/ /\ IsFeatureEnabled(source, features)
              /\ IF a # None /\ only # None /\ without # None
                 THEN End(c, "refused") /\ UNCHANGED listed
                 ELSE /\ End(c, "list")
                      /\ listed' = listed \cup [asset : {a}, source : {source}, exchange : kept, at : {changes}]
  /\ UNCHANGED <<payConfig, features, changes, placed>>

-----------------------------------------------------------------------------
(* The URL. *)

\* Decimal notation is tried first: a text that is both is decimal.
ParseAmount(t) == IF t.decimal # None THEN t.decimal ELSE t.hex

\* Mutants: the recipient's chain is not compared; the asset is looked up as it
\* is spelled.
RefusalAnyChain(x, source, a, r, n) ==
  IF x \notin ExchangeIds \/ ~IsEnabled(x, source, features) THEN "not_found"
  ELSE IF a = None \/ r = None THEN "invalid"
  ELSE IF r.ns # a.ns THEN "invalid"
  ELSE IF ~IsAssetSupported(x, ParseAsset(a)) THEN "unsupported"
  ELSE IF ParseAmount(n) = None THEN "invalid" ELSE "none"
RefusalAsSpelled(x, source, a, r, n) ==
  IF x \notin ExchangeIds \/ ~IsEnabled(x, source, features) THEN "not_found"
  ELSE IF a = None \/ r = None \/ (r.ns # a.ns \/ r.chain # a.chain) THEN "invalid"
  ELSE IF ~IsAssetSupported(x, a) THEN "unsupported"
  ELSE IF ParseAmount(n) = None THEN "invalid" ELSE "none"

\* The checks of a request, in their order.
Refusal(x, source, a, r, n) ==
  IF x \notin ExchangeIds \/ ~IsEnabled(x, source, features) THEN "not_found"
  ELSE IF a = None \/ r = None \/ (r.ns # a.ns \/ r.chain # a.chain) THEN "invalid"
  ELSE IF ~IsAssetSupported(x, ParseAsset(a)) THEN "unsupported"
  ELSE IF ParseAmount(n) = None THEN "invalid" ELSE "none"

Asking(c, x, source, a, r, n, answer) ==
  payCall' = [payCall EXCEPT ![c] =
    [pc |-> IF answer = None THEN x ELSE "done", exchange |-> x, source |-> source, asset |-> a,
     recipient |-> r, amount |-> IF answer = None THEN ParseAmount(n) ELSE None, answer |-> answer]]

\* wc_getExchangeUrl up to the exchange.
GetExchangeUrl(c) ==
  /\ payCall[c].pc = "idle"
  /\ Len(placed) < MaxOrders
  /\ \E x \in ExchangeIds \cup {"unknown"}, source \in {"fund-wallet", "payments"}, a \in AssetText,
        r \in Recipient, n \in AmountText :
       LET refusal == Refusal(x, source, a, r, n)
       IN  \/ Asking(c, x, source, a, r, n, "internal")
           \/ ~IsFeatureEnabled(source, features) /\ Asking(c, x, source, a, r, n, "refused")
           \/ /\ IsFeatureEnabled(source, features)
              /\ Asking(c, x, source, a, r, n, IF refusal = "none" THEN None ELSE refusal)
  /\ UNCHANGED <<payConfig, features, changes, listed, placed>>

\* The order as the exchange gets it.
PlaceOrder(c, crypto, network) ==
  placed' = Append(placed, [exchange |-> payCall[c].exchange, asset |-> ParseAsset(payCall[c].asset),
                            crypto |-> crypto, network |-> network, address |-> payCall[c].recipient.address,
                            amount |-> payCall[c].amount, of |-> payCall[c].recipient])

Persist(c) == payCall' = [payCall EXCEPT ![c].pc = "persist"]

\* The test exchange has nothing to ask: its URL says it all.
TestUrl(c) ==
  /\ payCall[c].pc = "reown_test"
  /\ PlaceOrder(c, None, ParseAsset(payCall[c].asset).chain)
  /\ Persist(c)
  /\ UNCHANGED <<payConfig, features, changes, listed>>

\* Binance: the project's name is read once more, the pre-order is signed and
\* sent.  An answer without a link, or one that is lost, leaves an order behind.
BinanceUrl(c) ==
  /\ payCall[c].pc = "binance"
  /\ LET a == ParseAsset(payCall[c].asset)
     IN  \/ End(c, "internal") /\ UNCHANGED placed
         \/ /\ payConfig.binance
            /\ \E coin \in Coins(BinanceCrypto, a) : PlaceOrder(c, coin, BinanceNetwork[a.chain])
            /\ Persist(c) \/ End(c, "internal")
  /\ UNCHANGED <<payConfig, features, changes, listed>>

\* fetch_coinbase_credentials can only ask for a project's with a token of its own.
MayFetchCredentials == payConfig.coinbase

\* Coinbase: with credentials fetched for the project, a session token for one
\* address, asset and network is drawn; the URL carries it.
CoinbaseUrl(c) ==
  /\ payCall[c].pc = "coinbase"
  /\ LET a == ParseAsset(payCall[c].asset)
     IN  \/ End(c, "internal") /\ UNCHANGED placed
         \/ /\ MayFetchCredentials
            /\ a.chain \notin DOMAIN CoinbaseNetwork
            /\ End(c, "unsupported") /\ UNCHANGED placed
         \/ /\ MayFetchCredentials
            /\ a.chain \in DOMAIN CoinbaseNetwork
            /\ \E coin \in Coins(CoinbaseCrypto, a) : PlaceOrder(c, coin, CoinbaseNetwork[a.chain])
            /\ Persist(c) \/ End(c, "internal")
  /\ UNCHANGED <<payConfig, features, changes, listed>>

\* create_transaction, or its failure, after the order was placed.
PersistOrder(c) ==
  /\ payCall[c].pc = "persist"
  /\ \E answer \in {"url", "internal"} : End(c, answer)
  /\ UNCHANGED <<payConfig, features, changes, listed, placed>>

EndCall(c) ==
  /\ payCall[c].pc = "done"
  /\ payCall' = [payCall EXCEPT ![c] = IdleCall]
  /\ UNCHANGED <<payConfig, features, changes, listed, placed>>

\* An administrator edits the project.
ChangeFeatures ==
  /\ changes < MaxChanges
  /\ features' \in FeatureSets \ {features}
  /\ changes' = changes + 1
  /\ UNCHANGED <<payConfig, listed, payCall, placed>>

PayStep(c) ==
  \/ GetExchanges(c) \/ GetExchangeUrl(c)
  \/ TestUrl(c) \/ BinanceUrl(c) \/ CoinbaseUrl(c)
  \/ PersistOrder(c) \/ EndCall(c)

PayNext == ChangeFeatures \/ \E c \in PayCall : PayStep(c)

PaySpec == PayInit /\ [][PayNext]_payVars

-----------------------------------------------------------------------------
(* Properties. *)

\* An exchange that was listed for an asset is not answered as missing or as not
\* selling it when the client comes back, however it spells the asset and unless
\* the project's features have changed in between: the list, the checks of a
\* request and both tables of an exchange agree.
ListedIsPayable ==
  [][\A c \in PayCall :
       payCall[c].pc # "done" /\ payCall'[c].answer \in {"not_found", "unsupported"} =>
         ~\E l \in listed :
            /\ l.exchange = payCall'[c].exchange /\ l.source = payCall'[c].source /\ l.at = changes
            /\ ParseAsset(l.asset) = ParseAsset(payCall'[c].asset)]_payVars

\* The chains behind the exchanges' names for networks.
ChainNamed(network) ==
  CASE network \in {"ethereum", "ETH"} -> "ethereum" [] network \in {"polygon", "MATIC"} -> "polygon"
    [] network \in {"base", "BASE"} -> "base" [] network \in {"arbitrum", "ARBITRUM"} -> "arbitrum"
    [] network \in {"optimism", "OPTIMISM"} -> "optimism" [] network \in {"solana", "SOL"} -> "solana"
    [] network = "RSK" -> "rootstock" [] OTHER -> network

\* An exchange is never told to send to an address on another chain than the one
\* the client named it for, although the address it gets no longer says its chain.
SentWhereAsked ==
  \A k \in DOMAIN placed :
    ChainNamed(placed[k].network) = placed[k].of.chain /\ placed[k].of.chain = placed[k].asset.chain

\* Two exchanges asked for the same asset sell the same coin.  (They do not: see
\* the tables' rows for Optimism.)
SameAssetSameCoin ==
  \A j, k \in DOMAIN placed :
    placed[j].asset = placed[k].asset /\ None \notin {placed[j].crypto, placed[k].crypto} =>
      placed[j].crypto = placed[k].crypto

=============================================================================
