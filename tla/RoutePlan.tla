----------------------------- MODULE RoutePlan ------------------------------
(***************************************************************************)
(* The arithmetic and the choices of chain abstraction's prepare           *)
(* (src/handlers/chain_agnostic/): amounts of tokens that differ in their  *)
(* decimals, the funds to bridge from, what to bridge so that the transfer *)
(* is covered, and the order in which nonces are given out.                *)
(***************************************************************************)
EXTENDS Integers, Sequences, FiniteSets

CONSTANTS
  Asset,       \* BRIDGING_ASSETS: [symbol, chain, ns, decimals], ns the namespace
  Sender,      \* the account of the initial transaction
  Base,        \* what one decimal is worth, ten in the code
  Word         \* amounts are U256 numbers, below this

ASSUME AssetAssumption ==
  \A a \in Asset : a.ns \in {"eip155", "solana"} /\ a.decimals \in Nat

ASSUME WordAssumption == Base \in Nat \ {0} /\ Word \in Nat \ {0}

BridgingFeeSlippage == 250   \* BRIDGING_FEE_SLIPPAGE, percent

\* What k decimals are worth, Base to the power of k.
Scale[k \in Nat] == IF k = 0 THEN 1 ELSE Base * Scale[k - 1]

\* convert_amount: a division truncates, a multiplication wraps.
ConvertAmount(amount, from, to) ==
  IF from >= to THEN amount \div Scale[from - to]
                ELSE (amount * Scale[to - from]) % Word

\* compare_amounts: whether one TokenAmount is at least another.  An amount
\* that no longer fits once scaled is the larger.
AtLeast(a, aDecimals, b, bDecimals) ==
  IF aDecimals >= bDecimals THEN a >= b * Scale[aDecimals - bDecimals]
                            ELSE a * Scale[bDecimals - aDecimals] >= b

\* A native transfer is covered by ETH only, any other by anything but ETH.
Bridgeable(target, native) ==
  {a \in Asset \ {target} : IF native THEN a.symbol = "ETH" ELSE a.symbol # "ETH"}

\* The accounts that may hold an asset: the sender on every EVM chain, and the
\* ones the client names, [chain, address], on theirs.
Holders(accounts, a) ==
  (IF a.ns = "eip155" THEN {Sender} ELSE {})
    \cup {c.address : c \in {d \in accounts : d.chain = a.chain}}

\* get_balances_of_all_source_tokens: where funds are looked for.
Sources(accounts, target, native) ==
  UNION {{[asset |-> a, account |-> h] : h \in Holders(accounts, a)} : a \in Bridgeable(target, native)}

\* check_bridging_for_erc20_transfer: the first source found with enough of
\* the same token, else a source with the highest balance of those with
\* enough.  Sources are visited in the order of a hash map, which is any.
FundsFound(target, native, value, accounts, balance) ==
  LET enough == {s \in Sources(accounts, target, native) :
                   AtLeast(balance[s], s.asset.decimals, value, target.decimals)}
      same == {s \in enough : s.asset.symbol = target.symbol}
      highest == {s \in enough : \A u \in enough :
                    AtLeast(balance[s], s.asset.decimals, balance[u], u.asset.decimals)}
  IN  IF same # {} THEN same ELSE highest

\* The fee a first quote implies, none if more arrives than was asked for.
BridgingFee(topup, bridged) == IF bridged > topup THEN 0 ELSE topup - bridged

\* What is bridged so that the top-up arrives: the fee, and its slippage.
RequiredTopup(topup, fee) ==
  ((fee * BridgingFeeSlippage) \div 100 + topup + fee) % Word

=============================================================================
