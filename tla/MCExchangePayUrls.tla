-------------------------- MODULE MCExchangePayUrls --------------------------
(* An instance of ExchangePayUrls: two calls for an asset that two exchanges   *)
(* sell.                                                                       *)
EXTENDS ExchangePayUrls

CONSTANTS c1, c2

OnOptimism == {[ns |-> "eip155", chain |-> "optimism", reference |-> "0x94b0", form |-> "checksum"]}
ToOptimism == {[ns |-> "eip155", chain |-> "optimism", address |-> "customer"]}
OneAmount == {[decimal |-> 1, hex |-> 1]}
FundWallet == {[payments |-> TRUE, fund_from_exchange |-> TRUE, coinbase |-> TRUE]}

=============================================================================
