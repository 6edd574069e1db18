-------------------------- MODULE MCExchangePayments -------------------------
(* The way to an exchange's URL and what becomes of its order.  The two share *)
(* no state, so that each behaviour runs one of them: a client that asks for  *)
(* a list of exchanges and then for URLs; or one order, its client and two    *)
(* reconcilers.                                                               *)
EXTENDS MCExchangeLedger, ExchangePayUrls

CONSTANTS p1

VARIABLE side

\* Assets both exchanges sell, one does, or none does, spelled in two ways, and
\* accounts on their chains and on others.
Of(ns, chain, reference, form) == [ns |-> ns, chain |-> chain, reference |-> reference, form |-> form]
Account(ns, chain) == [ns |-> ns, chain |-> chain, address |-> "customer"]

MCAssets ==
  {None, Of("eip155", "base", "0x8335", "other"), Of("eip155", "base", "0x8335", "checksum"),
   Of("eip155", "optimism", "0x94b0", "checksum"), Of("eip155", "rootstock", "0x2AcC", "checksum"),
   Of("eip155", "sepolia", "native", "checksum"),
   Of("solana", "solana", "EPjF", "other"), Of("solana", "solana", "EPjF", "checksum")}

MCRecipients == {None, Account("eip155", "base"), Account("eip155", "optimism"), Account("solana", "solana"),
                 Account("eip155", "sepolia")}

MCAmounts == {[decimal |-> 1, hex |-> 1], [decimal |-> None, hex |-> 2], [decimal |-> None, hex |-> None]}

Having(payments, fund, coinbase) == [payments |-> payments, fund_from_exchange |-> fund, coinbase |-> coinbase]
MCFeatures == {Having(TRUE, FALSE, FALSE), Having(FALSE, TRUE, TRUE), Having(TRUE, TRUE, FALSE)}

\* A client asks for one list before it asks for URLs.
PayScope == Cardinality({[l EXCEPT !.exchange = None] : l \in listed}) <= 1

MCInit ==
  /\ Init /\ PayInit
  /\ \/ side = "pay"
     \/ /\ side = "ledger"
        /\ payConfig.allowed /\ payConfig.binance /\ payConfig.coinbase
        /\ features = Having(FALSE, TRUE, TRUE)

MCNext ==
  /\ \/ side = "pay" /\ PayNext /\ UNCHANGED vars
     \/ side = "ledger" /\ Next /\ UNCHANGED payVars
  /\ UNCHANGED side

MCSpec == MCInit /\ [][MCNext]_<<vars, payVars, side>>

=============================================================================
