--------------------------- MODULE MCPosPayments ---------------------------
(* An instance of PosPayments: payments on each namespace and some that are   *)
(* refused.                                                                   *)
EXTENDS PosPayments

CONSTANTS b1, c1, c2

At(ns, chain, address) == [ns |-> ns, chain |-> chain, address |-> address]

Pay(ns, chain, kind, reference, units, scale) ==
  [asset |-> [ns |-> ns, chain |-> chain, kind |-> kind, reference |-> reference],
   units |-> units, scale |-> scale,
   recipient |-> At(ns, chain, "shop"), sender |-> At(ns, chain, "customer")]

Native(units) == Pay("eip155", "base", "slip44", "ether", units, 1)
Token(chain) == Pay("eip155", chain, "erc20", "usdc", 3, 2)
OnSolana(units) == Pay("solana", "mainnet", "token", "usdc", units, 0)
OnTron == Pay("tron", "tron", "trc20", "usdt", 1, 0)
OnShasta == Pay("tron", "shasta", "trc20", "usdt", 2, 0)

MCBatches == {<<>>, <<OnTron>>, <<OnTron, OnShasta>>, <<Native(-1), Token("base")>>, <<OnSolana(1)>>,
              <<OnSolana(-1)>>, <<OnSolana(9)>>, <<Pay("solana", "mainnet", "slip44", "ether", 1, 0)>>,
              <<[Token("base") EXCEPT !.sender.chain = "optimism"]>>,
              <<Pay("cosmos", "hub", "slip44", "ether", 1, 0)>>}

MCDecimals == [ether |-> 2, usdc |-> 1, usdt |-> 1]

\* The second call asks about a Tron transaction while that is the only one.
Scope == check[c2].pc # "idle" => IsAbout(c2, 1) /\ txs[1].ns = "tron" /\ Len(txs) = 1

=============================================================================
