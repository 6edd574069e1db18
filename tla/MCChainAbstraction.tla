------------------------- MODULE MCChainAbstraction -------------------------
(* Instances of ChainAbstraction: three tokens on two EVM chains and Solana. *)
EXTENDS ChainAbstraction

CONSTANTS o1, o2, p1, q1, q2

Token(symbol, chain, ns, decimals) ==
  [symbol |-> symbol, chain |-> chain, ns |-> ns, decimals |-> decimals]

MCAsset == {Token("USDS", "base", "eip155", 1), Token("USDC", "base", "eip155", 0),
            Token("USDC", "solana", "solana", 0),
            Token("ETH", "base", "eip155", 1), Token("ETH", "optimism", "eip155", 1)}

Ask(kind, moves, accounts, lifi, v1) ==
  [kind |-> kind, moves |-> moves, accounts |-> accounts, lifi |-> lifi, v1 |-> v1]

Move(asset, value) == [asset |-> asset, value |-> value]

USDS == Token("USDS", "base", "eip155", 1)
ETH == Token("ETH", "base", "eip155", 1)

Named == {[chain |-> "base", address |-> "other"], [chain |-> "solana", address |-> "sol"]}

MCRequest ==
  {Ask("transfer", <<Move(USDS, 3)>>, Named, FALSE, FALSE),
   Ask("other", <<Move(NULL, 1), Move(USDS, 2), Move(USDS, 3)>>, Named, TRUE, TRUE),
   Ask("native", <<Move(ETH, 2)>>, {}, FALSE, FALSE),
   Ask("transfer", <<Move(ETH, 2)>>, NULL, FALSE, FALSE),
   Ask("native", <<Move(NULL, 1)>>, {}, FALSE, FALSE), Ask("transfer", <<Move(NULL, 1)>>, {}, FALSE, FALSE),
   Ask("other", <<Move(USDS, 0), Move(USDS, 1)>>, {}, FALSE, FALSE), Ask("empty", <<>>, {}, FALSE, FALSE)}

\* The plans of this instance are those the theorem about them is about.
ASSUME InstanceFits == AmountsFit

\* The order the polls are about.
USDC == Token("USDC", "base", "eip155", 0)
MCRequests == MCRequest \cup {Ask("transfer", <<Move(USDC, 2)>>, {}, FALSE, FALSE)}

About(asset) ==
  \/ \E p \in Planner : plan[p].req # NULL /\ plan[p].req.asset = asset
  \/ \E i \in Id : order[i] # NULL /\ order[i].asset = asset

\* Bound: polls overlap, time passes and the wallet changes without end only
\* around an order for USDC, which is planned in one way; around the others one
\* client polls and no time passes.
Scope ==
  /\ \A a \in Target : ~About(a) => wallet[a] = 0
  /\ IF About(USDC)
     THEN /\ wallet[USDC] <= 2
          /\ \A p \in Planner :
               /\ plan[p].funds # NULL => plan[p].funds.balance = 2 /\ plan[p].required \in {0, 2}
               /\ \A c \in Chain : plan[p].nonce[c].n = Len(SelectSeq(plan[p].txs, LAMBDA x : x.chain = c))
               /\ plan[p].quoted <= 2
     ELSE now = 0 /\ poll[q2] = IdlePoll

=============================================================================
