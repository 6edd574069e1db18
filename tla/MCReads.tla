------------------------------ MODULE MCReads ------------------------------
(***************************************************************************)
(* The read handlers for TLC: the balance side and the identity side share *)
(* the clock and nothing else, and the two namespaces of a balance no key  *)
(* of a cache, so that each behaviour runs one of the three.               *)
(* An Ethereum and a Solana account; ether and a token on mainnet, SOL and *)
(* a Solana token, a Rootstock token.                                      *)
(***************************************************************************)
EXTENDS Reads

VARIABLE side

Namespaces == [ethereum |-> "eip155", rootstock |-> "eip155", testnet |-> "eip155",
               solana |-> "solana", ton |-> "ton"]
Kinds == [alice |-> "eip155", bob |-> "solana", carol |-> "ton"]
Chains == [eth |-> "ethereum", erc |-> "ethereum", rif |-> "rootstock", sol |-> "solana",
           spl |-> "solana"]
Weights ==
  [eip155 |-> [zerion |-> PriorityValue.Minimal, dune |-> PriorityValue.High],
   solana |-> [dune |-> PriorityValue.High, solscan |-> PriorityValue.Low],
   ton |-> <<>>]

Plain(kind, account, chain, tokens) ==
  [kind |-> kind, account |-> account, chain |-> chain, tokens |-> tokens, denied |-> FALSE,
   origin |-> TRUE, sdk |-> "good", onramp |-> FALSE, usd |-> TRUE]

Queries ==
  {Plain("balance", "alice", "ethereum", <<>>), Plain("balance", "alice", "ethereum", <<"erc">>),
   Plain("balance", "alice", "rootstock", <<"erc">>), Plain("balance", "bob", "solana", <<>>),
   Plain("balance", "carol", "ton", <<>>), Plain("balance", "bob", "solana", <<"spl">>),
   [Plain("balance", "alice", NULL, <<>>) EXCEPT !.denied = TRUE],
   Plain("history", "alice", NULL, <<>>), Plain("history", "bob", "solana", <<>>),
   [Plain("history", "alice", "ethereum", <<>>) EXCEPT !.onramp = TRUE],
   Plain("portfolio", "alice", NULL, <<>>),
   Plain("price", "bob", "solana", <<"spl">>), Plain("price", "alice", "ethereum", <<"erc">>)}

Init ==
  /\ ReadsInit
  /\ side \in {"ethereum", "solana", "identity"}
  /\ side # "identity" => ens = NoName /\ local = NoName

Alike == Permutations(Call) \cup Permutations(Lookup)

SideOf(q) == IF q.account = "bob" THEN "solana" ELSE "ethereum"
OneSide ==
  /\ \A c \in Call : call[c].q = NULL \/ SideOf(call[c].q) = side
  /\ side = "solana" => \E c \in Call : call[c].q \in {NULL, Plain("price", "bob", "solana", <<"spl">>)}

\* How far the clock runs on each side.
Horizon == [ethereum |-> 3, solana |-> 2, identity |-> MaxTime]

Next ==
  /\ side' = side
  /\ \/ side # "identity" /\ BalanceTurn
     \/ side = "identity" /\ IdentityTurn
     \/ now < Horizon[side] /\ Tick

Spec == Init /\ [][Next]_<<side, readsVars>>
=============================================================================
