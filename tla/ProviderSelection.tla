------------------------- MODULE ProviderSelection -------------------------
(***************************************************************************)
(* How the proxy ranks its upstream providers and draws some of them for a *)
(* call: the availability weights (src/providers/weights.rs), the priority *)
(* they are scaled with, and the weighted draws without replacement of     *)
(* src/providers/mod.rs.                                                   *)
(*                                                                         *)
(* A draw is random, so each selection is the set of the lists it can      *)
(* return; a provider can be drawn when its weight in the index is not 0.  *)
(* The weights are quotients of u64 counters computed in f64 and truncated;*)
(* here the quotient is exact and truncated once.  The checked squares of  *)
(* the code overflow at 2^32 failures in the three hours of a window, which*)
(* no counter reaches: that return is left out.                            *)
(***************************************************************************)
EXTENDS Integers, FiniteSets

\* The weight of a provider that answered every call, "100_00" per cent.
PerfectWeight == 10000

\* MAX_PRIORITY of src/providers/mod.rs; half of it leaves a weight as it is.
MaxPriority == 100

\* PriorityValue of the named priorities.
PriorityValue ==
  [Max |-> MaxPriority, High |-> (MaxPriority \div 4) + (MaxPriority \div 2),
   Normal |-> MaxPriority \div 2, Low |-> MaxPriority \div 4,
   Minimal |-> 1, Disabled |-> 0]

\* Successful and failed answers of a provider in the metrics window.
Availability == [ok : Nat, failed : Nat]

\* The denominator of a success rate: failures count squared.
Total(a) == a.ok + a.failed * a.failed

\* calculate_chain_weight: the product of two success rates, an availability
\* without any call counting as perfect.
ChainWeight(a, b) ==
  LET num(x) == IF Total(x) = 0 THEN 1 ELSE x.ok
      den(x) == IF Total(x) = 0 THEN 1 ELSE Total(x)
  IN  (num(a) * num(b) * PerfectWeight) \div (den(a) * den(b))

\* Weight::update_value.
Scaled(value, priority) == (value * priority) \div (MaxPriority \div 2)

RawWeight(w) == w

\* The weight a provider enters the RPC draw with: `w.max(1)`.
IndexWeight(w) == IF w > 1 THEN w ELSE 1

Least(m, n) == IF m < n THEN m ELSE n

DrawsWithReplacement(S, n) == [1..n -> S]

\* Lists of n different members of S, as a draw that zeroes what it took.
Draws(S, n) ==
  {s \in [1..n -> S] : \A i, j \in 1..n : i # j => s[i] # s[j]}

\* get_rpc_provider_for_chain_id: weight gives the providers of the chain.
\* The result is empty when the index cannot be built.
RpcDraws(weight, max) ==
  LET drawable == {p \in DOMAIN weight : IndexWeight(weight[p]) > 0}
      n == Least(max, Cardinality(drawable))
  IN  IF drawable = {} THEN {} ELSE Draws(drawable, n)

=============================================================================
