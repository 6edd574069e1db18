----------------------------- MODULE MCSessions -----------------------------
(* An instance of Sessions: one permission and three handlers.               *)
EXTENDS Sessions, TLC

CONSTANTS t1, t2, t3, p1, k1, k2

Contract(a) == [type |-> "contract-call", target |-> a]
Allowance(n) == [type |-> "native-token-recurring-allowance", amount |-> n]

OneGrant == {{Contract("a"), Contract("b"), Allowance(1)}}

Tx(to, value, call) == [to |-> to, value |-> value, call |-> call]

OneBatch == {<<Tx("a", 1, TRUE)>>}

\* Tasks and keys are interchangeable.
Symmetry == Permutations({t1, t2, t3}) \cup Permutations({k1, k2})

=============================================================================
