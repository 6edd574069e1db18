---------------------------- MODULE MCWalletCalls ---------------------------
(* Instances of Sessions and WalletCalls.  One of the permission sets is for *)
(* the wallet methods, the others for the session handlers alone.            *)
EXTENDS WalletCalls, TLC

CONSTANTS t1, t2, w1, p1, k1

Contract(a) == [type |-> "contract-call", target |-> a]
Allowance(n) == [type |-> "native-token-recurring-allowance", amount |-> n]
WalletGrant == {Contract("a"), Allowance(2)}
MCSigners == {<<"ecdsa", "passkey">>}
MCGrants == {{Contract("a"), Contract("b"), Allowance(1), Allowance(2)}, WalletGrant}

Tx(to, value, c) == [to |-> to, value |-> value, call |-> c]
Within == <<Tx("a", 1, TRUE), Tx("a", 1, TRUE)>>
Beyond == <<Tx("a", 3, TRUE), Tx("b", 0, TRUE)>>
MCBatches == {Within, Beyond, <<Tx("c", 3, FALSE), Tx("a", 3, FALSE)>>, <<Tx("a", 1, TRUE), Tx("c", 0, TRUE)>>}

Prepared(b, n, c) == [pci |-> p1, batch |-> b, nonce |-> n, client |-> c]
MCBundles == {<<Prepared(Within, 0, "ecdsa"), Prepared(Within, 1, "passkey")>>,
              <<Prepared(Beyond, 0, "ecdsa")>>}

\* Bound: the wallet methods run beside one activation at a time, on one of
\* the permission sets; the session handlers on the others.
Scope ==
  \A p \in Pci :
    IF granted[p] # NULL /\ granted[p].permissions = WalletGrant
    THEN /\ now = 0 /\ granted[p].expiry = 0
         /\ item[p] # NULL => item[p].value.context # "short"
         /\ sent # <<>> /\ item[p] # NULL => item[p].value.context # "use"
         /\ Cardinality({t \in Task : task[t] # Idle}) <= 1
         /\ \A t \in Task : task[t].req # NULL => task[t].req.op \in {"create", "activate"}
    ELSE /\ granted[p] # NULL => granted[p].expiry <= 1
         /\ Cardinality({t \in Task : \/ task[t].pc = "done"
                                      \/ task[t].req # NULL /\ task[t].req.op \in {"cosign", "get"}}) <= 1
         /\ \A w \in Caller : call[w] = IdleCall
         /\ item[p] # NULL => item[p].value.context \in {NULL, "short", "ownable", "enable"}

Symmetry == Permutations({t1, t2})

=============================================================================
