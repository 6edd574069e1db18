----------------------------- MODULE MCMiddleware ----------------------------
(* What a request meets before its handler.  The rate limiter and the CORS    *)
(* layer share no state with the verdict on the project, so that each         *)
(* behaviour runs one of the two: requests one after the other to two         *)
(* servers, from an address and one that is whitelisted, with origins and     *)
(* entries that differ in one part each; or two requests admitted at a time.  *)
EXTENDS Gateway, ProjectRegistry

CONSTANTS g1, r1, r2, s1, s2, a1, w1

VARIABLE side

Parsed(scheme, host, port, text) == [scheme |-> scheme, host |-> host, port |-> port, text |-> text]

MCOrigin == {Parsed("http", <<"localhost">>, 3000, "http://localhost:3000"),
             Parsed("https", <<"a", "test", "app">>, 443, "https://a.test.app"),
             Parsed("http", <<"a", "test", "app">>, 80, "http://a.test.app"),
             Parsed("https", <<"test", "app">>, 443, "https://test.app"),
             Parsed("https", <<"test", "app">>, 8443, "https://test.app:8443"),
             [scheme |-> None, host |-> None, port |-> None, text |-> "null"]}

Allowing(scheme, wild, any, host, port, text) ==
  [scheme |-> scheme, wild |-> wild, any |-> any, host |-> host, port |-> port, text |-> text]

MCOriginLists ==
  {{},
   {Allowing(None, TRUE, FALSE, <<"test", "app">>, None, "*.test.app")},
   {Allowing("https", TRUE, FALSE, <<"test", "app">>, None, "https://*.test.app"),
    Allowing("https", FALSE, FALSE, <<"test", "app">>, 8443, "https://test.app:8443")},
   {Allowing(None, FALSE, FALSE, <<"test", "app">>, 8443, "test.app:8443"),
    Allowing("https", FALSE, FALSE, <<"test", "app">>, 0, "https://test.app:x")},
   {Allowing("http", FALSE, TRUE, <<>>, None, "http://*")}}

\* What reaches the dispatcher comes from the whitelisted address at the start,
\* and the origins are edited under it.
Dispatched(r) == gateReq[r].method # None

GateScope ==
  /\ \A r \in GateRequest : Dispatched(r) => 
       gateReq[r].ip = w1 /\ gateNow = 0 /\ bucket[<<"/v1", a1>>].tokens = MaxTokens
  /\ edits > 0 => \E r \in GateRequest : Dispatched(r)

\* Two writes are under way at a time only while the registry answers.
RegistryScope == Cardinality(writes) <= 1 \/ failedAgo > Cooldown

Scope == GateScope /\ RegistryScope

MCInit ==
  /\ GateInit /\ Init
  /\ \/ side = "gate" /\ validate /\ \A p \in Project : truth[p] = "config"
     \/ side = "registry" /\ allowed = {}

MCNext ==
  /\ \/ side = "gate" /\ GateNext /\ UNCHANGED vars
     \/ side = "registry" /\ Next /\ UNCHANGED gateVars
  /\ UNCHANGED side

MCSpec == MCInit /\ [][MCNext]_<<gateVars, vars, side>>

Requests == Permutations(Request)

=============================================================================
