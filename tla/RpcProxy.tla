------------------------------ MODULE RpcProxy ------------------------------
(***************************************************************************)
(* The JSON-RPC proxy (src/handlers/proxy.rs): a request that no local     *)
(* answer serves goes to the provider fixed for its session, then to       *)
(* providers drawn by weight, one after the other, until one gives an      *)
(* answer that may be passed on.  Every answer is counted in the provider's*)
(* metrics, and a background task (src/lib.rs, src/providers/weights.rs)   *)
(* turns the metrics into the weights of the draws while requests are      *)
(* under way.                                                              *)
(*                                                                         *)
(* Project access and quota come first in the handler; ProjectRegistry     *)
(* models them.                                                            *)
(***************************************************************************)
EXTENDS Integers, Sequences, FiniteSets, ProviderSelection

CONSTANTS
  Request,          \* requests under way at one time
  Provider,         \* provider kinds
  Chain,            \* chain ids, supported or not
  Registered,       \* rpc_providers: providers configured at start
  Resolver,         \* rpc_weight_resolver: the providers of each chain
  Priority,         \* their priorities, by chain
  Excluded,         \* WEIGHT_RECALCULATION_EXCLUDED_PROVIDERS
  SessionProvider,  \* the provider fixed for a session on a chain, or NULL
  MaxCalls,         \* PROVIDER_PROXY_MAX_CALLS
  Outcome,          \* what a call to a provider may come back with
  Input,            \* the requests clients send
  MaxCount,         \* bound: answers counted per chain and provider
  NULL

(***************************************************************************)
(* What comes back from `provider.proxy` under its timeout: nothing        *)
(* ("timeout" or "error"), or a status and a body.  Of the body the proxy  *)
(* tells apart: too large to read ("oversized"), a JSON-RPC error that     *)
(* speaks of rate limits or node trouble ("retry_error"), any other        *)
(* JSON-RPC answer, errors of the call included ("result"), and no         *)
(* JSON-RPC answer at all ("opaque").                                      *)
(***************************************************************************)
Status == {"200", "2xx", "400", "404", "429", "5xx"}
Body == {"result", "retry_error", "opaque", "oversized"}
Failed == {"timeout", "error"}
AnyOutcome == [kind : Failed] \cup [kind : {"response"}, status : Status, body : Body]

\* A request: its chain, whether it carries a sessionId, the providerId it
\* insists on (or NULL), whether its project is the testing project, and
\* whether json_rpc_cache answers its method.
AnyInput == [chain : Chain, session : BOOLEAN, exact : Provider \cup {NULL},
             testing : BOOLEAN, local : BOOLEAN]

Error == {"unavailable", "unsupported_chain", "unsupported_provider", "invalid_parameter"}

ASSUME SetsAssumption ==
  /\ IsFiniteSet(Provider) /\ IsFiniteSet(Chain)
  /\ NULL \notin Provider \cup Input \cup Error
  /\ Registered \subseteq Provider
  /\ Excluded \subseteq Provider
  /\ Outcome \subseteq AnyOutcome
  /\ Input \subseteq AnyInput

\* add_rpc_provider fills rpc_providers and rpc_weight_resolver together.
ASSUME TablesAssumption ==
  /\ Resolver \in [Chain -> SUBSET Registered]
  /\ Priority \in [Chain -> [Provider -> 0..MaxPriority]]
  /\ SessionProvider \in [Chain -> Provider \cup {NULL}]

ASSUME BoundsAssumption == MaxCalls \in Nat \ {0} /\ MaxCount \in Nat

VARIABLES
  req,      \* [Request -> record]: the requests under way
  weight,   \* [Chain -> [Provider -> Nat]]: the atomic weights
  counts,   \* [Chain -> [Provider -> Availability]]: provider_status_code_counter
  updating, \* whether the weights updater is in a round
  fresh     \* by <<chain, provider>>, the weights it has yet to store

vars == <<req, weight, counts, updating, fresh>>

Pairs == {cp \in Chain \X Provider : cp[2] \in Resolver[cp[1]]}

None == [ok |-> 0, failed |-> 0]

Idle == [pc |-> "idle", in |-> NULL, queue |-> <<>>, tried |-> <<>>, reply |-> NULL]

Init ==
  /\ req = [r \in Request |-> Idle]
  /\ weight = Priority
  /\ counts = [c \in Chain |-> [p \in Provider |-> None]]
  /\ updating = FALSE
  /\ fresh = [cp \in {} |-> 0]

-----------------------------------------------------------------------------
(* One call to a provider. *)

\* parse_weights reads these statuses as successes.
CountsAsSuccess(status) == status \in {"200", "2xx", "400", "404"}

Capped(n) == Least(n + 1, MaxCount)

\* add_status_code_for_provider, called for every response that arrives; a
\* timeout or a connection error is not counted.
Counted(c, p, out) ==
  IF out.kind \in Failed THEN counts
  ELSE IF CountsAsSuccess(out.status) THEN [counts EXCEPT ![c][p].ok = Capped(@)]
  ELSE [counts EXCEPT ![c][p].failed = Capped(@)]

\* The status rpc_provider_call gives its response: 503 when the provider is
\* rate limited, and for all but 200 and 400.
CallStatus(out) == IF out.status \in {"200", "400"} THEN out.status ELSE "5xx"

\* Whether rpc_call passes the response on or goes to the next provider.
Acceptable(out) ==
  /\ out.kind = "response"
  /\ CallStatus(out) \in {"200", "400"}
  /\ out.body \in {"result", "opaque"}

\* The session provider's response is passed on whatever its body says.
SessionAcceptable(out) == out.kind = "response" /\ CallStatus(out) # "5xx"

-----------------------------------------------------------------------------
(* The steps of rpc_call. *)

\* A request arrives.  A locally answered method is answered at once, whatever
\* the chain; otherwise the session decides where it goes first.
Receive(r) ==
  /\ req[r].pc = "idle"
  /\ \E in \in Input :
       LET fixed == SessionProvider[in.chain]
           start == [Idle EXCEPT !.in = in]
       IN  req' = [req EXCEPT ![r] =
             CASE in.local -> [start EXCEPT !.pc = "done", !.reply = "local"]
               [] ~in.local /\ in.session /\ fixed \in Registered
                    -> [start EXCEPT !.pc = "session"]
               [] ~in.local /\ in.session /\ fixed \in Provider \ Registered
                    -> [start EXCEPT !.pc = "done", !.reply = "unsupported_provider"]
               [] OTHER -> [start EXCEPT !.pc = "route"]]
  /\ UNCHANGED <<weight, counts, updating, fresh>>

\* The call to the session's provider ends; a failure falls back to the draw.
SessionCall(r) ==
  /\ req[r].pc = "session"
  /\ \E out \in Outcome :
       LET c == req[r].in.chain
           p == SessionProvider[c]
           call == [provider |-> p, out |-> out]
       IN  /\ req' = [req EXCEPT ![r] =
                 IF SessionAcceptable(out)
                 THEN [@ EXCEPT !.pc = "done", !.tried = <<call>>, !.reply = "provider"]
                 ELSE [@ EXCEPT !.pc = "route", !.tried = <<call>>]]
           /\ counts' = Counted(c, p, out)
  /\ UNCHANGED <<weight, updating, fresh>>

\* The error of an exact provider request, or NULL: the provider must be
\* configured, and the project the testing project.
ExactRefused(in) ==
  IF in.exact \notin Registered THEN "unsupported_provider"
  ELSE IF ~in.testing THEN "invalid_parameter"
  ELSE NULL

\* The weights of the chain's providers, as the draw reads them.
WeightsOf(c) == [p \in Resolver[c] |-> weight[c][p]]

\* The providers to try are chosen.
Route(r) ==
  /\ req[r].pc = "route"
  /\ LET in == req[r].in
         refuse(e) == req' = [req EXCEPT ![r].pc = "done", ![r].reply = e]
         try(s) == req' = [req EXCEPT ![r].pc = "loop", ![r].queue = s]
         draws == RpcDraws(WeightsOf(in.chain), MaxCalls)
     IN  \/ in.exact # NULL /\ ExactRefused(in) # NULL /\ refuse(ExactRefused(in))
         \/ in.exact # NULL /\ ExactRefused(in) = NULL /\ try(<<in.exact>>)
         \/ in.exact = NULL /\ Resolver[in.chain] = {} /\ refuse("unsupported_chain")
         \/ in.exact = NULL /\ Resolver[in.chain] # {} /\ draws = {} /\ refuse("unavailable")
         \/ in.exact = NULL /\ \E s \in draws : try(s)
  /\ UNCHANGED <<weight, counts, updating, fresh>>

LoopCallGivesUp(r) ==
  /\ req[r].pc = "loop" /\ req[r].queue # <<>>
  /\ \E out \in Outcome :
       LET call == [provider |-> Head(req[r].queue), out |-> out]
       IN  req' = [req EXCEPT
             ![r].tried = Append(@, call),
             ![r].queue = IF out.kind = "error" THEN <<>> ELSE Tail(@),
             ![r].pc = IF Acceptable(out) THEN "done" ELSE @,
             ![r].reply = IF Acceptable(out) THEN "provider" ELSE @]
  /\ UNCHANGED <<weight, counts, updating, fresh>>

\* The call to the next provider ends: its response is the reply, or the loop
\* goes on to the provider after it.
LoopCall(r) ==
  /\ req[r].pc = "loop" /\ req[r].queue # <<>>
  /\ \E out \in Outcome :
       LET c == req[r].in.chain
           p == Head(req[r].queue)
           call == [provider |-> p, out |-> out]
           rest == [req[r] EXCEPT !.queue = Tail(@), !.tried = Append(@, call)]
       IN  /\ req' = [req EXCEPT ![r] =
                 IF Acceptable(out)
                 THEN [rest EXCEPT !.pc = "done", !.reply = "provider"]
                 ELSE rest]
           /\ counts' = Counted(c, p, out)
  /\ UNCHANGED <<weight, updating, fresh>>

ExhaustedRedraws(r) ==
  /\ req[r].pc = "loop" /\ req[r].queue = <<>>
  /\ req' = [req EXCEPT ![r].pc = "route", ![r].tried = <<>>]
  /\ UNCHANGED <<weight, counts, updating, fresh>>

\* No provider is left.
Exhausted(r) ==
  /\ req[r].pc = "loop" /\ req[r].queue = <<>>
  /\ req' = [req EXCEPT ![r].pc = "done", ![r].reply = "unavailable"]
  /\ UNCHANGED <<weight, counts, updating, fresh>>

\* The reply has left; the slot takes another request.
Leave(r) ==
  /\ req[r].pc = "done"
  /\ req' = [req EXCEPT ![r] = Idle]
  /\ UNCHANGED <<weight, counts, updating, fresh>>
-----------------------------------------------------------------------------
(* The weights updater. *)

\* provider_availability: the answers of a provider on all chains together,
\* counted one by one.
ProviderAvailability(m, p) ==
  [ok     |-> Cardinality({x \in Chain \X (1..MaxCount) : x[2] <= m[x[1]][p].ok}),
   failed |-> Cardinality({x \in Chain \X (1..MaxCount) : x[2] <= m[x[1]][p].failed})]

\* The pairs the metrics speak of, of providers that are not excluded; a pair
\* the resolver does not know is skipped.
Measured(m) ==
  {cp \in Pairs : /\ cp[2] \notin Excluded
                  /\ m[cp[1]][cp[2]] # None}

\* The weight update_values gives a pair.
NewWeight(m, c, p) ==
  Scaled(ChainWeight(m[c][p], ProviderAvailability(m, p)), Priority[c][p])

\* A round of the updater, every fifteen seconds: the metrics are queried, and
\* what they say of each pair is worked out from this one reading (a failed
\* query leaves the weights alone).  The query covers three hours; an answer
\* can drop out of the window once a round has read it.
QueryMetrics ==
  /\ ~updating
  /\ updating' = TRUE
  /\ fresh' = [cp \in Measured(counts) |-> NewWeight(counts, cp[1], cp[2])]
  /\ \E gone \in SUBSET Pairs :
       counts' = [c \in Chain |-> [p \in Provider |->
                    IF <<c, p>> \in gone THEN None ELSE counts[c][p]]]
  /\ UNCHANGED <<req, weight>>

\* update_values stores one weight after the other, requests reading them
\* meanwhile.
ApplyWeight ==
  /\ \E cp \in DOMAIN fresh :
       /\ weight' = [weight EXCEPT ![cp[1]][cp[2]] = fresh[cp]]
       /\ fresh' = [x \in DOMAIN fresh \ {cp} |-> fresh[x]]
  /\ UNCHANGED <<req, counts, updating>>

EndRound ==
  /\ updating /\ DOMAIN fresh = {}
  /\ updating' = FALSE
  /\ UNCHANGED <<req, weight, counts, fresh>>

Step(r) == SessionCall(r) \/ Route(r) \/ LoopCall(r) \/ Exhausted(r)

Next ==
  \/ \E r \in Request : Receive(r) \/ Step(r) \/ Leave(r)
  \/ QueryMetrics \/ ApplyWeight \/ EndRound

Spec == Init /\ [][Next]_vars

\* A request is a task the runtime keeps polling and each of its calls ends
\* within PROVIDER_PROXY_CALL_TIMEOUT; the updater is a task of its own.
Fairness ==
  /\ \A r \in Request : WF_vars(Step(r)) /\ WF_vars(Leave(r))
  /\ WF_vars(QueryMetrics) /\ WF_vars(ApplyWeight) /\ WF_vars(EndRound)

FairSpec == Spec /\ Fairness

-----------------------------------------------------------------------------
(* Properties. *)

Call == [provider : Provider, out : Outcome]

RequestRecord ==
  [pc : {"idle", "session", "route", "loop", "done"}, in : Input \cup {NULL},
   queue : Seq(Provider), tried : Seq(Call), reply : Error \cup {"local", "provider", NULL}]

\* Shapes of the state: request slots, weights, counters and the round of the
\* updater.
TypeOK ==
  /\ req \in [Request -> RequestRecord]
  /\ weight \in [Chain -> [Provider -> Nat]]
  /\ counts \in [Chain -> [Provider -> [ok : 0..MaxCount, failed : 0..MaxCount]]]
  /\ updating \in BOOLEAN
  /\ DOMAIN fresh \subseteq Pairs
  /\ \A cp \in DOMAIN fresh : fresh[cp] \in Nat

\* The calls of a request after the one to the session's provider, if any.
ViaSession(q) == q.in # NULL /\ ~q.in.local /\ q.in.session /\ SessionProvider[q.in.chain] # NULL
LoopCalls(q) == IF ViaSession(q) /\ q.tried # <<>> THEN Tail(q.tried) ELSE q.tried

\* Whom a request may be sent to: the provider of its session, then one of its
\* chain's providers, or the exact provider a testing project asks for; never
\* one provider twice in the retry loop, never more than MaxCalls of them.
CallsAreRouted ==
  \A r \in Request :
    LET q == req[r]
        loop == LoopCalls(q)
    IN  /\ ViaSession(q) /\ q.tried # <<>> =>
             q.tried[1].provider = SessionProvider[q.in.chain]
        /\ Len(loop) <= MaxCalls
        /\ \A i, j \in 1..Len(loop) : i # j => loop[i].provider # loop[j].provider
        /\ \A i \in 1..Len(loop) :
             IF q.in.exact = NULL
             THEN loop[i].provider \in Resolver[q.in.chain]
             ELSE loop[i].provider = q.in.exact /\ q.in.testing

\* A chain is reported temporarily unavailable only after as many different
\* providers of it as the budget allows were called and all of them failed,
\* whatever the weights were, all zero included.
UnavailableMeansTried ==
  \A r \in Request :
    LET q == req[r]
        called == {LoopCalls(q)[i].provider : i \in 1..Len(LoopCalls(q))}
    IN  q.reply = "unavailable" =>
          /\ \A i \in 1..Len(q.tried) : ~Acceptable(q.tried[i].out)
          /\ IF q.in.exact = NULL
             THEN Cardinality(called) = Least(MaxCalls, Cardinality(Resolver[q.in.chain]))
             ELSE called = {q.in.exact}

\* Every request is answered, however its providers behave.
EveryRequestAnswered == \A r \in Request : req[r].pc = "route" ~> req[r].pc = "done"

\* No blackout lasts: once calls succeed again and requests for the chain keep
\* coming, some provider of the chain has a weight above 0 again, even when
\* failures had taken every weight to 0.
AllGood ==
  \A r \in Request : \A i \in 1..Len(req[r].tried) : req[r].tried[i].out.kind = "response"
                        /\ req[r].tried[i].out.status = "200"
Asked(c) == \E r \in Request : req[r].pc = "route" /\ req[r].in.chain = c /\ req[r].in.exact = NULL
WeightsRecover ==
  \A c \in {d \in Chain : Resolver[d] # {}} :
    (<>[]AllGood /\ []<>Asked(c)) => []<>(\E p \in Resolver[c] : weight[c][p] > 0)

=============================================================================
