----------------------------- MODULE MCRpcProxy -----------------------------
(***************************************************************************)
(* Instances of RpcProxy for TLC: a chain ca with two providers p1 and p2, *)
(* a provider p3 nobody configured, a chain cx nobody serves, and the      *)
(* answers each run is about.                                              *)
(***************************************************************************)
EXTENDS RpcProxy

CONSTANTS p1, p2, p3, ca, cx

ChainsAndUnknown == {ca, cx}

ServeKnown == [c \in Chain |-> IF c = cx THEN {} ELSE {p1, p2}]

MaxAndLow ==
  [c \in Chain |-> [p \in Provider |->
     IF p = p1 THEN PriorityValue.Max ELSE PriorityValue.Low]]
\* On chain ca a session is tied to p2, on cx to a provider nobody configured.
Sessions == [c \in Chain |-> IF c = ca THEN p2 ELSE p3]

\* A request of any kind with any outcome of its calls, while the updater rests
\* and nothing else is counted; and, without end, plain requests with calls that
\* succeed, fail or stay out, while the updater works.
Response(s, b) == [kind |-> "response", status |-> s, body |-> b]
Plain(in) == in.chain = ca /\ ~in.session /\ in.exact = NULL /\ ~in.testing /\ ~in.local
GoodOrDown == {Response("200", "result"), Response("5xx", "opaque"), [kind |-> "timeout"]}

Ordinary(q) == q.in # NULL => Plain(q.in) /\ \A i \in DOMAIN q.tried : q.tried[i].out \in GoodOrDown

Responses(q, p) ==
  {i \in DOMAIN q.tried : q.tried[i].provider = p /\ q.tried[i].out.kind = "response"}

Scope ==
  \A r \in Request : ~Ordinary(req[r]) =>
    /\ ~updating /\ weight = Priority
    /\ \A c \in Chain, p \in Provider :
         counts[c][p].ok + counts[c][p].failed <= Cardinality(Responses(req[r], p))
=============================================================================
