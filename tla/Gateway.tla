------------------------------ MODULE Gateway ------------------------------
(***************************************************************************)
(* The way of a request through the server (src/lib.rs): the rate limit    *)
(* (src/utils/rate_limit.rs), a token bucket in Redis that all servers     *)
(* share with a memory of refused keys in each; the JSON-RPC dispatcher    *)
(* (src/handlers/json_rpc/handler.rs); and its CORS policy, which depends  *)
(* on the method and on the origins the project allows.  The project's     *)
(* data is read three times on the way, and can change in between.         *)
(***************************************************************************)
EXTENDS Integers, Sequences, FiniteSets, SequencesExt, TLC

CONSTANTS
  GateRequest,   \* requests under way
  Server,        \* instances of the service
  Path,          \* matched paths; "/v1/json-rpc" is one
  Address,       \* forwarded IP addresses; None for a missing or bad header
  Whitelist,     \* ip_whitelist
  Origin,        \* Origin headers: [scheme, host, port, text]
  OriginLists,   \* the allowed_origins a project may have: sets of entries
  MaxTokens, RefillRate, Interval,   \* the configured token bucket
  GateMaxTime,   \* bound: how far the clock goes
  MaxEdits,      \* bound: changes of the project's origins
  None

\* An origin is parsed (host: its labels) or is opaque, like "null".  An entry
\* names a scheme or not, a host pattern, and a port, 0 if unreadable, or none.  text
\* is what is compared literally.
ParsedOrigin == [scheme : STRING, host : Seq(STRING), port : Nat, text : STRING]
OriginEntry == [scheme : STRING \cup {None}, wild : BOOLEAN, any : BOOLEAN, host : Seq(STRING),
          port : Nat \cup {None}, text : STRING]

ASSUME BucketAssumption ==
  /\ MaxTokens \in Nat \ {0} /\ RefillRate \in Nat /\ Interval \in Nat \ {0}
  /\ GateMaxTime \in Nat /\ MaxEdits \in Nat
  /\ Whitelist \subseteq Address \ {None} /\ None \notin Path
  /\ \A o \in Origin : o.host = None \/ o \in ParsedOrigin
  /\ \A l \in OriginLists : l \subseteq OriginEntry

VARIABLES
  bucket,    \* [key -> [tokens, at]]: the token buckets in Redis
  refused,   \* [Server -> [key -> until or None]]: refused keys in memory
  gateReq,   \* [GateRequest -> record]: requests under way
  allowed,   \* allowed_origins of the project
  edits,     \* changes made to them
  gateNow,   \* the clock
  emptied    \* history: [key -> when Redis last refused it, or None]

gateVars == <<bucket, refused, gateReq, allowed, edits, gateNow, emptied>>

\* format_key.
FormatKey(path, ip) == <<path, ip>>

BucketKey == Path \X (Address \ {None})

IdleRequest == [pc |-> "idle", server |-> None, path |-> None, ip |-> None, method |-> None,
                origin |-> None, seen |-> {}, status |-> None, code |-> None, cors |-> None]

GateInit ==
  /\ bucket = [k \in BucketKey |-> [tokens |-> MaxTokens, at |-> 0]]
  /\ refused = [s \in Server |-> [k \in BucketKey |-> None]]
  /\ gateReq = [r \in GateRequest |-> IdleRequest]
  /\ allowed \in OriginLists
  /\ edits = 0 /\ gateNow = 0
  /\ emptied = [k \in BucketKey |-> None]

-----------------------------------------------------------------------------
(* Methods, their errors and the codes of these. *)

PayMethods == {"reown_getExchanges", "reown_getExchangePayUrl", "reown_getExchangeBuyStatus"}
PosMethods == {"wc_pos_buildTransactions", "wc_pos_checkTransaction", "wc_pos_supportedNetworks"}
WalletMethods == {"wallet_prepareCalls", "wallet_sendPreparedCalls", "wallet_getCallsStatus", "wallet_getAssets"}
KnownMethods == PayMethods \cup PosMethods \cup WalletMethods

\* None is no method, status or CORS header.
ASSUME NoneAssumption == None \notin Int /\ None \notin KnownMethods \cup {"any", "origin"}

\* The codes of the point of sale's errors, a representative of each kind.
PosCodes(kind) == CASE kind = "validation" -> -18901 [] kind = "internal" -> -18940

\* to_json_rpc_error_code.
ErrorCode(method, kind) ==
  CASE method \in PosMethods -> PosCodes(kind)
    [] method = "wallet_prepareCalls" -> -2
    [] method = "wallet_sendPreparedCalls" -> -3
    [] method = "wallet_getCallsStatus" -> -4
    [] method = "wallet_getAssets" -> -5
    [] method = "reown_getExchanges" -> -6
    [] method = "reown_getExchangePayUrl" -> -7
    [] method = "reown_getExchangeBuyStatus" -> -8

\* into_response of RpcError: the statuses of requests, names, permissions and
\* providers.
RequestStatus == [UnsupportedChain |-> 400, InvalidScheme |-> 400, InvalidAddress |-> 400,
                  InvalidParameter |-> 400,
                  RegistryError |-> 401, QuotaLimitReached |-> 429, WebSocketConnectionExpected |-> 426,
                  TransportError |-> 503, ChainTemporarilyUnavailable |-> 503, IdentityProviderError |-> 503]
NameStatus == [InvalidNameFormat |-> 400, NameAlreadyRegistered |-> 400, NameNotFound |-> 404,
               NameByAddressNotFound |-> 404, ExpiredTimestamp |-> 400, SignatureValidationError |-> 401,
               NameOwnerValidationError |-> 401]
PermissionStatus == [RateLimited |-> 429, PermissionNotFound |-> 400, RevokedPermission |-> 400,
                     SignatureFormatError |-> 400, AbiDecodingError |-> 400]
ProviderStatus == [TransactionProviderError |-> 503, BalanceProviderError |-> 503, ConversionProviderError |-> 503,
                   SimulationProviderUnavailable |-> 503, CosignerPermissionDenied |-> 401,
                   CosignerUnsupportedPermission |-> 401, OrchestrationIdNotFound |-> 400]

RestErrors == {"other"} \cup DOMAIN RequestStatus \cup DOMAIN NameStatus
                \cup DOMAIN PermissionStatus \cup DOMAIN ProviderStatus
RestStatus(e) ==
  CASE e \in DOMAIN RequestStatus -> RequestStatus[e]
    [] e \in DOMAIN NameStatus -> NameStatus[e]
    [] e \in DOMAIN PermissionStatus -> PermissionStatus[e]
    [] e \in DOMAIN ProviderStatus -> ProviderStatus[e]
    [] e = "other" -> 500

\* is_internal decides the HTTP status of an error.
HttpStatus(kind) == IF kind = "internal" THEN 500 ELSE 400

-----------------------------------------------------------------------------
(* Origins. *)

HostMatchesSuffix(e, host) ==
  \/ e.any
  \/ e.wild /\ IsSuffix(e.host, host)
  \/ ~e.wild /\ e.host = host

\* host_matches_pattern: a wildcard stands for one label at least.
HostMatchesPattern(e, host) ==
  \/ e.any
  \/ e.wild /\ Len(host) > Len(e.host) /\ IsSuffix(e.host, host)
  \/ ~e.wild /\ e.host = host

\* One entry of the list against an origin.  An entry without a scheme is all
\* host, so one with a port matches no host.
EntryAllows(e, o) ==
  \/ e.text = o.text
  \/ /\ o.host # None /\ e.scheme = o.scheme
     /\ HostMatchesPattern(e, o.host)
     /\ e.port \in {None, o.port}
  \/ /\ o.host # None /\ e.scheme = None /\ e.port = None
     /\ HostMatchesPattern(e, o.host)

\* is_origin_allowed_for_project, once the project's data is there.
OriginAllowed(list, o) == o.text = "http://localhost:3000" \/ \E e \in list : EntryAllows(e, o)

-----------------------------------------------------------------------------
(* The rate limit. *)

GateAnswer(r, status) == gateReq' = [gateReq EXCEPT ![r].pc = "answered", ![r].status = status]

GateArrive(r) ==
  /\ gateReq[r].pc = "idle"
  /\ \E s \in Server, p \in Path, ip \in Address :
       gateReq' = [gateReq EXCEPT ![r] = [IdleRequest EXCEPT !.pc = "limit", !.server = s, !.path = p, !.ip = ip]]
  /\ UNCHANGED <<bucket, refused, allowed, edits, gateNow, emptied>>

\* rate_limit_middleware: a request without a forwarded address is not limited.
IsExempt(r) == gateReq[r].ip = None \/ gateReq[r].ip \in Whitelist

Exempt(r) ==
  /\ gateReq[r].pc = "limit" /\ IsExempt(r)
  /\ gateReq' = [gateReq EXCEPT ![r].pc = "geo"]
  /\ UNCHANGED <<bucket, refused, allowed, edits, gateNow, emptied>>

RememberForever(k) == [refused EXCEPT ![k[1]][k[2]] = GateMaxTime + 1]

\* An entry of the memory cache lives for the interval.
Remember(k) == [refused EXCEPT ![k[1]][k[2]] = gateNow + Interval]

Remembered(s, k) == refused[s][k] # None /\ gateNow < refused[s][k]

\* token_bucket: a key this server remembers is refused at once.
RefuseRemembered(r) ==
  /\ gateReq[r].pc = "limit" /\ ~IsExempt(r)
  /\ Remembered(gateReq[r].server, FormatKey(gateReq[r].path, gateReq[r].ip))
  /\ GateAnswer(r, 429)
  /\ UNCHANGED <<bucket, refused, allowed, edits, gateNow, emptied>>

\* The script in Redis: whole intervals refill the bucket.
Refilled(b) ==
  LET n == (gateNow - b.at) \div Interval
      t == b.tokens + n * RefillRate
  IN  [tokens |-> IF t > MaxTokens THEN MaxTokens ELSE t, at |-> b.at + n * Interval]

TakeToken(r) ==
  /\ gateReq[r].pc = "limit" /\ ~IsExempt(r)
  /\ LET k == FormatKey(gateReq[r].path, gateReq[r].ip)
         b == Refilled(bucket[k])
     IN  /\ ~Remembered(gateReq[r].server, k)
         /\ \/ /\ b.tokens > 0
               /\ bucket' = [bucket EXCEPT ![k] = [b EXCEPT !.tokens = @ - 1]]
               /\ gateReq' = [gateReq EXCEPT ![r].pc = "geo"]
               /\ UNCHANGED <<refused, emptied>>
            \/ /\ b.tokens = 0
               /\ bucket' = [bucket EXCEPT ![k] = b]
               /\ refused' = Remember(<<gateReq[r].server, k>>)
               /\ emptied' = [emptied EXCEPT ![<<gateReq[r].path, gateReq[r].ip>>] = gateNow]
               /\ GateAnswer(r, 429)
  /\ UNCHANGED <<allowed, edits, gateNow>>

\* Redis fails: the request goes on.
LimitFails(r) ==
  /\ gateReq[r].pc = "limit" /\ ~IsExempt(r)
  /\ ~Remembered(gateReq[r].server, FormatKey(gateReq[r].path, gateReq[r].ip))
  /\ gateReq' = [gateReq EXCEPT ![r].pc = "geo"]
  /\ UNCHANGED <<bucket, refused, allowed, edits, gateNow, emptied>>

\* A blocked country is turned away; what is left is routed by its path.
GeoBlock(r) ==
  /\ gateReq[r].pc = "geo"
  /\ \/ GateAnswer(r, 401)
     \/ gateReq[r].path # "/v1/json-rpc" /\ gateReq' = [gateReq EXCEPT ![r].pc = "rest"]
     \/ /\ gateReq[r].path = "/v1/json-rpc"
        /\ \E m \in KnownMethods \cup {"unknown", "preflight"}, o \in Origin \cup {None} :
             gateReq' = [gateReq EXCEPT ![r].pc = "dispatch", ![r].method = m, ![r].origin = o]
  /\ UNCHANGED <<bucket, refused, allowed, edits, gateNow, emptied>>

\* The other paths have handlers of their own; theirs is an open CORS policy.
RestAnswer(r) ==
  /\ gateReq[r].pc = "rest"
  /\ \E status \in {200} \cup {RestStatus(e) : e \in RestErrors} :
       gateReq' = [gateReq EXCEPT ![r].pc = "answered", ![r].status = status, ![r].cors = "any"]
  /\ UNCHANGED <<bucket, refused, allowed, edits, gateNow, emptied>>

-----------------------------------------------------------------------------
(* The dispatcher and its CORS policy. *)

\* A response goes on to the CORS policy.
Respond(r, status, code) ==
  gateReq' = [gateReq EXCEPT ![r].pc = "debug", ![r].status = status, ![r].code = code]

\* handle_rpc: the project is validated, then the method looked up, then its
\* parameters parsed, then its handler called.
Dispatch(r) ==
  /\ gateReq[r].pc = "dispatch" /\ gateReq[r].method # "preflight"
  /\ \/ Respond(r, 400, -1)
     \/ gateReq[r].method = "unknown" /\ Respond(r, 400, -32601)
     \/ /\ gateReq[r].method # "unknown"
        /\ \/ Respond(r, 200, 0)
           \/ gateReq[r].method # "wc_pos_supportedNetworks" /\ Respond(r, 400, -32602)
           \/ \E kind \in {"validation", "internal"} :
                Respond(r, HttpStatus(kind), ErrorCode(gateReq[r].method, kind))
  /\ UNCHANGED <<bucket, refused, allowed, edits, gateNow, emptied>>

\* json_rpc_preflight is open to every origin, whatever the method to come.
Preflight(r) ==
  /\ gateReq[r].pc = "dispatch" /\ gateReq[r].method = "preflight"
  /\ gateReq' = [gateReq EXCEPT ![r].pc = "answered", ![r].status = 204, ![r].cors = "any"]
  /\ UNCHANGED <<bucket, refused, allowed, edits, gateNow, emptied>>

\* A body that is no JSON-RPC request is rejected ahead of the handler, and
\* gets no CORS headers.
RejectBody(r) ==
  /\ gateReq[r].pc = "dispatch" /\ gateReq[r].method # "preflight"
  /\ GateAnswer(r, 400)
  /\ UNCHANGED <<bucket, refused, allowed, edits, gateNow, emptied>>

\* get_project_allowed_origins, for the debug header; it is left out when the
\* project's data cannot be had.
DebugHeader(r) ==
  /\ gateReq[r].pc = "debug"
  /\ gateReq' = [gateReq EXCEPT ![r].pc = "cors"]
  /\ UNCHANGED <<bucket, refused, allowed, edits, gateNow, emptied>>

\* json_rpc_with_dynamic_cors; list is None when the registry fails.
CorsHeader(r, list) ==
  IF gateReq[r].method \in PayMethods
  THEN IF gateReq[r].origin # None /\ list # None /\ OriginAllowed(list, gateReq[r].origin)
       THEN "origin" ELSE None
  ELSE "any"

ApplyCors(r) ==
  /\ gateReq[r].pc = "cors"
  /\ \E list \in {allowed, None} :
       gateReq' = [gateReq EXCEPT ![r].pc = "answered", ![r].cors = CorsHeader(r, list),
                 ![r].seen = IF list = None THEN {} ELSE {list}]
  /\ UNCHANGED <<bucket, refused, allowed, edits, gateNow, emptied>>

GateEnd(r) ==
  /\ gateReq[r].pc = "answered"
  /\ gateReq' = [gateReq EXCEPT ![r] = IdleRequest]
  /\ UNCHANGED <<bucket, refused, allowed, edits, gateNow, emptied>>

\* The project's owner edits its origins.
EditOrigins ==
  /\ edits < MaxEdits
  /\ \E l \in OriginLists \ {allowed} : allowed' = l
  /\ edits' = edits + 1
  /\ UNCHANGED <<bucket, refused, gateReq, gateNow, emptied>>

GateTick ==
  /\ gateNow < GateMaxTime
  /\ gateNow' = gateNow + 1
  /\ UNCHANGED <<bucket, refused, gateReq, allowed, edits, emptied>>

GateStep(r) ==
  \/ GateArrive(r) \/ Exempt(r) \/ RefuseRemembered(r) \/ TakeToken(r) \/ LimitFails(r) \/ GeoBlock(r)
  \/ RestAnswer(r) \/ Preflight(r) \/ Dispatch(r) \/ RejectBody(r)
  \/ DebugHeader(r) \/ ApplyCors(r) \/ GateEnd(r)

GateNext == EditOrigins \/ GateTick \/ \E r \in GateRequest : GateStep(r)

GateSpec == GateInit /\ [][GateNext]_gateVars

-----------------------------------------------------------------------------
(* Properties. *)

\* A request is refused for its rate only if Redis refused the same path and
\* address less than an interval ago, whichever server takes it.
RefusedWhileEmpty ==
  [][\A r \in GateRequest :
       gateReq[r].pc = "limit" /\ gateReq'[r].status = 429 =>
         LET t == emptied'[<<gateReq[r].path, gateReq[r].ip>>]
         IN  t # None /\ gateNow < t + Interval]_gateVars

\* What an entry of allowed_origins asks of an origin, said part by part.
AsksFor(e, o) ==
  \/ e.text = o.text
  \/ /\ o.host # None
     /\ e.scheme # None => e.scheme = o.scheme
     /\ e.port # None => e.port = o.port
     /\ \/ e.any
        \/ e.wild /\ \E n \in 1..Len(o.host) : e.host = SubSeq(o.host, n + 1, Len(o.host))
        \/ ~e.wild /\ e.host = o.host

\* The answer of a pay method can be read by a page only if an entry the
\* project had on the way asks for its origin in every part; the answers of
\* the other methods can be read by all.
EchoedOnlyIfAllowed ==
  \A r \in GateRequest : gateReq[r].pc = "answered" =>
    /\ gateReq[r].cors = "any" => gateReq[r].method \notin PayMethods
    /\ gateReq[r].cors = "origin" =>
         /\ gateReq[r].method \in PayMethods
         /\ \/ gateReq[r].origin.text = "http://localhost:3000"
            \/ \E l \in gateReq[r].seen : \E e \in l : AsksFor(e, gateReq[r].origin)

=============================================================================
