-------------------------- MODULE ProjectRegistry ---------------------------
(***************************************************************************)
(* Admission of a request by its project (src/state.rs, src/project/):     *)
(* what the project registry says of a project is cached in Redis for a    *)
(* time, a failing registry opens a circuit breaker for a cooldown, and    *)
(* while it cannot be asked the request is admitted unchecked.  Cache      *)
(* writes run in tasks of their own, so they land late and in any order,   *)
(* and the registry's answers can change between any two steps.            *)
(*                                                                         *)
(* Time is kept as ages that a Tick advances.  The registry and Redis are  *)
(* external: an answer of the registry reaches the cache within Delay of   *)
(* being given, and a write lands within Delay of being spawned.           *)
(***************************************************************************)
EXTENDS Integers, FiniteSets

CONSTANTS
  Request,     \* requests under way at one time
  Project,     \* project ids
  Verdict,     \* the answers the registry gives
  TTL,         \* project_data_cache_ttl
  Cooldown,    \* circuit_cooldown, 0 when the breaker is off
  Delay,       \* bound: how long an answer and a cache write can be under way
  MaxWrites,   \* bound: cache writes under way
  NULL

\* What the registry answers about a project: its data pass validate_access
\* and the quota, only the former, not even that; no such project; or the
\* registry's configuration error.
AnyVerdict == {"valid", "over_quota", "disabled", "missing", "config"}

\* What is required of a project: access, or access and quota.
Need == {"access", "quota"}

\* What becomes of a request: the decisions, and how it may go on or end
\* without one.
Replies == {"granted", "denied", "not_found", "quota_limit", "config_error",
            "storage_error", "unchecked", "unverified"}

ASSUME TimesAssumption ==
  TTL \in Nat /\ Cooldown \in Nat /\ Delay \in Nat /\ MaxWrites \in Nat

ASSUME VerdictAssumption == Verdict \subseteq AnyVerdict /\ NULL \notin AnyVerdict \cup Replies

\* The age past which no reading of the registry is in use anywhere.
Stale == TTL + Delay + Delay

VARIABLES
  validate,  \* config.server.validate_project_id
  truth,     \* [Project -> Verdict]: what the registry would answer now
  cache,     \* [Project -> entry or NULL]: project data in Redis
  writes,    \* cache writes spawned and not landed
  req,       \* [Request -> record]: requests being admitted
  circuit,   \* time since circuit_last_error_ms, Cooldown when it is 0 or past
  booting,   \* the first millisecond, when a recorded error reads as "none"
  ago,       \* history: [Project -> [Verdict -> age]] since the verdict held
  failedAgo, \* history: time since this process saw a call to the registry fail
  missed     \* history: that failure came in the first millisecond

history == <<ago, failedAgo, missed>>
vars == <<validate, truth, cache, writes, req, circuit, booting, history>>

Free == [pc |-> "free", project |-> NULL, need |-> NULL, data |-> NULL, old |-> 0, reply |-> NULL]

Init ==
  /\ validate \in BOOLEAN
  /\ truth \in [Project -> Verdict]
  /\ cache = [p \in Project |-> NULL]
  /\ writes = {}
  /\ req = [r \in Request |-> Free]
  /\ circuit = Cooldown
  /\ booting = TRUE
  /\ ago = [p \in Project |-> [v \in Verdict |-> IF v = truth[p] THEN 0 ELSE Stale + 1]]
  /\ failedAgo = Cooldown + 1
  /\ missed = FALSE

-----------------------------------------------------------------------------
(* The decision of validate_project_access(_and_quota). *)

DecisionIgnoresQuota(need, v) ==
  IF v \in {"valid", "over_quota"} THEN "granted" ELSE "denied"

\* The reply to a request that needs `need` when the registry's word is v.
Decision(need, v) ==
  CASE v = "valid" -> "granted"
    [] v = "over_quota" /\ need = "access" -> "granted"
    [] v = "over_quota" /\ need = "quota" -> "quota_limit"
    [] v = "disabled" -> "denied"
    [] v = "missing" -> "not_found"
    [] v = "config" -> "config_error"

IsOpenPast == circuit <= Cooldown

IsOpenShort == Cooldown # 0 /\ circuit + 1 < Cooldown

\* is_circuit_open.
IsOpen == Cooldown # 0 /\ circuit < Cooldown

\* open_circuit stamps the milliseconds since start; 0 means no error.
OpenCircuit == circuit' = IF booting THEN Cooldown ELSE 0

-----------------------------------------------------------------------------
(* The steps of a request. *)

\* A request arrives; without validation it is admitted as it is.
Arrive(r) ==
  /\ req[r].pc = "free"
  /\ \E p \in Project, need \in Need :
       req' = [req EXCEPT ![r] =
         IF validate
         THEN [Free EXCEPT !.pc = "cache", !.project = p, !.need = need]
         ELSE [Free EXCEPT !.pc = "done", !.project = p, !.need = need,
                           !.reply = "unchecked"]]
  /\ UNCHANGED <<validate, truth, cache, writes, circuit, booting, history>>

CacheHitRenews(r) ==
  /\ req[r].pc = "cache"
  /\ cache[req[r].project] # NULL
  /\ LET e == cache[req[r].project]
     IN  /\ req' = [req EXCEPT ![r].pc = "done", ![r].data = e.data, ![r].old = e.old,
                               ![r].reply = Decision(req[r].need, e.data)]
         /\ cache' = [cache EXCEPT ![req[r].project].left = TTL]
  /\ UNCHANGED <<validate, truth, writes, circuit, booting, history>>

\* cache.fetch finds an entry: it decides.
CacheHit(r) ==
  /\ req[r].pc = "cache"
  /\ cache[req[r].project] # NULL
  /\ LET e == cache[req[r].project]
     IN  req' = [req EXCEPT ![r].pc = "done", ![r].data = e.data, ![r].old = e.old,
                            ![r].reply = Decision(req[r].need, e.data)]
  /\ UNCHANGED <<validate, truth, cache, writes, circuit, booting, history>>

\* No entry, or one that cannot be read: the registry is asked, unless the
\* circuit is open, in which case the request is admitted unverified.
CacheMiss(r) ==
  /\ req[r].pc = "cache"
  /\ req' = [req EXCEPT ![r].pc = IF IsOpen THEN "done" ELSE "registry",
                        ![r].reply = IF IsOpen THEN "unverified" ELSE NULL]
  /\ UNCHANGED <<validate, truth, cache, writes, circuit, booting, history>>

\* Redis fails: the error is the reply.
CacheError(r) ==
  /\ req[r].pc = "cache"
  /\ req' = [req EXCEPT ![r].pc = "done", ![r].reply = "storage_error"]
  /\ UNCHANGED <<validate, truth, cache, writes, circuit, booting, history>>

\* The registry reads its data to answer the request.
RegistryReads(r) ==
  /\ req[r].pc = "registry" /\ req[r].data = NULL
  /\ req' = [req EXCEPT ![r].data = truth[req[r].project], ![r].old = 0]
  /\ UNCHANGED <<validate, truth, cache, writes, circuit, booting, history>>

\* The answer arrives: a write to the cache is spawned and the request decided.
RegistryAnswers(r) ==
  /\ req[r].pc = "registry" /\ req[r].data # NULL
  /\ Cardinality(writes) < MaxWrites
  /\ writes' = writes \cup {[project |-> req[r].project, data |-> req[r].data,
                             old |-> req[r].old, wait |-> 0]}
  /\ req' = [req EXCEPT ![r].pc = "done", ![r].reply = Decision(req[r].need, req[r].data)]
  /\ UNCHANGED <<validate, truth, cache, circuit, booting, history>>

\* The call fails: the circuit opens, nothing is cached, and the request is
\* admitted unverified.
RegistryFails(r) ==
  /\ req[r].pc = "registry"
  /\ req' = [req EXCEPT ![r].pc = "done", ![r].data = NULL, ![r].old = 0, ![r].reply = "unverified"]
  /\ OpenCircuit
  /\ failedAgo' = 0
  /\ missed' = booting
  /\ UNCHANGED <<validate, truth, cache, writes, booting, ago>>

\* The handler goes on with its own work.
Leave(r) ==
  /\ req[r].pc = "done"
  /\ req' = [req EXCEPT ![r] = Free]
  /\ UNCHANGED <<validate, truth, cache, writes, circuit, booting, history>>

-----------------------------------------------------------------------------
(* The spawned cache writes, the registry and time. *)

Entry(w) == [data |-> w.data, old |-> w.old, left |-> TTL]

\* set_serialized with the TTL: the write replaces what the cache holds.
WriteLands ==
  /\ \E w \in writes :
       /\ cache' = [cache EXCEPT ![w.project] = IF TTL = 0 THEN NULL ELSE Entry(w)]
       /\ writes' = writes \ {w}
  /\ UNCHANGED <<validate, truth, req, circuit, booting, history>>

\* The write fails, which is only logged.
WriteFails ==
  /\ \E w \in writes : writes' = writes \ {w}
  /\ UNCHANGED <<validate, truth, cache, req, circuit, booting, history>>

\* The project's owner, its plan or the registry's setup changes.
RegistryChanges ==
  /\ \E p \in Project : \E v \in Verdict \ {truth[p]} :
       /\ truth' = [truth EXCEPT ![p] = v]
       /\ ago' = [ago EXCEPT ![p][v] = 0]
  /\ UNCHANGED <<validate, cache, writes, req, circuit, booting, failedAgo, missed>>

\* The process restarts: tasks and the breaker are gone, Redis stays.
Restart ==
  /\ req' = [r \in Request |-> Free]
  /\ writes' = {}
  /\ circuit' = Cooldown
  /\ booting' = TRUE
  /\ failedAgo' = Cooldown + 1
  /\ missed' = FALSE
  /\ UNCHANGED <<validate, truth, cache, ago>>

Older(n, bound) == IF n < bound THEN n + 1 ELSE n

\* Redis drops an entry whose time has run out.
AgedEntry(e) ==
  IF e = NULL \/ e.left <= 1 THEN NULL ELSE [e EXCEPT !.old = Older(@, Stale + 1), !.left = @ - 1]

\* A unit of time passes, within the bounds on answers and writes under way;
\* a decided request does not wait.
Tick ==
  /\ \A r \in Request : req[r].pc = "registry" /\ req[r].data # NULL => req[r].old < Delay
  /\ \A w \in writes : w.wait < Delay
  /\ \A r \in Request : req[r].pc # "done"
  /\ req' = [r \in Request |-> [req[r] EXCEPT !.old =
               IF req[r].data = NULL THEN 0 ELSE Older(@, Stale + 1)]]
  /\ writes' = {[w EXCEPT !.old = @ + 1, !.wait = @ + 1] : w \in writes}
  /\ cache' = [p \in Project |-> AgedEntry(cache[p])]
  /\ circuit' = Older(circuit, Cooldown)
  /\ booting' = FALSE
  /\ ago' = [p \in Project |-> [v \in Verdict |->
               IF v = truth[p] THEN 0 ELSE Older(ago[p][v], Stale + 1)]]
  /\ failedAgo' = Older(failedAgo, Cooldown + 1)
  /\ UNCHANGED <<validate, truth, missed>>

Handle(r) ==
  \/ CacheHit(r) \/ CacheMiss(r) \/ CacheError(r)
  \/ RegistryReads(r) \/ RegistryAnswers(r) \/ RegistryFails(r)

Next ==
  \/ \E r \in Request : Arrive(r) \/ Handle(r) \/ Leave(r)
  \/ WriteLands \/ WriteFails \/ RegistryChanges \/ Restart \/ Tick

Spec == Init /\ [][Next]_vars

-----------------------------------------------------------------------------
(* Properties. *)

CacheEntry == [data : Verdict, old : 0..Stale, left : 1..TTL]

RequestState ==
  [pc : {"free", "cache", "registry", "done"}, project : Project \cup {NULL}, need : Need \cup {NULL},
   data : Verdict \cup {NULL}, old : 0..Stale, reply : Replies \cup {NULL}]

\* Shapes of the state; ages stay within the bounds the times give them.
TypeOK ==
  /\ validate \in BOOLEAN /\ booting \in BOOLEAN /\ missed \in BOOLEAN
  /\ truth \in [Project -> Verdict]
  /\ cache \in [Project -> CacheEntry \cup {NULL}]
  /\ writes \subseteq [project : Project, data : Verdict, old : 0..(Delay + Delay), wait : 0..Delay]
  /\ req \in [Request -> RequestState]
  /\ circuit \in 0..Cooldown
  /\ ago \in [Project -> [Verdict -> 0..(Stale + 1)]]
  /\ failedAgo \in 0..(Cooldown + 1)

\* The verdicts of the registry a reply can rest on.
Grounds(need, reply) ==
  CASE reply = "granted" -> IF need = "access" THEN {"valid", "over_quota"} ELSE {"valid"}
    [] reply = "quota_limit" -> {"over_quota"}
    [] reply = "denied" -> {"disabled"}
    [] reply = "not_found" -> {"missing"}
    [] reply = "config_error" -> {"config"}
    [] OTHER -> {}

\* A request admitted, refused or limited by its project is so for a reason
\* the registry gave at most TTL + 2 Delay ago, however late cache writes
\* landed, in whatever order, and across restarts; an outage of the registry
\* refuses nobody.
VerdictWasTrue ==
  \A r \in Request :
    LET q == req[r]
    IN  Grounds(q.need, q.reply) # {} =>
          \E v \in Grounds(q.need, q.reply) : v \in Verdict /\ ago[q.project][v] <= Stale

\* A request is admitted without a check only when the registry has just
\* failed, on its own call or within the cooldown.
FailsOpenOnlyInOutage ==
  \A r \in Request : req[r].reply = "unverified" => failedAgo = 0 \/ failedAgo < Cooldown

\* The breaker shields a failing registry: until the cooldown is over no new
\* call starts, unless the failure was stamped with the first millisecond.
BreakerShields ==
  [][\A r \in Request : req[r].pc = "cache" /\ req'[r].pc = "registry"
       => missed \/ failedAgo >= Cooldown]_vars

=============================================================================
