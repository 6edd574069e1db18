--------------------------- MODULE IdentityReads ---------------------------
(***************************************************************************)
(* The identity handler (src/handlers/identity.rs): the name of an address *)
(* from the cache, from ENS through the service's own RPC proxy, or from   *)
(* the local registry of names, and how long clients may keep the answer.  *)
(*                                                                         *)
(* ens and local are what ENS and the registry say of the one address      *)
(* modelled; lastEns and lastLocal remember when each value last held.     *)
(***************************************************************************)
EXTENDS ReadCaches, FiniteSets

CONSTANTS
  Lookup,       \* slots of identity requests under way
  Name,         \* names, and NoName
  NoName,
  IdentityTtl,  \* CACHE_TTL
  MaxLookups,   \* bound: identity requests ever started
  MaxRenames    \* bound: changes of the names

ASSUME NameAssumption == NoName \in Name /\ IdentityTtl \in Nat

VARIABLES
  lookup,     \* [Lookup -> record]
  identity,   \* identity_cache, of the one address
  saves,      \* spawned cache writes
  ens, local, \* the names the address has
  lastEns, lastLocal,
  kept,       \* an answer an intermediary may serve until its max-age is over
  looked, renamed

identityVars == <<lookup, identity, saves, ens, local, lastEns, lastLocal, kept, looked, renamed>>

IdleLookup ==
  [pc |-> "idle", cache |-> TRUE, at |-> 0, res |-> NULL]

Nameless == [ens |-> NoName, local |-> NoName, guessed |-> FALSE, resolved |-> 0]

IdentityInit ==
  /\ lookup = [r \in Lookup |-> IdleLookup]
  /\ identity = NULL
  /\ saves = {}
  /\ ens \in Name /\ local \in Name
  /\ lastEns = [n \in Name |-> IF n = ens THEN 0 ELSE -MaxTime]
  /\ lastLocal = [n \in Name |-> IF n = local THEN 0 ELSE -MaxTime]
  /\ kept = NULL
  /\ looked = 0 /\ renamed = 0

world == <<ens, local, lastEns, lastLocal, kept, renamed>>

-----------------------------------------------------------------------------
Step(r, pc) == lookup' = [lookup EXCEPT ![r].pc = pc]

\* The request is answered, or ends with an error.
EndLookup(r) == lookup' = [lookup EXCEPT ![r] = IdleLookup]

\* A request arrives.  It may be refused, and a Solana address has no name;
\* use_cache is for the
\* testing project, and turns the cache off when it says so.
StartLookup(r) ==
  /\ lookup[r].pc = "idle" /\ looked < MaxLookups
  /\ looked' = looked + 1
  /\ \/ EndLookup(r)
     \/ \E use \in BOOLEAN :
          lookup' = [lookup EXCEPT ![r].pc = IF use THEN "cache" ELSE "ens",
                                   ![r].cache = use, ![r].at = now, ![r].res = Nameless]
  /\ UNCHANGED <<identity, saves>> /\ UNCHANGED world

\* A cached identity is the answer; a cache that cannot be read fails the
\* request.
ReadIdentityCache(r) ==
  /\ lookup[r].pc = "cache"
  /\ \/ EndLookup(r)
     \/ Step(r, "ens")
     \/ /\ Alive(identity)
        /\ lookup' = [lookup EXCEPT ![r].pc = "answer", ![r].res = identity.value,
                                    ![r].cache = FALSE]
  /\ UNCHANGED <<identity, saves, looked>> /\ UNCHANGED world

\* What handle_rpc_error makes of an error of the lookup: an empty result and
\* the codes of a reverted execution are no name, a node that cannot answer
\* or answers badly fails the request.
ErrorIsNoName == {"contract_call", "execution_code", "other_provider_error"}
ErrorFails == {"no_provider", "malformed", "json_rpc_error"}

\* The name ENS has for the address.  A name goes on to its avatar; without
\* one the identity is resolved at this time.
LookupEns(r) ==
  /\ lookup[r].pc = "ens"
  /\ \/ /\ lookup' = [lookup EXCEPT ![r].res.ens = ens, ![r].res.resolved = now,
                                    ![r].pc = IF ens = NoName THEN "local" ELSE "avatar"]
     \/ \E e \in ErrorIsNoName :
          lookup' = [lookup EXCEPT ![r].res.guessed = TRUE, ![r].res.resolved = now,
                                   ![r].pc = "local"]
     \/ \E e \in ErrorFails : EndLookup(r)
  /\ UNCHANGED <<identity, saves, looked>> /\ UNCHANGED world

\* An identity is resolved; its cache write is spawned.
Resolve(r, res) ==
  /\ lookup' = [lookup EXCEPT ![r].res = res, ![r].pc = "answer"]
  /\ saves' = IF lookup[r].cache THEN saves \cup {[res |-> res, at |-> now]} ELSE saves

\* The avatar of the name, or none.
LookupAvatar(r) ==
  /\ lookup[r].pc = "avatar"
  /\ \/ Resolve(r, [lookup[r].res EXCEPT !.resolved = now])
     \/ EndLookup(r) /\ UNCHANGED saves
  /\ UNCHANGED <<identity, looked>> /\ UNCHANGED world

\* Without a name in ENS, the first name the registry has.
LookupLocal(r) ==
  /\ lookup[r].pc = "local"
  /\ \/ Resolve(r, [lookup[r].res EXCEPT !.local = local])
     \/ EndLookup(r) /\ UNCHANGED saves
  /\ UNCHANGED <<identity, looked>> /\ UNCHANGED world

\* A spawned write runs, or its error is logged.
SaveLands(w) ==
  /\ w \in saves
  /\ saves' = saves \ {w}
  /\ identity' \in {identity, Entry(w.res, IdentityTtl)}
  /\ UNCHANGED <<lookup, looked>> /\ UNCHANGED world

\* Mutant: every answer may be kept for the whole life of an identity.
FullTtl(resolved) == IdentityTtl

\* ttl_from_resolved_at: what is left of the life of an identity.
TtlFromResolvedAt(resolved) ==
  LET left == resolved + IdentityTtl - now IN IF left > 0 THEN left ELSE 0

\* The answer leaves with its max-age.
AnswerIdentity(r) ==
  /\ lookup[r].pc = "answer"
  /\ EndLookup(r)
  /\ LET res == lookup[r].res
     IN  kept' \in {kept, [res |-> res, until |-> now + TtlFromResolvedAt(res.resolved)]}
  /\ UNCHANGED <<identity, saves, ens, local, lastEns, lastLocal, looked, renamed>>

-----------------------------------------------------------------------------
\* The owner renames the address, in ENS or in the registry.
Rename ==
  /\ renamed < MaxRenames
  /\ renamed' = renamed + 1
  /\ \E n \in Name :
       \/ /\ ens' = n /\ lastEns' = [lastEns EXCEPT ![n] = now] /\ UNCHANGED <<local, lastLocal>>
       \/ /\ local' = n /\ lastLocal' = [lastLocal EXCEPT ![n] = now] /\ UNCHANGED <<ens, lastEns>>
  /\ UNCHANGED <<lookup, identity, saves, kept, looked>>

LookupStep(r) ==
  \/ ReadIdentityCache(r) \/ LookupEns(r) \/ LookupAvatar(r) \/ LookupLocal(r) \/ AnswerIdentity(r)

IdentityNext ==
  \/ \E r \in Lookup : StartLookup(r) \/ LookupStep(r)
  \/ \E w \in saves : SaveLands(w)
  \/ Rename

\* Time passes while no request and no write is older than Lag.
IdentityMayTick ==
  /\ \A r \in Lookup : lookup[r].pc # "idle" => now < lookup[r].at + Lag
  /\ \A w \in saves : now < w.at + Lag

IdentityTick ==
  /\ identity' = IF identity # NULL /\ identity.until <= now + 1 THEN NULL ELSE identity
  /\ lastEns' = [lastEns EXCEPT ![ens] = now + 1]
  /\ lastLocal' = [lastLocal EXCEPT ![local] = now + 1]
  /\ kept' = IF kept # NULL /\ kept.until <= now THEN NULL ELSE kept
  /\ UNCHANGED <<lookup, saves, ens, local, looked, renamed>>

-----------------------------------------------------------------------------
(* Properties. *)

\* An answer that a client or an intermediary may still use tells names that
\* the address had less than the life of an identity ago (and the time a
\* request and its write take): the max-age makes up for the time the answer
\* spent in the cache.  Of an answer whose ENS name was not found out for an
\* error of the node, only the registry's part is meant.
NameWasTrue ==
  kept # NULL =>
    /\ ~kept.res.guessed => now < lastEns[kept.res.ens] + IdentityTtl + 3 * Lag
    /\ kept.res.ens = NoName => now < lastLocal[kept.res.local] + IdentityTtl + 3 * Lag
=============================================================================
