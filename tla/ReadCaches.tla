----------------------------- MODULE ReadCaches -----------------------------
(***************************************************************************)
(* The Redis caches the read handlers share (src/storage/redis/mod.rs and  *)
(* the pools of src/providers/solscan.rs and src/handlers/balance.rs) and  *)
(* the clock their entries expire by.                                      *)
(*                                                                         *)
(* An entry lives until a fixed time.  A read goes to the read replica: it *)
(* may miss an entry that is there.                                        *)
(***************************************************************************)
EXTENDS Integers

CONSTANTS
  MaxTime,   \* bound: the clock stops here
  Lag,       \* bound: how long a call and a spawned write may take
  NULL

\* A call and a spawned write take some time: what is read during them is not
\* of the moment they end.
ASSUME ClockAssumption == MaxTime \in Nat /\ Lag \in Nat \ {0}

VARIABLE now

NoCache(Key) == [k \in Key |-> NULL]

Entry(value, ttl) == [value |-> value, until |-> now + ttl]

\* Mutant: the expiry of a write is forgotten.
StoredForGood(cache, k, value, ttl) == [cache EXCEPT ![k] = [value |-> value, until |-> MaxTime + 1]]

\* set_ex: the life of an entry starts when the write lands.
Stored(cache, k, value, ttl) == [cache EXCEPT ![k] = Entry(value, ttl)]

Alive(entry) == entry # NULL /\ entry.until > now

\* What a read of k may return.
Reads(cache, k) == {NULL} \cup (IF Alive(cache[k]) THEN {cache[k].value} ELSE {})

\* Dead entries are dropped as time passes, so that they do not tell states
\* apart.
Expired(cache) ==
  [k \in DOMAIN cache |->
     IF cache[k] # NULL /\ cache[k].until <= now + 1 THEN NULL ELSE cache[k]]
=============================================================================
