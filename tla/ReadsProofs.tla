---------------------------- MODULE ReadsProofs ----------------------------
(***************************************************************************)
(* Proofs about the read handlers, for any accounts, tokens, queries, times*)
(* to live and names that satisfy the assumptions of their modules, and any*)
(* number of calls:                                                        *)
(*                                                                         *)
(*   NamesWereTrue        how old the name an answer tells may be          *)
(*   BalancesAreFresh     how old the balance an answer tells may be       *)
(*   PricesAreOfTokens    whose price stands beside a balance              *)
(*   ForcedTokensAreRead  what an update by force guarantees               *)
(*                                                                         *)
(* Both sides are argued alike.  A fact is dated when it is read; a call   *)
(* lasts at most Lag, so does the write it spawns, and an entry lives for  *)
(* its ttl from when the write lands.  The invariant bounds the age of the *)
(* facts in every place they pass through: a call under way, a spawned     *)
(* write, a cache entry, an answer.  Facts only get older by Tick, and Tick*)
(* waits for calls and writes.                                             *)
(***************************************************************************)
EXTENDS Reads, FiniteSetTheorems, SequenceTheorems, TLAPS

-----------------------------------------------------------------------------
(* Identities. *)

Identity == [ens : Name, local : Name, guessed : BOOLEAN, resolved : Int]

\* e and l say when each name last held.  At time t the names of an identity
\* have held at most d ago.
Within(e, l, res, d, t) ==
  /\ ~res.guessed => t <= e[res.ens] + d
  /\ res.ens = NoName => t <= l[res.local] + d

\* A request at time n.  Its identity tells names that held when it was
\* resolved, or, from the cache, names that held a life of an identity ago.
FineLookup(n, e, l, x) ==
  /\ x.pc # "idle" => x.at \in Int /\ x.at <= n /\ n <= x.at + Lag
  /\ x.pc \in {"cache", "ens"} => x.res = Nameless
  /\ x.pc \in {"local", "avatar"} =>
       /\ x.res \in Identity /\ x.res.resolved <= n
       /\ ~x.res.guessed => x.at <= e[x.res.ens]
  /\ x.pc = "avatar" => x.res.ens # NoName
  /\ x.pc = "answer" =>
       /\ x.res \in Identity
       /\ Within(e, l, x.res, IdentityTtl + 2 * Lag - 1, x.at)
       /\ Within(e, l, x.res, Lag, x.res.resolved)

FineSave(n, e, l, w) ==
  /\ w.at \in Int /\ w.at <= n /\ n <= w.at + Lag
  /\ w.res \in Identity
  /\ Within(e, l, w.res, Lag, w.at)
  /\ Within(e, l, w.res, Lag, w.res.resolved)

FineEntry(e, l, x) ==
  /\ x.until \in Int /\ x.value \in Identity
  /\ Within(e, l, x.value, IdentityTtl + 2 * Lag, x.until)
  /\ Within(e, l, x.value, Lag, x.value.resolved)

FineKept(n, e, l, k) ==
  /\ k.until \in Int /\ k.res \in Identity /\ n <= k.until
  /\ Within(e, l, k.res, IdentityTtl + 3 * Lag - 1, k.until)

LookupRecord == [pc : {"idle", "cache", "ens", "local", "avatar", "answer"},
                 cache : BOOLEAN, at : Int, res : Identity \cup {NULL}]

Names ==
  /\ ens \in Name /\ local \in Name
  /\ lastEns \in [Name -> Int] /\ lastLocal \in [Name -> Int]
  /\ \A x \in Name : lastEns[x] <= now /\ lastLocal[x] <= now
  /\ lastEns[ens] = now /\ lastLocal[local] = now

Lookups ==
  /\ lookup \in [Lookup -> LookupRecord]
  /\ \A r \in Lookup : FineLookup(now, lastEns, lastLocal, lookup[r])

Cached ==
  /\ \A w \in saves : FineSave(now, lastEns, lastLocal, w)
  /\ identity # NULL => FineEntry(lastEns, lastLocal, identity)
  /\ kept # NULL => FineKept(now, lastEns, lastLocal, kept)

IdentityInv == now \in Int /\ Names /\ Lookups /\ Cached

-----------------------------------------------------------------------------
(* The names may only get younger. *)

LEMMA LagIsInt == Lag \in Int /\ Lag >= 1 /\ IdentityTtl \in Int /\ IdentityTtl >= 0 /\ MaxTime \in Int /\ MaxTime >= 0
  BY ClockAssumption, NameAssumption

LEMMA WithinLater ==
  ASSUME NEW e \in [Name -> Int], NEW l \in [Name -> Int],
         NEW f \in [Name -> Int], NEW m \in [Name -> Int],
         \A x \in Name : e[x] <= f[x] /\ l[x] <= m[x],
         NEW res \in Identity, NEW d \in Int, NEW t \in Int, Within(e, l, res, d, t)
  PROVE  Within(f, m, res, d, t)
<1>1. res.ens \in Name /\ res.local \in Name
  BY DEF Identity
<1>2. /\ e[res.ens] \in Int /\ f[res.ens] \in Int /\ e[res.ens] <= f[res.ens]
      /\ l[res.local] \in Int /\ m[res.local] \in Int /\ l[res.local] <= m[res.local]
  BY <1>1
<1> QED
  BY <1>2 DEF Within

LEMMA LookupLater ==
  ASSUME NEW e \in [Name -> Int], NEW l \in [Name -> Int],
         NEW f \in [Name -> Int], NEW m \in [Name -> Int],
         \A x \in Name : e[x] <= f[x] /\ l[x] <= m[x],
         NEW n \in Int, NEW x \in LookupRecord, FineLookup(n, e, l, x)
  PROVE  FineLookup(n, f, m, x)
<1>1. /\ IdentityTtl + 2 * Lag - 1 \in Int /\ Lag \in Int
  BY LagIsInt
<1>2. x.pc = "answer" => FineLookup(n, f, m, x)
  <2> SUFFICES ASSUME x.pc = "answer" PROVE FineLookup(n, f, m, x)
    OBVIOUS
  <2>1. /\ x.res \in Identity /\ x.at \in Int /\ x.res.resolved \in Int
        /\ Within(e, l, x.res, IdentityTtl + 2 * Lag - 1, x.at)
        /\ Within(e, l, x.res, Lag, x.res.resolved)
    BY DEF FineLookup, Identity
  <2>2. Within(f, m, x.res, IdentityTtl + 2 * Lag - 1, x.at)
    BY <1>1, <2>1, WithinLater
  <2>3. Within(f, m, x.res, Lag, x.res.resolved)
    BY <1>1, <2>1, WithinLater
  <2> QED
    BY <2>2, <2>3 DEF FineLookup
<1>3. x.pc # "answer" => FineLookup(n, f, m, x)
  <2> SUFFICES ASSUME x.pc # "answer" PROVE FineLookup(n, f, m, x)
    OBVIOUS
  <2>1. x.pc \in {"local", "avatar"} /\ ~x.res.guessed => x.at <= f[x.res.ens]
    <3> SUFFICES ASSUME x.pc \in {"local", "avatar"}, ~x.res.guessed
                 PROVE  x.at <= f[x.res.ens]
      OBVIOUS
    <3>1. x.res \in Identity /\ x.at \in Int /\ x.at <= e[x.res.ens]
      BY DEF FineLookup
    <3>2. e[x.res.ens] \in Int /\ f[x.res.ens] \in Int /\ e[x.res.ens] <= f[x.res.ens]
      BY <3>1 DEF Identity
    <3> QED
      BY <3>1, <3>2
  <2> QED
    BY <2>1 DEF FineLookup
<1> QED
  BY <1>2, <1>3

LEMMA CachesLater ==
  ASSUME NEW e \in [Name -> Int], NEW l \in [Name -> Int],
         NEW f \in [Name -> Int], NEW m \in [Name -> Int],
         \A x \in Name : e[x] <= f[x] /\ l[x] <= m[x],
         NEW n \in Int, NEW x
  PROVE  /\ FineSave(n, e, l, x) => FineSave(n, f, m, x)
         /\ FineEntry(e, l, x) => FineEntry(f, m, x)
         /\ FineKept(n, e, l, x) => FineKept(n, f, m, x)
<1>1. /\ IdentityTtl + 2 * Lag \in Int /\ Lag \in Int /\ IdentityTtl + 3 * Lag - 1 \in Int
  BY LagIsInt
<1>2. ASSUME FineSave(n, e, l, x) PROVE FineSave(n, f, m, x)
  <2>1. /\ x.res \in Identity /\ x.at \in Int /\ x.res.resolved \in Int
        /\ Within(e, l, x.res, Lag, x.at) /\ Within(e, l, x.res, Lag, x.res.resolved)
    BY <1>2 DEF FineSave, Identity
  <2>2. Within(f, m, x.res, Lag, x.at)
    BY <1>1, <2>1, WithinLater
  <2>3. Within(f, m, x.res, Lag, x.res.resolved)
    BY <1>1, <2>1, WithinLater
  <2> QED
    BY <1>2, <2>2, <2>3 DEF FineSave
<1>3. ASSUME FineEntry(e, l, x) PROVE FineEntry(f, m, x)
  <2>1. /\ x.value \in Identity /\ x.until \in Int /\ x.value.resolved \in Int
        /\ Within(e, l, x.value, IdentityTtl + 2 * Lag, x.until)
        /\ Within(e, l, x.value, Lag, x.value.resolved)
    BY <1>3 DEF FineEntry, Identity
  <2>2. Within(f, m, x.value, IdentityTtl + 2 * Lag, x.until)
    BY <1>1, <2>1, WithinLater
  <2>3. Within(f, m, x.value, Lag, x.value.resolved)
    BY <1>1, <2>1, WithinLater
  <2> QED
    BY <1>3, <2>2, <2>3 DEF FineEntry
<1>4. ASSUME FineKept(n, e, l, x) PROVE FineKept(n, f, m, x)
  <2>1. /\ x.res \in Identity /\ x.until \in Int
        /\ Within(e, l, x.res, IdentityTtl + 3 * Lag - 1, x.until)
    BY <1>4 DEF FineKept
  <2>2. Within(f, m, x.res, IdentityTtl + 3 * Lag - 1, x.until)
    BY <1>1, <2>1, WithinLater
  <2> QED
    BY <1>4, <2>2 DEF FineKept
<1> QED
  BY <1>2, <1>3, <1>4

-----------------------------------------------------------------------------
(* The steps of identity requests. *)

LEMMA IdentityStarts == ReadsInit => IdentityInv
<1> SUFFICES ASSUME ReadsInit PROVE IdentityInv
  OBVIOUS
<1> USE DEF ReadsInit, IdentityInit
<1>1. now = 0 /\ ens \in Name /\ local \in Name
  OBVIOUS
<1>2. Names
  BY LagIsInt DEF Names
<1>3. Lookups
  <2>1. IdleLookup \in LookupRecord /\ FineLookup(now, lastEns, lastLocal, IdleLookup)
    BY DEF IdleLookup, LookupRecord, FineLookup
  <2>2. lookup = [r \in Lookup |-> IdleLookup]
    OBVIOUS
  <2> QED
    BY <2>1, <2>2 DEF Lookups
<1>4. Cached
  BY DEF Cached
<1> QED
  BY <1>1, <1>2, <1>3, <1>4 DEF IdentityInv

\* Only one request moves, to a record that is fine.
LEMMA LookupMoves ==
  ASSUME IdentityInv, NEW r \in Lookup, NEW x \in LookupRecord,
         FineLookup(now, lastEns, lastLocal, x),
         lookup' = [lookup EXCEPT ![r] = x],
         UNCHANGED <<now, lastEns, lastLocal>>
  PROVE  Lookups'
<1>1. /\ lookup \in [Lookup -> LookupRecord]
      /\ \A s \in Lookup : FineLookup(now, lastEns, lastLocal, lookup[s])
  BY DEF IdentityInv, Lookups
<1>2. lookup' \in [Lookup -> LookupRecord]
  BY <1>1
<1>3. ASSUME NEW s \in Lookup PROVE FineLookup(now, lastEns, lastLocal, lookup'[s])
  BY <1>1
<1>4. now' = now /\ lastEns' = lastEns /\ lastLocal' = lastLocal
  OBVIOUS
<1> QED
  BY <1>2, <1>3, <1>4 DEF Lookups

LEMMA LookupEnds ==
  ASSUME IdentityInv, NEW r \in Lookup, EndLookup(r),
         UNCHANGED <<now, lastEns, lastLocal>>
  PROVE  Lookups'
<1>1. IdleLookup \in LookupRecord /\ FineLookup(now, lastEns, lastLocal, IdleLookup)
  BY DEF IdleLookup, LookupRecord, FineLookup
<1> QED
  BY <1>1, LookupMoves DEF EndLookup

\* Whatever else stays, stays fine.
LEMMA RestStays ==
  ASSUME IdentityInv, UNCHANGED <<now, ens, local, lastEns, lastLocal>>
  PROVE  /\ now' \in Int /\ Names'
         /\ saves' = saves /\ identity' = identity /\ kept' = kept => Cached'
<1>1. now' = now /\ ens' = ens /\ local' = local /\ lastEns' = lastEns /\ lastLocal' = lastLocal
  OBVIOUS
<1>2. now' \in Int /\ Names'
  BY <1>1 DEF IdentityInv, Names
<1>3. ASSUME saves' = saves /\ identity' = identity /\ kept' = kept PROVE Cached'
  BY <1>1, <1>3 DEF IdentityInv, Cached
<1> QED
  BY <1>2, <1>3

LEMMA LookupFields ==
  ASSUME IdentityInv, NEW r \in Lookup
  PROVE  /\ lookup[r] \in LookupRecord
         /\ lookup[r] = [pc |-> lookup[r].pc, cache |-> lookup[r].cache, at |-> lookup[r].at,
                         res |-> lookup[r].res]
         /\ lookup \in [Lookup -> LookupRecord]
         /\ FineLookup(now, lastEns, lastLocal, lookup[r])
BY DEF IdentityInv, Lookups, LookupRecord

LEMMA StartLookupKeeps ==
  ASSUME IdentityInv, NEW r \in Lookup, StartLookup(r), UNCHANGED now
  PROVE  IdentityInv'
<1>1. /\ UNCHANGED <<now, ens, local, lastEns, lastLocal>>
      /\ saves' = saves /\ identity' = identity /\ kept' = kept
  BY DEF StartLookup, world
<1>2. Lookups'
  <2>1. CASE EndLookup(r)
    BY <1>1, <2>1, LookupEnds
  <2>2. ASSUME NEW use \in BOOLEAN,
               lookup' = [lookup EXCEPT ![r].pc = IF use THEN "cache" ELSE "ens",
                                   ![r].cache = use, ![r].at = now, ![r].res = Nameless]
        PROVE  Lookups'
    <3> DEFINE pc == IF use THEN "cache" ELSE "ens"
               x == [pc |-> pc, cache |-> use, at |-> now, res |-> Nameless]
    <3>1. now \in Int /\ NoName \in Name
      BY NameAssumption DEF IdentityInv
    <3>2. x \in LookupRecord
      BY <3>1 DEF LookupRecord, Identity, Nameless
    <3>3. FineLookup(now, lastEns, lastLocal, x)
      BY <3>1, LagIsInt DEF FineLookup
    <3>4. lookup' = [lookup EXCEPT ![r] = x]
      <4> DEFINE y == lookup[r]
                 m == [pc |-> y.pc, cache |-> y.cache, at |-> y.at, res |-> y.res]
                 m1 == [pc |-> pc, cache |-> y.cache, at |-> y.at, res |-> y.res]
                 m2 == [pc |-> pc, cache |-> use, at |-> y.at, res |-> y.res]
                 m3 == [pc |-> pc, cache |-> use, at |-> now, res |-> y.res]
      <4>1. lookup' = [lookup EXCEPT ![r] = [[[[y EXCEPT !.pc = pc] EXCEPT !.cache = use]
                                               EXCEPT !.at = now] EXCEPT !.res = Nameless]]
        BY <2>2, LookupFields
      <4>2. y = m
        BY LookupFields
      <4> HIDE DEF y, pc
      <4>3. /\ [m EXCEPT !.pc = pc] = m1 /\ [m1 EXCEPT !.cache = use] = m2
            /\ [m2 EXCEPT !.at = now] = m3 /\ [m3 EXCEPT !.res = Nameless] = x
        OBVIOUS
      <4> HIDE DEF x, m, m1, m2, m3
      <4> QED
        BY <4>1, <4>2, <4>3, Zenon
    <3> QED
      BY <1>1, <3>2, <3>3, <3>4, LookupMoves
  <2> QED
    BY <2>1, <2>2 DEF StartLookup
<1> QED
  BY <1>1, <1>2, RestStays DEF IdentityInv

LEMMA ReadCacheKeeps ==
  ASSUME IdentityInv, NEW r \in Lookup, ReadIdentityCache(r), UNCHANGED now
  PROVE  IdentityInv'
<1>1. /\ UNCHANGED <<now, ens, local, lastEns, lastLocal>>
      /\ saves' = saves /\ identity' = identity /\ kept' = kept
  BY DEF ReadIdentityCache, world
<1>2. Lookups'
  <2> DEFINE y == lookup[r]
  <2>0. /\ y \in LookupRecord /\ y.pc = "cache"
        /\ y = [pc |-> y.pc, cache |-> y.cache, at |-> y.at, res |-> y.res]
        /\ lookup \in [Lookup -> LookupRecord]
        /\ FineLookup(now, lastEns, lastLocal, y)
    BY LookupFields DEF ReadIdentityCache
  <2>1. CASE EndLookup(r)
    BY <1>1, <2>1, LookupEnds
  <2>2. CASE Step(r, "ens")
    <3> DEFINE x == [pc |-> "ens", cache |-> y.cache, at |-> y.at, res |-> y.res]
    <3>2. x \in LookupRecord
      BY <2>0 DEF LookupRecord
    <3>3. FineLookup(now, lastEns, lastLocal, x)
      BY <2>0 DEF FineLookup
    <3>4. lookup' = [lookup EXCEPT ![r] = x]
      <4> DEFINE m == [pc |-> y.pc, cache |-> y.cache, at |-> y.at, res |-> y.res]
      <4>1. lookup' = [lookup EXCEPT ![r] = [y EXCEPT !.pc = "ens"]]
        BY <2>2, <2>0 DEF Step
      <4>2. y = m
        BY <2>0
      <4>3. [m EXCEPT !.pc = "ens"] = x
        OBVIOUS
      <4> HIDE DEF x, y, m
      <4> QED
        BY <4>1, <4>2, <4>3, Zenon
    <3> QED
      BY <1>1, <3>2, <3>3, <3>4, LookupMoves
  <2>3. CASE /\ Alive(identity)
             /\ lookup' = [lookup EXCEPT ![r].pc = "answer", ![r].res = identity.value,
                                    ![r].cache = FALSE]
    <3> DEFINE v == identity.value
               no == FALSE
               x == [pc |-> "answer", cache |-> no, at |-> y.at, res |-> v]
    <3>1. /\ identity # NULL /\ FineEntry(lastEns, lastLocal, identity)
          /\ now < identity.until
      BY <2>3 DEF Alive, IdentityInv, Cached, FineEntry
    <3>2. /\ v \in Identity /\ identity.until \in Int
          /\ Within(lastEns, lastLocal, v, IdentityTtl + 2 * Lag, identity.until)
          /\ Within(lastEns, lastLocal, v, Lag, v.resolved)
      BY <3>1 DEF FineEntry
    <3>3. /\ y.at \in Int /\ y.at <= now /\ now <= y.at + Lag /\ now \in Int
      BY <2>0 DEF FineLookup, IdentityInv
    <3>4. Within(lastEns, lastLocal, v, IdentityTtl + 2 * Lag - 1, y.at)
      <4>1. y.at <= identity.until - 1
        BY <3>1, <3>2, <3>3
      <4>2. v.ens \in Name /\ v.local \in Name
        BY <3>2 DEF Identity
      <4>3. lastEns[v.ens] \in Int /\ lastLocal[v.local] \in Int
        BY <4>2 DEF IdentityInv, Names
      <4> QED
        BY <3>2, <3>3, <4>1, <4>3, LagIsInt DEF Within
    <3>5. x \in LookupRecord
      BY <2>0, <3>2 DEF LookupRecord
    <3>6. FineLookup(now, lastEns, lastLocal, x)
      BY <3>2, <3>3, <3>4 DEF FineLookup
    <3>7. lookup' = [lookup EXCEPT ![r] = x]
      <4> DEFINE m == [pc |-> y.pc, cache |-> y.cache, at |-> y.at, res |-> y.res]
                 m1 == [pc |-> "answer", cache |-> y.cache, at |-> y.at, res |-> y.res]
                 m2 == [pc |-> "answer", cache |-> y.cache, at |-> y.at, res |-> v]
      <4>1. lookup' = [lookup EXCEPT ![r] = [[[y EXCEPT !.pc = "answer"] EXCEPT !.res = v]
                                              EXCEPT !.cache = no]]
        BY <2>3, <2>0
      <4>2. y = m
        BY <2>0
      <4> HIDE DEF y, v, no
      <4>3. /\ [m EXCEPT !.pc = "answer"] = m1 /\ [m1 EXCEPT !.res = v] = m2
            /\ [m2 EXCEPT !.cache = no] = x
        OBVIOUS
      <4> HIDE DEF x, m, m1, m2
      <4> QED
        BY <4>1, <4>2, <4>3, Zenon
    <3> QED
      BY <1>1, <3>5, <3>6, <3>7, LookupMoves
  <2> QED
    BY <2>1, <2>2, <2>3 DEF ReadIdentityCache
<1> QED
  BY <1>1, <1>2, RestStays DEF IdentityInv

LEMMA LookupEnsKeeps ==
  ASSUME IdentityInv, NEW r \in Lookup, LookupEns(r), UNCHANGED now
  PROVE  IdentityInv'
<1>1. /\ UNCHANGED <<now, ens, local, lastEns, lastLocal>>
      /\ saves' = saves /\ identity' = identity /\ kept' = kept
  BY DEF LookupEns, world
<1>2. Lookups'
  <2> DEFINE y == lookup[r]
  <2>0. /\ y \in LookupRecord /\ y.pc = "ens" /\ y.res = Nameless
        /\ y = [pc |-> y.pc, cache |-> y.cache, at |-> y.at, res |-> y.res]
        /\ lookup \in [Lookup -> LookupRecord]
        /\ y.at \in Int /\ y.at <= now /\ now <= y.at + Lag
    BY LookupFields DEF LookupEns, FineLookup
  <2>4. now \in Int /\ NoName \in Name /\ ens \in Name /\ lastEns[ens] = now
    BY NameAssumption DEF IdentityInv, Names
  <2>1. ASSUME NEW e, EndLookup(r) PROVE Lookups'
    BY <1>1, <2>1, LookupEnds
  <2>2. CASE lookup' = [lookup EXCEPT ![r].res.ens = ens, ![r].res.resolved = now,
                                    ![r].pc = IF ens = NoName THEN "local" ELSE "avatar"]
    <3> DEFINE pc == IF ens = NoName THEN "local" ELSE "avatar"
               res == [ens |-> ens, local |-> NoName, guessed |-> FALSE, resolved |-> now]
               x == [pc |-> pc, cache |-> y.cache, at |-> y.at, res |-> res]
    <3>2. x \in LookupRecord
      BY <2>0, <2>4 DEF LookupRecord, Identity
    <3>3. FineLookup(now, lastEns, lastLocal, x)
      BY <2>0, <2>4, <3>2 DEF FineLookup, Identity
    <3>4. lookup' = [lookup EXCEPT ![r] = x]
      BY <2>2, <2>0 DEF Nameless
    <3> QED
      BY <1>1, <3>2, <3>3, <3>4, LookupMoves
  <2>3. ASSUME NEW e,
               lookup' = [lookup EXCEPT ![r].res.guessed = TRUE, ![r].res.resolved = now,
                                   ![r].pc = "local"]
        PROVE  Lookups'
    <3> DEFINE res == [ens |-> NoName, local |-> NoName, guessed |-> TRUE, resolved |-> now]
               x == [pc |-> "local", cache |-> y.cache, at |-> y.at, res |-> res]
    <3>2. x \in LookupRecord
      BY <2>0, <2>4 DEF LookupRecord, Identity
    <3>3. FineLookup(now, lastEns, lastLocal, x)
      BY <2>0, <2>4, <3>2 DEF FineLookup, Identity
    <3>4. lookup' = [lookup EXCEPT ![r] = x]
      BY <2>3, <2>0 DEF Nameless
    <3> QED
      BY <1>1, <3>2, <3>3, <3>4, LookupMoves
  <2> QED
    BY <2>1, <2>2, <2>3 DEF LookupEns
<1> QED
  BY <1>1, <1>2, RestStays DEF IdentityInv

\* An identity that was resolved well is answered, and may be saved.
LEMMA ResolveKeeps ==
  ASSUME IdentityInv, NEW r \in Lookup, NEW res \in Identity, Resolve(r, res),
         UNCHANGED <<now, ens, local, lastEns, lastLocal, identity, kept>>,
         lookup[r].at \in Int, lookup[r].at <= now, now <= lookup[r].at + Lag,
         Within(lastEns, lastLocal, res, 0, lookup[r].at),
         Within(lastEns, lastLocal, res, Lag, res.resolved)
  PROVE  IdentityInv'
<1> DEFINE y == lookup[r]
           e == lastEns[res.ens]
           l == lastLocal[res.local]
<1>0. /\ y \in LookupRecord
      /\ y = [pc |-> y.pc, cache |-> y.cache, at |-> y.at, res |-> y.res]
      /\ lookup \in [Lookup -> LookupRecord]
      /\ now \in Int
  BY LookupFields DEF IdentityInv
<1>1. e \in Int /\ l \in Int
  BY DEF Identity, IdentityInv, Names
<1>2. Within(lastEns, lastLocal, res, IdentityTtl + 2 * Lag - 1, y.at)
  BY <1>1, LagIsInt DEF Within
<1>3. Within(lastEns, lastLocal, res, Lag, now)
  BY <1>0, <1>1, LagIsInt DEF Within
<1>4. Lookups'
  <2> DEFINE x == [pc |-> "answer", cache |-> y.cache, at |-> y.at, res |-> res]
  <2>1. x \in LookupRecord
    BY <1>0 DEF LookupRecord
  <2>2. FineLookup(now, lastEns, lastLocal, x)
    BY <1>2 DEF FineLookup
  <2>3. lookup' = [lookup EXCEPT ![r] = x]
    <3> DEFINE m == [pc |-> y.pc, cache |-> y.cache, at |-> y.at, res |-> y.res]
               m1 == [pc |-> y.pc, cache |-> y.cache, at |-> y.at, res |-> res]
    <3>1. lookup' = [lookup EXCEPT ![r] = [[y EXCEPT !.res = res] EXCEPT !.pc = "answer"]]
      BY <1>0 DEF Resolve
    <3>2. y = m
      BY <1>0
    <3> HIDE DEF y
    <3>3. [m EXCEPT !.res = res] = m1 /\ [m1 EXCEPT !.pc = "answer"] = x
      OBVIOUS
    <3> HIDE DEF x, m, m1
    <3> QED
      BY <3>1, <3>2, <3>3, Zenon
  <2> QED
    BY <2>1, <2>2, <2>3, LookupMoves
<1>5. Cached'
  <2> DEFINE w == [res |-> res, at |-> now]
  <2>1. FineSave(now, lastEns, lastLocal, w)
    BY <1>0, <1>3, LagIsInt DEF FineSave
  <2>2. saves' \subseteq saves \cup {w}
    BY DEF Resolve
  <2>3. \A v \in saves' : FineSave(now, lastEns, lastLocal, v)
    BY <2>1, <2>2 DEF IdentityInv, Cached
  <2> QED
    BY <2>3 DEF IdentityInv, Cached
<1> QED
  BY <1>4, <1>5, RestStays DEF IdentityInv

LEMMA LookupAvatarKeeps ==
  ASSUME IdentityInv, NEW r \in Lookup, LookupAvatar(r), UNCHANGED now
  PROVE  IdentityInv'
<1>1. UNCHANGED <<now, ens, local, lastEns, lastLocal, identity, kept>>
  BY DEF LookupAvatar, world
<1> DEFINE y == lookup[r]
           res == [y.res EXCEPT !.resolved = now]
<1>2. /\ y.pc = "avatar" /\ y.res \in Identity
      /\ y.at \in Int /\ y.at <= now /\ now <= y.at + Lag /\ now \in Int
      /\ ~y.res.guessed => y.at <= lastEns[y.res.ens]
      /\ y.res.ens # NoName
  BY LookupFields DEF LookupAvatar, FineLookup, IdentityInv
<1>3. CASE Resolve(r, res)
  <2>1. /\ res \in Identity /\ res.resolved = now /\ res.ens = y.res.ens
        /\ res.guessed = y.res.guessed
    BY <1>2 DEF Identity
  <2>2. lastEns[res.ens] \in Int
    BY <2>1 DEF Identity, IdentityInv, Names
  <2> HIDE DEF res
  <2>3. Within(lastEns, lastLocal, res, 0, y.at)
    BY <1>2, <2>1, <2>2 DEF Within
  <2>4. Within(lastEns, lastLocal, res, Lag, res.resolved)
    BY <1>2, <2>1, <2>2, LagIsInt DEF Within
  <2> QED
    BY <1>1, <1>2, <1>3, <2>1, <2>3, <2>4, ResolveKeeps
<1>4. CASE EndLookup(r) /\ UNCHANGED saves
  BY <1>1, <1>4, LookupEnds, RestStays DEF IdentityInv
<1> QED
  BY <1>3, <1>4 DEF LookupAvatar

LEMMA LookupLocalKeeps ==
  ASSUME IdentityInv, NEW r \in Lookup, LookupLocal(r), UNCHANGED now
  PROVE  IdentityInv'
<1>1. UNCHANGED <<now, ens, local, lastEns, lastLocal, identity, kept>>
  BY DEF LookupLocal, world
<1> DEFINE y == lookup[r]
           res == [y.res EXCEPT !.local = local]
<1>2. /\ y.pc = "local" /\ y.res \in Identity /\ y.res.resolved <= now
      /\ y.at \in Int /\ y.at <= now /\ now <= y.at + Lag /\ now \in Int
      /\ ~y.res.guessed => y.at <= lastEns[y.res.ens]
  BY LookupFields DEF LookupLocal, FineLookup, IdentityInv
<1>3. CASE Resolve(r, res)
  <2>0. local \in Name /\ lastLocal[local] = now
    BY DEF IdentityInv, Names
  <2>1. /\ res \in Identity /\ res.resolved = y.res.resolved /\ res.ens = y.res.ens
        /\ res.guessed = y.res.guessed /\ res.local = local
    BY <1>2, <2>0 DEF Identity
  <2>2. lastEns[res.ens] \in Int /\ res.resolved \in Int
    BY <2>1 DEF Identity, IdentityInv, Names
  <2> HIDE DEF res
  <2>3. Within(lastEns, lastLocal, res, 0, y.at)
    BY <1>2, <2>0, <2>1, <2>2 DEF Within
  <2>4. Within(lastEns, lastLocal, res, Lag, res.resolved)
    BY <1>2, <2>0, <2>1, <2>2, LagIsInt DEF Within
  <2> QED
    BY <1>1, <1>2, <1>3, <2>1, <2>3, <2>4, ResolveKeeps
<1>4. CASE EndLookup(r) /\ UNCHANGED saves
  BY <1>1, <1>4, LookupEnds, RestStays DEF IdentityInv
<1> QED
  BY <1>3, <1>4 DEF LookupLocal

LEMMA SaveLandsKeeps ==
  ASSUME IdentityInv, NEW w \in saves, SaveLands(w), UNCHANGED now
  PROVE  IdentityInv'
<1>1. UNCHANGED <<now, ens, local, lastEns, lastLocal, kept, lookup>>
  BY DEF SaveLands, world
<1>2. Lookups'
  BY <1>1 DEF IdentityInv, Lookups
<1>3. Cached'
  <2> DEFINE x == Entry(w.res, IdentityTtl)
  <2>1. /\ w.at \in Int /\ now \in Int /\ now <= w.at + Lag /\ w.res \in Identity
        /\ Within(lastEns, lastLocal, w.res, Lag, w.at)
        /\ Within(lastEns, lastLocal, w.res, Lag, w.res.resolved)
    BY DEF IdentityInv, Cached, FineSave
  <2>2. x.value = w.res /\ x.until = now + IdentityTtl
    BY DEF Entry
  <2>3. lastEns[w.res.ens] \in Int /\ lastLocal[w.res.local] \in Int
    BY <2>1 DEF Identity, IdentityInv, Names
  <2> HIDE DEF x
  <2>4. Within(lastEns, lastLocal, x.value, IdentityTtl + 2 * Lag, x.until)
    BY <2>1, <2>2, <2>3, LagIsInt DEF Within
  <2>5. FineEntry(lastEns, lastLocal, x)
    BY <2>1, <2>2, <2>4, LagIsInt DEF FineEntry
  <2>6. identity' \in {identity, x} /\ saves' \subseteq saves
    BY DEF SaveLands, x
  <2>7. identity' # NULL => FineEntry(lastEns, lastLocal, identity')
    BY <2>5, <2>6 DEF IdentityInv, Cached
  <2>8. \A v \in saves' : FineSave(now, lastEns, lastLocal, v)
    BY <2>6 DEF IdentityInv, Cached
  <2> QED
    BY <1>1, <2>7, <2>8 DEF IdentityInv, Cached
<1> QED
  BY <1>1, <1>2, <1>3, RestStays DEF IdentityInv

LEMMA AnswerIdentityKeeps ==
  ASSUME IdentityInv, NEW r \in Lookup, AnswerIdentity(r), UNCHANGED now
  PROVE  IdentityInv'
<1>1. UNCHANGED <<now, ens, local, lastEns, lastLocal, identity, saves>>
  BY DEF AnswerIdentity
<1>2. Lookups'
  BY <1>1, LookupEnds DEF AnswerIdentity
<1>3. Cached'
  <2> DEFINE y == lookup[r]
             res == y.res
             left == TtlFromResolvedAt(res.resolved)
             k == [res |-> res, until |-> now + left]
             e == lastEns[res.ens]
             l == lastLocal[res.local]
  <2>1. /\ y.at \in Int /\ y.at <= now /\ now <= y.at + Lag /\ now \in Int
        /\ res \in Identity /\ res.resolved \in Int
        /\ Within(lastEns, lastLocal, res, IdentityTtl + 2 * Lag - 1, y.at)
        /\ Within(lastEns, lastLocal, res, Lag, res.resolved)
    BY LookupFields DEF AnswerIdentity, FineLookup, IdentityInv, Identity
  <2>2. e \in Int /\ l \in Int
    BY <2>1 DEF Identity, IdentityInv, Names
  <2>3. \/ left = 0
        \/ left = res.resolved + IdentityTtl - now /\ left > 0
    BY <2>1, LagIsInt DEF TtlFromResolvedAt
  <2>4. k.res = res /\ k.until = now + left
    OBVIOUS
  <2>5. left \in Int /\ left >= 0
    BY <2>1, <2>3, LagIsInt
  <2> HIDE DEF left, k
  <2>6. Within(lastEns, lastLocal, res, IdentityTtl + 3 * Lag - 1, now + left)
    <3>1. CASE left = 0
      BY <2>1, <2>2, <3>1, LagIsInt DEF Within
    <3>2. CASE left = res.resolved + IdentityTtl - now
      <4>1. now + left = res.resolved + IdentityTtl
        BY <2>1, <3>2, LagIsInt
      <4> QED
        BY <2>1, <2>2, <4>1, LagIsInt DEF Within
    <3> QED
      BY <2>3, <3>1, <3>2
  <2>7. FineKept(now, lastEns, lastLocal, k)
    BY <2>1, <2>4, <2>5, <2>6 DEF FineKept
  <2>8. kept' \in {kept, k}
    BY DEF AnswerIdentity, k, left
  <2>9. kept' # NULL => FineKept(now, lastEns, lastLocal, kept')
    BY <2>7, <2>8 DEF IdentityInv, Cached
  <2> QED
    BY <1>1, <2>9 DEF IdentityInv, Cached
<1> QED
  BY <1>1, <1>2, <1>3, RestStays DEF IdentityInv

LEMMA RenameKeeps ==
  ASSUME IdentityInv, Rename, UNCHANGED now
  PROVE  IdentityInv'
<1>1. /\ now' = now /\ lookup' = lookup /\ identity' = identity /\ saves' = saves /\ kept' = kept
      /\ now \in Int /\ lastEns \in [Name -> Int] /\ lastLocal \in [Name -> Int]
  BY DEF Rename, IdentityInv, Names
<1>2. PICK n \in Name :
        \/ /\ ens' = n /\ lastEns' = [lastEns EXCEPT ![n] = now]
           /\ local' = local /\ lastLocal' = lastLocal
        \/ /\ local' = n /\ lastLocal' = [lastLocal EXCEPT ![n] = now]
           /\ ens' = ens /\ lastEns' = lastEns
  BY DEF Rename
<1>3. /\ Names' /\ lastEns' \in [Name -> Int] /\ lastLocal' \in [Name -> Int]
      /\ \A x \in Name : lastEns[x] <= lastEns'[x] /\ lastLocal[x] <= lastLocal'[x]
  BY <1>1, <1>2 DEF IdentityInv, Names
<1>4. Lookups'
  <2>1. \A r \in Lookup : FineLookup(now, lastEns', lastLocal', lookup[r])
    BY <1>1, <1>3, LookupFields, LookupLater
  <2> QED
    BY <1>1, <2>1 DEF IdentityInv, Lookups
<1>5. Cached'
  <2>1. \A w \in saves : FineSave(now, lastEns', lastLocal', w)
    BY <1>1, <1>3, CachesLater DEF IdentityInv, Cached
  <2>2. identity # NULL => FineEntry(lastEns', lastLocal', identity)
    BY <1>1, <1>3, CachesLater DEF IdentityInv, Cached
  <2>3. kept # NULL => FineKept(now, lastEns', lastLocal', kept)
    BY <1>1, <1>3, CachesLater DEF IdentityInv, Cached
  <2> QED
    BY <1>1, <2>1, <2>2, <2>3 DEF Cached
<1> QED
  BY <1>1, <1>3, <1>4, <1>5 DEF IdentityInv

LEMMA IdentityTickKeeps ==
  ASSUME IdentityInv, IdentityMayTick, IdentityTick, now' = now + 1
  PROVE  IdentityInv'
<1>1. /\ now \in Int /\ now' \in Int /\ lookup' = lookup /\ saves' = saves
      /\ ens' = ens /\ local' = local /\ ens \in Name /\ local \in Name
      /\ lastEns \in [Name -> Int] /\ lastLocal \in [Name -> Int]
      /\ \A x \in Name : lastEns[x] <= now /\ lastLocal[x] <= now
  BY DEF IdentityTick, IdentityInv, Names
<1>2. /\ Names' /\ lastEns' \in [Name -> Int] /\ lastLocal' \in [Name -> Int]
      /\ \A x \in Name : lastEns[x] <= lastEns'[x] /\ lastLocal[x] <= lastLocal'[x]
  BY <1>1 DEF Names, IdentityTick
<1>3. Lookups'
  <2>1. ASSUME NEW r \in Lookup PROVE FineLookup(now + 1, lastEns', lastLocal', lookup[r])
    <3>0. FineLookup(now, lastEns, lastLocal, lookup[r]) /\ lookup[r] \in LookupRecord
      BY LookupFields
    <3>1. FineLookup(now, lastEns', lastLocal', lookup[r]) /\ lookup[r] \in LookupRecord
      BY <1>1, <1>2, <3>0, LookupLater
    <3>2. lookup[r].pc # "idle" => now < lookup[r].at + Lag
      BY DEF IdentityMayTick
    <3>3. /\ lookup[r].pc # "idle" =>
               lookup[r].at \in Int /\ lookup[r].at <= now + 1 /\ now + 1 <= lookup[r].at + Lag
      BY <1>1, <3>1, <3>2, LagIsInt DEF FineLookup
    <3>4. /\ lookup[r].pc \in {"local", "avatar"} =>
               /\ lookup[r].res \in Identity /\ lookup[r].res.resolved <= now + 1
               /\ ~lookup[r].res.guessed => lookup[r].at <= lastEns'[lookup[r].res.ens]
      BY <1>1, <3>1 DEF FineLookup, Identity
    <3> QED
      BY <3>1, <3>3, <3>4 DEF FineLookup
  <2> QED
    BY <1>1, <2>1 DEF IdentityInv, Lookups, IdentityTick
<1>4. Cached'
  <2>1. ASSUME NEW w \in saves PROVE FineSave(now + 1, lastEns', lastLocal', w)
    <3>1. FineSave(now, lastEns', lastLocal', w)
      BY <1>1, <1>2, CachesLater DEF IdentityInv, Cached
    <3>2. now < w.at + Lag
      BY DEF IdentityMayTick
    <3> QED
      BY <1>1, <3>1, <3>2, LagIsInt DEF FineSave
  <2>2. identity # NULL => FineEntry(lastEns', lastLocal', identity)
    BY <1>1, <1>2, CachesLater DEF IdentityInv, Cached
  <2>3. kept # NULL /\ ~(kept.until <= now) => FineKept(now + 1, lastEns', lastLocal', kept)
    <3> SUFFICES ASSUME kept # NULL, ~(kept.until <= now)
                 PROVE  FineKept(now + 1, lastEns', lastLocal', kept)
      OBVIOUS
    <3>1. FineKept(now, lastEns', lastLocal', kept)
      BY <1>1, <1>2, CachesLater DEF IdentityInv, Cached
    <3> QED
      BY <1>1, <3>1 DEF FineKept
  <2>4. identity' \in {NULL, identity}
    BY DEF IdentityTick
  <2>5. \/ kept' = NULL
        \/ kept' = kept /\ ~(kept # NULL /\ kept.until <= now)
    BY DEF IdentityTick
  <2>6. identity' # NULL => FineEntry(lastEns', lastLocal', identity')
    BY <2>2, <2>4
  <2>7. kept' # NULL => FineKept(now + 1, lastEns', lastLocal', kept')
    BY <2>3, <2>5
  <2>8. now' = now + 1
    OBVIOUS
  <2> QED
    BY <1>1, <2>1, <2>6, <2>7, <2>8 DEF Cached
<1> QED
  BY <1>1, <1>2, <1>3, <1>4 DEF IdentityInv

LEMMA IdentityKeeps ==
  ASSUME IdentityInv, [ReadsNext]_readsVars
  PROVE  IdentityInv'
<1>1. CASE IdentityTurn
  <2>1. now' = now
    BY <1>1 DEF IdentityTurn
  <2>2. ASSUME NEW r \in Lookup, StartLookup(r) \/ LookupStep(r) PROVE IdentityInv'
    <3>1. CASE StartLookup(r)
      BY <2>1, <3>1, StartLookupKeeps
    <3>2. CASE ReadIdentityCache(r)
      BY <2>1, <3>2, ReadCacheKeeps
    <3>3. CASE LookupEns(r)
      BY <2>1, <3>3, LookupEnsKeeps
    <3>4. CASE LookupAvatar(r)
      BY <2>1, <3>4, LookupAvatarKeeps
    <3>5. CASE LookupLocal(r)
      BY <2>1, <3>5, LookupLocalKeeps
    <3>6. CASE AnswerIdentity(r)
      BY <2>1, <3>6, AnswerIdentityKeeps
    <3> QED
      BY <2>2, <3>1, <3>2, <3>3, <3>4, <3>5, <3>6 DEF LookupStep
  <2>3. ASSUME NEW w \in saves, SaveLands(w) PROVE IdentityInv'
    BY <2>1, <2>3, SaveLandsKeeps
  <2>4. CASE Rename
    BY <2>1, <2>4, RenameKeeps
  <2> QED
    BY <1>1, <2>2, <2>3, <2>4 DEF IdentityTurn, IdentityNext
<1>2. CASE UNCHANGED <<now, identityVars>>
  <2>1. UNCHANGED <<now, ens, local, lastEns, lastLocal, lookup, saves, identity, kept>>
    BY <1>2 DEF identityVars
  <2>2. Lookups'
    BY <2>1 DEF IdentityInv, Lookups
  <2> QED
    BY <2>1, <2>2, RestStays DEF IdentityInv
<1>3. CASE Tick
  BY <1>3, IdentityTickKeeps DEF Tick
<1> QED
  BY <1>1, <1>2, <1>3 DEF ReadsNext, BalanceTurn, readsVars

\* Whatever the order of requests, of the writes they spawn and of renames:
\* an answer of the identity handler that may still be served, with the
\* max-age of ttl_from_resolved_at, tells names the address had less than the
\* life of an identity and the time of a request and its write ago.
THEOREM NamesWereTrue == ReadsSpec => []NameWasTrue
<1>1. ReadsInit => IdentityInv
  BY IdentityStarts
<1>2. IdentityInv /\ [ReadsNext]_readsVars => IdentityInv'
  BY IdentityKeeps
<1>3. IdentityInv => NameWasTrue
  <2> SUFFICES ASSUME IdentityInv, kept # NULL
               PROVE  /\ ~kept.res.guessed => now < lastEns[kept.res.ens] + IdentityTtl + 3 * Lag
                      /\ kept.res.ens = NoName =>
                           now < lastLocal[kept.res.local] + IdentityTtl + 3 * Lag
    BY DEF NameWasTrue
  <2>1. /\ now \in Int /\ kept.until \in Int /\ kept.res \in Identity /\ now <= kept.until
        /\ Within(lastEns, lastLocal, kept.res, IdentityTtl + 3 * Lag - 1, kept.until)
    BY DEF IdentityInv, Cached, FineKept
  <2>2. lastEns[kept.res.ens] \in Int /\ lastLocal[kept.res.local] \in Int
    BY <2>1 DEF Identity, IdentityInv, Names
  <2> QED
    BY <2>1, <2>2, LagIsInt DEF Within
<1> QED
  BY <1>1, <1>2, <1>3, PTL DEF ReadsSpec

-----------------------------------------------------------------------------
(* Balances and prices. *)

Price == Token \cup {Zero, NULL}
ItemRecord == [token : Token, at : Int, price : Price]

CallFields == {"pc", "q", "at", "queue", "todo", "own", "info", "items", "reply"}

Priced(items) == \A i \in DOMAIN items : items[i].price \in {items[i].token, Zero}
Since(items, t) == \A i \in DOMAIN items : t <= items[i].at

\* What the properties ask of the items a call may answer with.
Right(n, q, at, items) ==
  /\ q.kind = "balance" => \A i \in DOMAIN items : n < items[i].at + BalanceTtl + 2 * Lag
  /\ q.kind \in {"balance", "price"} => Priced(items)
  /\ q.kind = "balance" /\ Namespace(q) = "eip155" /\ q.chain # RootstockMainnet =>
       \A i \in DOMAIN q.tokens :
         \E j \in DOMAIN items : items[j].token = q.tokens[i] /\ items[j].at >= at

\* Every token to update is still to do or in the answer.  The proof needs no
\* order of the tokens: one leaves the list only when it is in the answer.
Covered(tokens, todo, items) ==
  \A i \in DOMAIN tokens :
    \/ \E j \in DOMAIN todo : todo[j] = tokens[i]
    \/ \E j \in DOMAIN items : items[j].token = tokens[i]

KindOf(pc) ==
  CASE pc \in {"cache", "select", "provider", "force", "rootstock"} -> {"balance"}
    [] pc \in {"history", "coinbase"} -> {"history"}
    [] pc = "price" -> {"price"}
    [] pc = "portfolio" -> {"portfolio"}
    [] OTHER -> {"balance", "history", "portfolio", "price"}

Shaped(k) ==
  /\ DOMAIN k = CallFields
  /\ k.todo \in Seq(Token) /\ k.items \in Seq(ItemRecord)
  /\ k.own \in Price /\ k.info \in Price

Dated(n, k) ==
  k.pc # "idle" => k.q \in Query /\ k.at \in Int /\ k.at <= n /\ n <= k.at + Lag

\* A call under way has read its items itself, with prices of their tokens.
UnderWay(k) ==
  k.pc \notin {"idle", "done"} =>
    /\ Since(k.items, k.at)
    /\ k.q.kind \in {"balance", "price"} => Priced(k.items)
    /\ k.q.kind \in KindOf(k.pc)

AtStep(k) ==
  /\ k.pc = "price" => k.q.tokens # <<>>
  /\ k.pc = "cache" => k.q.tokens = <<>>
  /\ k.pc = "rootstock" => k.q.chain = RootstockMainnet
  /\ k.pc = "force" => Covered(k.q.tokens, k.todo, k.items)
  /\ k.pc = "sol" /\ k.q.kind = "balance" /\ k.todo # <<>> /\ Head(k.todo) # Sol =>
       k.own \in {Head(k.todo), Zero}

FineCall(n, k) ==
  /\ Shaped(k) /\ Dated(n, k) /\ UnderWay(k) /\ AtStep(k)
  /\ k.pc = "done" /\ k.reply = "items" => Right(n, k.q, k.at, k.items)

FineBalance(x) ==
  /\ x.until \in Int /\ x.value \in Seq(ItemRecord) /\ Priced(x.value)
  /\ \A i \in DOMAIN x.value : x.until <= x.value[i].at + BalanceTtl + 2 * Lag

FineWrite(n, w) ==
  /\ w.at \in Int /\ w.at <= n /\ n <= w.at + Lag
  /\ w.cache = "balances" =>
       /\ w.value \in Seq(ItemRecord) /\ Priced(w.value)
       /\ \A i \in DOMAIN w.value : w.at <= w.value[i].at + Lag

Calls == DOMAIN call = Call /\ \A c \in Call : FineCall(now, call[c])
Balances ==
  DOMAIN balances = Account /\ \A a \in Account : balances[a] # NULL => FineBalance(balances[a])
Prices == DOMAIN prices = Token /\ \A t \in Token : prices[t] # NULL => prices[t].value = t
Writes == \A w \in writes : FineWrite(now, w)

BalanceInv == now \in Int /\ Calls /\ Balances /\ Prices /\ Writes

-----------------------------------------------------------------------------
(* Sets as sequences. *)

LEMMA SetToSeqIsSeq ==
  ASSUME NEW S, IsFiniteSet(S)
  PROVE  SetToSeq(S) \in Seq(S)
<1> DEFINE n == Cardinality(S)
<1>1. n \in Nat /\ ExistsBijection(1..n, S)
  BY FS_CardinalityType
<1>2. \E f \in [1..n -> S] : IsInjective(f)
  BY <1>1 DEF ExistsBijection, Bijection, Injection
<1>3. SetToSeq(S) \in [1..n -> S]
  BY <1>2 DEF SetToSeq
<1> QED
  BY <1>1, <1>3, SeqDef

LEMMA TokensAsSeq ==
  ASSUME NEW S \in SUBSET Token
  PROVE  SetToSeq(S) \in Seq(Token)
<1>1. IsFiniteSet(S)
  BY TokenAssumption, FS_Subset
<1>2. SetToSeq(S) \in Seq(S)
  BY <1>1, SetToSeqIsSeq
<1> QED
  BY <1>2, SeqMonotonic

\* Items read now, each of a token of S, at a price of that token or 0.
LEMMA ItemsAsSeq ==
  ASSUME now \in Int, NEW S \in SUBSET Token, NEW P \in SUBSET S,
         NEW I, I = {Item(t, IF t \in P THEN t ELSE Zero) : t \in S}
  PROVE  /\ SetToSeq(I) \in Seq(ItemRecord)
         /\ Priced(SetToSeq(I))
         /\ \A i \in DOMAIN SetToSeq(I) : SetToSeq(I)[i].at = now
<1> DEFINE f == [t \in S |-> Item(t, IF t \in P THEN t ELSE Zero)]
<1>1. IsFiniteSet(S)
  BY TokenAssumption, FS_Subset
<1>2. f \in Surjection(S, I)
  BY DEF Surjection
<1>3. IsFiniteSet(I)
  BY <1>1, <1>2, FS_Surjection
<1> DEFINE s == SetToSeq(I)
<1>4. s \in Seq(I)
  BY <1>3, SetToSeqIsSeq
<1>5. \A x \in I : x \in ItemRecord /\ x.price \in {x.token, Zero} /\ x.at = now
  BY DEF Item, ItemRecord, Price
<1> HIDE DEF s
<1>6. \A i \in DOMAIN s : s[i] \in I
  BY <1>4, ElementOfSeq, LenProperties
<1>7. s \in Seq(ItemRecord)
  BY <1>4, <1>5, SeqMonotonic
<1> QED
  BY <1>5, <1>6, <1>7 DEF Priced, s

LEMMA OwnItemsAsSeq ==
  ASSUME now \in Int, NEW S \in SUBSET Token, NEW I, I = {Item(t, t) : t \in S}
  PROVE  /\ SetToSeq(I) \in Seq(ItemRecord)
         /\ Priced(SetToSeq(I))
         /\ \A i \in DOMAIN SetToSeq(I) : SetToSeq(I)[i].at = now
<1>1. I = {Item(t, IF t \in S THEN t ELSE Zero) : t \in S}
  OBVIOUS
<1> HIDE DEF Item
<1> QED
  BY <1>1, ItemsAsSeq

LEMMA ItemAt ==
  ASSUME NEW s \in Seq(ItemRecord), NEW i \in DOMAIN s
  PROVE  /\ s[i] \in ItemRecord /\ s[i].at \in Int /\ s[i].token \in Token
<1>1. i \in 1..Len(s)
  BY LenProperties
<1>2. s[i] \in ItemRecord
  BY <1>1, ElementOfSeq
<1> QED
  BY <1>2 DEF ItemRecord

LEMMA SolIsToken == Sol \in Token
  BY TokenAssumption DEF Sol

LEMMA QueryShape ==
  ASSUME NEW q \in Query
  PROVE  /\ q.kind \in {"balance", "history", "portfolio", "price"} /\ q.account \in Account
         /\ q.tokens \in Seq(Token)
  BY QueryAssumption DEF AnyQuery

-----------------------------------------------------------------------------
(* The steps of calls. *)

LEMMA CallMoves ==
  ASSUME BalanceInv, NEW c \in Call, DOMAIN call' = Call,
         \A d \in Call \ {c} : call'[d] = call[d], FineCall(now, call'[c]), now' = now
  PROVE  Calls'
<1>1. \A d \in Call : FineCall(now, call[d])
  BY DEF BalanceInv, Calls
<1>2. \A d \in Call : FineCall(now, call'[d])
  BY <1>1
<1> QED
  BY <1>2 DEF Calls

\* A call that answers with no items is fine.
LEMMA DoneIsFine ==
  ASSUME NEW n \in Int, NEW k, NEW x, FineCall(n, k), k.pc # "idle",
         DOMAIN x = CallFields, x.pc = "done", x.q = k.q, x.at = k.at, x.todo = k.todo,
         x.own = k.own, x.info = k.info, x.items \in Seq(ItemRecord),
         x.reply # "items" \/ Right(n, k.q, k.at, x.items)
  PROVE  FineCall(n, x)
  BY DEF FineCall, Shaped, Dated, UnderWay, AtStep

LEMMA ReplyMoves ==
  ASSUME BalanceInv, NEW c \in Call, call[c].pc # "idle", NEW r, Reply(c, r), now' = now,
         r # "items" \/ Right(now, call[c].q, call[c].at, call[c].items)
  PROVE  Calls'
<1> DEFINE k == call[c]
           x == call'[c]
<1>1. DOMAIN call = Call /\ FineCall(now, k) /\ DOMAIN k = CallFields /\ k.items \in Seq(ItemRecord)
      /\ now \in Int
  BY DEF BalanceInv, Calls, FineCall, Shaped
<1>2. DOMAIN call' = Call /\ \A d \in Call \ {c} : call'[d] = call[d]
  BY <1>1 DEF Reply
<1>3. /\ DOMAIN x = CallFields /\ x.pc = "done" /\ x.reply = r /\ x.q = k.q /\ x.at = k.at
      /\ x.todo = k.todo /\ x.own = k.own /\ x.info = k.info /\ x.items = k.items
  BY <1>1 DEF Reply, CallFields
<1> HIDE DEF k, x
<1>4. r # "items" \/ Right(now, k.q, k.at, k.items)
  BY DEF k
<1>5. k.pc # "idle"
  BY DEF k
<1>6. FineCall(now, x)
  BY <1>1, <1>3, <1>4, <1>5, DoneIsFine
<1> QED
  BY <1>2, <1>6, CallMoves DEF x

\* A call that answers with items it has just got.
LEMMA ItemsMove ==
  ASSUME BalanceInv, NEW c \in Call, call[c].pc # "idle", now' = now,
         NEW items \in Seq(ItemRecord), Right(now, call[c].q, call[c].at, items),
         call' = [call EXCEPT ![c].pc = "done", ![c].items = items, ![c].reply = "items"]
  PROVE  Calls'
<1> DEFINE k == call[c]
           x == call'[c]
<1>1. DOMAIN call = Call /\ FineCall(now, k) /\ DOMAIN k = CallFields /\ now \in Int
  BY DEF BalanceInv, Calls, FineCall, Shaped
<1>2. DOMAIN call' = Call /\ \A d \in Call \ {c} : call'[d] = call[d]
  BY <1>1
<1>3. /\ DOMAIN x = CallFields /\ x.pc = "done" /\ x.reply = "items" /\ x.q = k.q /\ x.at = k.at
      /\ x.todo = k.todo /\ x.own = k.own /\ x.info = k.info /\ x.items = items
  BY <1>1 DEF CallFields
<1>4. Right(now, k.q, k.at, items) /\ k.pc # "idle"
  OBVIOUS
<1> HIDE DEF k, x
<1>6. FineCall(now, x)
  BY <1>1, <1>3, <1>4, DoneIsFine
<1> QED
  BY <1>2, <1>6, CallMoves DEF x

LEMMA OthersStay ==
  ASSUME BalanceInv, now' = now
  PROVE  /\ now' \in Int
         /\ balances' = balances => Balances'
         /\ prices' = prices => Prices'
         /\ writes' = writes => Writes'
         /\ call' = call => Calls'
  BY DEF BalanceInv, Balances, Prices, Writes, Calls

LEMMA MetadataSpawned ==
  ASSUME BalanceInv, now' = now,
         \A w \in writes' \ writes : w.cache = "metadata" /\ w.at = now
  PROVE  Writes'
<1>1. \A w \in writes' \ writes : FineWrite(now, w)
  BY LagIsInt DEF BalanceInv, FineWrite
<1> QED
  BY <1>1 DEF BalanceInv, Writes

LEMMA EarlyReplies ==
  ASSUME NEW q, NEW allowed \in BOOLEAN
  PROVE  /\ Early(q, allowed) \in {"empty", "invalid_address", "unsupported_provider", "refused", NULL}
         /\ Early(q, allowed) = NULL => ~(q.kind = "price" /\ q.tokens = <<>>)
  BY NoReplyAssumption DEF Early

LEMMA StartCallKeeps ==
  ASSUME BalanceInv, NEW c \in Call, StartCall(c), now' = now
  PROVE  BalanceInv'
<1>1. PICK q \in Query, allowed \in BOOLEAN :
        call' = [call EXCEPT ![c] =
             [IdleCall EXCEPT !.q = q, !.at = now, !.reply = Early(q, allowed),
                              !.pc = IF Early(q, allowed) = NULL THEN FirstStep(q) ELSE "done"]]
  BY DEF StartCall
<1> DEFINE early == Early(q, allowed)
           pc == IF early = NULL THEN FirstStep(q) ELSE "done"
           x == call'[c]
<1>2. DOMAIN call = Call /\ now \in Int
  BY DEF BalanceInv, Calls
<1>3. DOMAIN call' = Call /\ \A d \in Call \ {c} : call'[d] = call[d]
  BY <1>1, <1>2
<1>4. /\ early \in {"empty", "invalid_address", "unsupported_provider", "refused", NULL}
      /\ early = NULL => ~(q.kind = "price" /\ q.tokens = <<>>)
  BY EarlyReplies
<1>5. pc = IF early = NULL THEN FirstStep(q) ELSE "done"
  OBVIOUS
<1>6. call' = [call EXCEPT ![c] = [IdleCall EXCEPT !.q = q, !.at = now, !.reply = early, !.pc = pc]]
  BY <1>1
<1> HIDE DEF early, pc
<1>7. /\ DOMAIN x = CallFields /\ x.pc = pc /\ x.reply = early /\ x.q = q /\ x.at = now
      /\ x.todo = <<>> /\ x.own = NULL /\ x.info = NULL /\ x.items = <<>>
  BY <1>2, <1>6 DEF IdleCall, CallFields
<1> HIDE DEF x
<1>8. <<>> \in Seq(Token) /\ <<>> \in Seq(ItemRecord) /\ DOMAIN <<>> = {}
  BY EmptySeq, LenProperties
<1>9. Shaped(x) /\ Dated(now, x)
  BY <1>2, <1>7, <1>8, LagIsInt DEF Shaped, Dated, Price
<1>10. q.kind \in {"balance", "history", "portfolio", "price"}
  BY QueryShape
<1>11. CASE early = NULL
  <2>1. pc = FirstStep(q) /\ ~(q.kind = "price" /\ q.tokens = <<>>)
    BY <1>4, <1>5, <1>11
  <2>2. /\ pc \in {"rootstock", "cache", "select", "coinbase", "history", "portfolio", "price"}
        /\ q.kind \in KindOf(pc)
    BY <1>10, <2>1 DEF FirstStep, KindOf
  <2>3. UnderWay(x)
    BY <1>7, <1>8, <2>2 DEF UnderWay, Since, Priced
  <2>4. AtStep(x)
    BY <1>7, <1>10, <2>1 DEF AtStep, FirstStep
  <2> QED
    BY <1>3, <1>7, <1>9, <2>2, <2>3, <2>4, CallMoves, OthersStay DEF FineCall, x, StartCall, BalanceInv
<1>12. CASE early # NULL
  <2>1. pc = "done" /\ early # "items"
    BY <1>4, <1>5, <1>12
  <2>2. FineCall(now, x)
    BY <1>7, <1>9, <2>1 DEF FineCall, UnderWay, AtStep
  <2> QED
    BY <1>3, <2>2, CallMoves, OthersStay DEF x, StartCall, BalanceInv
<1> QED
  BY <1>11, <1>12

LEMMA LeaveCallKeeps ==
  ASSUME BalanceInv, NEW c \in Call, LeaveCall(c), now' = now
  PROVE  BalanceInv'
<1>1. DOMAIN call = Call /\ call' = [call EXCEPT ![c] = IdleCall]
  BY DEF BalanceInv, Calls, LeaveCall
<1>2. /\ DOMAIN call' = Call /\ \A d \in Call \ {c} : call'[d] = call[d]
      /\ call'[c] = IdleCall
  BY <1>1
<1>3. <<>> \in Seq(Token) /\ <<>> \in Seq(ItemRecord)
  BY EmptySeq
<1>4. FineCall(now, IdleCall)
  BY <1>3 DEF FineCall, Shaped, Dated, UnderWay, AtStep, IdleCall, CallFields, Price
<1> QED
  BY <1>2, <1>4, CallMoves, OthersStay DEF LeaveCall, BalanceInv

LEMMA WriteLandsKeeps ==
  ASSUME BalanceInv, NEW w \in writes, WriteLands(w), now' = now
  PROVE  BalanceInv'
<1>1. FineWrite(now, w) /\ now \in Int
  BY DEF BalanceInv, Writes
<1>2. call' = call /\ prices' = prices /\ writes' \subseteq writes
  BY DEF WriteLands
<1>3. Writes'
  BY <1>2 DEF BalanceInv, Writes
<1>4. Balances'
  <2>1. CASE w.cache = "balances" /\ balances' = Stored(balances, w.key, w.value, BalanceTtl)
    <3> DEFINE x == Entry(w.value, BalanceTtl)
    <3>1. x.value = w.value /\ x.until = now + BalanceTtl
      BY DEF Entry
    <3>2. balances' = [balances EXCEPT ![w.key] = x]
      BY <2>1 DEF Stored
    <3> HIDE DEF x
    <3>3. FineBalance(x)
      <4>1. /\ w.value \in Seq(ItemRecord) /\ Priced(w.value) /\ w.at \in Int /\ now <= w.at + Lag
            /\ \A i \in DOMAIN w.value : w.at <= w.value[i].at + Lag
        BY <1>1, <2>1 DEF FineWrite
      <4>2. ASSUME NEW i \in DOMAIN w.value
            PROVE  now + BalanceTtl <= w.value[i].at + BalanceTtl + 2 * Lag
        <5>1. w.value[i].at \in Int
          BY <4>1, ItemAt
        <5> QED
          BY <1>1, <4>1, <5>1, LagIsInt, TtlAssumption
      <4> QED
        BY <1>1, <3>1, <4>1, <4>2, TtlAssumption DEF FineBalance
    <3> QED
      BY <3>2, <3>3 DEF BalanceInv, Balances
  <2>2. CASE balances' = balances
    BY <2>2, OthersStay
  <2> QED
    BY <2>1, <2>2 DEF WriteLands
<1> QED
  BY <1>2, <1>3, <1>4, OthersStay DEF BalanceInv

LEMMA ReadBalanceCacheKeeps ==
  ASSUME BalanceInv, NEW c \in Call, ReadBalanceCache(c), now' = now
  PROVE  BalanceInv'
<1> DEFINE k == call[c]
           x == call'[c]
<1>1. /\ DOMAIN call = Call /\ FineCall(now, k) /\ DOMAIN k = CallFields /\ now \in Int
      /\ k.pc = "cache"
  BY DEF BalanceInv, Calls, FineCall, Shaped, ReadBalanceCache
<1>2. k.q \in Query /\ k.q.account \in Account /\ k.q.tokens = <<>>
  BY <1>1, QueryShape DEF FineCall, Dated, AtStep
<1>3. CASE Goto(c, "select")
  <2>1. DOMAIN call' = Call /\ \A d \in Call \ {c} : call'[d] = call[d]
    BY <1>1, <1>3 DEF Goto
  <2>2. /\ DOMAIN x = CallFields /\ x.pc = "select" /\ x.q = k.q /\ x.at = k.at
        /\ x.todo = k.todo /\ x.own = k.own /\ x.info = k.info /\ x.items = k.items
    BY <1>1, <1>3 DEF Goto, CallFields
  <2> HIDE DEF x
  <2>3. FineCall(now, x)
    BY <1>1, <2>2 DEF FineCall, Shaped, Dated, UnderWay, AtStep, KindOf
  <2> QED
    BY <2>1, <2>3, CallMoves, OthersStay DEF x, ReadBalanceCache, BalanceInv
<1>4. ASSUME NEW cached \in Reads(balances, k.q.account), cached # NULL,
             call' = [call EXCEPT ![c].pc = "done", ![c].items = cached, ![c].reply = "items"]
      PROVE  BalanceInv'
  <2> DEFINE b == balances[k.q.account]
  <2>1. b # NULL /\ b.until > now /\ cached = b.value
    BY <1>4 DEF Reads, Alive
  <2>2. FineBalance(b)
    BY <1>2, <2>1 DEF BalanceInv, Balances
  <2>3. cached \in Seq(ItemRecord) /\ Priced(cached)
    BY <2>1, <2>2 DEF FineBalance
  <2>4. ASSUME NEW i \in DOMAIN cached PROVE now < cached[i].at + BalanceTtl + 2 * Lag
    <3>1. cached[i].at \in Int
      BY <2>3, ItemAt
    <3>2. b.until <= cached[i].at + BalanceTtl + 2 * Lag /\ b.until \in Int
      BY <2>1, <2>2 DEF FineBalance
    <3> QED
      BY <1>1, <2>1, <3>1, <3>2, LagIsInt, TtlAssumption
  <2>5. DOMAIN <<>> = {}
    OBVIOUS
  <2>6. Right(now, k.q, k.at, cached)
    BY <1>2, <2>3, <2>4, <2>5 DEF Right
  <2>7. Calls'
    BY <1>1, <1>4, <2>3, <2>6, ItemsMove
  <2> QED
    BY <2>7, OthersStay DEF ReadBalanceCache, BalanceInv
<1> QED
  BY <1>3, <1>4 DEF ReadBalanceCache

\* A call that goes on is fine when what it has read is.
LEMMA GoesOn ==
  ASSUME NEW n \in Int, NEW k, NEW x, FineCall(n, k), k.pc \notin {"idle", "done"},
         DOMAIN x = CallFields, x.q = k.q, x.at = k.at, x.todo \in Seq(Token),
         x.items \in Seq(ItemRecord), x.own \in Price, x.info \in Price,
         x.pc \notin {"idle", "done"}, x.q.kind \in KindOf(x.pc), AtStep(x),
         x.items = k.items \/ (Since(x.items, k.at) /\ Priced(x.items))
  PROVE  FineCall(n, x)
  BY DEF FineCall, Shaped, Dated, UnderWay

LEMMA CallFacts ==
  ASSUME BalanceInv, NEW c \in Call, call[c].pc # "idle"
  PROVE  /\ DOMAIN call = Call /\ FineCall(now, call[c]) /\ now \in Int
         /\ DOMAIN call[c] = CallFields
         /\ call[c].todo \in Seq(Token) /\ call[c].items \in Seq(ItemRecord)
         /\ call[c].own \in Price /\ call[c].info \in Price
         /\ call[c].q \in Query /\ call[c].q.account \in Account /\ call[c].q.tokens \in Seq(Token)
         /\ call[c].q.kind \in {"balance", "history", "portfolio", "price"}
         /\ call[c].at \in Int /\ call[c].at <= now /\ now <= call[c].at + Lag
<1>1. DOMAIN call = Call /\ FineCall(now, call[c]) /\ now \in Int
  BY DEF BalanceInv, Calls
<1>2. Shaped(call[c]) /\ Dated(now, call[c])
  BY <1>1 DEF FineCall
<1> QED
  BY <1>1, <1>2, QueryShape DEF Shaped, Dated

LEMMA NextProviderMoves ==
  ASSUME BalanceInv, NEW c \in Call, call[c].pc \notin {"idle", "done"},
         call[c].q.kind = "balance", call' = [call EXCEPT ![c] = NextProvider(c)], now' = now
  PROVE  Calls'
<1> DEFINE k == call[c]
           x == call'[c]
<1>1. /\ DOMAIN call = Call /\ FineCall(now, k) /\ DOMAIN k = CallFields /\ now \in Int
      /\ k.items \in Seq(ItemRecord) /\ k.pc \notin {"idle", "done"} /\ k.q.kind = "balance"
  BY CallFacts
<1>2. /\ DOMAIN call' = Call /\ \A d \in Call \ {c} : call'[d] = call[d]
      /\ x = NextProvider(c)
  BY <1>1
<1>3. CASE Tail(k.queue) = <<>>
  <2>1. x = [k EXCEPT !.pc = "done", !.reply = "unavailable"]
    BY <1>2, <1>3 DEF NextProvider
  <2>2. /\ DOMAIN x = CallFields /\ x.pc = "done" /\ x.reply = "unavailable" /\ x.q = k.q
        /\ x.at = k.at /\ x.todo = k.todo /\ x.own = k.own /\ x.info = k.info /\ x.items = k.items
    BY <1>1, <2>1 DEF CallFields
  <2> HIDE DEF k, x
  <2>3. FineCall(now, x)
    BY <1>1, <2>2, DoneIsFine
  <2> QED
    BY <1>2, <2>3, CallMoves DEF x
<1>4. CASE Tail(k.queue) # <<>>
  <2>1. x = [k EXCEPT !.pc = "provider", !.queue = Tail(@), !.todo = <<>>, !.items = <<>>,
                      !.own = NULL, !.info = NULL]
    BY <1>2, <1>4 DEF NextProvider
  <2>2. /\ DOMAIN x = CallFields /\ x.pc = "provider" /\ x.q = k.q /\ x.at = k.at
        /\ x.todo = <<>> /\ x.own = NULL /\ x.info = NULL /\ x.items = <<>>
    BY <1>1, <2>1 DEF CallFields
  <2> HIDE DEF k, x
  <2>3. <<>> \in Seq(Token) /\ <<>> \in Seq(ItemRecord) /\ DOMAIN <<>> = {} /\ NULL \in Price
    BY EmptySeq DEF Price
  <2>4. Since(x.items, k.at) /\ Priced(x.items)
    BY <2>2, <2>3 DEF Since, Priced
  <2>5. AtStep(x) /\ x.q.kind \in KindOf(x.pc)
    BY <1>1, <2>2 DEF AtStep, KindOf
  <2>6. FineCall(now, x)
    BY <1>1, <2>2, <2>3, <2>4, <2>5, GoesOn
  <2> QED
    BY <1>2, <2>6, CallMoves DEF x
<1> QED
  BY <1>3, <1>4

LEMMA SelectBalanceKeeps ==
  ASSUME BalanceInv, NEW c \in Call, SelectBalance(c), now' = now
  PROVE  BalanceInv'
<1> DEFINE k == call[c]
           x == call'[c]
<1>1. k.pc = "select"
  BY DEF SelectBalance
<1>2. /\ DOMAIN call = Call /\ FineCall(now, k) /\ DOMAIN k = CallFields /\ now \in Int
      /\ k.todo \in Seq(Token) /\ k.items \in Seq(ItemRecord) /\ k.own \in Price /\ k.info \in Price
  BY <1>1, CallFacts
<1>3. CASE Reply(c, "invalid_address") \/ Reply(c, "unsupported")
  <2>1. Calls'
    BY <1>1, <1>3, ReplyMoves
  <2> QED
    BY <2>1, OthersStay DEF SelectBalance, BalanceInv
<1>4. ASSUME NEW s, call' = [call EXCEPT ![c].pc = "provider", ![c].queue = s]
      PROVE  BalanceInv'
  <2>1. DOMAIN call' = Call /\ \A d \in Call \ {c} : call'[d] = call[d]
    BY <1>2, <1>4
  <2>2. /\ DOMAIN x = CallFields /\ x.pc = "provider" /\ x.q = k.q /\ x.at = k.at
        /\ x.todo = k.todo /\ x.own = k.own /\ x.info = k.info /\ x.items = k.items
    BY <1>2, <1>4 DEF CallFields
  <2> HIDE DEF x
  <2>3. AtStep(x) /\ x.q.kind \in KindOf(x.pc)
    BY <1>1, <1>2, <2>2 DEF AtStep, KindOf, FineCall, UnderWay
  <2>4. FineCall(now, x)
    <3> HIDE DEF k
    <3>1. k.pc \notin {"idle", "done"}
      BY <1>1
    <3> QED
      BY <1>2, <2>2, <2>3, <3>1, GoesOn
  <2>5. Calls'
    BY <2>1, <2>4, CallMoves DEF x
  <2> QED
    BY <2>5, OthersStay DEF SelectBalance, BalanceInv
<1> QED
  BY <1>3, <1>4 DEF SelectBalance

LEMMA IndexerKeeps ==
  ASSUME BalanceInv, NEW c \in Call, Indexer(c), now' = now
  PROVE  BalanceInv'
<1> DEFINE k == call[c]
           x == call'[c]
           dune == Head(k.queue) = "dune"
<1>1. k.pc = "provider"
  BY DEF Indexer
<1>2. /\ DOMAIN call = Call /\ FineCall(now, k) /\ DOMAIN k = CallFields /\ now \in Int
      /\ k.todo \in Seq(Token) /\ k.items \in Seq(ItemRecord) /\ k.own \in Price /\ k.info \in Price
      /\ k.q.tokens \in Seq(Token) /\ k.at \in Int /\ k.at <= now
  BY <1>1, CallFacts
<1>3. k.q.kind = "balance"
  BY <1>1, <1>2 DEF FineCall, UnderWay, KindOf
<1>4. balances' = balances /\ prices' = prices
  BY DEF Indexer
<1>5. CASE call' = [call EXCEPT ![c] = NextProvider(c)] /\ UNCHANGED writes
  <2>1. Calls'
    BY <1>1, <1>3, <1>5, NextProviderMoves
  <2> QED
    BY <1>4, <1>5, <2>1, OthersStay DEF BalanceInv
<1>6. ASSUME NEW listed \in SUBSET Held(k.q), NEW nameless \in SUBSET listed,
             call' = [call EXCEPT ![c].pc = "force", ![c].todo = k.q.tokens,
                        ![c].items = SetToSeq({Item(t, t) :
                                       t \in IndexedItems(listed, nameless, dune)})],
             writes' = writes \cup IndexerWrites(listed, nameless)
      PROVE  BalanceInv'
  <2> DEFINE S == IndexedItems(listed, nameless, dune)
             I == {Item(t, t) : t \in S}
             items == SetToSeq(I)
  <2>1. S \in SUBSET Token
    BY DEF Held, IndexedItems
  <2>2. items \in Seq(ItemRecord) /\ Priced(items) /\ \A i \in DOMAIN items : items[i].at = now
    <3> HIDE DEF S
    <3> QED
      BY <1>2, <2>1, OwnItemsAsSeq
  <2> HIDE DEF items
  <2>3. DOMAIN call' = Call /\ \A d \in Call \ {c} : call'[d] = call[d]
    BY <1>2, <1>6
  <2>4. /\ DOMAIN x = CallFields /\ x.pc = "force" /\ x.q = k.q /\ x.at = k.at
        /\ x.todo = k.q.tokens /\ x.own = k.own /\ x.info = k.info /\ x.items = items
    BY <1>2, <1>6 DEF CallFields, items
  <2> HIDE DEF x
  <2>5. AtStep(x) /\ x.q.kind \in KindOf(x.pc)
    BY <1>3, <2>4 DEF AtStep, KindOf, Covered
  <2>6. Since(x.items, k.at) /\ Priced(x.items)
    BY <1>2, <2>2, <2>4 DEF Since
  <2>7. FineCall(now, x)
    <3> HIDE DEF k
    <3>1. k.pc \notin {"idle", "done"}
      BY <1>1
    <3> QED
      BY <1>2, <2>2, <2>4, <2>5, <2>6, <3>1, GoesOn
  <2>8. Calls'
    BY <2>3, <2>7, CallMoves DEF x
  <2>9. Writes'
    <3>1. \A w \in writes' \ writes : w.cache = "metadata" /\ w.at = now
      BY <1>6 DEF IndexerWrites, Spawned
    <3> QED
      BY <3>1, MetadataSpawned
  <2> QED
    BY <1>4, <2>8, <2>9, OthersStay DEF BalanceInv
<1> QED
  BY <1>5, <1>6 DEF Indexer

LEMMA SolScanKeeps ==
  ASSUME BalanceInv, NEW c \in Call, SolScan(c), now' = now
  PROVE  BalanceInv'
<1> DEFINE k == call[c]
           x == call'[c]
<1>1. k.pc = "provider"
  BY DEF SolScan
<1>2. /\ DOMAIN call = Call /\ FineCall(now, k) /\ DOMAIN k = CallFields /\ now \in Int
      /\ k.todo \in Seq(Token) /\ k.items \in Seq(ItemRecord) /\ k.own \in Price /\ k.info \in Price
  BY <1>1, CallFacts
<1>3. k.q.kind = "balance"
  BY <1>1, <1>2 DEF FineCall, UnderWay, KindOf
<1>4. CASE call' = [call EXCEPT ![c] = NextProvider(c)]
  <2>1. Calls'
    BY <1>1, <1>3, <1>4, NextProviderMoves
  <2> QED
    BY <2>1, OthersStay DEF BalanceInv, SolScan
<1>5. ASSUME NEW listed \in SUBSET Held(k.q),
             call' = [call EXCEPT ![c].pc = "own",
                        ![c].todo = SetToSeq(listed \ Native) \o SetToSeq(listed \cap Native)]
      PROVE  BalanceInv'
  <2> DEFINE todo == SetToSeq(listed \ Native) \o SetToSeq(listed \cap Native)
  <2>1. todo \in Seq(Token)
    <3>1. SetToSeq(listed \ Native) \in Seq(Token) /\ SetToSeq(listed \cap Native) \in Seq(Token)
      BY TokensAsSeq DEF Held
    <3> QED
      BY <3>1, ConcatProperties
  <2> HIDE DEF todo
  <2>3. DOMAIN call' = Call /\ \A d \in Call \ {c} : call'[d] = call[d]
    BY <1>2, <1>5
  <2>4. /\ DOMAIN x = CallFields /\ x.pc = "own" /\ x.q = k.q /\ x.at = k.at
        /\ x.todo = todo /\ x.own = k.own /\ x.info = k.info /\ x.items = k.items
    BY <1>2, <1>5 DEF CallFields, todo
  <2> HIDE DEF x
  <2>5. AtStep(x) /\ x.q.kind \in KindOf(x.pc)
    BY <1>3, <2>4 DEF AtStep, KindOf
  <2>7. FineCall(now, x)
    <3> HIDE DEF k
    <3>1. k.pc \notin {"idle", "done"}
      BY <1>1
    <3> QED
      BY <1>2, <2>1, <2>4, <2>5, <3>1, GoesOn
  <2>8. Calls'
    BY <2>3, <2>7, CallMoves DEF x
  <2> QED
    BY <2>8, OthersStay DEF BalanceInv, SolScan
<1> QED
  BY <1>4, <1>5 DEF SolScan

\* SolScan's cache holds prices of the tokens they are kept under.
LEMMA PriceFound ==
  ASSUME BalanceInv, NEW t \in Token, NEW p \in Found(t), now' = now
  PROVE  /\ p # NULL => p = t
         /\ prices' = Remembered(t, p) => Prices'
<1>1. DOMAIN prices = Token /\ \A u \in Token : prices[u] # NULL => prices[u].value = u
  BY DEF BalanceInv, Prices
<1>2. p # NULL => p = t
  BY <1>1 DEF Found, Alive
<1>3. ASSUME prices' = Remembered(t, p) PROVE Prices'
  <2>1. \/ prices' = prices
        \/ prices' = [prices EXCEPT ![t] = Entry(t, PriceTtl)]
    BY <1>2, <1>3 DEF Remembered, Stored
  <2>2. Entry(t, PriceTtl).value = t
    BY DEF Entry
  <2> HIDE DEF Entry
  <2> QED
    BY <1>1, <2>1, <2>2 DEF Prices
<1> QED
  BY <1>2, <1>3

LEMMA SolScanFailsMoves ==
  ASSUME BalanceInv, NEW c \in Call, call[c].pc \notin {"idle", "done"}, SolScanFails(c), now' = now
  PROVE  Calls'
  BY NextProviderMoves, ReplyMoves DEF SolScanFails

LEMMA FirstToDo ==
  ASSUME NEW todo \in Seq(Token), todo # <<>>
  PROVE  Head(todo) \in Token /\ Tail(todo) \in Seq(Token)
  BY HeadTailProperties

\* A token is listed with a price that is right for the kind of the call.
LEMMA ListingMoves ==
  ASSUME BalanceInv, NEW c \in Call, call[c].pc \in {"own", "sol"}, call[c].todo # <<>>,
         NEW own \in Price, NEW info \in Price, now' = now,
         call' = [call EXCEPT ![c] = Listing(call[c], own, info)],
         call[c].q.kind \in {"balance", "price"} =>
           ItemPrice(call[c].q, Head(call[c].todo), own, info) \in {Head(call[c].todo), Zero}
  PROVE  Calls'
<1> DEFINE k == call[c]
           x == call'[c]
           t == Head(k.todo)
           p == ItemPrice(k.q, t, own, info)
           item == Item(t, p)
           items == Append(k.items, item)
           pc == IF k.q.kind = "balance" THEN "own" ELSE "sol"
<1>1. k.pc \in {"own", "sol"}
  OBVIOUS
<1>2. /\ DOMAIN call = Call /\ FineCall(now, k) /\ DOMAIN k = CallFields /\ now \in Int
      /\ k.todo \in Seq(Token) /\ k.items \in Seq(ItemRecord)
      /\ k.q.kind \in {"balance", "history", "portfolio", "price"} /\ k.at \in Int /\ k.at <= now
  BY <1>1, CallFacts
<1>3. t \in Token /\ Tail(k.todo) \in Seq(Token)
  BY <1>2, FirstToDo
<1>4. item \in ItemRecord /\ item.at = now /\ item.token = t /\ item.price = p
  <2>1. p \in Price
    BY DEF ItemPrice
  <2> HIDE DEF p, t
  <2> QED
    BY <1>2, <1>3, <2>1 DEF Item, ItemRecord
<1>5. k.q.kind \in {"balance", "price"} => p \in {t, Zero}
  OBVIOUS
<1>6. DOMAIN call' = Call /\ \A d \in Call \ {c} : call'[d] = call[d]
  BY <1>2
<1>7. x = [k EXCEPT !.items = Append(@, item), !.todo = Tail(@), !.own = NULL, !.info = NULL, !.pc = pc]
  BY <1>2 DEF Listing
<1> HIDE DEF item, pc
<1>8. /\ DOMAIN x = CallFields /\ x.pc = pc /\ x.q = k.q /\ x.at = k.at
      /\ x.todo = Tail(k.todo) /\ x.own = NULL /\ x.info = NULL /\ x.items = items
  BY <1>2, <1>7 DEF CallFields
<1> HIDE DEF x
<1>9. /\ items \in Seq(ItemRecord) /\ Len(items) = Len(k.items) + 1
      /\ \A i \in 1..Len(k.items) : items[i] = k.items[i]
      /\ items[Len(k.items) + 1] = item
  BY <1>2, <1>4, AppendProperties
<1> HIDE DEF items, p, t
<1>10. \A i \in DOMAIN items : (i \in DOMAIN k.items /\ items[i] = k.items[i]) \/ items[i] = item
  <2>1. DOMAIN items = 1..Len(items) /\ DOMAIN k.items = 1..Len(k.items) /\ Len(k.items) \in Nat
    BY <1>2, <1>9, LenProperties
  <2> QED
    BY <1>9, <2>1
<1>11. Since(k.items, k.at) /\ (k.q.kind \in {"balance", "price"} => Priced(k.items))
  BY <1>1, <1>2 DEF FineCall, UnderWay
<1>12. Since(items, k.at) /\ (k.q.kind \in {"balance", "price"} => Priced(items))
  BY <1>2, <1>4, <1>5, <1>10, <1>11 DEF Since, Priced
<1>13. pc \in {"own", "sol"} /\ (k.q.kind = "balance" => pc = "own")
  BY DEF pc
<1>14. AtStep(x)
  BY <1>8, <1>13 DEF AtStep
<1>15. FineCall(now, x)
  <2>1. Shaped(x)
    BY <1>3, <1>8, <1>9 DEF Shaped, Price
  <2>2. Dated(now, x)
    BY <1>1, <1>2, <1>8 DEF FineCall, Dated
  <2>3. UnderWay(x)
    BY <1>2, <1>8, <1>12, <1>13 DEF UnderWay, KindOf
  <2> QED
    BY <1>8, <1>13, <1>14, <2>1, <2>2, <2>3 DEF FineCall
<1> QED
  BY <1>6, <1>15, CallMoves DEF x

LEMMA OwnPriceMoves ==
  ASSUME BalanceInv, NEW c \in Call, call[c].pc = "own", NEW p \in Price, now' = now,
         call[c].q.kind = "balance" /\ Head(call[c].todo) # Sol => p \in {Head(call[c].todo), Zero},
         call' = [call EXCEPT ![c] = [call[c] EXCEPT !.own = p, !.pc = "sol"]]
  PROVE  Calls'
<1> DEFINE k == call[c]
           x == call'[c]
<1>1. k.pc = "own" /\ (k.q.kind = "balance" /\ Head(k.todo) # Sol => p \in {Head(k.todo), Zero})
  OBVIOUS
<1>2. /\ DOMAIN call = Call /\ FineCall(now, k) /\ DOMAIN k = CallFields /\ now \in Int
      /\ k.todo \in Seq(Token) /\ k.items \in Seq(ItemRecord) /\ k.info \in Price
      /\ k.q.kind \in {"balance", "history", "portfolio", "price"}
  BY <1>1, CallFacts
<1>3. DOMAIN call' = Call /\ \A d \in Call \ {c} : call'[d] = call[d]
  BY <1>2
<1>4. /\ DOMAIN x = CallFields /\ x.pc = "sol" /\ x.q = k.q /\ x.at = k.at
      /\ x.todo = k.todo /\ x.own = p /\ x.info = k.info /\ x.items = k.items
  BY <1>2 DEF CallFields
<1> HIDE DEF x, k
<1>5. AtStep(x) /\ x.q.kind \in KindOf(x.pc)
  BY <1>1, <1>2, <1>4 DEF AtStep, KindOf
<1>6. FineCall(now, x)
  BY <1>1, <1>2, <1>4, <1>5, GoesOn
<1> QED
  BY <1>3, <1>6, CallMoves DEF x

LEMMA OwnPriceKeeps ==
  ASSUME BalanceInv, NEW c \in Call, OwnPrice(c), now' = now
  PROVE  BalanceInv'
<1> DEFINE k == call[c]
           t == Head(k.todo)
<1>1. k.pc = "own" /\ k.todo # <<>>
  BY DEF OwnPrice
<1>2. /\ k.todo \in Seq(Token) /\ k.info \in Price
      /\ k.q.kind \in {"balance", "history", "portfolio", "price"}
  BY <1>1, CallFacts
<1>3. t \in Token
  BY <1>1, <1>2, FirstToDo
<1>4. balances' = balances /\ writes' = writes
  BY DEF OwnPrice
<1>5. ASSUME k.q.kind = "balance", t = Sol, UNCHANGED prices,
             call' = [call EXCEPT ![c] = [call[c] EXCEPT !.own = NULL, !.pc = "sol"]]
      PROVE  BalanceInv'
  <2>1. Calls'
    BY <1>1, <1>5, OwnPriceMoves DEF Price
  <2> QED
    BY <1>4, <1>5, <2>1, OthersStay DEF BalanceInv
<1>6. ASSUME NEW p \in Found(t), prices' = Remembered(t, p),
             \/ p # NULL /\ k.q.kind = "price" /\ call' = [call EXCEPT ![c] = Listing(call[c], p, call[c].info)]
             \/ p # NULL /\ k.q.kind # "price"
                  /\ call' = [call EXCEPT ![c] = [call[c] EXCEPT !.own = p, !.pc = "sol"]]
             \/ k.q.kind = "balance"
                  /\ call' = [call EXCEPT ![c] = [call[c] EXCEPT !.own = Zero, !.pc = "sol"]]
             \/ Reply(c, "failed")
      PROVE  BalanceInv'
  <2>1. Prices' /\ (p # NULL => p = t)
    BY <1>3, <1>6, PriceFound
  <2>2. Calls'
    <3>1. CASE p # NULL /\ k.q.kind = "price" /\ call' = [call EXCEPT ![c] = Listing(call[c], p, call[c].info)]
      <4>1. p \in Price /\ ItemPrice(call[c].q, Head(call[c].todo), p, call[c].info) = t
        BY <1>3, <2>1, <3>1 DEF Price, ItemPrice
      <4> QED
        BY <1>1, <1>2, <3>1, <4>1, ListingMoves
    <3>2. CASE p # NULL /\ k.q.kind # "price"
                 /\ call' = [call EXCEPT ![c] = [call[c] EXCEPT !.own = p, !.pc = "sol"]]
      <4>1. p \in Price
        BY <1>3, <2>1, <3>2 DEF Price
      <4> QED
        BY <1>1, <2>1, <3>2, <4>1, OwnPriceMoves
    <3>3. CASE k.q.kind = "balance"
                 /\ call' = [call EXCEPT ![c] = [call[c] EXCEPT !.own = Zero, !.pc = "sol"]]
      BY <1>1, <3>3, OwnPriceMoves DEF Price
    <3>4. CASE Reply(c, "failed")
      BY <1>1, <3>4, ReplyMoves
    <3> QED
      BY <1>6, <3>1, <3>2, <3>3, <3>4
  <2> QED
    BY <1>4, <2>1, <2>2, OthersStay DEF BalanceInv
<1> QED
  BY <1>5, <1>6, Zenon DEF OwnPrice

LEMMA TokenInfoKeeps ==
  ASSUME BalanceInv, NEW c \in Call, TokenInfo(c), now' = now
  PROVE  BalanceInv'
<1> DEFINE k == call[c]
           x == call'[c]
           t == Head(k.todo)
           with(p) == call' = [call EXCEPT ![c] =
             IF call[c].q.kind = "price" THEN [call[c] EXCEPT !.info = p, !.pc = "own"]
             ELSE Listing(call[c], call[c].own, p)]
<1>1. k.pc = "sol" /\ k.todo # <<>>
  BY DEF TokenInfo
<1>2. /\ DOMAIN call = Call /\ FineCall(now, k) /\ DOMAIN k = CallFields /\ now \in Int
      /\ k.todo \in Seq(Token) /\ k.items \in Seq(ItemRecord) /\ k.own \in Price
      /\ k.q.kind \in {"balance", "history", "portfolio", "price"}
  BY <1>1, CallFacts
<1>3. t \in Token /\ Sol \in Token
  BY <1>1, <1>2, FirstToDo, SolIsToken
<1>4. balances' = balances
  BY DEF TokenInfo
<1>5. k.q.kind = "balance" /\ t # Sol => k.own \in {t, Zero}
  BY <1>1, <1>2 DEF FineCall, AtStep
<1>6. ASSUME NEW p \in Token, t = Sol => p = Sol, with(p) PROVE Calls'
  <2>1. CASE k.q.kind = "price"
    <3>1. call' = [call EXCEPT ![c] = [call[c] EXCEPT !.info = p, !.pc = "own"]]
      BY <1>6, <2>1
    <3>2. DOMAIN call' = Call /\ \A d \in Call \ {c} : call'[d] = call[d]
      BY <1>2, <3>1
    <3>3. /\ DOMAIN x = CallFields /\ x.pc = "own" /\ x.q = k.q /\ x.at = k.at
          /\ x.todo = k.todo /\ x.own = k.own /\ x.info = p /\ x.items = k.items
      BY <1>2, <3>1 DEF CallFields
    <3> HIDE DEF x, k
    <3>4. AtStep(x) /\ x.q.kind \in KindOf(x.pc) /\ p \in Price
      BY <2>1, <3>3 DEF AtStep, KindOf, Price
    <3>5. FineCall(now, x)
      BY <1>1, <1>2, <3>3, <3>4, GoesOn
    <3> QED
      BY <3>2, <3>5, CallMoves DEF x
  <2>2. CASE k.q.kind # "price"
    <3>1. call' = [call EXCEPT ![c] = Listing(call[c], call[c].own, p)]
      BY <1>6, <2>2
    <3>2. call[c].q.kind \in {"balance", "price"} =>
            ItemPrice(call[c].q, Head(call[c].todo), call[c].own, p) \in {Head(call[c].todo), Zero}
      BY <1>5, <1>6, <2>2 DEF ItemPrice
    <3>3. p \in Price
      BY DEF Price
    <3> QED
      BY <1>1, <1>2, <3>1, <3>2, <3>3, ListingMoves
  <2> QED
    BY <2>1, <2>2
<1>7. PICK p \in Found(Sol) :
        /\ prices' = Remembered(Sol, p)
        /\ \/ p # NULL /\ with(p) /\ UNCHANGED writes
           \/ t # Sol /\ with(t) /\ writes' = writes \cup {Spawned("metadata", t, "named")}
           \/ SolScanFails(c) /\ UNCHANGED writes
  BY Zenon DEF TokenInfo
<1>8. Prices' /\ (p # NULL => p = Sol)
  BY <1>3, <1>7, PriceFound
<1> HIDE DEF with
<1>9. Calls'
  <2>1. CASE p # NULL /\ with(p)
    BY <1>3, <1>6, <1>8, <2>1
  <2>2. CASE t # Sol /\ with(t)
    BY <1>3, <1>6, <2>2
  <2>3. CASE SolScanFails(c)
    BY <1>1, <2>3, SolScanFailsMoves
  <2> QED
    BY <1>7, <2>1, <2>2, <2>3
<1>10. Writes'
  <2>1. \A w \in writes' \ writes : w.cache = "metadata" /\ w.at = now
    BY <1>7 DEF Spawned
  <2> QED
    BY <2>1, MetadataSpawned
<1> QED
  BY <1>4, <1>8, <1>9, <1>10, OthersStay DEF BalanceInv

LEMMA EndLookupsKeeps ==
  ASSUME BalanceInv, NEW c \in Call, EndLookups(c), now' = now
  PROVE  BalanceInv'
<1> DEFINE k == call[c]
           x == call'[c]
<1>1. k.pc \in {"own", "sol"}
  BY DEF EndLookups
<1>2. /\ DOMAIN call = Call /\ FineCall(now, k) /\ DOMAIN k = CallFields /\ now \in Int
      /\ k.items \in Seq(ItemRecord) /\ k.own \in Price /\ k.info \in Price
      /\ k.q.tokens \in Seq(Token)
  BY <1>1, CallFacts
<1>3. CASE k.q.kind = "balance" /\ call' = [call EXCEPT ![c].pc = "force", ![c].todo = k.q.tokens]
  <2>3. DOMAIN call' = Call /\ \A d \in Call \ {c} : call'[d] = call[d]
    BY <1>2, <1>3
  <2>4. /\ DOMAIN x = CallFields /\ x.pc = "force" /\ x.q = k.q /\ x.at = k.at
        /\ x.todo = k.q.tokens /\ x.own = k.own /\ x.info = k.info /\ x.items = k.items
    BY <1>2, <1>3 DEF CallFields
  <2> HIDE DEF x
  <2>5. AtStep(x) /\ x.q.kind \in KindOf(x.pc)
    BY <1>3, <2>4 DEF AtStep, KindOf, Covered
  <2>7. FineCall(now, x)
    <3> HIDE DEF k
    <3> QED
      BY <1>1, <1>2, <2>4, <2>5, GoesOn
  <2>8. Calls'
    BY <2>3, <2>7, CallMoves DEF x
  <2> QED
    BY <2>8, OthersStay DEF BalanceInv, EndLookups
<1>4. CASE SolScanFails(c)
  <2>1. Calls'
    BY <1>1, <1>4, SolScanFailsMoves
  <2> QED
    BY <2>1, OthersStay DEF BalanceInv, EndLookups
<1>5. CASE k.q.kind # "balance" /\ Reply(c, "items")
  <2>1. Right(now, k.q, k.at, k.items)
    BY <1>1, <1>2, <1>5 DEF Right, FineCall, UnderWay
  <2>2. Calls'
    BY <1>1, <1>5, <2>1, ReplyMoves
  <2> QED
    BY <2>2, OthersStay DEF BalanceInv, EndLookups
<1> QED
  BY <1>3, <1>4, <1>5 DEF EndLookups

\* The balance of t, read now, is put over the listed one or appended: t is in
\* the answer, and what was there stays.
ForcedInto(items, t, new) ==
  /\ new \in Seq(ItemRecord)
  /\ \A j \in DOMAIN new :
       \/ new[j].at = now /\ new[j].token = t /\ new[j].price = t
       \/ /\ j \in DOMAIN items /\ new[j].token = items[j].token
          /\ new[j].price = items[j].price /\ new[j].at \in {items[j].at, now}
  /\ \A j \in DOMAIN items : j \in DOMAIN new /\ new[j].token = items[j].token
  /\ \E j \in DOMAIN new : new[j].token = t

LEMMA Forced ==
  ASSUME now \in Int, NEW items \in Seq(ItemRecord), NEW t \in Token, NEW i,
         i # 0 => i \in DOMAIN items /\ items[i].token = t,
         NEW e, i # 0 => e \in ItemRecord /\ e.at = now /\ e.token = t /\ e.price = items[i].price,
         NEW new, i # 0 => new = [items EXCEPT ![i] = e],
         i = 0 => new = Append(items, Item(t, t))
  PROVE  ForcedInto(items, t, new)
<1>1. DOMAIN items = 1..Len(items) /\ Len(items) \in Nat
  BY LenProperties
<1>2. CASE i # 0
  <2>2. i \in DOMAIN items /\ items[i].token = t
    BY <1>2
  <2>4. e \in ItemRecord /\ e.at = now /\ e.token = items[i].token /\ e.price = items[i].price
    BY <1>2, <2>2
  <2>5. new = [items EXCEPT ![i] = e]
    BY <1>2
  <2>6. /\ new \in Seq(ItemRecord) /\ Len(new) = Len(items)
        /\ \A j \in 1..Len(items) : new[j] = IF j = i THEN e ELSE items[j]
    <3>1. i \in 1..Len(items)
      BY <1>1, <2>2
    <3>2. /\ [items EXCEPT ![i] = e] \in Seq(ItemRecord) /\ Len([items EXCEPT ![i] = e]) = Len(items)
          /\ \A j \in 1..Len(items) : [items EXCEPT ![i] = e][j] = IF j = i THEN e ELSE items[j]
      BY <2>4, <3>1, ExceptSeq
    <3> QED
      BY <2>5, <3>2
  <2>7. DOMAIN new = DOMAIN items
    BY <1>1, <2>6, LenProperties
  <2> QED
    BY <1>1, <2>2, <2>4, <2>6, <2>7 DEF ForcedInto
<1>3. CASE i = 0
  <2> DEFINE f == Item(t, t)
  <2>1. f \in ItemRecord /\ f.at = now /\ f.token = t /\ f.price = t
    BY DEF Item, ItemRecord, Price
  <2>2. new = Append(items, f)
    BY <1>3
  <2> HIDE DEF f
  <2>3. /\ new \in Seq(ItemRecord) /\ Len(new) = Len(items) + 1
        /\ \A j \in 1..Len(items) : new[j] = items[j]
        /\ new[Len(items) + 1] = f
    BY <2>1, <2>2, AppendProperties
  <2>4. DOMAIN new = 1..(Len(items) + 1)
    BY <2>3, LenProperties
  <2> DEFINE n == Len(items)
  <2>5. n \in Nat /\ DOMAIN items = 1..n /\ DOMAIN new = 1..(n + 1)
    BY <1>1, <2>4
  <2> HIDE DEF n
  <2>6. \A j \in DOMAIN new : j \in DOMAIN items \/ j = n + 1
    BY <2>5
  <2>7. n + 1 \in DOMAIN new /\ \A j \in DOMAIN items : j \in DOMAIN new
    BY <2>5
  <2>8. new[n + 1] = f /\ \A j \in DOMAIN items : new[j] = items[j]
    BY <2>3, <2>5 DEF n
  <2> QED
    BY <2>1, <2>3, <2>6, <2>7, <2>8 DEF ForcedInto
<1> QED
  BY <1>2, <1>3

LEMMA ForceTokenKeeps ==
  ASSUME BalanceInv, NEW c \in Call, ForceToken(c), now' = now
  PROVE  BalanceInv'
<1> DEFINE k == call[c]
           x == call'[c]
           t == Head(k.todo)
<1>1. k.pc = "force" /\ k.todo # <<>>
  BY DEF ForceToken
<1>2. /\ DOMAIN call = Call /\ FineCall(now, k) /\ DOMAIN k = CallFields /\ now \in Int
      /\ k.todo \in Seq(Token) /\ k.items \in Seq(ItemRecord) /\ k.own \in Price /\ k.info \in Price
      /\ k.q.tokens \in Seq(Token) /\ k.at \in Int /\ k.at <= now
  BY <1>1, CallFacts
<1>3. /\ k.q.kind = "balance" /\ Since(k.items, k.at) /\ Priced(k.items)
      /\ Covered(k.q.tokens, k.todo, k.items)
  BY <1>1, <1>2 DEF FineCall, UnderWay, KindOf, AtStep
<1>4. CASE Reply(c, "unsupported") \/ Reply(c, "failed")
  <2>1. Calls'
    BY <1>1, <1>4, ReplyMoves
  <2> QED
    BY <2>1, OthersStay DEF BalanceInv, ForceToken
<1>5. ASSUME NEW spelled \in BOOLEAN,
             call' = [call EXCEPT ![c].todo = Tail(@),
                     ![c].items = IF Listed(call[c].items, Head(call[c].todo), spelled) # 0
                                  THEN [call[c].items EXCEPT
                                          ![Listed(call[c].items, Head(call[c].todo), spelled)].at = now]
                                  ELSE Append(@, Item(Head(call[c].todo), Head(call[c].todo)))]
      PROVE  BalanceInv'
  <2> DEFINE new == IF Listed(k.items, t, spelled) # 0
                    THEN [k.items EXCEPT ![Listed(k.items, t, spelled)].at = now]
                    ELSE Append(k.items, Item(t, t))
  <2>1. t \in Token /\ Tail(k.todo) \in Seq(Token)
    BY <1>1, <1>2, FirstToDo
  <2>2. ForcedInto(k.items, t, new)
    <3> DEFINE i == Listed(k.items, t, spelled)
               e == [token |-> t, at |-> now, price |-> k.items[i].price]
    <3>1. now \in Int /\ k.items \in Seq(ItemRecord) /\ t \in Token
      BY <1>2, <2>1
    <3>2. i # 0 => i \in DOMAIN k.items /\ k.items[i].token = t
      <4> DEFINE at == {j \in DOMAIN k.items : k.items[j].token = t /\ (t \in Native \/ spelled)}
      <4>1. i # 0 => at # {} /\ i = CHOOSE j \in at : TRUE
        BY DEF Listed
      <4> HIDE DEF i
      <4> QED
        BY <4>1
    <3>3. i # 0 => new = [k.items EXCEPT ![i] = [k.items[i] EXCEPT !.at = now]]
      OBVIOUS
    <3>4. i = 0 => new = Append(k.items, Item(t, t))
      OBVIOUS
    <3> HIDE DEF t, k, new, i
    <3>0. i # 0 => k.items[i] \in ItemRecord /\ k.items[i].token = t
      BY <3>1, <3>2, ItemAt
    <3>5. i # 0 => [k.items[i] EXCEPT !.at = now] = e
      BY <3>0 DEF ItemRecord
    <3>7. i # 0 => e \in ItemRecord /\ e.at = now /\ e.token = t /\ e.price = k.items[i].price
      BY <3>0, <3>1 DEF ItemRecord
    <3> HIDE DEF e
    <3>6. i # 0 => new = [k.items EXCEPT ![i] = e]
      BY <3>3, <3>5
    <3> QED
      BY <3>1, <3>2, <3>4, <3>6, <3>7, Forced, Zenon
  <2>3. call' = [call EXCEPT ![c].todo = Tail(k.todo), ![c].items = new]
    BY <1>2, <1>5
  <2> HIDE DEF new
  <2>0. new \in Seq(ItemRecord)
    BY <2>2 DEF ForcedInto
  <2>4. DOMAIN call' = Call /\ \A d \in Call \ {c} : call'[d] = call[d]
    BY <1>2, <2>3
  <2>5. /\ DOMAIN x = CallFields /\ x.pc = "force" /\ x.q = k.q /\ x.at = k.at
        /\ x.todo = Tail(k.todo) /\ x.own = k.own /\ x.info = k.info /\ x.items = new
    BY <1>1, <1>2, <2>3 DEF CallFields
  <2> HIDE DEF x
  <2>6. Since(x.items, k.at) /\ Priced(x.items)
    BY <1>2, <1>3, <2>2, <2>5 DEF Since, Priced, ForcedInto
  <2>7. Covered(k.q.tokens, Tail(k.todo), new)
    <3>1. /\ DOMAIN k.todo = 1..Len(k.todo) /\ Len(k.todo) \in Nat
          /\ Len(Tail(k.todo)) = Len(k.todo) - 1
          /\ \A j \in 1..Len(Tail(k.todo)) : Tail(k.todo)[j] = k.todo[j + 1]
          /\ DOMAIN Tail(k.todo) = 1..Len(Tail(k.todo))
          /\ t = k.todo[1]
      BY <1>1, <1>2, <2>1, LenProperties, HeadTailProperties
    <3>2. ASSUME NEW j \in DOMAIN k.todo
          PROVE  k.todo[j] = t \/ \E m \in DOMAIN Tail(k.todo) : Tail(k.todo)[m] = k.todo[j]
      <4>1. CASE j = 1
        BY <3>1, <4>1
      <4>2. CASE j # 1
        <5>1. j - 1 \in DOMAIN Tail(k.todo) /\ j - 1 \in 1..Len(Tail(k.todo)) /\ (j - 1) + 1 = j
          BY <3>1, <4>2
        <5>2. Tail(k.todo)[j - 1] = k.todo[j]
          BY <3>1, <5>1
        <5> QED
          BY <5>1, <5>2
      <4> QED
        BY <4>1, <4>2
    <3> HIDE DEF t
    <3> QED
      BY <1>3, <2>2, <3>2 DEF Covered, ForcedInto
  <2>8. AtStep(x) /\ x.q.kind \in KindOf(x.pc)
    BY <1>3, <2>5, <2>7 DEF AtStep, KindOf
  <2>9. FineCall(now, x)
    <3> HIDE DEF k
    <3>1. k.pc \notin {"idle", "done"}
      BY <1>1
    <3> QED
      BY <1>2, <2>0, <2>1, <2>5, <2>6, <2>8, <3>1, GoesOn
  <2>10. Calls'
    BY <2>4, <2>9, CallMoves DEF x
  <2> QED
    BY <2>10, OthersStay DEF BalanceInv, ForceToken
<1> QED
  BY <1>4, <1>5 DEF ForceToken

LEMMA AnswerBalanceKeeps ==
  ASSUME BalanceInv, NEW c \in Call, AnswerBalance(c), now' = now
  PROVE  BalanceInv'
<1> DEFINE k == call[c]
<1>1. k.pc = "force" /\ k.todo = <<>> /\ Reply(c, "items")
  BY DEF AnswerBalance
<1>2. /\ FineCall(now, k) /\ now \in Int /\ k.items \in Seq(ItemRecord)
      /\ k.at \in Int /\ k.at <= now /\ now <= k.at + Lag
  BY <1>1, CallFacts
<1>3. /\ k.q.kind = "balance" /\ Since(k.items, k.at) /\ Priced(k.items)
      /\ Covered(k.q.tokens, k.todo, k.items)
  BY <1>1, <1>2 DEF FineCall, UnderWay, KindOf, AtStep
<1>4. ASSUME NEW i \in DOMAIN k.items
      PROVE  /\ k.items[i].at >= k.at /\ now <= k.items[i].at + Lag
             /\ now < k.items[i].at + BalanceTtl + 2 * Lag
  <2>1. k.items[i].at \in Int
    BY <1>2, ItemAt
  <2>2. k.at <= k.items[i].at
    BY <1>3 DEF Since
  <2> DEFINE a == k.items[i].at
             at == k.at
  <2>3. a \in Int /\ at \in Int /\ now \in Int /\ at <= a /\ now <= at + Lag
    BY <1>2, <2>1, <2>2
  <2> HIDE DEF a, at
  <2>4. a >= at /\ now <= a + Lag /\ now < a + BalanceTtl + 2 * Lag
    BY <2>3, LagIsInt, TtlAssumption
  <2> QED
    BY <2>4 DEF a, at
<1>5. Right(now, k.q, k.at, k.items)
  <2>1. DOMAIN k.todo = {}
    BY <1>1
  <2> QED
    BY <1>3, <1>4, <2>1 DEF Right, Covered
<1>6. Calls'
  BY <1>1, <1>5, ReplyMoves
<1>7. Writes'
  <2> DEFINE w == Spawned("balances", k.q.account, k.items)
  <2>1. w.at = now /\ w.value = k.items
    BY DEF Spawned
  <2>2. writes' = writes \cup {w}
    BY DEF AnswerBalance
  <2> HIDE DEF w
  <2>3. FineWrite(now, w)
    BY <1>2, <1>3, <1>4, <2>1, LagIsInt DEF FineWrite
  <2> QED
    BY <2>2, <2>3 DEF BalanceInv, Writes
<1> QED
  BY <1>6, <1>7, OthersStay DEF BalanceInv, AnswerBalance

LEMMA RootstockKeeps ==
  ASSUME BalanceInv, NEW c \in Call, Rootstock(c), now' = now
  PROVE  BalanceInv'
<1> DEFINE k == call[c]
           held == {t \in Token : ChainOf[t] = RootstockMainnet}
<1>1. k.pc = "rootstock"
  BY DEF Rootstock
<1>2. FineCall(now, k) /\ now \in Int
  BY <1>1, CallFacts
<1>3. k.q.chain = RootstockMainnet
  BY <1>1, <1>2 DEF FineCall, AtStep
<1>4. ASSUME NEW read \in SUBSET held, NEW priced \in SUBSET read,
             call' = [call EXCEPT ![c].pc = "done", ![c].reply = "items",
               ![c].items = SetToSeq({Item(t, IF t \in priced THEN t ELSE Zero) : t \in read})]
      PROVE  Calls'
  <2> DEFINE I == {Item(t, IF t \in priced THEN t ELSE Zero) : t \in read}
             items == SetToSeq(I)
  <2>1. read \in SUBSET Token
    OBVIOUS
  <2>2. items \in Seq(ItemRecord) /\ Priced(items) /\ \A i \in DOMAIN items : items[i].at = now
    BY <1>2, <2>1, ItemsAsSeq
  <2>3. call' = [call EXCEPT ![c].pc = "done", ![c].items = items, ![c].reply = "items"]
    BY <1>4
  <2> HIDE DEF items
  <2>4. Right(now, k.q, k.at, items)
    BY <1>2, <1>3, <2>2, LagIsInt, TtlAssumption DEF Right
  <2> QED
    BY <1>1, <2>2, <2>3, <2>4, ItemsMove
<1>5. Calls'
  BY <1>4 DEF Rootstock
<1> QED
  BY <1>5, OthersStay DEF BalanceInv, Rootstock

LEMMA IndexedMoves ==
  ASSUME BalanceInv, NEW c \in Call, call[c].pc # "idle", call[c].q.kind # "balance",
         NEW T \in SUBSET Token, Indexed(c, T), now' = now
  PROVE  Calls'
<1> DEFINE k == call[c]
<1>1. CASE Reply(c, "failed")
  BY <1>1, ReplyMoves
<1>2. ASSUME NEW s \in {{}, T},
             call' = [call EXCEPT ![c].pc = "done", ![c].reply = "items",
                        ![c].items = SetToSeq({Item(t, t) : t \in s})]
      PROVE  Calls'
  <2> DEFINE items == SetToSeq({Item(t, t) : t \in s})
  <2>1. s \in SUBSET Token /\ now \in Int
    BY DEF BalanceInv
  <2>2. items \in Seq(ItemRecord) /\ Priced(items)
    BY <2>1, OwnItemsAsSeq
  <2>3. call' = [call EXCEPT ![c].pc = "done", ![c].items = items, ![c].reply = "items"]
    BY <1>2
  <2> HIDE DEF items
  <2>4. Right(now, k.q, k.at, items)
    BY <2>2 DEF Right
  <2> QED
    BY <2>2, <2>3, <2>4, ItemsMove
<1> QED
  BY <1>1, <1>2 DEF Indexed

\* SolScan's lookups begin, for a history or a price.
LEMMA LooksUp ==
  ASSUME BalanceInv, NEW c \in Call, call[c].pc \notin {"idle", "done"},
         call[c].q.kind # "balance", NEW todo \in Seq(Token), now' = now,
         call' = [call EXCEPT ![c].pc = "sol", ![c].todo = todo]
  PROVE  Calls'
<1> DEFINE k == call[c]
           x == call'[c]
<1>1. k.pc \notin {"idle", "done"} /\ k.q.kind # "balance"
  OBVIOUS
<1>2. /\ DOMAIN call = Call /\ FineCall(now, k) /\ DOMAIN k = CallFields /\ now \in Int
      /\ k.items \in Seq(ItemRecord) /\ k.own \in Price /\ k.info \in Price
      /\ k.q.kind \in {"balance", "history", "portfolio", "price"}
  BY <1>1, CallFacts
<1>3. DOMAIN call' = Call /\ \A d \in Call \ {c} : call'[d] = call[d]
  BY <1>2
<1>4. /\ DOMAIN x = CallFields /\ x.pc = "sol" /\ x.q = k.q /\ x.at = k.at
      /\ x.todo = todo /\ x.own = k.own /\ x.info = k.info /\ x.items = k.items
  BY <1>2 DEF CallFields
<1> HIDE DEF x, k
<1>5. AtStep(x) /\ x.q.kind \in KindOf(x.pc)
  BY <1>1, <1>2, <1>4 DEF AtStep, KindOf
<1>6. FineCall(now, x)
  BY <1>1, <1>2, <1>4, <1>5, GoesOn
<1> QED
  BY <1>3, <1>6, CallMoves DEF x

LEMMA HistoryKeeps ==
  ASSUME BalanceInv, NEW c \in Call, History(c), now' = now
  PROVE  BalanceInv'
<1> DEFINE k == call[c]
<1>1. k.pc = "history"
  BY DEF History
<1>2. k.q.kind # "balance"
  BY <1>1, CallFacts DEF FineCall, UnderWay, KindOf
<1>3. Held(k.q) \in SUBSET Token
  BY DEF Held
<1>4. CASE Reply(c, "failed")
  <2>1. Calls'
    BY <1>1, <1>4, ReplyMoves
  <2> QED
    BY <2>1, OthersStay DEF BalanceInv, History
<1>5. ASSUME NEW s \in SUBSET Held(k.q),
             call' = [call EXCEPT ![c].pc = "sol", ![c].todo = SetToSeq(s)]
      PROVE  BalanceInv'
  <2>1. SetToSeq(s) \in Seq(Token)
    BY <1>3, TokensAsSeq
  <2>2. Calls'
    BY <1>1, <1>2, <1>5, <2>1, LooksUp
  <2> QED
    BY <2>2, OthersStay DEF BalanceInv, History
<1>6. CASE Indexed(c, Held(k.q))
  <2>1. Calls'
    BY <1>1, <1>2, <1>3, <1>6, IndexedMoves
  <2> QED
    BY <2>1, OthersStay DEF BalanceInv, History
<1> QED
  BY <1>4, <1>5, <1>6 DEF History

LEMMA PassOnKeeps ==
  ASSUME BalanceInv, NEW c \in Call, PassOn(c), now' = now
  PROVE  BalanceInv'
<1>1. call[c].pc \in {"coinbase", "portfolio"} /\ Indexed(c, {})
  BY DEF PassOn
<1>2. call[c].q.kind # "balance"
  BY <1>1, CallFacts DEF FineCall, UnderWay, KindOf
<1>3. Calls'
  BY <1>1, <1>2, IndexedMoves
<1> QED
  BY <1>3, OthersStay DEF BalanceInv, PassOn

LEMMA FungiblePriceKeeps ==
  ASSUME BalanceInv, NEW c \in Call, FungiblePrice(c), now' = now
  PROVE  BalanceInv'
<1> DEFINE k == call[c]
           t == Head(k.q.tokens)
<1>1. k.pc = "price"
  BY DEF FungiblePrice
<1>2. FineCall(now, k) /\ k.q.tokens \in Seq(Token)
  BY <1>1, CallFacts
<1>3. k.q.kind # "balance" /\ k.q.tokens # <<>>
  BY <1>1, <1>2 DEF FineCall, UnderWay, KindOf, AtStep
<1>4. t \in Token
  BY <1>2, <1>3, FirstToDo
<1>5. \/ Reply(c, "unsupported")
      \/ call' = [call EXCEPT ![c].pc = "sol", ![c].todo = <<t>>]
      \/ Indexed(c, {t})
  BY DEF FungiblePrice
<1>6. Calls'
  <2>1. CASE Reply(c, "unsupported")
    BY <1>1, <2>1, ReplyMoves
  <2>2. CASE call' = [call EXCEPT ![c].pc = "sol", ![c].todo = <<t>>]
    <3>1. <<t>> \in Seq(Token)
      BY <1>4
    <3> QED
      BY <1>1, <1>3, <2>2, <3>1, LooksUp
  <2>3. CASE Indexed(c, {t})
    BY <1>1, <1>3, <1>4, <2>3, IndexedMoves
  <2> QED
    BY <1>5, <2>1, <2>2, <2>3
<1> QED
  BY <1>6, OthersStay DEF BalanceInv, FungiblePrice

-----------------------------------------------------------------------------
(* Every step of the handlers. *)

LEMMA BalanceStarts == ReadsInit => BalanceInv
<1> SUFFICES ASSUME ReadsInit PROVE BalanceInv
  OBVIOUS
<1> USE DEF ReadsInit, BalanceInit
<1>1. <<>> \in Seq(Token) /\ <<>> \in Seq(ItemRecord)
  BY EmptySeq
<1>2. FineCall(now, IdleCall)
  BY <1>1 DEF FineCall, Shaped, Dated, UnderWay, AtStep, IdleCall, CallFields, Price
<1>3. Calls
  BY <1>2 DEF Calls
<1>4. Balances /\ Prices /\ Writes
  BY DEF Balances, Prices, Writes, NoCache
<1> QED
  BY <1>3, <1>4 DEF BalanceInv

LEMMA BalanceTickKeeps ==
  ASSUME BalanceInv, BalanceMayTick, BalanceTick, now' = now + 1
  PROVE  BalanceInv'
<1>1. now \in Int /\ now' \in Int /\ call' = call /\ writes' = writes
  BY DEF BalanceInv, BalanceTick
<1>2. Calls'
  <2>1. ASSUME NEW c \in Call PROVE FineCall(now + 1, call[c])
    <3>1. FineCall(now, call[c]) /\ call[c].pc # "done"
      BY DEF BalanceInv, Calls, BalanceMayTick
    <3>2. call[c].pc # "idle" => now < call[c].at + Lag
      BY DEF BalanceMayTick
    <3>3. Dated(now + 1, call[c])
      BY <1>1, <3>1, <3>2, LagIsInt DEF FineCall, Dated
    <3> QED
      BY <3>1, <3>3 DEF FineCall
  <2> QED
    BY <1>1, <2>1 DEF BalanceInv, Calls
<1>3. Writes'
  <2>1. ASSUME NEW w \in writes PROVE FineWrite(now + 1, w)
    <3>1. FineWrite(now, w) /\ now < w.at + Lag
      BY DEF BalanceInv, Writes, BalanceMayTick
    <3> QED
      BY <1>1, <3>1, LagIsInt DEF FineWrite
  <2> QED
    BY <1>1, <2>1 DEF Writes
<1>4. Balances'
  BY DEF BalanceInv, Balances, BalanceTick, Expired
<1>5. Prices'
  BY DEF BalanceInv, Prices, BalanceTick, Expired
<1> QED
  BY <1>1, <1>2, <1>3, <1>4, <1>5 DEF BalanceInv

LEMMA BalanceKeeps ==
  ASSUME BalanceInv, [ReadsNext]_readsVars
  PROVE  BalanceInv'
<1>1. CASE BalanceTurn
  <2>1. now' = now
    BY <1>1 DEF BalanceTurn
  <2>2. ASSUME NEW c \in Call, StartCall(c) \/ BalanceStep(c) \/ LeaveCall(c) PROVE BalanceInv'
    <3>1. CASE StartCall(c)
      BY <2>1, <3>1, StartCallKeeps
    <3>2. CASE LeaveCall(c)
      BY <2>1, <3>2, LeaveCallKeeps
    <3>3. CASE ReadBalanceCache(c)
      BY <2>1, <3>3, ReadBalanceCacheKeeps
    <3>4. CASE SelectBalance(c)
      BY <2>1, <3>4, SelectBalanceKeeps
    <3>5. CASE Indexer(c)
      BY <2>1, <3>5, IndexerKeeps
    <3>6. CASE SolScan(c)
      BY <2>1, <3>6, SolScanKeeps
    <3>7. CASE OwnPrice(c)
      BY <2>1, <3>7, OwnPriceKeeps
    <3>8. CASE TokenInfo(c)
      BY <2>1, <3>8, TokenInfoKeeps
    <3>9. CASE EndLookups(c)
      BY <2>1, <3>9, EndLookupsKeeps
    <3>10. CASE ForceToken(c)
      BY <2>1, <3>10, ForceTokenKeeps
    <3>11. CASE AnswerBalance(c)
      BY <2>1, <3>11, AnswerBalanceKeeps
    <3>12. CASE Rootstock(c)
      BY <2>1, <3>12, RootstockKeeps
    <3>13. CASE History(c)
      BY <2>1, <3>13, HistoryKeeps
    <3>14. CASE PassOn(c)
      BY <2>1, <3>14, PassOnKeeps
    <3>15. CASE FungiblePrice(c)
      BY <2>1, <3>15, FungiblePriceKeeps
    <3> QED
      BY <2>2, <3>1, <3>2, <3>3, <3>4, <3>5, <3>6, <3>7, <3>8, <3>9, <3>10, <3>11, <3>12,
         <3>13, <3>14, <3>15 DEF BalanceStep
  <2>3. ASSUME NEW w \in writes, WriteLands(w) PROVE BalanceInv'
    BY <2>1, <2>3, WriteLandsKeeps
  <2> QED
    BY <1>1, <2>2, <2>3 DEF BalanceTurn, BalanceNext
<1>2. CASE UNCHANGED <<now, balanceVars>>
  <2>1. /\ now' = now /\ call' = call /\ balances' = balances /\ prices' = prices
        /\ writes' = writes
    BY <1>2 DEF balanceVars
  <2> QED
    BY <2>1, OthersStay DEF BalanceInv
<1>3. CASE Tick
  BY <1>3, BalanceTickKeeps DEF Tick
<1> QED
  BY <1>1, <1>2, <1>3 DEF ReadsNext, IdentityTurn, readsVars

LEMMA BalanceAlways == ReadsSpec => []BalanceInv
<1>1. ReadsInit => BalanceInv
  BY BalanceStarts
<1>2. BalanceInv /\ [ReadsNext]_readsVars => BalanceInv'
  BY BalanceKeeps
<1> QED
  BY <1>1, <1>2, PTL DEF ReadsSpec

LEMMA AnswersAreRight ==
  ASSUME BalanceInv, NEW c \in Call, Answered(c)
  PROVE  /\ Right(now, call[c].q, call[c].at, call[c].items)
         /\ Items(c) = {call[c].items[i] : i \in DOMAIN call[c].items}
  BY DEF BalanceInv, Calls, FineCall, Answered, Items

\* Whatever the order of calls and of the cache writes they spawn: a balance
\* that the balance handler answers with, from an indexer or from its cache,
\* was read less than the life of a cache entry and the time of the call that
\* read it and its write ago.
THEOREM BalancesAreFresh == ReadsSpec => []BalanceFresh
<1>1. BalanceInv => BalanceFresh
  <2> SUFFICES ASSUME BalanceInv, NEW c \in Call, Answered(c), call[c].q.kind = "balance",
                      NEW x \in Items(c)
               PROVE  now < x.at + BalanceTtl + 2 * Lag
    BY DEF BalanceFresh
  <2> QED
    BY AnswersAreRight DEF Right
<1> QED
  BY <1>1, BalanceAlways, PTL

\* Whatever SolScan's shared cache holds and whichever calls filled it: the
\* price beside a balance, and the one the price endpoint answers with, is a
\* price of that very token, or 0.
THEOREM PricesAreOfTokens == ReadsSpec => []PriceIsOfToken
<1>1. BalanceInv => PriceIsOfToken
  <2> SUFFICES ASSUME BalanceInv, NEW c \in Call, Answered(c),
                      call[c].q.kind \in {"balance", "price"}, NEW x \in Items(c)
               PROVE  x.price \in {x.token, Zero}
    BY DEF PriceIsOfToken
  <2> QED
    BY AnswersAreRight DEF Right, Priced
<1> QED
  BY <1>1, BalanceAlways, PTL

\* A token named in force_update is in the answer with a balance that was
\* read during the call, whatever the cache held and the indexer listed.
THEOREM ForcedTokensAreRead == ReadsSpec => []ForcedIsRead
<1>1. BalanceInv => ForcedIsRead
  <2> SUFFICES ASSUME BalanceInv, NEW c \in Call, Answered(c), call[c].q.kind = "balance",
                      Namespace(call[c].q) = "eip155", call[c].q.chain # RootstockMainnet,
                      NEW i \in DOMAIN call[c].q.tokens
               PROVE  \E x \in Items(c) : x.token = call[c].q.tokens[i] /\ x.at >= call[c].at
    BY DEF ForcedIsRead
  <2>1. PICK j \in DOMAIN call[c].items :
          call[c].items[j].token = call[c].q.tokens[i] /\ call[c].items[j].at >= call[c].at
    BY AnswersAreRight DEF Right
  <2> QED
    BY <2>1 DEF Items
<1> QED
  BY <1>1, BalanceAlways, PTL
=============================================================================
