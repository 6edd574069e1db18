--------------------------- MODULE MiddlewareProofs --------------------------
(***************************************************************************)
(* Theorems about what a request meets before its handler, for any number  *)
(* of requests, servers, projects, paths and addresses, and any durations. *)
(*                                                                         *)
(* Admission.  The invariant says how old a verdict can be wherever it is: *)
(* an answer under way is younger than Delay, one waiting to be cached no  *)
(* older than its wait and Delay, and the age of a cache entry and the rest*)
(* of its life never exceed the lifetime and both delays (Entries) - the   *)
(* sum a landing write establishes and every unit of time preserves.  The  *)
(* breaker's stamp and the last failure differ only while a failure of the *)
(* first millisecond is the last one (Breaker).                            *)
(***************************************************************************)
EXTENDS Gateway, ProjectRegistry, SequenceTheorems, TLAPS

-----------------------------------------------------------------------------
(* Admission: the invariant. *)

\* A request holds a verdict that held no longer ago than the verdict is old,
\* decides on nothing else, and is let through unverified only in an outage.
Sound(q, since, failed) ==
  /\ q.pc # "free" => q.project \in Project /\ q.need \in Need
  /\ q.pc # "done" => q.reply = NULL
  /\ q.pc \in {"free", "cache"} => q.data = NULL
  /\ q.data # NULL => since[q.project][q.data] <= q.old
  /\ q.pc = "registry" /\ q.data # NULL => q.old <= Delay
  /\ q.reply \in {"granted", "denied", "not_found", "quota_limit", "config_error"} =>
       q.data # NULL /\ q.reply = Decision(q.need, q.data)
  /\ q.reply = "unverified" => failed = 0 \/ failed < Cooldown

Requests == \A r \in Request : Sound(req[r], ago, failedAgo)

\* An entry's age and the rest of its life, together, never exceed Stale.
Entries ==
  \A p \in Project : cache[p] # NULL =>
    /\ ago[p][cache[p].data] <= cache[p].old
    /\ cache[p].old + cache[p].left <= Stale

\* An answer was at most Delay old when its write was spawned.
Writes == \A w \in writes : ago[w.project][w.data] <= w.old /\ w.old <= w.wait + Delay

\* What the registry says now holds now.
Truth == \A p \in Project : ago[p][truth[p]] = 0

\* The stamp of the breaker is the last failure, unless that was missed.
Breaker ==
  /\ circuit < Cooldown => failedAgo <= circuit
  /\ ~missed => circuit <= failedAgo

RegistryInv == TypeOK /\ Requests /\ Entries /\ Writes /\ Truth /\ Breaker

-----------------------------------------------------------------------------
(* Admission: lemmas. *)

LEMMA StaleBounds == Stale \in Nat /\ Delay + Delay <= Stale /\ TTL <= Stale /\ 0 \in 0..Stale
BY TimesAssumption DEF Stale

\* A decision is one of five replies, and its grounds are the verdict.
LEMMA Decisions ==
  ASSUME NEW need \in Need, NEW v \in AnyVerdict
  PROVE  /\ Decision(need, v) \in {"granted", "denied", "not_found", "quota_limit", "config_error"}
         /\ v \in Grounds(need, Decision(need, v))
BY DEF Need, AnyVerdict, Decision, Grounds

\* Only a decision has grounds.
LEMMA GroundsOfReply ==
  ASSUME NEW need, NEW reply \in Replies \cup {NULL}, Grounds(need, reply) # {}
  PROVE  reply \in {"granted", "denied", "not_found", "quota_limit", "config_error"}
BY VerdictAssumption DEF Replies, Grounds

\* What is sound stays so while nothing it rests on grows older.
LEMMA SoundStays ==
  ASSUME NEW q, NEW since, NEW failed, NEW since2, NEW failed2, Sound(q, since, failed),
         q.data # NULL => since2[q.project][q.data] <= q.old,
         failed2 = 0 \/ failed2 = failed
  PROVE  Sound(q, since2, failed2)
BY DEF Sound

LEMMA FreeIsSound ==
  ASSUME NEW since, NEW failed
  PROVE  Free \in RequestState /\ Sound(Free, since, failed)
BY TimesAssumption, VerdictAssumption DEF Free, Sound, RequestState, Stale, Replies

\* A step of one request that touches nothing else.
LEMMA OneRequest ==
  ASSUME RegistryInv, NEW r \in Request, NEW q \in RequestState, Sound(q, ago, failedAgo),
         req' = [req EXCEPT ![r] = q],
         UNCHANGED <<validate, truth, cache, writes, circuit, booting, history>>
  PROVE  RegistryInv'
<1> USE DEF RegistryInv
<1>1. req' \in [Request -> RequestState] /\ TypeOK'
  BY DEF TypeOK, history
<1>2. Requests'
  BY DEF TypeOK, Requests, history
<1> QED
  BY <1>1, <1>2 DEF Entries, Writes, Truth, Breaker, history

LEMMA RegistryInit == Init => RegistryInv
<1> SUFFICES ASSUME Init PROVE RegistryInv
  OBVIOUS
<1> USE TimesAssumption, VerdictAssumption DEF Init
<1>1. Free \in RequestState /\ Sound(Free, ago, failedAgo)
  BY FreeIsSound
<1>2. TypeOK
  <2>1. ago \in [Project -> [Verdict -> 0..(Stale + 1)]]
    <3>1. 0 \in 0..(Stale + 1) /\ Stale + 1 \in 0..(Stale + 1)
      BY StaleBounds
    <3> QED
      BY <3>1
  <2>2. circuit \in 0..Cooldown /\ failedAgo \in 0..(Cooldown + 1)
    OBVIOUS
  <2> QED
    BY <1>1, <2>1, <2>2 DEF TypeOK
<1>3. Requests
  BY <1>1 DEF Requests
<1>4. Entries /\ Writes /\ Truth /\ Breaker
  BY DEF Entries, Writes, Truth, Breaker
<1> QED
  BY <1>2, <1>3, <1>4 DEF RegistryInv

\* Every step of a request that touches nothing else, as a new state of it.
LEMMA QuietSteps ==
  ASSUME RegistryInv, NEW r \in Request,
         \/ Arrive(r) \/ CacheHit(r) \/ CacheMiss(r) \/ CacheError(r)
         \/ RegistryReads(r) \/ Leave(r)
  PROVE  RegistryInv'
<1> USE TimesAssumption, VerdictAssumption
<1>0. /\ req \in [Request -> RequestState] /\ req[r] \in RequestState
      /\ Sound(req[r], ago, failedAgo)
  BY DEF RegistryInv, TypeOK, Requests
<1>1. CASE Arrive(r)
  <2>1. PICK p \in Project, need \in Need :
          req' = [req EXCEPT ![r] =
            IF validate
            THEN [Free EXCEPT !.pc = "cache", !.project = p, !.need = need]
            ELSE [Free EXCEPT !.pc = "done", !.project = p, !.need = need, !.reply = "unchecked"]]
    BY <1>1 DEF Arrive
  <2> DEFINE q == IF validate
                  THEN [Free EXCEPT !.pc = "cache", !.project = p, !.need = need]
                  ELSE [Free EXCEPT !.pc = "done", !.project = p, !.need = need, !.reply = "unchecked"]
  <2>2. q \in RequestState
    BY StaleBounds DEF Free, RequestState, Replies
  <2>3. Sound(q, ago, failedAgo)
    BY DEF Free, Sound, Replies
  <2> QED
    BY <1>1, <2>1, <2>2, <2>3, OneRequest DEF Arrive
<1>2. CASE CacheHit(r)
  <2> DEFINE e == cache[req[r].project]
             q == [req[r] EXCEPT !.pc = "done", !.data = e.data, !.old = e.old,
                                 !.reply = Decision(req[r].need, e.data)]
  <2>1. req[r].project \in Project /\ req[r].need \in Need
    BY <1>0, <1>2 DEF CacheHit, Sound
  <2>2. /\ e \in CacheEntry /\ e.data \in Verdict /\ e.old \in 0..Stale
        /\ ago[req[r].project][e.data] <= e.old
    BY <1>2, <2>1 DEF CacheHit, RegistryInv, TypeOK, Entries, CacheEntry
  <2>3. Decision(req[r].need, e.data) \in
          {"granted", "denied", "not_found", "quota_limit", "config_error"}
    BY <2>1, <2>2, Decisions
  <2>4. req' = [req EXCEPT ![r] = q]
    BY <1>0, <1>2 DEF CacheHit, RequestState
  <2>5. q \in RequestState
    BY <1>0, <2>2, <2>3 DEF RequestState, Replies
  <2>6. /\ q.pc = "done" /\ q.project = req[r].project /\ q.need = req[r].need
        /\ q.data = e.data /\ q.old = e.old /\ q.reply = Decision(req[r].need, e.data)
    BY <1>0 DEF RequestState
  <2>7. Sound(q, ago, failedAgo)
    BY <2>1, <2>2, <2>3, <2>6 DEF Sound
  <2> QED
    BY <1>2, <2>4, <2>5, <2>7, OneRequest DEF CacheHit
<1>3. CASE CacheMiss(r)
  <2> DEFINE q == [req[r] EXCEPT !.pc = IF IsOpen THEN "done" ELSE "registry",
                                 !.reply = IF IsOpen THEN "unverified" ELSE NULL]
  <2>1. req' = [req EXCEPT ![r] = q]
    BY <1>0, <1>3 DEF CacheMiss, RequestState
  <2>2. q \in RequestState
    BY <1>0 DEF RequestState, Replies
  <2>3. IsOpen => failedAgo < Cooldown
    BY DEF IsOpen, RegistryInv, Breaker, TypeOK
  <2>4. Sound(q, ago, failedAgo)
    BY <1>0, <1>3, <2>3 DEF CacheMiss, Sound, RequestState, Replies
  <2> QED
    BY <1>3, <2>1, <2>2, <2>4, OneRequest DEF CacheMiss
<1>4. CASE CacheError(r)
  <2> DEFINE q == [req[r] EXCEPT !.pc = "done", !.reply = "storage_error"]
  <2>1. req' = [req EXCEPT ![r] = q]
    BY <1>0, <1>4 DEF CacheError, RequestState
  <2>2. q \in RequestState /\ Sound(q, ago, failedAgo)
    BY <1>0, <1>4 DEF CacheError, Sound, RequestState, Replies
  <2> QED
    BY <1>4, <2>1, <2>2, OneRequest DEF CacheError
<1>5. CASE RegistryReads(r)
  <2> DEFINE q == [req[r] EXCEPT !.data = truth[req[r].project], !.old = 0]
  <2>1. req' = [req EXCEPT ![r] = q]
    BY <1>0, <1>5 DEF RegistryReads, RequestState
  <2>2. req[r].project \in Project /\ truth[req[r].project] \in Verdict
    BY <1>0, <1>5 DEF RegistryReads, Sound, RegistryInv, TypeOK
  <2>3. q \in RequestState
    BY <1>0, <2>2, StaleBounds DEF RequestState
  <2>4. ago[req[r].project][truth[req[r].project]] = 0
    BY <2>2 DEF RegistryInv, Truth
  <2>5. Sound(q, ago, failedAgo)
    BY <1>0, <1>5, <2>2, <2>4 DEF RegistryReads, Sound, RequestState
  <2> QED
    BY <1>5, <2>1, <2>3, <2>5, OneRequest DEF RegistryReads
<1>6. CASE Leave(r)
  BY <1>6, FreeIsSound, OneRequest DEF Leave
<1> QED
  BY <1>1, <1>2, <1>3, <1>4, <1>5, <1>6

\* The steps by which an answer of the registry reaches a request or the cache.
LEMMA AnswerSteps ==
  ASSUME RegistryInv, NEW r \in Request, RegistryAnswers(r)
  PROVE  RegistryInv'
<1> USE TimesAssumption, VerdictAssumption
<1>0. /\ req \in [Request -> RequestState] /\ req[r] \in RequestState
      /\ Sound(req[r], ago, failedAgo)
  BY DEF RegistryInv, TypeOK, Requests
<1> DEFINE q == [req[r] EXCEPT !.pc = "done", !.reply = Decision(req[r].need, req[r].data)]
           w == [project |-> req[r].project, data |-> req[r].data, old |-> req[r].old, wait |-> 0]
<1>1. /\ req[r].project \in Project /\ req[r].need \in Need /\ req[r].data \in Verdict
      /\ req[r].old \in 0..Delay /\ ago[req[r].project][req[r].data] <= req[r].old
  BY <1>0 DEF RegistryAnswers, Sound, RequestState
<1>2. Decision(req[r].need, req[r].data) \in
        {"granted", "denied", "not_found", "quota_limit", "config_error"}
  BY <1>1, Decisions
<1>3. req' = [req EXCEPT ![r] = q]
  BY <1>0 DEF RegistryAnswers, RequestState
<1>4. q \in RequestState
  BY <1>0, <1>2 DEF RequestState, Replies
<1>5. Sound(q, ago, failedAgo)
  BY <1>0, <1>1, <1>2 DEF Sound, RequestState
<1>6. writes' = writes \cup {w}
  BY DEF RegistryAnswers
<1>7. /\ w \in [project : Project, data : Verdict, old : 0..(Delay + Delay), wait : 0..Delay]
      /\ ago[w.project][w.data] <= w.old /\ w.old <= w.wait + Delay
  BY <1>1
<1>8. UNCHANGED <<validate, truth, cache, circuit, booting, ago, failedAgo, missed>>
  BY DEF RegistryAnswers, history
<1>9. TypeOK'
  BY <1>3, <1>4, <1>6, <1>7, <1>8 DEF RegistryInv, TypeOK
<1>10. Requests'
  BY <1>0, <1>3, <1>5, <1>8 DEF RegistryInv, Requests
<1>11. Writes'
  BY <1>6, <1>7, <1>8 DEF RegistryInv, Writes
<1> QED
  BY <1>8, <1>9, <1>10, <1>11 DEF RegistryInv, Entries, Truth, Breaker

LEMMA FailureSteps ==
  ASSUME RegistryInv, NEW r \in Request, RegistryFails(r)
  PROVE  RegistryInv'
<1> USE TimesAssumption, VerdictAssumption
<1>0. /\ req \in [Request -> RequestState] /\ req[r] \in RequestState
      /\ Sound(req[r], ago, failedAgo)
  BY DEF RegistryInv, TypeOK, Requests
<1> DEFINE q == [req[r] EXCEPT !.pc = "done", !.data = NULL, !.old = 0, !.reply = "unverified"]
<1>1. req' = [req EXCEPT ![r] = q]
  BY <1>0 DEF RegistryFails, RequestState
<1>2. q \in RequestState
  BY <1>0, StaleBounds DEF RequestState, Replies
<1>3. /\ failedAgo' = 0 /\ missed' = booting /\ circuit' = (IF booting THEN Cooldown ELSE 0)
      /\ UNCHANGED <<validate, truth, cache, writes, booting, ago>>
  BY DEF RegistryFails, OpenCircuit
<1>4. Sound(q, ago, 0)
  BY <1>0 DEF RegistryFails, Sound, RequestState
<1>5. ASSUME NEW u \in Request PROVE Sound(req'[u], ago', failedAgo')
  BY <1>0, <1>1, <1>3, <1>4, SoundStays DEF RegistryInv, Requests, Sound
<1>6. TypeOK'
  BY <1>1, <1>2, <1>3 DEF RegistryInv, TypeOK
<1>7. Breaker'
  BY <1>3 DEF Breaker, RegistryInv, TypeOK
<1> QED
  BY <1>3, <1>5, <1>6, <1>7 DEF RegistryInv, Requests, Entries, Writes, Truth

LEMMA WriteSteps ==
  ASSUME RegistryInv, WriteLands \/ WriteFails
  PROVE  RegistryInv'
<1> USE TimesAssumption
<1>1. PICK w \in writes :
        /\ writes' = writes \ {w}
        /\ \/ cache' = [cache EXCEPT ![w.project] = IF TTL = 0 THEN NULL ELSE Entry(w)]
           \/ cache' = cache
  BY DEF WriteLands, WriteFails
<1>2. UNCHANGED <<validate, truth, req, circuit, booting, ago, failedAgo, missed>>
  BY DEF WriteLands, WriteFails, history
<1>3. /\ w \in [project : Project, data : Verdict, old : 0..(Delay + Delay), wait : 0..Delay]
      /\ ago[w.project][w.data] <= w.old
  BY DEF RegistryInv, TypeOK, Writes
<1>4. TTL # 0 => Entry(w) \in CacheEntry /\ Entry(w).old + Entry(w).left <= Stale
  BY <1>3 DEF Entry, CacheEntry, Stale
<1>5. Entry(w).data = w.data /\ Entry(w).old = w.old
  BY DEF Entry
<1>6. cache \in [Project -> CacheEntry \cup {NULL}]
  BY DEF RegistryInv, TypeOK
<1>7. cache' \in [Project -> CacheEntry \cup {NULL}]
  BY <1>1, <1>3, <1>4, <1>6
<1>8. TypeOK'
  BY <1>1, <1>2, <1>7 DEF RegistryInv, TypeOK
<1>9. Entries'
  <2> SUFFICES ASSUME NEW p \in Project, cache'[p] # NULL
               PROVE  /\ ago'[p][cache'[p].data] <= cache'[p].old
                      /\ cache'[p].old + cache'[p].left <= Stale
    BY DEF Entries
  <2>1. CASE cache'[p] = cache[p]
    BY <1>2, <2>1 DEF RegistryInv, Entries
  <2>2. CASE cache'[p] # cache[p]
    <3>1. p = w.project /\ TTL # 0 /\ cache'[p] = Entry(w)
      BY <1>1, <1>3, <1>6, <2>2
    <3> QED
      BY <1>2, <1>3, <1>4, <1>5, <3>1
  <2> QED
    BY <2>1, <2>2
<1>10. Requests' /\ Writes'
  BY <1>1, <1>2 DEF RegistryInv, Requests, Writes
<1> QED
  BY <1>2, <1>8, <1>9, <1>10 DEF RegistryInv, Truth, Breaker

\* A change at the registry makes a verdict hold now: no age grows.
LEMMA ChangeSteps ==
  ASSUME RegistryInv, RegistryChanges
  PROVE  RegistryInv'
<1>1. PICK p \in Project, v \in Verdict :
        /\ truth' = [truth EXCEPT ![p] = v]
        /\ ago' = [ago EXCEPT ![p][v] = 0]
  BY DEF RegistryChanges
<1>2. UNCHANGED <<validate, cache, writes, req, circuit, booting, failedAgo, missed>>
  BY DEF RegistryChanges
<1>3. ago \in [Project -> [Verdict -> 0..(Stale + 1)]] /\ truth \in [Project -> Verdict]
  BY DEF RegistryInv, TypeOK
<1>4. /\ ago' \in [Project -> [Verdict -> 0..(Stale + 1)]]
      /\ \A o \in Project, x \in Verdict : ago'[o][x] <= ago[o][x]
  <2>1. 0 \in 0..(Stale + 1)
    BY StaleBounds
  <2>2. ASSUME NEW o \in Project PROVE ago'[o] \in [Verdict -> 0..(Stale + 1)]
    BY <1>1, <1>3, <2>1, <2>2
  <2>3. ASSUME NEW o \in Project, NEW x \in Verdict PROVE ago'[o][x] <= ago[o][x]
    <3>1. ago[o][x] \in 0..(Stale + 1)
      BY <1>3
    <3>2. ago'[o][x] = IF o = p /\ x = v THEN 0 ELSE ago[o][x]
      BY <1>1, <1>3
    <3> QED
      BY <3>1, <3>2, StaleBounds
  <2> QED
    BY <1>1, <1>3, <2>2, <2>3
<1>5. TypeOK'
  BY <1>1, <1>2, <1>3, <1>4 DEF RegistryInv, TypeOK
<1>6. Requests'
  <2> SUFFICES ASSUME NEW r \in Request PROVE Sound(req[r], ago', failedAgo)
    BY <1>2 DEF Requests
  <2>1. Sound(req[r], ago, failedAgo) /\ req[r] \in RequestState
    BY DEF RegistryInv, Requests, TypeOK
  <2>2. req[r].data # NULL =>
          /\ req[r].project \in Project /\ req[r].data \in Verdict
          /\ req[r].old \in 0..Stale /\ ago[req[r].project][req[r].data] <= req[r].old
    BY <2>1 DEF Sound, RequestState
  <2>3. req[r].data # NULL => ago'[req[r].project][req[r].data] <= req[r].old
    BY <1>3, <1>4, <2>2, StaleBounds
  <2> QED
    BY <2>1, <2>3, SoundStays
<1>7. Entries'
  <2> SUFFICES ASSUME NEW o \in Project, cache[o] # NULL
               PROVE  ago'[o][cache[o].data] <= cache[o].old
    BY <1>2 DEF Entries, RegistryInv
  <2>1. cache[o].data \in Verdict /\ cache[o].old \in 0..Stale
    BY DEF RegistryInv, TypeOK, CacheEntry
  <2> QED
    BY <1>3, <1>4, <2>1, StaleBounds DEF RegistryInv, Entries
<1>8. Writes'
  <2> SUFFICES ASSUME NEW w \in writes PROVE ago'[w.project][w.data] <= w.old
    BY <1>2 DEF Writes, RegistryInv
  <2>1. w.project \in Project /\ w.data \in Verdict /\ w.old \in 0..(Delay + Delay)
    BY DEF RegistryInv, TypeOK
  <2> QED
    BY <1>3, <1>4, <2>1, StaleBounds, TimesAssumption DEF RegistryInv, Writes
<1>9. Truth'
  <2> SUFFICES ASSUME NEW o \in Project PROVE ago'[o][truth'[o]] = 0
    BY DEF Truth
  <2>1. CASE o = p
    BY <1>1, <1>3, <2>1
  <2>2. CASE o # p
    BY <1>1, <1>3, <2>2 DEF RegistryInv, Truth
  <2> QED
    BY <2>1, <2>2
<1> QED
  BY <1>2, <1>5, <1>6, <1>7, <1>8, <1>9 DEF RegistryInv, Breaker

\* A restart forgets the requests, the writes and the breaker; Redis keeps its
\* entries.
LEMMA RestartSteps ==
  ASSUME RegistryInv, Restart
  PROVE  RegistryInv'
<1> USE TimesAssumption DEF Restart
<1>1. Free \in RequestState /\ Sound(Free, ago', failedAgo')
  BY FreeIsSound
<1>2. circuit' \in 0..Cooldown /\ failedAgo' \in 0..(Cooldown + 1)
  OBVIOUS
<1>3. TypeOK'
  BY <1>1, <1>2 DEF RegistryInv, TypeOK
<1>4. Requests'
  BY <1>1 DEF Requests
<1> QED
  BY <1>2, <1>3, <1>4 DEF RegistryInv, Entries, Writes, Truth, Breaker

\* Older counts up to its bound.
LEMMA OlderFacts ==
  ASSUME NEW n \in Nat, NEW bound \in Nat, n <= bound
  PROVE  /\ Older(n, bound) \in 0..bound /\ n <= Older(n, bound) /\ Older(n, bound) <= n + 1
         /\ n < bound => Older(n, bound) = n + 1
BY DEF Older

\* A unit of time ages a verdict and whatever holds it alike, and takes from
\* the life of an entry what it adds to its age.
LEMMA TickSteps ==
  ASSUME RegistryInv, Tick
  PROVE  RegistryInv'
<1> USE TimesAssumption, StaleBounds
<1>0. /\ ago \in [Project -> [Verdict -> 0..(Stale + 1)]] /\ truth \in [Project -> Verdict]
      /\ circuit \in 0..Cooldown /\ failedAgo \in 0..(Cooldown + 1)
  BY DEF RegistryInv, TypeOK
<1>1. /\ ago' \in [Project -> [Verdict -> 0..(Stale + 1)]]
      /\ \A p \in Project, v \in Verdict : ago'[p][v] <= ago[p][v] + 1
      /\ \A p \in Project : ago'[p][truth[p]] = 0
  <2>1. ago' = [p \in Project |-> [v \in Verdict |->
                 IF v = truth[p] THEN 0 ELSE Older(ago[p][v], Stale + 1)]]
    BY DEF Tick
  <2>2. ASSUME NEW p \in Project, NEW v \in Verdict
        PROVE  /\ Older(ago[p][v], Stale + 1) \in 0..(Stale + 1)
               /\ Older(ago[p][v], Stale + 1) <= ago[p][v] + 1
               /\ ago[p][v] \in 0..(Stale + 1) /\ 0 \in 0..(Stale + 1)
    <3>1. Stale + 1 \in Nat /\ ago[p][v] \in 0..(Stale + 1)
      BY <1>0
    <3>2. ago[p][v] \in Nat /\ ago[p][v] <= Stale + 1
      BY <3>1
    <3>3. /\ Older(ago[p][v], Stale + 1) \in 0..(Stale + 1)
          /\ Older(ago[p][v], Stale + 1) <= ago[p][v] + 1
      BY <3>1, <3>2, OlderFacts
    <3> QED
      BY <3>1, <3>3
  <2> QED
    BY <1>0, <2>1, <2>2
<1>2. /\ circuit' \in 0..Cooldown /\ failedAgo' \in 0..(Cooldown + 1)
      /\ circuit' = Older(circuit, Cooldown) /\ failedAgo' = Older(failedAgo, Cooldown + 1)
      /\ UNCHANGED <<validate, truth, missed>> /\ booting' = FALSE
  <2>1. circuit \in Nat /\ circuit <= Cooldown /\ failedAgo \in Nat /\ failedAgo <= Cooldown + 1
    BY <1>0
  <2>2. Older(circuit, Cooldown) \in 0..Cooldown
    BY <2>1, OlderFacts
  <2>3. Older(failedAgo, Cooldown + 1) \in 0..(Cooldown + 1)
    BY <2>1, OlderFacts
  <2> QED
    BY <2>2, <2>3 DEF Tick
<1>3. ASSUME NEW r \in Request
      PROVE  req'[r] \in RequestState /\ Sound(req'[r], ago', failedAgo')
  <2>1. req[r] \in RequestState /\ Sound(req[r], ago, failedAgo) /\ req[r].pc # "done"
    BY DEF RegistryInv, TypeOK, Requests, Tick
  <2>2. req'[r] = [req[r] EXCEPT !.old = IF req[r].data = NULL THEN 0 ELSE Older(@, Stale + 1)]
    BY DEF Tick
  <2>3. ASSUME NEW n \in 0..Stale, req'[r] = [req[r] EXCEPT !.old = n],
               req[r].data # NULL => n <= Delay /\ ago'[req[r].project][req[r].data] <= n
        PROVE  req'[r] \in RequestState /\ Sound(req'[r], ago', failedAgo')
    <3>1. req'[r] \in RequestState
      BY <2>1, <2>3 DEF RequestState
    <3>2. /\ req'[r].pc = req[r].pc /\ req'[r].project = req[r].project
          /\ req'[r].need = req[r].need /\ req'[r].data = req[r].data
          /\ req'[r].reply = req[r].reply /\ req'[r].old = n
      BY <2>1, <2>3 DEF RequestState
    <3>3. req[r].reply = NULL
      BY <2>1 DEF Sound
    <3> QED
      BY <2>1, <2>3, <3>1, <3>2, <3>3, VerdictAssumption DEF Sound, Replies
  <2>4. CASE req[r].data = NULL
    BY <2>2, <2>3, <2>4
  <2>5. CASE req[r].data # NULL
    <3>0. req[r].pc = "registry"
      BY <2>1, <2>5 DEF Sound, RequestState
    <3>1. /\ req[r].old \in Nat /\ req[r].old < Delay
          /\ req[r].project \in Project /\ req[r].data \in Verdict
          /\ ago[req[r].project][req[r].data] <= req[r].old
      <4>1. req[r].old < Delay
        BY <2>5, <3>0 DEF Tick
      <4> QED
        BY <2>1, <2>5, <3>0, <4>1 DEF Sound, RequestState
    <3>2. Older(req[r].old, Stale + 1) = req[r].old + 1
      BY <3>1, OlderFacts
    <3>3. req'[r] = [req[r] EXCEPT !.old = req[r].old + 1] /\ req[r].old + 1 \in 0..Stale
      BY <2>2, <2>5, <3>1, <3>2
    <3>4. ago'[req[r].project][req[r].data] <= req[r].old + 1
      BY <1>0, <1>1, <3>1
    <3> QED
      BY <2>3, <3>1, <3>3, <3>4
  <2> QED
    BY <2>4, <2>5
<1>4. ASSUME NEW p \in Project
      PROVE  /\ cache'[p] \in CacheEntry \cup {NULL}
             /\ cache'[p] # NULL => /\ ago'[p][cache'[p].data] <= cache'[p].old
                                    /\ cache'[p].old + cache'[p].left <= Stale
  <2>1. cache[p] \in CacheEntry \cup {NULL} /\ cache'[p] = AgedEntry(cache[p])
    BY DEF RegistryInv, TypeOK, Tick
  <2>2. CASE cache[p] = NULL \/ cache[p].left <= 1
    BY <2>1, <2>2 DEF AgedEntry
  <2>3. CASE cache[p] # NULL /\ ~(cache[p].left <= 1)
    <3>1. /\ cache[p] \in CacheEntry /\ cache[p].data \in Verdict
          /\ cache[p].old \in 0..Stale /\ cache[p].left \in 2..TTL
          /\ ago[p][cache[p].data] <= cache[p].old /\ cache[p].old + cache[p].left <= Stale
      BY <2>1, <2>3 DEF CacheEntry, RegistryInv, Entries
    <3>2. Older(cache[p].old, Stale + 1) = cache[p].old + 1
      <4>1. cache[p].old \in Nat /\ Stale + 1 \in Nat /\ cache[p].old < Stale + 1
        BY <3>1
      <4> QED
        BY <4>1, OlderFacts
    <3>3. cache'[p] = [data |-> cache[p].data, old |-> cache[p].old + 1, left |-> cache[p].left - 1]
      BY <2>1, <2>3, <3>1, <3>2 DEF AgedEntry, CacheEntry
    <3>4. ago'[p][cache[p].data] <= cache[p].old + 1
      BY <1>0, <1>1, <3>1
    <3> QED
      BY <3>1, <3>3, <3>4 DEF CacheEntry
  <2> QED
    BY <2>2, <2>3
<1>5. ASSUME NEW w \in writes'
      PROVE  /\ w \in [project : Project, data : Verdict, old : 0..(Delay + Delay), wait : 0..Delay]
             /\ ago'[w.project][w.data] <= w.old /\ w.old <= w.wait + Delay
  <2>1. PICK x \in writes : w = [x EXCEPT !.old = @ + 1, !.wait = @ + 1]
    BY DEF Tick
  <2>2. /\ x \in [project : Project, data : Verdict, old : 0..(Delay + Delay), wait : 0..Delay]
        /\ x.wait < Delay /\ ago[x.project][x.data] <= x.old /\ x.old <= x.wait + Delay
    BY DEF Tick, RegistryInv, TypeOK, Writes
  <2>3. w = [project |-> x.project, data |-> x.data, old |-> x.old + 1, wait |-> x.wait + 1]
    BY <2>1, <2>2
  <2>4. ago'[x.project][x.data] <= x.old + 1
    BY <1>0, <1>1, <2>2
  <2> QED
    BY <2>2, <2>3, <2>4
<1>6. Breaker'
  BY <1>0, <1>2 DEF Breaker, RegistryInv, Older
<1>7. req' \in [Request -> RequestState] /\ cache' \in [Project -> CacheEntry \cup {NULL}]
  BY <1>3, <1>4 DEF Tick
<1>8. TypeOK'
  BY <1>1, <1>2, <1>5, <1>7 DEF TypeOK, RegistryInv
<1> QED
  BY <1>1, <1>2, <1>3, <1>4, <1>5, <1>6, <1>8 DEF RegistryInv, Requests, Entries, Writes, Truth

LEMMA RegistryNext == RegistryInv /\ [Next]_vars => RegistryInv'
<1> SUFFICES ASSUME RegistryInv, [Next]_vars PROVE RegistryInv'
  OBVIOUS
<1>1. ASSUME NEW r \in Request, Arrive(r) \/ Handle(r) \/ Leave(r) PROVE RegistryInv'
  BY <1>1, QuietSteps, AnswerSteps, FailureSteps DEF Handle
<1>2. CASE UNCHANGED vars
  BY <1>2 DEF vars, history, RegistryInv, TypeOK, Requests, Entries, Writes, Truth, Breaker
<1> QED
  BY <1>1, <1>2, WriteSteps, ChangeSteps, RestartSteps, TickSteps DEF Next

LEMMA RegistryInvariant == Spec => []RegistryInv
BY RegistryInit, RegistryNext, PTL DEF Spec

-----------------------------------------------------------------------------
(* Admission: theorems. *)

\* The shapes of the admission's state.
THEOREM RegistryTypes == Spec => []TypeOK
<1>1. RegistryInv => TypeOK
  BY DEF RegistryInv
<1> QED
  BY <1>1, RegistryInvariant, PTL

\* validate_project_access(_and_quota): whatever the order in which spawned
\* cache writes land, across restarts and outages, a reply rests on a verdict
\* that held at most Stale ago.
THEOREM VerdictsWereTrue == Spec => []VerdictWasTrue
<1>1. RegistryInv => VerdictWasTrue
  <2> SUFFICES ASSUME RegistryInv, NEW r \in Request, Grounds(req[r].need, req[r].reply) # {}
               PROVE  \E v \in Grounds(req[r].need, req[r].reply) :
                        v \in Verdict /\ ago[req[r].project][v] <= Stale
    BY DEF VerdictWasTrue
  <2>1. req[r] \in RequestState /\ Sound(req[r], ago, failedAgo)
    BY DEF RegistryInv, TypeOK, Requests
  <2>2. req[r].reply \in {"granted", "denied", "not_found", "quota_limit", "config_error"}
    BY <2>1, GroundsOfReply DEF RequestState
  <2>3. /\ req[r].data # NULL /\ req[r].reply = Decision(req[r].need, req[r].data)
        /\ req[r].pc = "done"
    BY <2>1, <2>2, VerdictAssumption DEF Sound, Replies
  <2>4. req[r].data \in Verdict /\ req[r].need \in Need /\ req[r].project \in Project
        /\ req[r].old \in 0..Stale /\ ago[req[r].project][req[r].data] <= req[r].old
    BY <2>1, <2>3 DEF Sound, RequestState
  <2>5. req[r].data \in Grounds(req[r].need, req[r].reply)
    BY <2>3, <2>4, Decisions, VerdictAssumption
  <2>6. ago[req[r].project][req[r].data] \in 0..(Stale + 1)
    BY <2>4 DEF RegistryInv, TypeOK
  <2>7. ago[req[r].project][req[r].data] <= Stale
    BY <2>4, <2>6, StaleBounds
  <2> QED
    BY <2>4, <2>5, <2>7
<1> QED
  BY <1>1, RegistryInvariant, PTL

\* A request passes unverified only while the registry cannot be asked.
THEOREM UnverifiedOnlyInOutage == Spec => []FailsOpenOnlyInOutage
<1>1. RegistryInv => FailsOpenOnlyInOutage
  BY DEF RegistryInv, Requests, Sound, FailsOpenOnlyInOutage
<1> QED
  BY <1>1, RegistryInvariant, PTL

\* is_circuit_open: no call to the registry starts within the cooldown of the
\* failure recorded last.
THEOREM RegistryIsShielded == Spec => BreakerShields
<1>1. ASSUME RegistryInv, [Next]_vars, NEW r \in Request,
             req[r].pc = "cache", req'[r].pc = "registry"
      PROVE  missed \/ failedAgo >= Cooldown
  <2>0. /\ req \in [Request -> RequestState] /\ circuit \in 0..Cooldown /\ missed \in BOOLEAN
        /\ failedAgo \in 0..(Cooldown + 1) /\ (~missed => circuit <= failedAgo)
    BY <1>1 DEF RegistryInv, TypeOK, Breaker
  <2>1. ASSUME NEW u \in Request, Arrive(u) \/ Handle(u) \/ Leave(u) PROVE CacheMiss(r)
    <3>1. u = r
      BY <1>1, <2>0, <2>1 DEF Arrive, Handle, Leave, CacheHit, CacheMiss, CacheError,
         RegistryReads, RegistryAnswers, RegistryFails
    <3>2. ~Arrive(r) /\ ~Leave(r) /\ ~CacheHit(r) /\ ~CacheError(r) /\ ~RegistryReads(r)
          /\ ~RegistryAnswers(r) /\ ~RegistryFails(r)
      BY <1>1, <2>0 DEF Arrive, Leave, CacheHit, CacheError, RegistryReads, RegistryAnswers,
         RegistryFails, RequestState
    <3> QED
      BY <2>1, <3>1, <3>2 DEF Handle
  <2>2. ~WriteLands /\ ~WriteFails /\ ~RegistryChanges /\ ~Restart /\ ~(UNCHANGED vars)
    BY <1>1 DEF WriteLands, WriteFails, RegistryChanges, Restart, vars, Free
  <2>3. ~Tick
    <3> SUFFICES ASSUME Tick PROVE FALSE
      OBVIOUS
    <3>1. req'[r] = [req[r] EXCEPT !.old = IF req[r].data = NULL THEN 0 ELSE Older(@, Stale + 1)]
      BY DEF Tick
    <3> QED
      BY <1>1, <2>0, <3>1 DEF RequestState
  <2>4. CacheMiss(r)
    BY <1>1, <2>1, <2>2, <2>3 DEF Next
  <2>5. ~IsOpen
    BY <1>1, <2>0, <2>4 DEF CacheMiss, RequestState
  <2> QED
    BY <2>0, <2>5, TimesAssumption DEF IsOpen
<1>2. RegistryInv /\ [Next]_vars =>
        [\A r \in Request : req[r].pc = "cache" /\ req'[r].pc = "registry"
           => missed \/ failedAgo >= Cooldown]_vars
  BY <1>1
<1> QED
  BY <1>2, RegistryInvariant, PTL DEF Spec, BreakerShields

-----------------------------------------------------------------------------
(* CORS: what an entry allows it asks for. *)

\* A wildcard's labels are the last ones of the host, which has one more.
LEMMA SuffixIsRest ==
  ASSUME NEW host \in Seq(STRING), NEW labels \in Seq(STRING), Len(host) > Len(labels),
         IsSuffix(labels, host)
  PROVE  \E n \in 1..Len(host) : labels = SubSeq(host, n + 1, Len(host))
<1> DEFINE n == Len(host) - Len(labels)
           rest == SubSeq(host, n + 1, Len(host))
<1>1. n \in 1..Len(host) /\ Len(host) \in Nat /\ Len(labels) \in Nat
  OBVIOUS
<1>2. rest \in Seq(STRING) /\ Len(rest) = Len(labels)
      /\ \A i \in 1..Len(labels) : rest[i] = host[n + i]
  BY <1>1
<1>3. /\ Reverse(labels) = [i \in 1..Len(labels) |-> labels[(Len(labels) - i) + 1]]
      /\ Reverse(host) = [i \in 1..Len(host) |-> host[(Len(host) - i) + 1]]
  BY DEF Reverse
<1>4. Reverse(labels) \in Seq(STRING) /\ Reverse(host) \in Seq(STRING)
      /\ Len(Reverse(labels)) = Len(labels) /\ Len(Reverse(host)) = Len(host)
  BY <1>3
<1>5. SubSeq(Reverse(labels), 1, Len(labels)) = SubSeq(Reverse(host), 1, Len(labels))
  BY <1>4 DEF IsSuffix, IsPrefix
<1>6. ASSUME NEW j \in 1..Len(labels) PROVE Reverse(labels)[j] = Reverse(host)[j]
  <2>1. /\ SubSeq(Reverse(labels), 1, Len(labels))[j] = Reverse(labels)[j]
        /\ SubSeq(Reverse(host), 1, Len(labels))[j] = Reverse(host)[j]
    BY <1>1, <1>4
  <2> QED
    BY <1>5, <2>1
<1>7. ASSUME NEW i \in 1..Len(labels) PROVE labels[i] = rest[i]
  <2> DEFINE j == (Len(labels) - i) + 1
  <2>1. j \in 1..Len(labels) /\ (Len(labels) - j) + 1 = i /\ (Len(host) - j) + 1 = n + i
        /\ j \in 1..Len(host)
    BY <1>1
  <2>2. labels[i] = Reverse(labels)[j]
    BY <1>3, <2>1
  <2>3. host[n + i] = Reverse(host)[j]
    BY <1>3, <2>1
  <2> QED
    BY <1>2, <1>6, <2>1, <2>2, <2>3
<1>8. labels = rest
  BY <1>2, <1>7, SeqEqual
<1> QED
  BY <1>1, <1>8

\* An entry allows an origin only if each of its parts asks for it.
LEMMA AllowedIsAsked ==
  ASSUME NEW e \in OriginEntry, NEW o \in Origin, EntryAllows(e, o)
  PROVE  AsksFor(e, o)
<1>1. CASE e.text = o.text
  BY <1>1 DEF AsksFor
<1>2. CASE e.text # o.text
  <2>1. /\ o.host # None /\ HostMatchesPattern(e, o.host)
        /\ e.scheme # None => e.scheme = o.scheme
        /\ e.port # None => e.port = o.port
    BY <1>2 DEF EntryAllows
  <2>2. o \in ParsedOrigin
    BY <2>1, BucketAssumption
  <2>3. e.wild /\ Len(o.host) > Len(e.host) /\ IsSuffix(e.host, o.host) =>
          \E n \in 1..Len(o.host) : e.host = SubSeq(o.host, n + 1, Len(o.host))
    BY <2>2, SuffixIsRest DEF ParsedOrigin, OriginEntry
  <2> QED
    BY <2>1, <2>3 DEF AsksFor, HostMatchesPattern
<1> QED
  BY <1>1, <1>2

-----------------------------------------------------------------------------
(* The rate limit and CORS: the invariant. *)

GateStage == {"idle", "limit", "geo", "rest", "dispatch", "debug", "cors", "answered"}

GateMethod == KnownMethods \cup {"unknown", "preflight"}

GateState ==
  [pc : GateStage, server : Server \cup {None}, path : Path \cup {None}, ip : Address \cup {None},
   method : GateMethod \cup {None}, origin : Origin \cup {None}, seen : SUBSET OriginLists,
   status : Int \cup {None}, code : Int \cup {None}, cors : {"any", "origin", None}]

GateTypeOK ==
  /\ refused \in [Server -> [BucketKey -> Nat \cup {None}]]
  /\ emptied \in [BucketKey -> Nat \cup {None}]
  /\ gateNow \in Nat
  /\ allowed \in OriginLists
  /\ gateReq \in [GateRequest -> GateState]

\* A request being limited has no status yet; one on its way has no CORS header,
\* and no method before it is dispatched; one answered echoes an origin only
\* if an entry seen on the way allows it.
Proper(q) ==
  /\ q.pc = "limit" => q.server \in Server /\ q.path \in Path /\ q.status = None
  /\ q.pc \in {"idle", "limit", "geo", "rest"} => q.method = None
  /\ q.pc = "dispatch" => q.method \in GateMethod
  /\ q.pc # "answered" => q.cors = None
  /\ q.cors = "any" => q.method \notin PayMethods
  /\ q.cors = "origin" =>
       /\ q.method \in PayMethods /\ q.origin \in Origin
       /\ \/ q.origin.text = "http://localhost:3000"
          \/ \E l \in q.seen : \E e \in l : AsksFor(e, q.origin)

\* A server remembers a key no longer than an interval after Redis refused it
\* last.
Memory ==
  \A k \in BucketKey :
    /\ emptied[k] # None => emptied[k] <= gateNow
    /\ \A s \in Server : refused[s][k] # None =>
         emptied[k] # None /\ refused[s][k] <= emptied[k] + Interval

GateInv == GateTypeOK /\ (\A r \in GateRequest : Proper(gateReq[r])) /\ Memory

LEMMA IdleIsProper == IdleRequest \in GateState /\ Proper(IdleRequest)
<1>1. None # "any" /\ None # "origin" /\ None \notin PayMethods
  BY NoneAssumption DEF KnownMethods
<1>2. IdleRequest \in GateState
  BY DEF IdleRequest, GateState, GateStage
<1> QED
  BY <1>1, <1>2 DEF IdleRequest, Proper

LEMMA GateStarts == GateInit => GateInv
BY IdleIsProper, BucketAssumption DEF GateInit, GateInv, GateTypeOK, Memory

\* A step of one request that leaves the memories alone.
LEMMA OneGateRequest ==
  ASSUME GateInv, NEW r \in GateRequest, NEW q \in GateState, Proper(q),
         gateReq' = [gateReq EXCEPT ![r] = q],
         UNCHANGED <<refused, emptied, allowed, gateNow>>
  PROVE  GateInv'
BY DEF GateInv, GateTypeOK, Memory

\* The bucket a limited request draws on.
LEMMA LimitedKey ==
  ASSUME GateInv, NEW r \in GateRequest, gateReq[r].pc = "limit", ~IsExempt(r)
  PROVE  /\ FormatKey(gateReq[r].path, gateReq[r].ip) \in BucketKey
         /\ gateReq[r].server \in Server
         /\ gateReq[r] \in GateState
BY DEF GateInv, GateTypeOK, Proper, GateState, IsExempt, FormatKey, BucketKey

\* A request as GateAnswer leaves it.
Answered(g, status) == [g EXCEPT !.pc = "answered", !.status = status]

\* Answering a request that has no CORS header yet.
LEMMA AnswerIsProper ==
  ASSUME NEW g \in GateState, Proper(g), g.pc # "answered", NEW status \in Int
  PROVE  Answered(g, status) \in GateState /\ Proper(Answered(g, status))
<1> DEFINE q == Answered(g, status)
<1>2. q \in GateState
  BY DEF Answered, GateState, GateStage
<1>3. g.cors = None /\ None # "any" /\ None # "origin"
  BY NoneAssumption DEF Proper
<1>4. q.cors = None /\ q.pc = "answered"
  BY <1>3 DEF Answered, GateState
<1>5. Proper(q)
  BY <1>3, <1>4 DEF Proper
<1> QED
  BY <1>2, <1>5

LEMMA AnswersOne ==
  ASSUME NEW r \in GateRequest, gateReq \in [GateRequest -> GateState], NEW status, GateAnswer(r, status)
  PROVE  gateReq' = [gateReq EXCEPT ![r] = Answered(gateReq[r], status)]
<1>1. gateReq' = [gateReq EXCEPT ![r].pc = "answered", ![r].status = status]
  BY DEF GateAnswer
<1> QED
  BY <1>1 DEF Answered

\* GateAnswer, for a request that has not been answered.
LEMMA GateAnswerSteps ==
  ASSUME GateInv, NEW r \in GateRequest, gateReq[r].pc # "answered", NEW status \in Int,
         GateAnswer(r, status), UNCHANGED <<refused, emptied, allowed, gateNow>>
  PROVE  GateInv'
<1>1. gateReq \in [GateRequest -> GateState] /\ gateReq[r] \in GateState /\ Proper(gateReq[r])
  BY DEF GateInv, GateTypeOK
<1>2. gateReq' = [gateReq EXCEPT ![r] = Answered(gateReq[r], status)]
  BY <1>1, AnswersOne
<1>3. Answered(gateReq[r], status) \in GateState /\ Proper(Answered(gateReq[r], status))
  BY <1>1, AnswerIsProper
<1> QED
  BY <1>2, <1>3, OneGateRequest

\* The rate limit.
LEMMA LimitSteps ==
  ASSUME GateInv, NEW r \in GateRequest,
         \/ GateArrive(r) \/ Exempt(r) \/ RefuseRemembered(r) \/ TakeToken(r) \/ LimitFails(r)
  PROVE  GateInv'
<1>0. gateReq \in [GateRequest -> GateState] /\ gateReq[r] \in GateState /\ Proper(gateReq[r])
  BY DEF GateInv, GateTypeOK
<1>1. CASE GateArrive(r)
  <2>1. PICK s \in Server, p \in Path, ip \in Address :
          gateReq' = [gateReq EXCEPT ![r] =
            [IdleRequest EXCEPT !.pc = "limit", !.server = s, !.path = p, !.ip = ip]]
    BY <1>1 DEF GateArrive
  <2> DEFINE q == [IdleRequest EXCEPT !.pc = "limit", !.server = s, !.path = p, !.ip = ip]
  <2>2. IdleRequest \in GateState
    BY IdleIsProper
  <2>3. q \in GateState
    BY <2>2 DEF GateState, GateStage
  <2>4. Proper(q)
    BY NoneAssumption DEF IdleRequest, Proper
  <2> QED
    BY <1>1, <2>1, <2>3, <2>4, OneGateRequest DEF GateArrive
<1>2. ASSUME gateReq[r].pc = "limit", gateReq' = [gateReq EXCEPT ![r].pc = "geo"],
             UNCHANGED <<refused, emptied, allowed, gateNow>>
      PROVE  GateInv'
  <2> DEFINE q == [gateReq[r] EXCEPT !.pc = "geo"]
  <2>1. q \in GateState
    BY <1>0 DEF GateState, GateStage
  <2>2. Proper(q)
    BY <1>0, <1>2, NoneAssumption DEF Proper, GateState
  <2>3. gateReq' = [gateReq EXCEPT ![r] = q]
    BY <1>0, <1>2
  <2> QED
    BY <1>2, <2>1, <2>2, <2>3, OneGateRequest
<1>3. CASE Exempt(r) \/ LimitFails(r)
  BY <1>2, <1>3 DEF Exempt, LimitFails
<1>4. CASE RefuseRemembered(r)
  BY <1>4, GateAnswerSteps DEF RefuseRemembered
<1>5. CASE TakeToken(r)
  <2> DEFINE k == FormatKey(gateReq[r].path, gateReq[r].ip)
             s == gateReq[r].server
  <2>0. k \in BucketKey /\ s \in Server /\ gateReq[r].pc = "limit"
    BY <1>5, LimitedKey DEF TakeToken
  <2>1. CASE gateReq' = [gateReq EXCEPT ![r].pc = "geo"] /\ UNCHANGED <<refused, emptied>>
    BY <1>2, <1>5, <2>0, <2>1 DEF TakeToken
  <2>2. CASE /\ refused' = Remember(<<s, k>>) /\ GateAnswer(r, 429)
             /\ emptied' = [emptied EXCEPT ![k] = gateNow]
    <3>1. refused' = [refused EXCEPT ![s][k] = gateNow + Interval]
      BY <2>2 DEF Remember
    <3>2. UNCHANGED <<allowed, gateNow>>
      BY <1>5 DEF TakeToken
    <3>3. gateNow \in Nat /\ Interval \in Nat /\ gateNow + Interval \in Nat
          /\ refused \in [Server -> [BucketKey -> Nat \cup {None}]]
          /\ emptied \in [BucketKey -> Nat \cup {None}]
      BY BucketAssumption DEF GateInv, GateTypeOK
    <3>4. /\ refused' \in [Server -> [BucketKey -> Nat \cup {None}]]
          /\ emptied' \in [BucketKey -> Nat \cup {None}]
      <4>1. refused' \in [Server -> [BucketKey -> Nat \cup {None}]]
        BY <2>0, <3>1, <3>3
      <4>2. emptied' \in [BucketKey -> Nat \cup {None}]
        BY <2>0, <2>2, <3>3
      <4> QED
        BY <4>1, <4>2
    <3>5. /\ gateReq' \in [GateRequest -> GateState]
          /\ \A u \in GateRequest : Proper(gateReq'[u])
      <4> DEFINE q == Answered(gateReq[r], 429)
      <4>1. q \in GateState /\ Proper(q)
        <5>1. gateReq[r].pc # "answered" /\ 429 \in Int
          BY <2>0
        <5> QED
          BY <1>0, <5>1, AnswerIsProper
      <4>2. gateReq' = [gateReq EXCEPT ![r] = q]
        <5>1. GateAnswer(r, 429)
          BY <2>2
        <5> QED
          BY <1>0, <5>1, AnswersOne
      <4> QED
        BY <1>0, <4>1, <4>2 DEF GateInv
    <3>6. Memory'
      <4> SUFFICES ASSUME NEW j \in BucketKey
                   PROVE  /\ emptied'[j] # None => emptied'[j] <= gateNow
                          /\ \A u \in Server : refused'[u][j] # None =>
                               emptied'[j] # None /\ refused'[u][j] <= emptied'[j] + Interval
        BY <3>2 DEF Memory
      <4>1. CASE j = k
        <5>1. emptied'[j] = gateNow /\ gateNow # None
          BY <2>0, <2>2, <3>3, <4>1, NoneAssumption
        <5>2. ASSUME NEW u \in Server, refused'[u][j] # None
              PROVE  refused'[u][j] <= gateNow + Interval
          <6>1. CASE u = s
            BY <2>0, <3>1, <3>3, <4>1, <6>1
          <6>2. CASE u # s
            <7>1. refused'[u][j] = refused[u][j]
              BY <2>0, <3>1, <3>3, <6>2
            <7>2. /\ emptied[j] # None /\ emptied[j] <= gateNow
                  /\ refused[u][j] <= emptied[j] + Interval
              BY <5>2, <7>1 DEF GateInv, Memory
            <7>3. emptied[j] \in Nat /\ refused[u][j] \in Nat
              BY <3>3, <5>2, <7>1, <7>2
            <7> QED
              BY <3>3, <7>1, <7>2, <7>3
          <6> QED
            BY <6>1, <6>2
        <5> QED
          BY <3>3, <5>1, <5>2
      <4>2. CASE j # k
        <5>1. emptied'[j] = emptied[j]
          BY <2>0, <2>2, <3>3, <4>2
        <5>2. ASSUME NEW u \in Server
              PROVE  refused'[u][j] = refused[u][j]
          <6>1. refused'[u] = IF u = s THEN [refused[s] EXCEPT ![k] = gateNow + Interval] ELSE refused[u]
            BY <2>0, <3>1, <3>3
          <6>2. refused[s] \in [BucketKey -> Nat \cup {None}]
            BY <2>0, <3>3
          <6> HIDE DEF k, s
          <6> QED
            BY <4>2, <6>1, <6>2
        <5> QED
          BY <5>1, <5>2 DEF GateInv, Memory
      <4> QED
        BY <4>1, <4>2
    <3> QED
      BY <3>2, <3>4, <3>5, <3>6 DEF GateInv, GateTypeOK
  <2> QED
    BY <1>5, <2>1, <2>2 DEF TakeToken, FormatKey
<1> QED
  BY <1>1, <1>3, <1>4, <1>5

\* The statuses of errors are numbers.
LEMMA RestStatusIsNumber == \A e \in RestErrors : RestStatus(e) \in Int
<1>1. /\ \A e \in DOMAIN RequestStatus : RequestStatus[e] \in Int
      /\ \A e \in DOMAIN NameStatus : NameStatus[e] \in Int
      /\ \A e \in DOMAIN PermissionStatus : PermissionStatus[e] \in Int
      /\ \A e \in DOMAIN ProviderStatus : ProviderStatus[e] \in Int
  BY DEF RequestStatus, NameStatus, PermissionStatus, ProviderStatus
<1>2. /\ "other" \notin DOMAIN RequestStatus /\ "other" \notin DOMAIN NameStatus
      /\ "other" \notin DOMAIN PermissionStatus /\ "other" \notin DOMAIN ProviderStatus
  BY DEF RequestStatus, NameStatus, PermissionStatus, ProviderStatus
<1> QED
  BY <1>1, <1>2 DEF RestErrors, RestStatus

\* The paths other than the dispatcher's.
LEMMA RouteSteps ==
  ASSUME GateInv, NEW r \in GateRequest, GeoBlock(r) \/ RestAnswer(r) \/ GateEnd(r)
  PROVE  GateInv'
<1> USE NoneAssumption
<1>0. gateReq \in [GateRequest -> GateState] /\ gateReq[r] \in GateState /\ Proper(gateReq[r])
  BY DEF GateInv, GateTypeOK
<1>1. CASE GeoBlock(r)
  <2>0. UNCHANGED <<refused, emptied, allowed, gateNow>> /\ gateReq[r].pc = "geo"
    BY <1>1 DEF GeoBlock
  <2>1. CASE GateAnswer(r, 401)
    BY <2>0, <2>1, GateAnswerSteps
  <2>2. CASE gateReq' = [gateReq EXCEPT ![r].pc = "rest"]
    <3> DEFINE q == [gateReq[r] EXCEPT !.pc = "rest"]
    <3>1. q \in GateState /\ gateReq' = [gateReq EXCEPT ![r] = q]
      BY <1>0, <2>2 DEF GateState, GateStage
    <3>2. Proper(q)
      BY <1>0, <2>0 DEF Proper, GateState
    <3> QED
      BY <2>0, <3>1, <3>2, OneGateRequest
  <2>3. CASE \E m \in KnownMethods \cup {"unknown", "preflight"}, o \in Origin \cup {None} :
               gateReq' = [gateReq EXCEPT ![r].pc = "dispatch", ![r].method = m, ![r].origin = o]
    <3>1. PICK m \in GateMethod, o \in Origin \cup {None} :
            gateReq' = [gateReq EXCEPT ![r].pc = "dispatch", ![r].method = m, ![r].origin = o]
      BY <2>3 DEF GateMethod
    <3> DEFINE q == [gateReq[r] EXCEPT !.pc = "dispatch", !.method = m, !.origin = o]
    <3>2. gateReq' = [gateReq EXCEPT ![r] = q]
      BY <3>1
    <3>3. q \in GateState
      BY <1>0 DEF GateState, GateStage
    <3>4. Proper(q)
      BY <1>0, <2>0 DEF Proper, GateState
    <3> QED
      BY <2>0, <3>2, <3>3, <3>4, OneGateRequest
  <2> QED
    BY <1>1, <2>1, <2>2, <2>3 DEF GeoBlock
<1>2. CASE RestAnswer(r)
  <2>1. PICK status \in {200} \cup {RestStatus(e) : e \in RestErrors} :
          gateReq' = [gateReq EXCEPT ![r].pc = "answered", ![r].status = status, ![r].cors = "any"]
    BY <1>2 DEF RestAnswer
  <2> DEFINE q == [gateReq[r] EXCEPT !.pc = "answered", !.status = status, !.cors = "any"]
  <2>2. status \in Int
    BY <2>1, RestStatusIsNumber
  <2>3. q \in GateState
    BY <1>0, <2>2 DEF GateState, GateStage
  <2>6. gateReq' = [gateReq EXCEPT ![r] = q]
    BY <2>1
  <2>4. q.method = None /\ q.cors = "any" /\ q.pc = "answered"
    BY <1>0, <1>2 DEF RestAnswer, Proper, GateState
  <2>5. Proper(q)
    BY <2>4 DEF Proper, KnownMethods
  <2> QED
    BY <1>2, <2>3, <2>5, <2>6, OneGateRequest DEF RestAnswer
<1>3. CASE GateEnd(r)
  BY <1>3, IdleIsProper, OneGateRequest DEF GateEnd
<1> QED
  BY <1>1, <1>2, <1>3

\* So are the codes of the errors of methods.
LEMMA ErrorCodeIsNumber ==
  ASSUME NEW m \in GateMethod, m # "unknown", m # "preflight",
         NEW kind \in {"validation", "internal"}
  PROVE  ErrorCode(m, kind) \in Int
BY DEF GateMethod, KnownMethods, PayMethods, PosMethods, WalletMethods, ErrorCode, PosCodes

\* An answered request, field by field.
LEMMA AnsweredState ==
  ASSUME NEW g \in GateState, NEW cors \in {"any", "origin", None}
  PROVE  /\ \A status \in Int :
              [g EXCEPT !.pc = "answered", !.status = status, !.cors = cors] \in GateState
         /\ \A seen \in SUBSET OriginLists :
              [g EXCEPT !.pc = "answered", !.cors = cors, !.seen = seen] \in GateState
<1>1. [g EXCEPT !.pc = "answered"] \in GateState
  BY DEF GateState, GateStage
<1>2. ASSUME NEW h \in GateState PROVE [h EXCEPT !.cors = cors] \in GateState
  BY DEF GateState
<1>3. ASSUME NEW h \in GateState, NEW seen \in SUBSET OriginLists
      PROVE  [h EXCEPT !.seen = seen] \in GateState
  BY DEF GateState
<1>4. ASSUME NEW h \in GateState, NEW status \in Int PROVE [h EXCEPT !.status = status] \in GateState
  BY DEF GateState
<1>5. ASSUME NEW status
      PROVE  [g EXCEPT !.pc = "answered", !.status = status, !.cors = cors] =
               [[[g EXCEPT !.pc = "answered"] EXCEPT !.status = status] EXCEPT !.cors = cors]
  OBVIOUS
<1>6. ASSUME NEW seen
      PROVE  [g EXCEPT !.pc = "answered", !.cors = cors, !.seen = seen] =
               [[[g EXCEPT !.pc = "answered"] EXCEPT !.cors = cors] EXCEPT !.seen = seen]
  OBVIOUS
<1> QED
  BY <1>1, <1>2, <1>3, <1>4, <1>5, <1>6

\* The dispatcher and its CORS policy.
LEMMA DispatchSteps ==
  ASSUME GateInv, NEW r \in GateRequest,
         Dispatch(r) \/ Preflight(r) \/ RejectBody(r) \/ DebugHeader(r)
  PROVE  GateInv'
<1> USE NoneAssumption
<1>0. gateReq \in [GateRequest -> GateState] /\ gateReq[r] \in GateState /\ Proper(gateReq[r])
  BY DEF GateInv, GateTypeOK
<1>1. CASE Dispatch(r)
  <2>0. UNCHANGED <<refused, emptied, allowed, gateNow>>
    BY <1>1 DEF Dispatch
  <2>1. \E status, code \in Int : Respond(r, status, code)
    <3>1. \A kind \in {"validation", "internal"} : HttpStatus(kind) \in Int
      BY DEF HttpStatus
    <3>2. gateReq[r].method \in GateMethod /\ gateReq[r].method # "preflight"
      BY <1>0, <1>1 DEF Dispatch, Proper
    <3>3. ASSUME gateReq[r].method # "unknown", NEW kind \in {"validation", "internal"}
          PROVE  ErrorCode(gateReq[r].method, kind) \in Int
      BY <3>2, <3>3, ErrorCodeIsNumber
    <3>4. \/ \E code \in {-1, -32601, -32602} : Respond(r, 400, code)
          \/ Respond(r, 200, 0)
          \/ /\ gateReq[r].method # "unknown"
             /\ \E kind \in {"validation", "internal"} :
                  Respond(r, HttpStatus(kind), ErrorCode(gateReq[r].method, kind))
      BY <1>1 DEF Dispatch
    <3>5. CASE \E code \in {-1, -32601, -32602} : Respond(r, 400, code)
      BY <3>5
    <3>6. CASE Respond(r, 200, 0)
      BY <3>6
    <3>7. CASE /\ gateReq[r].method # "unknown"
               /\ \E kind \in {"validation", "internal"} :
                    Respond(r, HttpStatus(kind), ErrorCode(gateReq[r].method, kind))
      <4>1. PICK kind \in {"validation", "internal"} :
              Respond(r, HttpStatus(kind), ErrorCode(gateReq[r].method, kind))
        BY <3>7
      <4> QED
        BY <3>1, <3>3, <3>7, <4>1
    <3> QED
      BY <3>4, <3>5, <3>6, <3>7
  <2>2. PICK status \in Int, code \in Int : Respond(r, status, code)
    BY <2>1
  <2> DEFINE q == [gateReq[r] EXCEPT !.pc = "debug", !.status = status, !.code = code]
  <2>3. q \in GateState /\ gateReq' = [gateReq EXCEPT ![r] = q]
    BY <1>0, <2>2 DEF Respond, GateState, GateStage
  <2>4. gateReq[r].cors = None
    BY <1>0, <1>1 DEF Dispatch, Proper
  <2>5. q.pc = "debug" /\ q.cors = None
    BY <1>0, <2>4 DEF GateState
  <2>6. Proper(q)
    BY <2>5 DEF Proper
  <2> QED
    BY <2>0, <2>3, <2>6, OneGateRequest
<1>2. CASE Preflight(r)
  <2> DEFINE q == [gateReq[r] EXCEPT !.pc = "answered", !.status = 204, !.cors = "any"]
  <2>0. q \in GateState
    <3>1. \A status \in Int :
            [gateReq[r] EXCEPT !.pc = "answered", !.status = status, !.cors = "any"] \in GateState
      BY <1>0, AnsweredState
    <3>2. 204 \in Int
      OBVIOUS
    <3> QED
      BY <3>1, <3>2
  <2>1. gateReq' = [gateReq EXCEPT ![r] = q]
    <3>1. gateReq' = [gateReq EXCEPT ![r].pc = "answered", ![r].status = 204, ![r].cors = "any"]
      BY <1>2 DEF Preflight
    <3> QED
      BY <1>0, <3>1
  <2>2. q.pc = "answered" /\ q.cors = "any" /\ q.method = "preflight"
    BY <1>0, <1>2 DEF Preflight, GateState
  <2>3. Proper(q)
    BY <2>2 DEF Proper, PayMethods
  <2> QED
    BY <1>2, <2>0, <2>1, <2>3, OneGateRequest DEF Preflight
<1>3. CASE RejectBody(r)
  BY <1>3, GateAnswerSteps DEF RejectBody
<1>4. CASE DebugHeader(r)
  <2> DEFINE q == [gateReq[r] EXCEPT !.pc = "cors"]
  <2>1. q \in GateState /\ gateReq' = [gateReq EXCEPT ![r] = q]
    BY <1>0, <1>4 DEF DebugHeader, GateState, GateStage
  <2>2. Proper(q)
    BY <1>0, <1>4 DEF DebugHeader, Proper, GateState
  <2> QED
    BY <1>4, <2>1, <2>2, OneGateRequest DEF DebugHeader
<1> QED
  BY <1>1, <1>2, <1>3, <1>4

\* The answer of a pay method echoes an origin the project's list of that
\* moment allows.
LEMMA CorsSteps ==
  ASSUME GateInv, NEW r \in GateRequest, ApplyCors(r)
  PROVE  GateInv'
<1> USE NoneAssumption
<1>0. /\ gateReq \in [GateRequest -> GateState] /\ gateReq[r] \in GateState /\ Proper(gateReq[r])
      /\ allowed \in OriginLists
  BY DEF GateInv, GateTypeOK
<1>1. PICK list \in {allowed, None} :
        gateReq' = [gateReq EXCEPT ![r].pc = "answered", ![r].cors = CorsHeader(r, list),
                      ![r].seen = IF list = None THEN {} ELSE {list}]
  BY DEF ApplyCors
<1> DEFINE seen == IF list = None THEN {} ELSE {list}
           q == [gateReq[r] EXCEPT !.pc = "answered", !.cors = CorsHeader(r, list), !.seen = seen]
<1>2. CorsHeader(r, list) \in {"any", "origin", None} /\ seen \in SUBSET OriginLists
  BY <1>0 DEF CorsHeader
<1>3. q \in GateState /\ gateReq' = [gateReq EXCEPT ![r] = q]
  <2>1. q \in GateState
    <3>1. \A c \in {"any", "origin", None}, z \in SUBSET OriginLists :
            [gateReq[r] EXCEPT !.pc = "answered", !.cors = c, !.seen = z] \in GateState
      BY <1>0, AnsweredState
    <3> QED
      BY <1>2, <3>1, Zenon
  <2>2. gateReq' = [gateReq EXCEPT ![r] = q]
    BY <1>0, <1>1
  <2> QED
    BY <2>1, <2>2
<1>4. /\ q.pc = "answered" /\ q.cors = CorsHeader(r, list) /\ q.seen = seen
      /\ q.method = gateReq[r].method /\ q.origin = gateReq[r].origin
  BY <1>0 DEF GateState
<1>5. ASSUME CorsHeader(r, list) = "origin"
      PROVE  /\ gateReq[r].method \in PayMethods /\ gateReq[r].origin \in Origin
             /\ \/ gateReq[r].origin.text = "http://localhost:3000"
                \/ \E l \in seen : \E e \in l : AsksFor(e, gateReq[r].origin)
  <2>1. /\ gateReq[r].method \in PayMethods /\ gateReq[r].origin # None /\ list # None
        /\ OriginAllowed(list, gateReq[r].origin)
    BY <1>5 DEF CorsHeader
  <2>2. gateReq[r].origin \in Origin /\ list \in OriginLists /\ seen = {list}
    BY <1>0, <2>1 DEF GateState
  <2>3. \A e \in list : e \in OriginEntry
    BY <2>2, BucketAssumption
  <2> QED
    BY <2>1, <2>2, <2>3, AllowedIsAsked DEF OriginAllowed
<1>6. CorsHeader(r, list) = "any" => gateReq[r].method \notin PayMethods
  BY DEF CorsHeader
<1>7. Proper(q)
  BY <1>4, <1>5, <1>6 DEF Proper
<1> QED
  BY <1>3, <1>7, OneGateRequest DEF ApplyCors

LEMMA GateNextStep == GateInv /\ [GateNext]_gateVars => GateInv'
<1> SUFFICES ASSUME GateInv, [GateNext]_gateVars PROVE GateInv'
  OBVIOUS
<1>1. ASSUME NEW r \in GateRequest, GateStep(r) PROVE GateInv'
  BY <1>1, LimitSteps, RouteSteps, DispatchSteps, CorsSteps DEF GateStep
<1>2. CASE EditOrigins
  BY <1>2 DEF EditOrigins, GateInv, GateTypeOK, Memory
<1>3. CASE GateTick
  <2>1. gateNow \in Nat /\ gateNow' = gateNow + 1
        /\ UNCHANGED <<bucket, refused, gateReq, allowed, edits, emptied>>
    BY <1>3 DEF GateTick, GateInv, GateTypeOK
  <2>2. Memory'
    BY <2>1 DEF GateInv, GateTypeOK, Memory
  <2> QED
    BY <2>1, <2>2 DEF GateInv, GateTypeOK
<1>4. CASE UNCHANGED gateVars
  BY <1>4 DEF gateVars, GateInv, GateTypeOK, Memory
<1> QED
  BY <1>1, <1>2, <1>3, <1>4 DEF GateNext

\* A request's step is its own.
LEMMA OthersAreLeftAlone ==
  ASSUME GateInv, NEW u \in GateRequest, GateStep(u), NEW r \in GateRequest, r # u
  PROVE  gateReq'[r] = gateReq[r]
<1>0. gateReq \in [GateRequest -> GateState]
  BY DEF GateInv, GateTypeOK
<1>1. CASE GateArrive(u) \/ Exempt(u) \/ RefuseRemembered(u) \/ LimitFails(u) \/ GateEnd(u)
  BY <1>0, <1>1 DEF GateArrive, Exempt, RefuseRemembered, LimitFails, GateEnd, GateAnswer
<1>2. CASE TakeToken(u)
  BY <1>0, <1>2 DEF TakeToken, GateAnswer
<1>3. CASE GeoBlock(u) \/ RestAnswer(u)
  BY <1>0, <1>3 DEF GeoBlock, RestAnswer, GateAnswer
<1>4. CASE Dispatch(u)
  BY <1>0, <1>4 DEF Dispatch, Respond
<1>5. CASE Preflight(u) \/ RejectBody(u) \/ DebugHeader(u) \/ ApplyCors(u)
  BY <1>0, <1>5 DEF Preflight, RejectBody, DebugHeader, ApplyCors, GateAnswer
<1> QED
  BY <1>1, <1>2, <1>3, <1>4, <1>5 DEF GateStep

LEMMA GateInvariant == GateSpec => []GateInv
BY GateStarts, GateNextStep, PTL DEF GateSpec

-----------------------------------------------------------------------------
(* The rate limit and CORS: theorems. *)

\* json_rpc_with_dynamic_cors: however the project's origins are edited while a
\* request is on its way, a page reads the answer of a pay method only if an
\* entry asks for its origin in every part.
THEOREM EchoedIsAllowed == GateSpec => []EchoedOnlyIfAllowed
<1>1. GateInv => EchoedOnlyIfAllowed
  BY DEF GateInv, Proper, EchoedOnlyIfAllowed
<1> QED
  BY <1>1, GateInvariant, PTL

\* token_bucket: a server that refuses from its memory does so less than an
\* interval after Redis refused the key last, whichever server asked it.
THEOREM RefusedIsEmpty == GateSpec => RefusedWhileEmpty
<1>1. ASSUME GateInv, [GateNext]_gateVars, NEW r \in GateRequest,
             gateReq[r].pc = "limit", gateReq'[r].status = 429
      PROVE  LET t == emptied'[<<gateReq[r].path, gateReq[r].ip>>]
             IN  t # None /\ gateNow < t + Interval
  <2> DEFINE k == FormatKey(gateReq[r].path, gateReq[r].ip)
             s == gateReq[r].server
  <2>0. gateReq \in [GateRequest -> GateState] /\ gateReq[r] \in GateState /\ Proper(gateReq[r])
        /\ refused \in [Server -> [BucketKey -> Nat \cup {None}]]
        /\ emptied \in [BucketKey -> Nat \cup {None}] /\ gateNow \in Nat
    BY <1>1 DEF GateInv, GateTypeOK
  <2>1. gateReq[r].status = None /\ None # 429
    BY <1>1, <2>0, NoneAssumption DEF Proper
  <2>2. gateReq'[r] # gateReq[r]
    BY <1>1, <2>1
  <2>3. PICK u \in GateRequest : GateStep(u)
    BY <1>1, <2>2 DEF GateNext, EditOrigins, GateTick, gateVars
  <2>4. u = r
    BY <1>1, <2>2, <2>3, OthersAreLeftAlone
  <2>5. RefuseRemembered(r) \/ TakeToken(r) \/ Exempt(r) \/ LimitFails(r)
    <3>1. ~GateArrive(r) /\ ~GeoBlock(r) /\ ~RestAnswer(r) /\ ~Preflight(r) /\ ~Dispatch(r)
      BY <1>1 DEF GateArrive, GeoBlock, RestAnswer, Preflight, Dispatch
    <3>2. ~RejectBody(r) /\ ~DebugHeader(r) /\ ~ApplyCors(r) /\ ~GateEnd(r)
      BY <1>1 DEF RejectBody, DebugHeader, ApplyCors, GateEnd
    <3> QED
      BY <2>3, <2>4, <3>1, <3>2 DEF GateStep
  <2>6. gateReq' # [gateReq EXCEPT ![r].pc = "geo"]
    BY <1>1, <2>0, <2>1 DEF GateState
  <2>7. CASE RefuseRemembered(r)
    <3>1. k \in BucketKey /\ s \in Server /\ Remembered(s, k) /\ emptied' = emptied
      BY <1>1, <2>7, LimitedKey DEF RefuseRemembered
    <3>2. refused[s][k] # None /\ gateNow < refused[s][k]
      BY <3>1 DEF Remembered
    <3>3. emptied[k] # None /\ refused[s][k] <= emptied[k] + Interval
      BY <1>1, <3>1, <3>2 DEF GateInv, Memory
    <3>4. refused[s][k] \in Nat /\ emptied[k] \in Nat /\ Interval \in Nat
      BY <2>0, <3>1, <3>2, <3>3, BucketAssumption
    <3> QED
      BY <2>0, <3>1, <3>2, <3>3, <3>4 DEF FormatKey
  <2>8. CASE TakeToken(r)
    <3>1. k \in BucketKey
      BY <1>1, <2>8, LimitedKey DEF TakeToken
    <3>2. emptied' = [emptied EXCEPT ![k] = gateNow]
      BY <2>6, <2>8 DEF TakeToken, FormatKey
    <3>3. emptied'[k] = gateNow /\ gateNow # None
      BY <2>0, <3>1, <3>2, NoneAssumption
    <3> QED
      BY <2>0, <3>3, BucketAssumption DEF FormatKey
  <2> QED
    BY <2>5, <2>6, <2>7, <2>8 DEF Exempt, LimitFails
<1>2. GateInv /\ [GateNext]_gateVars =>
        [\A r \in GateRequest :
           gateReq[r].pc = "limit" /\ gateReq'[r].status = 429 =>
             LET t == emptied'[<<gateReq[r].path, gateReq[r].ip>>]
             IN  t # None /\ gateNow < t + Interval]_gateVars
  BY <1>1
<1> QED
  BY <1>2, GateInvariant, PTL DEF GateSpec, RefusedWhileEmpty

=============================================================================
