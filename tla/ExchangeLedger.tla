--------------------------- MODULE ExchangeLedger ---------------------------
(***************************************************************************)
(* The exchange reconciliation ledger: the Postgres table that remembers   *)
(* every buy order a project placed at an exchange, the two request        *)
(* handlers that write it (get_exchange_url inserts a row,                 *)
(* get_exchange_buy_status updates it) and the reconciler, of which every  *)
(* running instance of the service runs one: it claims rows that are due,  *)
(* asks the exchange about each and writes the answer.                     *)
(*                                                                         *)
(* Handlers and reconcilers write rows in database transactions: BEGIN,    *)
(* the UPDATE (which takes the row lock), the analytics event, COMMIT.     *)
(* Any of these may fail, and the process may die or the request be        *)
(* dropped between any two of them.                                        *)
(*                                                                         *)
(* Timestamps are kept as ages.  An age saturates at Horizon, which is     *)
(* beyond every threshold the code compares an age with, so time is        *)
(* unbounded while the states are finitely many.  NOW() inside a           *)
(* transaction is the time of its BEGIN: what a transaction writes is as   *)
(* old as the transaction (tx_age) when it commits.                        *)
(***************************************************************************)
EXTENDS Integers, FiniteSets, ExchangeOrders

CONSTANTS
  Workers,          \* running reconcilers, one per instance of the service
  Clients,          \* concurrent requests
  Sessions,         \* session ids (fresh UUIDs, one per order)
  Preexisting,      \* sessions whose pending row is in the table at the start
  ExchangeId,       \* [Sessions -> exchange id stored in the row]
  HasProject,       \* [Sessions -> BOOLEAN]: project_id IS NOT NULL
  OrderSteps,       \* how an order may progress at its exchange: set of pairs
  MaxClaim,         \* CLAIM_BATCH_SIZE
  CheckBackoff,     \* CHECK_BACKOFF_MINUTES
  LockExpiration,   \* LOCK_EXPIRATION_MINUTES
  ExpireLockGrace,  \* the 20 minutes of expire_old_pending
  MinClaimAge,      \* MIN_CLAIM_AGE_HOURS
  ExpireAfter,      \* EXPIRE_PENDING_AFTER_HOURS
  MaxTxTime,        \* the longest a transaction stays open
  Horizon,          \* ages saturate here
  NULL              \* SQL NULL, and "nothing"

ASSUME ConstantsAssumption ==
  /\ Workers \cap Clients = {}
  /\ NULL \notin Int /\ NULL \notin Sessions
  /\ NULL \notin {"create", "succeed", "fail", "touch", "provider_failed", "expired"}
  /\ Preexisting \subseteq Sessions
  /\ HasProject \in [Sessions -> BOOLEAN]
  /\ ExchangeId \in [Sessions -> ExchangeIds \cup {"retired"}]
  /\ \A s \in Sessions \ Preexisting : HasProject[s] /\ ExchangeId[s] # "retired"
  /\ MaxClaim \in Nat \ {0}

ASSUME TimesAssumption ==
  /\ CheckBackoff \in Nat /\ LockExpiration \in Nat /\ ExpireLockGrace \in Nat
  /\ MinClaimAge \in Nat /\ ExpireAfter \in Nat /\ MaxTxTime \in Nat /\ Horizon \in Nat
  /\ CheckBackoff < LockExpiration /\ LockExpiration < ExpireLockGrace
  /\ MinClaimAge < ExpireAfter
  /\ ExpireLockGrace + MaxTxTime < Horizon /\ ExpireAfter + MaxTxTime < Horizon

VARIABLES
  ledger,     \* the committed rows: [Sessions -> Row \cup {NULL}]
  order,      \* the order at the exchange
  reported,   \* outcomes the exchange has ever reported for the session
  events,     \* analytics events emitted for the session
  url,        \* progress of the get_exchange_url request of the session
  pc,         \* where each process is
  cur,        \* the session it works on
  op,         \* the ledger write it is about to make
  tx_age,     \* age of its open transaction
  batch,      \* rows a reconciler has claimed and not finished
  claim_age,  \* how long ago it claimed them
  faulty      \* whether anything can still go wrong

vars == <<ledger, order, reported, events, url, pc, cur, op, tx_age, batch, claim_age, faulty>>

-----------------------------------------------------------------------------
Procs == Workers \cup Clients
Ages == 0..Horizon
Row == [status         : {"pending", "succeeded", "failed"},
        failure_reason : {NULL, "provider_failed", "expired"},
        created        : Ages,
        last_checked   : Ages \cup {NULL},
        completed      : BOOLEAN,
        locked         : Ages \cup {NULL}]

ASSUME NullRowAssumption == NULL \notin Row

Older(a) == IF a = NULL \/ a = Horizon THEN a ELSE a + 1

\* "ts IS NULL OR ts < NOW() - interval"
NullOrOlderThan(a, limit) == IF a = NULL THEN TRUE ELSE a > limit

\* A row that INSERT gives its defaults: insert_new
NewRow(age) == [status |-> "pending", failure_reason |-> NULL, created |-> age,
                last_checked |-> NULL, completed |-> FALSE, locked |-> NULL]

\* Mutant: the failure reason of an earlier outcome is kept.
UpdateStatusKeepsReason(row, status, reason, age) ==
  [row EXCEPT !.status = status, !.last_checked = age, !.completed = TRUE, !.locked = NULL,
              !.failure_reason = IF reason = NULL THEN @ ELSE reason]

\* update_status, as mark_succeeded and mark_failed call it: no condition on
\* the status the row has.
UpdateStatus(row, status, reason, age) ==
  [row EXCEPT !.status = status, !.failure_reason = reason, !.last_checked = age,
              !.completed = TRUE, !.locked = NULL]

\* Mutants: a touch that reopens the row, and one that keeps the lock.
TouchReopens(row, age) ==
  [row EXCEPT !.status = "pending", !.last_checked = age, !.locked = NULL]
TouchKeepsLock(row, age) == [row EXCEPT !.last_checked = age]

\* touch_non_terminal
TouchNonTerminal(row, age) == [row EXCEPT !.last_checked = age, !.locked = NULL]

\* The row the transaction of operation o leaves behind; touching a session
\* that has no row updates none.
Written(o, row, age) ==
  CASE o = "create"  -> NewRow(age)
    [] o # "create" /\ row = NULL -> NULL
    [] o = "succeed" /\ row # NULL -> UpdateStatus(row, "succeeded", NULL, age)
    [] o = "fail"    /\ row # NULL -> UpdateStatus(row, "failed", "provider_failed", age)
    [] o = "touch"   /\ row # NULL -> TouchNonTerminal(row, age)

\* The event of transactions.rs for each operation; touch_pending has none.
EventOf(o) == CASE o = "create"  -> {"started"}
                [] o = "succeed" -> {"completed"}
                [] o = "fail"    -> {"failed"}
                [] o = "touch"   -> {}

\* The write that follows an answer: Success, Failed, anything else.
OpFor(answer) == CASE answer = "success" -> "succeed"
                   [] answer = "failed"  -> "fail"
                   [] OTHER              -> "touch"

TxOpen == {"open", "locked", "emitted"}
HoldsLock(p, s) == cur[p] = s /\ pc[p] \in {"locked", "emitted"}
RowLocked(s) == \E p \in Procs : HoldsLock(p, s)

-----------------------------------------------------------------------------
Init ==
  /\ ledger = [s \in Sessions |-> IF s \in Preexisting THEN NewRow(0) ELSE NULL]
  /\ order \in [Sessions -> {"Init", "Created"}]
  /\ \A s \in Sessions : order[s] = IF ExchangeId[s] = "binance" THEN "Init" ELSE "Created"
  /\ reported = [s \in Sessions |-> {}]
  /\ events = [s \in Sessions |-> IF s \in Preexisting THEN {"started"} ELSE {}]
  /\ url = [s \in Sessions |-> IF s \in Preexisting THEN "returned" ELSE "none"]
  /\ pc = [p \in Procs |-> "idle"]
  /\ cur = [p \in Procs |-> NULL]
  /\ op = [p \in Procs |-> NULL]
  /\ tx_age = [p \in Procs |-> 0]
  /\ batch = [w \in Workers |-> {}]
  /\ claim_age = [w \in Workers |-> 0]
  /\ faulty = TRUE

-----------------------------------------------------------------------------
\* The ledger write of process p is over, committed or not: a reconciler goes
\* on with its batch, a request is answered.
Finish(p) ==
  /\ pc' = [pc EXCEPT ![p] = IF p \in Workers THEN "batch" ELSE "idle"]
  /\ cur' = [cur EXCEPT ![p] = NULL]
  /\ op' = [op EXCEPT ![p] = NULL]
  /\ tx_age' = [tx_age EXCEPT ![p] = 0]
  /\ batch' = [w \in Workers |-> IF w = p THEN batch[w] \ {cur[p]} ELSE batch[w]]

\* get_exchange_url answers with the URL only when the row was persisted.
AnswerUrl(p, answer) ==
  url' = IF op[p] = "create" THEN [url EXCEPT ![cur[p]] = answer] ELSE url

\* state.postgres.begin()
TxBegin(p) ==
  /\ pc[p] = "begin"
  /\ pc' = [pc EXCEPT ![p] = "open"]
  /\ UNCHANGED <<ledger, order, reported, events, url, cur, op, tx_age, batch, claim_age, faulty>>

\* The INSERT or UPDATE: it waits for the row lock and holds it until the
\* transaction ends.  update_status without a row to return is an error.
TxExecute(p) ==
  /\ pc[p] = "open"
  /\ op[p] \in {"create", "touch"} \/ ledger[cur[p]] # NULL
  /\ ~RowLocked(cur[p])
  /\ pc' = [pc EXCEPT ![p] = "locked"]
  /\ UNCHANGED <<ledger, order, reported, events, url, cur, op, tx_age, batch, claim_age, faulty>>

\* analytics.exchange_transaction_event, before the commit.
TxEmit(p) ==
  /\ pc[p] = "locked"
  /\ op[p] # "touch"
  /\ events' = [events EXCEPT ![cur[p]] = @ \cup EventOf(op[p])]
  /\ pc' = [pc EXCEPT ![p] = "emitted"]
  /\ UNCHANGED <<ledger, order, reported, url, cur, op, tx_age, batch, claim_age, faulty>>

\* Mutant: the commit comes before the event.
TxCommitUnannounced(p) ==
  /\ pc[p] = "locked"
  /\ ledger' = [ledger EXCEPT ![cur[p]] = Written(op[p], @, tx_age[p])]
  /\ \E answer \in {"returned", "failed"} : AnswerUrl(p, answer)
  /\ Finish(p)
  /\ UNCHANGED <<order, reported, events, claim_age, faulty>>

\* db_tx.commit(): the row is written.  The acknowledgement may be lost, and
\* then the caller reports an error although the row is there.
TxCommit(p) ==
  /\ pc[p] = IF op[p] = "touch" THEN "locked" ELSE "emitted"
  /\ ledger' = [ledger EXCEPT ![cur[p]] = Written(op[p], @, tx_age[p])]
  /\ \E answer \in {"returned", "failed"} : AnswerUrl(p, answer)
  /\ Finish(p)
  /\ UNCHANGED <<order, reported, events, claim_age, faulty>>

\* Mutant: get_exchange_url ignores that the row could not be persisted.
TxAbortIgnored(p) ==
  /\ faulty
  /\ pc[p] \in {"begin"} \cup TxOpen
  /\ AnswerUrl(p, "returned")
  /\ Finish(p)
  /\ UNCHANGED <<ledger, order, reported, events, claim_age, faulty>>

\* begin, the statement, the event or the commit returns an error: the
\* transaction is dropped, which rolls it back.  Reconciler and buy-status
\* handler ignore the error, get_exchange_url answers InternalError.
TxAbort(p) ==
  /\ faulty
  /\ pc[p] \in {"begin"} \cup TxOpen
  /\ AnswerUrl(p, "failed")
  /\ Finish(p)
  /\ UNCHANGED <<ledger, order, reported, events, claim_age, faulty>>

Start(p, s, o) ==
  /\ pc' = [pc EXCEPT ![p] = "begin"]
  /\ cur' = [cur EXCEPT ![p] = s]
  /\ op' = [op EXCEPT ![p] = o]

-----------------------------------------------------------------------------
(* Requests *)

\* get_exchange_url: a fresh session id, the order is placed at the exchange,
\* and only then the row is created; reown_test orders are not stored.
GetBuyUrl(c, s) ==
  /\ pc[c] = "idle"
  /\ url[s] = "none"
  /\ IF StorageEnabled(ExchangeId[s])
     THEN /\ Start(c, s, "create")
          /\ url' = [url EXCEPT ![s] = "buying"]
     ELSE /\ url' = [url EXCEPT ![s] = "returned"]
          /\ UNCHANGED <<pc, cur, op>>
  /\ UNCHANGED <<ledger, order, reported, events, tx_age, batch, claim_age, faulty>>

\* What exchange x answers about session s; an order placed at another exchange
\* is unknown there.  (Errors are the caller's business.)
Answer(x, s) == IF x = ExchangeId[s] THEN BuyStatus(x, order[s]) ELSE "unknown"

Report(s, answer) ==
  reported' = [reported EXCEPT ![s] = @ \cup ({answer} \cap {"success", "failed"})]

\* get_exchange_buy_status with the exchange id x the client names, which need
\* not be the one of the session.  An error of the exchange is returned without
\* a write, and so is an answer of an exchange whose orders are not stored.
GetBuyStatus(c, s, x) ==
  /\ pc[c] = "idle"
  /\ url[s] = "returned"
  /\ StorageEnabled(x)
  /\ Report(s, Answer(x, s))
  /\ Start(c, s, OpFor(Answer(x, s)))
  /\ UNCHANGED <<ledger, order, events, url, tx_age, batch, claim_age, faulty>>

-----------------------------------------------------------------------------
(* The reconciler *)

\* Mutant: the claim does not look at the lock.
DueIgnoresLock(s) ==
  /\ ledger[s] # NULL
  /\ ledger[s].status = "pending"
  /\ NullOrOlderThan(ledger[s].last_checked, CheckBackoff)
  /\ ledger[s].created > MinClaimAge
  /\ ~RowLocked(s)

\* The rows claim_due_batch may take: its WHERE clause, minus the rows that
\* SKIP LOCKED passes over.
Due(s) ==
  /\ ledger[s] # NULL
  /\ ledger[s].status = "pending"
  /\ NullOrOlderThan(ledger[s].locked, LockExpiration)
  /\ NullOrOlderThan(ledger[s].last_checked, CheckBackoff)
  /\ ledger[s].created > MinClaimAge
  /\ ~RowLocked(s)

\* ORDER BY last_checked_at NULLS FIRST, created_at ASC
Before(r, t) ==
  \/ r.last_checked = NULL /\ t.last_checked # NULL
  \/ r.last_checked # NULL /\ t.last_checked # NULL /\ r.last_checked > t.last_checked
  \/ r.last_checked = t.last_checked /\ r.created > t.created

\* The batches LIMIT allows: at most MaxClaim rows, all of the due ones if there
\* are no more than that, and none that an unclaimed due row comes before.
DueBatches ==
  LET due == {s \in Sessions : Due(s)}
  IN  {b \in SUBSET due :
        /\ Cardinality(b) <= MaxClaim
        /\ \A s \in b, t \in due \ b : ~Before(ledger[t], ledger[s])
        /\ b # due => Cardinality(b) = MaxClaim}

\* One poll that finds work.  A poll that finds none, or fails, changes nothing
\* (and does not run expire_old_pending).
ClaimDueBatch(w) ==
  /\ pc[w] = "idle"
  /\ \E b \in DueBatches :
       /\ b # {}
       /\ batch' = [batch EXCEPT ![w] = b]
       /\ ledger' = [s \in Sessions |-> IF s \in b THEN [ledger[s] EXCEPT !.locked = 0]
                                                   ELSE ledger[s]]
  /\ claim_age' = [claim_age EXCEPT ![w] = 0]
  /\ pc' = [pc EXCEPT ![w] = "batch"]
  /\ UNCHANGED <<order, reported, events, url, cur, op, tx_age, faulty>>

\* Mutant: a row of an unknown exchange is failed without recognising its id.
CheckRowFailsRetired(w, s) ==
  /\ pc[w] = "batch"
  /\ s \in batch[w]
  /\ IF HasProject[s] /\ ExchangeId[s] # "retired"
     THEN Report(s, Answer(ExchangeId[s], s)) /\ Start(w, s, OpFor(Answer(ExchangeId[s], s)))
     ELSE Start(w, s, "fail") /\ UNCHANGED reported
  /\ UNCHANGED <<ledger, order, events, url, tx_age, batch, claim_age, faulty>>

\* A claimed row is looked at: a row without project is failed unasked; a row
\* of an exchange that is no longer known makes mark_failed return an error
\* before it touches the database; otherwise the exchange is asked.
CheckRow(w, s) ==
  /\ pc[w] = "batch"
  /\ s \in batch[w]
  /\ IF ExchangeId[s] = "retired"
     THEN /\ batch' = [batch EXCEPT ![w] = @ \ {s}]
          /\ UNCHANGED <<pc, cur, op, reported>>
     ELSE /\ IF HasProject[s]
             THEN /\ Report(s, Answer(ExchangeId[s], s))
                  /\ Start(w, s, OpFor(Answer(ExchangeId[s], s)))
             ELSE Start(w, s, "fail") /\ UNCHANGED reported
          /\ UNCHANGED batch
  /\ UNCHANGED <<ledger, order, events, url, tx_age, claim_age, faulty>>

\* Mutant: an exchange that does not answer fails the row.
CheckRowErrorFails(w, s) ==
  /\ pc[w] = "batch"
  /\ s \in batch[w]
  /\ ExchangeId[s] # "retired" /\ HasProject[s]
  /\ Start(w, s, "fail")
  /\ UNCHANGED <<ledger, order, reported, events, url, tx_age, batch, claim_age, faulty>>

\* The exchange does not answer the reconciler, or answers with an error: the
\* row is touched.
CheckRowError(w, s) ==
  /\ pc[w] = "batch"
  /\ s \in batch[w]
  /\ ExchangeId[s] # "retired" /\ HasProject[s]
  /\ Start(w, s, "touch")
  /\ UNCHANGED <<ledger, order, reported, events, url, tx_age, batch, claim_age, faulty>>

\* Mutant: the expiry gives a lock only as long as the claim does.
ExpirableEarly(s) ==
  /\ ledger[s] # NULL
  /\ ledger[s].status = "pending"
  /\ ledger[s].created > ExpireAfter
  /\ NullOrOlderThan(ledger[s].locked, LockExpiration)

Expirable(s) ==
  /\ ledger[s] # NULL
  /\ ledger[s].status = "pending"
  /\ ledger[s].created > ExpireAfter
  /\ NullOrOlderThan(ledger[s].locked, ExpireLockGrace)

\* Mutant: the expiry writes a status of its own.
ExpiredAsStatus(row) == [row EXCEPT !.status = "expired", !.completed = TRUE]

\* failure_reason = COALESCE(failure_reason, 'expired'); locked_at is kept.
Expired(row) ==
  [row EXCEPT !.status = "failed", !.completed = TRUE,
              !.failure_reason = IF @ = NULL THEN "expired" ELSE @]

\* The batch is finished: expire_old_pending, which waits for the locks of the
\* rows it would update.
ExpireOldPending(w) ==
  /\ pc[w] = "batch"
  /\ batch[w] = {}
  /\ \A s \in Sessions : Expirable(s) => ~RowLocked(s)
  /\ ledger' = [s \in Sessions |-> IF Expirable(s) THEN Expired(ledger[s]) ELSE ledger[s]]
  /\ pc' = [pc EXCEPT ![w] = "idle"]
  /\ claim_age' = [claim_age EXCEPT ![w] = 0]
  /\ UNCHANGED <<order, reported, events, url, cur, op, tx_age, batch, faulty>>

\* Its error is ignored.
ExpireFails(w) ==
  /\ faulty
  /\ pc[w] = "batch"
  /\ batch[w] = {}
  /\ pc' = [pc EXCEPT ![w] = "idle"]
  /\ claim_age' = [claim_age EXCEPT ![w] = 0]
  /\ UNCHANGED <<ledger, order, reported, events, url, cur, op, tx_age, batch, faulty>>

-----------------------------------------------------------------------------
(* The environment *)

\* The instance dies, or the request's connection is dropped and its future
\* with it: an open transaction is rolled back, claimed rows stay locked.
Crash(p) ==
  /\ faulty
  /\ pc[p] # "idle"
  /\ AnswerUrl(p, "failed")
  /\ pc' = [pc EXCEPT ![p] = "idle"]
  /\ cur' = [cur EXCEPT ![p] = NULL]
  /\ op' = [op EXCEPT ![p] = NULL]
  /\ tx_age' = [tx_age EXCEPT ![p] = 0]
  /\ batch' = [w \in Workers |-> IF w = p THEN {} ELSE batch[w]]
  /\ claim_age' = [w \in Workers |-> IF w = p THEN 0 ELSE claim_age[w]]
  /\ UNCHANGED <<ledger, order, reported, events, faulty>>

\* The order progresses at the exchange.
OrderStep(s) ==
  /\ url[s] # "none"
  /\ \E o \in OrderStatuses :
       /\ <<order[s], o>> \in OrderSteps
       /\ order' = [order EXCEPT ![s] = o]
  /\ UNCHANGED <<ledger, reported, events, url, pc, cur, op, tx_age, batch, claim_age, faulty>>

\* Time passes; no transaction stays open for longer than MaxTxTime.
Tick ==
  /\ \A p \in Procs : pc[p] \in TxOpen => tx_age[p] < MaxTxTime
  /\ ledger' = [s \in Sessions |->
                  IF ledger[s] = NULL THEN NULL
                  ELSE [ledger[s] EXCEPT !.created = Older(@), !.last_checked = Older(@),
                                         !.locked = Older(@)]]
  /\ tx_age' = [p \in Procs |-> IF pc[p] \in TxOpen THEN tx_age[p] + 1 ELSE tx_age[p]]
  /\ claim_age' = [w \in Workers |-> IF pc[w] = "idle" THEN 0 ELSE Older(claim_age[w])]
  /\ UNCHANGED <<order, reported, events, url, pc, cur, op, batch, faulty>>

Transaction(p) == TxBegin(p) \/ TxExecute(p) \/ TxEmit(p) \/ TxCommit(p)

Request(c) ==
  \E s \in Sessions : GetBuyUrl(c, s) \/ \E x \in ExchangeIds : GetBuyStatus(c, s, x)

Reconcile(w) ==
  \/ ClaimDueBatch(w)
  \/ \E s \in Sessions : CheckRow(w, s) \/ CheckRowError(w, s)
  \/ ExpireOldPending(w)
  \/ ExpireFails(w)

Next ==
  \/ \E p \in Procs : Transaction(p) \/ TxAbort(p) \/ Crash(p)
  \/ \E c \in Clients : Request(c)
  \/ \E w \in Workers : Reconcile(w)
  \/ \E s \in Sessions : OrderStep(s)
  \/ Tick

Spec == Init /\ [][Next]_vars

\* From some point on nothing goes wrong any more (for liveness).
Calm == faulty /\ faulty' = FALSE
        /\ UNCHANGED <<ledger, order, reported, events, url, pc, cur, op, tx_age, batch, claim_age>>

\* The next step of a reconciler when nothing goes wrong; an exchange that
\* answers with an error is not a fault, the reconciler handles it.
Progress(w) ==
  \/ Transaction(w)
  \/ ClaimDueBatch(w)
  \/ \E s \in Sessions : CheckRow(w, s) \/ CheckRowError(w, s)
  \/ ExpireOldPending(w)

\* Fairness: the runtime keeps polling the reconciler's task (poll.tick and
\* rate.tick always fire again), the clock advances, and faults do not go on
\* forever.
FairSpec ==
  /\ Init /\ [][Next \/ Calm]_vars
  /\ WF_vars(Calm)
  /\ WF_vars(Tick)
  /\ \A w \in Workers : WF_vars(Progress(w))

-----------------------------------------------------------------------------
(* Properties *)

TypeOK ==
  /\ ledger \in [Sessions -> Row \cup {NULL}]
  /\ order \in [Sessions -> OrderStatuses]
  /\ reported \in [Sessions -> SUBSET {"success", "failed"}]
  /\ events \in [Sessions -> SUBSET {"started", "completed", "failed"}]
  /\ url \in [Sessions -> {"none", "buying", "returned", "failed"}]
  /\ pc \in [Procs -> {"idle", "batch", "begin"} \cup TxOpen]
  /\ cur \in [Procs -> Sessions \cup {NULL}]
  /\ op \in [Procs -> {"create", "succeed", "fail", "touch", NULL}]
  /\ tx_age \in [Procs -> 0..MaxTxTime]
  /\ batch \in [Workers -> SUBSET Sessions]
  /\ claim_age \in [Workers -> Ages]
  /\ faulty \in BOOLEAN

\* A row's columns agree: it is completed exactly when its status is terminal,
\* and it has a failure reason exactly when it failed (update_status and
\* expire_old_pending each write only some of these columns).
RowsConsistent ==
  \A s \in Sessions : ledger[s] # NULL =>
    /\ ledger[s].completed <=> ledger[s].status # "pending"
    /\ ledger[s].failure_reason # NULL <=> ledger[s].status = "failed"

\* The outcome in a row was once the exchange's: a row is succeeded only if the
\* exchange reported a success for that session, and failed as provider_failed
\* only if it reported a failure or the row has no project to ask for.
OutcomeReported ==
  \A s \in Sessions : ledger[s] # NULL =>
    /\ ledger[s].status = "succeeded" => "success" \in reported[s]
    /\ ledger[s].failure_reason = "provider_failed" =>
         "failed" \in reported[s] \/ ~HasProject[s]

\* Analytics hears of everything in the ledger: there is no row without its
\* Started event, no succeeded row without Completed and no row failed by the
\* provider without Failed, whatever failed or died between event and commit.
EventsCoverLedger ==
  \A s \in Sessions : ledger[s] # NULL =>
    /\ "started" \in events[s]
    /\ ledger[s].status = "succeeded" => "completed" \in events[s]
    /\ ledger[s].failure_reason = "provider_failed" => "failed" \in events[s]

\* A payment URL is handed out only for an order the reconciler can find: the
\* row of a stored exchange is committed before get_exchange_url answers.
UrlHasRow ==
  \A s \in Sessions :
    url[s] = "returned" /\ StorageEnabled(ExchangeId[s]) => ledger[s] # NULL

\* Nobody reopens a decided row: no write, however late its answer was obtained
\* (a touch decided before the row was marked included), makes a terminal row
\* pending again or takes a row out of the table.
DecidedStaysDecided ==
  [][\A s \in Sessions : ledger[s] # NULL =>
       /\ ledger'[s] # NULL
       /\ ledger[s].status # "pending" => ledger'[s].status # "pending"]_vars

\* Two reconcilers may come to process the same row, because a client's touch
\* clears the lock, but never at once: a row that another reconciler still holds
\* is claimed again only if that claim is older than the check backoff, less the
\* time a transaction may stay open (NOW() is the time of BEGIN).
ClaimsSpaced ==
  [][\A w, v \in Workers : \A s \in Sessions :
       (s \in batch'[w] /\ s \notin batch[w] /\ v # w /\ s \in batch[v])
         => claim_age[v] + MaxTxTime > CheckBackoff]_vars

\* A row is expired under a reconciler that still holds it only if that claim is
\* older than the grace period or the row was checked since it was claimed.
ExpiryRespectsClaims ==
  [][\A v \in Workers : \A s \in Sessions :
       (/\ s \in batch[v] /\ ledger[s].status = "pending"
        /\ ledger'[s].failure_reason = "expired")
         => \/ claim_age[v] > ExpireLockGrace
            \/ ~NullOrOlderThan(ledger[s].last_checked, claim_age[v] + MaxTxTime)]_vars

\* A pending row whose order is at a known exchange, or that has no project, is
\* decided in the end: reconciled or expired, whatever the reconcilers' crashes
\* and failed transactions on the way.
PendingIsDecided ==
  \A s \in Sessions :
    (ledger[s] # NULL /\ ledger[s].status = "pending" /\ ExchangeId[s] # "retired")
      ~> (ledger[s] # NULL /\ ledger[s].status # "pending")
=============================================================================
