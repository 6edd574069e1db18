------------------------ MODULE ExchangeLedgerProofs ------------------------
(***************************************************************************)
(* Proofs about the pay exchanges: the reconciliation ledger, for any      *)
(* number of reconcilers, requests and sessions and any thresholds that    *)
(* satisfy TimesAssumption; and, at the end, the way to an exchange's URL. *)
(***************************************************************************)
EXTENDS ExchangeLedger, ExchangePayUrls, SequenceTheorems, TLAPS

USE ConstantsAssumption, TimesAssumption

-----------------------------------------------------------------------------
(* The rows the statements write are rows. *)

\* NULL is no operation and no failure reason.
LEMMA NullIsNoString ==
  /\ NULL # "create" /\ NULL # "succeed" /\ NULL # "fail" /\ NULL # "touch"
  /\ NULL # "provider_failed" /\ NULL # "expired"
BY ConstantsAssumption

\* Ageing a column keeps it a column.
LEMMA OlderType ==
  /\ 0 \in Ages
  /\ \A a \in Ages : Older(a) \in Ages
  /\ \A a \in Ages \cup {NULL} : Older(a) \in Ages \cup {NULL}
BY DEF Older, Ages

\* insert_new, update_status, touch_non_terminal and the expiry write rows; a
\* write leaves no row only where it found none.
LEMMA WrittenType ==
  ASSUME NEW o \in {"create", "succeed", "fail", "touch"}, NEW row \in Row \cup {NULL},
         NEW age \in 0..MaxTxTime
  PROVE  /\ Written(o, row, age) \in Row \cup {NULL}
         /\ row # NULL => Written(o, row, age) \in Row
         /\ o = "create" => Written(o, row, age) \in Row
PROOF
<1>1. age \in Ages
  BY DEF Ages
<1>2. NewRow(age) \in Row
  BY <1>1 DEF NewRow, Row
<1>3. ASSUME row # NULL
      PROVE  /\ UpdateStatus(row, "succeeded", NULL, age) \in Row
             /\ UpdateStatus(row, "failed", "provider_failed", age) \in Row
             /\ TouchNonTerminal(row, age) \in Row
  BY <1>1, <1>3 DEF UpdateStatus, TouchNonTerminal, Row
<1>4. CASE o = "create"
  BY <1>2, <1>4 DEF Written
<1>5. CASE o # "create" /\ row = NULL
  BY <1>5 DEF Written
<1>6. CASE o # "create" /\ row # NULL
  BY <1>3, <1>6 DEF Written
<1> QED
  BY <1>4, <1>5, <1>6

\* Failing a row as expired keeps it a row.
LEMMA ExpiredType == ASSUME NEW row \in Row PROVE Expired(row) \in Row
BY DEF Expired, Row

-----------------------------------------------------------------------------
(* Type correctness, with the shape of a process: a process that is writing    *)
(* has a session and an operation, an idle reconciler holds no rows.           *)

Ops == {"create", "succeed", "fail", "touch"}
Writing == {"begin"} \cup TxOpen

Shape ==
  /\ \A p \in Procs : pc[p] \in Writing => cur[p] \in Sessions /\ op[p] \in Ops
  /\ \A p \in Procs : pc[p] \notin Writing => op[p] = NULL
  /\ \A p \in Procs : pc[p] \notin TxOpen => tx_age[p] = 0
  /\ \A p \in Procs : pc[p] = "emitted" => op[p] # "touch"
  /\ \A w \in Workers : pc[w] = "idle" => batch[w] = {}

TypeInv == TypeOK /\ Shape

\* What follows an answer of an exchange is a touch or a mark, never a create.
LEMMA OpForType == \A a : OpFor(a) \in Ops \ {"create"}
BY DEF OpFor, Ops

\* The empty ledger is well typed.
LEMMA TypeInit == Init => TypeInv
<1> SUFFICES ASSUME Init PROVE TypeInv
  OBVIOUS
<1>1. NewRow(0) \in Row
  BY DEF NewRow, Row, Ages
<1>2. TypeOK
  BY <1>1 DEF Init, TypeOK, Ages, OrderStatuses, BinanceOrderStatus, CoinbaseOrderStatus
<1>3. Shape
  BY DEF Init, Shape, Writing, TxOpen, Procs
<1> QED
  BY <1>2, <1>3 DEF TypeInv

\* What ends a ledger write.
LEMMA FinishType ==
  ASSUME TypeInv, NEW p \in Procs, pc[p] \in Writing, Finish(p)
  PROVE  /\ pc' \in [Procs -> {"idle", "batch", "begin"} \cup TxOpen]
         /\ cur' \in [Procs -> Sessions \cup {NULL}]
         /\ op' \in [Procs -> Ops \cup {NULL}]
         /\ tx_age' \in [Procs -> 0..MaxTxTime]
         /\ batch' \in [Workers -> SUBSET Sessions]
         /\ Shape'
<1>1. /\ pc' \in [Procs -> {"idle", "batch", "begin"} \cup TxOpen]
      /\ cur' \in [Procs -> Sessions \cup {NULL}]
      /\ op' \in [Procs -> Ops \cup {NULL}]
      /\ tx_age' \in [Procs -> 0..MaxTxTime]
  BY DEF TypeInv, TypeOK, Finish, Ops
<1>2. batch' \in [Workers -> SUBSET Sessions]
  BY DEF TypeInv, TypeOK, Finish
<1>3. Shape'
  <2>1. \A q \in Procs : q # p => /\ pc'[q] = pc[q] /\ cur'[q] = cur[q] /\ op'[q] = op[q]
                                  /\ tx_age'[q] = tx_age[q]
    BY DEF TypeInv, TypeOK, Finish
  <2>2. /\ pc'[p] \in {"idle", "batch"} /\ (p \in Workers => pc'[p] = "batch")
        /\ op'[p] = NULL /\ tx_age'[p] = 0
    BY DEF TypeInv, TypeOK, Finish
  <2>3. \A w \in Workers : w # p => batch'[w] = batch[w]
    BY DEF TypeInv, TypeOK, Finish
  <2>4. \A w \in Workers : w \in Procs
    BY DEF Procs
  <2> QED
    BY <2>1, <2>2, <2>3, <2>4 DEF TypeInv, Shape, Writing, TxOpen
<1> QED
  BY <1>1, <1>2, <1>3

\* What begins one.
LEMMA StartType ==
  ASSUME TypeInv, NEW p \in Procs, pc[p] \in {"idle", "batch"}, NEW s \in Sessions,
         NEW o \in Ops, Start(p, s, o), UNCHANGED <<tx_age, batch>>
  PROVE  /\ pc' \in [Procs -> {"idle", "batch", "begin"} \cup TxOpen]
         /\ cur' \in [Procs -> Sessions \cup {NULL}]
         /\ op' \in [Procs -> Ops \cup {NULL}]
         /\ Shape'
<1>1. /\ pc' \in [Procs -> {"idle", "batch", "begin"} \cup TxOpen]
      /\ cur' \in [Procs -> Sessions \cup {NULL}]
      /\ op' \in [Procs -> Ops \cup {NULL}]
  BY DEF TypeInv, TypeOK, Start, Ops
<1>2. \A q \in Procs : q # p => pc'[q] = pc[q] /\ cur'[q] = cur[q] /\ op'[q] = op[q]
  BY DEF TypeInv, TypeOK, Start
<1>3. pc'[p] = "begin" /\ cur'[p] = s /\ op'[p] = o
  BY DEF TypeInv, TypeOK, Start
<1>4. tx_age[p] = 0
  BY DEF TypeInv, Shape, TxOpen
<1>5. \A w \in Workers : w \in Procs
  BY DEF Procs
<1> QED
  BY <1>1, <1>2, <1>3, <1>4, <1>5 DEF TypeInv, Shape, Writing, TxOpen

\* Every step keeps the types and the shape of the ledger writes under way.
LEMMA TypeStep == TypeInv /\ [Next]_vars => TypeInv'
<1> SUFFICES ASSUME TypeInv, [Next]_vars PROVE TypeInv'
  OBVIOUS
<1> USE DEF Ops
<1>1. ASSUME NEW p \in Procs, TxBegin(p) PROVE TypeInv'
  BY <1>1 DEF TxBegin, TypeInv, TypeOK, Shape, Writing, TxOpen, Procs
<1>2. ASSUME NEW p \in Procs, TxExecute(p) PROVE TypeInv'
  BY <1>2 DEF TxExecute, TypeInv, TypeOK, Shape, Writing, TxOpen, Procs
<1>3. ASSUME NEW p \in Procs, TxEmit(p) PROVE TypeInv'
  <2>1. cur[p] \in Sessions /\ op[p] \in Ops
    BY <1>3 DEF TxEmit, TypeInv, Shape, Writing, TxOpen
  <2>2. EventOf(op[p]) \subseteq {"started", "completed", "failed"}
    BY <2>1 DEF EventOf
  <2>3. events' \in [Sessions -> SUBSET {"started", "completed", "failed"}]
    BY <1>3, <2>1, <2>2 DEF TxEmit, TypeInv, TypeOK
  <2> QED
    BY <1>3, <2>1, <2>3 DEF TxEmit, TypeInv, TypeOK, Shape, Writing, TxOpen, Procs
<1>4. ASSUME NEW p \in Procs, TxCommit(p) PROVE TypeInv'
  <2>1. pc[p] \in Writing /\ cur[p] \in Sessions /\ op[p] \in Ops /\ tx_age[p] \in 0..MaxTxTime
    BY <1>4 DEF TxCommit, TypeInv, TypeOK, Shape, Writing, TxOpen
  <2>2. Written(op[p], ledger[cur[p]], tx_age[p]) \in Row \cup {NULL}
    BY <2>1, WrittenType DEF TypeInv, TypeOK
  <2>3. ledger' \in [Sessions -> Row \cup {NULL}]
    BY <1>4, <2>2 DEF TxCommit, TypeInv, TypeOK
  <2>4. url' \in [Sessions -> {"none", "buying", "returned", "failed"}]
    BY <1>4, <2>1 DEF TxCommit, AnswerUrl, TypeInv, TypeOK
  <2> QED
    BY <1>4, <2>1, <2>3, <2>4, FinishType DEF TxCommit, TypeInv, TypeOK
<1>5. ASSUME NEW p \in Procs, TxAbort(p) PROVE TypeInv'
  <2>1. pc[p] \in Writing /\ cur[p] \in Sessions
    BY <1>5 DEF TxAbort, TypeInv, Shape, Writing
  <2>2. url' \in [Sessions -> {"none", "buying", "returned", "failed"}]
    BY <1>5, <2>1 DEF TxAbort, AnswerUrl, TypeInv, TypeOK
  <2>3. Finish(p)
    BY <1>5 DEF TxAbort
  <2> QED
    BY <1>5, <2>1, <2>2, <2>3, FinishType DEF TxAbort, TypeInv, TypeOK
<1>6. ASSUME NEW p \in Procs, Crash(p) PROVE TypeInv'
  <2>1. url' \in [Sessions -> {"none", "buying", "returned", "failed"}]
    BY <1>6 DEF Crash, AnswerUrl, TypeInv, TypeOK, Shape
  <2>2. TypeOK'
    BY <1>6, <2>1 DEF Crash, TypeInv, TypeOK, Ages
  <2>3. Shape'
    BY <1>6 DEF Crash, TypeInv, TypeOK, Shape, Writing, TxOpen, Procs
  <2> QED
    BY <2>2, <2>3 DEF TypeInv
<1>7. ASSUME NEW c \in Clients, NEW s \in Sessions, GetBuyUrl(c, s) PROVE TypeInv'
  <2>1. CASE StorageEnabled(ExchangeId[s])
    <3>1. c \in Procs
      BY DEF Procs
    <3>2. pc[c] = "idle" /\ Start(c, s, "create") /\ url' = [url EXCEPT ![s] = "buying"]
      BY <1>7, <2>1 DEF GetBuyUrl
    <3>3. UNCHANGED <<ledger, order, reported, events, tx_age, batch, claim_age, faulty>>
      BY <1>7 DEF GetBuyUrl
    <3> QED
      BY <3>1, <3>2, <3>3, StartType DEF TypeInv, TypeOK
  <2>2. CASE ~StorageEnabled(ExchangeId[s])
    BY <1>7, <2>2 DEF GetBuyUrl, TypeInv, TypeOK, Shape
  <2> QED
    BY <2>1, <2>2
<1>8. ASSUME NEW c \in Clients, NEW s \in Sessions, NEW x \in ExchangeIds, GetBuyStatus(c, s, x)
      PROVE TypeInv'
  <2>1. c \in Procs
    BY DEF Procs
  <2>2. reported' \in [Sessions -> SUBSET {"success", "failed"}]
    BY <1>8 DEF GetBuyStatus, Report, TypeInv, TypeOK
  <2>3. pc[c] = "idle" /\ Start(c, s, OpFor(Answer(x, s))) /\ OpFor(Answer(x, s)) \in Ops
    BY <1>8, OpForType DEF GetBuyStatus
  <2>4. UNCHANGED <<ledger, order, events, url, tx_age, batch, claim_age, faulty>>
    BY <1>8 DEF GetBuyStatus
  <2> QED
    BY <2>1, <2>2, <2>3, <2>4, StartType DEF TypeInv, TypeOK
<1>9. ASSUME NEW w \in Workers, ClaimDueBatch(w) PROVE TypeInv'
  <2>1. PICK b \in DueBatches :
          /\ batch' = [batch EXCEPT ![w] = b]
          /\ ledger' = [s \in Sessions |-> IF s \in b THEN [ledger[s] EXCEPT !.locked = 0]
                                                      ELSE ledger[s]]
    BY <1>9 DEF ClaimDueBatch
  <2>2. b \subseteq Sessions /\ \A s \in b : ledger[s] \in Row
    BY DEF DueBatches, Due, TypeInv, TypeOK
  <2>3. \A s \in b : [ledger[s] EXCEPT !.locked = 0] \in Row
    BY <2>2 DEF Row, Ages
  <2>4. ledger' \in [Sessions -> Row \cup {NULL}]
    BY <2>1, <2>3 DEF TypeInv, TypeOK
  <2>5. batch' \in [Workers -> SUBSET Sessions]
    BY <2>1, <2>2 DEF TypeInv, TypeOK
  <2>6. TypeOK'
    <3>0. claim_age' = [claim_age EXCEPT ![w] = 0] /\ pc' = [pc EXCEPT ![w] = "batch"]
      BY <1>9 DEF ClaimDueBatch
    <3>1. claim_age' \in [Workers -> Ages] /\ pc' \in [Procs -> {"idle", "batch", "begin"} \cup TxOpen]
      BY <3>0, OlderType DEF TypeInv, TypeOK
    <3>2. UNCHANGED <<order, reported, events, url, cur, op, tx_age, faulty>>
      BY <1>9 DEF ClaimDueBatch
    <3> QED
      BY <2>4, <2>5, <3>1, <3>2 DEF TypeInv, TypeOK
  <2>7. Shape'
    BY <1>9, <2>1 DEF ClaimDueBatch, TypeInv, TypeOK, Shape, Writing, TxOpen, Procs
  <2> QED
    BY <2>6, <2>7 DEF TypeInv
<1>10. ASSUME NEW w \in Workers, NEW s \in Sessions, CheckRow(w, s) PROVE TypeInv'
  <2>1. w \in Procs /\ pc[w] = "batch"
    BY <1>10 DEF CheckRow, Procs
  <2>2. CASE ExchangeId[s] = "retired"
    BY <1>10, <2>1, <2>2 DEF CheckRow, TypeInv, TypeOK, Shape, Procs
  <2>3. CASE ExchangeId[s] # "retired"
    <3>1. PICK o \in Ops : Start(w, s, o)
      BY <1>10, <2>3, OpForType DEF CheckRow
    <3>2. reported' \in [Sessions -> SUBSET {"success", "failed"}]
      BY <1>10, <2>3 DEF CheckRow, Report, TypeInv, TypeOK
    <3>3. UNCHANGED <<ledger, order, events, url, tx_age, batch, claim_age, faulty>>
      BY <1>10, <2>3 DEF CheckRow
    <3> QED
      BY <2>1, <3>1, <3>2, <3>3, StartType DEF TypeInv, TypeOK
  <2> QED
    BY <2>2, <2>3
<1>11. ASSUME NEW w \in Workers, NEW s \in Sessions, CheckRowError(w, s) PROVE TypeInv'
  <2>1. w \in Procs /\ pc[w] = "batch" /\ Start(w, s, "touch")
    BY <1>11 DEF CheckRowError, Procs
  <2>2. UNCHANGED <<ledger, order, reported, events, url, tx_age, batch, claim_age, faulty>>
    BY <1>11 DEF CheckRowError
  <2> QED
    BY <2>1, <2>2, StartType DEF TypeInv, TypeOK
<1>12. ASSUME NEW w \in Workers, ExpireOldPending(w) PROVE TypeInv'
  <2>1. ledger' \in [Sessions -> Row \cup {NULL}]
    BY <1>12, ExpiredType DEF ExpireOldPending, Expirable, TypeInv, TypeOK
  <2>2. TypeOK'
    <3>0. claim_age' = [claim_age EXCEPT ![w] = 0] /\ pc' = [pc EXCEPT ![w] = "idle"]
      BY <1>12 DEF ExpireOldPending
    <3>1. claim_age' \in [Workers -> Ages] /\ pc' \in [Procs -> {"idle", "batch", "begin"} \cup TxOpen]
      BY <3>0, OlderType DEF TypeInv, TypeOK
    <3>2. UNCHANGED <<order, reported, events, url, cur, op, tx_age, batch, faulty>>
      BY <1>12 DEF ExpireOldPending
    <3> QED
      BY <2>1, <3>1, <3>2 DEF TypeInv, TypeOK
  <2>3. Shape'
    BY <1>12 DEF ExpireOldPending, TypeInv, TypeOK, Shape, Writing, TxOpen, Procs
  <2> QED
    BY <2>2, <2>3 DEF TypeInv
<1>13. ASSUME NEW w \in Workers, ExpireFails(w) PROVE TypeInv'
  BY <1>13 DEF ExpireFails, TypeInv, TypeOK, Ages, Shape, Writing, TxOpen, Procs
<1>14. ASSUME NEW s \in Sessions, OrderStep(s) PROVE TypeInv'
  BY <1>14 DEF OrderStep, TypeInv, TypeOK, Shape
<1>15. ASSUME Tick PROVE TypeInv'
  <2>1. ASSUME NEW r \in Row
        PROVE  [r EXCEPT !.created = Older(@), !.last_checked = Older(@), !.locked = Older(@)] \in Row
    <3>1. /\ Older(r.created) \in Ages
          /\ Older(r.last_checked) \in Ages \cup {NULL}
          /\ Older(r.locked) \in Ages \cup {NULL}
      BY OlderType DEF Row
    <3> QED
      BY <3>1 DEF Row
  <2>2. ledger' \in [Sessions -> Row \cup {NULL}]
    BY <1>15, <2>1 DEF Tick, TypeInv, TypeOK
  <2>3. tx_age' \in [Procs -> 0..MaxTxTime]
    <3>1. \A p \in Procs : pc[p] \in TxOpen => tx_age[p] < MaxTxTime
      BY <1>15 DEF Tick
    <3>2. tx_age' = [p \in Procs |-> IF pc[p] \in TxOpen THEN tx_age[p] + 1 ELSE tx_age[p]]
      BY <1>15 DEF Tick
    <3>3. \A p \in Procs : tx_age[p] \in 0..MaxTxTime
      BY DEF TypeInv, TypeOK
    <3> QED
      BY <3>1, <3>2, <3>3
  <2>4. claim_age' \in [Workers -> Ages]
    <3>1. claim_age' = [w \in Workers |-> IF pc[w] = "idle" THEN 0 ELSE Older(claim_age[w])]
      BY <1>15 DEF Tick
    <3>2. \A w \in Workers : claim_age[w] \in Ages
      BY DEF TypeInv, TypeOK
    <3> QED
      BY <3>1, <3>2, OlderType
  <2>5. TypeOK'
    BY <1>15, <2>2, <2>3, <2>4 DEF Tick, TypeInv, TypeOK
  <2>6. Shape'
    BY <1>15 DEF Tick, TypeInv, TypeOK, Shape
  <2> QED
    BY <2>5, <2>6 DEF TypeInv
<1>16. CASE UNCHANGED vars
  BY <1>16 DEF vars, TypeInv, TypeOK, Shape
<1> QED
  BY <1>1, <1>2, <1>3, <1>4, <1>5, <1>6, <1>7, <1>8, <1>9, <1>10, <1>11, <1>12, <1>13,
     <1>14, <1>15, <1>16 DEF Next, Transaction, Request, Reconcile

\* TypeOK with Shape is inductive.
LEMMA TypeInvariant == Spec => []TypeInv
BY TypeInit, TypeStep, PTL DEF Spec

\* Every variable of the ledger keeps its type, ages stay within the horizon and
\* transactions within MaxTxTime, whatever the processes do.
THEOREM LedgerTypes == Spec => []TypeOK
<1>1. TypeInv => TypeOK
  BY DEF TypeInv
<1> QED
  BY <1>1, TypeInvariant, PTL

-----------------------------------------------------------------------------
(* What the statements write, column by column. *)

\* The columns create_pending gives a row.
LEMMA NewRowColumns ==
  ASSUME NEW age, NEW row
  PROVE  /\ Written("create", row, age).status = "pending"
         /\ Written("create", row, age).failure_reason = NULL
         /\ Written("create", row, age).completed = FALSE
         /\ Written("create", row, age).last_checked = NULL
         /\ Written("create", row, age).locked = NULL
BY DEF Written, NewRow

\* What touch_non_terminal leaves of a row: its status and outcome.
LEMMA TouchedRow ==
  ASSUME NEW row \in Row, row # NULL, NEW age \in 0..MaxTxTime
  PROVE  /\ Written("touch", row, age).status = row.status
         /\ Written("touch", row, age).failure_reason = row.failure_reason
         /\ Written("touch", row, age).completed = row.completed
         /\ Written("touch", row, age).last_checked = age
<1>1. Written("touch", row, age) = TouchNonTerminal(row, age)
  BY DEF Written
<1> QED
  BY <1>1 DEF TouchNonTerminal, Row

\* What mark_succeeded leaves of a row.
LEMMA SucceededRow ==
  ASSUME NEW row \in Row, row # NULL, NEW age \in 0..MaxTxTime
  PROVE  /\ Written("succeed", row, age).status = "succeeded"
         /\ Written("succeed", row, age).failure_reason = NULL
         /\ Written("succeed", row, age).completed
         /\ Written("succeed", row, age).last_checked = age
<1>1. Written("succeed", row, age) = UpdateStatus(row, "succeeded", NULL, age)
  BY DEF Written
<1> QED
  BY <1>1 DEF UpdateStatus, Row

\* What mark_failed leaves of it.
LEMMA FailedRow ==
  ASSUME NEW row \in Row, row # NULL, NEW age \in 0..MaxTxTime
  PROVE  /\ Written("fail", row, age).status = "failed"
         /\ Written("fail", row, age).failure_reason = "provider_failed"
         /\ Written("fail", row, age).completed
         /\ Written("fail", row, age).last_checked = age
<1>1. Written("fail", row, age) = UpdateStatus(row, "failed", "provider_failed", age)
  BY DEF Written
<1> QED
  BY <1>1 DEF UpdateStatus, Row

\* What expire_old_pending leaves of a row.
LEMMA ExpiredRow ==
  ASSUME NEW row \in Row
  PROVE  /\ Expired(row).status = "failed"
         /\ Expired(row).completed = TRUE
         /\ Expired(row).failure_reason = IF row.failure_reason = NULL THEN "expired"
                                                                     ELSE row.failure_reason
BY DEF Expired, Row

\* What claim_due_batch leaves of a row.
LEMMA ClaimedRow ==
  ASSUME NEW row \in Row
  PROVE  LET r == [row EXCEPT !.locked = 0]
         IN  /\ r.status = row.status /\ r.failure_reason = row.failure_reason
             /\ r.completed = row.completed /\ r.last_checked = row.last_checked
             /\ r.locked = 0
BY DEF Row

\* What the passing of time leaves of a row: everything but its ages.
LEMMA AgedRow ==
  ASSUME NEW row \in Row
  PROVE  LET r == [row EXCEPT !.created = Older(@), !.last_checked = Older(@), !.locked = Older(@)]
         IN  /\ r.status = row.status /\ r.failure_reason = row.failure_reason
             /\ r.completed = row.completed
             /\ r.last_checked = Older(row.last_checked) /\ r.locked = Older(row.locked)
BY DEF Row

-----------------------------------------------------------------------------
(* Only a commit, a claim, an expiry and the clock change the ledger. *)

\* A step leaves the ledger alone, or it is a commit, a claim, an expiry or the clock.
LEMMA LedgerSteps ==
  ASSUME [Next]_vars
  PROVE  \/ UNCHANGED ledger
         \/ \E p \in Procs : TxCommit(p)
         \/ \E w \in Workers : ClaimDueBatch(w) \/ ExpireOldPending(w)
         \/ Tick
<1>1. ASSUME NEW p \in Procs, TxBegin(p) \/ TxExecute(p) \/ TxEmit(p) \/ TxAbort(p) \/ Crash(p)
      PROVE UNCHANGED ledger
  BY <1>1 DEF TxBegin, TxExecute, TxEmit, TxAbort, Crash
<1>2. ASSUME NEW c \in Clients, Request(c) PROVE UNCHANGED ledger
  BY <1>2 DEF Request, GetBuyUrl, GetBuyStatus
<1>3. ASSUME NEW w \in Workers, NEW s \in Sessions, CheckRow(w, s) \/ CheckRowError(w, s)
      PROVE UNCHANGED ledger
  BY <1>3 DEF CheckRow, CheckRowError
<1>4. ASSUME NEW w \in Workers, ExpireFails(w) PROVE UNCHANGED ledger
  BY <1>4 DEF ExpireFails
<1>5. ASSUME NEW s \in Sessions, OrderStep(s) PROVE UNCHANGED ledger
  BY <1>5 DEF OrderStep
<1>6. UNCHANGED vars => UNCHANGED ledger
  BY DEF vars
<1> QED
  BY <1>1, <1>2, <1>3, <1>4, <1>5, <1>6 DEF Next, Transaction, Reconcile

-----------------------------------------------------------------------------
(* A session is created once: while its URL request is under way it has no     *)
(* row, and no second request creates it.                                      *)

CreatedOnce ==
  /\ \A s \in Sessions : url[s] \in {"none", "buying"} => ledger[s] = NULL
  /\ \A p \in Procs : op[p] = "create" => url[cur[p]] = "buying"
  /\ \A p, q \in Procs : op[p] = "create" /\ op[q] = "create" /\ cur[p] = cur[q] => p = q

\* Every step keeps at most one create under way per row, and none once it is there.
LEMMA CreatedOnceStep == TypeInv /\ CreatedOnce /\ [Next]_vars => CreatedOnce'
<1> SUFFICES ASSUME TypeInv, CreatedOnce, [Next]_vars PROVE CreatedOnce'
  OBVIOUS
<1>0. \A s \in Sessions : ledger[s] = NULL \/ ledger[s] \in Row
  BY DEF TypeInv, TypeOK
<1>1. ASSUME NEW p \in Procs, TxBegin(p) \/ TxExecute(p) \/ TxEmit(p) PROVE CreatedOnce'
  BY <1>1 DEF TxBegin, TxExecute, TxEmit, CreatedOnce
<1>2. ASSUME NEW p \in Procs, pc[p] \in Writing, NEW answer \in {"returned", "failed"},
             AnswerUrl(p, answer), op' = [op EXCEPT ![p] = NULL], cur' = [cur EXCEPT ![p] = NULL],
             \A s \in Sessions :
               (s # cur[p] \/ op[p] # "create") => (ledger[s] = NULL => ledger'[s] = NULL)
      PROVE  CreatedOnce'
  <2>1. cur[p] \in Sessions /\ op[p] \in Ops
    BY <1>2 DEF TypeInv, Shape
  <2>2. \A q \in Procs : q # p => op'[q] = op[q] /\ cur'[q] = cur[q]
    BY <1>2 DEF TypeInv, TypeOK
  <2>3. op'[p] # "create"
    BY <1>2, NullIsNoString DEF TypeInv, TypeOK
  <2>4. CASE op[p] = "create"
    <3>1. \A s \in Sessions : url'[s] = IF s = cur[p] THEN answer ELSE url[s]
      BY <1>2, <2>1, <2>4 DEF AnswerUrl, TypeInv, TypeOK
    <3>2. \A q \in Procs : op'[q] = "create" => cur'[q] # cur[p] /\ cur[q] \in Sessions
      BY <2>2, <2>3, <2>4, NullIsNoString DEF CreatedOnce, TypeInv, Shape
    <3> QED
      BY <1>2, <2>2, <2>3, <2>4, <3>1, <3>2 DEF CreatedOnce
  <2>5. CASE op[p] # "create"
    <3>1. url' = url
      BY <1>2, <2>5 DEF AnswerUrl
    <3> QED
      BY <1>2, <2>2, <2>3, <2>5, <3>1 DEF CreatedOnce
  <2> QED
    BY <2>4, <2>5
<1>3. ASSUME NEW p \in Procs, TxCommit(p) PROVE CreatedOnce'
  <2>1. pc[p] \in Writing /\ cur[p] \in Sessions
    BY <1>3 DEF TxCommit, TypeInv, Shape, Writing, TxOpen
  <2>2. PICK answer \in {"returned", "failed"} : AnswerUrl(p, answer)
    BY <1>3 DEF TxCommit
  <2>3. op' = [op EXCEPT ![p] = NULL] /\ cur' = [cur EXCEPT ![p] = NULL]
    BY <1>3 DEF TxCommit, Finish
  <2>4. ASSUME NEW s \in Sessions, s # cur[p] \/ op[p] # "create", ledger[s] = NULL
        PROVE  ledger'[s] = NULL
    <3>1. ledger' = [ledger EXCEPT ![cur[p]] = Written(op[p], ledger[cur[p]], tx_age[p])]
      BY <1>3 DEF TxCommit
    <3>2. op[p] # "create" => Written(op[p], NULL, tx_age[p]) = NULL
      <4> SUFFICES ASSUME op[p] # "create" PROVE Written(op[p], NULL, tx_age[p]) = NULL
        OBVIOUS
      <4> QED
        BY DEF Written
    <3> QED
      BY <2>1, <2>4, <3>1, <3>2 DEF TypeInv, TypeOK
  <2> QED
    BY <1>2, <2>1, <2>2, <2>3, <2>4
<1>4. ASSUME NEW p \in Procs, TxAbort(p) PROVE CreatedOnce'
  <2>1. pc[p] \in Writing /\ AnswerUrl(p, "failed") /\ UNCHANGED ledger
    BY <1>4 DEF TxAbort, Writing
  <2>2. op' = [op EXCEPT ![p] = NULL] /\ cur' = [cur EXCEPT ![p] = NULL]
    BY <1>4 DEF TxAbort, Finish
  <2> QED
    BY <1>2, <2>1, <2>2
<1>5. ASSUME NEW p \in Procs, Crash(p) PROVE CreatedOnce'
  <2>1. AnswerUrl(p, "failed") /\ UNCHANGED ledger
    BY <1>5 DEF Crash
  <2>2. op' = [op EXCEPT ![p] = NULL] /\ cur' = [cur EXCEPT ![p] = NULL]
    BY <1>5 DEF Crash
  <2>3. CASE pc[p] \in Writing
    BY <1>2, <2>1, <2>2, <2>3
  <2>4. CASE pc[p] \notin Writing
    <3>1. op[p] = NULL /\ UNCHANGED url
      BY <2>1, <2>4, NullIsNoString DEF AnswerUrl, TypeInv, Shape
    <3>2. \A q \in Procs : q # p => op'[q] = op[q] /\ cur'[q] = cur[q]
      BY <2>2 DEF TypeInv, TypeOK
    <3>3. op'[p] # "create"
      BY <2>2, NullIsNoString DEF TypeInv, TypeOK
    <3> QED
      BY <2>1, <3>1, <3>2, <3>3 DEF CreatedOnce
  <2> QED
    BY <2>3, <2>4
<1>6. ASSUME NEW c \in Clients, NEW s \in Sessions, GetBuyUrl(c, s) PROVE CreatedOnce'
  <2>1. c \in Procs /\ url[s] = "none" /\ UNCHANGED ledger
    BY <1>6 DEF GetBuyUrl, Procs
  <2>2. CASE StorageEnabled(ExchangeId[s])
    <3>1. Start(c, s, "create") /\ url' = [url EXCEPT ![s] = "buying"]
      BY <1>6, <2>2 DEF GetBuyUrl
    <3>2. \A q \in Procs : q # c => op'[q] = op[q] /\ cur'[q] = cur[q]
      BY <3>1 DEF Start, TypeInv, TypeOK
    <3>3. op'[c] = "create" /\ cur'[c] = s
      BY <2>1, <3>1 DEF Start, TypeInv, TypeOK
    <3>4. \A q \in Procs : op[q] = "create" => cur[q] # s /\ cur[q] \in Sessions
      BY <2>1, NullIsNoString DEF CreatedOnce, TypeInv, Shape
    <3>5. \A r \in Sessions : url'[r] = IF r = s THEN "buying" ELSE url[r]
      BY <3>1 DEF TypeInv, TypeOK
    <3> QED
      BY <2>1, <3>2, <3>3, <3>4, <3>5 DEF CreatedOnce
  <2>3. CASE ~StorageEnabled(ExchangeId[s])
    <3>1. url' = [url EXCEPT ![s] = "returned"] /\ UNCHANGED <<op, cur>>
      BY <1>6, <2>3 DEF GetBuyUrl
    <3>2. \A q \in Procs : op[q] = "create" => cur[q] # s /\ cur[q] \in Sessions
      BY <2>1, NullIsNoString DEF CreatedOnce, TypeInv, Shape
    <3>3. \A r \in Sessions : url'[r] = IF r = s THEN "returned" ELSE url[r]
      BY <3>1 DEF TypeInv, TypeOK
    <3> QED
      BY <2>1, <3>1, <3>2, <3>3 DEF CreatedOnce
  <2> QED
    BY <2>2, <2>3
<1>7. ASSUME NEW p \in Procs, NEW s \in Sessions, NEW o \in Ops \ {"create"}, Start(p, s, o),
             UNCHANGED <<ledger, url>>
      PROVE  CreatedOnce'
  <2>1. \A q \in Procs : q # p => op'[q] = op[q] /\ cur'[q] = cur[q]
    BY <1>7 DEF Start, TypeInv, TypeOK
  <2>2. op'[p] # "create"
    BY <1>7 DEF Start, TypeInv, TypeOK
  <2> QED
    BY <1>7, <2>1, <2>2 DEF CreatedOnce
<1>8. ASSUME NEW c \in Clients, NEW s \in Sessions, NEW x \in ExchangeIds, GetBuyStatus(c, s, x)
      PROVE CreatedOnce'
  <2>1. c \in Procs /\ Start(c, s, OpFor(Answer(x, s))) /\ UNCHANGED <<ledger, url>>
    BY <1>8 DEF GetBuyStatus, Procs
  <2> QED
    BY <1>7, <2>1, OpForType
<1>9. ASSUME UNCHANGED <<op, cur, url>>,
             \A s \in Sessions : ledger[s] = NULL => ledger'[s] = NULL
      PROVE  CreatedOnce'
  BY <1>9 DEF CreatedOnce
<1>10. ASSUME NEW w \in Workers, NEW s \in Sessions, CheckRow(w, s) PROVE CreatedOnce'
  <2>1. w \in Procs /\ UNCHANGED <<ledger, url>>
    BY <1>10 DEF CheckRow, Procs
  <2>2. CASE ExchangeId[s] = "retired"
    BY <1>9, <1>10, <2>1, <2>2 DEF CheckRow
  <2>3. CASE ExchangeId[s] # "retired"
    <3>1. PICK o \in Ops \ {"create"} : Start(w, s, o)
      BY <1>10, <2>3, OpForType DEF CheckRow, Ops
    <3> QED
      BY <1>7, <2>1, <3>1
  <2> QED
    BY <2>2, <2>3
<1>11. ASSUME NEW w \in Workers, NEW s \in Sessions, CheckRowError(w, s) PROVE CreatedOnce'
  <2>1. w \in Procs /\ Start(w, s, "touch") /\ UNCHANGED <<ledger, url>>
    BY <1>11 DEF CheckRowError, Procs
  <2> QED
    BY <1>7, <2>1 DEF Ops
<1>12. ASSUME NEW w \in Workers, ClaimDueBatch(w) PROVE CreatedOnce'
  <2>1. PICK b \in DueBatches :
          ledger' = [s \in Sessions |-> IF s \in b THEN [ledger[s] EXCEPT !.locked = 0]
                                                   ELSE ledger[s]]
    BY <1>12 DEF ClaimDueBatch
  <2>2. \A s \in b : ledger[s] # NULL
    BY DEF DueBatches, Due
  <2>3. UNCHANGED <<op, cur, url>>
    BY <1>12 DEF ClaimDueBatch
  <2> QED
    BY <1>9, <2>1, <2>2, <2>3
<1>13. ASSUME NEW w \in Workers, ExpireOldPending(w) PROVE CreatedOnce'
  <2>1. UNCHANGED <<op, cur, url>>
    BY <1>13 DEF ExpireOldPending
  <2>2. \A s \in Sessions : ledger[s] = NULL => ledger'[s] = NULL
    BY <1>13 DEF ExpireOldPending, Expirable
  <2> QED
    BY <1>9, <2>1, <2>2
<1>14. ASSUME NEW w \in Workers, ExpireFails(w) PROVE CreatedOnce'
  BY <1>9, <1>14 DEF ExpireFails
<1>15. ASSUME NEW s \in Sessions, OrderStep(s) PROVE CreatedOnce'
  BY <1>9, <1>15 DEF OrderStep
<1>16. ASSUME Tick PROVE CreatedOnce'
  <2>1. \A s \in Sessions : ledger[s] = NULL => ledger'[s] = NULL
    BY <1>16 DEF Tick
  <2> QED
    BY <1>9, <1>16, <2>1 DEF Tick
<1>17. CASE UNCHANGED vars
  BY <1>9, <1>17 DEF vars
<1> QED
  BY <1>1, <1>3, <1>4, <1>5, <1>6, <1>8, <1>10, <1>11, <1>12, <1>13, <1>14, <1>15, <1>16,
     <1>17 DEF Next, Transaction, Request, Reconcile

\* No create is under way at the start.
LEMMA CreatedOnceInit == Init => CreatedOnce
<1> SUFFICES ASSUME Init PROVE CreatedOnce
  OBVIOUS
<1>1. \A s \in Sessions : url[s] \in {"none", "buying"} => ledger[s] = NULL
  BY DEF Init
<1>2. \A p \in Procs : op[p] # "create"
  BY NullIsNoString DEF Init
<1> QED
  BY <1>1, <1>2 DEF CreatedOnce

-----------------------------------------------------------------------------
(* Rows *)

\* A commit writes one row, and a created row is new.
LEMMA CommitStep ==
  ASSUME TypeInv, CreatedOnce, NEW p \in Procs, TxCommit(p)
  PROVE  /\ pc[p] \in TxOpen /\ cur[p] \in Sessions /\ op[p] \in Ops
         /\ tx_age[p] \in 0..MaxTxTime
         /\ pc[p] = IF op[p] = "touch" THEN "locked" ELSE "emitted"
         /\ \A s \in Sessions :
              ledger'[s] = IF s = cur[p] THEN Written(op[p], ledger[s], tx_age[p]) ELSE ledger[s]
         /\ op[p] = "create" => ledger[cur[p]] = NULL
<1>1. pc[p] \in TxOpen /\ pc[p] = IF op[p] = "touch" THEN "locked" ELSE "emitted"
  BY DEF TxCommit, TxOpen
<1>2. cur[p] \in Sessions /\ op[p] \in Ops /\ tx_age[p] \in 0..MaxTxTime
  BY <1>1 DEF TypeInv, TypeOK, Shape, Writing
<1>3. ledger' = [ledger EXCEPT ![cur[p]] = Written(op[p], ledger[cur[p]], tx_age[p])]
  BY DEF TxCommit
<1>4. op[p] = "create" => ledger[cur[p]] = NULL
  BY <1>2 DEF CreatedOnce
<1> QED
  BY <1>1, <1>2, <1>3, <1>4 DEF TypeInv, TypeOK

\* Every step changes a row in one of these ways.
RowStep(r, r2) ==
  \/ r2 = r
  \/ r = NULL /\ \E age \in 0..MaxTxTime : r2 = NewRow(age)
  \/ /\ r # NULL /\ r \in Row
     /\ \/ \E o \in {"succeed", "fail", "touch"}, age \in 0..MaxTxTime : r2 = Written(o, r, age)
        \/ r2 = [r EXCEPT !.locked = 0]
        \/ r.status = "pending" /\ r2 = Expired(r)
        \/ r2 = [r EXCEPT !.created = Older(@), !.last_checked = Older(@), !.locked = Older(@)]

\* What a step makes of any one row: one of the ledger statements, or its ageing.
LEMMA RowSteps ==
  ASSUME TypeInv, CreatedOnce, [Next]_vars, NEW s \in Sessions
  PROVE  RowStep(ledger[s], ledger'[s])
<1>0. ledger[s] # NULL => ledger[s] \in Row
  BY DEF TypeInv, TypeOK
<1>1. ASSUME NEW p \in Procs, TxCommit(p) PROVE RowStep(ledger[s], ledger'[s])
  <2>1. CASE s # cur[p]
    BY <1>1, <2>1, CommitStep DEF RowStep
  <2>2. CASE s = cur[p] /\ op[p] = "create"
    <3>1. ledger[s] = NULL /\ ledger'[s] = NewRow(tx_age[p]) /\ tx_age[p] \in 0..MaxTxTime
      BY <1>1, <2>2, CommitStep DEF Written
    <3> QED
      BY <3>1 DEF RowStep
  <2>3. CASE s = cur[p] /\ op[p] # "create"
    <3>1. /\ op[p] \in {"succeed", "fail", "touch"} /\ tx_age[p] \in 0..MaxTxTime
          /\ ledger'[s] = Written(op[p], ledger[s], tx_age[p])
      BY <1>1, <2>3, CommitStep DEF Ops
    <3>2. CASE ledger[s] = NULL
      <4>1. Written(op[p], NULL, tx_age[p]) = NULL
        BY <2>3 DEF Written
      <4> QED
        BY <3>1, <3>2, <4>1 DEF RowStep
    <3>3. CASE ledger[s] # NULL
      BY <1>0, <3>1, <3>3 DEF RowStep
    <3> QED
      BY <3>2, <3>3
  <2> QED
    BY <2>1, <2>2, <2>3
<1>2. ASSUME NEW w \in Workers, ClaimDueBatch(w) PROVE RowStep(ledger[s], ledger'[s])
  <2>1. PICK b \in DueBatches :
          ledger' = [t \in Sessions |-> IF t \in b THEN [ledger[t] EXCEPT !.locked = 0]
                                                   ELSE ledger[t]]
    BY <1>2 DEF ClaimDueBatch
  <2>2. s \in b => ledger[s] # NULL
    BY DEF DueBatches, Due
  <2>3. ledger'[s] = IF s \in b THEN [ledger[s] EXCEPT !.locked = 0] ELSE ledger[s]
    BY <2>1
  <2> QED
    BY <1>0, <2>2, <2>3 DEF RowStep
<1>3. ASSUME NEW w \in Workers, ExpireOldPending(w) PROVE RowStep(ledger[s], ledger'[s])
  <2>1. ledger'[s] = IF Expirable(s) THEN Expired(ledger[s]) ELSE ledger[s]
    BY <1>3 DEF ExpireOldPending
  <2>2. Expirable(s) => ledger[s] # NULL /\ ledger[s].status = "pending"
    BY DEF Expirable
  <2> QED
    BY <1>0, <2>1, <2>2 DEF RowStep
<1>4. ASSUME Tick PROVE RowStep(ledger[s], ledger'[s])
  <2>1. ledger'[s] = IF ledger[s] = NULL THEN NULL
                     ELSE [ledger[s] EXCEPT !.created = Older(@), !.last_checked = Older(@),
                                            !.locked = Older(@)]
    BY <1>4 DEF Tick
  <2> QED
    BY <1>0, <2>1 DEF RowStep
<1>5. CASE UNCHANGED ledger
  BY <1>5 DEF RowStep
<1> QED
  BY <1>1, <1>2, <1>3, <1>4, <1>5, LedgerSteps

ConsistentRow(r) ==
  /\ r.completed <=> r.status # "pending"
  /\ r.failure_reason # NULL <=> r.status = "failed"

\* Rows stay, stay decided and stay consistent.
LEMMA RowStepKeeps ==
  ASSUME NEW r, NEW r2, RowStep(r, r2), r # NULL, r2 # NULL, r \in Row, ConsistentRow(r)
  PROVE  /\ r.status # "pending" => r2.status # "pending"
         /\ ConsistentRow(r2)
<1>1. CASE r2 = r
  BY <1>1
<1>2. ASSUME NEW o \in {"succeed", "fail", "touch"}, NEW age \in 0..MaxTxTime, r2 = Written(o, r, age)
      PROVE  (r.status # "pending" => r2.status # "pending") /\ ConsistentRow(r2)
  <2>1. CASE o = "touch"
    BY <1>2, <2>1, TouchedRow DEF ConsistentRow
  <2>2. CASE o = "succeed"
    <3>1. r2.status = "succeeded" /\ r2.failure_reason = NULL /\ r2.completed
      <4>1. r2 = Written("succeed", r, age)
        BY <1>2, <2>2
      <4> QED
        BY <4>1, SucceededRow
    <3> QED
      BY <3>1 DEF ConsistentRow
  <2>3. CASE o = "fail"
    <3>1. r2.status = "failed" /\ r2.failure_reason = "provider_failed" /\ r2.completed
      <4>1. r2 = Written("fail", r, age)
        BY <1>2, <2>3
      <4> QED
        BY <4>1, FailedRow
    <3> QED
      BY <3>1, NullIsNoString DEF ConsistentRow
  <2> QED
    BY <2>1, <2>2, <2>3
<1>3. CASE r2 = [r EXCEPT !.locked = 0]
  BY <1>3, ClaimedRow DEF ConsistentRow
<1>4. CASE r.status = "pending" /\ r2 = Expired(r)
  BY <1>4, ExpiredRow, NullIsNoString DEF ConsistentRow
<1>5. CASE r2 = [r EXCEPT !.created = Older(@), !.last_checked = Older(@), !.locked = Older(@)]
  BY <1>5, AgedRow DEF ConsistentRow
<1> QED
  BY <1>1, <1>2, <1>3, <1>4, <1>5 DEF RowStep

\* A row is created pending, with no outcome.
LEMMA NewRowConsistent == \A age : ConsistentRow(NewRow(age))
BY DEF ConsistentRow, NewRow

\* No step takes a row away.
LEMMA RowStepStays ==
  ASSUME NEW r \in Row, NEW r2, RowStep(r, r2)
  PROVE  r2 # NULL
<1>1. ASSUME NEW o \in {"succeed", "fail", "touch"}, NEW age \in 0..MaxTxTime
      PROVE  Written(o, r, age) \in Row
  BY NullRowAssumption, WrittenType
<1>2. [r EXCEPT !.locked = 0] \in Row
  BY OlderType DEF Row
<1>3. Expired(r) \in Row
  BY ExpiredType
<1>4. [r EXCEPT !.created = Older(@), !.last_checked = Older(@), !.locked = Older(@)] \in Row
  <2>1. /\ Older(r.created) \in Ages
        /\ Older(r.last_checked) \in Ages \cup {NULL}
        /\ Older(r.locked) \in Ages \cup {NULL}
    BY OlderType DEF Row
  <2> QED
    BY <2>1 DEF Row
<1> QED
  BY <1>1, <1>2, <1>3, <1>4, NullRowAssumption DEF RowStep

RowInv == TypeInv /\ CreatedOnce /\ RowsConsistent

\* Every step keeps outcome and status columns in agreement.
LEMMA RowsConsistentStep == RowInv /\ [Next]_vars => RowsConsistent'
<1> SUFFICES ASSUME RowInv, [Next]_vars, NEW s \in Sessions, ledger'[s] # NULL
             PROVE  ConsistentRow(ledger'[s])
  BY DEF RowsConsistent, ConsistentRow
<1>1. RowStep(ledger[s], ledger'[s])
  BY RowSteps DEF RowInv
<1>2. CASE ledger[s] = NULL
  BY <1>1, <1>2, NewRowConsistent DEF RowStep
<1>3. CASE ledger[s] # NULL
  <2>1. ledger[s] \in Row /\ ConsistentRow(ledger[s])
    BY <1>3 DEF RowInv, TypeInv, TypeOK, RowsConsistent, ConsistentRow
  <2> QED
    BY <1>1, <1>3, <2>1, RowStepKeeps
<1> QED
  BY <1>2, <1>3

\* The row invariant holds in every reachable state.
LEMMA RowInvariant == Spec => []RowInv
<1>1. Init => RowInv
  <2> SUFFICES ASSUME Init PROVE RowsConsistent
    BY TypeInit, CreatedOnceInit DEF RowInv
  <2>1. \A s \in Sessions : ledger[s] # NULL => ledger[s] = NewRow(0)
    BY DEF Init
  <2> QED
    BY <2>1, NewRowConsistent DEF RowsConsistent, ConsistentRow
<1>2. RowInv /\ [Next]_vars => RowInv'
  BY TypeStep, CreatedOnceStep, RowsConsistentStep DEF RowInv
<1> QED
  BY <1>1, <1>2, PTL DEF Spec

\* The columns of every row agree with its status, although update_status and
\* expire_old_pending each write only some of them and update_status overwrites
\* an earlier outcome.
THEOREM LedgerRowsConsistent == Spec => []RowsConsistent
<1>1. RowInv => RowsConsistent
  BY DEF RowInv
<1> QED
  BY <1>1, RowInvariant, PTL

\* No write reopens a decided row or removes a row.
THEOREM LedgerDecided == Spec => DecidedStaysDecided
<1>1. ASSUME RowInv, [Next]_vars
      PROVE  \A s \in Sessions : ledger[s] # NULL =>
               /\ ledger'[s] # NULL
               /\ ledger[s].status # "pending" => ledger'[s].status # "pending"
  <2> SUFFICES ASSUME NEW s \in Sessions, ledger[s] # NULL
               PROVE  /\ ledger'[s] # NULL
                      /\ ledger[s].status # "pending" => ledger'[s].status # "pending"
    OBVIOUS
  <2>1. RowStep(ledger[s], ledger'[s])
    BY <1>1, RowSteps DEF RowInv
  <2>2. ledger[s] \in Row /\ ConsistentRow(ledger[s])
    BY <1>1 DEF RowInv, TypeInv, TypeOK, RowsConsistent, ConsistentRow
  <2>3. ledger'[s] # NULL
    BY <2>1, <2>2, RowStepStays
  <2> QED
    BY <2>1, <2>2, <2>3, RowStepKeeps
<1> QED
  BY <1>1, RowInvariant, PTL DEF Spec, DecidedStaysDecided

-----------------------------------------------------------------------------
(* Claims.  A row a reconciler holds is decided, or carries a lock at least as *)
(* young as the claim, or was checked after it (give or take the time a        *)
(* transaction stays open).  Neither the lock alone nor the check alone is     *)
(* preserved: a touch clears the lock, and a claim leaves the check as it was. *)

Guarded(r, age) ==
  \/ r.status # "pending"
  \/ r.locked # NULL /\ r.locked <= age
  \/ r.last_checked # NULL /\ r.last_checked <= age + MaxTxTime

HeldRows ==
  \A w \in Workers : \A s \in batch[w] : ledger[s] # NULL /\ Guarded(ledger[s], claim_age[w])

\* A row that is guarded stays so under everything but the clock.
LEMMA RowStepGuarded ==
  ASSUME NEW r \in Row, NEW r2, NEW age \in Ages, Guarded(r, age),
         \/ r2 = r
         \/ \E o \in {"succeed", "fail", "touch"}, a \in 0..MaxTxTime : r2 = Written(o, r, a)
         \/ r2 = [r EXCEPT !.locked = 0]
         \/ r2 = Expired(r)
  PROVE  Guarded(r2, age)
<1>1. CASE r2 = r
  BY <1>1
<1>2. ASSUME NEW o \in {"succeed", "fail", "touch"}, NEW a \in 0..MaxTxTime, r2 = Written(o, r, a)
      PROVE  Guarded(r2, age)
  <2>1. r2.last_checked = a
    <3>1. r # NULL
      BY NullRowAssumption
    <3>2. CASE o = "touch"
      BY <1>2, <3>1, <3>2, TouchedRow
    <3>3. CASE o = "succeed"
      BY <1>2, <3>1, <3>3, SucceededRow
    <3>4. CASE o = "fail"
      BY <1>2, <3>1, <3>4, FailedRow
    <3> QED
      BY <3>2, <3>3, <3>4
  <2>2. a # NULL /\ a <= age + MaxTxTime
    BY DEF Ages
  <2> QED
    BY <2>1, <2>2 DEF Guarded
<1>3. CASE r2 = [r EXCEPT !.locked = 0]
  <2>1. r2.locked = 0
    BY <1>3, ClaimedRow
  <2>2. 0 # NULL /\ 0 <= age
    BY DEF Ages
  <2> QED
    BY <2>1, <2>2 DEF Guarded
<1>4. CASE r2 = Expired(r)
  <2>1. r2.status = "failed"
    BY <1>4, ExpiredRow
  <2> QED
    BY <2>1 DEF Guarded
<1> QED
  BY <1>1, <1>2, <1>3, <1>4

\* The clock ages lock, check and claim alike.
LEMMA TickGuarded ==
  ASSUME NEW r \in Row, NEW age \in Ages, Guarded(r, age)
  PROVE  Guarded([r EXCEPT !.created = Older(@), !.last_checked = Older(@), !.locked = Older(@)],
                 Older(age))
<1> DEFINE r2 == [r EXCEPT !.created = Older(@), !.last_checked = Older(@), !.locked = Older(@)]
<1>1. /\ r2.status = r.status /\ r2.last_checked = Older(r.last_checked)
      /\ r2.locked = Older(r.locked)
  BY AgedRow
<1>2. r.last_checked \in Ages \cup {NULL} /\ r.locked \in Ages \cup {NULL}
  BY DEF Row
<1>4. \A a \in Ages : a # NULL /\ a <= age => Older(a) # NULL /\ Older(a) <= Older(age)
  BY DEF Older, Ages
<1>5. \A a \in Ages : a <= age + MaxTxTime => Older(a) # NULL /\ Older(a) <= Older(age) + MaxTxTime
  BY DEF Older, Ages
<1>6. CASE r.status # "pending"
  BY <1>1, <1>6 DEF Guarded
<1>7. CASE r.locked # NULL /\ r.locked <= age
  BY <1>1, <1>2, <1>4, <1>7 DEF Guarded
<1>8. CASE r.last_checked # NULL /\ r.last_checked <= age + MaxTxTime
  BY <1>1, <1>2, <1>5, <1>8 DEF Guarded
<1> QED
  BY <1>6, <1>7, <1>8 DEF Guarded

\* Every step keeps the rows a reconciler works on locked or lately checked.
LEMMA HeldRowsStep == RowInv /\ HeldRows /\ [Next]_vars => HeldRows'
<1> SUFFICES ASSUME RowInv, HeldRows, [Next]_vars PROVE HeldRows'
  OBVIOUS
<1> USE DEF RowInv
<1>0. \A w \in Workers : /\ claim_age[w] \in Ages
                         /\ batch[w] \subseteq Sessions
                         /\ \A s \in batch[w] : ledger[s] \in Row
  BY DEF TypeInv, TypeOK, HeldRows
\* A step that claims nothing and leaves the claims as old as they are.
<1>1. ASSUME \A w \in Workers : /\ batch'[w] \subseteq batch[w]
                                /\ batch'[w] # {} => claim_age'[w] = claim_age[w],
             \A s \in Sessions : ledger[s] \in Row =>
                \/ ledger'[s] = ledger[s]
                \/ \E o \in {"succeed", "fail", "touch"}, a \in 0..MaxTxTime :
                      ledger'[s] = Written(o, ledger[s], a)
                \/ ledger'[s] = [ledger[s] EXCEPT !.locked = 0]
                \/ ledger'[s] = Expired(ledger[s])
      PROVE  HeldRows'
  <2> SUFFICES ASSUME NEW w \in Workers, NEW s \in batch'[w]
               PROVE  ledger'[s] # NULL /\ Guarded(ledger'[s], claim_age'[w])
    BY DEF HeldRows
  <2>1. s \in batch[w] /\ s \in Sessions /\ ledger[s] \in Row /\ claim_age'[w] = claim_age[w]
    BY <1>0, <1>1
  <2>2. ledger'[s] # NULL
    BY <2>1, RowSteps, RowStepStays
  <2>3. Guarded(ledger[s], claim_age[w]) /\ claim_age[w] \in Ages
    BY <1>0, <2>1 DEF HeldRows
  <2>4. Guarded(ledger'[s], claim_age[w])
    BY <1>1, <2>1, <2>3, RowStepGuarded
  <2> QED
    BY <2>1, <2>2, <2>4
<1>2. ASSUME UNCHANGED <<ledger, batch, claim_age>> PROVE HeldRows'
  BY <1>2 DEF HeldRows
<1>3. ASSUME NEW p \in Procs, Finish(p)
      PROVE  \A w \in Workers : batch'[w] \subseteq batch[w]
  BY <1>3 DEF Finish
<1>4. ASSUME NEW p \in Procs, TxBegin(p) \/ TxExecute(p) \/ TxEmit(p) PROVE HeldRows'
  BY <1>2, <1>4 DEF TxBegin, TxExecute, TxEmit
<1>5. ASSUME NEW p \in Procs, TxCommit(p) PROVE HeldRows'
  <2>1. Finish(p) /\ UNCHANGED claim_age
    BY <1>5 DEF TxCommit
  <2>2. ASSUME NEW s \in Sessions, ledger[s] \in Row
        PROVE  \/ ledger'[s] = ledger[s]
               \/ \E o \in {"succeed", "fail", "touch"}, a \in 0..MaxTxTime :
                      ledger'[s] = Written(o, ledger[s], a)
    <3>1. op[p] # "create" \/ s # cur[p]
      BY <1>5, <2>2, CommitStep, NullRowAssumption
    <3> QED
      BY <1>5, <3>1, CommitStep DEF Ops
  <2> QED
    BY <1>1, <1>3, <2>1, <2>2
<1>6. ASSUME NEW p \in Procs, TxAbort(p) PROVE HeldRows'
  <2>1. Finish(p) /\ UNCHANGED <<claim_age, ledger>>
    BY <1>6 DEF TxAbort
  <2> QED
    BY <1>1, <1>3, <2>1
<1>7. ASSUME NEW p \in Procs, Crash(p) PROVE HeldRows'
  <2>1. UNCHANGED ledger
    BY <1>7 DEF Crash
  <2>2. ASSUME NEW w \in Workers
        PROVE  /\ batch'[w] \subseteq batch[w]
               /\ batch'[w] # {} => claim_age'[w] = claim_age[w]
    BY <1>7 DEF Crash
  <2> QED
    BY <1>1, <2>1, <2>2
<1>8. ASSUME NEW c \in Clients, Request(c) PROVE HeldRows'
  BY <1>2, <1>8 DEF Request, GetBuyUrl, GetBuyStatus
<1>9. ASSUME NEW v \in Workers, ClaimDueBatch(v) PROVE HeldRows'
  <2>1. PICK b \in DueBatches :
          /\ batch' = [batch EXCEPT ![v] = b]
          /\ ledger' = [s \in Sessions |-> IF s \in b THEN [ledger[s] EXCEPT !.locked = 0]
                                                      ELSE ledger[s]]
    BY <1>9 DEF ClaimDueBatch
  <2>2. \A s \in b : s \in Sessions /\ ledger[s] \in Row
    BY DEF DueBatches, Due, TypeInv, TypeOK
  <2>3. claim_age' = [claim_age EXCEPT ![v] = 0]
    BY <1>9 DEF ClaimDueBatch
  <2> SUFFICES ASSUME NEW w \in Workers, NEW s \in batch'[w]
               PROVE  ledger'[s] # NULL /\ Guarded(ledger'[s], claim_age'[w])
    BY DEF HeldRows
  <2>4. batch'[w] = IF w = v THEN b ELSE batch[w]
    BY <2>1 DEF TypeInv, TypeOK
  <2>5. s \in Sessions /\ ledger[s] \in Row
    BY <1>0, <2>2, <2>4
  <2>6. ledger'[s] # NULL
    BY <2>5, RowSteps, RowStepStays
  <2>7. ledger'[s] = IF s \in b THEN [ledger[s] EXCEPT !.locked = 0] ELSE ledger[s]
    BY <2>1, <2>5
  <2>8. claim_age'[w] = IF w = v THEN 0 ELSE claim_age[w]
    BY <2>3 DEF TypeInv, TypeOK
  <2>9. CASE s \in b
    <3>1. ledger'[s].locked = 0
      BY <2>5, <2>7, <2>9, ClaimedRow
    <3>2. 0 # NULL /\ 0 <= claim_age'[w]
      BY <1>0, <2>8 DEF Ages
    <3> QED
      BY <2>6, <3>1, <3>2 DEF Guarded
  <2>10. CASE s \notin b
    BY <2>4, <2>6, <2>7, <2>8, <2>10 DEF HeldRows
  <2> QED
    BY <2>9, <2>10
<1>10. ASSUME NEW w \in Workers, NEW s \in Sessions, CheckRow(w, s) PROVE HeldRows'
  <2>1. UNCHANGED <<ledger, claim_age>>
    BY <1>10 DEF CheckRow
  <2>2. \A v \in Workers : batch'[v] \subseteq batch[v]
    BY <1>10 DEF CheckRow, TypeInv, TypeOK
  <2> QED
    BY <1>1, <2>1, <2>2
<1>11. ASSUME NEW w \in Workers, NEW s \in Sessions, CheckRowError(w, s) PROVE HeldRows'
  BY <1>2, <1>11 DEF CheckRowError
<1>12. ASSUME NEW w \in Workers, ExpireOldPending(w) PROVE HeldRows'
  <2>1. batch[w] = {} /\ UNCHANGED batch /\ claim_age' = [claim_age EXCEPT ![w] = 0]
    BY <1>12 DEF ExpireOldPending
  <2>2. \A v \in Workers : batch'[v] # {} => claim_age'[v] = claim_age[v]
    BY <2>1 DEF TypeInv, TypeOK
  <2>3. \A s \in Sessions : ledger'[s] = ledger[s] \/ ledger'[s] = Expired(ledger[s])
    BY <1>12 DEF ExpireOldPending
  <2> QED
    BY <1>1, <2>1, <2>2, <2>3
<1>13. ASSUME NEW w \in Workers, ExpireFails(w) PROVE HeldRows'
  <2>1. batch[w] = {} /\ UNCHANGED <<batch, ledger>> /\ claim_age' = [claim_age EXCEPT ![w] = 0]
    BY <1>13 DEF ExpireFails
  <2>2. \A v \in Workers : batch'[v] # {} => claim_age'[v] = claim_age[v]
    BY <2>1 DEF TypeInv, TypeOK
  <2> QED
    BY <1>1, <2>1, <2>2
<1>14. ASSUME NEW s \in Sessions, OrderStep(s) PROVE HeldRows'
  BY <1>2, <1>14 DEF OrderStep
<1>15. ASSUME Tick PROVE HeldRows'
  <2> SUFFICES ASSUME NEW w \in Workers, NEW s \in batch'[w]
               PROVE  ledger'[s] # NULL /\ Guarded(ledger'[s], claim_age'[w])
    BY DEF HeldRows
  <2>1. UNCHANGED batch
    BY <1>15 DEF Tick
  <2>2. s \in Sessions /\ ledger[s] \in Row /\ claim_age[w] \in Ages
    BY <1>0, <2>1
  <2>3. ledger'[s] # NULL
    BY <2>2, RowSteps, RowStepStays
  <2>4. ledger'[s] = [ledger[s] EXCEPT !.created = Older(@), !.last_checked = Older(@),
                                       !.locked = Older(@)]
    BY <1>15, <2>2, NullRowAssumption DEF Tick
  <2>5. pc[w] # "idle"
    BY <2>1 DEF TypeInv, Shape
  <2>6. claim_age'[w] = Older(claim_age[w])
    BY <1>15, <2>5 DEF Tick
  <2>7. Guarded(ledger[s], claim_age[w])
    BY <2>1 DEF HeldRows
  <2>8. Guarded([ledger[s] EXCEPT !.created = Older(@), !.last_checked = Older(@),
                                  !.locked = Older(@)], Older(claim_age[w]))
    BY <2>2, <2>7, TickGuarded
  <2> QED
    BY <2>3, <2>4, <2>6, <2>8
<1>16. CASE UNCHANGED vars
  BY <1>2, <1>16 DEF vars
<1> QED
  BY <1>4, <1>5, <1>6, <1>7, <1>8, <1>9, <1>10, <1>11, <1>12, <1>13, <1>14, <1>15, <1>16
     DEF Next, Transaction, Reconcile

ClaimInv == RowInv /\ HeldRows

\* The claim invariant holds in every reachable state.
LEMMA ClaimInvariant == Spec => []ClaimInv
<1>1. Init => HeldRows
  BY DEF Init, HeldRows
<1>2. RowInv /\ HeldRows /\ [Next]_vars => HeldRows'
  BY HeldRowsStep
<1> QED
  BY <1>1, <1>2, RowInvariant, PTL DEF Spec, ClaimInv

\* A row another reconciler holds is claimed again only when the check backoff,
\* less the time a transaction may stay open, has passed since that claim: the
\* lock and the check backoff of claim_due_batch together keep two reconcilers
\* from processing a row at once, however clients touch it meanwhile.
THEOREM LedgerClaimsSpaced == Spec => ClaimsSpaced
<1>1. ASSUME ClaimInv, [Next]_vars, NEW w \in Workers, NEW v \in Workers, NEW s \in Sessions,
             s \in batch'[w], s \notin batch[w], v # w, s \in batch[v]
      PROVE  claim_age[v] + MaxTxTime > CheckBackoff
  <2>1. TypeInv /\ CreatedOnce
    BY <1>1 DEF ClaimInv, RowInv
  <2>2. ClaimDueBatch(w)
    <3>1. ASSUME NEW p \in Procs, Finish(p) PROVE FALSE
      BY <1>1, <3>1 DEF Finish
    <3>2. ASSUME NEW p \in Procs, Transaction(p) \/ TxAbort(p) PROVE FALSE
      BY <1>1, <3>1, <3>2 DEF Transaction, TxBegin, TxExecute, TxEmit, TxCommit, TxAbort
    <3>3. ASSUME NEW p \in Procs, Crash(p) PROVE FALSE
      BY <1>1, <3>3 DEF Crash
    <3>4. ASSUME NEW c \in Clients, Request(c) PROVE FALSE
      BY <1>1, <3>4 DEF Request, GetBuyUrl, GetBuyStatus
    <3>5. ASSUME NEW u \in Workers, NEW t \in Sessions, CheckRow(u, t) \/ CheckRowError(u, t)
          PROVE FALSE
      BY <1>1, <2>1, <3>5 DEF CheckRow, CheckRowError, TypeInv, TypeOK
    <3>6. ASSUME NEW u \in Workers, ExpireOldPending(u) \/ ExpireFails(u) PROVE FALSE
      BY <1>1, <3>6 DEF ExpireOldPending, ExpireFails
    <3>7. ASSUME NEW t \in Sessions, OrderStep(t) PROVE FALSE
      BY <1>1, <3>7 DEF OrderStep
    <3>8. Tick => FALSE
      BY <1>1 DEF Tick
    <3>9. UNCHANGED vars => FALSE
      BY <1>1 DEF vars
    <3>10. ASSUME NEW u \in Workers, ClaimDueBatch(u) PROVE u = w
      BY <1>1, <2>1, <3>10 DEF ClaimDueBatch, TypeInv, TypeOK
    <3> QED
      BY <1>1, <3>2, <3>3, <3>4, <3>5, <3>6, <3>7, <3>8, <3>9, <3>10 DEF Next, Reconcile
  <2>3. Due(s)
    <3>1. PICK b \in DueBatches : batch' = [batch EXCEPT ![w] = b]
      BY <2>2 DEF ClaimDueBatch
    <3>2. s \in b
      BY <1>1, <2>1, <3>1 DEF TypeInv, TypeOK
    <3> QED
      BY <3>2 DEF DueBatches
  <2>4. /\ ledger[s].status = "pending"
        /\ ledger[s].locked = NULL \/ ledger[s].locked > LockExpiration
        /\ ledger[s].last_checked = NULL \/ ledger[s].last_checked > CheckBackoff
    BY <2>3 DEF Due, NullOrOlderThan
  <2>5. Guarded(ledger[s], claim_age[v]) /\ ledger[s] # NULL
    BY <1>1 DEF ClaimInv, HeldRows
  <2>6. /\ ledger[s] \in Row /\ claim_age[v] \in Ages
    BY <2>1, <2>5 DEF TypeInv, TypeOK
  <2>7. ledger[s].locked \in Ages \cup {NULL} /\ ledger[s].last_checked \in Ages \cup {NULL}
    BY <2>6 DEF Row
  <2> QED
    BY <2>4, <2>5, <2>6, <2>7 DEF Guarded, Ages
<1>2. ASSUME ClaimInv, [Next]_vars
      PROVE  \A w, v \in Workers : \A s \in Sessions :
               (s \in batch'[w] /\ s \notin batch[w] /\ v # w /\ s \in batch[v])
                 => claim_age[v] + MaxTxTime > CheckBackoff
  BY <1>1, <1>2
<1> QED
  BY <1>2, ClaimInvariant, PTL DEF Spec, ClaimsSpaced

\* A row is expired under a reconciler that holds it only if that claim is older
\* than the grace period of expire_old_pending or the row was checked since.
THEOREM LedgerExpiryRespectsClaims == Spec => ExpiryRespectsClaims
<1>1. ASSUME ClaimInv, [Next]_vars, NEW v \in Workers, NEW s \in Sessions, s \in batch[v],
             ledger[s].status = "pending", ledger'[s].failure_reason = "expired"
      PROVE  \/ claim_age[v] > ExpireLockGrace
             \/ ~NullOrOlderThan(ledger[s].last_checked, claim_age[v] + MaxTxTime)
  <2>1. TypeInv /\ CreatedOnce /\ RowsConsistent
    BY <1>1 DEF ClaimInv, RowInv
  <2>2. ledger[s] # NULL /\ ledger[s] \in Row /\ claim_age[v] \in Ages
    BY <1>1, <2>1 DEF ClaimInv, HeldRows, TypeInv, TypeOK
  <2>3. ledger[s].failure_reason = NULL
    BY <1>1, <2>1, <2>2 DEF RowsConsistent
  <2>4. Expirable(s)
    <3>1. CASE UNCHANGED ledger
      BY <1>1, <2>3, <3>1, NullIsNoString
    <3>2. ASSUME NEW p \in Procs, TxCommit(p) PROVE FALSE
      <4>1. op[p] = "create" => s # cur[p]
        BY <2>1, <2>2, <3>2, CommitStep
      <4>2. tx_age[p] \in 0..MaxTxTime /\ op[p] \in Ops
        BY <2>1, <3>2, CommitStep
      <4>3. s = cur[p] => ledger'[s] = Written(op[p], ledger[s], tx_age[p])
        BY <2>1, <3>2, CommitStep
      <4>4. s # cur[p] => ledger'[s] = ledger[s]
        BY <2>1, <3>2, CommitStep
      <4>5. CASE s = cur[p] /\ op[p] = "touch"
        BY <1>1, <2>2, <2>3, <4>2, <4>3, <4>5, TouchedRow, NullIsNoString
      <4>6. CASE s = cur[p] /\ op[p] = "succeed"
        <5>1. ledger'[s] = Written("succeed", ledger[s], tx_age[p])
          BY <4>3, <4>6
        <5>2. Written("succeed", ledger[s], tx_age[p]).failure_reason = NULL
          BY <2>2, <4>2, SucceededRow
        <5>3. ledger'[s].failure_reason = NULL
          BY <5>1, <5>2
        <5> QED
          BY <1>1, <5>3, NullIsNoString
      <4>7. CASE s = cur[p] /\ op[p] = "fail"
        <5>1. ledger'[s] = Written("fail", ledger[s], tx_age[p])
          BY <4>3, <4>7
        <5>2. Written("fail", ledger[s], tx_age[p]).failure_reason = "provider_failed"
          BY <2>2, <4>2, FailedRow
        <5>3. ledger'[s].failure_reason = "provider_failed"
          BY <5>1, <5>2
        <5> QED
          BY <1>1, <5>3, NullIsNoString
      <4> QED
        BY <1>1, <2>3, <4>1, <4>2, <4>4, <4>5, <4>6, <4>7, NullIsNoString DEF Ops
    <3>3. ASSUME NEW w \in Workers, ClaimDueBatch(w) PROVE FALSE
      <4>1. ledger'[s] = ledger[s] \/ ledger'[s] = [ledger[s] EXCEPT !.locked = 0]
        BY <3>3 DEF ClaimDueBatch
      <4> QED
        BY <1>1, <2>2, <2>3, <4>1, ClaimedRow, NullIsNoString
    <3>4. ASSUME NEW w \in Workers, ExpireOldPending(w) PROVE Expirable(s)
      BY <1>1, <2>3, <3>4, NullIsNoString DEF ExpireOldPending
    <3>5. ASSUME Tick PROVE FALSE
      <4>1. ledger'[s] = [ledger[s] EXCEPT !.created = Older(@), !.last_checked = Older(@),
                                           !.locked = Older(@)]
        BY <2>2, <3>5 DEF Tick
      <4> QED
        BY <1>1, <2>2, <2>3, <4>1, AgedRow, NullIsNoString
    <3> QED
      BY <1>1, <3>1, <3>2, <3>3, <3>4, <3>5, LedgerSteps
  <2>5. ledger[s].locked = NULL \/ ledger[s].locked > ExpireLockGrace
    BY <2>4 DEF Expirable, NullOrOlderThan
  <2>6. Guarded(ledger[s], claim_age[v])
    BY <1>1 DEF ClaimInv, HeldRows
  <2>7. ledger[s].locked \in Ages \cup {NULL} /\ ledger[s].last_checked \in Ages \cup {NULL}
    BY <2>2 DEF Row
  <2> QED
    BY <1>1, <2>2, <2>5, <2>6, <2>7 DEF Guarded, NullOrOlderThan, Ages
<1>2. ASSUME ClaimInv, [Next]_vars
      PROVE  \A v \in Workers : \A s \in Sessions :
               (/\ s \in batch[v] /\ ledger[s].status = "pending"
                /\ ledger'[s].failure_reason = "expired")
                 => \/ claim_age[v] > ExpireLockGrace
                    \/ ~NullOrOlderThan(ledger[s].last_checked, claim_age[v] + MaxTxTime)
  BY <1>1, <1>2
<1> QED
  BY <1>2, ClaimInvariant, PTL DEF Spec, ExpiryRespectsClaims

-----------------------------------------------------------------------------
(* Where outcomes come from.  The write of an outcome and what it rests on are  *)
(* several steps apart: the answer of the exchange is recorded when the writer  *)
(* starts, the event when it has emitted, the row only when it commits, and in  *)
(* between rows are claimed, touched, expired and aged by others.               *)

\* A row that is new, newly succeeded or newly failed by the provider was written
\* by the commit of that operation: no touch, claim, expiry or ageing makes one.
LEMMA OutcomeOrigins ==
  ASSUME RowInv, [Next]_vars, NEW s \in Sessions, ledger'[s] # NULL
  PROVE  /\ \/ ledger[s] # NULL
            \/ \E p \in Procs : TxCommit(p) /\ cur[p] = s /\ op[p] = "create"
         /\ ledger'[s].status = "succeeded" =>
              \/ ledger[s] # NULL /\ ledger[s].status = "succeeded"
              \/ \E p \in Procs : TxCommit(p) /\ cur[p] = s /\ op[p] = "succeed"
         /\ ledger'[s].failure_reason = "provider_failed" =>
              \/ ledger[s] # NULL /\ ledger[s].failure_reason = "provider_failed"
              \/ \E p \in Procs : TxCommit(p) /\ cur[p] = s /\ op[p] = "fail"
<1> USE DEF RowInv
<1> DEFINE Kept == /\ ledger[s] # NULL
                   /\ ledger'[s].status = "succeeded" => ledger[s].status = "succeeded"
                   /\ ledger'[s].failure_reason = "provider_failed" =>
                        ledger[s].failure_reason = "provider_failed"
<1>0. ledger[s] # NULL => ledger[s] \in Row
  BY DEF TypeInv, TypeOK
<1>1. CASE UNCHANGED ledger
  BY <1>1
<1>2. ASSUME NEW p \in Procs, TxCommit(p)
      PROVE  Kept \/ /\ cur[p] = s
                     /\ op[p] = "create" \/ ledger[s] # NULL
                     /\ ledger'[s].status = "succeeded" =>
                          op[p] = "succeed" \/ ledger[s].status = "succeeded"
                     /\ ledger'[s].failure_reason = "provider_failed" =>
                          op[p] = "fail" \/ ledger[s].failure_reason = "provider_failed"
                     /\ op[p] = "create" =>
                          ledger'[s].status = "pending" /\ ledger'[s].failure_reason = NULL
  <2>1. tx_age[p] \in 0..MaxTxTime /\ op[p] \in Ops
    BY <1>2, CommitStep
  <2>2. s # cur[p] => ledger'[s] = ledger[s]
    BY <1>2, CommitStep
  <2>3. s = cur[p] => ledger'[s] = Written(op[p], ledger[s], tx_age[p])
    BY <1>2, CommitStep
  <2>4. CASE s # cur[p]
    BY <2>2, <2>4
  <2>5. CASE s = cur[p] /\ op[p] = "create"
    <3>1. ledger'[s] = Written("create", ledger[s], tx_age[p])
      BY <2>3, <2>5
    <3>2. /\ Written("create", ledger[s], tx_age[p]).status = "pending"
          /\ Written("create", ledger[s], tx_age[p]).failure_reason = NULL
      BY NewRowColumns
    <3>3. ledger'[s].status = "pending" /\ ledger'[s].failure_reason = NULL
      BY <3>1, <3>2
    <3> QED
      BY <2>5, <3>3, NullIsNoString
  <2>6. ASSUME s = cur[p], op[p] # "create" PROVE ledger[s] # NULL
    <3> SUFFICES ASSUME ledger[s] = NULL PROVE FALSE
      OBVIOUS
    <3>1. Written(op[p], NULL, tx_age[p]) = NULL
      BY <2>6 DEF Written
    <3> QED
      BY <2>3, <2>6, <3>1
  <2>7. CASE s = cur[p] /\ op[p] = "touch"
    <3>1. ledger'[s] = Written("touch", ledger[s], tx_age[p]) /\ ledger[s] # NULL
      BY <2>3, <2>6, <2>7
    <3> QED
      BY <1>0, <2>1, <3>1, TouchedRow
  <2>8. CASE s = cur[p] /\ op[p] = "succeed"
    <3>1. ledger'[s] = Written("succeed", ledger[s], tx_age[p]) /\ ledger[s] # NULL
      BY <2>3, <2>6, <2>8
    <3>2. Written("succeed", ledger[s], tx_age[p]).failure_reason = NULL
      BY <1>0, <2>1, <3>1, SucceededRow
    <3>3. ledger'[s].failure_reason = NULL
      BY <3>1, <3>2
    <3> QED
      BY <2>8, <3>1, <3>3, NullIsNoString
  <2>9. CASE s = cur[p] /\ op[p] = "fail"
    <3>1. ledger'[s] = Written("fail", ledger[s], tx_age[p]) /\ ledger[s] # NULL
      BY <2>3, <2>6, <2>9
    <3>2. Written("fail", ledger[s], tx_age[p]).status = "failed"
      BY <1>0, <2>1, <3>1, FailedRow
    <3>3. ledger'[s].status = "failed"
      BY <3>1, <3>2
    <3> QED
      BY <2>9, <3>1, <3>3
  <2> QED
    BY <2>1, <2>4, <2>5, <2>7, <2>8, <2>9 DEF Ops
<1>3. ASSUME NEW w \in Workers, ClaimDueBatch(w) PROVE Kept
  <2>1. PICK b \in DueBatches :
          ledger' = [t \in Sessions |-> IF t \in b THEN [ledger[t] EXCEPT !.locked = 0]
                                                   ELSE ledger[t]]
    BY <1>3 DEF ClaimDueBatch
  <2>2. s \in b => ledger[s] # NULL
    BY DEF DueBatches, Due
  <2>3. ledger'[s] = IF s \in b THEN [ledger[s] EXCEPT !.locked = 0] ELSE ledger[s]
    BY <2>1
  <2> QED
    BY <1>0, <2>2, <2>3, ClaimedRow
<1>4. ASSUME NEW w \in Workers, ExpireOldPending(w) PROVE Kept
  <2>1. ledger'[s] = IF Expirable(s) THEN Expired(ledger[s]) ELSE ledger[s]
    BY <1>4 DEF ExpireOldPending
  <2>2. CASE ~Expirable(s)
    BY <2>1, <2>2
  <2>3. CASE Expirable(s)
    <3>1. ledger[s] # NULL /\ ledger'[s] = Expired(ledger[s])
      BY <2>1, <2>3 DEF Expirable
    <3> QED
      BY <1>0, <3>1, ExpiredRow
  <2> QED
    BY <2>2, <2>3
<1>5. ASSUME Tick PROVE Kept
  <2>1. ledger[s] # NULL /\ ledger'[s] =
          [ledger[s] EXCEPT !.created = Older(@), !.last_checked = Older(@), !.locked = Older(@)]
    BY <1>5 DEF Tick
  <2> QED
    BY <1>0, <2>1, AgedRow
<1>6. ASSUME NEW p \in Procs, TxCommit(p), op[p] = "create", cur[p] = s,
             ledger'[s].status = "pending", ledger'[s].failure_reason = NULL
      PROVE  /\ ledger'[s].status # "succeeded"
             /\ ledger'[s].failure_reason # "provider_failed"
  BY <1>6, NullIsNoString
<1>7. CASE Kept
  BY <1>7
<1>8. ASSUME NEW p \in Procs, TxCommit(p), ~Kept
      PROVE  /\ \/ ledger[s] # NULL
                \/ TxCommit(p) /\ cur[p] = s /\ op[p] = "create"
             /\ ledger'[s].status = "succeeded" =>
                  \/ ledger[s] # NULL /\ ledger[s].status = "succeeded"
                  \/ TxCommit(p) /\ cur[p] = s /\ op[p] = "succeed"
             /\ ledger'[s].failure_reason = "provider_failed" =>
                  \/ ledger[s] # NULL /\ ledger[s].failure_reason = "provider_failed"
                  \/ TxCommit(p) /\ cur[p] = s /\ op[p] = "fail"
  <2> HIDE DEF Kept
  <2> QED
    BY <1>2, <1>6, <1>8
<1>9. CASE ~Kept /\ \E p \in Procs : TxCommit(p)
  BY <1>8, <1>9
<1> HIDE DEF Kept
<1> QED
  BY <1>1, <1>3, <1>4, <1>5, <1>7, <1>9, LedgerSteps

\* What a writer is about to put into a row, the exchange has reported, and what
\* it has emitted, analytics knows.
WriterReported ==
  \A p \in Procs :
    /\ op[p] = "succeed" => "success" \in reported[cur[p]]
    /\ op[p] = "fail" => "failed" \in reported[cur[p]] \/ ~HasProject[cur[p]]

WriterEmitted == \A p \in Procs : pc[p] = "emitted" => EventOf(op[p]) \subseteq events[cur[p]]

WriterInv == RowInv /\ WriterReported /\ WriterEmitted

\* Neither reports nor events are ever forgotten.
LEMMA RecordsGrow ==
  ASSUME TypeInv, [Next]_vars, NEW s \in Sessions
  PROVE  reported[s] \subseteq reported'[s] /\ events[s] \subseteq events'[s]
<1>1. ASSUME NEW t \in Sessions, NEW a, Report(t, a) PROVE reported[s] \subseteq reported'[s]
  BY <1>1 DEF Report, TypeInv, TypeOK
<1>2. ASSUME NEW p \in Procs, TxEmit(p)
      PROVE  reported[s] \subseteq reported'[s] /\ events[s] \subseteq events'[s]
  BY <1>2 DEF TxEmit, TypeInv, TypeOK
<1>3. ASSUME NEW p \in Procs, TxBegin(p) \/ TxExecute(p) \/ TxCommit(p) \/ TxAbort(p) \/ Crash(p)
      PROVE  UNCHANGED <<reported, events>>
  BY <1>3 DEF TxBegin, TxExecute, TxCommit, TxAbort, Crash
<1>4. ASSUME NEW c \in Clients, Request(c)
      PROVE  reported[s] \subseteq reported'[s] /\ UNCHANGED events
  BY <1>1, <1>4 DEF Request, GetBuyUrl, GetBuyStatus
<1>5. ASSUME NEW w \in Workers, Reconcile(w)
      PROVE  reported[s] \subseteq reported'[s] /\ UNCHANGED events
  BY <1>1, <1>5 DEF Reconcile, ClaimDueBatch, CheckRow, CheckRowError, ExpireOldPending, ExpireFails
<1>6. ASSUME NEW t \in Sessions, OrderStep(t) PROVE UNCHANGED <<reported, events>>
  BY <1>6 DEF OrderStep
<1>7. Tick \/ UNCHANGED vars => UNCHANGED <<reported, events>>
  BY DEF Tick, vars
<1> QED
  BY <1>2, <1>3, <1>4, <1>5, <1>6, <1>7 DEF Next, Transaction

\* Every step keeps the writers' grounds.  The write that follows an answer is the
\* one that answer calls for; the answer may be overtaken by others meanwhile, but
\* it stays reported.
LEMMA WriterStep == WriterInv /\ [Next]_vars => WriterReported' /\ WriterEmitted'
<1> SUFFICES ASSUME WriterInv, [Next]_vars PROVE WriterReported' /\ WriterEmitted'
  OBVIOUS
<1> USE DEF WriterInv, RowInv
<1>a. \A s \in Sessions : reported[s] \subseteq reported'[s] /\ events[s] \subseteq events'[s]
  BY RecordsGrow
<1>b. \A q \in Procs : op[q] # NULL => cur[q] \in Sessions
  BY DEF TypeInv, Shape
<1>c. \A q \in Procs : pc[q] = "emitted" => op[q] # NULL
  BY NullIsNoString DEF TypeInv, Shape, Writing, TxOpen, Ops
\* A step of one process: the others' grounds remain, its own has to be shown.
<1>1. ASSUME NEW p \in Procs,
             \A q \in Procs : q # p => pc'[q] = pc[q] /\ cur'[q] = cur[q] /\ op'[q] = op[q],
             op'[p] = "succeed" => "success" \in reported'[cur'[p]],
             op'[p] = "fail" => "failed" \in reported'[cur'[p]] \/ ~HasProject[cur'[p]],
             pc'[p] = "emitted" => EventOf(op'[p]) \subseteq events'[cur'[p]]
      PROVE  WriterReported' /\ WriterEmitted'
  <2>1. ASSUME NEW q \in Procs
        PROVE  /\ op'[q] = "succeed" => "success" \in reported'[cur'[q]]
               /\ op'[q] = "fail" => "failed" \in reported'[cur'[q]] \/ ~HasProject[cur'[q]]
    BY <1>1, <1>a, <1>b, <2>1, NullIsNoString DEF WriterReported
  <2>2. ASSUME NEW q \in Procs, pc'[q] = "emitted"
        PROVE  EventOf(op'[q]) \subseteq events'[cur'[q]]
    <3>1. CASE q = p
      BY <1>1, <2>2, <3>1
    <3>2. CASE q # p
      <4>1. pc[q] = "emitted" /\ cur'[q] = cur[q] /\ op'[q] = op[q]
        BY <1>1, <2>2, <3>2
      <4>2. EventOf(op[q]) \subseteq events[cur[q]] /\ events[cur[q]] \subseteq events'[cur[q]]
        BY <1>a, <1>b, <1>c, <4>1 DEF WriterEmitted
      <4> QED
        BY <4>1, <4>2
    <3> QED
      BY <3>1, <3>2
  <2> QED
    BY <2>1, <2>2 DEF WriterReported, WriterEmitted
\* A process whose write is over has nothing to ground.
<1>2. ASSUME NEW p \in Procs, op' = [op EXCEPT ![p] = NULL], cur' = [cur EXCEPT ![p] = NULL],
             NEW l \in {"idle", "batch"}, pc' = [pc EXCEPT ![p] = l]
      PROVE  WriterReported' /\ WriterEmitted'
  <2>1. \A q \in Procs : q # p => pc'[q] = pc[q] /\ cur'[q] = cur[q] /\ op'[q] = op[q]
    BY <1>2 DEF TypeInv, TypeOK
  <2>2. op'[p] = NULL /\ pc'[p] = l
    BY <1>2 DEF TypeInv, TypeOK
  <2> QED
    BY <1>1, <1>2, <2>1, <2>2, NullIsNoString
\* A process that starts a write.
<1>3. ASSUME NEW p \in Procs, NEW s \in Sessions, NEW o, Start(p, s, o),
             o = "succeed" => "success" \in reported'[s],
             o = "fail" => "failed" \in reported'[s] \/ ~HasProject[s]
      PROVE  WriterReported' /\ WriterEmitted'
  <2>1. \A q \in Procs : q # p => pc'[q] = pc[q] /\ cur'[q] = cur[q] /\ op'[q] = op[q]
    BY <1>3 DEF Start, TypeInv, TypeOK
  <2>2. pc'[p] = "begin" /\ cur'[p] = s /\ op'[p] = o
    BY <1>3 DEF Start, TypeInv, TypeOK
  <2> QED
    BY <1>1, <1>3, <2>1, <2>2
\* A process that starts the write an answer calls for.
<1>4. ASSUME NEW p \in Procs, NEW s \in Sessions, NEW a, Report(s, a), Start(p, s, OpFor(a))
      PROVE  WriterReported' /\ WriterEmitted'
  <2>1. a \in {"success", "failed"} => a \in reported'[s]
    BY <1>4 DEF Report, TypeInv, TypeOK
  <2>2. (OpFor(a) = "succeed" => a = "success") /\ (OpFor(a) = "fail" => a = "failed")
    BY DEF OpFor
  <2> QED
    BY <1>3, <1>4, <2>1, <2>2
\* A process that goes on with its write.
<1>5. ASSUME NEW p \in Procs, NEW l, pc' = [pc EXCEPT ![p] = l], UNCHANGED <<cur, op>>,
             l = "emitted" => EventOf(op[p]) \subseteq events'[cur[p]]
      PROVE  WriterReported' /\ WriterEmitted'
  <2>1. \A q \in Procs : q # p => pc'[q] = pc[q] /\ cur'[q] = cur[q] /\ op'[q] = op[q]
    BY <1>5 DEF TypeInv, TypeOK
  <2>2. pc'[p] = l /\ cur'[p] = cur[p] /\ op'[p] = op[p]
    BY <1>5 DEF TypeInv, TypeOK
  <2>3. op[p] = "succeed" => "success" \in reported'[cur[p]]
    BY <1>a, <1>b, NullIsNoString DEF WriterReported
  <2>4. op[p] = "fail" => "failed" \in reported'[cur[p]] \/ ~HasProject[cur[p]]
    BY <1>a, <1>b, NullIsNoString DEF WriterReported
  <2> QED
    BY <1>1, <1>5, <2>1, <2>2, <2>3, <2>4
\* A step in which no process moves.
<1>6. ASSUME UNCHANGED <<pc, cur, op>> PROVE WriterReported' /\ WriterEmitted'
  <2>1. WriterReported'
    BY <1>6, <1>a, <1>b, NullIsNoString DEF WriterReported
  <2>2. WriterEmitted'
    <3> SUFFICES ASSUME NEW q \in Procs, pc'[q] = "emitted"
                 PROVE  EventOf(op'[q]) \subseteq events'[cur'[q]]
      BY DEF WriterEmitted
    <3>1. EventOf(op[q]) \subseteq events[cur[q]] /\ events[cur[q]] \subseteq events'[cur[q]]
      BY <1>6, <1>a, <1>b, <1>c DEF WriterEmitted
    <3> QED
      BY <1>6, <3>1
  <2> QED
    BY <2>1, <2>2
<1>7. ASSUME NEW p \in Procs, TxBegin(p) \/ TxExecute(p) PROVE WriterReported' /\ WriterEmitted'
  BY <1>5, <1>7 DEF TxBegin, TxExecute
<1>8. ASSUME NEW p \in Procs, TxEmit(p) PROVE WriterReported' /\ WriterEmitted'
  <2>1. cur[p] \in Sessions
    BY <1>8 DEF TxEmit, TypeInv, Shape, Writing, TxOpen
  <2>2. EventOf(op[p]) \subseteq events'[cur[p]]
    BY <1>8, <2>1 DEF TxEmit, TypeInv, TypeOK
  <2>3. pc' = [pc EXCEPT ![p] = "emitted"] /\ UNCHANGED <<cur, op>>
    BY <1>8 DEF TxEmit
  <2> QED
    BY <1>5, <2>2, <2>3
<1>9. ASSUME NEW p \in Procs, TxCommit(p) \/ TxAbort(p) \/ Crash(p)
      PROVE  WriterReported' /\ WriterEmitted'
  <2>1. /\ op' = [op EXCEPT ![p] = NULL] /\ cur' = [cur EXCEPT ![p] = NULL]
        /\ \E l \in {"idle", "batch"} : pc' = [pc EXCEPT ![p] = l]
    BY <1>9 DEF TxCommit, TxAbort, Crash, Finish
  <2> QED
    BY <1>2, <2>1
<1>10. ASSUME NEW c \in Clients, NEW s \in Sessions, GetBuyUrl(c, s)
       PROVE  WriterReported' /\ WriterEmitted'
  <2>1. c \in Procs
    BY DEF Procs
  <2> QED
    BY <1>3, <1>6, <1>10, <2>1 DEF GetBuyUrl
<1>11. ASSUME NEW c \in Clients, NEW s \in Sessions, NEW x \in ExchangeIds, GetBuyStatus(c, s, x)
       PROVE  WriterReported' /\ WriterEmitted'
  <2>1. c \in Procs
    BY DEF Procs
  <2> QED
    BY <1>4, <1>11, <2>1 DEF GetBuyStatus
<1>12. ASSUME NEW w \in Workers, NEW s \in Sessions, CheckRow(w, s)
       PROVE  WriterReported' /\ WriterEmitted'
  <2>1. w \in Procs
    BY DEF Procs
  <2> QED
    BY <1>3, <1>4, <1>6, <1>12, <2>1 DEF CheckRow
<1>13. ASSUME NEW w \in Workers, NEW s \in Sessions, CheckRowError(w, s)
       PROVE  WriterReported' /\ WriterEmitted'
  <2>1. w \in Procs
    BY DEF Procs
  <2> QED
    BY <1>3, <1>13, <2>1 DEF CheckRowError
<1>14. ASSUME NEW w \in Workers, ClaimDueBatch(w) \/ ExpireOldPending(w) \/ ExpireFails(w)
       PROVE  WriterReported' /\ WriterEmitted'
  <2>1. w \in Procs
    BY DEF Procs
  <2>2. \E l \in {"idle", "batch"} : pc' = [pc EXCEPT ![w] = l] /\ UNCHANGED <<cur, op>>
    BY <1>14 DEF ClaimDueBatch, ExpireOldPending, ExpireFails
  <2> QED
    BY <1>5, <2>1, <2>2
<1>15. ASSUME NEW s \in Sessions, OrderStep(s) PROVE WriterReported' /\ WriterEmitted'
  BY <1>6, <1>15 DEF OrderStep
<1>16. ASSUME Tick \/ UNCHANGED vars PROVE WriterReported' /\ WriterEmitted'
  BY <1>6, <1>16 DEF Tick, vars
<1> QED
  BY <1>7, <1>8, <1>9, <1>10, <1>11, <1>12, <1>13, <1>14, <1>15, <1>16
     DEF Next, Transaction, Request, Reconcile

\* The writers' grounds hold in every reachable state.
LEMMA WriterInvariant == Spec => []WriterInv
<1>1. Init => WriterReported /\ WriterEmitted
  <2> SUFFICES ASSUME Init PROVE WriterReported /\ WriterEmitted
    OBVIOUS
  <2>1. \A p \in Procs : op[p] = NULL /\ pc[p] = "idle"
    BY DEF Init
  <2> QED
    BY <2>1, NullIsNoString DEF WriterReported, WriterEmitted
<1>2. WriterInv /\ [Next]_vars => WriterReported' /\ WriterEmitted'
  BY WriterStep
<1> QED
  BY <1>1, <1>2, RowInvariant, PTL DEF Spec, WriterInv

\* A row says succeeded only if the exchange reported a success for the session,
\* and failed by the provider only if it reported a failure or the row has no
\* project: whatever request or reconciler wrote it, however long its answer was
\* under way, and whoever else wrote the row meanwhile.
THEOREM LedgerOutcomeReported == Spec => []OutcomeReported
<1>1. Init => OutcomeReported
  <2> SUFFICES ASSUME Init, NEW s \in Sessions, ledger[s] # NULL
               PROVE  ledger[s].status = "pending" /\ ledger[s].failure_reason = NULL
    BY NullIsNoString DEF OutcomeReported
  <2> QED
    BY DEF Init, NewRow
<1>2. WriterInv /\ OutcomeReported /\ [Next]_vars => OutcomeReported'
  <2> SUFFICES ASSUME WriterInv, OutcomeReported, [Next]_vars, NEW s \in Sessions, ledger'[s] # NULL
               PROVE  /\ ledger'[s].status = "succeeded" => "success" \in reported'[s]
                      /\ ledger'[s].failure_reason = "provider_failed" =>
                           "failed" \in reported'[s] \/ ~HasProject[s]
    BY DEF OutcomeReported
  <2>1. reported[s] \subseteq reported'[s]
    BY RecordsGrow DEF WriterInv, RowInv
  <2>2. ASSUME NEW p \in Procs, cur[p] = s
        PROVE  /\ op[p] = "succeed" => "success" \in reported[s]
               /\ op[p] = "fail" => "failed" \in reported[s] \/ ~HasProject[s]
    BY <2>2 DEF WriterInv, WriterReported
  <2>3. ASSUME ledger'[s].status = "succeeded" PROVE "success" \in reported'[s]
    <3>1. \/ ledger[s] # NULL /\ ledger[s].status = "succeeded"
          \/ \E p \in Procs : cur[p] = s /\ op[p] = "succeed"
      BY <2>3, OutcomeOrigins DEF WriterInv
    <3>2. "success" \in reported[s]
      BY <2>2, <3>1 DEF OutcomeReported
    <3> QED
      BY <2>1, <3>2
  <2>4. ASSUME ledger'[s].failure_reason = "provider_failed"
        PROVE  "failed" \in reported'[s] \/ ~HasProject[s]
    <3>1. \/ ledger[s] # NULL /\ ledger[s].failure_reason = "provider_failed"
          \/ \E p \in Procs : cur[p] = s /\ op[p] = "fail"
      BY <2>4, OutcomeOrigins DEF WriterInv
    <3> QED
      BY <2>1, <2>2, <3>1 DEF OutcomeReported
  <2> QED
    BY <2>3, <2>4
<1> QED
  BY <1>1, <1>2, WriterInvariant, PTL DEF Spec

\* Analytics hears of every row and of every outcome the provider gave it: the
\* event is emitted before the commit, so a crash, an error or a lost request
\* between the two can leave an event without its row, never a row without its
\* event.
THEOREM LedgerEventsCover == Spec => []EventsCoverLedger
<1>1. Init => EventsCoverLedger
  <2> SUFFICES ASSUME Init, NEW s \in Sessions, ledger[s] # NULL
               PROVE  /\ "started" \in events[s]
                      /\ ledger[s].status = "pending" /\ ledger[s].failure_reason = NULL
    BY NullIsNoString DEF EventsCoverLedger
  <2> QED
    BY DEF Init, NewRow
<1>2. WriterInv /\ EventsCoverLedger /\ [Next]_vars => EventsCoverLedger'
  <2> SUFFICES ASSUME WriterInv, EventsCoverLedger, [Next]_vars, NEW s \in Sessions,
                      ledger'[s] # NULL
               PROVE  /\ "started" \in events'[s]
                      /\ ledger'[s].status = "succeeded" => "completed" \in events'[s]
                      /\ ledger'[s].failure_reason = "provider_failed" => "failed" \in events'[s]
    BY DEF EventsCoverLedger
  <2>1. events[s] \subseteq events'[s]
    BY RecordsGrow DEF WriterInv, RowInv
  <2>2. ASSUME NEW p \in Procs, TxCommit(p), cur[p] = s
        PROVE  /\ op[p] = "create" => "started" \in events[s]
               /\ op[p] = "succeed" => "completed" \in events[s]
               /\ op[p] = "fail" => "failed" \in events[s]
    <3>1. op[p] # "touch" => EventOf(op[p]) \subseteq events[s]
      BY <2>2 DEF TxCommit, WriterInv, WriterEmitted
    <3> QED
      BY <3>1 DEF EventOf
  <2>3. "started" \in events'[s]
    <3>1. \/ ledger[s] # NULL
          \/ \E p \in Procs : TxCommit(p) /\ cur[p] = s /\ op[p] = "create"
      BY OutcomeOrigins DEF WriterInv
    <3> QED
      BY <2>1, <2>2, <3>1 DEF EventsCoverLedger
  <2>4. ASSUME ledger'[s].status = "succeeded" PROVE "completed" \in events'[s]
    <3>1. \/ ledger[s] # NULL /\ ledger[s].status = "succeeded"
          \/ \E p \in Procs : TxCommit(p) /\ cur[p] = s /\ op[p] = "succeed"
      BY <2>4, OutcomeOrigins DEF WriterInv
    <3> QED
      BY <2>1, <2>2, <3>1 DEF EventsCoverLedger
  <2>5. ASSUME ledger'[s].failure_reason = "provider_failed" PROVE "failed" \in events'[s]
    <3>1. \/ ledger[s] # NULL /\ ledger[s].failure_reason = "provider_failed"
          \/ \E p \in Procs : TxCommit(p) /\ cur[p] = s /\ op[p] = "fail"
      BY <2>5, OutcomeOrigins DEF WriterInv
    <3> QED
      BY <2>1, <2>2, <3>1 DEF EventsCoverLedger
  <2> QED
    BY <2>3, <2>4, <2>5
<1> QED
  BY <1>1, <1>2, WriterInvariant, PTL DEF Spec

\* Whoever was answered with a payment URL of a stored exchange has a row the
\* reconciler can find, and keeps it.
THEOREM LedgerUrlHasRow == Spec => []UrlHasRow
<1>1. Init => UrlHasRow
  <2> SUFFICES ASSUME Init, NEW s \in Sessions, url[s] = "returned" PROVE ledger[s] # NULL
    BY DEF UrlHasRow
  <2>1. s \in Preexisting
    BY DEF Init
  <2>2. NewRow(0) \in Row
    BY DEF NewRow, Row, Ages
  <2> QED
    BY <2>1, <2>2, NullRowAssumption DEF Init
<1>2. RowInv /\ UrlHasRow /\ [Next]_vars => UrlHasRow'
  <2> SUFFICES ASSUME RowInv, UrlHasRow, [Next]_vars, NEW s \in Sessions, url'[s] = "returned",
                      StorageEnabled(ExchangeId[s])
               PROVE  ledger'[s] # NULL
    BY DEF UrlHasRow
  <2> USE DEF RowInv
  <2>1. CASE url[s] = "returned"
    <3>1. ledger[s] \in Row
      BY <2>1 DEF UrlHasRow, TypeInv, TypeOK
    <3> QED
      BY <3>1, RowSteps, RowStepStays
  <2>2. ASSUME url[s] # "returned" PROVE \E p \in Procs : TxCommit(p) /\ op[p] = "create" /\ cur[p] = s
    <3>1. ASSUME NEW p \in Procs, AnswerUrl(p, "failed") PROVE FALSE
      BY <2>2, <3>1 DEF AnswerUrl, TypeInv, TypeOK
    <3>2. ASSUME NEW p \in Procs, TxAbort(p) \/ Crash(p) PROVE FALSE
      BY <3>1, <3>2 DEF TxAbort, Crash
    <3>3. ASSUME NEW p \in Procs, TxCommit(p) PROVE op[p] = "create" /\ cur[p] = s
      BY <2>2, <3>3 DEF TxCommit, AnswerUrl, TypeInv, TypeOK
    <3>4. ASSUME UNCHANGED url PROVE FALSE
      BY <2>2, <3>4
    <3>5. ASSUME NEW p \in Procs, TxBegin(p) \/ TxExecute(p) \/ TxEmit(p) PROVE FALSE
      BY <3>4, <3>5 DEF TxBegin, TxExecute, TxEmit
    <3>6. ASSUME NEW c \in Clients, NEW t \in Sessions, GetBuyUrl(c, t) PROVE FALSE
      BY <2>2, <3>6 DEF GetBuyUrl, TypeInv, TypeOK
    <3>7. ASSUME NEW c \in Clients, NEW t \in Sessions, NEW x \in ExchangeIds, GetBuyStatus(c, t, x)
          PROVE FALSE
      BY <3>4, <3>7 DEF GetBuyStatus
    <3>8. ASSUME NEW w \in Workers, Reconcile(w) PROVE FALSE
      BY <3>4, <3>8 DEF Reconcile, ClaimDueBatch, CheckRow, CheckRowError, ExpireOldPending,
                        ExpireFails
    <3>9. ASSUME NEW t \in Sessions, OrderStep(t) PROVE FALSE
      BY <3>4, <3>9 DEF OrderStep
    <3>10. ASSUME Tick \/ UNCHANGED vars PROVE FALSE
      BY <3>4, <3>10 DEF Tick, vars
    <3> QED
      BY <3>2, <3>3, <3>5, <3>6, <3>7, <3>8, <3>9, <3>10 DEF Next, Transaction, Request
  <2>3. ASSUME NEW p \in Procs, TxCommit(p), op[p] = "create", cur[p] = s PROVE ledger'[s] # NULL
    <3>1. ledger'[s] = Written("create", ledger[s], tx_age[p]) /\ tx_age[p] \in 0..MaxTxTime
      BY <2>3, CommitStep
    <3>2. ledger[s] \in Row \cup {NULL}
      BY DEF TypeInv, TypeOK
    <3>3. ledger'[s] \in Row
      BY <3>1, <3>2, WrittenType
    <3> QED
      BY <3>3, NullRowAssumption
  <2> QED
    BY <2>1, <2>2, <2>3
<1> QED
  BY <1>1, <1>2, RowInvariant, PTL DEF Spec

-----------------------------------------------------------------------------
(* The way to an exchange's URL, for any assets, recipients, features and   *)
(* any number of calls: first the tables of the exchanges.                  *)

\* An exchange names every chain of its tables, and a name leads back to its
\* chain.
LEMMA NetworksAreNamed ==
  /\ \A d \in DOMAIN BinanceNetwork : ChainNamed(BinanceNetwork[d]) = d
  /\ \A d \in DOMAIN CoinbaseNetwork : ChainNamed(CoinbaseNetwork[d]) = d
  /\ \A row \in TestAssets : ChainNamed(row[1]) = row[1]
BY DEF BinanceNetwork, CoinbaseNetwork, TestAssets, ChainNamed

\* The row of Arbitrum, whose address has a digit too many, sells nothing.
LEMMA CoinbaseTablesAgree ==
  ASSUME NEW a \in AssetText \ {None}, Coins(CoinbaseCrypto, ParseAsset(a)) # {}
  PROVE  a.chain \in DOMAIN CoinbaseNetwork
<1>1. ParseAsset(a).chain = a.chain /\ ParseAsset(a).reference = a.reference
  BY PayAssumption DEF ParseAsset, Asset
<1>2. PICK row \in CoinbaseCrypto : row[1] = a.chain /\ row[2] = a.reference
  BY <1>1 DEF Coins
<1>3. a.reference # "0xAf88_of_41_digits"
  BY PayAssumption
<1> DEFINE known == {"base", "optimism", "polygon", "ethereum", "solana"}
<1>4. \A x \in CoinbaseCrypto : x[1] \in known \/ x[2] = "0xAf88_of_41_digits"
  BY DEF CoinbaseCrypto
<1>5. known \subseteq DOMAIN CoinbaseNetwork
  BY DEF CoinbaseNetwork
<1> QED
  BY <1>2, <1>3, <1>4, <1>5

LEMMA ParsedIs ==
  ASSUME NEW a \in AssetText \ {None}
  PROVE  ParseAsset(a).chain = a.chain
BY PayAssumption DEF ParseAsset, Asset

-----------------------------------------------------------------------------
(* The invariant. *)

Coin == {row[3] : row \in BinanceCrypto \cup CoinbaseCrypto}
Network == {BinanceNetwork[d] : d \in DOMAIN BinanceNetwork} \cup
           {CoinbaseNetwork[d] : d \in DOMAIN CoinbaseNetwork} \cup {row[1] : row \in TestAssets}

Placed ==
  [exchange : ExchangeIds, asset : {ParseAsset(a) : a \in AssetText \ {None}}, crypto : Coin \cup {None},
   network : Network, address : {r.address : r \in Recipient}, amount : {ParseAmount(n) : n \in AmountText},
   of : Recipient]

\* A call that has reached its exchange passed the checks.
Payable(q) ==
  /\ q.exchange = q.pc
  /\ q.asset \in AssetText \ {None}
  /\ IsAssetSupported(q.pc, ParseAsset(q.asset))
  /\ q.recipient \in Recipient /\ q.recipient.chain = q.asset.chain
  /\ q.amount \in {ParseAmount(n) : n \in AmountText}

Payment(q) ==
  /\ q = [pc |-> q.pc, exchange |-> q.exchange, source |-> q.source, asset |-> q.asset,
          recipient |-> q.recipient, amount |-> q.amount, answer |-> q.answer]
  /\ q.pc # "done" => q.answer = None
  /\ q.pc \in ExchangeIds => Payable(q)

\* What a list says holds until the features change.
Listing(l) ==
  /\ l.at \in Nat /\ l.at <= changes
  /\ l.at = changes => /\ l.asset # None
                       /\ l.exchange \in SupportedExchanges(l.asset, l.source, features)

PayInv ==
  /\ payCall = [c \in PayCall |-> payCall[c]]
  /\ \A c \in PayCall : Payment(payCall[c])
  /\ placed \in Seq(Placed) /\ SentWhereAsked
  /\ changes \in Nat /\ \A l \in listed : Listing(l)

\* What a call may be answered.
Rightly(c) ==
  payCall[c].pc # "done" /\ payCall'[c].answer \in {"not_found", "unsupported"} =>
    ~\E l \in listed :
       /\ l.exchange = payCall'[c].exchange /\ l.source = payCall'[c].source /\ l.at = changes
       /\ ParseAsset(l.asset) = ParseAsset(payCall'[c].asset)

LEMMA PayInitially == PayInit => PayInv
<1> SUFFICES ASSUME PayInit PROVE PayInv
  OBVIOUS
<1>1. payCall = [c \in PayCall |-> IdleCall] /\ placed = <<>> /\ changes = 0 /\ listed = {}
  BY DEF PayInit
<1>2. Payment(IdleCall)
  BY DEF Payment, IdleCall, ExchangeIds
<1>3. placed \in Seq(Placed) /\ SentWhereAsked
  BY <1>1 DEF SentWhereAsked
<1> QED
  BY <1>1, <1>2, <1>3 DEF PayInv

\* A call moves, and answers nothing it may not.
LEMMA CallMoves ==
  ASSUME PayInv, NEW c \in PayCall, NEW q, payCall' = [payCall EXCEPT ![c] = q], Payment(q),
         placed' \in Seq(Placed), SentWhereAsked', UNCHANGED <<features, changes>>,
         \A l \in listed' : l \in listed \/ Listing(l),
         payCall[c].pc # "done" /\ q.answer \in {"not_found", "unsupported"} =>
           ~\E l \in listed : /\ l.exchange = q.exchange /\ l.source = q.source /\ l.at = changes
                              /\ ParseAsset(l.asset) = ParseAsset(q.asset)
  PROVE  PayInv' /\ \A d \in PayCall : Rightly(d)
<1>1. payCall' = [d \in PayCall |-> payCall'[d]] /\ \A d \in PayCall : payCall'[d] = IF d = c THEN q ELSE payCall[d]
  BY DEF PayInv
<1>2. \A d \in PayCall : Payment(payCall'[d])
  BY <1>1 DEF PayInv
<1>3. \A l \in listed' : Listing(l)'
  BY DEF PayInv, Listing, SupportedExchanges
<1>4. \A d \in PayCall : payCall[d].pc # "done" => payCall[d].answer = None
  BY DEF PayInv, Payment
<1>5. \A d \in PayCall : Rightly(d)
  BY <1>1, <1>4, PayAssumption DEF Rightly
<1> QED
  BY <1>1, <1>2, <1>3, <1>5 DEF PayInv

-----------------------------------------------------------------------------
(* The steps. *)

\* A call that ends without an order, and with no answer a list could refute.
LEMMA EndKeeps ==
  ASSUME PayInv, NEW c \in PayCall, NEW answer, End(c, answer), answer \notin {"not_found", "unsupported"},
         placed' \in Seq(Placed), SentWhereAsked', UNCHANGED <<features, changes>>,
         \A l \in listed' : l \in listed \/ Listing(l)
  PROVE  PayInv' /\ \A d \in PayCall : Rightly(d)
<1> DEFINE q == payCall[c]
           m == [pc |-> "done", exchange |-> q.exchange, source |-> q.source, asset |-> q.asset,
                 recipient |-> q.recipient, amount |-> q.amount, answer |-> q.answer]
           n == [pc |-> "done", exchange |-> q.exchange, source |-> q.source, asset |-> q.asset,
                 recipient |-> q.recipient, amount |-> q.amount, answer |-> answer]
<1>1. Payment(q)
  BY DEF PayInv
<1>2. payCall' = [payCall EXCEPT ![c] = [q EXCEPT !.pc = "done", !.answer = answer]]
  BY DEF End
<1>3. [q EXCEPT !.pc = "done"] = m
  <2> DEFINE p == [pc |-> q.pc, exchange |-> q.exchange, source |-> q.source, asset |-> q.asset,
                   recipient |-> q.recipient, amount |-> q.amount, answer |-> q.answer]
  <2>1. q = p
    BY <1>1 DEF Payment
  <2>2. [p EXCEPT !.pc = "done"] = m
    OBVIOUS
  <2> HIDE DEF q, p, m
  <2> QED
    BY <2>1, <2>2, Zenon
<1>4. [m EXCEPT !.answer = answer] = n
  OBVIOUS
<1>5. Payment(n) /\ n.answer = answer
  BY DEF Payment, ExchangeIds
<1> HIDE DEF q, m, n
<1>6. [q EXCEPT !.pc = "done", !.answer = answer] = [[q EXCEPT !.pc = "done"] EXCEPT !.answer = answer]
  OBVIOUS
<1>7. payCall' = [payCall EXCEPT ![c] = n]
  BY <1>2, <1>3, <1>4, <1>6, Zenon
<1> QED
  BY <1>5, <1>7, CallMoves

LEMMA ListKeeps ==
  ASSUME PayInv, NEW c \in PayCall, GetExchanges(c)
  PROVE  PayInv' /\ \A d \in PayCall : Rightly(d)
<1>1. UNCHANGED <<payConfig, features, changes, placed>>
  BY DEF GetExchanges
<1>2. placed' \in Seq(Placed) /\ SentWhereAsked'
  BY <1>1 DEF PayInv, SentWhereAsked
<1>3. PICK source \in {"fund-wallet", "payments"}, a \in AssetText,
           only \in {None} \cup {{x} : x \in ExchangeIds}, without \in {None} \cup {{x} : x \in ExchangeIds} :
        LET all == IF a = None THEN {} ELSE SupportedExchanges(a, source, features)
            kept == {x \in all : (only # None => x \in only) /\ (without # None => x \notin without)}
        IN  \/ End(c, "internal") /\ UNCHANGED listed
            \/ /\ ~IsFeatureEnabled(source, features) /\ End(c, "refused") /\ UNCHANGED listed
            \/ /\ IsFeatureEnabled(source, features)
               /\ IF a # None /\ only # None /\ without # None
                  THEN End(c, "refused") /\ UNCHANGED listed
                  ELSE /\ End(c, "list")
                       /\ listed' = listed \cup [asset : {a}, source : {source}, exchange : kept, at : {changes}]
  BY Zenon DEF GetExchanges
<1>4. CASE UNCHANGED listed /\ \E answer \in {"internal", "refused"} : End(c, answer)
  BY <1>1, <1>2, <1>4, EndKeeps
<1> DEFINE all == IF a = None THEN {} ELSE SupportedExchanges(a, source, features)
           kept == {x \in all : (only # None => x \in only) /\ (without # None => x \notin without)}
<1>5. CASE /\ End(c, "list")
           /\ listed' = listed \cup [asset : {a}, source : {source}, exchange : kept, at : {changes}]
  <2>1. ASSUME NEW l \in [asset : {a}, source : {source}, exchange : kept, at : {changes}] PROVE Listing(l)
    <3>1. l.asset = a /\ l.source = source /\ l.exchange \in all /\ l.at = changes
      OBVIOUS
    <3>2. a # None /\ l.exchange \in SupportedExchanges(a, source, features)
      BY <3>1
    <3> HIDE DEF all, kept
    <3> QED
      BY <3>1, <3>2 DEF Listing, PayInv
  <2> HIDE DEF kept
  <2>2. \A l \in listed' : l \in listed \/ Listing(l)
    BY <1>5, <2>1
  <2> QED
    BY <1>1, <1>2, <1>5, <2>2, EndKeeps
<1> QED
  BY <1>3, <1>4, <1>5

\* A request that is refused by its checks, or passes them and goes to its
\* exchange.
LEMMA AskKeeps ==
  ASSUME PayInv, NEW c \in PayCall, GetExchangeUrl(c)
  PROVE  PayInv' /\ \A d \in PayCall : Rightly(d)
<1>1. UNCHANGED <<payConfig, features, changes, listed, placed>> /\ payCall[c].pc = "idle"
  BY DEF GetExchangeUrl
<1>2. placed' \in Seq(Placed) /\ SentWhereAsked'
  BY <1>1 DEF PayInv, SentWhereAsked
<1>3. PICK x \in ExchangeIds \cup {"unknown"}, source \in {"fund-wallet", "payments"}, a \in AssetText,
           r \in Recipient, n \in AmountText :
        LET refusal == Refusal(x, source, a, r, n)
        IN  \/ Asking(c, x, source, a, r, n, "internal")
            \/ ~IsFeatureEnabled(source, features) /\ Asking(c, x, source, a, r, n, "refused")
            \/ /\ IsFeatureEnabled(source, features)
               /\ Asking(c, x, source, a, r, n, IF refusal = "none" THEN None ELSE refusal)
  BY Zenon DEF GetExchangeUrl
<1> DEFINE rec(stage, amount, answer) ==
             [pc |-> stage, exchange |-> x, source |-> source, asset |-> a, recipient |-> r,
              amount |-> amount, answer |-> answer]
<1>4. ASSUME NEW answer, answer # None, payCall' = [payCall EXCEPT ![c] = rec("done", None, answer)],
             answer = "not_found" => x \notin ExchangeIds \/ ~IsEnabled(x, source, features),
             answer = "unsupported" => ~IsAssetSupported(x, ParseAsset(a))
      PROVE  PayInv' /\ \A d \in PayCall : Rightly(d)
  <2> DEFINE q == rec("done", None, answer)
  <2>1. Payment(q)
    BY DEF Payment, ExchangeIds
  <2>2. /\ q.answer = answer /\ q.exchange = x /\ q.source = source /\ q.asset = a
        /\ payCall' = [payCall EXCEPT ![c] = q]
    BY <1>4
  <2> HIDE DEF q
  <2>3. ASSUME NEW l \in listed, l.exchange = x, l.source = source, l.at = changes,
               ParseAsset(l.asset) = ParseAsset(a)
        PROVE  x \in ExchangeIds /\ IsEnabled(x, source, features) /\ IsAssetSupported(x, ParseAsset(a))
    BY <2>3 DEF PayInv, Listing, SupportedExchanges
  <2>4. q.answer \in {"not_found", "unsupported"} =>
          ~\E l \in listed : /\ l.exchange = q.exchange /\ l.source = q.source /\ l.at = changes
                             /\ ParseAsset(l.asset) = ParseAsset(q.asset)
    BY <1>4, <2>2, <2>3
  <2>5. \A l \in listed' : l \in listed
    BY <1>1
  <2> QED
    BY <1>1, <1>2, <2>1, <2>2, <2>4, <2>5, CallMoves
<1>5. CASE \E answer \in {"internal", "refused"} : Asking(c, x, source, a, r, n, answer)
  <2>1. PICK answer \in {"internal", "refused"} : Asking(c, x, source, a, r, n, answer)
    BY <1>5
  <2>2. answer # None
    BY PayAssumption
  <2>3. payCall' = [payCall EXCEPT ![c] = rec("done", None, answer)]
    BY <2>1, <2>2 DEF Asking
  <2> HIDE DEF rec
  <2> QED
    BY <1>4, <2>2, <2>3
<1>6. CASE Refusal(x, source, a, r, n) # "none" /\ Asking(c, x, source, a, r, n, Refusal(x, source, a, r, n))
  <2> DEFINE answer == Refusal(x, source, a, r, n)
  <2>1. /\ answer \in {"not_found", "invalid", "unsupported"}
        /\ answer = "not_found" => x \notin ExchangeIds \/ ~IsEnabled(x, source, features)
        /\ answer = "unsupported" => ~IsAssetSupported(x, ParseAsset(a))
    BY <1>6 DEF Refusal
  <2>2. answer # None
    BY <2>1, PayAssumption
  <2> HIDE DEF answer
  <2>3. payCall' = [payCall EXCEPT ![c] = rec("done", None, answer)]
    BY <1>6, <2>2 DEF Asking, answer
  <2> HIDE DEF rec
  <2> QED
    BY <1>4, <2>1, <2>2, <2>3
<1>7. CASE Refusal(x, source, a, r, n) = "none" /\ Asking(c, x, source, a, r, n, None)
  <2> DEFINE q == rec(x, ParseAmount(n), None)
  <2>1. /\ x \in ExchangeIds /\ a # None /\ r # None /\ r.chain = a.chain
        /\ IsAssetSupported(x, ParseAsset(a))
    BY <1>7 DEF Refusal
  <2>2. payCall' = [payCall EXCEPT ![c] = q]
    BY <1>7 DEF Asking
  <2>3. Payment(q) /\ q.answer = None
    BY <2>1 DEF Payment, Payable
  <2> HIDE DEF q
  <2>4. q.answer \notin {"not_found", "unsupported"}
    BY <2>3, PayAssumption
  <2>5. \A l \in listed' : l \in listed
    BY <1>1
  <2> QED
    BY <1>1, <1>2, <2>2, <2>3, <2>4, <2>5, CallMoves
<1> QED
  BY <1>3, <1>5, <1>6, <1>7

\* An order is placed where the client asked for it.
LEMMA PlacedRight ==
  ASSUME PayInv, NEW c \in PayCall, payCall[c].pc \in ExchangeIds, NEW crypto \in Coin \cup {None}, NEW network \in Network,
         ChainNamed(network) = payCall[c].asset.chain, PlaceOrder(c, crypto, network)
  PROVE  placed' \in Seq(Placed) /\ SentWhereAsked'
<1> DEFINE q == payCall[c]
           e == [exchange |-> q.exchange, asset |-> ParseAsset(q.asset), crypto |-> crypto, network |-> network,
                 address |-> q.recipient.address, amount |-> q.amount, of |-> q.recipient]
<1>1. Payable(q)
  BY DEF PayInv, Payment
<1>2. e \in Placed
  BY <1>1 DEF Placed, Payable
<1>3. placed \in Seq(Placed) /\ placed' = Append(placed, e)
  BY DEF PayInv, PlaceOrder
<1>4. ChainNamed(e.network) = e.of.chain /\ e.of.chain = e.asset.chain
  BY <1>1, ParsedIs DEF Payable
<1> HIDE DEF e
<1>5. /\ placed' \in Seq(Placed) /\ Len(placed) \in Nat /\ Len(placed') = Len(placed) + 1
      /\ placed'[Len(placed) + 1] = e /\ \A k \in 1..Len(placed) : placed'[k] = placed[k]
  BY <1>2, <1>3, AppendProperties
<1>6. DOMAIN placed = 1..Len(placed) /\ DOMAIN placed' = 1..Len(placed')
  BY <1>3, <1>5
<1>7. ASSUME NEW k \in DOMAIN placed'
      PROVE  ChainNamed(placed'[k].network) = placed'[k].of.chain /\ placed'[k].of.chain = placed'[k].asset.chain
  <2>1. CASE k \in 1..Len(placed)
    BY <1>5, <1>6, <2>1 DEF PayInv, SentWhereAsked
  <2>2. CASE k = Len(placed) + 1
    BY <1>4, <1>5, <2>2
  <2> QED
    BY <1>5, <1>6, <2>1, <2>2
<1> QED
  BY <1>5, <1>7 DEF SentWhereAsked

\* A call goes on to persist what it placed.
LEMMA PersistKeeps ==
  ASSUME PayInv, NEW c \in PayCall, Persist(c), payCall[c].pc # "done", placed' \in Seq(Placed), SentWhereAsked',
         UNCHANGED <<features, changes, listed>>
  PROVE  PayInv' /\ \A d \in PayCall : Rightly(d)
<1> DEFINE q == payCall[c]
           n == [pc |-> "persist", exchange |-> q.exchange, source |-> q.source, asset |-> q.asset,
                 recipient |-> q.recipient, amount |-> q.amount, answer |-> q.answer]
<1>1. Payment(q) /\ q.answer = None
  BY DEF PayInv, Payment
<1>2. [q EXCEPT !.pc = "persist"] = n
  <2> DEFINE p == [pc |-> q.pc, exchange |-> q.exchange, source |-> q.source, asset |-> q.asset,
                   recipient |-> q.recipient, amount |-> q.amount, answer |-> q.answer]
  <2>1. q = p
    BY <1>1 DEF Payment
  <2>2. [p EXCEPT !.pc = "persist"] = n
    OBVIOUS
  <2> HIDE DEF q, p, n
  <2> QED
    BY <2>1, <2>2, Zenon
<1>3. payCall' = [payCall EXCEPT ![c] = n]
  BY <1>2 DEF Persist
<1>4. Payment(n) /\ n.answer = None
  BY <1>1 DEF Payment, ExchangeIds
<1> HIDE DEF n
<1>5. n.answer \notin {"not_found", "unsupported"} /\ \A l \in listed' : l \in listed
  BY <1>4, PayAssumption
<1> QED
  BY <1>3, <1>4, <1>5, CallMoves

\* A call ends after its order went out, or before.
LEMMA OrderKeeps ==
  ASSUME PayInv, NEW c \in PayCall, payCall[c].pc # "done", UNCHANGED <<features, changes, listed>>,
         placed' \in Seq(Placed), SentWhereAsked', Persist(c) \/ \E answer \in {"internal", "url"} : End(c, answer)
  PROVE  PayInv' /\ \A d \in PayCall : Rightly(d)
<1>1. CASE Persist(c)
  BY <1>1, PersistKeeps
<1>2. CASE \E answer \in {"internal", "url"} : End(c, answer)
  BY <1>2, EndKeeps
<1> QED
  BY <1>1, <1>2

LEMMA SameOrders ==
  ASSUME PayInv, UNCHANGED placed
  PROVE  placed' \in Seq(Placed) /\ SentWhereAsked'
BY DEF PayInv, SentWhereAsked

LEMMA TestKeeps ==
  ASSUME PayInv, NEW c \in PayCall, TestUrl(c)
  PROVE  PayInv' /\ \A d \in PayCall : Rightly(d)
<1> DEFINE a == payCall[c].asset
<1>1. payCall[c].pc = "reown_test" /\ payCall[c].pc \in ExchangeIds /\ payCall[c].pc # "done"
  BY DEF TestUrl, ExchangeIds
<1>2. a \in AssetText \ {None} /\ <<ParseAsset(a).chain, ParseAsset(a).reference>> \in TestAssets
  BY <1>1 DEF PayInv, Payment, Payable, IsAssetSupported
<1> DEFINE row == <<ParseAsset(a).chain, ParseAsset(a).reference>>
<1>3. row \in TestAssets /\ row[1] = ParseAsset(a).chain
  BY <1>2
<1> HIDE DEF a, row
<1>4. ParseAsset(a).chain \in Network /\ ChainNamed(ParseAsset(a).chain) = a.chain
  BY <1>2, <1>3, NetworksAreNamed, ParsedIs DEF Network
<1>5. PlaceOrder(c, None, ParseAsset(a).chain) /\ Persist(c) /\ UNCHANGED <<features, changes, listed>>
  BY DEF TestUrl, a
<1>6. placed' \in Seq(Placed) /\ SentWhereAsked'
  BY <1>1, <1>4, <1>5, PlacedRight DEF a
<1> QED
  BY <1>1, <1>5, <1>6, OrderKeeps

LEMMA BinanceKeeps ==
  ASSUME PayInv, NEW c \in PayCall, BinanceUrl(c)
  PROVE  PayInv' /\ \A d \in PayCall : Rightly(d)
<1> DEFINE a == payCall[c].asset
           p == ParseAsset(a)
<1>1. /\ payCall[c].pc = "binance" /\ payCall[c].pc \in ExchangeIds /\ payCall[c].pc # "done"
      /\ UNCHANGED <<features, changes, listed>>
  BY DEF BinanceUrl, ExchangeIds
<1>2. a \in AssetText \ {None} /\ p.chain \in DOMAIN BinanceNetwork
  BY <1>1 DEF PayInv, Payment, Payable, IsAssetSupported
<1>3. \/ End(c, "internal") /\ UNCHANGED placed
      \/ /\ \E coin \in Coins(BinanceCrypto, p) : PlaceOrder(c, coin, BinanceNetwork[p.chain])
         /\ Persist(c) \/ End(c, "internal")
  BY DEF BinanceUrl
<1> HIDE DEF a
<1>4. p.chain = a.chain
  BY <1>2, ParsedIs
<1> HIDE DEF p
<1>5. BinanceNetwork[p.chain] \in Network /\ ChainNamed(BinanceNetwork[p.chain]) = a.chain
  BY <1>2, <1>4, NetworksAreNamed DEF Network
<1>6. Coins(BinanceCrypto, p) \subseteq Coin
  BY DEF Coins, Coin
<1>7. CASE End(c, "internal") /\ UNCHANGED placed
  BY <1>1, <1>7, SameOrders, OrderKeeps
<1>8. CASE /\ \E coin \in Coins(BinanceCrypto, p) : PlaceOrder(c, coin, BinanceNetwork[p.chain])
           /\ Persist(c) \/ End(c, "internal")
  <2>1. placed' \in Seq(Placed) /\ SentWhereAsked'
    BY <1>1, <1>5, <1>6, <1>8, PlacedRight DEF a
  <2> QED
    BY <1>1, <1>8, <2>1, OrderKeeps
<1> QED
  BY <1>3, <1>7, <1>8

LEMMA CoinbaseKeeps ==
  ASSUME PayInv, NEW c \in PayCall, CoinbaseUrl(c)
  PROVE  PayInv' /\ \A d \in PayCall : Rightly(d)
<1> DEFINE a == payCall[c].asset
           p == ParseAsset(a)
<1>1. /\ payCall[c].pc = "coinbase" /\ payCall[c].pc \in ExchangeIds /\ payCall[c].pc # "done"
      /\ UNCHANGED <<features, changes, listed>>
  BY DEF CoinbaseUrl, ExchangeIds
<1>2. a \in AssetText \ {None} /\ Coins(CoinbaseCrypto, p) # {}
  BY <1>1 DEF PayInv, Payment, Payable, IsAssetSupported
<1>3. \/ End(c, "internal") /\ UNCHANGED placed
      \/ p.chain \notin DOMAIN CoinbaseNetwork
      \/ /\ \E coin \in Coins(CoinbaseCrypto, p) : PlaceOrder(c, coin, CoinbaseNetwork[p.chain])
         /\ Persist(c) \/ End(c, "internal")
  BY DEF CoinbaseUrl
<1> HIDE DEF a
<1>4. p.chain = a.chain /\ a.chain \in DOMAIN CoinbaseNetwork
  BY <1>2, ParsedIs, CoinbaseTablesAgree
<1> HIDE DEF p
<1>5. CoinbaseNetwork[p.chain] \in Network /\ ChainNamed(CoinbaseNetwork[p.chain]) = a.chain
  BY <1>4, NetworksAreNamed DEF Network
<1>6. Coins(CoinbaseCrypto, p) \subseteq Coin
  BY DEF Coins, Coin
<1>7. CASE End(c, "internal") /\ UNCHANGED placed
  BY <1>1, <1>7, SameOrders, OrderKeeps
<1>8. CASE /\ \E coin \in Coins(CoinbaseCrypto, p) : PlaceOrder(c, coin, CoinbaseNetwork[p.chain])
           /\ Persist(c) \/ End(c, "internal")
  <2>1. placed' \in Seq(Placed) /\ SentWhereAsked'
    BY <1>1, <1>5, <1>6, <1>8, PlacedRight DEF a
  <2> QED
    BY <1>1, <1>8, <2>1, OrderKeeps
<1> QED
  BY <1>3, <1>4, <1>7, <1>8

LEMMA EndCallKeeps ==
  ASSUME PayInv, NEW c \in PayCall, EndCall(c)
  PROVE  PayInv' /\ \A d \in PayCall : Rightly(d)
<1>1. UNCHANGED <<features, changes, listed, placed>> /\ payCall' = [payCall EXCEPT ![c] = IdleCall]
      /\ payCall[c].pc = "done"
  BY DEF EndCall
<1>2. Payment(IdleCall)
  BY DEF Payment, IdleCall, ExchangeIds
<1>3. \A l \in listed' : l \in listed
  BY <1>1
<1> QED
  BY <1>1, <1>2, <1>3, SameOrders, CallMoves

LEMMA ChangeKeeps ==
  ASSUME PayInv, ChangeFeatures
  PROVE  PayInv' /\ \A d \in PayCall : Rightly(d)
<1>1. UNCHANGED <<listed, payCall, placed>> /\ changes' = changes + 1
  BY DEF ChangeFeatures
<1>2. \A l \in listed' : Listing(l)'
  BY <1>1 DEF PayInv, Listing
<1>3. \A d \in PayCall : Rightly(d)
  BY <1>1, PayAssumption DEF PayInv, Payment, Rightly
<1> QED
  BY <1>1, <1>2, <1>3, SameOrders DEF PayInv

LEMMA PayStepKeeps ==
  ASSUME PayInv, [PayNext]_payVars
  PROVE  PayInv' /\ \A d \in PayCall : Rightly(d)
<1>1. ASSUME NEW c \in PayCall, PayStep(c) PROVE PayInv' /\ \A d \in PayCall : Rightly(d)
  <2>1. CASE PersistOrder(c)
    <3>1. payCall[c].pc # "done" /\ UNCHANGED <<features, changes, listed, placed>>
          /\ \E answer \in {"internal", "url"} : End(c, answer)
      BY <2>1 DEF PersistOrder
    <3> QED
      BY <3>1, SameOrders, OrderKeeps
  <2> QED
    BY <1>1, <2>1, ListKeeps, AskKeeps, TestKeeps, BinanceKeeps, CoinbaseKeeps, EndCallKeeps DEF PayStep
<1>2. CASE UNCHANGED payVars
  <2>1. UNCHANGED <<features, changes, listed, placed, payCall>>
    BY <1>2 DEF payVars
  <2>2. \A d \in PayCall : Rightly(d)
    BY <2>1, PayAssumption DEF PayInv, Payment, Rightly
  <2>3. \A l \in listed' : Listing(l)'
    BY <2>1 DEF PayInv, Listing, SupportedExchanges
  <2> QED
    BY <2>1, <2>2, <2>3, SameOrders DEF PayInv
<1> QED
  BY <1>1, <1>2, ChangeKeeps DEF PayNext

LEMMA PayAlways == PaySpec => []PayInv
<1>1. PayInv /\ [PayNext]_payVars => PayInv'
  BY PayStepKeeps
<1> QED
  BY PayInitially, <1>1, PTL DEF PaySpec

\* An order goes to an address on the chain its network stands for, for each
\* exchange and every asset it sells (generate_buy_url of the exchanges).
THEOREM OrdersSentWhereAsked == PaySpec => []SentWhereAsked
<1>1. PayInv => SentWhereAsked
  BY DEF PayInv
<1> QED
  BY <1>1, PayAlways, PTL

\* What get_exchanges listed, get_exchange_url does not refuse as missing or as
\* not selling the asset, unless the features have changed.
THEOREM ListedArePayable == PaySpec => ListedIsPayable
<1>1. PayInv /\ [PayNext]_payVars => [\A c \in PayCall : Rightly(c)]_payVars
  BY PayStepKeeps
<1>2. ASSUME [\A c \in PayCall : Rightly(c)]_payVars
      PROVE  [\A c \in PayCall :
                payCall[c].pc # "done" /\ payCall'[c].answer \in {"not_found", "unsupported"} =>
                  ~\E l \in listed :
                     /\ l.exchange = payCall'[c].exchange /\ l.source = payCall'[c].source /\ l.at = changes
                     /\ ParseAsset(l.asset) = ParseAsset(payCall'[c].asset)]_payVars
  BY <1>2 DEF Rightly
<1> QED
  BY <1>1, <1>2, PayAlways, PTL DEF PaySpec, ListedIsPayable

=============================================================================
