----------------------------- MODULE NamesProofs ----------------------------
(***************************************************************************)
(* Theorems about account names, for any tables of names, coin types and   *)
(* addresses and any number of handlers.                                   *)
(*                                                                         *)
(* The invariant behind them: what a handler has looked up is still there  *)
(* when it writes.  Without the deletions, which no handler calls, rows are*)
(* only ever added, so the addresses seen before the signature check are   *)
(* rows of the name after it (SeenIsThere), and a handler that reaches its *)
(* write has a genuine signer among them (WriterIsOwner).                  *)
(***************************************************************************)
EXTENDS Names, TLAPS

Replies == {"invalid", "already_registered", "not_registered", "bad_signature",
            "not_owner", "error", "registered", "lost", "updated"}

\* The fields of a message.
LEMMA MessageFields ==
  ASSUME NEW m \in Message
  PROVE  /\ m.name \in Name /\ m.by \in Address /\ m.coin \in Coin /\ m.genuine \in BOOLEAN
         /\ m.op \in {"register", "address", "attributes"}
         /\ m.op # "address" => m.attrs \in Attributes
         /\ m.op = "address" => m.newCoin \in Coin /\ m.newAddress \in Address
<1>1. CASE m \in Register
  BY <1>1 DEF Register, Signed
<1>2. CASE m \in SetAddress
  BY <1>2 DEF SetAddress, Signed
<1>3. CASE m \in SetAttributes
  BY <1>3 DEF SetAttributes, Signed
<1> QED
  BY <1>1, <1>2, <1>3 DEF Message

\* A busy handler has a message.
Busy == \A t \in Task : task[t].pc # "idle" => task[t].msg \in Message

TypeInv == TypeOK /\ Busy

\* What answering a request makes of the handlers.
LEMMA ReplyTask ==
  ASSUME TypeInv, NEW t \in Task, NEW r \in Replies, Reply(t, r)
  PROVE  /\ task' \in [Task -> HandlerState]
         /\ task'[t].pc = "done" /\ task'[t].msg = task[t].msg /\ task'[t].reply = r
         /\ \A u \in Task : u # t => task'[u] = task[u]
<1>1. task \in [Task -> HandlerState]
  BY DEF TypeInv, TypeOK
<1>2. task' = [task EXCEPT ![t].pc = "done", ![t].seen = NULL, ![t].reply = r]
  BY DEF Reply
<1>3. task'[t] = [pc |-> "done", msg |-> task[t].msg, seen |-> NULL, reply |-> r]
  BY <1>1, <1>2 DEF HandlerState
<1>4. task'[t] \in HandlerState
  BY <1>1, <1>3 DEF HandlerState, Replies
<1> QED
  BY <1>1, <1>2, <1>3, <1>4

\* What going on to its next await makes of a handler.
LEMMA ProceedTask ==
  ASSUME TypeInv, NEW t \in Task, NEW pc \in {"verify", "write", "reread"}, Proceed(t, pc)
  PROVE  /\ task' \in [Task -> HandlerState]
         /\ task'[t].pc = pc /\ task'[t].msg = task[t].msg /\ task'[t].seen = task[t].seen
         /\ task'[t].reply = task[t].reply
         /\ \A u \in Task : u # t => task'[u] = task[u]
<1>1. task \in [Task -> HandlerState]
  BY DEF TypeInv, TypeOK
<1>2. task' = [task EXCEPT ![t].pc = pc]
  BY DEF Proceed
<1>3. task'[t] = [pc |-> pc, msg |-> task[t].msg, seen |-> task[t].seen, reply |-> task[t].reply]
  BY <1>1, <1>2 DEF HandlerState
<1>4. task'[t] \in HandlerState
  BY <1>1, <1>3 DEF HandlerState
<1> QED
  BY <1>1, <1>2, <1>3, <1>4

\* What the other steps of a handler make of it.
LEMMA LookupTask ==
  ASSUME TypeInv, NEW t \in Task, NEW seen \in [Coin -> Address \cup {NULL}],
         task' = [task EXCEPT ![t].pc = "verify", ![t].seen = seen]
  PROVE  /\ task' \in [Task -> HandlerState]
         /\ task'[t].pc = "verify" /\ task'[t].msg = task[t].msg /\ task'[t].seen = seen
         /\ \A u \in Task : u # t => task'[u] = task[u]
<1>1. task \in [Task -> HandlerState]
  BY DEF TypeInv, TypeOK
<1>3. task'[t] = [pc |-> "verify", msg |-> task[t].msg, seen |-> seen, reply |-> task[t].reply]
  BY <1>1 DEF HandlerState
<1>4. task'[t] \in HandlerState
  BY <1>1, <1>3 DEF HandlerState
<1> QED
  BY <1>1, <1>3, <1>4

\* A handler that takes a request, or ends.
LEMMA FreshTask ==
  ASSUME TypeInv, NEW t \in Task, Submit(t) \/ End(t)
  PROVE  /\ task' \in [Task -> HandlerState]
         /\ task'[t].pc \in {"idle", "lookup"}
         /\ task'[t].pc = "lookup" => task'[t].msg \in Message
         /\ \A u \in Task : u # t => task'[u] = task[u]
         /\ UNCHANGED <<names, rows, admin, holder, current>>
<1>1. task \in [Task -> HandlerState]
  BY DEF TypeInv, TypeOK
<1>2. CASE Submit(t)
  <2>1. PICK m \in Message :
          task' = [task EXCEPT ![t] = [pc |-> "lookup", msg |-> m, seen |-> NULL, reply |-> NULL]]
    BY <1>2 DEF Submit
  <2>3. task'[t] = [pc |-> "lookup", msg |-> m, seen |-> NULL, reply |-> NULL]
    BY <1>1, <2>1
  <2>4. task'[t] \in HandlerState
    BY <2>3 DEF HandlerState
  <2> QED
    BY <1>1, <1>2, <2>1, <2>3, <2>4 DEF Submit
<1>3. CASE End(t)
  <2>1. Idle \in HandlerState /\ Idle.pc = "idle"
    BY DEF Idle, HandlerState
  <2> QED
    BY <1>1, <1>3, <2>1 DEF End
<1> QED
  BY <1>2, <1>3

-----------------------------------------------------------------------------
(* What each step of a handler makes of the tables. *)

\* What one handler's step is: nothing but its own state changes, or it writes.
Quiet == UNCHANGED <<names, rows, admin, holder, current>>

\* A handler's state after a step, as far as the proofs look at it.
TaskStep(t) ==
  /\ task' \in [Task -> HandlerState]
  /\ \A u \in Task : u # t => task'[u] = task[u]
  /\ task'[t].pc # "idle" => task'[t].msg \in Message

\* Handlers stay well formed.
LEMMA HandlerTask ==
  ASSUME TypeInv, NEW t \in Task, Handler(t)
  PROVE  TaskStep(t)
<1>0. task[t].pc # "idle" => task[t].msg \in Message
  BY DEF TypeInv, Busy
<1>1. ASSUME NEW r \in Replies, Reply(t, r), task[t].pc # "idle" PROVE TaskStep(t)
  BY <1>0, <1>1, ReplyTask DEF TaskStep
<1>2. ASSUME NEW pc \in {"verify", "write", "reread"}, Proceed(t, pc), task[t].pc # "idle"
      PROVE TaskStep(t)
  BY <1>0, <1>2, ProceedTask DEF TaskStep
<1>3. CASE Submit(t) \/ End(t)
  BY <1>3, FreshTask DEF TaskStep
<1>4. CASE Refuse(t)
  BY <1>4, <1>1 DEF Refuse, Replies
<1>5. CASE LookupToRegister(t)
  BY <1>5, <1>1, <1>2 DEF LookupToRegister, Replies
<1>6. CASE LookupToUpdate(t)
  <2>1. ASSUME NEW seen \in Addresses(task[t].msg.name),
               task' = [task EXCEPT ![t].pc = "verify", ![t].seen = seen]
        PROVE  TaskStep(t)
    <3>1. seen \in [Coin -> Address \cup {NULL}]
      BY <2>1 DEF Addresses
    <3>2. task[t].pc # "idle"
      BY <1>6 DEF LookupToUpdate
    <3> QED
      BY <1>0, <2>1, <3>1, <3>2, LookupTask DEF TaskStep
  <2> QED
    BY <1>6, <1>1, <2>1 DEF LookupToUpdate, Replies
<1>7. CASE Verify(t)
  BY <1>7, <1>1, <1>2 DEF Verify, Replies
<1>8. CASE InsertName(t)
  BY <1>8, <1>1, <1>2 DEF InsertName, Replies
<1>9. CASE Reread(t)
  BY <1>9, <1>1 DEF Reread, Replies
<1>10. CASE WriteAddress(t)
  BY <1>10, <1>1 DEF WriteAddress, Replies
<1>11. CASE WriteAttributes(t)
  BY <1>11, <1>1 DEF WriteAttributes, Replies
<1> QED
  BY <1>3, <1>4, <1>5, <1>6, <1>7, <1>8, <1>9, <1>10, <1>11 DEF Handler

\* A registration that succeeds, as a change of the tables.
Inserted(m) ==
  /\ ~Exists(m.name)
  /\ names' = [names EXCEPT ![m.name] = m.attrs]
  /\ rows' = rows \cup {RowOf(m.name, m.coin, m.by), RowOf(m.name, Mainnet, m.by)}
  /\ holder' = [holder EXCEPT ![m.name] = m.by]
  /\ current' = [current EXCEPT ![m.name] = [c \in Coin |->
                    IF c \in {m.coin, Mainnet} THEN m.by ELSE NULL]]
  /\ UNCHANGED admin

\* An update that succeeds.
Updated(m) ==
  /\ Exists(m.name)
  /\ \/ /\ m.op = "address"
        /\ rows' = rows \cup {RowOf(m.name, m.newCoin, m.newAddress)}
        /\ current' = [current EXCEPT ![m.name][m.newCoin] = m.newAddress]
        /\ UNCHANGED <<names, admin, holder>>
     \/ /\ m.op = "attributes"
        /\ names' = [names EXCEPT ![m.name] = m.attrs]
        /\ UNCHANGED <<rows, admin, holder, current>>

\* Only a handler about to write changes the tables, and this is how.
LEMMA TableSteps ==
  ASSUME TypeInv, NEW t \in Task, Handler(t)
  PROVE  \/ Quiet
         \/ /\ task[t].pc = "write" /\ task'[t].pc # "write" /\ task[t].msg \in Message
            /\ \/ task[t].msg.op = "register" /\ Inserted(task[t].msg)
               \/ task[t].msg.op # "register" /\ Updated(task[t].msg)
<1>1. CASE Submit(t) \/ Refuse(t) \/ LookupToRegister(t) \/ LookupToUpdate(t) \/ Verify(t)
           \/ Reread(t) \/ End(t)
  BY <1>1 DEF Submit, Refuse, LookupToRegister, LookupToUpdate, Verify, Reread, End, Quiet
<1>2. task[t].pc = "write" => task[t].msg \in Message
  BY DEF TypeInv, Busy
<1>3. CASE InsertName(t)
  <2>1. CASE Proceed(t, "reread")
    BY <1>2, <1>3, <2>1, ProceedTask DEF InsertName, InsertNameRows, Inserted, Quiet
  <2>2. CASE UNCHANGED <<names, rows, holder, current>>
    BY <1>3, <2>2 DEF InsertName, Quiet
  <2> QED
    BY <1>3, <2>1, <2>2 DEF InsertName
<1>4. CASE WriteAddress(t)
  <2>1. CASE Reply(t, "updated")
    BY <1>2, <1>4, <2>1, ReplyTask DEF WriteAddress, InsertOrUpdateAddress, Updated, Quiet, Replies
  <2>2. CASE UNCHANGED <<rows, current>>
    BY <1>4, <2>2 DEF WriteAddress, Quiet
  <2> QED
    BY <1>4, <2>1, <2>2 DEF WriteAddress
<1>5. CASE WriteAttributes(t)
  <2>1. CASE Reply(t, "updated")
    BY <1>2, <1>5, <2>1, ReplyTask DEF WriteAttributes, Updated, Quiet, Replies
  <2>2. CASE UNCHANGED names
    BY <1>5, <2>2 DEF WriteAttributes, Quiet
  <2> QED
    BY <1>5, <2>1, <2>2 DEF WriteAttributes
<1> QED
  BY <1>1, <1>3, <1>4, <1>5 DEF Handler

-----------------------------------------------------------------------------
(* Types, with the deletions. *)

\* The empty tables are well typed.
LEMMA TypeInit == Init => TypeInv
<1> SUFFICES ASSUME Init PROVE TypeInv
  OBVIOUS
<1>1. Idle \in HandlerState /\ Idle.pc = "idle"
  BY DEF Idle, HandlerState
<1>2. task \in [Task -> HandlerState] /\ Busy
  BY <1>1 DEF Init, Busy
<1> QED
  BY <1>2 DEF Init, TypeInv, TypeOK

\* A registration keeps the types of the tables.
LEMMA InsertedTypes ==
  ASSUME TypeInv, NEW m \in Message, m.op = "register", Inserted(m)
  PROVE  /\ names' \in [Name -> Attributes \cup {NULL}] /\ rows' \subseteq Row
         /\ holder' \in [Name -> Address \cup {NULL}]
         /\ current' \in [Name -> [Coin -> Address \cup {NULL}]]
<1>1. m.name \in Name /\ m.by \in Address /\ m.coin \in Coin /\ m.attrs \in Attributes
  BY MessageFields
<1>2. names' \in [Name -> Attributes \cup {NULL}] /\ holder' \in [Name -> Address \cup {NULL}]
  BY <1>1 DEF Inserted, TypeInv, TypeOK
<1>3. RowOf(m.name, m.coin, m.by) \in Row /\ RowOf(m.name, Mainnet, m.by) \in Row
  BY <1>1, NamesAssumption DEF RowOf, Row
<1>4. rows' \subseteq Row
  BY <1>3 DEF Inserted, TypeInv, TypeOK
<1>5. [c \in Coin |-> IF c \in {m.coin, Mainnet} THEN m.by ELSE NULL] \in [Coin -> Address \cup {NULL}]
  BY <1>1
<1>6. current' \in [Name -> [Coin -> Address \cup {NULL}]]
  BY <1>1, <1>5 DEF Inserted, TypeInv, TypeOK
<1> QED
  BY <1>2, <1>4, <1>6

\* So does an update.
LEMMA UpdatedTypes ==
  ASSUME TypeInv, NEW m \in Message, m.op # "register", Updated(m)
  PROVE  /\ names' \in [Name -> Attributes \cup {NULL}] /\ rows' \subseteq Row
         /\ holder' \in [Name -> Address \cup {NULL}]
         /\ current' \in [Name -> [Coin -> Address \cup {NULL}]]
<1>1. m.name \in Name
  BY MessageFields
<1>2. CASE m.op = "address"
  <2>1. m.newCoin \in Coin /\ m.newAddress \in Address
    BY <1>2, MessageFields
  <2>2. RowOf(m.name, m.newCoin, m.newAddress) \in Row
    BY <1>1, <2>1 DEF RowOf, Row
  <2> QED
    BY <1>1, <1>2, <2>1, <2>2 DEF Updated, TypeInv, TypeOK
<1>3. CASE m.op = "attributes"
  <2>1. m.attrs \in Attributes
    BY <1>3, MessageFields
  <2> QED
    BY <1>1, <1>3, <2>1 DEF Updated, TypeInv, TypeOK
<1> QED
  BY <1>2, <1>3 DEF Updated

\* Every step of a handler, and every deletion, keeps the types.
LEMMA TypeStep == TypeInv /\ [AdminNext]_vars => TypeInv'
<1> SUFFICES ASSUME TypeInv, [AdminNext]_vars PROVE TypeInv'
  OBVIOUS
<1>1. ASSUME NEW t \in Task, Handler(t) PROVE TypeInv'
  <2>1. TaskStep(t)
    BY <1>1, HandlerTask
  <2>2. task' \in [Task -> HandlerState] /\ Busy'
    BY <2>1 DEF TaskStep, Busy, TypeInv
  <2>3. CASE Quiet
    BY <2>2, <2>3 DEF Quiet, TypeInv, TypeOK
  <2>4. CASE task[t].msg \in Message /\ task[t].msg.op = "register" /\ Inserted(task[t].msg)
    <3>1. admin' = admin
      BY <2>4 DEF Inserted
    <3> QED
      BY <2>2, <2>4, <3>1, InsertedTypes DEF TypeInv, TypeOK
  <2>5. CASE task[t].msg \in Message /\ task[t].msg.op # "register" /\ Updated(task[t].msg)
    <3>1. admin' = admin
      BY <2>5 DEF Updated
    <3> QED
      BY <2>2, <2>5, <3>1, UpdatedTypes DEF TypeInv, TypeOK
  <2> QED
    BY <1>1, <2>3, <2>4, <2>5, TableSteps
<1>2. ASSUME NEW d \in Admin, DeleteAddressCheck(d) PROVE TypeInv'
  BY <1>2 DEF DeleteAddressCheck, TypeInv, TypeOK, Busy
<1>3. ASSUME NEW d \in Admin, DeleteAddress(d) PROVE TypeInv'
  BY <1>3 DEF DeleteAddress, TypeInv, TypeOK, Busy
<1>4. ASSUME NEW d \in Admin, DeleteName(d) PROVE TypeInv'
  <2>1. PICK n \in Name :
          /\ names' = [names EXCEPT ![n] = NULL]
          /\ rows' = {r \in rows : r.name # n}
          /\ holder' = [holder EXCEPT ![n] = NULL]
          /\ current' = [current EXCEPT ![n] = [c \in Coin |-> NULL]]
    BY <1>4 DEF DeleteName
  <2>2. [c \in Coin |-> NULL] \in [Coin -> Address \cup {NULL}]
    OBVIOUS
  <2> QED
    BY <1>4, <2>1, <2>2 DEF DeleteName, TypeInv, TypeOK, Busy
<1>5. CASE UNCHANGED vars
  BY <1>5 DEF vars, TypeInv, TypeOK, Busy
<1> QED
  BY <1>1, <1>2, <1>3, <1>4, <1>5 DEF AdminNext, Next

\* The tables and the handlers keep their shapes, deletions included.
THEOREM NamesTypes == AdminSpec => []TypeOK
<1>1. AdminSpec => []TypeInv
  BY TypeInit, TypeStep, PTL DEF AdminSpec
<1> QED
  BY <1>1, PTL DEF TypeInv

-----------------------------------------------------------------------------
(* No row without its name, whatever is deleted. *)

\* A write finds its name, or makes it.
LEMMA NoOrphanStep == TypeInv /\ NoOrphanRows /\ [AdminNext]_vars => NoOrphanRows'
<1> SUFFICES ASSUME TypeInv, NoOrphanRows, [AdminNext]_vars PROVE NoOrphanRows'
  OBVIOUS
<1>0. names \in [Name -> Attributes \cup {NULL}] /\ rows \subseteq Row
  BY DEF TypeInv, TypeOK
<1>1. ASSUME NEW t \in Task, Handler(t) PROVE NoOrphanRows'
  <2> DEFINE m == task[t].msg
  <2>1. CASE Quiet
    BY <2>1 DEF Quiet, NoOrphanRows, Exists
  <2>2. CASE m \in Message /\ m.op = "register" /\ Inserted(m)
    <3>1. m.name \in Name /\ m.attrs # NULL
      BY <2>2, MessageFields, NamesAssumption
    <3>2. \A n \in Name : names'[n] = IF n = m.name THEN m.attrs ELSE names[n]
      BY <1>0, <2>2 DEF Inserted
    <3>3. \A r \in rows' : r \in rows \/ r.name = m.name
      BY <2>2 DEF Inserted, RowOf
    <3>4. \A r \in rows : r.name \in Name
      BY <1>0 DEF Row
    <3> QED
      BY <3>1, <3>2, <3>3, <3>4 DEF NoOrphanRows, Exists
  <2>3. CASE m \in Message /\ m.op # "register" /\ Updated(m)
    <3>1. m.name \in Name /\ (m.op = "attributes" => m.attrs # NULL)
      BY <2>3, MessageFields, NamesAssumption
    <3>2. \A n \in Name : names[n] # NULL => names'[n] # NULL
      BY <1>0, <2>3, <3>1 DEF Updated
    <3>3. \A r \in rows' : r \in rows \/ r.name = m.name
      BY <2>3 DEF Updated, RowOf
    <3>4. \A r \in rows : r.name \in Name
      BY <1>0 DEF Row
    <3>5. names[m.name] # NULL
      BY <2>3 DEF Updated, Exists
    <3> QED
      BY <3>1, <3>2, <3>3, <3>4, <3>5 DEF NoOrphanRows, Exists
  <2> QED
    BY <1>1, <2>1, <2>2, <2>3, TableSteps
<1>2. ASSUME NEW d \in Admin, DeleteAddressCheck(d) \/ DeleteAddress(d) PROVE NoOrphanRows'
  BY <1>2 DEF DeleteAddressCheck, DeleteAddress, NoOrphanRows, Exists
<1>3. ASSUME NEW d \in Admin, DeleteName(d) PROVE NoOrphanRows'
  BY <1>0, <1>3 DEF DeleteName, NoOrphanRows, Exists
<1>4. CASE UNCHANGED vars
  BY <1>4 DEF vars, NoOrphanRows, Exists
<1> QED
  BY <1>1, <1>2, <1>3, <1>4 DEF AdminNext, Next

\* No address row outlives its name: a handler that looked the name up before
\* delete_name does not bring a row back after it.
THEOREM NamesNoOrphans == AdminSpec => []NoOrphanRows
<1>1. Init => NoOrphanRows
  BY DEF Init, NoOrphanRows
<1> QED
  BY <1>1, TypeInit, TypeStep, NoOrphanStep, PTL DEF AdminSpec

-----------------------------------------------------------------------------
(* Without deletions: what a handler looked up stays. *)

\* The addresses a handler compares its signer with are rows of the name.
SeenIsThere ==
  \A t \in Task : task[t].pc = "verify" /\ task[t].msg.op # "register" =>
    /\ task[t].seen \in [Coin -> Address \cup {NULL}]
    /\ \A c \in Coin : task[t].seen[c] # NULL => RowOf(task[t].msg.name, c, task[t].seen[c]) \in rows

\* A handler about to write an update has a genuine signer among them.
WriterIsOwner ==
  \A t \in Task : task[t].pc = "write" =>
    /\ task[t].msg.genuine
    /\ task[t].msg.op # "register" =>
         RowOf(task[t].msg.name, task[t].msg.coin, task[t].msg.by) \in rows

OwnerInv == TypeInv /\ SeenIsThere /\ WriterIsOwner

\* A handler takes no row away.
LEMMA RowsGrow ==
  ASSUME TypeInv, NEW t \in Task, Handler(t)
  PROVE  rows \subseteq rows'
BY TableSteps DEF Quiet, Inserted, Updated

\* The lookup, the signature check and the writes keep what was seen true.
LEMMA OwnerStep == OwnerInv /\ [Next]_vars => SeenIsThere' /\ WriterIsOwner'
<1> SUFFICES ASSUME OwnerInv, [Next]_vars PROVE SeenIsThere' /\ WriterIsOwner'
  OBVIOUS
<1>0. TypeInv /\ SeenIsThere /\ WriterIsOwner
  BY DEF OwnerInv
<1>1. ASSUME NEW t \in Task, Handler(t),
             task'[t].pc = "verify" /\ task'[t].msg.op # "register" =>
               /\ task'[t].seen \in [Coin -> Address \cup {NULL}]
               /\ \A c \in Coin : task'[t].seen[c] # NULL =>
                    RowOf(task'[t].msg.name, c, task'[t].seen[c]) \in rows',
             task'[t].pc = "write" =>
               /\ task'[t].msg.genuine
               /\ task'[t].msg.op # "register" =>
                    RowOf(task'[t].msg.name, task'[t].msg.coin, task'[t].msg.by) \in rows'
      PROVE  SeenIsThere' /\ WriterIsOwner'
  <2>1. \A u \in Task : u # t => task'[u] = task[u]
    BY <1>0, <1>1, HandlerTask DEF TaskStep
  <2>2. rows \subseteq rows'
    BY <1>0, <1>1, RowsGrow
  <2>3. SeenIsThere'
    BY <1>0, <1>1, <2>1, <2>2 DEF SeenIsThere
  <2>4. WriterIsOwner'
    BY <1>0, <1>1, <2>1, <2>2 DEF WriterIsOwner
  <2> QED
    BY <2>3, <2>4
<1>2. ASSUME NEW t \in Task, NEW r \in Replies, Reply(t, r), Handler(t)
      PROVE  SeenIsThere' /\ WriterIsOwner'
  <2>1. task'[t].pc = "done"
    BY <1>0, <1>2, ReplyTask
  <2> QED
    BY <1>1, <1>2, <2>1
<1>3. ASSUME NEW t \in Task, Handler(t) PROVE SeenIsThere' /\ WriterIsOwner'
  <2>1. CASE Submit(t) \/ End(t)
    <3>1. task'[t].pc \in {"idle", "lookup"}
      BY <1>0, <2>1, FreshTask
    <3> QED
      BY <1>1, <1>3, <3>1
  <2>2. CASE Refuse(t) \/ Reread(t) \/ WriteAddress(t) \/ WriteAttributes(t)
    <3>1. \E r \in Replies : Reply(t, r)
      BY <2>2 DEF Refuse, Reread, WriteAddress, WriteAttributes, Replies
    <3> QED
      BY <1>2, <1>3, <3>1
  <2>3. CASE LookupToRegister(t)
    <3>1. CASE Proceed(t, "verify")
      <4>1. task'[t].pc = "verify" /\ task'[t].msg = task[t].msg
        BY <1>0, <3>1, ProceedTask
      <4>2. task[t].msg.op = "register"
        BY <2>3 DEF LookupToRegister
      <4> QED
        BY <1>1, <1>3, <4>1, <4>2
    <3>2. CASE Reply(t, "already_registered")
      BY <1>2, <1>3, <3>2 DEF Replies
    <3> QED
      BY <2>3, <3>1, <3>2 DEF LookupToRegister
  <2>4. CASE LookupToUpdate(t)
    <3>1. ASSUME NEW seen \in Addresses(task[t].msg.name),
                 task' = [task EXCEPT ![t].pc = "verify", ![t].seen = seen]
          PROVE  SeenIsThere' /\ WriterIsOwner'
      <4>1. /\ seen \in [Coin -> Address \cup {NULL}]
            /\ \A c \in Coin : seen[c] # NULL => RowOf(task[t].msg.name, c, seen[c]) \in rows
        BY <3>1 DEF Addresses
      <4>2. task'[t].pc = "verify" /\ task'[t].msg = task[t].msg /\ task'[t].seen = seen
        BY <1>0, <3>1, <4>1, LookupTask
      <4>3. rows' = rows
        BY <2>4 DEF LookupToUpdate
      <4> QED
        BY <1>1, <1>3, <4>1, <4>2, <4>3
    <3>2. CASE Reply(t, "not_registered") \/ Reply(t, "error")
      BY <1>2, <1>3, <3>2 DEF Replies
    <3> QED
      BY <2>4, <3>1, <3>2 DEF LookupToUpdate
  <2>5. CASE Verify(t)
    <3>1. CASE task[t].msg.genuine /\ Authorized(t) /\ Proceed(t, "write")
      <4>1. task'[t].pc = "write" /\ task'[t].msg = task[t].msg
        BY <1>0, <3>1, ProceedTask
      <4>2. rows' = rows /\ task[t].pc = "verify"
        BY <2>5 DEF Verify
      <4>3. task[t].msg \in Message
        BY <1>0, <4>2 DEF TypeInv, Busy
      <4>4. task[t].msg.coin \in Coin /\ task[t].msg.by \in Address /\ task[t].msg.by # NULL
        BY <4>3, MessageFields, NamesAssumption
      <4>5. task[t].msg.op # "register" => task[t].seen[task[t].msg.coin] = task[t].msg.by
        BY <3>1 DEF Authorized
      <4>6. task[t].msg.op # "register" =>
              RowOf(task[t].msg.name, task[t].msg.coin, task[t].msg.by) \in rows
        BY <1>0, <4>2, <4>4, <4>5 DEF SeenIsThere
      <4> QED
        BY <1>1, <1>3, <3>1, <4>1, <4>2, <4>6
    <3>2. CASE Reply(t, "bad_signature") \/ Reply(t, "not_owner")
      BY <1>2, <1>3, <3>2 DEF Replies
    <3> QED
      BY <2>5, <3>1, <3>2 DEF Verify
  <2>6. CASE InsertName(t)
    <3>1. CASE Proceed(t, "reread")
      <4>1. task'[t].pc = "reread"
        BY <1>0, <3>1, ProceedTask
      <4> QED
        BY <1>1, <1>3, <4>1
    <3>2. CASE Reply(t, "error")
      BY <1>2, <1>3, <3>2 DEF Replies
    <3> QED
      BY <2>6, <3>1, <3>2 DEF InsertName
  <2> QED
    BY <1>3, <2>1, <2>2, <2>3, <2>4, <2>5, <2>6 DEF Handler
<1>4. CASE UNCHANGED vars
  BY <1>0, <1>4 DEF vars, SeenIsThere, WriterIsOwner
<1> QED
  BY <1>3, <1>4 DEF Next

\* The owner invariant holds in every reachable state.
LEMMA OwnerInvariant == Spec => []OwnerInv
<1>1. Init => OwnerInv
  <2>1. Init => \A t \in Task : task[t].pc = "idle"
    BY DEF Init, Idle
  <2> QED
    BY <2>1, TypeInit DEF OwnerInv, SeenIsThere, WriterIsOwner
<1>2. OwnerInv /\ [Next]_vars => OwnerInv'
  <2>1. [Next]_vars => [AdminNext]_vars
    BY DEF AdminNext
  <2> QED
    BY <2>1, TypeStep, OwnerStep DEF OwnerInv
<1> QED
  BY <1>1, <1>2, PTL DEF Spec

-----------------------------------------------------------------------------
(* The theorems about owners. *)

\* A registered name changes only at the hand of a genuine signer who is, at
\* the moment of the write, one of the name's addresses, although the handler
\* compared it with addresses looked up before the signature check.
THEOREM NamesChangedByOwner == Spec => ChangedByOwner
<1>1. ASSUME OwnerInv, [Next]_vars,
             NEW n \in Name, Exists(n),
             names'[n] # names[n] \/ {r \in rows' : r.name = n} # {r \in rows : r.name = n}
      PROVE  \E t \in Task :
               LET m == task[t].msg
               IN  /\ task[t].pc = "write" /\ task'[t].pc # "write"
                   /\ m.name = n /\ m.genuine
                   /\ RowOf(n, m.coin, m.by) \in rows
  <2>0. TypeInv /\ WriterIsOwner /\ names \in [Name -> Attributes \cup {NULL}]
    BY <1>1 DEF OwnerInv, TypeInv, TypeOK
  <2>1. ~UNCHANGED <<names, rows>>
    BY <1>1
  <2>2. PICK t \in Task : Handler(t)
    BY <1>1, <2>1 DEF Next, vars
  <2> DEFINE m == task[t].msg
  <2>3. /\ task[t].pc = "write" /\ task'[t].pc # "write" /\ m \in Message
        /\ \/ m.op = "register" /\ Inserted(m)
           \/ m.op # "register" /\ Updated(m)
    BY <2>0, <2>1, <2>2, TableSteps DEF Quiet
  <2>4. m.name = n
    <3>1. SUFFICES ASSUME m.name # n PROVE FALSE
      OBVIOUS
    <3>2. m.name \in Name
      BY <2>3, MessageFields
    <3>3. names'[n] = names[n]
      BY <2>0, <2>3, <3>1, <3>2 DEF Inserted, Updated
    <3>4. \A r : r \in rows' /\ r.name = n => r \in rows
      BY <2>3, <3>1 DEF Inserted, Updated, RowOf
    <3>5. rows \subseteq rows'
      BY <2>0, <2>2, RowsGrow
    <3> QED
      BY <1>1, <3>3, <3>4, <3>5
  <2>5. m.op # "register"
    BY <1>1, <2>3, <2>4 DEF Inserted
  <2>6. m.genuine /\ RowOf(n, m.coin, m.by) \in rows
    BY <2>0, <2>3, <2>4, <2>5 DEF WriterIsOwner
  <2> QED
    BY <2>3, <2>4, <2>6
<1>2. OwnerInv /\ [Next]_vars => [\A n \in Name :
       /\ Exists(n)
       /\ names'[n] # names[n] \/ {r \in rows' : r.name = n} # {r \in rows : r.name = n}
       => \E t \in Task :
            LET m == task[t].msg
            IN  /\ task[t].pc = "write" /\ task'[t].pc # "write"
                /\ m.name = n /\ m.genuine
                /\ RowOf(n, m.coin, m.by) \in rows]_vars
  BY <1>1
<1> QED
  BY <1>2, OwnerInvariant, PTL DEF Spec, ChangedByOwner

\* A registration writes the row a name resolves with on Mainnet, and nothing
\* a handler does takes it away.
THEOREM NamesOnMainnet == Spec => []NamesResolveOnMainnet
<1>1. ASSUME TypeInv, NamesResolveOnMainnet, [Next]_vars PROVE NamesResolveOnMainnet'
  <2>0. names \in [Name -> Attributes \cup {NULL}]
    BY <1>1 DEF TypeInv, TypeOK
  <2>1. ASSUME NEW t \in Task, Handler(t) PROVE NamesResolveOnMainnet'
    <3> DEFINE m == task[t].msg
    <3>1. rows \subseteq rows'
      BY <1>1, <2>1, RowsGrow
    <3>2. ASSUME NEW n \in Name, Exists(n)', ~Exists(n)
          PROVE  RowOf(n, Mainnet, m.by) \in rows'
      <4>1. /\ m \in Message
            /\ \/ m.op = "register" /\ Inserted(m)
               \/ m.op # "register" /\ Updated(m)
        BY <1>1, <2>1, <3>2, TableSteps DEF Quiet, Exists
      <4>2. m.name \in Name
        BY <4>1, MessageFields
      <4>3. n = m.name
        BY <2>0, <3>2, <4>1, <4>2 DEF Inserted, Updated, Exists
      <4> QED
        BY <3>2, <4>1, <4>3 DEF Inserted, Updated
    <3>4. \A n : RowOf(n, Mainnet, m.by).coin = Mainnet /\ RowOf(n, Mainnet, m.by).name = n
      BY DEF RowOf
    <3> QED
      BY <1>1, <3>1, <3>2, <3>4 DEF NamesResolveOnMainnet
  <2>2. CASE UNCHANGED vars
    BY <1>1, <2>2 DEF vars, NamesResolveOnMainnet, Exists
  <2> QED
    BY <1>1, <2>1, <2>2 DEF Next
<1>2. Init => NamesResolveOnMainnet
  BY DEF Init, NamesResolveOnMainnet, Exists
<1>3. OwnerInv => TypeInv
  BY DEF OwnerInv
<1> QED
  BY <1>1, <1>2, <1>3, OwnerInvariant, PTL DEF Spec

-----------------------------------------------------------------------------
(* Who is told that a name is theirs. *)

\* A handler between its insert and its reply, or that has told its client the
\* name is registered, knows who holds the name.
HolderKnown ==
  \A t \in Task : task[t].pc = "reread" \/ task[t].reply = "registered" =>
    /\ task[t].pc # "idle"
    /\ Exists(task[t].msg.name) /\ holder[task[t].msg.name] = task[t].msg.by

\* Nothing a handler does takes a name from its holder.
LEMMA HolderStays ==
  ASSUME TypeInv, NEW t \in Task, Handler(t), NEW n \in Name, Exists(n)
  PROVE  names'[n] # NULL /\ holder'[n] = holder[n]
<1> DEFINE m == task[t].msg
<1>1. names \in [Name -> Attributes \cup {NULL}] /\ holder \in [Name -> Address \cup {NULL}]
  BY DEF TypeInv, TypeOK
<1>2. CASE Quiet
  BY <1>2 DEF Quiet, Exists
<1>3. CASE m \in Message /\ Inserted(m)
  <2>1. m.name # n
    BY <1>3 DEF Inserted
  <2> QED
    BY <1>1, <1>3, <2>1 DEF Inserted, Exists
<1>4. CASE m \in Message /\ Updated(m)
  <2>1. m.name \in Name /\ (m.op = "attributes" => m.attrs # NULL)
    BY <1>4, MessageFields, NamesAssumption
  <2> QED
    BY <1>1, <1>4, <2>1 DEF Updated, Exists
<1> QED
  BY <1>2, <1>3, <1>4, TableSteps

LEMMA HolderStep == TypeInv /\ HolderKnown /\ [Next]_vars => HolderKnown'
<1> SUFFICES ASSUME TypeInv, HolderKnown, [Next]_vars PROVE HolderKnown'
  OBVIOUS
<1>1. ASSUME NEW t \in Task, Handler(t),
             task'[t].pc = "reread" \/ task'[t].reply = "registered" =>
               /\ task'[t].pc # "idle"
               /\ names'[task'[t].msg.name] # NULL /\ holder'[task'[t].msg.name] = task'[t].msg.by
      PROVE  HolderKnown'
  <2>1. SUFFICES ASSUME NEW u \in Task, task'[u].pc = "reread" \/ task'[u].reply = "registered", u # t
                 PROVE  /\ task'[u].pc # "idle"
                        /\ names'[task'[u].msg.name] # NULL /\ holder'[task'[u].msg.name] = task'[u].msg.by
    <3>1. HolderKnown' <=> \A u \in Task : task'[u].pc = "reread" \/ task'[u].reply = "registered" =>
            /\ task'[u].pc # "idle"
            /\ names'[task'[u].msg.name] # NULL /\ holder'[task'[u].msg.name] = task'[u].msg.by
      BY DEF HolderKnown, Exists
    <3> QED
      BY <1>1, <3>1
  <2>2. task'[u] = task[u]
    BY <1>1, <2>1, HandlerTask DEF TaskStep
  <2>3. task[u].pc # "idle" /\ Exists(task[u].msg.name) /\ holder[task[u].msg.name] = task[u].msg.by
    BY <2>1, <2>2 DEF HolderKnown
  <2>4. task[u].msg.name \in Name
    BY <2>3, MessageFields DEF TypeInv, Busy
  <2> QED
    BY <1>1, <2>2, <2>3, <2>4, HolderStays
<1>2. ASSUME NEW t \in Task, Handler(t), task'[t].pc # "idle", task'[t].msg = task[t].msg, task[t].pc # "idle",
             task[t].pc = "reread" \/ task[t].reply = "registered"
      PROVE  HolderKnown'
  <2>1. task[t].msg.name \in Name /\ Exists(task[t].msg.name) /\ holder[task[t].msg.name] = task[t].msg.by
    BY <1>2, MessageFields DEF TypeInv, Busy, HolderKnown
  <2>2. names'[task[t].msg.name] # NULL /\ holder'[task[t].msg.name] = task[t].msg.by
    BY <1>2, <2>1, HolderStays
  <2>3. names'[task'[t].msg.name] # NULL
    BY <1>2, <2>2 DEF Exists
  <2> QED
    BY <1>1, <1>2, <2>2, <2>3
<1>3. ASSUME NEW t \in Task, Handler(t) PROVE HolderKnown'
  <2>1. CASE Submit(t) \/ End(t)
    <3>1. task \in [Task -> HandlerState]
      BY DEF TypeInv, TypeOK
    <3>2. task'[t].pc \in {"idle", "lookup"}
      BY <2>1, FreshTask
    <3>3. task'[t].reply = NULL
      BY <2>1, <3>1 DEF Submit, End, Idle
    <3> QED
      BY <1>1, <1>3, <3>2, <3>3, NamesAssumption
  <2>2. ASSUME NEW r \in Replies, Reply(t, r), task[t].pc # "idle",
               r = "registered" => task[t].pc = "reread"
        PROVE  HolderKnown'
    <3>1. task'[t].pc = "done" /\ task'[t].msg = task[t].msg /\ task'[t].reply = r
      BY <2>2, ReplyTask
    <3> QED
      BY <1>1, <1>2, <1>3, <2>2, <3>1
  <2>3. ASSUME NEW pc \in {"verify", "write"}, Proceed(t, pc), task[t].pc # "idle"
        PROVE  HolderKnown'
    <3>1. task'[t].pc = pc /\ task'[t].msg = task[t].msg /\ task'[t].reply = task[t].reply
      BY <2>3, ProceedTask
    <3> QED
      BY <1>1, <1>2, <1>3, <2>3, <3>1
  <2>4. CASE Refuse(t) \/ Reread(t) \/ WriteAddress(t) \/ WriteAttributes(t)
    BY <2>2, <2>4 DEF Refuse, Reread, WriteAddress, WriteAttributes, Replies
  <2>5. CASE LookupToRegister(t) \/ Verify(t)
    BY <2>2, <2>3, <2>5 DEF LookupToRegister, Verify, Replies
  <2>6. CASE LookupToUpdate(t)
    <3>1. ASSUME NEW seen \in Addresses(task[t].msg.name),
                 task' = [task EXCEPT ![t].pc = "verify", ![t].seen = seen]
          PROVE  HolderKnown'
      <4>1. task \in [Task -> HandlerState] /\ task[t].pc # "idle"
        BY <2>6 DEF TypeInv, TypeOK, LookupToUpdate
      <4>2. task'[t].pc = "verify" /\ task'[t].msg = task[t].msg /\ task'[t].reply = task[t].reply
        BY <3>1, <4>1 DEF HandlerState
      <4> QED
        BY <1>1, <1>2, <1>3, <4>1, <4>2
    <3> QED
      BY <2>2, <2>6, <3>1 DEF LookupToUpdate, Replies
  <2>7. CASE InsertName(t)
    <3>1. CASE Proceed(t, "reread")
      <4> DEFINE m == task[t].msg
      <4>1. task'[t].pc = "reread" /\ task'[t].msg = m
        BY <3>1, ProceedTask
      <4>2. m \in Message /\ m.name \in Name /\ m.op = "register" /\ m.attrs # NULL
        BY <2>7, MessageFields, NamesAssumption DEF InsertName, TypeInv, Busy
      <4>3. names' = [names EXCEPT ![m.name] = m.attrs] /\ holder' = [holder EXCEPT ![m.name] = m.by]
        BY <2>7, <3>1, <4>1, ReplyTask DEF InsertName, Replies
      <4>4. names'[m.name] # NULL /\ holder'[m.name] = m.by
        BY <4>2, <4>3 DEF Exists, TypeInv, TypeOK
      <4>5. names'[task'[t].msg.name] # NULL
        BY <4>1, <4>4 DEF Exists
      <4> QED
        BY <1>1, <1>3, <4>1, <4>4, <4>5
    <3>2. CASE Reply(t, "error")
      BY <2>2, <2>7, <3>2 DEF InsertName, Replies
    <3> QED
      BY <2>7, <3>1, <3>2 DEF InsertName
  <2> QED
    BY <1>3, <2>1, <2>4, <2>5, <2>6, <2>7 DEF Handler
<1>4. CASE UNCHANGED vars
  BY <1>4 DEF vars, HolderKnown, Exists
<1> QED
  BY <1>3, <1>4 DEF Next

\* Of any number of clients registering one name, the one whose insert came
\* first is the only one told that it is registered: the others' replies wait
\* for an insert of their own.
THEOREM NamesRegisteredOnce == Spec => []RegisteredIsHolder
<1>1. Init => HolderKnown
  <2>1. Idle.pc = "idle" /\ Idle.reply = NULL
    BY DEF Idle
  <2> QED
    BY <2>1, NamesAssumption DEF Init, HolderKnown
<1>2. OwnerInv => TypeInv
  BY DEF OwnerInv
<1>3. HolderKnown => RegisteredIsHolder
  BY DEF HolderKnown, RegisteredIsHolder
<1> QED
  BY <1>1, <1>2, <1>3, HolderStep, OwnerInvariant, PTL DEF Spec

=============================================================================
