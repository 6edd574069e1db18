------------------------------ MODULE Sessions ------------------------------
(***************************************************************************)
(* Sessions and their permissions (src/handlers/sessions/): a wallet       *)
(* creates a permission, the server keeping the key it will co-sign with;  *)
(* an activation stores the permission's context, a revocation its end, and*)
(* a co-sign request is signed if the stored permission allows it.  The    *)
(* items live in IRN, an external store of hash maps whose records expire. *)
(* Revocation and activation read an item, change one field and write the  *)
(* whole item back, with nothing to keep two handlers apart.               *)
(***************************************************************************)
EXTENDS Integers, Sequences, FiniteSets

CONSTANTS
  Task,        \* requests under way at one time
  Pci,         \* permission control identifiers
  Key,         \* signing keys
  Grant,       \* permission sets clients ask for
  Batch,       \* execution batches; NULL for calldata that cannot be decoded
  Context,     \* contexts clients activate with
  RecordLife,  \* RECORDS_TTL
  Word,        \* values are U256 numbers, below this
  MaxTime,     \* bound: how far the clock goes
  NULL

\* A permission, and a transaction of a batch (call: its call data is not
\* empty).
Transaction == [to : STRING, value : 0..(Word - 1), call : BOOLEAN]
Permission == [type : {"contract-call"}, target : STRING]
              \cup [type : {"native-token-recurring-allowance"}, amount : 0..(Word - 1)]
              \cup [type : {"unsupported"}]

\* Contexts differ in the validator of their first 20 bytes: there are fewer,
\* it is the ownable validator, the smart sessions module or another one.  What
\* follows the address of the smart sessions module says how a session is
\* used, or is garbled.
SmartContext == {"use", "enable", "enable_ownable", "unsafe", "garbled"}
AnyContext == {"short", "ownable", "multikey"} \cup SmartContext

ASSUME InputsAssumption ==
  /\ Grant \subseteq SUBSET Permission
  /\ Batch \ {NULL} \subseteq Seq(Transaction)
  /\ Context \subseteq AnyContext /\ NULL \notin AnyContext /\ NULL \notin Key

ASSUME LifeAssumption ==
  RecordLife \in Nat \ {0} /\ Word \in Nat \ {0} /\ MaxTime \in Nat

VARIABLES
  item,     \* [Pci -> item or NULL]: what IRN holds
  task,     \* [Task -> record]: handlers under way
  now,      \* the clock
  granted,  \* history: [Pci -> the item as it was created, or NULL]
  revoked   \* history: the permissions whose revocation was acknowledged

history == <<granted, revoked>>
vars == <<item, task, now, history>>

Item == [key : Key, expiry : 0..MaxTime, permissions : Grant,
         context : Context \cup {NULL}, revoked : BOOLEAN]
Record == [value : Item, until : 0..(MaxTime + RecordLife)]

Requests ==
  [op : {"create"}, pci : Pci, expiry : 0..MaxTime, permissions : Grant]
  \cup [op : {"activate"}, pci : Pci, context : Context]
  \cup [op : {"revoke", "get"}, pci : Pci]
  \cup [op : {"cosign"}, pci : Pci, batch : Batch]

\* What tells an item, or a request, from none.
ASSUME NullAssumption == NULL \notin Item \cup Requests

\* A co-signature: by which key, when, and how its parts were put together.
CoSignature == [key : Key, at : 0..MaxTime, format : {<<"client", "server">>, <<"abi", "server", "client">>}]

Verdicts == {"revoked", "expired", "bad_calldata", "no_permissions", "unsupported", "denied",
             "not_activated", "signed"}

HandlerState ==
  [pc : {"idle", "read", "write", "done"}, req : Requests \cup {NULL}, read : Item \cup {NULL},
   reply : Verdicts \cup {"ok", "error", "not_found", NULL}, sig : CoSignature \cup {NULL}]

Idle == [pc |-> "idle", req |-> NULL, read |-> NULL, reply |-> NULL, sig |-> NULL]

Init ==
  /\ item = [p \in Pci |-> NULL]
  /\ task = [t \in Task |-> Idle]
  /\ now = 0
  /\ granted = [p \in Pci |-> NULL]
  /\ revoked = {}

-----------------------------------------------------------------------------
(* What the co-signer allows. *)

\* extract_values_sum_from_execution_batch: addition of U256 wraps.
Sum(batch) ==
  LET s[k \in 0..Len(batch)] == IF k = 0 THEN 0 ELSE (s[k - 1] + batch[k].value) % Word
  IN  s[Len(batch)]

\* extract_contract_call_addresses_from_execution_batch.
CallTargets(batch) == {batch[i].to : i \in {j \in DOMAIN batch : batch[j].call}}

OfType(permissions, type) == {q \in permissions : q.type = type}

\* Whether some contract permission covers a call of the batch.
AnyTargetGranted(contracts, batch) ==
  \/ CallTargets(batch) = {}
  \/ CallTargets(batch) \cap {q.target : q \in contracts} # {}

\* Whether every call of the batch has a contract permission of its own.
TargetsGranted(contracts, batch) == CallTargets(batch) \subseteq {q.target : q \in contracts}

\* The co-signer's checks of an item, in their order.
Verdict(i, batch) ==
  LET contracts == OfType(i.permissions, "contract-call")
      allowances == OfType(i.permissions, "native-token-recurring-allowance")
  IN  IF i.revoked THEN "revoked"
      ELSE IF i.expiry < now THEN "expired"
      ELSE IF batch = NULL THEN "bad_calldata"
      ELSE IF i.permissions = {} THEN "no_permissions"
      ELSE IF OfType(i.permissions, "unsupported") # {} THEN "unsupported"
      ELSE IF contracts # {} /\ ~TargetsGranted(contracts, batch) THEN "denied"
      ELSE IF allowances # {} /\ \A q \in allowances : Sum(batch) > q.amount THEN "denied"
      ELSE IF i.context \in {NULL, "short"} THEN "not_activated"
      ELSE "signed"

\* The signature: the server's and the client's, put together as the
\* validator of the context wants them.
Signature(i) ==
  [key |-> i.key, at |-> now,
   format |-> IF i.context = "ownable" THEN <<"client", "server">> ELSE <<"abi", "server", "client">>]

-----------------------------------------------------------------------------
(* The handlers. *)

Reply(t, r) == task' = [task EXCEPT ![t].pc = "done", ![t].read = NULL, ![t].reply = r]

\* A request arrives.  A new permission gets a fresh identifier and a key.
Submit(t) ==
  /\ task[t].pc = "idle"
  /\ \E r \in Requests :
       \/ /\ r.op = "create" /\ granted[r.pci] = NULL
          /\ \A u \in Task : task[u].req # NULL /\ task[u].req.op = "create" => task[u].req.pci # r.pci
          /\ \E k \in Key :
               task' = [task EXCEPT ![t] = [Idle EXCEPT !.pc = "write", !.req = r, !.read =
                          [key |-> k, expiry |-> r.expiry, permissions |-> r.permissions,
                           context |-> NULL, revoked |-> FALSE]]]
       \/ /\ r.op # "create"
          /\ task' = [task EXCEPT ![t] = [Idle EXCEPT !.pc = "read", !.req = r]]
  /\ UNCHANGED <<item, now, history>>

\* The project is not admitted, IRN not configured or failing, the address
\* malformed, the user operation's hash not to be had.
Refuse(t) ==
  /\ task[t].pc \in {"read", "write"}
  /\ Reply(t, "error")
  /\ UNCHANGED <<item, now, history>>

\* hget finds nothing.
NotFound(t) ==
  /\ task[t].pc = "read"
  /\ item[task[t].req.pci] = NULL
  /\ Reply(t, "not_found")
  /\ UNCHANGED <<item, now, history>>

\* hget finds the item the request is about.
Finds(t, op) ==
  /\ task[t].pc = "read" /\ task[t].req.op = op
  /\ item[task[t].req.pci] # NULL

\* get_session_context: the context, whatever has become of the permission.
GetContext(t) ==
  /\ Finds(t, "get")
  /\ Reply(t, "ok")
  /\ UNCHANGED <<item, now, history>>

ReadToRevoke(t) ==
  /\ Finds(t, "revoke")
  /\ LET v == item[task[t].req.pci].value
     IN  \/ v.revoked /\ Reply(t, "revoked")
         \/ ~v.revoked /\ task' = [task EXCEPT ![t].pc = "write", ![t].read = v]
  /\ UNCHANGED <<item, now, history>>

\* An activation asks neither whether the permission is revoked nor whether it
\* has expired.
ReadToActivate(t) ==
  /\ Finds(t, "activate")
  /\ task' = [task EXCEPT ![t].pc = "write", ![t].read = item[task[t].req.pci].value]
  /\ UNCHANGED <<item, now, history>>

\* The co-signer decides on the item it finds, without awaiting anything more.
Cosign(t) ==
  /\ Finds(t, "cosign")
  /\ LET v == item[task[t].req.pci].value
         verdict == Verdict(v, task[t].req.batch)
     IN  task' = [task EXCEPT ![t].pc = "done", ![t].reply = verdict,
                    ![t].sig = IF verdict = "signed" THEN Signature(v) ELSE NULL]
  /\ UNCHANGED <<item, now, history>>

UpdatedAdopts(t) ==
  LET r == task[t].req
      i == task[t].read
  IN  CASE r.op = "create" -> i
        [] r.op = "activate" -> [i EXCEPT !.context = r.context, !.expiry = MaxTime]
        [] r.op = "revoke" -> [i EXCEPT !.revoked = TRUE]

UpdatedRebuilds(t) ==
  LET r == task[t].req
      i == task[t].read
  IN  CASE r.op = "create" -> i
        [] r.op = "activate" -> [i EXCEPT !.context = r.context, !.revoked = FALSE]
        [] r.op = "revoke" -> [i EXCEPT !.revoked = TRUE]

\* The item a handler writes: the one it read, with one field changed.
Updated(t) ==
  LET r == task[t].req
      i == task[t].read
  IN  CASE r.op = "create" -> i
        [] r.op = "activate" -> [i EXCEPT !.context = r.context]
        [] r.op = "revoke" -> [i EXCEPT !.revoked = TRUE]

\* hset: the record starts a new life.
Hset(p, i) == item' = [item EXCEPT ![p] = [value |-> i, until |-> now + RecordLife]]

\* The write is done; its acknowledgement may be lost, to a timeout of IRN or
\* with a client that has gone.
Write(t) ==
  /\ task[t].pc = "write"
  /\ LET r == task[t].req
     IN  /\ Hset(r.pci, Updated(t))
         /\ granted' = [granted EXCEPT ![r.pci] = IF r.op = "create" THEN Updated(t) ELSE @]
         /\ \E reply \in {"ok", "error"} :
              /\ Reply(t, reply)
              /\ revoked' = IF r.op = "revoke" /\ reply = "ok" THEN revoked \cup {r.pci} ELSE revoked
  /\ UNCHANGED now

\* The reply has left, or the client has and its handler is dropped.
End(t) ==
  /\ task[t].pc # "idle"
  /\ task' = [task EXCEPT ![t] = Idle]
  /\ UNCHANGED <<item, now, history>>

\* Time passes, and IRN drops the records whose life is over.
Tick ==
  /\ now < MaxTime
  /\ now' = now + 1
  /\ item' = [p \in Pci |-> IF item[p] # NULL /\ item[p].until <= now + 1 THEN NULL ELSE item[p]]
  /\ UNCHANGED <<task, history>>

Handler(t) ==
  \/ Submit(t) \/ Refuse(t) \/ NotFound(t) \/ GetContext(t) \/ ReadToRevoke(t)
  \/ ReadToActivate(t) \/ Cosign(t) \/ Write(t) \/ End(t)

Next == Tick \/ \E t \in Task : Handler(t)

Spec == Init /\ [][Next]_vars

-----------------------------------------------------------------------------
(* Properties. *)

\* Shapes of the store and of the handlers' state.
TypeOK ==
  /\ item \in [Pci -> Record \cup {NULL}]
  /\ task \in [Task -> HandlerState]
  /\ now \in 0..MaxTime
  /\ granted \in [Pci -> Item \cup {NULL}]
  /\ revoked \subseteq Pci

\* The value a batch moves, without wrapping.
Value(batch) ==
  LET s[k \in 0..Len(batch)] == IF k = 0 THEN 0 ELSE s[k - 1] + batch[k].value
  IN  s[Len(batch)]

\* Within bounds: what a permission was created with allows a signature.
WithinGrant(g, b, sig) ==
  LET amounts == {q.amount : q \in OfType(g.permissions, "native-token-recurring-allowance")}
      targets == {q.target : q \in OfType(g.permissions, "contract-call")}
  IN  /\ sig.key = g.key /\ sig.at <= g.expiry
      /\ targets # {} => \A i \in DOMAIN b : b[i].call => b[i].to \in targets
      /\ amounts # {} /\ Value(b) < Word =>
           \E a \in amounts : Value(b) <= a /\ \A c \in amounts : c <= a

\* A co-signature stays within what the permission was created with, through
\* every activation, revocation and overwritten update in between: it is made
\* with the permission's own key, before its expiry, and for a batch whose
\* calls all go to granted contracts, if any are named, and whose value does
\* not exceed the largest allowance, if there is one (as long as it is a U256).
SignedWithinGrant ==
  \A t \in Task : task[t].sig # NULL =>
    WithinGrant(granted[task[t].req.pci], task[t].req.batch, task[t].sig)

\* A stored revocation is undone only by an activation that had read the
\* permission before it was revoked.
RevivedOnlyByRace ==
  [][\A p \in Pci :
       (item[p] # NULL /\ item[p].value.revoked
          /\ item'[p] # NULL /\ ~item'[p].value.revoked)
         => \E t \in Task : /\ task[t].pc = "write" /\ task'[t].pc = "done"
                            /\ task[t].req.op = "activate" /\ task[t].req.pci = p
                            /\ ~task[t].read.revoked]_vars

\* integration/sessions.test.ts, "check PCI is revoked": once a revocation is
\* acknowledged the permission is a revoked one.
RevokeTakesHold ==
  \A p \in revoked : item[p] # NULL => item[p].value.revoked

=============================================================================
