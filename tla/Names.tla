------------------------------- MODULE Names --------------------------------
(***************************************************************************)
(* Account names (src/handlers/profile/, src/database/helpers.rs): clients *)
(* register a name and change its addresses and attributes with signed     *)
(* messages.  A handler looks the name up, awaits the verification of the  *)
(* signature (a call to a chain), compares the signer with what it had     *)
(* looked up, and writes; any number of handlers run at once, and a client *)
(* that goes away cancels its handler at whatever await it has reached.    *)
(*                                                                         *)
(* The tables: names (primary key name) and addresses (primary key name,   *)
(* namespace, coin type AND address, rows deleted with their name).  The   *)
(* namespace is always eip155 and is left out.                             *)
(***************************************************************************)
EXTENDS Integers, FiniteSets

CONSTANTS
  Task,      \* requests under way at one time
  Admin,     \* callers of delete_address and delete_name
  Name, Address,
  Coin,      \* supported ENSIP-11 coin types
  Mainnet,   \* coin type 60
  Attributes,
  NULL

ASSUME NamesAssumption ==
  /\ Mainnet \in Coin
  /\ NULL \notin Attributes /\ NULL \notin Address /\ NULL # "registered"

(***************************************************************************)
(* A signed request: who claims to have signed it, on which coin type, and *)
(* whether the signature is that account's.                                *)
(***************************************************************************)
Signed == [name : Name, by : Address, coin : Coin, genuine : BOOLEAN]
Register == {[op |-> "register", name |-> s.name, by |-> s.by, coin |-> s.coin,
              genuine |-> s.genuine, attrs |-> x] : s \in Signed, x \in Attributes}
SetAddress == {[op |-> "address", name |-> s.name, by |-> s.by, coin |-> s.coin,
                genuine |-> s.genuine, newCoin |-> c, newAddress |-> a] :
                  s \in Signed, c \in Coin, a \in Address}
SetAttributes == {[op |-> "attributes", name |-> s.name, by |-> s.by, coin |-> s.coin,
                   genuine |-> s.genuine, attrs |-> x] : s \in Signed, x \in Attributes}
Message == Register \cup SetAddress \cup SetAttributes

VARIABLES
  names,    \* [Name -> attributes, or NULL]: the names table
  rows,     \* the addresses table: [name, coin, address]
  task,     \* [Task -> record]: handlers under way
  admin,    \* [Admin -> record]: calls of delete_address under way
  holder,   \* history: who registered each name last
  current   \* history: the last address written for a name and coin type

vars == <<names, rows, task, admin, holder, current>>

Row == [name : Name, coin : Coin, address : Address]
RowOf(n, c, a) == [name |-> n, coin |-> c, address |-> a]

Idle == [pc |-> "idle", msg |-> NULL, seen |-> NULL, reply |-> NULL]
Resting == [name |-> NULL]

Init ==
  /\ names = [n \in Name |-> NULL]
  /\ rows = {}
  /\ task = [t \in Task |-> Idle]
  /\ admin = [d \in Admin |-> Resting]
  /\ holder = [n \in Name |-> NULL]
  /\ current = [n \in Name |-> [c \in Coin |-> NULL]]

-----------------------------------------------------------------------------
(* Queries. *)

Exists(n) == names[n] # NULL

\* get_addresses_by_name collects the rows, which come in no order, into a map
\* by coin type: of several rows of a coin type, any may be the one kept.
Addresses(n) ==
  {m \in [Coin -> Address \cup {NULL}] :
     \A c \in Coin : IF \E r \in rows : r.name = n /\ r.coin = c
                     THEN RowOf(n, c, m[c]) \in rows
                     ELSE m[c] = NULL}

\* insert_or_update_address: the conflict target is the whole primary key, so
\* the row is added to those the coin type already has.
InsertOrUpdateAddress(n, c, a) == rows \cup {RowOf(n, c, a)}

InsertNameRowsAsSigned(n, c, a) == rows \cup {RowOf(n, c, a)}

\* The rows of a new name: the signer on the coin type signed on, and on
\* Mainnet when that is another.
InsertNameRows(n, c, a) == rows \cup {RowOf(n, c, a), RowOf(n, Mainnet, a)}

-----------------------------------------------------------------------------
(* The handlers. *)

Reply(t, r) == task' = [task EXCEPT ![t].pc = "done", ![t].seen = NULL, ![t].reply = r]
Proceed(t, pc) == task' = [task EXCEPT ![t].pc = pc]

\* A request arrives.
Submit(t) ==
  /\ task[t].pc = "idle"
  /\ \E m \in Message :
       task' = [task EXCEPT ![t] = [pc |-> "lookup", msg |-> m, seen |-> NULL, reply |-> NULL]]
  /\ UNCHANGED <<names, rows, admin, holder, current>>

\* A malformed request is refused before the lookup, one with an expired
\* timestamp after it, one with unsupported attributes after either.
Refuse(t) ==
  /\ \/ task[t].pc \in {"lookup", "verify"}
     \/ task[t].pc = "write" /\ task[t].msg.op = "attributes"
  /\ Reply(t, "invalid")
  /\ UNCHANGED <<names, rows, admin, holder, current>>

\* A registration looks whether the name is taken; a failing query reads as
\* "not taken".
LookupToRegister(t) ==
  /\ task[t].pc = "lookup" /\ task[t].msg.op = "register"
  /\ \/ Exists(task[t].msg.name) /\ Reply(t, "already_registered")
     \/ ~Exists(task[t].msg.name) /\ Proceed(t, "verify")
     \/ Proceed(t, "verify")
  /\ UNCHANGED <<names, rows, admin, holder, current>>

\* An update looks up the addresses it will compare the signer with.
LookupToUpdate(t) ==
  /\ task[t].pc = "lookup" /\ task[t].msg.op # "register"
  /\ \/ ~Exists(task[t].msg.name) /\ Reply(t, "not_registered")
     \/ /\ Exists(task[t].msg.name)
        /\ \E seen \in Addresses(task[t].msg.name) :
             task' = [task EXCEPT ![t].pc = "verify", ![t].seen = seen]
     \/ Reply(t, "error")
  /\ UNCHANGED <<names, rows, admin, holder, current>>

AuthorizedIfSeen(t) ==
  LET m == task[t].msg
  IN  IF m.op = "register" THEN TRUE ELSE task[t].seen[m.coin] \in {m.by, NULL}

\* Whether the signer is the address seen for the coin type signed on.
Authorized(t) ==
  LET m == task[t].msg
  IN  IF m.op = "register" THEN TRUE ELSE task[t].seen[m.coin] = m.by

\* The chain answers whether the signature is good; then the signer is checked.
Verify(t) ==
  /\ task[t].pc = "verify"
  /\ \/ ~task[t].msg.genuine /\ Reply(t, "bad_signature")
     \/ task[t].msg.genuine /\ ~Authorized(t) /\ Reply(t, "not_owner")
     \/ task[t].msg.genuine /\ Authorized(t) /\ Proceed(t, "write")
     \/ Reply(t, "bad_signature")
  /\ UNCHANGED <<names, rows, admin, holder, current>>

InsertNameUpserts(t) ==
  LET m == task[t].msg
  IN  /\ task[t].pc = "write" /\ m.op = "register"
      /\ names' = [names EXCEPT ![m.name] = m.attrs]
      /\ rows' = InsertNameRows(m.name, m.coin, m.by)
      /\ holder' = [holder EXCEPT ![m.name] = IF Exists(m.name) THEN @ ELSE m.by]
      /\ Proceed(t, "reread")
      /\ UNCHANGED <<admin, current>>

\* insert_name, one transaction: the name and its addresses, or, when the
\* primary key says the name is taken, nothing.
InsertName(t) ==
  LET m == task[t].msg
  IN  /\ task[t].pc = "write" /\ m.op = "register"
      /\ \/ /\ ~Exists(m.name)
            /\ names' = [names EXCEPT ![m.name] = m.attrs]
            /\ rows' = InsertNameRows(m.name, m.coin, m.by)
            /\ holder' = [holder EXCEPT ![m.name] = m.by]
            /\ current' = [current EXCEPT ![m.name] = [c \in Coin |->
                             IF c \in {m.coin, Mainnet} THEN m.by ELSE NULL]]
            /\ Proceed(t, "reread")
         \/ Reply(t, "error") /\ UNCHANGED <<names, rows, holder, current>>
      /\ UNCHANGED admin

\* The registered name is read back for the reply.
Reread(t) ==
  /\ task[t].pc = "reread"
  /\ \/ Exists(task[t].msg.name) /\ Reply(t, "registered")
     \/ ~Exists(task[t].msg.name) /\ Reply(t, "lost")
     \/ Reply(t, "error")
  /\ UNCHANGED <<names, rows, admin, holder, current>>

\* The address row is inserted; the foreign key refuses it without its name.
WriteAddress(t) ==
  LET m == task[t].msg
  IN  /\ task[t].pc = "write" /\ m.op = "address"
      /\ \/ /\ Exists(m.name)
            /\ rows' = InsertOrUpdateAddress(m.name, m.newCoin, m.newAddress)
            /\ current' = [current EXCEPT ![m.name][m.newCoin] = m.newAddress]
            /\ Reply(t, "updated")
         \/ Reply(t, "error") /\ UNCHANGED <<rows, current>>
      /\ UNCHANGED <<names, admin, holder>>

\* update_name_attributes replaces the attributes of the row, if there is one.
WriteAttributes(t) ==
  LET m == task[t].msg
  IN  /\ task[t].pc = "write" /\ m.op = "attributes"
      /\ \/ /\ Exists(m.name)
            /\ names' = [names EXCEPT ![m.name] = m.attrs]
            /\ Reply(t, "updated")
         \/ Reply(t, "error") /\ UNCHANGED names
      /\ UNCHANGED <<rows, admin, holder, current>>

\* The reply has left, or the client has and its handler is dropped.
End(t) ==
  /\ task[t].pc # "idle"
  /\ task' = [task EXCEPT ![t] = Idle]
  /\ UNCHANGED <<names, rows, admin, holder, current>>

Handler(t) ==
  \/ Submit(t) \/ Refuse(t) \/ LookupToRegister(t) \/ LookupToUpdate(t) \/ Verify(t)
  \/ InsertName(t) \/ Reread(t) \/ WriteAddress(t) \/ WriteAttributes(t) \/ End(t)

Next == \E t \in Task : Handler(t)

Spec == Init /\ [][Next]_vars

-----------------------------------------------------------------------------
(* The deletions of the database helpers, which no handler calls. *)

\* delete_address first counts the coin types of the name...
DeleteAddressCheck(d) ==
  /\ admin[d].name = NULL
  /\ \E r \in rows : \E m \in Addresses(r.name) :
       /\ Cardinality({c \in Coin : m[c] # NULL}) # 1
       /\ admin' = [admin EXCEPT ![d] = r]
  /\ UNCHANGED <<names, rows, task, holder, current>>

\* ... and then deletes the row in a statement of its own.
DeleteAddress(d) ==
  /\ admin[d].name # NULL
  /\ rows' = rows \ {admin[d]}
  /\ admin' = [admin EXCEPT ![d] = Resting]
  /\ UNCHANGED <<names, task, holder, current>>

\* delete_name takes the addresses along (ON DELETE CASCADE).
DeleteName(d) ==
  /\ admin[d].name = NULL
  /\ \E n \in Name :
       /\ Exists(n)
       /\ names' = [names EXCEPT ![n] = NULL]
       /\ rows' = {r \in rows : r.name # n}
       /\ holder' = [holder EXCEPT ![n] = NULL]
       /\ current' = [current EXCEPT ![n] = [c \in Coin |-> NULL]]
  /\ UNCHANGED <<task, admin>>

AdminNext ==
  \/ Next
  \/ \E d \in Admin : DeleteAddressCheck(d) \/ DeleteAddress(d) \/ DeleteName(d)

AdminSpec == Init /\ [][AdminNext]_vars

-----------------------------------------------------------------------------
(* Properties. *)

HandlerState ==
  [pc : {"idle", "lookup", "verify", "write", "reread", "done"},
   msg : Message \cup {NULL},
   seen : [Coin -> Address \cup {NULL}] \cup {NULL},
   reply : {NULL, "invalid", "already_registered", "not_registered", "bad_signature",
            "not_owner", "error", "registered", "lost", "updated"}]

\* Shapes of the tables and of the handlers' state.
TypeOK ==
  /\ names \in [Name -> Attributes \cup {NULL}]
  /\ rows \subseteq Row
  /\ task \in [Task -> HandlerState]
  /\ admin \in [Admin -> Row \cup {Resting}]
  /\ holder \in [Name -> Address \cup {NULL}]
  /\ current \in [Name -> [Coin -> Address \cup {NULL}]]

\* A name resolves on Mainnet from its registration on, whatever coin type it
\* was registered with.
NamesResolveOnMainnet ==
  \A n \in Name : Exists(n) => \E r \in rows : r.name = n /\ r.coin = Mainnet

\* Of clients that register one name at the same time, only the one whose
\* insert came first is told the name is theirs.
RegisteredIsHolder ==
  \A t \in Task : task[t].reply = "registered" => holder[task[t].msg.name] = task[t].msg.by

\* A registered name changes only at the hand of a handler whose genuine
\* signer is, at the moment of the write, an address of the name on the coin
\* type it signed for, although the handler looked the addresses up before it
\* awaited the signature check.
ChangedByOwner ==
  [][\A n \in Name :
       /\ Exists(n)
       /\ names'[n] # names[n] \/ {r \in rows' : r.name = n} # {r \in rows : r.name = n}
       => \E t \in Task :
            LET m == task[t].msg
            IN  /\ task[t].pc = "write" /\ task'[t].pc # "write"
                /\ m.name = n /\ m.genuine
                /\ RowOf(n, m.coin, m.by) \in rows]_vars

\* No address row outlives its name, although an update may have looked the
\* name up before it was deleted.
NoOrphanRows == \A r \in rows : Exists(r.name)

\* integration/names.test.ts, "Query the name to see if the address was
\* updated": a lookup returns the address the last update wrote.
LookupShowsUpdate ==
  \A n \in Name : \A m \in Addresses(n) :
    Exists(n) => \A c \in Coin : m[c] = current[n][c]

=============================================================================
