--------------------------- MODULE BridgingPromise --------------------------
(***************************************************************************)
(* What polling a bridging order promises its client: an order is settled  *)
(* as completed only if its wallet was funded, as failed only if it is     *)
(* overdue; an order that is both may be settled either way, and the       *)
(* verdict of one poll overturned by another.  A funded or overdue order   *)
(* does not stay pending.                                                  *)
(***************************************************************************)
CONSTANTS Id

VARIABLES
  status,   \* [Id -> {"none", "pending", "completed", "error"}]
  funded,   \* the orders whose wallet has held the expected amount
  overdue   \* the orders past their timeout

vars == <<status, funded, overdue>>

Init ==
  /\ status = [i \in Id |-> "none"]
  /\ funded = {}
  /\ overdue = {}

\* The wallet may have been topped up while the order was being prepared.
Create(i) ==
  /\ status[i] = "none"
  /\ status' = [status EXCEPT ![i] = "pending"]
  /\ funded' \in {funded, funded \cup {i}}
  /\ UNCHANGED overdue

Known == {i \in Id : status[i] # "none"}

Fund ==
  /\ \E S \in SUBSET Known : funded' = funded \cup S
  /\ UNCHANGED <<status, overdue>>

Lapse ==
  /\ \E S \in SUBSET Known : overdue' = overdue \cup S
  /\ UNCHANGED <<status, funded>>

Verdict(i, v) ==
  /\ \/ v = "completed" /\ i \in funded
     \/ v = "error" /\ i \in overdue
  /\ status' = [status EXCEPT ![i] = v]
  /\ UNCHANGED <<funded, overdue>>

Settle(i) == status[i] = "pending" /\ \E v \in {"completed", "error"} : Verdict(i, v)

Overturn(i) ==
  /\ status[i] \in {"completed", "error"} /\ i \in funded \cap overdue
  /\ \E v \in {"completed", "error"} : Verdict(i, v)

Next == Fund \/ Lapse \/ \E i \in Id : Create(i) \/ Settle(i) \/ Overturn(i)

Fairness == \A i \in Id : WF_vars(Settle(i))

SafeSpec == Init /\ [][Next]_vars
Spec == SafeSpec /\ Fairness

=============================================================================
