------------------------------- MODULE Reads -------------------------------
(***************************************************************************)
(* The read handlers together: those of BalanceReads and those of          *)
(* IdentityReads work side by side in one process and share the clock and  *)
(* nothing else.                                                           *)
(***************************************************************************)
EXTENDS BalanceReads, IdentityReads

readsVars == <<now, balanceVars, identityVars>>

ReadsInit == now = 0 /\ BalanceInit /\ IdentityInit

BalanceTurn == BalanceNext /\ UNCHANGED <<now, identityVars>>

IdentityTurn == IdentityNext /\ UNCHANGED <<now, balanceVars>>

\* Time passes when neither side keeps it.
Tick ==
  /\ BalanceMayTick /\ IdentityMayTick
  /\ now' = now + 1 /\ BalanceTick /\ IdentityTick

ReadsNext == BalanceTurn \/ IdentityTurn \/ Tick

ReadsSpec == ReadsInit /\ [][ReadsNext]_readsVars
=============================================================================
