------------------------------ MODULE MCNames -------------------------------
(***************************************************************************)
(* Names for TLC: one contested name, two accounts, Mainnet and another    *)
(* coin type.                                                              *)
(***************************************************************************)
EXTENDS Names, TLC

CONSTANTS t1, t2, a1, a2

TaskSymmetry == Permutations(Task)
AddressSymmetry == Permutations(Address)
Symmetry == TaskSymmetry \cup AddressSymmetry
=============================================================================
