---------------------------- MODULE MCCashCustody ----------------------------
(* Instances of CashCustody for TLC: a cashier and a courier, who receives no *)
(* cash.  Shifts, handovers and clerks are interchangeable.                  *)
EXTENDS CashCustody

CONSTANTS cashier, courier

MCEmployee == {cashier, courier}
MCCashiers == {cashier}
MCSymmetry == Permutations(Shift) \cup Permutations(Transfer) \cup Permutations(Clerk)
=============================================================================
