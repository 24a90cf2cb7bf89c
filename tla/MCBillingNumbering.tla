--------------------------- MODULE MCBillingNumbering ---------------------------
(* BillingNumbering for TLC. *)
EXTENDS BillingNumbering, TLC

Symmetry == Permutations(Slots)
================================================================================
