------------------------- MODULE MCCompanyMembership -------------------------
(* Instances of CompanyMembership for TLC. *)
EXTENDS CompanyMembership, TLC

UserSymmetry == Permutations(Users) \cup Permutations(Slots)
================================================================================
