---------------------------- MODULE MCSettlement ----------------------------
(* Model checking of Settlement on small instances. *)
EXTENDS Settlement, TLC

UserSymmetry == Permutations(Users)
=============================================================================
