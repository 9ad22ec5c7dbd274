------------------------------ MODULE MCClient ------------------------------
(* Model checking of Client on small instances. *)
EXTENDS Client
=============================================================================
