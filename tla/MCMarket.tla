------------------------------ MODULE MCMarket ------------------------------
(* Model checking of Market on small instances. *)
EXTENDS Market

=============================================================================
