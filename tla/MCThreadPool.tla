---------------------------- MODULE MCThreadPool ----------------------------
(* Model checking of ThreadPool on small instances. *)
EXTENDS ThreadPool

LoopWeights == {-1}
MixedWeights == {-1, 0, 2}
=============================================================================
