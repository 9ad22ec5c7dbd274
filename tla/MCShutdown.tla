----------------------------- MODULE MCShutdown -----------------------------
(* Model checking of Shutdown on small instances. *)
EXTENDS Shutdown

\* Two prices, at one of which three requests wait.
Queues == <<1, 3>>
=============================================================================
