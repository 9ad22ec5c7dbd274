----------------------------- MODULE MCFraming -----------------------------
(* Model checking of Framing on small instances. *)
EXTENDS Framing

MCKinds == [
    client |-> {"USER_AUTHORIZE", "CHECK_BALANCE_REQUEST", "USER_TRANSACTION_REQUEST"},
    server |-> {"USER_AUTHORIZE_RESPONSE", "ANNOUNCE_MESSAGE"}]
=============================================================================
