----------------------------- MODULE MCSessions -----------------------------
(* Model checking of Sessions on small instances. *)
EXTENDS Sessions

\* The listening clients are interchangeable, and so are logins and passwords.
ClientSymmetry == Permutations(Clients \ TestClients)
NameSymmetry == Permutations(Logins) \cup Permutations(Passwords)
SessionSymmetry == ClientSymmetry \cup NameSymmetry
=============================================================================
