------------------------------- MODULE Ledger -------------------------------
(***************************************************************************)
(* What settling a trade promises to everybody who asks for a balance: a   *)
(* trade changes both balances of both parties at once, and a balance that *)
(* is reported is one that the user had between two trades.  Settlement    *)
(* implements this specification.                                          *)
(***************************************************************************)
EXTENDS Integers

CONSTANTS Users, Prices, MaxUsd, HalfRange, NoReport

VARIABLES
    rub, usd,  \* the users' balances
    reported   \* the balance that was reported last

vars == <<rub, usd, reported>>

Init ==
    /\ rub = [u \in Users |-> 0]
    /\ usd = [u \in Users |-> 0]
    /\ reported = NoReport

\* Balances have a width, and wrap around at its end.
Balance(n) == ((n + HalfRange) % (2 * HalfRange)) - HalfRange

Trade(buyer, seller, price, amount) ==
    /\ buyer # seller
    /\ usd' = [usd EXCEPT ![buyer] = Balance(@ + amount), ![seller] = Balance(@ - amount)]
    /\ rub' = [rub EXCEPT ![buyer] = Balance(@ - price * amount),
                          ![seller] = Balance(@ + price * amount)]
    /\ UNCHANGED reported

Report(u) ==
    /\ reported' = [user |-> u, rub |-> rub[u], usd |-> usd[u]]
    /\ UNCHANGED <<rub, usd>>

Next ==
    \/ \E b, s \in Users, p \in Prices, a \in 1..MaxUsd : Trade(b, s, p, a)
    \/ \E u \in Users : Report(u)

Spec == Init /\ [][Next]_vars
=============================================================================
