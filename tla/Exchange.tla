------------------------------ MODULE Exchange ------------------------------
(***************************************************************************)
(* What the market promises, without price lists, cached bounds or a       *)
(* search: a set of waiting requests, and one incoming request that trades *)
(* with the suitable offer first in price-time order until it is fulfilled *)
(* or no suitable offer is left, and then waits itself.  Market implements *)
(* this specification.                                                     *)
(***************************************************************************)
EXTENDS Integers

CONSTANTS Users, MaxPrice, MaxUsd, MaxRequests, NoRequest

SELL == 0
BUY == 1

VARIABLES
    waiting,   \* the requests that wait for a suitable offer
    incoming,  \* the request being served, or NoRequest
    rub, usd,  \* the users' balances
    posted     \* how many requests were posted

vars == <<waiting, incoming, rub, usd, posted>>

Init ==
    /\ waiting = {}
    /\ incoming = NoRequest
    /\ rub = [u \in Users |-> 0]
    /\ usd = [u \in Users |-> 0]
    /\ posted = 0

Meets(o, r) == IF r.type = SELL THEN o.price >= r.price ELSE o.price <= r.price

\* The offers the incoming request may trade with: never the user's own.
Suitable == {o \in waiting : o.type # incoming.type /\ o.user # incoming.user /\ Meets(o, incoming)}

\* A better price, or the same price and posted earlier.
Precedes(o, r) ==
    \/ IF r.type = SELL THEN o.price < r.price ELSE o.price > r.price
    \/ o.price = r.price /\ o.id < r.id

Post(u, t, p, a) ==
    /\ incoming = NoRequest
    /\ posted < MaxRequests
    /\ incoming' = [id |-> posted + 1, user |-> u, type |-> t, price |-> p, usd |-> a]
    /\ posted' = posted + 1
    /\ UNCHANGED <<waiting, rub, usd>>

Wait ==
    /\ incoming # NoRequest
    /\ Suitable = {}
    /\ waiting' = waiting \cup {incoming}
    /\ incoming' = NoRequest
    /\ UNCHANGED <<rub, usd, posted>>

\* a USD change hands at the price of the incoming request.
Trade(o, a) ==
    LET buyer == IF o.type = BUY THEN o.user ELSE incoming.user
        seller == IF o.type = BUY THEN incoming.user ELSE o.user
    IN  /\ usd' = [usd EXCEPT ![buyer] = @ + a, ![seller] = @ - a]
        /\ rub' = [rub EXCEPT ![buyer] = @ - incoming.price * a, ![seller] = @ + incoming.price * a]
        /\ waiting' = (waiting \ {o}) \cup (IF o.usd = a THEN {} ELSE {[o EXCEPT !.usd = @ - a]})
        /\ incoming' = IF incoming.usd = a THEN NoRequest ELSE [incoming EXCEPT !.usd = @ - a]
        /\ UNCHANGED posted

Serve ==
    /\ incoming # NoRequest
    /\ \E o \in Suitable :
        /\ \A other \in Suitable : ~Precedes(other, o)
        /\ Trade(o, IF o.usd <= incoming.usd THEN o.usd ELSE incoming.usd)

Next ==
    \/ \E u \in Users, t \in {SELL, BUY}, p \in 1..MaxPrice, a \in 1..MaxUsd : Post(u, t, p, a)
    \/ Wait
    \/ Serve

Spec == Init /\ [][Next]_vars
=============================================================================
