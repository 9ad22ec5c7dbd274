------------------------------- MODULE Market -------------------------------
(***************************************************************************)
(* TransactionManager, TransactionRequest and TransactionList: the order   *)
(* book of the server and the loop of addRequest that matches one incoming *)
(* request against it.                                                     *)
(*                                                                         *)
(* The two halves of addRequest (lines 59-173 for a sell, 174-289 for a    *)
(* buy) are mirror images.  They are modelled once, over the type of the   *)
(* request: requests[TRANSACTION_TYPE_SELL] is sell_requests,              *)
(* lowest[TRANSACTION_TYPE_BUY] is buy_min, and so on.  One action is one  *)
(* turn of the loop between two jumps to its label ("sell:" or "buy:").    *)
(*                                                                         *)
(* addRequest runs on the io_service thread only, one packet after the     *)
(* other, so a turn of the loop is atomic and the next request is taken    *)
(* when the previous one has left the loop.                                *)
(***************************************************************************)
EXTENDS Integers, Sequences, SequencesExt

CONSTANTS
    Users,        \* the authorized users
    MaxPrice,     \* bound: requests ask for 1..MaxPrice RUB per unit
    MaxUsd,       \* bound: requests ask for 1..MaxUsd USD
    MaxRequests,  \* bound: requests posted in one behaviour
    NoRequest     \* addRequest is not running

TRANSACTION_TYPE_SELL == 0
TRANSACTION_TYPE_BUY == 1
Types == {TRANSACTION_TYPE_SELL, TRANSACTION_TYPE_BUY}
Prices == 1..MaxPrice

\* A TransactionRequest.  Its id stands for its address: the order of allocation.
TransactionRequests ==
    [id : 1..MaxRequests, user : Users, type : Types, price : Prices, usd : 1..MaxUsd]

ASSUME MarketAssumption ==
    /\ MaxPrice \in Nat
    /\ MaxUsd \in Nat
    /\ MaxRequests \in Nat
    /\ NoRequest \notin TransactionRequests

VARIABLES
    requests,  \* by type: a queue of requests at every price that has a TransactionList
    lowest,    \* by type: sell_min, buy_min; -1 for none
    highest,   \* by type: sell_max, buy_max; -1 for none
    rq,        \* the request addRequest is working on
    cursor,    \* its local _buy_max or _sell_min: the price level it looks at; -1 for none
    rub,       \* User::rub
    usd,       \* User::usd
    count      \* TransactionRequests allocated so far

vars == <<requests, lowest, highest, rq, cursor, rub, usd, count>>

Init ==
    /\ requests = [t \in Types |-> [p \in {} |-> << >>]]
    /\ lowest = [t \in Types |-> -1]
    /\ highest = [t \in Types |-> -1]
    /\ rq = NoRequest
    /\ cursor = -1
    /\ rub = [u \in Users |-> 0]
    /\ usd = [u \in Users |-> 0]
    /\ count = 0

-----------------------------------------------------------------------------
(* The book.  A map of price levels is a function from the prices present.  *)

Other(t) == 1 - t
Lesser(a, b) == IF a <= b THEN a ELSE b
MaxOrNone(S) == IF S = {} THEN -1 ELSE Max(S)
MinOrNone(S) == IF S = {} THEN -1 ELSE Min(S)

\* The price a new request of the other type starts from: buy_max or sell_min.
Best(t, low, high) == IF t = TRANSACTION_TYPE_BUY THEN high[t] ELSE low[t]

\* _buy_max >= rq->getPrice() for a sell, _sell_min <= rq->getPrice() for a buy.
\* Mutant: the comparison not turned round in the buy half.
AcceptableOneWay(r, p) == p >= r.price
\* Mutant: a level at the very price of the request is left alone.
AcceptableStrict(r, p) == IF r.type = TRANSACTION_TYPE_SELL THEN p > r.price ELSE p < r.price
Acceptable(r, p) == IF r.type = TRANSACTION_TYPE_SELL THEN p >= r.price ELSE p <= r.price

\* push_back onto the list at the request's price, made first when there is none.
\* Mutant: the newest request goes to the front of its list.
EnqueuedFront(levels, r) ==
    [p \in DOMAIN levels \cup {r.price} |->
        IF p # r.price THEN levels[p]
        ELSE IF p \in DOMAIN levels THEN <<r>> \o levels[p] ELSE <<r>>]
Enqueued(levels, r) ==
    [p \in DOMAIN levels \cup {r.price} |->
        IF p # r.price THEN levels[p]
        ELSE IF p \in DOMAIN levels THEN Append(levels[p], r) ELSE <<r>>]

\* The queue after amount of its i-th request was served; a fulfilled request is erased.
\* Mutant: a fulfilled request stays in its list.
ServedKept(q, i, amount) == [q EXCEPT ![i].usd = @ - amount]
Served(q, i, amount) ==
    IF q[i].usd = amount THEN RemoveAt(q, i) ELSE [q EXCEPT ![i].usd = @ - amount]

\* The levels when the queue at price p has become q; an emptied list is erased.
WithQueue(levels, p, q) ==
    IF q = << >> THEN Restrict(levels, DOMAIN levels \ {p}) ELSE [levels EXCEPT ![p] = q]

\* buy_max, sell_max after a list was erased: the next price below that has a list.
HighestOf(levels, old) ==
    IF old \in DOMAIN levels THEN old ELSE MaxOrNone({p \in DOMAIN levels : p < old})
\* buy_min, sell_min after a list was erased: searched from 0 up to the new maximum.
\* Mutant: the minimum is left as it was.
LowestStale(levels, old, high) == old
LowestOf(levels, old, high) ==
    IF old \in DOMAIN levels THEN old ELSE MinOrNone({p \in DOMAIN levels : p <= high})

\* The price levels that the search of a skipped level goes through.
Behind(t, p) ==
    IF t = TRANSACTION_TYPE_BUY
    THEN {i \in DOMAIN requests[t] : i < p}
    ELSE {i \in DOMAIN requests[t] : p < i /\ i <= highest[t]}
NextLevel(t, p) ==
    IF t = TRANSACTION_TYPE_BUY THEN Max(Behind(t, p)) ELSE Min(Behind(t, p))

\* The level to look at after one that holds only the user's own requests.
\* Mutant: the "if(sameUser)" that ends the search is dropped.
SkippedForever(t, p, sameUser) == IF Behind(t, p) # {} THEN NextLevel(t, p) ELSE p
Skipped(t, p, sameUser) ==
    IF Behind(t, p) # {} THEN NextLevel(t, p) ELSE IF sameUser THEN -1 ELSE p

\* The first request in the queue that is not the user's own.
\* Mutant: only the head of the list is looked at.
HeadOfOthers(q, u) == {i \in DOMAIN q : i = 1 /\ q[i].user # u}
FirstOfOthers(q, u) == {i \in DOMAIN q : q[i].user # u /\ \A j \in DOMAIN q : j < i => q[j].user = u}

-----------------------------------------------------------------------------
(* The loop of addRequest *)

\* handleUserTransactionRequest and the entry of addRequest.  The server only refuses an amount
\* of zero (session.cpp:157-161).  That the type is one of the two, and price and amount are not
\* negative, is what the client's menu and its tests send (client/main.cpp:106-108, 136-140,
\* 172-217): with any other type perform would do nothing and the loop would not end.
Submit(u, t, p, a) ==
    /\ rq = NoRequest
    /\ a # 0
    /\ count < MaxRequests
    /\ rq' = [id |-> count + 1, user |-> u, type |-> t, price |-> p, usd |-> a]
    /\ count' = count + 1
    /\ cursor' = Best(Other(t), lowest, highest)
    /\ UNCHANGED <<requests, lowest, highest, rub, usd>>

\* Nothing, or nothing more, to trade with: the request is put on its list.
Rest ==
    /\ rq # NoRequest
    /\ cursor = -1 \/ ~Acceptable(rq, cursor)
    /\ requests' = [requests EXCEPT ![rq.type] = Enqueued(@, rq)]
    /\ highest' = [highest EXCEPT ![rq.type] = IF rq.price > @ THEN rq.price ELSE @]
    /\ lowest' = [lowest EXCEPT ![rq.type] = IF @ = -1 \/ rq.price < @ THEN rq.price ELSE @]
    /\ rq' = NoRequest
    /\ cursor' = -1
    /\ UNCHANGED <<rub, usd, count>>

\* The lists of both the branches below are read with operator[], which would make a
\* null list at a price that has none and dereference it: CursorOnLevel rules that out.
AtLevel ==
    /\ rq # NoRequest
    /\ cursor # -1
    /\ Acceptable(rq, cursor)
    /\ cursor \in DOMAIN requests[Other(rq.type)]

\* ind == -1: every request of the list is the user's own.
SkipOwnLevel ==
    /\ AtLevel
    /\ LET t == Other(rq.type)
           q == requests[t][cursor]
       IN  /\ FirstOfOthers(q, rq.user) = {}
           /\ cursor' = Skipped(t, cursor, q # << >>)
    /\ UNCHANGED <<requests, lowest, highest, rq, rub, usd, count>>

\* TransactionRequest::perform, called on the resting request r with the incoming
\* one as its parameter: the price is the parameter's, the amount the lesser of the two.
Settle(r, amount) ==
    LET buyer == IF rq.type = TRANSACTION_TYPE_BUY THEN rq ELSE r
        seller == IF rq.type = TRANSACTION_TYPE_BUY THEN r ELSE rq
    IN  /\ usd' = [usd EXCEPT ![buyer.user] = @ + amount, ![seller.user] = @ - amount]
        /\ rub' = [rub EXCEPT ![buyer.user] = @ - rq.price * amount,
                              ![seller.user] = @ + rq.price * amount]

\* The level to look at after a trade: the best one again when a list was erased.
\* Mutant: the erased level is looked at again.
CursorStays(t, emptied) == cursor
CursorAfter(t, emptied) == IF emptied THEN Best(t, lowest', highest') ELSE cursor

\* A trade with the first request of the list that is another user's.
Perform ==
    /\ AtLevel
    /\ LET t == Other(rq.type)
           q == requests[t][cursor]
       IN  \E i \in FirstOfOthers(q, rq.user) :
            LET amount == Lesser(q[i].usd, rq.usd)
                left == Served(q, i, amount)
                levels == WithQueue(requests[t], cursor, left)
            IN  /\ Settle(q[i], amount)
                /\ requests' = [requests EXCEPT ![t] = levels]
                /\ highest' = [highest EXCEPT ![t] = HighestOf(levels, @)]
                /\ lowest' = [lowest EXCEPT ![t] = LowestOf(levels, @, highest'[t])]
                /\ IF rq.usd = amount
                   THEN rq' = NoRequest /\ cursor' = -1
                   ELSE /\ rq' = [rq EXCEPT !.usd = @ - amount]
                        /\ cursor' = CursorAfter(t, left = << >>)
    /\ UNCHANGED count

\* io_service->run() with no packet to handle.
Idle == rq = NoRequest /\ UNCHANGED vars

Match == Rest \/ SkipOwnLevel \/ Perform

Next ==
    \/ \E u \in Users, t \in Types, p \in Prices, a \in 0..MaxUsd : Submit(u, t, p, a)
    \/ Match
    \/ Idle

Spec == Init /\ [][Next]_vars
FairSpec == Spec /\ WF_vars(Match)

-----------------------------------------------------------------------------
(* Properties *)

RestingRequests ==
    UNION {UNION {Range(requests[t][p]) : p \in DOMAIN requests[t]} : t \in Types}

\* Every variable has its type; in particular every list in a map has a request, and
\* no request that is on a list or in the loop is already fulfilled.
TypeOK ==
    /\ requests = [t \in Types |-> requests[t]]
    /\ \A t \in Types :
        /\ DOMAIN requests[t] \subseteq Prices
        /\ requests[t] \in [DOMAIN requests[t] -> Seq(TransactionRequests)]
        /\ \A p \in DOMAIN requests[t] : requests[t][p] # << >>
    /\ lowest \in [Types -> Prices \cup {-1}]
    /\ highest \in [Types -> Prices \cup {-1}]
    /\ rq \in TransactionRequests \cup {NoRequest}
    /\ cursor \in Prices \cup {-1}
    /\ rub \in [Users -> Int]
    /\ usd \in [Users -> Int]
    /\ count \in 0..MaxRequests

\* buy_min, buy_max, sell_min and sell_max, kept up to date by hand in four places,
\* are always the least and greatest price that has a list: the client shows them and
\* the next request starts from them.
BoundsExact ==
    \A t \in Types :
        IF DOMAIN requests[t] = {}
        THEN lowest[t] = -1 /\ highest[t] = -1
        ELSE /\ {lowest[t], highest[t]} \subseteq DOMAIN requests[t]
             /\ \A p \in DOMAIN requests[t] : lowest[t] <= p /\ p <= highest[t]

\* The loop never looks up a price that has no list, whatever lists it erased on the
\* way: operator[] on such a price would dereference a null TransactionList.
CursorOnLevel ==
    rq # NoRequest /\ cursor # -1 => cursor \in DOMAIN requests[Other(rq.type)]

\* The search for type t has passed level p when it is at level c: all when c is -1.
Passed(c, t, p) == c = -1 \/ IF t = TRANSACTION_TYPE_BUY THEN p > c ELSE p < c

\* The search never passes an offer of another user: whatever it skipped, erased or
\* came back to, every level behind it holds only the requests of the user it serves.
SearchedOwn ==
    rq # NoRequest =>
        LET levels == requests[Other(rq.type)]
        IN  \A p \in DOMAIN levels : Passed(cursor, Other(rq.type), p) =>
                \A i \in DOMAIN levels[p] : levels[p][i].user = rq.user

\* No suitable offer is left waiting: requests of different users never wait on both
\* sides at prices that would let them trade.  (A user's own requests may.)
NothingSuitableWaits ==
    \A s, b \in RestingRequests :
        /\ s.type = TRANSACTION_TYPE_SELL
        /\ b.type = TRANSACTION_TYPE_BUY
        /\ s.price <= b.price
        => s.user = b.user

\* "You're still guaranteed to get the price you've asked for": no trade makes a buyer
\* pay more, or a seller earn less, than the price of their request.  bought and paid
\* are negative for the seller.
PriceWithinLimits ==
    [][rq # NoRequest =>
        \A u \in Users :
            LET bought == usd'[u] - usd[u]
                paid == rub[u] - rub'[u]
                limit == IF u = rq.user THEN rq.price ELSE cursor
            IN  paid <= limit * bought]_vars

\* The loop ends: every request is fulfilled or put on a list.
Answered == rq # NoRequest ~> rq = NoRequest

\* The search through price lists with cached bounds implements the exchange over a
\* plain set of waiting requests; skipping an own level is a step Exchange does not see.
Ideal == INSTANCE Exchange WITH waiting <- RestingRequests, incoming <- rq, posted <- count
ImplementsExchange == Ideal!Spec

\* README.md:14-15: all transactions are performed in favour of new requests, at the
\* price of the waiting one.  The code takes the price of the new one.
FavoursNewRequest ==
    [][\A u \in Users : rub[u] - rub'[u] = cursor * (usd'[u] - usd[u])]_vars
=============================================================================
