---------------------------- MODULE MarketProofs ----------------------------
(***************************************************************************)
(* Theorems about Market, for every set of users and every bound.          *)
(***************************************************************************)
EXTENDS Market, SequenceTheorems, WellFoundedInduction, TLAPS

-----------------------------------------------------------------------------
(* Least and greatest elements: Min and Max are CHOOSE expressions. *)

\* A set of natural numbers has a least element.
LEMMA MinExists ==
    ASSUME NEW S \in SUBSET Nat, S # {}
    PROVE  /\ Min(S) \in S
           /\ \A y \in S : Min(S) <= y
<1>1. OpToRel(<, Nat) = {ss \in Nat \X Nat : ss[1] < ss[2]}
  BY DEF OpToRel
<1>2. PICK x \in S : \A y \in S : ~ (<<y, x>> \in OpToRel(<, Nat))
  BY NatLessThanWellFounded, WFMin
<1>3. ASSUME NEW y \in S
      PROVE  x <= y
  <2>1. <<y, x>> \notin {ss \in Nat \X Nat : ss[1] < ss[2]}
    BY <1>1, <1>2
  <2>2. ~ (y < x)
    BY <2>1
  <2> QED BY <2>2
<1>4. \E z \in S : \A y \in S : z <= y
  BY <1>3
<1> QED BY <1>4 DEF Min

\* A bounded set of natural numbers has a greatest element.
LEMMA MaxExists ==
    ASSUME NEW n \in Nat, NEW S \in SUBSET (0..n), S # {}
    PROVE  /\ Max(S) \in S
           /\ \A y \in S : y <= Max(S)
<1> DEFINE T == {k \in 0..n : n - k \in S}
<1>1. T \in SUBSET Nat
  OBVIOUS
<1>2. ASSUME NEW y \in S PROVE n - y \in T
  <2>1. y \in Nat /\ n - y \in 0..n /\ n - (n - y) = y
    OBVIOUS
  <2> QED BY <2>1
<1>3. Min(T) \in T /\ \A y \in T : Min(T) <= y
  BY <1>1, <1>2, MinExists
<1> HIDE DEF T
<1>4. ASSUME NEW y \in S PROVE y <= n - Min(T)
  <2>1. Min(T) <= n - y
    BY <1>2, <1>3
  <2>2. Min(T) \in Nat
    BY <1>1, <1>3
  <2>3. y \in Nat
    OBVIOUS
  <2> QED BY <2>1, <2>2, <2>3
<1>5. n - Min(T) \in S
  BY <1>3 DEF T
<1>6. \E z \in S : \A y \in S : z >= y
  <2>1. \A y \in S : y \in Int
    OBVIOUS
  <2> QED BY <1>4, <1>5, <2>1
<1> QED BY <1>6 DEF Max

-----------------------------------------------------------------------------
(* The operators on price levels *)

\* A map of price levels as TypeOK wants it.
LevelsOK(f) ==
    /\ DOMAIN f \subseteq Prices
    /\ f \in [DOMAIN f -> Seq(TransactionRequests)]
    /\ \A p \in DOMAIN f : f[p] # << >>

\* Two states of one request: only the amount left of it may differ.
SameRequest(a, b) == a.id = b.id /\ a.user = b.user /\ a.type = b.type /\ a.price = b.price

\* A fulfilled request is erased from its queue and the others keep their order.
LEMMA ServedFulfilled ==
    ASSUME NEW q \in Seq(TransactionRequests), NEW i \in DOMAIN q,
           NEW amount, q[i].usd = amount
    PROVE  /\ Served(q, i, amount) \in Seq(TransactionRequests)
           /\ DOMAIN Served(q, i, amount) = 1..(Len(q) - 1)
           /\ \A j \in 1..(Len(q) - 1) :
                Served(q, i, amount)[j] = IF j < i THEN q[j] ELSE q[j + 1]
<1>1. i \in 1..Len(q) /\ Len(q) \in Nat /\ DOMAIN q = 1..Len(q)
  BY LenProperties
<1>2. \A k \in 1..Len(q) : q[k] \in TransactionRequests
  BY ElementOfSeq
<1> DEFINE h == SubSeq(q, 1, i - 1)
           l == SubSeq(q, i + 1, Len(q))
<1>3. /\ h \in Seq(TransactionRequests)
      /\ Len(h) = i - 1
      /\ \A j \in 1..(i - 1) : h[j] = q[j]
  BY <1>1, <1>2, SubSeqProperties
<1>4. /\ l \in Seq(TransactionRequests)
      /\ Len(l) = Len(q) - i
      /\ \A j \in 1..(Len(q) - i) : l[j] = q[i + j]
  <2>1. \A x \in (i + 1)..Len(q) : q[x] \in TransactionRequests
    BY <1>1, <1>2
  <2>2. i + 1 \in Int /\ Len(q) \in Int
    BY <1>1
  <2>3. /\ l \in Seq(TransactionRequests)
        /\ Len(l) = IF i + 1 <= Len(q) THEN Len(q) - (i + 1) + 1 ELSE 0
        /\ \A j \in 1..(Len(q) - (i + 1) + 1) : l[j] = q[(i + 1) + j - 1]
    BY <2>1, <2>2, SubSeqProperties
  <2>4. Len(q) - (i + 1) + 1 = Len(q) - i
    BY <1>1
  <2>5. \A j \in 1..(Len(q) - i) : (i + 1) + j - 1 = i + j
    BY <1>1
  <2> HIDE DEF l
  <2> QED BY <1>1, <2>3, <2>4, <2>5
<1>5. Served(q, i, amount) = h \o l
  BY DEF Served, RemoveAt
<1> HIDE DEF h, l
<1>6. /\ h \o l \in Seq(TransactionRequests)
      /\ Len(h \o l) = Len(q) - 1
      /\ \A j \in 1..(Len(q) - 1) : (h \o l)[j] = IF j <= i - 1 THEN h[j] ELSE l[j - (i - 1)]
  <2>1. Len(h) + Len(l) = Len(q) - 1
    BY <1>1, <1>3, <1>4
  <2>2. /\ h \o l \in Seq(TransactionRequests)
        /\ Len(h \o l) = Len(h) + Len(l)
        /\ \A j \in 1..(Len(h) + Len(l)) :
              (h \o l)[j] = IF j <= Len(h) THEN h[j] ELSE l[j - Len(h)]
    BY <1>3, <1>4, ConcatProperties
  <2>3. Len(h) = i - 1
    BY <1>3
  <2> QED BY <2>1, <2>2, <2>3
<1>7. DOMAIN (h \o l) = 1..(Len(q) - 1)
  BY <1>6, LenProperties
<1>8. ASSUME NEW j \in 1..(Len(q) - 1)
      PROVE  (h \o l)[j] = IF j < i THEN q[j] ELSE q[j + 1]
  <2>1. CASE j < i
    <3>1. j \in 1..(i - 1) /\ j <= i - 1
      BY <1>1, <2>1
    <3> QED BY <1>3, <1>6, <2>1, <3>1
  <2>2. CASE ~ (j < i)
    <3>1. j - (i - 1) \in 1..(Len(q) - i) /\ i + (j - (i - 1)) = j + 1 /\ ~ (j <= i - 1)
      BY <1>1, <2>2
    <3> QED BY <1>4, <1>6, <2>2, <3>1
  <2> QED BY <2>1, <2>2
<1> QED BY <1>5, <1>6, <1>7, <1>8

\* A request served in part stays where it is, with less left of it.
LEMMA ServedInPart ==
    ASSUME NEW q \in Seq(TransactionRequests), NEW i \in DOMAIN q,
           NEW amount \in 1..q[i].usd, q[i].usd # amount
    PROVE  /\ Served(q, i, amount) \in Seq(TransactionRequests)
           /\ DOMAIN Served(q, i, amount) = 1..Len(q)
           /\ \A j \in 1..Len(q) :
                Served(q, i, amount)[j] = IF j = i THEN [q[i] EXCEPT !.usd = @ - amount] ELSE q[j]
           /\ SameRequest([q[i] EXCEPT !.usd = @ - amount], q[i])
<1> USE MarketAssumption
<1>1. i \in 1..Len(q) /\ Len(q) \in Nat
  BY LenProperties
<1>2. q[i] \in TransactionRequests /\ q[i].usd \in 1..MaxUsd
  BY <1>1, ElementOfSeq DEF TransactionRequests
<1>3. q[i].usd - amount \in 1..MaxUsd
  BY <1>2
<1>4. [q[i] EXCEPT !.usd = @ - amount] \in TransactionRequests
  BY <1>2, <1>3 DEF TransactionRequests
<1>5. SameRequest([q[i] EXCEPT !.usd = @ - amount], q[i])
  BY <1>2 DEF TransactionRequests, SameRequest
<1>6. Served(q, i, amount) = [q EXCEPT ![i] = [q[i] EXCEPT !.usd = @ - amount]]
  BY DEF Served
<1>7. /\ Served(q, i, amount) \in Seq(TransactionRequests)
      /\ Len(Served(q, i, amount)) = Len(q)
      /\ \A j \in 1..Len(q) : Served(q, i, amount)[j] =
              IF j = i THEN [q[i] EXCEPT !.usd = @ - amount] ELSE q[j]
  BY <1>1, <1>4, <1>6, ExceptSeq
<1>8. DOMAIN Served(q, i, amount) = 1..Len(q)
  BY <1>7, LenProperties
<1> QED BY <1>5, <1>7, <1>8

\* A partly or wholly served queue is a queue of the same requests, none fulfilled.
LEMMA ServedProperties ==
    ASSUME NEW q \in Seq(TransactionRequests), NEW i \in DOMAIN q,
           NEW amount \in 1..q[i].usd
    PROVE  /\ Served(q, i, amount) \in Seq(TransactionRequests)
           /\ \A j \in DOMAIN Served(q, i, amount) :
                \E k \in DOMAIN q : SameRequest(Served(q, i, amount)[j], q[k])
<1>1. i \in 1..Len(q) /\ Len(q) \in Nat /\ DOMAIN q = 1..Len(q)
  BY LenProperties
<1>2. CASE q[i].usd = amount
  <2>1. ASSUME NEW j \in DOMAIN Served(q, i, amount)
        PROVE  \E k \in DOMAIN q : Served(q, i, amount)[j] = q[k]
    <3>1. j \in 1..(Len(q) - 1) /\ Served(q, i, amount)[j] = IF j < i THEN q[j] ELSE q[j + 1]
      BY <1>2, ServedFulfilled
    <3>2. j \in DOMAIN q /\ j + 1 \in DOMAIN q
      BY <1>1, <3>1
    <3> QED BY <3>1, <3>2
  <2> QED BY <1>2, <2>1, ServedFulfilled DEF SameRequest
<1>3. CASE q[i].usd # amount
  <2> DEFINE s == Served(q, i, amount)
             part == [q[i] EXCEPT !.usd = @ - amount]
  <2>1. /\ s \in Seq(TransactionRequests)
        /\ DOMAIN s = 1..Len(q)
        /\ \A j \in 1..Len(q) : s[j] = IF j = i THEN part ELSE q[j]
        /\ SameRequest(part, q[i])
    BY <1>3, ServedInPart
  <2> HIDE DEF s, part
  <2>2. \A j \in DOMAIN s : \E k \in DOMAIN q : SameRequest(s[j], q[k])
    BY <1>1, <2>1 DEF SameRequest
  <2> QED BY <2>1, <2>2 DEF s
<1> QED BY <1>2, <1>3

\* Levels stay levels when one queue changes; an emptied one goes.
LEMMA WithQueueType ==
    ASSUME NEW f, LevelsOK(f), NEW p \in DOMAIN f, NEW q \in Seq(TransactionRequests)
    PROVE  LevelsOK(WithQueue(f, p, q))
  BY DEF LevelsOK, WithQueue, Restrict

\* Levels stay levels when a request is put on its list.
LEMMA EnqueuedType ==
    ASSUME NEW f, LevelsOK(f), NEW r \in TransactionRequests
    PROVE  /\ LevelsOK(Enqueued(f, r))
           /\ DOMAIN Enqueued(f, r) = DOMAIN f \cup {r.price}
<1>1. r.price \in Prices
  BY DEF TransactionRequests
<1>2. ASSUME NEW p \in DOMAIN f \cup {r.price}
      PROVE  /\ Enqueued(f, r)[p] \in Seq(TransactionRequests)
             /\ Enqueued(f, r)[p] # << >>
  <2>1. CASE p # r.price
    BY <1>2, <2>1 DEF LevelsOK, Enqueued
  <2>2. CASE p = r.price /\ p \in DOMAIN f
    <3>1. f[p] \in Seq(TransactionRequests)
      BY <2>2 DEF LevelsOK
    <3>2. Append(f[p], r) \in Seq(TransactionRequests) /\ Append(f[p], r) # << >>
      BY <3>1, AppendProperties, EmptySeq
    <3> QED BY <2>2, <3>2 DEF Enqueued
  <2>3. CASE p = r.price /\ p \notin DOMAIN f
    BY <2>3 DEF Enqueued
  <2> QED BY <1>2, <2>1, <2>2, <2>3
<1>3. DOMAIN Enqueued(f, r) = DOMAIN f \cup {r.price}
  BY DEF Enqueued
<1>4. DOMAIN f \cup {r.price} \subseteq Prices
  BY <1>1 DEF LevelsOK
<1>5. Enqueued(f, r) = [p \in DOMAIN Enqueued(f, r) |-> Enqueued(f, r)[p]]
  BY DEF Enqueued
<1> QED BY <1>2, <1>3, <1>4, <1>5 DEF LevelsOK

\* Every request of the levels is of one type and lies at its own price.
Filed(f, t) ==
    \A p \in DOMAIN f : \A i \in DOMAIN f[p] : f[p][i].type = t /\ f[p][i].price = p

\* The users who have a request at a price.
OwnersAt(f, p) == IF p \in DOMAIN f THEN {f[p][i].user : i \in DOMAIN f[p]} ELSE {}

\* Serving a queue puts nobody's request where there was none of theirs.
LEMMA WithQueueOwners ==
    ASSUME NEW f, LevelsOK(f), NEW t, Filed(f, t),
           NEW p \in DOMAIN f, NEW q \in Seq(TransactionRequests),
           \A j \in DOMAIN q : \E k \in DOMAIN f[p] : SameRequest(q[j], f[p][k])
    PROVE  /\ Filed(WithQueue(f, p, q), t)
           /\ \A x : OwnersAt(WithQueue(f, p, q), x) \subseteq OwnersAt(f, x)
<1> DEFINE g == WithQueue(f, p, q)
<1> HIDE DEF g
<1>1. /\ DOMAIN g \subseteq DOMAIN f
      /\ \A x \in DOMAIN g : g[x] = IF x = p THEN q ELSE f[x]
  <2>1. CASE q = << >>
    BY <2>1 DEF g, WithQueue, Restrict
  <2>2. CASE q # << >>
    BY <2>2 DEF g, WithQueue, LevelsOK
  <2> QED BY <2>1, <2>2
<1>2. Filed(g, t)
  BY <1>1 DEF Filed, SameRequest
<1>3. ASSUME NEW x, NEW u \in OwnersAt(g, x)
      PROVE  u \in OwnersAt(f, x)
  <2>1. x \in DOMAIN g /\ x \in DOMAIN f
    BY <1>1, <1>3 DEF OwnersAt
  <2>2. PICK j \in DOMAIN g[x] : u = g[x][j].user
    BY <1>3, <2>1 DEF OwnersAt
  <2>3. \E k \in DOMAIN f[x] : u = f[x][k].user
    BY <1>1, <2>1, <2>2 DEF SameRequest
  <2> QED BY <2>1, <2>3 DEF OwnersAt
<1> QED BY <1>2, <1>3 DEF g

\* Putting a request on its list adds its user at its price and nobody elsewhere.
LEMMA EnqueuedOwners ==
    ASSUME NEW f, LevelsOK(f), NEW r \in TransactionRequests, Filed(f, r.type)
    PROVE  /\ Filed(Enqueued(f, r), r.type)
           /\ \A x : OwnersAt(Enqueued(f, r), x) \subseteq
                        OwnersAt(f, x) \cup (IF x = r.price THEN {r.user} ELSE {})
<1> DEFINE g == Enqueued(f, r)
<1>1. DOMAIN g = DOMAIN f \cup {r.price}
  BY EnqueuedType
<1>2. \A x \in DOMAIN f : x # r.price => g[x] = f[x]
  BY DEF Enqueued
<1>3. ASSUME NEW j \in DOMAIN g[r.price]
      PROVE  \/ g[r.price][j] = r
             \/ /\ r.price \in DOMAIN f
                /\ j \in DOMAIN f[r.price]
                /\ g[r.price][j] = f[r.price][j]
  <2>1. CASE r.price \in DOMAIN f
    <3>1. f[r.price] \in Seq(TransactionRequests)
      BY <2>1 DEF LevelsOK
    <3>2. g[r.price] = Append(f[r.price], r)
      BY <2>1 DEF Enqueued
    <3> HIDE DEF g
    <3>3. DOMAIN g[r.price] = 1..(Len(f[r.price]) + 1)
      BY <3>1, <3>2
    <3>4. j \in 1..(Len(f[r.price]) + 1)
      BY <1>3, <3>3
    <3> QED BY <2>1, <3>1, <3>2, <3>4
  <2>2. CASE r.price \notin DOMAIN f
    BY <1>3, <2>2 DEF Enqueued
  <2> QED BY <2>1, <2>2
<1> HIDE DEF g
<1>4. Filed(g, r.type)
  BY <1>1, <1>2, <1>3 DEF Filed
<1>5. ASSUME NEW x, NEW u \in OwnersAt(g, x)
      PROVE  u \in OwnersAt(f, x) \cup (IF x = r.price THEN {r.user} ELSE {})
  <2>1. x \in DOMAIN g
    BY <1>5 DEF OwnersAt
  <2>2. PICK j \in DOMAIN g[x] : u = g[x][j].user
    BY <1>5, <2>1 DEF OwnersAt
  <2>3. CASE x = r.price
    BY <1>3, <2>2, <2>3 DEF OwnersAt
  <2>4. CASE x # r.price
    BY <1>1, <1>2, <2>1, <2>2, <2>4 DEF OwnersAt
  <2> QED BY <2>3, <2>4
<1> QED BY <1>4, <1>5 DEF g

-----------------------------------------------------------------------------
(* The cached bounds and the search *)

IsHighest(f, h) ==
    IF DOMAIN f = {} THEN h = -1 ELSE h \in DOMAIN f /\ \A p \in DOMAIN f : p <= h
IsLowest(f, l) ==
    IF DOMAIN f = {} THEN l = -1 ELSE l \in DOMAIN f /\ \A p \in DOMAIN f : l <= p

\* The greatest price of a set of levels, and what Max chooses from it.
LEMMA MaxPriceOf ==
    ASSUME NEW S \in SUBSET Prices, S # {}
    PROVE  Max(S) \in S /\ \A y \in S : y <= Max(S)
<1>1. S \in SUBSET (0..MaxPrice)
  BY MarketAssumption DEF Prices
<1> QED BY <1>1, MaxExists, MarketAssumption

\* The least price of a set of levels.
LEMMA MinPriceOf ==
    ASSUME NEW S \in SUBSET Prices, S # {}
    PROVE  Min(S) \in S /\ \A y \in S : Min(S) <= y
<1>1. S \in SUBSET Nat
  BY MarketAssumption DEF Prices
<1> QED BY <1>1, MinExists

\* The maximum recomputed after an erasure is a level or -1, and exact when the old
\* one bounded what is left.
LEMMA HighestOfExact ==
    ASSUME NEW f, DOMAIN f \subseteq Prices, NEW old \in Prices \cup {-1}
    PROVE  /\ HighestOf(f, old) \in DOMAIN f \cup {-1}
           /\ (\A p \in DOMAIN f : p <= old) => IsHighest(f, HighestOf(f, old))
<1> DEFINE S == {p \in DOMAIN f : p < old}
<1>1. S \in SUBSET Prices
  OBVIOUS
<1>2. S # {} => Max(S) \in S /\ \A y \in S : y <= Max(S)
  BY <1>1, MaxPriceOf
<1>3. CASE old \in DOMAIN f
  BY <1>3 DEF HighestOf, IsHighest
<1>4. CASE old \notin DOMAIN f
  <2>1. HighestOf(f, old) = MaxOrNone(S)
    BY <1>4 DEF HighestOf
  <2>2. ASSUME \A p \in DOMAIN f : p <= old
        PROVE  S = DOMAIN f
    BY <1>4, <2>2, MarketAssumption DEF Prices
  <2> HIDE DEF S
  <2>3. MaxOrNone(S) = IF S = {} THEN -1 ELSE Max(S)
    BY DEF MaxOrNone
  <2>4. S \subseteq DOMAIN f
    BY DEF S
  <2> QED BY <1>2, <2>1, <2>2, <2>3, <2>4 DEF IsHighest
<1> QED BY <1>3, <1>4

\* The minimum recomputed after the maximum.
LEMMA LowestOfExact ==
    ASSUME NEW f, DOMAIN f \subseteq Prices, NEW old \in Prices \cup {-1},
           NEW high \in Prices \cup {-1}
    PROVE  /\ LowestOf(f, old, high) \in DOMAIN f \cup {-1}
           /\ IsHighest(f, high) /\ (\A p \in DOMAIN f : old <= p)
                => IsLowest(f, LowestOf(f, old, high))
<1> DEFINE S == {p \in DOMAIN f : p <= high}
<1>1. S \in SUBSET Prices
  OBVIOUS
<1>2. S # {} => Min(S) \in S /\ \A y \in S : Min(S) <= y
  BY <1>1, MinPriceOf
<1>3. CASE old \in DOMAIN f
  BY <1>3 DEF LowestOf, IsLowest
<1>4. CASE old \notin DOMAIN f
  <2>1. LowestOf(f, old, high) = MinOrNone(S)
    BY <1>4 DEF LowestOf
  <2>2. ASSUME IsHighest(f, high)
        PROVE  S = DOMAIN f
    BY <2>2 DEF IsHighest
  <2> HIDE DEF S
  <2>3. MinOrNone(S) = IF S = {} THEN -1 ELSE Min(S)
    BY DEF MinOrNone
  <2>4. S \subseteq DOMAIN f
    BY DEF S
  <2> QED BY <1>2, <2>1, <2>2, <2>3, <2>4 DEF IsLowest
<1> QED BY <1>3, <1>4

\* A skipped level is left for a level behind it, the nearest one, or for none.
LEMMA NextLevelProperties ==
    ASSUME NEW t \in Types, DOMAIN requests[t] \subseteq Prices, NEW p \in Prices,
           Behind(t, p) # {}
    PROVE  /\ NextLevel(t, p) \in Behind(t, p)
           /\ Behind(t, p) \subseteq DOMAIN requests[t]
           /\ t = TRANSACTION_TYPE_BUY => \A y \in Behind(t, p) : y <= NextLevel(t, p)
           /\ t # TRANSACTION_TYPE_BUY => \A y \in Behind(t, p) : NextLevel(t, p) <= y
<1>1. Behind(t, p) \subseteq DOMAIN requests[t]
  BY DEF Behind
<1>2. Behind(t, p) \in SUBSET Prices
  BY <1>1
<1> QED BY <1>1, <1>2, MaxPriceOf, MinPriceOf DEF NextLevel

-----------------------------------------------------------------------------
(* What a trade does *)

\* The market is unchanged but for the levels of one type.
LEMMA RequestsExcept ==
    ASSUME TypeOK, NEW t \in Types, NEW f, requests' = [requests EXCEPT ![t] = f]
    PROVE  /\ requests' = [s \in Types |-> requests'[s]]
           /\ requests'[t] = f
           /\ \A s \in Types : s # t => requests'[s] = requests[s]
<1>1. requests = [s \in Types |-> requests[s]]
  BY DEF TypeOK
<1> QED BY <1>1

\* The other type of a type is a type.
LEMMA OtherType ==
    ASSUME NEW t \in Types
    PROVE  Other(t) \in Types /\ Other(t) # t /\ Other(Other(t)) = t
  BY DEF Other, Types, TRANSACTION_TYPE_SELL, TRANSACTION_TYPE_BUY

\* A trade serves one request of the level looked at by some amount, and no more than
\* either side asks for.
LEMMA PerformFacts ==
    ASSUME TypeOK, Perform
    PROVE  \E left \in Seq(TransactionRequests), amount \in 1..MaxUsd :
            LET t == Other(rq.type)
                levels == WithQueue(requests[t], cursor, left)
            IN  /\ rq \in TransactionRequests
                /\ amount <= rq.usd
                /\ cursor \in DOMAIN requests[t]
                /\ \A j \in DOMAIN left :
                     \E k \in DOMAIN requests[t][cursor] :
                        SameRequest(left[j], requests[t][cursor][k])
                /\ \E r \in TransactionRequests : Settle(r, amount)
                /\ requests' = [requests EXCEPT ![t] = levels]
                /\ highest' = [highest EXCEPT ![t] = HighestOf(levels, @)]
                /\ lowest' = [lowest EXCEPT ![t] = LowestOf(levels, @, highest'[t])]
                /\ IF rq.usd = amount
                   THEN rq' = NoRequest /\ cursor' = -1
                   ELSE /\ rq' = [rq EXCEPT !.usd = @ - amount]
                        /\ cursor' = CursorAfter(t, left = << >>)
                /\ count' = count
<1> DEFINE t == Other(rq.type)
           q == requests[t][cursor]
<1>1. /\ rq \in TransactionRequests
      /\ cursor \in DOMAIN requests[t]
  BY DEF Perform, AtLevel, TypeOK
<1>2. t \in Types
  BY <1>1, OtherType DEF TransactionRequests
<1>3. q \in Seq(TransactionRequests)
  BY <1>1, <1>2 DEF TypeOK
<1>4. PICK i \in FirstOfOthers(q, rq.user) :
        LET amount == Lesser(q[i].usd, rq.usd)
            left == Served(q, i, amount)
            levels == WithQueue(requests[t], cursor, left)
        IN  /\ Settle(q[i], amount)
            /\ requests' = [requests EXCEPT ![t] = levels]
            /\ highest' = [highest EXCEPT ![t] = HighestOf(levels, @)]
            /\ lowest' = [lowest EXCEPT ![t] = LowestOf(levels, @, highest'[t])]
            /\ IF rq.usd = amount
               THEN rq' = NoRequest /\ cursor' = -1
               ELSE /\ rq' = [rq EXCEPT !.usd = @ - amount]
                    /\ cursor' = CursorAfter(t, left = << >>)
  BY DEF Perform
<1> DEFINE amount == Lesser(q[i].usd, rq.usd)
           left == Served(q, i, amount)
<1>5. i \in DOMAIN q
  BY DEF FirstOfOthers
<1>6. q[i] \in TransactionRequests
  BY <1>3, <1>5
<1> HIDE DEF q, t
<1>7. amount \in 1..q[i].usd /\ amount \in 1..MaxUsd /\ amount <= rq.usd
  <2>1. q[i].usd \in 1..MaxUsd /\ rq.usd \in 1..MaxUsd
    BY <1>1, <1>6 DEF TransactionRequests
  <2> QED BY <2>1, MarketAssumption DEF Lesser
<1> HIDE DEF amount
<1>8. /\ left \in Seq(TransactionRequests)
      /\ \A j \in DOMAIN left : \E k \in DOMAIN q : SameRequest(left[j], q[k])
  BY <1>3, <1>5, <1>7, ServedProperties
<1> HIDE DEF left
<1>9. count' = count
  BY DEF Perform
<1>10. /\ Settle(q[i], amount)
       /\ requests' = [requests EXCEPT ![t] = WithQueue(requests[t], cursor, left)]
       /\ highest' = [highest EXCEPT ![t] = HighestOf(WithQueue(requests[t], cursor, left), @)]
       /\ lowest' = [lowest EXCEPT ![t] =
                        LowestOf(WithQueue(requests[t], cursor, left), @, highest'[t])]
       /\ IF rq.usd = amount
          THEN rq' = NoRequest /\ cursor' = -1
          ELSE /\ rq' = [rq EXCEPT !.usd = @ - amount]
               /\ cursor' = CursorAfter(t, left = << >>)
  BY <1>4 DEF amount, left
<1> QED BY <1>1, <1>6, <1>7, <1>8, <1>9, <1>10 DEF q, t

-----------------------------------------------------------------------------
(* Type correctness *)

\* A posted request and the cursor it starts from have their types.
LEMMA SubmitType ==
    ASSUME TypeOK, NEW u \in Users, NEW t \in Types, NEW p \in Prices, NEW a \in 0..MaxUsd,
           Submit(u, t, p, a)
    PROVE  TypeOK'
<1>1. rq' \in TransactionRequests
  <2>1. count + 1 \in 1..MaxRequests
    BY MarketAssumption DEF TypeOK, Submit
  <2>2. a \in 1..MaxUsd
    BY MarketAssumption DEF Submit
  <2> QED BY <2>1, <2>2 DEF Submit, TransactionRequests
<1>2. count' \in 0..MaxRequests
  BY MarketAssumption DEF TypeOK, Submit
<1>3. cursor' \in Prices \cup {-1}
  BY OtherType DEF TypeOK, Submit, Best
<1> QED BY <1>1, <1>2, <1>3 DEF TypeOK, Submit

\* A request put on its list leaves every variable with its type.
LEMMA RestType ==
    ASSUME TypeOK, Rest
    PROVE  TypeOK'
<1>1. rq \in TransactionRequests /\ rq.type \in Types /\ rq.price \in Prices
  BY DEF TypeOK, Rest, TransactionRequests
<1>2. LevelsOK(requests[rq.type])
  BY <1>1 DEF TypeOK, LevelsOK
<1>3. LevelsOK(Enqueued(requests[rq.type], rq))
  BY <1>1, <1>2, EnqueuedType
<1>4. requests' = [requests EXCEPT ![rq.type] = Enqueued(requests[rq.type], rq)]
  BY DEF Rest
<1>5. /\ requests' = [s \in Types |-> requests'[s]]
      /\ \A s \in Types : LevelsOK(requests'[s])
  <2>1. \A s \in Types : LevelsOK(requests[s])
    BY DEF TypeOK, LevelsOK
  <2> QED BY <1>1, <1>3, <1>4, <2>1, RequestsExcept
<1>6. highest' \in [Types -> Prices \cup {-1}] /\ lowest' \in [Types -> Prices \cup {-1}]
  BY <1>1 DEF TypeOK, Rest
<1> QED BY <1>5, <1>6 DEF TypeOK, Rest, LevelsOK

\* The level the search goes on to, if any, is a price or -1.
LEMMA SkipOwnLevelType ==
    ASSUME TypeOK, SkipOwnLevel
    PROVE  TypeOK'
<1>1. rq \in TransactionRequests /\ cursor \in Prices
  BY DEF TypeOK, SkipOwnLevel, AtLevel
<1>2. Other(rq.type) \in Types
  BY <1>1, OtherType DEF TransactionRequests
<1>3. DOMAIN requests[Other(rq.type)] \subseteq Prices
  BY <1>2 DEF TypeOK
<1>4. \E b \in BOOLEAN : cursor' = Skipped(Other(rq.type), cursor, b)
  BY DEF SkipOwnLevel
<1>5. cursor' \in Prices \cup {-1}
  BY <1>1, <1>2, <1>3, <1>4, NextLevelProperties DEF Skipped
<1> QED BY <1>5 DEF TypeOK, SkipOwnLevel

\* A trade leaves every variable with its type: no empty list, no fulfilled request.
LEMMA PerformType ==
    ASSUME TypeOK, Perform
    PROVE  TypeOK'
<1> DEFINE t == Other(rq.type)
<1>1. PICK left \in Seq(TransactionRequests), amount \in 1..MaxUsd :
        LET levels == WithQueue(requests[t], cursor, left)
        IN  /\ rq \in TransactionRequests
            /\ amount <= rq.usd
            /\ cursor \in DOMAIN requests[t]
            /\ \E r \in TransactionRequests : Settle(r, amount)
            /\ requests' = [requests EXCEPT ![t] = levels]
            /\ highest' = [highest EXCEPT ![t] = HighestOf(levels, @)]
            /\ lowest' = [lowest EXCEPT ![t] = LowestOf(levels, @, highest'[t])]
            /\ IF rq.usd = amount
               THEN rq' = NoRequest /\ cursor' = -1
               ELSE /\ rq' = [rq EXCEPT !.usd = @ - amount]
                    /\ cursor' = CursorAfter(t, left = << >>)
            /\ count' = count
  BY PerformFacts
<1> DEFINE levels == WithQueue(requests[t], cursor, left)
<1>2. t \in Types
  BY <1>1, OtherType DEF TransactionRequests
<1>3. LevelsOK(requests[t])
  BY <1>2 DEF TypeOK, LevelsOK
<1>4. LevelsOK(levels)
  BY <1>1, <1>3, WithQueueType
<1>5. /\ requests' = [requests EXCEPT ![t] = levels]
      /\ highest' = [highest EXCEPT ![t] = HighestOf(levels, highest[t])]
      /\ lowest' = [lowest EXCEPT ![t] = LowestOf(levels, lowest[t], highest'[t])]
  BY <1>1
<1> HIDE DEF t, levels
<1>6. /\ requests' = [s \in Types |-> requests'[s]]
      /\ \A s \in Types : LevelsOK(requests'[s])
  <2>1. \A s \in Types : LevelsOK(requests[s])
    BY DEF TypeOK, LevelsOK
  <2> QED BY <1>2, <1>4, <1>5, <2>1, RequestsExcept
<1>7. highest' \in [Types -> Prices \cup {-1}]
  <2>1. highest[t] \in Prices \cup {-1}
    BY <1>2 DEF TypeOK
  <2>2. HighestOf(levels, highest[t]) \in Prices \cup {-1}
    BY <1>4, <2>1, HighestOfExact DEF LevelsOK
  <2> QED BY <1>2, <1>5, <2>2 DEF TypeOK
<1>8. lowest' \in [Types -> Prices \cup {-1}]
  <2>1. lowest[t] \in Prices \cup {-1} /\ highest'[t] \in Prices \cup {-1}
    BY <1>2, <1>7 DEF TypeOK
  <2>2. LowestOf(levels, lowest[t], highest'[t]) \in Prices \cup {-1}
    BY <1>4, <2>1, LowestOfExact DEF LevelsOK
  <2> QED BY <1>2, <1>5, <2>2 DEF TypeOK
<1>9. rub' \in [Users -> Int] /\ usd' \in [Users -> Int]
  <2>1. PICK r \in TransactionRequests : Settle(r, amount)
    BY <1>1
  <2>2. rq.price * amount \in Int
    BY <1>1, MarketAssumption DEF TransactionRequests, Prices
  <2>3. rq.user \in Users /\ r.user \in Users /\ amount \in Int
    BY <1>1, MarketAssumption DEF TransactionRequests
  <2>4. ASSUME NEW f \in [Users -> Int], NEW b \in Users, NEW c \in Users, NEW x \in Int
        PROVE  /\ [f EXCEPT ![b] = @ + x, ![c] = @ - x] \in [Users -> Int]
               /\ [f EXCEPT ![b] = @ - x, ![c] = @ + x] \in [Users -> Int]
    OBVIOUS
  <2> DEFINE cost == rq.price * amount
             b == (IF rq.type = TRANSACTION_TYPE_BUY THEN rq ELSE r).user
             c == (IF rq.type = TRANSACTION_TYPE_BUY THEN r ELSE rq).user
  <2>5. /\ usd' = [usd EXCEPT ![b] = @ + amount, ![c] = @ - amount]
        /\ rub' = [rub EXCEPT ![b] = @ - cost, ![c] = @ + cost]
    BY <2>1 DEF Settle
  <2>6. b \in Users /\ c \in Users
    BY <2>3
  <2>7. cost \in Int
    BY <2>2
  <2> HIDE DEF cost, b, c
  <2> QED BY <2>3, <2>4, <2>5, <2>6, <2>7 DEF TypeOK
<1>10. rq' \in TransactionRequests \cup {NoRequest}
  <2>1. CASE rq.usd = amount
    BY <1>1, <2>1
  <2>2. CASE rq.usd # amount
    <3>1. rq.usd - amount \in 1..MaxUsd
      BY <1>1, <2>2, MarketAssumption DEF TransactionRequests
    <3>2. rq' = [rq EXCEPT !.usd = rq.usd - amount]
      BY <1>1, <2>2
    <3> QED BY <1>1, <3>1, <3>2 DEF TransactionRequests
  <2> QED BY <2>1, <2>2
<1>11. cursor' \in Prices \cup {-1}
  <2>1. cursor \in Prices \cup {-1}
    BY DEF TypeOK
  <2>2. Best(t, lowest', highest') \in Prices \cup {-1}
    BY <1>2, <1>7, <1>8 DEF Best
  <2>3. cursor' = -1 \/ cursor' = CursorAfter(t, left = << >>)
    BY <1>1 DEF t
  <2> QED BY <2>1, <2>2, <2>3 DEF CursorAfter
<1>12. count' = count
  BY <1>1
<1> QED BY <1>6, <1>7, <1>8, <1>9, <1>10, <1>11, <1>12 DEF TypeOK, LevelsOK

\* Every behaviour of the market keeps every variable in its type: no list in a map is
\* empty, no fulfilled request stays, no bound or cursor leaves the prices.
THEOREM TypeCorrect == Spec => []TypeOK
<1>1. Init => TypeOK
  BY MarketAssumption DEF Init, TypeOK, Types
<1>2. TypeOK /\ [Next]_vars => TypeOK'
  <2> SUFFICES ASSUME TypeOK, [Next]_vars
               PROVE  TypeOK'
    OBVIOUS
  <2>1. CASE \E u \in Users, t \in Types, p \in Prices, a \in 0..MaxUsd : Submit(u, t, p, a)
    BY <2>1, SubmitType
  <2>2. CASE Rest
    BY <2>2, RestType
  <2>3. CASE SkipOwnLevel
    BY <2>3, SkipOwnLevelType
  <2>4. CASE Perform
    BY <2>4, PerformType
  <2>5. CASE Idle \/ UNCHANGED vars
    BY <2>5 DEF Idle, vars, TypeOK
  <2> QED BY <2>1, <2>2, <2>3, <2>4, <2>5 DEF Next, Match
<1> QED BY <1>1, <1>2, PTL DEF Spec

-----------------------------------------------------------------------------
(* The cached bounds are exact *)

\* BoundsExact, type by type.
LEMMA BoundsByType ==
    BoundsExact <=> \A t \in Types : IsHighest(requests[t], highest[t]) /\ IsLowest(requests[t], lowest[t])
  BY DEF BoundsExact, IsHighest, IsLowest

\* Resting a request moves the bounds of its type when its price lies outside them.
LEMMA RestBounds ==
    ASSUME TypeOK, BoundsExact, Rest
    PROVE  BoundsExact'
<1> DEFINE t == rq.type
           p == rq.price
           f == requests[t]
           g == Enqueued(f, rq)
<1>1. rq \in TransactionRequests /\ t \in Types /\ p \in Prices
  BY DEF TypeOK, Rest, TransactionRequests
<1>2. DOMAIN f \subseteq Prices /\ LevelsOK(f)
  BY <1>1 DEF TypeOK, LevelsOK
<1>3. DOMAIN g = DOMAIN f \cup {p}
  BY <1>1, <1>2, EnqueuedType
<1>4. /\ requests'[t] = g
      /\ \A s \in Types : s # t => requests'[s] = requests[s]
  BY <1>1, RequestsExcept DEF Rest
<1>5. /\ highest'[t] = IF p > highest[t] THEN p ELSE highest[t]
      /\ lowest'[t] = IF lowest[t] = -1 \/ p < lowest[t] THEN p ELSE lowest[t]
      /\ \A s \in Types : s # t => highest'[s] = highest[s] /\ lowest'[s] = lowest[s]
  BY <1>1 DEF TypeOK, Rest
<1>6. IsHighest(f, highest[t]) /\ IsLowest(f, lowest[t])
  BY <1>1, BoundsByType
<1> HIDE DEF f, g, t, p
<1>7. IsHighest(g, highest'[t])
  BY <1>1, <1>2, <1>3, <1>5, <1>6, MarketAssumption DEF IsHighest, Prices
<1>8. IsLowest(g, lowest'[t])
  BY <1>1, <1>2, <1>3, <1>5, <1>6, MarketAssumption DEF IsLowest, Prices
<1>9. \A s \in Types : IsHighest(requests'[s], highest'[s]) /\ IsLowest(requests'[s], lowest'[s])
  BY <1>1, <1>4, <1>5, <1>7, <1>8, BoundsByType
<1> QED BY <1>9 DEF BoundsExact, IsHighest, IsLowest

\* A trade recomputes the bounds of the other type when it erased the level of one.
LEMMA PerformBounds ==
    ASSUME TypeOK, BoundsExact, Perform
    PROVE  BoundsExact'
<1> DEFINE t == Other(rq.type)
           f == requests[t]
<1>1. PICK left \in Seq(TransactionRequests), amount \in 1..MaxUsd :
        LET levels == WithQueue(requests[t], cursor, left)
        IN  /\ rq \in TransactionRequests
            /\ cursor \in DOMAIN requests[t]
            /\ requests' = [requests EXCEPT ![t] = levels]
            /\ highest' = [highest EXCEPT ![t] = HighestOf(levels, @)]
            /\ lowest' = [lowest EXCEPT ![t] = LowestOf(levels, @, highest'[t])]
  BY PerformFacts
<1> DEFINE g == WithQueue(f, cursor, left)
<1>2. t \in Types
  BY <1>1, OtherType DEF TransactionRequests
<1>3. LevelsOK(f) /\ DOMAIN f \subseteq Prices
  BY <1>2 DEF TypeOK, LevelsOK
<1>4. DOMAIN g \subseteq DOMAIN f
  BY <1>3 DEF WithQueue, Restrict, LevelsOK
<1>5. /\ requests'[t] = g
      /\ \A s \in Types : s # t => requests'[s] = requests[s]
  BY <1>1, <1>2, RequestsExcept
<1>6. /\ highest'[t] = HighestOf(g, highest[t])
      /\ lowest'[t] = LowestOf(g, lowest[t], highest'[t])
      /\ \A s \in Types : s # t => highest'[s] = highest[s] /\ lowest'[s] = lowest[s]
  BY <1>1, <1>2 DEF TypeOK
<1>7. /\ IsHighest(f, highest[t]) /\ IsLowest(f, lowest[t])
      /\ highest[t] \in Prices \cup {-1} /\ lowest[t] \in Prices \cup {-1}
  BY <1>2, BoundsByType DEF TypeOK
<1> HIDE DEF f, g, t
<1>8. \A p \in DOMAIN g : lowest[t] <= p /\ p <= highest[t]
  BY <1>4, <1>7 DEF IsHighest, IsLowest
<1>9. IsHighest(g, highest'[t]) /\ highest'[t] \in Prices \cup {-1}
  <2>1. DOMAIN g \subseteq Prices
    BY <1>3, <1>4
  <2> QED BY <2>1, <1>6, <1>7, <1>8, HighestOfExact
<1>10. IsLowest(g, lowest'[t])
  <2>1. DOMAIN g \subseteq Prices
    BY <1>3, <1>4
  <2> QED BY <2>1, <1>6, <1>7, <1>8, <1>9, LowestOfExact
<1>11. \A s \in Types : IsHighest(requests'[s], highest'[s]) /\ IsLowest(requests'[s], lowest'[s])
  BY <1>5, <1>6, <1>9, <1>10, BoundsByType
<1> QED BY <1>11 DEF BoundsExact, IsHighest, IsLowest

\* The four cached bounds are always those of the price levels.
THEOREM BoundsCorrect == Spec => []BoundsExact
<1>1. Init => BoundsExact
  BY DEF Init, BoundsExact, Types
<1>2. TypeOK /\ BoundsExact /\ [Next]_vars => BoundsExact'
  <2> SUFFICES ASSUME TypeOK, BoundsExact, [Next]_vars
               PROVE  BoundsExact'
    OBVIOUS
  <2>1. CASE \E u \in Users, t \in Types, p \in Prices, a \in 0..MaxUsd : Submit(u, t, p, a)
    BY <2>1 DEF Submit, BoundsExact
  <2>2. CASE Rest
    BY <2>2, RestBounds
  <2>3. CASE SkipOwnLevel
    BY <2>3 DEF SkipOwnLevel, BoundsExact
  <2>4. CASE Perform
    BY <2>4, PerformBounds
  <2>5. CASE Idle \/ UNCHANGED vars
    BY <2>5 DEF Idle, vars, BoundsExact
  <2> QED BY <2>1, <2>2, <2>3, <2>4, <2>5 DEF Next, Match
<1> QED BY <1>1, <1>2, TypeCorrect, PTL DEF Spec

-----------------------------------------------------------------------------
(* The cursor *)

\* The level the search starts from, and comes back to after an erasure, is the best
\* level there is, or -1 when there is none.
LEMMA BestIsLevel ==
    ASSUME NEW f, NEW t \in Types, NEW low, NEW high,
           IsLowest(f, low[t]), IsHighest(f, high[t])
    PROVE  Best(t, low, high) # -1 => Best(t, low, high) \in DOMAIN f
  BY DEF Best, IsLowest, IsHighest

\* The level the search goes on to has a list.
LEMMA SkipCursor ==
    ASSUME TypeOK, CursorOnLevel, SkipOwnLevel
    PROVE  CursorOnLevel'
<1> DEFINE t == Other(rq.type)
<1>1. rq \in TransactionRequests /\ cursor \in DOMAIN requests[t] /\ cursor \in Prices
  BY DEF TypeOK, SkipOwnLevel, AtLevel
<1>2. t \in Types
  BY <1>1, OtherType DEF TransactionRequests
<1>3. DOMAIN requests[t] \subseteq Prices /\ requests[t][cursor] # << >>
  BY <1>1, <1>2 DEF TypeOK
<1>4. cursor' = Skipped(t, cursor, TRUE)
  BY <1>3 DEF SkipOwnLevel
<1>5. cursor' = -1 \/ cursor' \in DOMAIN requests[t]
  BY <1>1, <1>2, <1>3, <1>4, NextLevelProperties DEF Skipped
<1> QED BY <1>5 DEF SkipOwnLevel, CursorOnLevel

\* After a trade the level looked at has a list, also when one was erased.
LEMMA PerformCursor ==
    ASSUME TypeOK, BoundsExact', Perform
    PROVE  CursorOnLevel'
<1> DEFINE t == Other(rq.type)
<1>1. PICK left \in Seq(TransactionRequests), amount \in 1..MaxUsd :
        LET levels == WithQueue(requests[t], cursor, left)
        IN  /\ rq \in TransactionRequests
            /\ cursor \in DOMAIN requests[t]
            /\ requests' = [requests EXCEPT ![t] = levels]
            /\ IF rq.usd = amount
               THEN rq' = NoRequest /\ cursor' = -1
               ELSE /\ rq' = [rq EXCEPT !.usd = @ - amount]
                    /\ cursor' = CursorAfter(t, left = << >>)
  BY PerformFacts
<1>2. t \in Types
  BY <1>1, OtherType DEF TransactionRequests
<1>3. LevelsOK(requests[t])
  BY <1>2 DEF TypeOK, LevelsOK
<1>4. requests'[t] = WithQueue(requests[t], cursor, left)
  BY <1>1, <1>2, RequestsExcept
<1>5. CASE rq.usd = amount
  BY <1>1, <1>5 DEF CursorOnLevel
<1>6. CASE rq.usd # amount
  <2>1. Other(rq'.type) = t
    BY <1>1, <1>6 DEF TransactionRequests
  <2>2. CASE left = << >>
    <3>1. cursor' = Best(t, lowest', highest')
      BY <1>1, <1>6, <2>2 DEF CursorAfter
    <3>2. IsLowest(requests'[t], lowest'[t]) /\ IsHighest(requests'[t], highest'[t])
      BY <1>2 DEF BoundsExact, IsLowest, IsHighest
    <3>3. cursor' # -1 => cursor' \in DOMAIN requests'[t]
      BY <1>2, <3>1, <3>2, BestIsLevel
    <3> QED BY <2>1, <3>3 DEF CursorOnLevel
  <2>3. CASE left # << >>
    <3>1. cursor' = cursor
      BY <1>1, <1>6, <2>3 DEF CursorAfter
    <3>2. cursor \in DOMAIN requests'[t]
      BY <1>1, <1>3, <1>4, <2>3 DEF WithQueue, LevelsOK
    <3> QED BY <2>1, <3>1, <3>2 DEF CursorOnLevel
  <2> QED BY <2>2, <2>3
<1> QED BY <1>5, <1>6

\* addRequest never looks up a price that has no list.
THEOREM CursorCorrect == Spec => []CursorOnLevel
<1>1. Init => CursorOnLevel
  BY DEF Init, CursorOnLevel
<1>2. TypeOK /\ BoundsExact /\ BoundsExact' /\ CursorOnLevel /\ [Next]_vars => CursorOnLevel'
  <2> SUFFICES ASSUME TypeOK, BoundsExact, BoundsExact', CursorOnLevel, [Next]_vars
               PROVE  CursorOnLevel'
    OBVIOUS
  <2>1. ASSUME NEW u \in Users, NEW t \in Types, NEW p \in Prices, NEW a \in 0..MaxUsd,
               Submit(u, t, p, a)
        PROVE  CursorOnLevel'
    <3>1. rq'.type = t /\ cursor' = Best(Other(t), lowest, highest) /\ requests' = requests
      BY <2>1 DEF Submit
    <3>2. cursor' # -1 => cursor' \in DOMAIN requests[Other(t)]
      BY <3>1, OtherType, BoundsByType, BestIsLevel
    <3> QED BY <3>1, <3>2 DEF CursorOnLevel
  <2>2. CASE Rest
    BY <2>2 DEF Rest, CursorOnLevel
  <2>3. CASE SkipOwnLevel
    BY <2>3, SkipCursor
  <2>4. CASE Perform
    BY <2>4, PerformCursor
  <2>5. CASE Idle \/ UNCHANGED vars
    BY <2>5 DEF Idle, vars, CursorOnLevel
  <2> QED BY <2>1, <2>2, <2>3, <2>4, <2>5 DEF Next, Match
<1> QED BY <1>1, <1>2, TypeCorrect, BoundsCorrect, PTL DEF Spec

-----------------------------------------------------------------------------
(* No suitable offer waits.  The invariant is not inductive by itself: that a     *)
(* request may rest depends on what the search passed on its way, SearchedOwn, and *)
(* that the prices of a level are those of its requests, BookFiled.                *)

BookFiled == \A t \in Types : Filed(requests[t], t)

\* A request of type t at price p and one of the other type at price o would trade.
Crosses(t, p, o) == IF t = TRANSACTION_TYPE_SELL THEN o >= p ELSE o <= p

\* NothingSuitableWaits, level by level.
OwnersApart ==
    \A t \in Types :
        \A p \in DOMAIN requests[t], o \in DOMAIN requests[Other(t)] :
            Crosses(t, p, o) =>
                \A u \in OwnersAt(requests[t], p), v \in OwnersAt(requests[Other(t)], o) : u = v

\* SearchedOwn in terms of the owners of the levels.
LEMMA SearchedOwners ==
    SearchedOwn <=>
        (rq # NoRequest =>
            \A p \in DOMAIN requests[Other(rq.type)] : Passed(cursor, Other(rq.type), p) =>
                OwnersAt(requests[Other(rq.type)], p) \subseteq {rq.user})
  BY DEF SearchedOwn, OwnersAt

\* A list without a first request of another user has none at all.
LEMMA NoOthers ==
    ASSUME NEW q \in Seq(TransactionRequests), NEW u, FirstOfOthers(q, u) = {}
    PROVE  \A i \in DOMAIN q : q[i].user = u
<1> DEFINE S == {i \in DOMAIN q : q[i].user # u}
<1>1. DOMAIN q \subseteq Nat
  BY LenProperties
<1>2. SUFFICES ASSUME S # {} PROVE FALSE
  OBVIOUS
<1>3. S \in SUBSET Nat
  BY <1>1
<1>4. Min(S) \in S /\ \A y \in S : Min(S) <= y
  BY <1>2, <1>3, MinExists
<1>5. \A j \in DOMAIN q : j < Min(S) => q[j].user = u
  <2>1. ASSUME NEW j \in DOMAIN q, j < Min(S), j \in S PROVE FALSE
    <3> HIDE DEF S
    <3>1. Min(S) <= j /\ j \in Nat /\ Min(S) \in Nat
      BY <1>3, <1>4, <2>1
    <3> QED BY <2>1, <3>1
  <2> QED BY <2>1
<1>6. Min(S) \in FirstOfOthers(q, u)
  BY <1>4, <1>5 DEF FirstOfOthers
<1> QED BY <1>6

\* A request put on its list is filed under its type and price.
LEMMA RestKeepsFiled ==
    ASSUME TypeOK, BookFiled, Rest
    PROVE  /\ BookFiled'
           /\ \A x : OwnersAt(requests'[rq.type], x) \subseteq
                OwnersAt(requests[rq.type], x) \cup (IF x = rq.price THEN {rq.user} ELSE {})
           /\ requests'[Other(rq.type)] = requests[Other(rq.type)]
<1>1. rq \in TransactionRequests /\ rq.type \in Types
  BY DEF TypeOK, Rest, TransactionRequests
<1>2. LevelsOK(requests[rq.type]) /\ Filed(requests[rq.type], rq.type)
  BY <1>1 DEF TypeOK, LevelsOK, BookFiled
<1>3. /\ requests'[rq.type] = Enqueued(requests[rq.type], rq)
      /\ \A s \in Types : s # rq.type => requests'[s] = requests[s]
  BY <1>1, RequestsExcept DEF Rest
<1>4. /\ Filed(requests'[rq.type], rq.type)
      /\ \A x : OwnersAt(requests'[rq.type], x) \subseteq
            OwnersAt(requests[rq.type], x) \cup (IF x = rq.price THEN {rq.user} ELSE {})
  BY <1>1, <1>2, <1>3, EnqueuedOwners
<1> QED BY <1>1, <1>3, <1>4, OtherType DEF BookFiled

\* A trade leaves every waiting request filed under its type and price.
LEMMA PerformKeepsFiled ==
    ASSUME TypeOK, BookFiled, Perform
    PROVE  /\ BookFiled'
           /\ \A t \in Types : \A x : OwnersAt(requests'[t], x) \subseteq OwnersAt(requests[t], x)
<1> DEFINE t == Other(rq.type)
<1>1. PICK left \in Seq(TransactionRequests), amount \in 1..MaxUsd :
        LET levels == WithQueue(requests[t], cursor, left)
        IN  /\ rq \in TransactionRequests
            /\ cursor \in DOMAIN requests[t]
            /\ \A j \in DOMAIN left :
                 \E k \in DOMAIN requests[t][cursor] :
                    SameRequest(left[j], requests[t][cursor][k])
            /\ requests' = [requests EXCEPT ![t] = levels]
  BY PerformFacts
<1>2. t \in Types
  BY <1>1, OtherType DEF TransactionRequests
<1>3. LevelsOK(requests[t]) /\ Filed(requests[t], t)
  BY <1>2 DEF TypeOK, LevelsOK, BookFiled
<1>4. /\ requests'[t] = WithQueue(requests[t], cursor, left)
      /\ \A s \in Types : s # t => requests'[s] = requests[s]
  BY <1>1, <1>2, RequestsExcept
<1>5. /\ Filed(requests'[t], t)
      /\ \A x : OwnersAt(requests'[t], x) \subseteq OwnersAt(requests[t], x)
  BY <1>1, <1>3, <1>4, WithQueueOwners
<1> QED BY <1>4, <1>5 DEF BookFiled

\* A level is skipped when it holds the user's own requests only, and the nearest level
\* behind it comes next.
LEMMA SkipSearchedOwn ==
    ASSUME TypeOK, BoundsExact, SearchedOwn, SkipOwnLevel
    PROVE  SearchedOwn'
<1> DEFINE t == Other(rq.type)
           D == DOMAIN requests[t]
<1>1. /\ rq \in TransactionRequests /\ rq # NoRequest
      /\ cursor \in D /\ cursor \in Prices /\ cursor # -1
      /\ FirstOfOthers(requests[t][cursor], rq.user) = {}
      /\ UNCHANGED <<requests, lowest, highest, rq>>
  BY DEF TypeOK, SkipOwnLevel, AtLevel
<1>2. t \in Types
  BY <1>1, OtherType DEF TransactionRequests
<1>3. D \subseteq Prices /\ requests[t][cursor] \in Seq(TransactionRequests) /\ requests[t][cursor] # << >>
  BY <1>1, <1>2 DEF TypeOK
<1>4. cursor' = Skipped(t, cursor, TRUE)
  BY <1>3 DEF SkipOwnLevel
<1>5. \A i \in DOMAIN requests[t][cursor] : requests[t][cursor][i].user = rq.user
  BY <1>1, <1>3, NoOthers
<1>6. ASSUME NEW p \in D, Passed(cursor', t, p)
      PROVE  p = cursor \/ Passed(cursor, t, p)
  <2>1. p \in Int /\ cursor \in Int
    BY <1>1, <1>3, MarketAssumption DEF Prices
  <2>2. p <= highest[t]
    BY <1>2, BoundsByType DEF IsHighest
  <2>3. CASE t = TRANSACTION_TYPE_BUY
    <3>1. Behind(t, cursor) = {i \in D : i < cursor}
      BY <2>3 DEF Behind
    <3>2. CASE Behind(t, cursor) = {}
      BY <2>1, <2>3, <3>1, <3>2 DEF Passed
    <3>3. CASE Behind(t, cursor) # {}
      <4>1. cursor' = NextLevel(t, cursor) /\ cursor' # -1 /\ cursor' \in Int
        BY <1>1, <1>2, <1>3, <1>4, <3>3, NextLevelProperties, MarketAssumption DEF Skipped, Prices
      <4>2. p > cursor'
        BY <1>6, <2>3, <4>1 DEF Passed
      <4>3. p \notin Behind(t, cursor)
        <5>1. \A y \in Behind(t, cursor) : y <= cursor'
          BY <1>1, <1>2, <1>3, <2>3, <3>3, <4>1, NextLevelProperties
        <5> QED BY <2>1, <4>1, <4>2, <5>1
      <4> QED BY <2>1, <2>3, <3>1, <4>3 DEF Passed
    <3> QED BY <3>2, <3>3
  <2>4. CASE t # TRANSACTION_TYPE_BUY
    <3>1. Behind(t, cursor) = {i \in D : cursor < i /\ i <= highest[t]}
      BY <2>4 DEF Behind
    <3>2. CASE Behind(t, cursor) = {}
      BY <2>1, <2>2, <2>4, <3>1, <3>2 DEF Passed
    <3>3. CASE Behind(t, cursor) # {}
      <4>1. cursor' = NextLevel(t, cursor) /\ cursor' # -1 /\ cursor' \in Int
        BY <1>1, <1>2, <1>3, <1>4, <3>3, NextLevelProperties, MarketAssumption DEF Skipped, Prices
      <4>2. p < cursor'
        BY <1>6, <2>4, <4>1 DEF Passed
      <4>3. p \notin Behind(t, cursor)
        <5>1. \A y \in Behind(t, cursor) : cursor' <= y
          BY <1>1, <1>2, <1>3, <2>4, <3>3, <4>1, NextLevelProperties
        <5> QED BY <2>1, <4>1, <4>2, <5>1
      <4> QED BY <2>1, <2>2, <2>4, <3>1, <4>3 DEF Passed
    <3> QED BY <3>2, <3>3
  <2> QED BY <2>3, <2>4
<1>7. \A p \in D : Passed(cursor', t, p) => \A i \in DOMAIN requests[t][p] : requests[t][p][i].user = rq.user
  BY <1>1, <1>5, <1>6 DEF SearchedOwn
<1> QED BY <1>1, <1>7 DEF SearchedOwn

\* Nothing is passed when the search starts, again or for the first time, at the best level.
LEMMA BestPassesNothing ==
    ASSUME NEW f, DOMAIN f \subseteq Prices, NEW t \in Types, NEW low, NEW high,
           IsLowest(f, low[t]), IsHighest(f, high[t]), NEW p \in DOMAIN f
    PROVE  ~ Passed(Best(t, low, high), t, p)
<1>1. low[t] \in DOMAIN f /\ high[t] \in DOMAIN f /\ low[t] <= p /\ p <= high[t]
  BY DEF IsLowest, IsHighest
<1>2. DOMAIN f \subseteq Nat \ {0}
  BY MarketAssumption DEF Prices
<1> QED BY <1>1, <1>2 DEF Passed, Best

\* A trade never puts an offer of another user behind the search.
LEMMA PerformSearchedOwn ==
    ASSUME TypeOK, TypeOK', BoundsExact', BookFiled, SearchedOwn, Perform
    PROVE  SearchedOwn'
<1> DEFINE t == Other(rq.type)
<1>1. PICK left \in Seq(TransactionRequests), amount \in 1..MaxUsd :
        /\ rq \in TransactionRequests
        /\ cursor \in DOMAIN requests[t]
        /\ requests' = [requests EXCEPT ![t] = WithQueue(requests[t], cursor, left)]
        /\ IF rq.usd = amount
           THEN rq' = NoRequest /\ cursor' = -1
           ELSE /\ rq' = [rq EXCEPT !.usd = @ - amount]
                /\ cursor' = CursorAfter(t, left = << >>)
  BY PerformFacts
<1>2. t \in Types
  BY <1>1, OtherType DEF TransactionRequests
<1>3. rq # NoRequest
  BY <1>1, MarketAssumption
<1>4. \A x : OwnersAt(requests'[t], x) \subseteq OwnersAt(requests[t], x)
  BY <1>2, PerformKeepsFiled
<1>5. CASE rq.usd = amount
  BY <1>1, <1>5 DEF SearchedOwn
<1>6. CASE rq.usd # amount
  <2>1. Other(rq'.type) = t /\ rq'.user = rq.user
    BY <1>1, <1>6 DEF TransactionRequests
  <2>2. ASSUME NEW p \in DOMAIN requests'[t], Passed(cursor', t, p)
        PROVE  OwnersAt(requests'[t], p) \subseteq {rq.user}
    <3>1. CASE left = << >>
      <4>1. cursor' = Best(t, lowest', highest')
        BY <1>1, <1>6, <3>1 DEF CursorAfter
      <4>2. ~ Passed(cursor', t, p)
        <5>1. IsLowest(requests'[t], lowest'[t]) /\ IsHighest(requests'[t], highest'[t])
          BY <1>2 DEF BoundsExact, IsLowest, IsHighest
        <5>2. DOMAIN requests'[t] \subseteq Prices
          BY <1>2 DEF TypeOK
        <5> QED BY <1>2, <4>1, <5>1, <5>2, BestPassesNothing
      <4> QED BY <2>2, <4>2
    <3>2. CASE left # << >>
      <4>1. cursor' = cursor
        BY <1>1, <1>6, <3>2 DEF CursorAfter
      <4>2. Passed(cursor, t, p)
        BY <2>2, <4>1 DEF Passed
      <4>3. p \in DOMAIN requests[t]
        <5>1. requests'[t] = WithQueue(requests[t], cursor, left)
          BY <1>1, <1>2, RequestsExcept
        <5>2. requests'[t] = [requests[t] EXCEPT ![cursor] = left]
          BY <3>2, <5>1 DEF WithQueue
        <5>3. requests[t] \in [DOMAIN requests[t] -> Seq(TransactionRequests)]
          BY <1>2 DEF TypeOK
        <5> QED BY <5>2, <5>3
      <4>4. OwnersAt(requests[t], p) \subseteq {rq.user}
        BY <1>3, <4>2, <4>3, SearchedOwners
      <4> QED BY <1>4, <4>4
    <3> QED BY <3>1, <3>2
  <2>3. \A p \in DOMAIN requests'[t] : Passed(cursor', t, p) =>
            \A i \in DOMAIN requests'[t][p] : requests'[t][p][i].user = rq.user
    BY <2>2 DEF OwnersAt
  <2> QED BY <2>1, <2>3 DEF SearchedOwn
<1> QED BY <1>5, <1>6

\* Every request is filed under its own type and price.
LEMMA FiledCorrect == Spec => []BookFiled
<1>1. Init => BookFiled
  BY DEF Init, BookFiled, Filed
<1>2. TypeOK /\ BookFiled /\ [Next]_vars => BookFiled'
  <2> SUFFICES ASSUME TypeOK, BookFiled, [Next]_vars
               PROVE  BookFiled'
    OBVIOUS
  <2>1. CASE \E u \in Users, t \in Types, p \in Prices, a \in 0..MaxUsd : Submit(u, t, p, a)
    BY <2>1 DEF Submit, BookFiled
  <2>2. CASE Rest
    BY <2>2, RestKeepsFiled
  <2>3. CASE SkipOwnLevel
    BY <2>3 DEF SkipOwnLevel, BookFiled
  <2>4. CASE Perform
    BY <2>4, PerformKeepsFiled
  <2>5. CASE Idle \/ UNCHANGED vars
    BY <2>5 DEF Idle, vars, BookFiled
  <2> QED BY <2>1, <2>2, <2>3, <2>4, <2>5 DEF Next, Match
<1> QED BY <1>1, <1>2, TypeCorrect, PTL DEF Spec

\* The search never passes an offer of another user.
THEOREM SearchCorrect == Spec => []SearchedOwn
<1>1. Init => SearchedOwn
  BY DEF Init, SearchedOwn
<1> DEFINE Known == TypeOK /\ BoundsExact /\ BookFiled
<1>2. Known /\ TypeOK' /\ BoundsExact' /\ SearchedOwn /\ [Next]_vars => SearchedOwn'
  <2> SUFFICES ASSUME TypeOK, BoundsExact, BookFiled, TypeOK', BoundsExact', SearchedOwn, [Next]_vars
               PROVE  SearchedOwn'
    OBVIOUS
  <2>1. ASSUME NEW u \in Users, NEW s \in Types, NEW p \in Prices, NEW a \in 0..MaxUsd,
               Submit(u, s, p, a)
        PROVE  SearchedOwn'
    <3>1. rq'.type = s /\ cursor' = Best(Other(s), lowest, highest) /\ requests' = requests
      BY <2>1 DEF Submit
    <3>2. /\ Other(s) \in Types
          /\ DOMAIN requests[Other(s)] \subseteq Prices
          /\ IsLowest(requests[Other(s)], lowest[Other(s)])
          /\ IsHighest(requests[Other(s)], highest[Other(s)])
      BY OtherType, BoundsByType DEF TypeOK
    <3>3. \A x \in DOMAIN requests[Other(s)] : ~ Passed(cursor', Other(s), x)
      BY <3>1, <3>2, BestPassesNothing
    <3> QED BY <3>1, <3>3 DEF SearchedOwn
  <2>2. CASE Rest
    BY <2>2 DEF Rest, SearchedOwn
  <2>3. CASE SkipOwnLevel
    BY <2>3, SkipSearchedOwn
  <2>4. CASE Perform
    BY <2>4, PerformSearchedOwn
  <2>5. CASE Idle \/ UNCHANGED vars
    BY <2>5 DEF Idle, vars, SearchedOwn
  <2> QED BY <2>1, <2>2, <2>3, <2>4, <2>5 DEF Next, Match
<1> QED BY <1>1, <1>2, TypeCorrect, BoundsCorrect, FiledCorrect, PTL DEF Spec

\* A request rests when the search has passed every level it could trade with.
LEMMA RestApart ==
    ASSUME TypeOK, BookFiled, SearchedOwn, OwnersApart, Rest
    PROVE  OwnersApart'
<1> DEFINE t == rq.type
           o == Other(rq.type)
           f == requests[t]
           g == requests[o]
           h == requests'[t]
<1>1. /\ rq \in TransactionRequests /\ rq # NoRequest /\ t \in Types /\ rq.price \in Prices
      /\ o \in Types /\ o # t /\ Other(o) = t
      /\ cursor \in Prices \cup {-1}
      /\ cursor = -1 \/ ~ Acceptable(rq, cursor)
  BY OtherType DEF TypeOK, Rest, TransactionRequests
<1>2. /\ \A x : OwnersAt(h, x) \subseteq OwnersAt(f, x) \cup (IF x = rq.price THEN {rq.user} ELSE {})
      /\ requests'[o] = g
  BY RestKeepsFiled
<1>3. DOMAIN g \subseteq Prices /\ DOMAIN f \subseteq Prices
  BY <1>1 DEF TypeOK
<1>4. ASSUME NEW y \in DOMAIN g, Crosses(t, rq.price, y)
      PROVE  OwnersAt(g, y) \subseteq {rq.user}
  <2>1. Passed(cursor, o, y)
    <3>1. rq.price \in Int /\ y \in Int /\ cursor \in Int
      BY <1>1, <1>3, MarketAssumption DEF Prices
    <3>2. (t = TRANSACTION_TYPE_SELL) <=> (o = TRANSACTION_TYPE_BUY)
      BY <1>1 DEF Types, Other, TRANSACTION_TYPE_SELL, TRANSACTION_TYPE_BUY
    <3> HIDE DEF o
    <3> QED BY <1>1, <1>4, <3>1, <3>2 DEF Passed, Crosses, Acceptable
  <2> QED BY <1>1, <2>1, SearchedOwners
<1>5. ASSUME NEW x \in DOMAIN h, NEW y \in DOMAIN g, Crosses(t, x, y),
             NEW u \in OwnersAt(h, x), NEW v \in OwnersAt(g, y)
      PROVE  u = v
  <2>1. CASE u \in OwnersAt(f, x)
    <3>1. x \in DOMAIN f
      BY <2>1 DEF OwnersAt
    <3> QED BY <1>1, <1>5, <2>1, <3>1 DEF OwnersApart
  <2>2. CASE u \notin OwnersAt(f, x)
    <3>1. x = rq.price /\ u = rq.user
      BY <1>2, <1>5, <2>2
    <3> QED BY <1>4, <1>5, <3>1
  <2> QED BY <2>1, <2>2
<1>6. ASSUME NEW y \in DOMAIN g, NEW x \in DOMAIN h, Crosses(o, y, x)
      PROVE  Crosses(t, x, y)
  BY <1>1, <1>6 DEF Crosses, Types, TRANSACTION_TYPE_SELL, TRANSACTION_TYPE_BUY
<1>7. \A s \in Types : s = t \/ s = o
  BY <1>1 DEF Types, Other, TRANSACTION_TYPE_SELL, TRANSACTION_TYPE_BUY
<1> HIDE DEF t, o, f, g, h
<1>8. ASSUME NEW s \in Types, NEW x \in DOMAIN requests'[s], NEW y \in DOMAIN requests'[Other(s)],
             Crosses(s, x, y), NEW u \in OwnersAt(requests'[s], x),
             NEW v \in OwnersAt(requests'[Other(s)], y)
      PROVE  u = v
  <2>1. requests'[t] = h /\ requests'[o] = g /\ Other(t) = o /\ Other(o) = t
    BY <1>1, <1>2 DEF h, g, t, o
  <2>2. CASE s = t
    BY <1>5, <1>8, <2>1, <2>2
  <2>3. CASE s = o
    BY <1>5, <1>6, <1>8, <2>1, <2>3
  <2> QED BY <1>7, <2>2, <2>3
<1> QED BY <1>8 DEF OwnersApart

\* A trade adds nobody to a level.
LEMMA PerformApart ==
    ASSUME TypeOK, BookFiled, OwnersApart, Perform
    PROVE  OwnersApart'
<1>1. \A t \in Types : \A x : OwnersAt(requests'[t], x) \subseteq OwnersAt(requests[t], x)
  BY PerformKeepsFiled
<1>2. ASSUME NEW s \in Types, NEW x, NEW y, Crosses(s, x, y),
             NEW u \in OwnersAt(requests'[s], x), NEW v \in OwnersAt(requests'[Other(s)], y)
      PROVE  u = v
  <2>1. u \in OwnersAt(requests[s], x) /\ v \in OwnersAt(requests[Other(s)], y)
    BY <1>1, <1>2, OtherType
  <2>2. x \in DOMAIN requests[s] /\ y \in DOMAIN requests[Other(s)]
    BY <2>1 DEF OwnersAt
  <2> QED BY <1>2, <2>1, <2>2 DEF OwnersApart
<1> QED BY <1>2 DEF OwnersApart

\* The requests of the levels are the requests that rest.
LEMMA ApartImpliesNothingSuitable ==
    ASSUME TypeOK, BookFiled, OwnersApart
    PROVE  NothingSuitableWaits
<1>1. ASSUME NEW r \in RestingRequests
      PROVE  /\ r.type \in Types
             /\ r.price \in DOMAIN requests[r.type]
             /\ r.user \in OwnersAt(requests[r.type], r.price)
  <2>1. PICK t \in Types : r \in UNION {Range(requests[t][p]) : p \in DOMAIN requests[t]}
    BY <1>1 DEF RestingRequests
  <2>2. PICK p \in DOMAIN requests[t] : r \in Range(requests[t][p])
    BY <2>1
  <2>3. PICK i \in DOMAIN requests[t][p] : r = requests[t][p][i]
    BY <2>2 DEF Range
  <2>4. r.type = t /\ r.price = p
    BY <2>2, <2>3 DEF BookFiled, Filed
  <2> QED BY <2>2, <2>3, <2>4 DEF OwnersAt
<1>2. ASSUME NEW s \in RestingRequests, NEW b \in RestingRequests,
             s.type = TRANSACTION_TYPE_SELL, b.type = TRANSACTION_TYPE_BUY, s.price <= b.price
      PROVE  s.user = b.user
  <2>1. Other(s.type) = b.type
    BY <1>2 DEF Other, TRANSACTION_TYPE_SELL, TRANSACTION_TYPE_BUY
  <2>2. Crosses(s.type, s.price, b.price)
    <3>1. s.price \in Int /\ b.price \in Int
      BY <1>1, MarketAssumption DEF TypeOK, Prices
    <3> QED BY <1>2, <3>1 DEF Crosses
  <2> QED BY <1>1, <2>1, <2>2 DEF OwnersApart
<1> QED BY <1>2 DEF NothingSuitableWaits

\* A step that leaves the book alone leaves the owners apart.
LEMMA SameBookApart ==
    ASSUME OwnersApart, requests' = requests
    PROVE  OwnersApart'
<1>1. ASSUME NEW t \in Types, NEW p \in DOMAIN requests[t], NEW o \in DOMAIN requests[Other(t)],
             Crosses(t, p, o)
      PROVE  \A u \in OwnersAt(requests[t], p), v \in OwnersAt(requests[Other(t)], o) : u = v
  BY <1>1, Zenon DEF OwnersApart
<1> QED BY <1>1, requests' = requests, Zenon DEF OwnersApart

\* No two requests of different users ever wait on both sides at prices that would let
\* them trade.
THEOREM NothingSuitableEverWaits == Spec => []NothingSuitableWaits
<1>1. Init => OwnersApart
  BY OtherType DEF Init, OwnersApart
<1>2. TypeOK /\ BookFiled /\ SearchedOwn /\ OwnersApart /\ [Next]_vars => OwnersApart'
  <2> SUFFICES ASSUME TypeOK, BookFiled, SearchedOwn, OwnersApart, [Next]_vars
               PROVE  OwnersApart'
    OBVIOUS
  <2>1. CASE \E u \in Users, t \in Types, p \in Prices, a \in 0..MaxUsd : Submit(u, t, p, a)
    BY <2>1, SameBookApart DEF Submit
  <2>2. CASE Rest
    BY <2>2, RestApart
  <2>3. CASE SkipOwnLevel
    <3>1. requests' = requests
      BY <2>3 DEF SkipOwnLevel
    <3> QED BY <3>1, SameBookApart
  <2>4. CASE Perform
    BY <2>4, PerformApart
  <2>5. CASE Idle \/ UNCHANGED vars
    BY <2>5, SameBookApart DEF Idle, vars
  <2> QED BY <2>1, <2>2, <2>3, <2>4, <2>5 DEF Next, Match
<1>3. Spec => []OwnersApart
  BY <1>1, <1>2, TypeCorrect, FiledCorrect, SearchCorrect, PTL DEF Spec
<1>4. TypeOK /\ BookFiled /\ OwnersApart => NothingSuitableWaits
  BY ApartImpliesNothingSuitable
<1> QED BY <1>3, <1>4, TypeCorrect, FiledCorrect, PTL

-----------------------------------------------------------------------------
(* Prices *)

\* Multiplying by a natural number keeps the order.
LEMMA Times ==
    ASSUME NEW a \in Nat, NEW c \in Int, NEW p \in Int, c <= p
    PROVE  c * a <= p * a
<1>1. PICK d \in Nat : p = c + d
  <2>1. p - c \in Nat /\ p = c + (p - c)
    OBVIOUS
  <2> QED BY <2>1
<1>2. (c + d) * a = c * a + d * a
  OBVIOUS
<1>3. d * a \in Nat /\ c * a \in Int
  OBVIOUS
<1> QED BY <1>1, <1>2, <1>3
\* A trade settles with a request of another user.
LEMMA PerformSettles ==
    ASSUME TypeOK, Perform
    PROVE  \E r \in TransactionRequests, a \in Nat :
            r.user \in Users /\ r.user # rq.user /\ Settle(r, a)
<1> DEFINE q == requests[Other(rq.type)][cursor]
<1>1. rq \in TransactionRequests /\ cursor \in DOMAIN requests[Other(rq.type)]
  BY DEF Perform, AtLevel, TypeOK
<1>2. Other(rq.type) \in Types
  BY <1>1, OtherType DEF TransactionRequests
<1>3. q \in Seq(TransactionRequests)
  BY <1>1, <1>2 DEF TypeOK
<1>4. PICK i \in FirstOfOthers(q, rq.user) : Settle(q[i], Lesser(q[i].usd, rq.usd))
  BY DEF Perform
<1>5. i \in DOMAIN q /\ q[i].user # rq.user
  BY DEF FirstOfOthers
<1>6. q[i] \in TransactionRequests
  BY <1>3, <1>5
<1>7. Lesser(q[i].usd, rq.usd) \in Nat /\ q[i].user \in Users
  BY <1>1, <1>6 DEF TransactionRequests, Lesser
<1> QED BY <1>4, <1>5, <1>6, <1>7

\* What the two parties and everybody else pay in a trade.
LEMMA PerformWithinLimits ==
    ASSUME TypeOK, Perform, NEW u \in Users
    PROVE  LET limit == IF u = rq.user THEN rq.price ELSE cursor
           IN  rub[u] - rub'[u] <= limit * (usd'[u] - usd[u])
<1>1. /\ rq.type \in Types /\ rq.user \in Users /\ rq.price \in Int /\ cursor \in Int
      /\ IF rq.type = TRANSACTION_TYPE_SELL THEN cursor >= rq.price ELSE cursor <= rq.price
  BY DEF Perform, AtLevel, TypeOK, TransactionRequests, Acceptable, Prices
<1>2. PICK r \in TransactionRequests, a \in Nat :
        r.user \in Users /\ r.user # rq.user /\ Settle(r, a)
  BY PerformSettles
<1>3. rub \in [Users -> Int] /\ usd \in [Users -> Int]
  BY DEF TypeOK
<1> DEFINE p == rq.price * a
           me == rq.user
           other == r.user
<1>4. /\ p \in Int /\ cursor * a \in Int /\ (-a) \in Int
      /\ rq.price * (-a) = -p /\ cursor * (-a) = -(cursor * a)
      /\ rq.price * 0 = 0 /\ cursor * 0 = 0
  BY <1>1
<1>5. CASE rq.type = TRANSACTION_TYPE_BUY
  <2>1. /\ usd' = [usd EXCEPT ![me] = @ + a, ![other] = @ - a]
        /\ rub' = [rub EXCEPT ![me] = @ - p, ![other] = @ + p]
    BY <1>2, <1>5 DEF Settle
  <2>2. cursor * a <= p
    BY <1>1, <1>5, Times DEF TRANSACTION_TYPE_SELL, TRANSACTION_TYPE_BUY
  <2>3. CASE u = me
    <3>1. rub[u] - rub'[u] = p /\ usd'[u] - usd[u] = a
      BY <1>1, <1>2, <1>3, <1>4, <2>1, <2>3
    <3> QED BY <3>1, <2>3, <1>4
  <2>4. CASE u = other
    <3>1. rub[u] - rub'[u] = -p /\ usd'[u] - usd[u] = -a
      BY <1>1, <1>2, <1>3, <1>4, <2>1, <2>4
    <3> QED BY <3>1, <2>2, <2>4, <1>2, <1>4
  <2>5. CASE u # me /\ u # other
    <3>1. rub[u] - rub'[u] = 0 /\ usd'[u] - usd[u] = 0
      BY <1>1, <1>2, <1>3, <2>1, <2>5
    <3> QED BY <3>1, <2>5, <1>4
  <2> QED BY <2>3, <2>4, <2>5
<1>6. CASE rq.type # TRANSACTION_TYPE_BUY
  <2>1. /\ usd' = [usd EXCEPT ![other] = @ + a, ![me] = @ - a]
        /\ rub' = [rub EXCEPT ![other] = @ - p, ![me] = @ + p]
    BY <1>2, <1>6 DEF Settle
  <2>2. p <= cursor * a
    BY <1>1, <1>6, Times DEF Types
  <2>3. CASE u = me
    <3>1. rub[u] - rub'[u] = -p /\ usd'[u] - usd[u] = -a
      BY <1>1, <1>2, <1>3, <1>4, <2>1, <2>3
    <3> QED BY <3>1, <2>3, <1>4
  <2>4. CASE u = other
    <3>1. rub[u] - rub'[u] = p /\ usd'[u] - usd[u] = a
      BY <1>1, <1>2, <1>3, <1>4, <2>1, <2>4
    <3> QED BY <3>1, <2>2, <2>4, <1>2, <1>4
  <2>5. CASE u # me /\ u # other
    <3>1. rub[u] - rub'[u] = 0 /\ usd'[u] - usd[u] = 0
      BY <1>1, <1>2, <1>3, <2>1, <2>5
    <3> QED BY <3>1, <2>5, <1>4
  <2> QED BY <2>3, <2>4, <2>5
<1> QED BY <1>5, <1>6

\* No trade makes a buyer pay more, or a seller earn less, than the price of their request
\* (transaction_request.cpp:30-59, called from both halves of addRequest).
THEOREM TradesWithinLimits == Spec => PriceWithinLimits
<1>1. TypeOK /\ [Next]_vars => [rq # NoRequest =>
        \A u \in Users :
            LET bought == usd'[u] - usd[u]
                paid == rub[u] - rub'[u]
                limit == IF u = rq.user THEN rq.price ELSE cursor
            IN  paid <= limit * bought]_vars
  <2> SUFFICES ASSUME TypeOK, Next, rq # NoRequest, NEW u \in Users
               PROVE  LET limit == IF u = rq.user THEN rq.price ELSE cursor
                      IN  rub[u] - rub'[u] <= limit * (usd'[u] - usd[u])
    OBVIOUS
  <2>1. CASE Perform
    BY <2>1, PerformWithinLimits
  <2>2. CASE rub' = rub /\ usd' = usd
    <3>1. rub[u] - rub'[u] = 0 /\ usd'[u] - usd[u] = 0 /\ rq.price \in Int /\ cursor \in Int
      BY <2>2 DEF TypeOK, TransactionRequests, Prices
    <3>2. rq.price * 0 = 0 /\ cursor * 0 = 0
      BY <3>1
    <3> QED BY <3>1, <3>2
  <2> QED BY <2>1, <2>2 DEF Next, Match, Submit, Rest, SkipOwnLevel, Idle, vars
<1> QED BY <1>1, TypeCorrect, PTL DEF Spec, PriceWithinLimits

-----------------------------------------------------------------------------
(***************************************************************************)
(* Market implements Exchange: price lists, cached bounds and a search     *)
(* that skips levels serve an incoming request from a plain set of waiting *)
(* ones, in price-time order, for every set of users and every bound.      *)
(*                                                                         *)
(* Price priority comes from SearchedOwn: whatever lies at a better price  *)
(* than the level looked at is the user's own.  Time priority comes from   *)
(* InOrder below: a list holds its requests in the order they were posted. *)
(***************************************************************************)

-----------------------------------------------------------------------------
(* The order of the lists *)

\* A list has its requests in the order they were posted, all before number n.
OrderedList(q, n) ==
    /\ \A i, j \in DOMAIN q : i < j => q[i].id < q[j].id
    /\ \A i \in DOMAIN q : q[i].id < n

\* The request in the loop is the last one posted and is on no list.
Latest == IF rq = NoRequest THEN count + 1 ELSE count
InOrder ==
    /\ \A t \in Types : \A p \in DOMAIN requests[t] : OrderedList(requests[t][p], Latest)
    /\ rq # NoRequest => rq.id = count

\* The ids of a list are numbers.
LEMMA IdsAreInts ==
    /\ \A r \in TransactionRequests : r.id \in Int
    /\ \A q \in Seq(TransactionRequests) : \A i \in DOMAIN q : q[i].id \in Int
<1>1. ASSUME NEW r \in TransactionRequests
      PROVE  r.id \in Int
  BY DEF TransactionRequests
<1>2. ASSUME NEW q \in Seq(TransactionRequests), NEW i \in DOMAIN q
      PROVE  q[i] \in TransactionRequests
  OBVIOUS
<1> QED BY <1>1, <1>2

\* An ordered list stays ordered when more requests are posted.
LEMMA OrderedLater ==
    ASSUME NEW q \in Seq(TransactionRequests), NEW n \in Int, NEW m \in Int, n <= m,
           OrderedList(q, n)
    PROVE  OrderedList(q, m)
<1>1. \A i \in DOMAIN q : q[i].id \in Int
  BY IdsAreInts
<1> QED BY <1>1 DEF OrderedList

\* The last request posted goes to the end of an ordered list.
LEMMA AppendOrdered ==
    ASSUME NEW q \in Seq(TransactionRequests), NEW r \in TransactionRequests,
           OrderedList(q, r.id)
    PROVE  OrderedList(Append(q, r), r.id + 1)
<1> DEFINE s == Append(q, r)
<1>1. /\ DOMAIN s = 1..(Len(q) + 1)
      /\ \A i \in 1..Len(q) : s[i] = q[i]
      /\ s[Len(q) + 1] = r
      /\ DOMAIN q = 1..Len(q) /\ Len(q) \in Nat
  OBVIOUS
<1>2. r.id \in Int /\ \A i \in 1..Len(q) : q[i].id \in Int
  <2>1. DOMAIN q = 1..Len(q)
    OBVIOUS
  <2> QED BY <2>1, IdsAreInts
<1> HIDE DEF s
<1>3. ASSUME NEW i \in DOMAIN s, NEW j \in DOMAIN s, i < j
      PROVE  s[i].id < s[j].id
  <2>1. i \in 1..Len(q)
    BY <1>1, <1>3
  <2>2. CASE j = Len(q) + 1
    BY <1>1, <2>1, <2>2 DEF OrderedList
  <2>3. CASE j # Len(q) + 1
    <3>1. j \in 1..Len(q)
      BY <1>1, <2>3
    <3> QED BY <1>1, <1>3, <2>1, <3>1 DEF OrderedList
  <2> QED BY <2>2, <2>3
<1>4. ASSUME NEW i \in DOMAIN s
      PROVE  s[i].id < r.id + 1
  <2>1. CASE i = Len(q) + 1
    BY <1>1, <1>2, <2>1
  <2>2. CASE i # Len(q) + 1
    <3>1. i \in 1..Len(q)
      BY <1>1, <2>2
    <3>2. q[i].id < r.id
      BY <1>1, <3>1 DEF OrderedList
    <3> QED BY <1>1, <1>2, <3>1, <3>2
  <2> QED BY <2>1, <2>2
<1> QED BY <1>3, <1>4 DEF OrderedList, s

\* Serving a request of an ordered list leaves the others in their order.
LEMMA ServedOrdered ==
    ASSUME NEW q \in Seq(TransactionRequests), NEW i \in DOMAIN q,
           NEW amount \in 1..q[i].usd, NEW n, OrderedList(q, n)
    PROVE  OrderedList(Served(q, i, amount), n)
<1> DEFINE s == Served(q, i, amount)
<1>1. i \in 1..Len(q) /\ Len(q) \in Nat /\ DOMAIN q = 1..Len(q)
  BY LenProperties
<1>2. CASE q[i].usd = amount
  <2>1. /\ DOMAIN s = 1..(Len(q) - 1)
        /\ \A j \in 1..(Len(q) - 1) : s[j] = IF j < i THEN q[j] ELSE q[j + 1]
    BY <1>2, ServedFulfilled
  <2> HIDE DEF s
  <2>2. \A j \in DOMAIN s : j \in DOMAIN q /\ j + 1 \in DOMAIN q
    BY <1>1, <2>1
  <2>3. ASSUME NEW j \in DOMAIN s, NEW k \in DOMAIN s, j < k
        PROVE  s[j].id < s[k].id
    <3>1. j < k /\ j + 1 < k + 1 /\ j < k + 1 /\ (k < i => j < i)
      BY <1>1, <2>1, <2>3
    <3> QED BY <2>1, <2>2, <3>1 DEF OrderedList
  <2>4. \A j \in DOMAIN s : s[j].id < n
    BY <2>1, <2>2 DEF OrderedList
  <2> QED BY <2>3, <2>4 DEF OrderedList, s
<1>3. CASE q[i].usd # amount
  <2> DEFINE part == [q[i] EXCEPT !.usd = @ - amount]
  <2>1. /\ DOMAIN s = 1..Len(q)
        /\ \A j \in 1..Len(q) : s[j] = IF j = i THEN part ELSE q[j]
        /\ SameRequest(part, q[i])
    BY <1>3, ServedInPart
  <2> HIDE DEF s, part
  <2>2. DOMAIN s = DOMAIN q /\ \A j \in DOMAIN q : s[j].id = q[j].id
    BY <1>1, <2>1 DEF SameRequest
  <2> QED BY <2>2 DEF OrderedList, s
<1> QED BY <1>2, <1>3

\* The levels after the queue of one of them has become q.
LEMMA WithQueueLevels ==
    ASSUME NEW f, LevelsOK(f), NEW p \in DOMAIN f, NEW q
    PROVE  /\ \A x : x \in DOMAIN WithQueue(f, p, q) <=> x \in DOMAIN f /\ (x = p => q # << >>)
           /\ \A x \in DOMAIN WithQueue(f, p, q) :
                WithQueue(f, p, q)[x] = IF x = p THEN q ELSE f[x]
<1>1. CASE q = << >>
  BY <1>1 DEF WithQueue, Restrict
<1>2. CASE q # << >>
  BY <1>2 DEF WithQueue, LevelsOK
<1> QED BY <1>1, <1>2

\* What a trade does to the list it finds: the request at i is the first of another user,
\* and is served as far as both sides allow.
LEMMA PerformServes ==
    ASSUME TypeOK, Perform
    PROVE  LET t == Other(rq.type)
               q == requests[t][cursor]
           IN  /\ rq \in TransactionRequests /\ rq # NoRequest
               /\ t \in Types /\ LevelsOK(requests[t])
               /\ cursor \in DOMAIN requests[t] /\ cursor # -1 /\ Acceptable(rq, cursor)
               /\ q \in Seq(TransactionRequests)
               /\ \E i \in FirstOfOthers(q, rq.user) :
                    LET amount == Lesser(q[i].usd, rq.usd)
                    IN  /\ amount \in 1..q[i].usd
                        /\ Settle(q[i], amount)
                        /\ requests' = [requests EXCEPT ![t] =
                             WithQueue(requests[t], cursor, Served(q, i, amount))]
                        /\ rq' = IF rq.usd = amount
                                 THEN NoRequest ELSE [rq EXCEPT !.usd = @ - amount]
                        /\ count' = count
<1> DEFINE t == Other(rq.type)
           q == requests[t][cursor]
<1>1. /\ rq \in TransactionRequests /\ rq # NoRequest
      /\ cursor \in DOMAIN requests[t] /\ cursor # -1 /\ Acceptable(rq, cursor)
  BY DEF Perform, AtLevel, TypeOK
<1>2. t \in Types
  BY <1>1, OtherType DEF TransactionRequests
<1>3. LevelsOK(requests[t]) /\ q \in Seq(TransactionRequests)
  BY <1>1, <1>2 DEF TypeOK, LevelsOK
<1>4. PICK i \in FirstOfOthers(q, rq.user) :
        LET amount == Lesser(q[i].usd, rq.usd)
        IN  /\ Settle(q[i], amount)
            /\ requests' = [requests EXCEPT ![t] =
                 WithQueue(requests[t], cursor, Served(q, i, amount))]
            /\ rq' = IF rq.usd = amount
                     THEN NoRequest ELSE [rq EXCEPT !.usd = @ - amount]
            /\ count' = count
  BY DEF Perform
<1>5. q[i] \in TransactionRequests
  BY <1>3 DEF FirstOfOthers
<1> HIDE DEF q, t
<1>6. Lesser(q[i].usd, rq.usd) \in 1..q[i].usd
  <2>1. q[i].usd \in 1..MaxUsd /\ rq.usd \in 1..MaxUsd
    BY <1>1, <1>5 DEF TransactionRequests
  <2> QED BY <2>1, MarketAssumption DEF Lesser
<1> QED BY <1>1, <1>2, <1>3, <1>4, <1>6 DEF q, t

\* A request put on its list keeps the lists in order.
LEMMA RestInOrder ==
    ASSUME TypeOK, InOrder, Rest
    PROVE  InOrder'
<1> DEFINE t == rq.type
           f == requests[t]
<1>1. rq \in TransactionRequests /\ rq # NoRequest /\ t \in Types /\ LevelsOK(f)
  BY DEF TypeOK, Rest, TransactionRequests, LevelsOK
<1>2. /\ requests'[t] = Enqueued(f, rq)
      /\ \A s \in Types : s # t => requests'[s] = requests[s]
  BY <1>1, RequestsExcept DEF Rest
<1>3. Latest = count /\ rq.id = count /\ Latest' = count + 1 /\ count \in Int
  BY <1>1, MarketAssumption DEF Rest, Latest, InOrder, TypeOK
<1>4. ASSUME NEW s \in Types, NEW p \in DOMAIN requests[s]
      PROVE  /\ requests[s][p] \in Seq(TransactionRequests)
             /\ OrderedList(requests[s][p], count)
             /\ OrderedList(requests[s][p], count + 1)
  <2>1. requests[s][p] \in Seq(TransactionRequests)
    BY DEF TypeOK
  <2>2. OrderedList(requests[s][p], count)
    BY <1>3 DEF InOrder
  <2>3. count + 1 \in Int /\ count <= count + 1
    BY <1>3
  <2> QED BY <1>3, <2>1, <2>2, <2>3, OrderedLater
<1>5. ASSUME NEW p \in DOMAIN Enqueued(f, rq)
      PROVE  OrderedList(Enqueued(f, rq)[p], count + 1)
  <2>1. CASE p # rq.price
    <3>1. p \in DOMAIN f /\ Enqueued(f, rq)[p] = f[p]
      BY <1>5, <2>1 DEF Enqueued
    <3> QED BY <1>1, <1>4, <3>1
  <2>2. CASE p = rq.price /\ p \in DOMAIN f
    <3>1. Enqueued(f, rq)[p] = Append(f[p], rq)
      BY <2>2 DEF Enqueued
    <3>2. f[p] \in Seq(TransactionRequests) /\ OrderedList(f[p], rq.id)
      BY <1>1, <1>3, <1>4, <2>2
    <3>3. OrderedList(Append(f[p], rq), rq.id + 1)
      BY <1>1, <3>2, AppendOrdered
    <3> QED BY <1>3, <3>1, <3>3
  <2>3. CASE p = rq.price /\ p \notin DOMAIN f
    <3>1. Enqueued(f, rq)[p] = <<rq>>
      BY <2>3 DEF Enqueued
    <3> QED BY <1>3, <3>1 DEF OrderedList
  <2> QED BY <1>5, <2>1, <2>2, <2>3 DEF Enqueued
<1>6. \A s \in Types : \A p \in DOMAIN requests'[s] : OrderedList(requests'[s][p], count + 1)
  <2> SUFFICES ASSUME NEW s \in Types, NEW p \in DOMAIN requests'[s]
               PROVE  OrderedList(requests'[s][p], count + 1)
    OBVIOUS
  <2>1. CASE s = t
    BY <1>2, <1>5, <2>1
  <2>2. CASE s # t
    BY <1>2, <1>4, <2>2
  <2> QED BY <2>1, <2>2
<1>7. rq' = NoRequest
  BY DEF Rest
<1> QED BY <1>3, <1>6, <1>7 DEF InOrder

\* A trade keeps the lists in order.
LEMMA PerformInOrder ==
    ASSUME TypeOK, InOrder, Perform
    PROVE  InOrder'
<1> DEFINE t == Other(rq.type)
           f == requests[t]
           q == f[cursor]
<1>1. /\ rq \in TransactionRequests /\ rq # NoRequest
      /\ t \in Types /\ LevelsOK(f) /\ cursor \in DOMAIN f
      /\ q \in Seq(TransactionRequests)
  BY PerformServes
<1>2. PICK i \in FirstOfOthers(q, rq.user) :
        LET amount == Lesser(q[i].usd, rq.usd)
        IN  /\ amount \in 1..q[i].usd
            /\ requests' = [requests EXCEPT ![t] = WithQueue(f, cursor, Served(q, i, amount))]
            /\ rq' = IF rq.usd = amount THEN NoRequest ELSE [rq EXCEPT !.usd = @ - amount]
            /\ count' = count
  BY PerformServes
<1> DEFINE amount == Lesser(q[i].usd, rq.usd)
           left == Served(q, i, amount)
<1>3. /\ requests'[t] = WithQueue(f, cursor, left)
      /\ \A s \in Types : s # t => requests'[s] = requests[s]
  BY <1>1, <1>2, RequestsExcept
<1>4. /\ count \in Int /\ Latest = count /\ rq.id = count /\ Latest' \in {count, count + 1}
      /\ rq' # NoRequest => rq'.id = count'
  <2>1. count \in Int /\ Latest = count /\ rq.id = count
    BY <1>1, MarketAssumption DEF Latest, InOrder, TypeOK
  <2>2. rq' # NoRequest => rq'.id = rq.id
    BY <1>1, <1>2 DEF TransactionRequests
  <2> QED BY <1>2, <2>1, <2>2 DEF Latest
<1>5. left \in Seq(TransactionRequests) /\ OrderedList(left, count)
  <2>1. i \in DOMAIN q /\ amount \in 1..q[i].usd
    BY <1>2 DEF FirstOfOthers
  <2>2. OrderedList(q, count)
    BY <1>1, <1>4 DEF InOrder
  <2> HIDE DEF q, amount
  <2> QED BY <1>1, <2>1, <2>2, ServedOrdered, ServedProperties
<1> HIDE DEF amount, left
<1>6. ASSUME NEW s \in Types, NEW p \in DOMAIN requests'[s]
      PROVE  /\ requests'[s][p] \in Seq(TransactionRequests)
             /\ OrderedList(requests'[s][p], count)
  <2>1. CASE s = t
    <3>1. \A x \in DOMAIN f : f[x] \in Seq(TransactionRequests) /\ OrderedList(f[x], count)
      BY <1>1, <1>4 DEF TypeOK, InOrder
    <3> HIDE DEF f, t
    <3>2. \A x \in DOMAIN WithQueue(f, cursor, left) :
            x \in DOMAIN f /\ WithQueue(f, cursor, left)[x] = IF x = cursor THEN left ELSE f[x]
      BY <1>1, WithQueueLevels
    <3> QED BY <1>3, <1>5, <1>6, <2>1, <3>1, <3>2
  <2>2. CASE s # t
    BY <1>3, <1>4, <1>6, <2>2 DEF TypeOK, InOrder
  <2> QED BY <2>1, <2>2
<1>7. \A s \in Types : \A p \in DOMAIN requests'[s] : OrderedList(requests'[s][p], Latest')
  <2>1. count + 1 \in Int /\ count <= count + 1
    BY <1>4
  <2> QED BY <1>4, <1>6, <2>1, OrderedLater
<1> QED BY <1>4, <1>7 DEF InOrder

\* The lists are always in the order of posting.
LEMMA OrderCorrect == Spec => []InOrder
<1>1. Init => InOrder
  BY DEF Init, InOrder
<1>2. TypeOK /\ InOrder /\ [Next]_vars => InOrder'
  <2> SUFFICES ASSUME TypeOK, InOrder, [Next]_vars
               PROVE  InOrder'
    OBVIOUS
  <2>1. ASSUME NEW u \in Users, NEW t \in Types, NEW p \in Prices, NEW a \in 0..MaxUsd,
               Submit(u, t, p, a)
        PROVE  InOrder'
    <3>1. rq' # NoRequest
      <4>1. count + 1 \in 1..MaxRequests /\ a \in 1..MaxUsd
        BY <2>1, MarketAssumption DEF TypeOK, Submit
      <4>2. rq' \in TransactionRequests
        BY <2>1, <4>1 DEF Submit, TransactionRequests
      <4> QED BY <4>2, MarketAssumption
    <3>2. Latest' = Latest /\ requests' = requests /\ rq'.id = count'
      BY <2>1, <3>1 DEF Submit, Latest
    <3> QED BY <3>2 DEF InOrder
  <2>2. CASE Rest
    BY <2>2, RestInOrder
  <2>3. CASE SkipOwnLevel
    BY <2>3 DEF SkipOwnLevel, InOrder, Latest
  <2>4. CASE Perform
    BY <2>4, PerformInOrder
  <2>5. CASE Idle \/ UNCHANGED vars
    BY <2>5 DEF Idle, vars, InOrder, Latest
  <2> QED BY <2>1, <2>2, <2>3, <2>4, <2>5 DEF Next, Match
<1> QED BY <1>1, <1>2, TypeCorrect, PTL DEF Spec

-----------------------------------------------------------------------------
(* The lists as a set of waiting requests *)

\* Request r is on a list of the levels.
HeldIn(f, r) == \E p \in DOMAIN f : \E i \in DOMAIN f[p] : r = f[p][i]

\* What rests in a market is what its levels hold.
LEMMA RestingHeld ==
    ASSUME NEW R, NEW r
    PROVE  r \in UNION {UNION {Range(R[t][p]) : p \in DOMAIN R[t]} : t \in Types}
            <=> \E t \in Types : HeldIn(R[t], r)
  BY DEF HeldIn, Range

\* A request put on its list joins the others.
LEMMA EnqueuedHeld ==
    ASSUME NEW f, LevelsOK(f), NEW r \in TransactionRequests, NEW x
    PROVE  HeldIn(Enqueued(f, r), x) <=> HeldIn(f, x) \/ x = r
<1> DEFINE g == Enqueued(f, r)
<1>1. /\ \A p : p \in DOMAIN g <=> p \in DOMAIN f \/ p = r.price
      /\ \A p \in DOMAIN f : p # r.price => g[p] = f[p]
  BY DEF Enqueued
<1>2. CASE r.price \in DOMAIN f
  <2> DEFINE q == f[r.price]
  <2>1. q \in Seq(TransactionRequests) /\ g[r.price] = Append(q, r)
    BY <1>2 DEF LevelsOK, Enqueued
  <2> HIDE DEF g, q
  <2>2. /\ DOMAIN g[r.price] = 1..(Len(q) + 1)
        /\ \A i \in 1..Len(q) : g[r.price][i] = q[i]
        /\ g[r.price][Len(q) + 1] = r
        /\ DOMAIN q = 1..Len(q) /\ Len(q) \in Nat
    BY <2>1
  <2>3. (\E i \in DOMAIN g[r.price] : x = g[r.price][i]) <=> (\E i \in DOMAIN q : x = q[i]) \/ x = r
    <3>1. ASSUME NEW i \in DOMAIN g[r.price]
          PROVE  (i \in DOMAIN q /\ g[r.price][i] = q[i]) \/ g[r.price][i] = r
      BY <2>2
    <3>2. ASSUME NEW i \in DOMAIN q
          PROVE  i \in DOMAIN g[r.price] /\ g[r.price][i] = q[i]
      BY <2>2
    <3>3. Len(q) + 1 \in DOMAIN g[r.price] /\ g[r.price][Len(q) + 1] = r
      BY <2>2
    <3> QED BY <3>1, <3>2, <3>3
  <2> QED BY <1>1, <1>2, <2>3 DEF HeldIn, q, g
<1>3. CASE r.price \notin DOMAIN f
  <2>1. g[r.price] = <<r>>
    BY <1>3 DEF Enqueued
  <2> HIDE DEF g
  <2>2. \A p \in DOMAIN f : g[p] = f[p]
    BY <1>1, <1>3
  <2>3. (\E i \in DOMAIN g[r.price] : x = g[r.price][i]) <=> x = r
    BY <2>1
  <2> QED BY <1>1, <1>3, <2>2, <2>3 DEF HeldIn, g
<1> QED BY <1>2, <1>3

\* When the queue at price p has become q, what q holds takes the place of what p held.
LEMMA WithQueueHeld ==
    ASSUME NEW f, LevelsOK(f), NEW p \in DOMAIN f, NEW q \in Seq(TransactionRequests), NEW x
    PROVE  HeldIn(WithQueue(f, p, q), x) <=>
            \/ \E y \in DOMAIN f : y # p /\ \E i \in DOMAIN f[y] : x = f[y][i]
            \/ \E j \in DOMAIN q : x = q[j]
<1> DEFINE g == WithQueue(f, p, q)
<1>1. /\ \A y : y \in DOMAIN g <=> y \in DOMAIN f /\ (y = p => q # << >>)
      /\ \A y \in DOMAIN g : g[y] = IF y = p THEN q ELSE f[y]
  BY WithQueueLevels
<1>2. q = << >> => DOMAIN q = {}
  OBVIOUS
<1> HIDE DEF g
<1> QED BY <1>1, <1>2 DEF HeldIn, g

\* A served queue holds the other requests, and what is left of the served one.
LEMMA ServedHeld ==
    ASSUME NEW q \in Seq(TransactionRequests), NEW i \in DOMAIN q,
           NEW amount \in 1..q[i].usd, NEW x
    PROVE  (\E j \in DOMAIN Served(q, i, amount) : x = Served(q, i, amount)[j]) <=>
            \/ \E k \in DOMAIN q : k # i /\ x = q[k]
            \/ q[i].usd # amount /\ x = [q[i] EXCEPT !.usd = @ - amount]
<1> DEFINE s == Served(q, i, amount)
           part == [q[i] EXCEPT !.usd = @ - amount]
<1>1. i \in 1..Len(q) /\ Len(q) \in Nat /\ DOMAIN q = 1..Len(q)
  BY LenProperties
<1>2. CASE q[i].usd = amount
  <2>1. /\ DOMAIN s = 1..(Len(q) - 1)
        /\ \A j \in 1..(Len(q) - 1) : s[j] = IF j < i THEN q[j] ELSE q[j + 1]
    BY <1>2, ServedFulfilled
  <2> HIDE DEF s
  <2>2. ASSUME NEW j \in DOMAIN s
        PROVE  \E k \in DOMAIN q : k # i /\ s[j] = q[k]
    <3>1. CASE j < i
      <4>1. j \in DOMAIN q /\ j # i /\ s[j] = q[j]
        BY <1>1, <2>1, <3>1
      <4> QED BY <4>1
    <3>2. CASE ~ (j < i)
      <4>1. j + 1 \in DOMAIN q /\ j + 1 # i /\ s[j] = q[j + 1]
        BY <1>1, <2>1, <3>2
      <4> QED BY <4>1
    <3> QED BY <3>1, <3>2
  <2>3. ASSUME NEW k \in DOMAIN q, k # i
        PROVE  \E j \in DOMAIN s : s[j] = q[k]
    <3>1. CASE k < i
      <4>1. k \in DOMAIN s /\ s[k] = q[k]
        BY <1>1, <2>1, <3>1
      <4> QED BY <4>1
    <3>2. CASE ~ (k < i)
      <4>1. k - 1 \in DOMAIN s /\ ~ (k - 1 < i) /\ k - 1 + 1 = k
        BY <1>1, <2>1, <2>3, <3>2
      <4> QED BY <2>1, <4>1
    <3> QED BY <3>1, <3>2
  <2> QED BY <1>2, <2>2, <2>3 DEF s
<1>3. CASE q[i].usd # amount
  <2>1. /\ DOMAIN s = 1..Len(q)
        /\ \A j \in 1..Len(q) : s[j] = IF j = i THEN part ELSE q[j]
    BY <1>3, ServedInPart
  <2> HIDE DEF s, part
  <2>2. DOMAIN s = DOMAIN q /\ s[i] = part /\ \A j \in DOMAIN q : j # i => s[j] = q[j]
    BY <1>1, <2>1
  <2> QED BY <1>3, <2>2 DEF s, part
<1> QED BY <1>2, <1>3

-----------------------------------------------------------------------------
(* The steps *)

\* What rests, in the levels of each type.
LEMMA RestingNow == \A r : r \in RestingRequests <=> \E t \in Types : HeldIn(requests[t], r)
  BY RestingHeld DEF RestingRequests

\* The same in the next state.
LEMMA RestingNext == \A r : r \in RestingRequests' <=> \E t \in Types : HeldIn(requests'[t], r)
  BY RestingHeld DEF RestingRequests

\* A request that rests is on the list of its type and price.
LEMMA RestingFiled ==
    ASSUME TypeOK, BookFiled, NEW r \in RestingRequests
    PROVE  /\ r \in TransactionRequests
           /\ r.price \in DOMAIN requests[r.type]
           /\ \E i \in DOMAIN requests[r.type][r.price] : r = requests[r.type][r.price][i]
<1>1. PICK t \in Types : HeldIn(requests[t], r)
  BY RestingNow
<1>2. PICK p \in DOMAIN requests[t] : \E i \in DOMAIN requests[t][p] : r = requests[t][p][i]
  BY <1>1 DEF HeldIn
<1>3. PICK i \in DOMAIN requests[t][p] : r = requests[t][p][i]
  BY <1>2
<1>4. r.type = t /\ r.price = p
  BY <1>3 DEF BookFiled, Filed
<1>5. requests[t][p] \in Seq(TransactionRequests)
  BY <1>2 DEF TypeOK
<1> QED BY <1>3, <1>4, <1>5

\* A suitable offer is on a list of the other type, at a price the loop accepts.
LEMMA SuitableFiled ==
    ASSUME TypeOK, BookFiled, rq \in TransactionRequests, NEW o \in Ideal!Suitable
    PROVE  /\ o \in RestingRequests /\ o \in TransactionRequests
           /\ o.type = Other(rq.type) /\ o.user # rq.user
           /\ o.price \in DOMAIN requests[Other(rq.type)]
           /\ \E i \in DOMAIN requests[Other(rq.type)][o.price] :
                o = requests[Other(rq.type)][o.price][i]
           /\ Acceptable(rq, o.price)
<1>1. o \in RestingRequests /\ o.type # rq.type /\ o.user # rq.user /\ Ideal!Meets(o, rq)
  BY DEF Ideal!Suitable
<1>2. /\ o \in TransactionRequests
      /\ o.price \in DOMAIN requests[o.type]
      /\ \E i \in DOMAIN requests[o.type][o.price] : o = requests[o.type][o.price][i]
  BY <1>1, RestingFiled
<1>3. o.type \in Types /\ rq.type \in Types
  BY <1>2 DEF TransactionRequests
<1>4. o.type = Other(rq.type)
  BY <1>1, <1>3 DEF Types, Other, TRANSACTION_TYPE_SELL, TRANSACTION_TYPE_BUY
<1>5. Acceptable(rq, o.price)
  BY <1>1 DEF Acceptable, Ideal!Meets, Ideal!SELL, TRANSACTION_TYPE_SELL
<1> QED BY <1>1, <1>2, <1>4, <1>5

\* The search has passed no suitable offer.
LEMMA SuitableNotPassed ==
    ASSUME TypeOK, BookFiled, SearchedOwn, rq \in TransactionRequests, rq # NoRequest,
           NEW o \in Ideal!Suitable
    PROVE  ~ Passed(cursor, Other(rq.type), o.price)
<1>1. /\ o.user # rq.user /\ o.price \in DOMAIN requests[Other(rq.type)]
      /\ \E i \in DOMAIN requests[Other(rq.type)][o.price] :
            o = requests[Other(rq.type)][o.price][i]
  BY SuitableFiled
<1> QED BY <1>1 DEF SearchedOwn

\* A request that is posted is an incoming one.
LEMMA SubmitPosts ==
    ASSUME NEW u \in Users, NEW t \in Types, NEW p \in Prices, NEW a \in 0..MaxUsd,
           Submit(u, t, p, a)
    PROVE  Ideal!Next
<1>1. a \in 1..MaxUsd
  BY MarketAssumption DEF Submit
<1>2. RestingRequests' = RestingRequests
  BY DEF Submit, RestingRequests
<1>3. Ideal!Post(u, t, p, a)
  BY <1>2 DEF Submit, Ideal!Post
<1>4. t \in {Ideal!SELL, Ideal!BUY} /\ p \in 1..MaxPrice
  BY DEF Types, Prices, Ideal!SELL, Ideal!BUY, TRANSACTION_TYPE_SELL, TRANSACTION_TYPE_BUY
<1> QED BY <1>1, <1>3, <1>4 DEF Ideal!Next

\* A request is put on its list when no suitable offer is left.
LEMMA RestWaits ==
    ASSUME TypeOK, BookFiled, SearchedOwn, Rest
    PROVE  Ideal!Wait
<1> DEFINE t == rq.type
           f == requests[t]
<1>1. /\ rq \in TransactionRequests /\ rq # NoRequest /\ t \in Types /\ LevelsOK(f)
      /\ cursor = -1 \/ ~ Acceptable(rq, cursor)
      /\ cursor \in Prices \cup {-1}
  BY DEF TypeOK, Rest, TransactionRequests, LevelsOK
<1>2. ASSUME NEW o \in Ideal!Suitable
      PROVE  FALSE
  <2>1. Acceptable(rq, o.price) /\ o.price \in Prices
    BY <1>1, SuitableFiled DEF TransactionRequests
  <2>2. ~ Passed(cursor, Other(rq.type), o.price)
    BY <1>1, SuitableNotPassed
  <2>3. rq.price \in Int /\ o.price \in Int /\ cursor \in Int
    BY <1>1, <2>1, MarketAssumption DEF Prices, TransactionRequests
  <2>4. (rq.type = TRANSACTION_TYPE_SELL) <=> (Other(rq.type) = TRANSACTION_TYPE_BUY)
    BY <1>1 DEF Types, Other, TRANSACTION_TYPE_SELL, TRANSACTION_TYPE_BUY
  <2> QED BY <1>1, <2>1, <2>2, <2>3, <2>4 DEF Passed, Acceptable
<1>3. /\ requests'[t] = Enqueued(f, rq)
      /\ \A s \in Types : s # t => requests'[s] = requests[s]
  BY <1>1, RequestsExcept DEF Rest
<1>4. ASSUME NEW x
      PROVE  x \in RestingRequests' <=> x \in RestingRequests \/ x = rq
  <2>1. HeldIn(requests'[t], x) <=> HeldIn(requests[t], x) \/ x = rq
    BY <1>1, <1>3, EnqueuedHeld
  <2> HIDE DEF t
  <2>2. (\E s \in Types : HeldIn(requests'[s], x)) <=>
            (\E s \in Types : HeldIn(requests[s], x)) \/ x = rq
    BY <1>1, <1>3, <2>1
  <2> QED BY <2>2, RestingNow, RestingNext
<1>5. RestingRequests' = RestingRequests \cup {rq}
  BY <1>4
<1>6. Ideal!Suitable = {}
  BY <1>2
<1> QED BY <1>1, <1>5, <1>6 DEF Rest, Ideal!Wait

\* A trade takes the suitable offer that no other one precedes.
LEMMA FirstServed ==
    ASSUME TypeOK, BookFiled, SearchedOwn, InOrder,
           rq \in TransactionRequests, rq # NoRequest,
           cursor \in DOMAIN requests[Other(rq.type)], cursor # -1, Acceptable(rq, cursor),
           NEW i \in FirstOfOthers(requests[Other(rq.type)][cursor], rq.user)
    PROVE  LET r == requests[Other(rq.type)][cursor][i]
           IN  /\ r \in Ideal!Suitable
               /\ \A other \in Ideal!Suitable : ~ Ideal!Precedes(other, r)
<1> DEFINE t == Other(rq.type)
           q == requests[t][cursor]
           r == q[i]
<1>1. rq.type \in Types /\ t \in Types /\ t # rq.type
  BY OtherType DEF TransactionRequests
<1>2. q \in Seq(TransactionRequests) /\ cursor \in Prices
  BY <1>1 DEF TypeOK
<1>3. /\ i \in DOMAIN q /\ r.user # rq.user
      /\ \A j \in DOMAIN q : j < i => q[j].user = rq.user
  BY DEF FirstOfOthers
<1>4. r \in TransactionRequests /\ r.type = t /\ r.price = cursor
  BY <1>1, <1>2, <1>3 DEF BookFiled, Filed
<1>5. r \in RestingRequests
  BY <1>1, <1>3, RestingNow DEF HeldIn
<1> HIDE DEF t, q, r
<1>6. r \in Ideal!Suitable
  <2>1. Ideal!Meets(r, rq)
    BY <1>4 DEF Acceptable, Ideal!Meets, Ideal!SELL, TRANSACTION_TYPE_SELL
  <2> QED BY <1>1, <1>3, <1>4, <1>5, <2>1 DEF Ideal!Suitable
<1>7. ASSUME NEW other \in Ideal!Suitable, Ideal!Precedes(other, r)
      PROVE  FALSE
  <2>1. /\ other \in TransactionRequests /\ other.type = t /\ other.user # rq.user
        /\ \E k \in DOMAIN requests[t][other.price] : other = requests[t][other.price][k]
    BY SuitableFiled DEF t
  <2>2. ~ Passed(cursor, t, other.price)
    BY SuitableNotPassed DEF t
  <2>3. other.price \in Int /\ cursor \in Int /\ cursor # -1
    BY <1>2, <2>1, MarketAssumption DEF Prices, TransactionRequests
  <2>4. CASE other.price = cursor /\ other.id < r.id
    <3>1. PICK k \in DOMAIN q : other = q[k]
      BY <2>1, <2>4 DEF q
    <3>2. DOMAIN q = 1..Len(q) /\ Len(q) \in Nat
      BY <1>2
    <3>3. ~ (k < i)
      BY <1>3, <2>1, <3>1
    <3>4. k # i
      BY <2>4, <3>1, IdsAreInts, <2>1 DEF r
    <3>5. i < k
      BY <1>3, <3>1, <3>2, <3>3, <3>4
    <3>6. q[i].id < q[k].id
      BY <1>1, <1>3, <3>1, <3>5 DEF InOrder, OrderedList, q, t
    <3> QED BY <1>4, <2>1, <2>4, <3>1, <3>6, IdsAreInts DEF r
  <2>5. CASE IF other.type = TRANSACTION_TYPE_SELL THEN other.price < cursor ELSE other.price > cursor
    <3>1. Passed(cursor, t, other.price)
      BY <1>1, <2>1, <2>3, <2>5
         DEF Passed, Types, TRANSACTION_TYPE_SELL, TRANSACTION_TYPE_BUY
    <3> QED BY <2>2, <3>1
  <2> QED BY <1>4, <1>7, <2>1, <2>4, <2>5 DEF Ideal!Precedes, Ideal!SELL, TRANSACTION_TYPE_SELL
<1> QED BY <1>6, <1>7 DEF r, q, t

\* A trade serves the incoming request: the offer it takes is the suitable one that no
\* other precedes, and what is left of the offer keeps its place.
LEMMA PerformServesBest ==
    ASSUME TypeOK, BookFiled, SearchedOwn, InOrder, Perform
    PROVE  Ideal!Serve
<1> DEFINE t == Other(rq.type)
           f == requests[t]
           q == f[cursor]
<1>1. /\ rq \in TransactionRequests /\ rq # NoRequest
      /\ t \in Types /\ LevelsOK(f)
      /\ cursor \in DOMAIN f /\ cursor # -1 /\ Acceptable(rq, cursor)
      /\ q \in Seq(TransactionRequests)
  BY PerformServes
<1>2. PICK i \in FirstOfOthers(q, rq.user) :
        LET amount == Lesser(q[i].usd, rq.usd)
        IN  /\ amount \in 1..q[i].usd
            /\ Settle(q[i], amount)
            /\ requests' = [requests EXCEPT ![t] = WithQueue(f, cursor, Served(q, i, amount))]
            /\ rq' = IF rq.usd = amount THEN NoRequest ELSE [rq EXCEPT !.usd = @ - amount]
            /\ count' = count
  BY PerformServes
<1> DEFINE r == q[i]
           amount == Lesser(r.usd, rq.usd)
           left == Served(q, i, amount)
           rest == IF r.usd = amount THEN {} ELSE {[r EXCEPT !.usd = @ - amount]}
<1>3. r \in Ideal!Suitable /\ \A other \in Ideal!Suitable : ~ Ideal!Precedes(other, r)
  BY <1>1, <1>2, FirstServed
<1>4. i \in DOMAIN q /\ amount \in 1..r.usd
  BY <1>2 DEF FirstOfOthers
<1>5. /\ requests'[t] = WithQueue(f, cursor, left)
      /\ \A s \in Types : s # t => requests'[s] = requests[s]
  BY <1>1, <1>2, RequestsExcept
<1>6. left \in Seq(TransactionRequests)
  <2> HIDE DEF q, amount
  <2> QED BY <1>1, <1>4, ServedProperties
<1>7. ASSUME NEW s \in Types, NEW y \in DOMAIN requests[s], NEW k \in DOMAIN requests[s][y],
             requests[s][y][k] = r
      PROVE  s = t /\ y = cursor /\ k = i
  <2>1. r.type = t /\ r.price = cursor /\ r.type = s /\ r.price = y
    BY <1>1, <1>4, <1>7 DEF BookFiled, Filed
  <2>2. DOMAIN q = 1..Len(q) /\ Len(q) \in Nat
    BY <1>1
  <2>3. k \in DOMAIN q /\ q[k].id = q[i].id
    BY <1>7, <2>1
  <2>4. \A a, b \in DOMAIN q : a < b => q[a].id < q[b].id
    BY <1>1 DEF InOrder, OrderedList
  <2>5. q[i].id \in Int
    BY <1>1, <1>4, IdsAreInts
  <2> HIDE DEF q
  <2> QED BY <1>4, <2>1, <2>2, <2>3, <2>4, <2>5
<1>8. ASSUME NEW x
      PROVE  x \in RestingRequests' <=> x \in (RestingRequests \ {r}) \cup rest
  <2>1. HeldIn(requests'[t], x) <=>
            \/ \E y \in DOMAIN f : y # cursor /\ \E k \in DOMAIN f[y] : x = f[y][k]
            \/ \E j \in DOMAIN left : x = left[j]
    <3> HIDE DEF left, f
    <3> QED BY <1>1, <1>5, <1>6, WithQueueHeld
  <2>2. (\E j \in DOMAIN left : x = left[j]) <=>
            (\E k \in DOMAIN q : k # i /\ x = q[k]) \/ x \in rest
    <3> HIDE DEF q, amount
    <3> QED BY <1>1, <1>4, ServedHeld
  <2>3. ASSUME NEW s \in Types
        PROVE  HeldIn(requests'[s], x) <=> (HeldIn(requests[s], x) /\ x # r) \/ (s = t /\ x \in rest)
    <3> HIDE DEF left, rest
    <3>1. CASE s = t
      <4> HIDE DEF t
      <4>1. (HeldIn(f, x) /\ x # r) <=>
                \/ \E y \in DOMAIN f : y # cursor /\ \E k \in DOMAIN f[y] : x = f[y][k]
                \/ \E k \in DOMAIN q : k # i /\ x = q[k]
        BY <1>1, <1>4, <1>7 DEF HeldIn
      <4> HIDE DEF q, f
      <4> QED BY <2>1, <2>2, <3>1, <4>1 DEF f
    <3>2. CASE s # t
      BY <1>5, <1>7, <3>2 DEF HeldIn
    <3> QED BY <3>1, <3>2
  <2> HIDE DEF left, rest, r, t
  <2>4. (\E s \in Types : HeldIn(requests'[s], x)) <=>
            ((\E s \in Types : HeldIn(requests[s], x)) /\ x # r) \/ x \in rest
    BY <1>1, <2>3
  <2> QED BY <2>4, RestingNow, RestingNext
<1>9. RestingRequests' = (RestingRequests \ {r}) \cup rest
  BY <1>8
<1>10. r.type # rq.type /\ r.type \in Types /\ rq.type \in Types
  BY <1>1, <1>3, SuitableFiled, OtherType DEF TransactionRequests
<1>11. Ideal!Trade(r, amount)
  <2>1. (rq.type = TRANSACTION_TYPE_BUY) <=> (r.type # Ideal!BUY)
    BY <1>10 DEF Types, Ideal!BUY, TRANSACTION_TYPE_SELL, TRANSACTION_TYPE_BUY
  <2>2. /\ Settle(r, amount)
        /\ rq' = IF rq.usd = amount THEN NoRequest ELSE [rq EXCEPT !.usd = @ - amount]
        /\ count' = count
    BY <1>2
  <2> HIDE DEF r, amount
  <2> QED BY <1>9, <2>1, <2>2 DEF Ideal!Trade, Settle
<1>12. amount = IF r.usd <= rq.usd THEN r.usd ELSE rq.usd
  BY DEF Lesser
<1> HIDE DEF r, amount
<1> QED BY <1>1, <1>3, <1>11, <1>12 DEF Ideal!Serve

\* Every step of the market is a step of the exchange or one it does not see.
LEMMA ExchangeNext ==
    TypeOK /\ BookFiled /\ SearchedOwn /\ InOrder /\ [Next]_vars => [Ideal!Next]_(Ideal!vars)
<1> SUFFICES ASSUME TypeOK, BookFiled, SearchedOwn, InOrder, [Next]_vars
             PROVE  Ideal!Next \/ UNCHANGED <<RestingRequests, rq, rub, usd, count>>
  BY DEF Ideal!vars
<1>1. CASE \E u \in Users, t \in Types, p \in Prices, a \in 0..MaxUsd : Submit(u, t, p, a)
  BY <1>1, SubmitPosts
<1>2. CASE Rest
  BY <1>2, RestWaits DEF Ideal!Next
<1>3. CASE SkipOwnLevel
  BY <1>3 DEF SkipOwnLevel, RestingRequests
<1>4. CASE Perform
  BY <1>4, PerformServesBest DEF Ideal!Next
<1>5. CASE Idle \/ UNCHANGED vars
  BY <1>5 DEF Idle, vars, RestingRequests
<1> QED BY <1>1, <1>2, <1>3, <1>4, <1>5 DEF Next, Match

\* The market implements the exchange: whatever lists it skips, erases or comes back to, every
\* request trades with the suitable offer first in price-time order until it is fulfilled or
\* no suitable offer is left, and only then waits (addRequest, transaction_manager.cpp).
THEOREM MatchesInOrder == Spec => ImplementsExchange
<1>1. Init => Ideal!Init
  BY DEF Init, Ideal!Init, RestingRequests
<1>2. TypeOK /\ BookFiled /\ SearchedOwn /\ InOrder /\ [Next]_vars => [Ideal!Next]_(Ideal!vars)
  BY ExchangeNext
<1> QED BY <1>1, <1>2, TypeCorrect, FiledCorrect, SearchCorrect, OrderCorrect, PTL
        DEF Spec, ImplementsExchange, Ideal!Spec
=============================================================================
