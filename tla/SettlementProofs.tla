-------------------------- MODULE SettlementProofs --------------------------
(***************************************************************************)
(* Theorems about Settlement, for every number of users, trades and        *)
(* commands, every price, and every width of a balance.                    *)
(***************************************************************************)
EXTENDS Settlement, TLAPS

-----------------------------------------------------------------------------
(* Arithmetic of balances *)

\* Nothing but 0 is a multiple of m between -m and m.
LEMMA SmallMultiple ==
    ASSUME NEW k \in Int, NEW m \in Nat \ {0}, k * m < m, k * m > -m
    PROVE  k = 0
<1>1. CASE k >= 1
  <2>1. (k - 1) * m >= 0
    BY <1>1
  <2>2. (k - 1) * m = k * m - m
    OBVIOUS
  <2> QED BY <2>1, <2>2
<1>2. CASE k <= -1
  <2>1. (-k - 1) * m >= 0
    BY <1>2
  <2>2. (-k - 1) * m = -(k * m) - m
    OBVIOUS
  <2> QED BY <2>1, <2>2
<1> QED BY <1>1, <1>2

\* A remainder differs from the number by a multiple of m.
LEMMA Division ==
    ASSUME NEW a \in Int, NEW m \in Int, m > 0
    PROVE  \E k \in Int : a % m = a + k * m
<1>1. a % m = a - (a \div m) * m
  BY SMTT(30)
<1>2. a \div m \in Int
  OBVIOUS
<1>3. a - (a \div m) * m = a + (-(a \div m)) * m
  BY <1>2
<1> QED BY <1>1, <1>2, <1>3

\* Wrap stays in the width and changes a number by a multiple of it.
LEMMA WrapRange == ASSUME NEW a \in Int PROVE Wrap(a) \in Int64
<1>1. (a + HalfRange) % (2 * HalfRange) \in 0..(2 * HalfRange - 1)
  BY SettlementAssumption
<1> QED BY <1>1, SettlementAssumption DEF Wrap, Int64

\* Wrap changes a number by a multiple of the width.
LEMMA WrapShift ==
    ASSUME NEW a \in Int
    PROVE  \E k \in Int : Wrap(a) = a + k * (2 * HalfRange)
<1>1. HalfRange \in Int /\ 2 * HalfRange \in Int /\ 2 * HalfRange > 0 /\ a + HalfRange \in Int
  BY SettlementAssumption
<1>2. PICK k \in Int : (a + HalfRange) % (2 * HalfRange) = a + HalfRange + k * (2 * HalfRange)
  BY <1>1, Division
<1>3. k * (2 * HalfRange) \in Int
  BY <1>1
<1>4. Wrap(a) = a + k * (2 * HalfRange)
  BY <1>1, <1>2, <1>3 DEF Wrap
<1> QED BY <1>4

\* In the width no two numbers differ by a multiple of it.
LEMMA WidthUnique ==
    ASSUME NEW x \in Int64, NEW y \in Int64, NEW k \in Int, x = y + k * (2 * HalfRange)
    PROVE  x = y
<1> DEFINE m == 2 * HalfRange
<1>1. m \in Nat \ {0} /\ x \in Int /\ y \in Int /\ k * m \in Int
  BY SettlementAssumption DEF Int64
<1>2. x - y < m /\ x - y > -m
  BY SettlementAssumption DEF Int64
<1>3. x = y + k * m
  OBVIOUS
<1> HIDE DEF m
<1>4. k * m = x - y
  BY <1>1, <1>3
<1>5. k = 0
  BY <1>1, <1>2, <1>4, SmallMultiple
<1> QED BY <1>1, <1>3, <1>5

\* Numbers that differ by a multiple of the width wrap to the same balance.
LEMMA WrapSame ==
    ASSUME NEW a \in Int, NEW b \in Int, NEW k \in Int, a = b + k * (2 * HalfRange)
    PROVE  Wrap(a) = Wrap(b)
<1> DEFINE m == 2 * HalfRange
<1>1. m \in Int
  BY SettlementAssumption
<1>2. PICK i \in Int : Wrap(a) = a + i * m
  BY WrapShift
<1>3. PICK j \in Int : Wrap(b) = b + j * m
  BY WrapShift
<1>4. Wrap(a) \in Int64 /\ Wrap(b) \in Int64
  BY WrapRange
<1>5. a = b + k * m
  OBVIOUS
<1> HIDE DEF m
<1>6. k + i - j \in Int /\ Wrap(a) = Wrap(b) + (k + i - j) * m
  BY <1>1, <1>2, <1>3, <1>5
<1>7. Wrap(a) = Wrap(b) + (k + i - j) * (2 * HalfRange)
  BY <1>6 DEF m
<1> QED BY <1>4, <1>6, <1>7, WidthUnique

\* A number in the width is not changed, and what is wrapped on the way does not show.
LEMMA WrapFits == ASSUME NEW x \in Int64 PROVE Wrap(x) = x
<1>1. x \in Int
  BY SettlementAssumption DEF Int64
<1>2. PICK k \in Int : Wrap(x) = x + k * (2 * HalfRange)
  BY <1>1, WrapShift
<1> QED BY <1>1, <1>2, WrapRange, WidthUnique

\* What is wrapped before it is added to needs no wrapping.
LEMMA WrapAdds ==
    ASSUME NEW a \in Int, NEW b \in Int
    PROVE  Wrap(Wrap(a) + b) = Wrap(a + b)
<1>1. PICK k \in Int : Wrap(a) = a + k * (2 * HalfRange)
  BY WrapShift
<1>2. k * (2 * HalfRange) \in Int
  BY SettlementAssumption
<1>3. Wrap(a) + b = (a + b) + k * (2 * HalfRange)
  BY <1>1, <1>2
<1>4. Wrap(a) + b \in Int /\ a + b \in Int
  BY <1>1, <1>2
<1> QED BY <1>3, <1>4, WrapSame

\* Balances are numbers.
LEMMA WidthIsInt == Int64 \subseteq Int
BY SettlementAssumption DEF Int64

\* What is wrapped before it is added needs no wrapping either.
LEMMA WrapAdded ==
    ASSUME NEW a \in Int, NEW b \in Int
    PROVE  Wrap(a + Wrap(b)) = Wrap(a + b)
<1>1. Wrap(b) \in Int
  BY WrapRange, WidthIsInt
<1>2. a + Wrap(b) = Wrap(b) + a /\ a + b = b + a
  BY <1>1
<1> QED BY <1>2, WrapAdds

\* To take back what was added gives the balance before, and to add it again the one after.
LEMMA WrapTakesBack ==
    ASSUME NEW x \in Int64, NEW g \in Int
    PROVE  Wrap(Wrap(x + g) - g) = x /\ Wrap(Wrap(x - g) + g) = x /\ Wrap(x - 0) = x
<1>1. x \in Int /\ x + g \in Int /\ x - g \in Int /\ -g \in Int
  BY SettlementAssumption DEF Int64
<1>2. Wrap(x + g) \in Int
  BY <1>1, WrapRange, SettlementAssumption DEF Int64
<1>3. Wrap(x + g) - g = Wrap(x + g) + (-g) /\ x + g + (-g) = x /\ x - g + g = x /\ x - 0 = x
  BY <1>1, <1>2
<1>4. Wrap(Wrap(x + g) + (-g)) = Wrap(x + g + (-g)) /\ Wrap(Wrap(x - g) + g) = Wrap(x - g + g)
  BY <1>1, WrapAdds
<1> QED BY <1>3, <1>4, WrapFits

-----------------------------------------------------------------------------
(* Invariants *)

Parties == [user : Users, type : {SELL, BUY}, usd : Nat]
Senders == [user : Users, type : {SELL, BUY}, price : Nat, usd : Nat]
Numbers == Int64 \cup {Unknown}

AccountsOK ==
    /\ rub \in [Users -> Int64] /\ usd \in [Users -> Int64]
    /\ session \in [Users -> BOOLEAN] /\ test \in [Users -> BOOLEAN]
    /\ statement \in [Users -> Balances \cup {Unknown}]

CommandOK ==
    console \in [user : Users \cup {NoRequest}, rub : Numbers, usd : Numbers,
                 seen : SUBSET (Int64 \X Int64), reads : Nat]

\* The trade that is being settled.  Of the two requests the waiting one is counted down by
\* the first write and the incoming one by the third.
TradeOK ==
    /\ step \in 0..6 /\ trades \in Nat
    /\ step = 0 => waiting = NoRequest /\ incoming = NoRequest /\ amount = 0
    /\ step # 0 =>
        /\ waiting \in Parties /\ incoming \in Senders
        /\ incoming.price \in Prices
        /\ waiting.user # incoming.user /\ waiting.type # incoming.type
        /\ amount \in 1..MaxUsd
    /\ step = 1 => amount = Lesser(incoming.usd, waiting.usd)
    /\ step \in {2, 3} =>
        amount <= incoming.usd /\ (waiting.usd = 0 \/ incoming.usd = amount)
    /\ step \in {4, 5, 6} => 0 \in {waiting.usd, incoming.usd}

TypeInv == AccountsOK /\ CommandOK /\ TradeOK

\* Who is told of changes has a session.
StatementInv ==
    /\ \A u \in Users : statement[u] # Unknown => session[u]
    /\ StatementAgrees

-----------------------------------------------------------------------------
(* Types *)

\* The bounds as numbers.
LEMMA BoundsAreNumbers == MaxUsd \in Nat /\ Prices \subseteq Nat
BY SettlementAssumption

\* What either party gains or loses is a number.
LEMMA GainsAreNumbers ==
    ASSUME TradeOK, step # 0, NEW r \in {waiting, incoming}
    PROVE  GainedUsd(r) \in Int /\ GainedRub(r) \in Int
<1>1. amount \in Int /\ incoming.price \in Int
  <2>1. amount \in 1..MaxUsd /\ incoming.price \in Prices
    BY DEF TradeOK
  <2>2. MaxUsd \in Nat /\ incoming.price \in Nat
    BY <2>1, BoundsAreNumbers
  <2> QED BY <2>1, <2>2
<1>2. incoming.price * amount \in Int /\ (-incoming.price) * amount \in Int /\ -amount \in Int
  BY <1>1
<1>3. GainedRub(r) \in Int64
  BY <1>2, WrapRange DEF GainedRub
<1> QED BY <1>1, <1>2, <1>3, WidthIsInt DEF GainedUsd

\* An addition to a balance stays in the width.
LEMMA AddType ==
    ASSUME NEW f \in [Users -> Int64], NEW u \in Users, NEW v \in Int
    PROVE  [f EXCEPT ![u] = Wrap(@ + v)] \in [Users -> Int64]
<1>1. f[u] + v \in Int
  BY SettlementAssumption DEF Int64
<1>2. Wrap(f[u] + v) \in Int64
  BY <1>1, WrapRange
<1> QED BY <1>2

\* A client's own sum stays in the width too.
LEMMA TellType ==
    ASSUME AccountsOK, NEW u \in Users, NEW field \in {"rub", "usd"}, NEW v \in Int,
           Tell(u, field, v)
    PROVE  statement' \in [Users -> Balances \cup {Unknown}]
<1>1. ASSUME NEW s \in Balances \cup {Unknown}
      PROVE  Told(s, field, v) \in Balances \cup {Unknown}
  <2>1. CASE s = Unknown
    BY <2>1 DEF Told
  <2>2. CASE s # Unknown
    <3>1. s \in Balances /\ s.rub + v \in Int /\ s.usd + v \in Int
      BY <2>2, SettlementAssumption DEF Balances, Int64
    <3>2. Wrap(s.rub + v) \in Int64 /\ Wrap(s.usd + v) \in Int64
      BY <3>1, WrapRange
    <3>3. Told(s, field, v) = [s EXCEPT ![field] = Wrap(@ + v)]
      BY <2>2 DEF Told
    <3>4. CASE field = "rub"
      <4>1. Told(s, field, v) = [s EXCEPT !.rub = Wrap(s.rub + v)]
        BY <3>3, <3>4
      <4> QED BY <3>1, <3>2, <4>1 DEF Balances
    <3>5. CASE field = "usd"
      <4>1. Told(s, field, v) = [s EXCEPT !.usd = Wrap(s.usd + v)]
        BY <3>3, <3>5
      <4> QED BY <3>1, <3>2, <4>1 DEF Balances
    <3> QED BY <3>4, <3>5
  <2> QED BY <2>1, <2>2
<1>2. statement[u] \in Balances \cup {Unknown}
  BY DEF AccountsOK
<1>3. Told(statement[u], field, v) \in Balances \cup {Unknown}
  BY <1>1, <1>2
<1> QED BY <1>3 DEF Tell, AccountsOK

\* A write of perform: whose it is, and what it adds to which balance.
UsdWrite(r) == step # 0 /\ r \in {waiting, incoming} /\ AddUsd(r)
RubWrite(r) == step # 0 /\ r \in {waiting, incoming} /\ AddRub(r)

\* Each write of perform is one of these.
LEMMA WriteIsOne ==
    ASSUME Write
    PROVE  \E r \in {waiting, incoming} : UsdWrite(r) \/ RubWrite(r)
BY DEF Write, UsdWrite, RubWrite

\* Every step keeps balances and statements in their width.
LEMMA AccountsNext == AccountsOK /\ TradeOK /\ [Next]_vars => AccountsOK'
<1> SUFFICES ASSUME AccountsOK, TradeOK, [Next]_vars
             PROVE  AccountsOK'
  OBVIOUS
<1> USE DEF ioVars
<1>1. ASSUME NEW u \in Users, Login(u) \/ HandleTestPacket(u)
      PROVE  AccountsOK'
  BY <1>1 DEF Login, HandleTestPacket, AccountsOK
<1>2. ASSUME NEW u \in Users, Logout(u)
      PROVE  AccountsOK'
  BY <1>2 DEF Logout, AccountsOK
<1>3. ASSUME NEW u \in Users, HandleCheckBalanceRequest(u)
      PROVE  AccountsOK'
  <2>1. Balance(u) \in Balances
    BY DEF Balance, Balances, AccountsOK
  <2> QED BY <1>3, <2>1 DEF HandleCheckBalanceRequest, AccountsOK
<1>4. CASE Write
  <2>1. PICK r \in {waiting, incoming} : UsdWrite(r) \/ RubWrite(r)
    BY <1>4, WriteIsOne
  <2>2. step # 0 /\ r.user \in Users
    BY <2>1 DEF UsdWrite, RubWrite, TradeOK, Parties, Senders
  <2>3. GainedUsd(r) \in Int /\ GainedRub(r) \in Int
    BY <2>2, GainsAreNumbers
  <2>4. CASE UsdWrite(r)
    <3>1. usd' \in [Users -> Int64] /\ UNCHANGED rub
      BY <2>2, <2>3, <2>4, AddType DEF UsdWrite, AddUsd, AccountsOK
    <3>2. statement' \in [Users -> Balances \cup {Unknown}]
      BY <2>2, <2>3, <2>4, TellType DEF UsdWrite, AddUsd
    <3> QED BY <1>4, <3>1, <3>2 DEF Write, AccountsOK
  <2>5. CASE RubWrite(r)
    <3>1. rub' \in [Users -> Int64] /\ UNCHANGED usd
      BY <2>2, <2>3, <2>5, AddType DEF RubWrite, AddRub, AccountsOK
    <3>2. statement' \in [Users -> Balances \cup {Unknown}]
      BY <2>2, <2>3, <2>5, TellType DEF RubWrite, AddRub
    <3> QED BY <1>4, <3>1, <3>2 DEF Write, AccountsOK
  <2> QED BY <2>1, <2>4, <2>5
<1>5. ASSUME UNCHANGED <<rub, usd, session, test, statement>>
      PROVE  AccountsOK'
  BY <1>5 DEF AccountsOK
<1>6. ASSUME NEW w \in Waiting, NEW r \in Requests, Perform(w, r)
      PROVE  AccountsOK'
  BY <1>5, <1>6 DEF Perform
<1>7. CASE Broadcast \/ ConsoleNext \/ UNCHANGED vars
  BY <1>5, <1>7 DEF Broadcast, ConsoleNext, BeginBalance, ReadBalance, EndBalance, vars
<1> QED BY <1>1, <1>2, <1>3, <1>4, <1>6, <1>7 DEF Next, IoNext

\* Every step keeps the trade one between two users, with what is left of both requests.
LEMMA TradeNext == TradeOK /\ [Next]_vars => TradeOK'
<1> SUFFICES ASSUME TradeOK, [Next]_vars
             PROVE  TradeOK'
  OBVIOUS
<1> USE DEF ioVars
<1>1. ASSUME NEW w \in Waiting, NEW r \in Requests, Perform(w, r)
      PROVE  TradeOK'
  <2>1. w \in Parties /\ r \in Senders /\ r.price \in Prices
        /\ w.usd \in 1..MaxUsd /\ r.usd \in 1..MaxUsd
    <3>1. /\ w.user \in Users /\ w.type \in {SELL, BUY} /\ w.usd \in 0..MaxUsd
          /\ r.user \in Users /\ r.type \in {SELL, BUY} /\ r.price \in Prices /\ r.usd \in 0..MaxUsd
          /\ w.usd > 0 /\ r.usd > 0
      BY <1>1 DEF Perform, Waiting, Requests
    <3>2. w.usd \in 1..MaxUsd /\ r.usd \in 1..MaxUsd /\ w.usd \in Nat /\ r.usd \in Nat /\ r.price \in Nat
      <4>1. MaxUsd \in Nat /\ r.price \in Nat
        BY <3>1, BoundsAreNumbers
      <4>2. \A n \in 0..MaxUsd : n > 0 => n \in 1..MaxUsd /\ n \in Nat
        BY <4>1
      <4> QED BY <3>1, <4>1, <4>2
    <3>3. w \in Parties
      BY <3>1, <3>2 DEF Waiting, Parties
    <3>4. r \in Senders
      BY <3>1, <3>2 DEF Requests, Senders
    <3> QED BY <3>1, <3>2, <3>3, <3>4
  <2>2. Lesser(r.usd, w.usd) \in 1..MaxUsd
    BY <2>1 DEF Lesser
  <2>3. trades' \in Nat
    BY <1>1 DEF Perform, TradeOK
  <2> QED BY <1>1, <2>1, <2>2, <2>3 DEF Perform, TradeOK
\* What a request has left.
<1>2. ASSUME NEW S \in {Parties, Senders}, NEW r \in S, NEW a \in Nat, amount = a, a <= r.usd
      PROVE  Left(r) \in S /\ Left(r) = [r EXCEPT !.usd = r.usd - a]
  <2>1. r.usd - a \in Nat
    <3>1. r.usd \in Nat
      <4>1. CASE S = Parties
        BY <4>1 DEF Parties
      <4>2. CASE S = Senders
        BY <4>2 DEF Senders
      <4> QED BY <4>1, <4>2
    <3> QED BY <1>2, <3>1
  <2> QED BY <1>2, <2>1 DEF Left, Parties, Senders
<1>3. CASE Write
  <2>1. step \in 1..4 /\ step' = step + 1 /\ UNCHANGED <<amount, trades>>
    BY <1>3 DEF Write
  <2>2. waiting \in Parties /\ incoming \in Senders /\ amount \in Nat
        /\ waiting.usd \in Nat /\ incoming.usd \in Nat
    BY <2>1, SettlementAssumption DEF TradeOK, Parties, Senders
  <2>3. CASE step = 1
    <3>1. waiting' = Left(waiting) /\ UNCHANGED incoming
      BY <1>3, <2>3 DEF Write
    <3>2. amount <= waiting.usd /\ amount <= incoming.usd /\ amount \in {waiting.usd, incoming.usd}
      BY <2>2, <2>3 DEF TradeOK, Lesser
    <3>3. waiting' \in Parties /\ waiting' = [waiting EXCEPT !.usd = waiting.usd - amount]
      BY <1>2, <2>2, <3>1, <3>2
    <3>4. waiting'.user = waiting.user /\ waiting'.type = waiting.type /\ waiting'.usd = waiting.usd - amount
      BY <2>2, <3>3 DEF Parties
    <3> QED BY <2>1, <2>2, <2>3, <3>1, <3>2, <3>3, <3>4 DEF TradeOK
  <2>4. CASE step = 2
    BY <1>3, <2>1, <2>4 DEF Write, AddRub, TradeOK
  <2>5. CASE step = 3
    <3>1. incoming' = Left(incoming) /\ UNCHANGED waiting
      BY <1>3, <2>5 DEF Write
    <3>2. amount <= incoming.usd /\ (waiting.usd = 0 \/ incoming.usd = amount)
      BY <2>5 DEF TradeOK
    <3>3. incoming' \in Senders /\ incoming' = [incoming EXCEPT !.usd = incoming.usd - amount]
      BY <1>2, <2>2, <3>1, <3>2
    <3>4. incoming'.user = incoming.user /\ incoming'.type = incoming.type
          /\ incoming'.price = incoming.price /\ incoming'.usd = incoming.usd - amount
      BY <2>2, <3>3 DEF Senders
    <3> QED BY <2>1, <2>2, <2>5, <3>1, <3>2, <3>3, <3>4 DEF TradeOK
  <2>6. CASE step = 4
    BY <1>3, <2>1, <2>6 DEF Write, AddRub, TradeOK
  <2> QED BY <2>1, <2>3, <2>4, <2>5, <2>6
<1>4. CASE Broadcast
  BY <1>4 DEF Broadcast, TradeOK
<1>5. CASE UNCHANGED ioVars
  BY <1>5 DEF TradeOK, Lesser
<1>6. ASSUME NEW u \in Users, Login(u) \/ Logout(u) \/ HandleTestPacket(u) \/ HandleCheckBalanceRequest(u)
      PROVE  TradeOK'
  BY <1>5, <1>6 DEF Login, Logout, HandleTestPacket, HandleCheckBalanceRequest
<1>7. CASE ConsoleNext \/ UNCHANGED vars
  BY <1>5, <1>7 DEF ConsoleNext, BeginBalance, ReadBalance, EndBalance, vars
<1> QED BY <1>1, <1>3, <1>4, <1>6, <1>7 DEF Next, IoNext

\* The balances before and after a trade are balances.
LEMMA BetweenType ==
    ASSUME AccountsOK, TradeOK, NEW u \in Users
    PROVE  Between(u) \subseteq Int64 \X Int64
<1>1. WrittenUsd(u) \in Int /\ WrittenRub(u) \in Int
  BY GainsAreNumbers DEF WrittenUsd, WrittenRub
<1>2. SettledRub[u] \in Int64 /\ SettledUsd[u] \in Int64
  <2>1. rub[u] - WrittenRub(u) \in Int /\ usd[u] - WrittenUsd(u) \in Int
    BY <1>1, SettlementAssumption DEF AccountsOK, Int64
  <2> QED BY <2>1, WrapRange DEF SettledRub, SettledUsd
<1>3. ASSUME NEW r \in {waiting, incoming}, step \in 1..4
      PROVE  Wrap(SettledRub[u] + GainedRub(r)) \in Int64 /\ Wrap(SettledUsd[u] + GainedUsd(r)) \in Int64
  <2>1. SettledRub[u] + GainedRub(r) \in Int /\ SettledUsd[u] + GainedUsd(r) \in Int
    BY <1>2, <1>3, GainsAreNumbers, SettlementAssumption DEF Int64
  <2> QED BY <2>1, WrapRange
<1> QED BY <1>2, <1>3 DEF Between

\* Every step keeps what the balance command has read and may show.
LEMMA CommandNext == AccountsOK /\ TradeOK /\ CommandOK /\ [Next]_vars => CommandOK'
<1> SUFFICES ASSUME AccountsOK, TradeOK, CommandOK, [Next]_vars
             PROVE  CommandOK'
  OBVIOUS
<1> USE DEF ioVars, Numbers
<1>1. ASSUME NEW u \in Users, BeginBalance(u)
      PROVE  CommandOK'
  <2>1. Quiet(console.reads + 1) \in [user : {NoRequest}, rub : Numbers, usd : Numbers,
                                      seen : SUBSET (Int64 \X Int64), reads : Nat]
    BY DEF Quiet, CommandOK
  <2> QED BY <1>1, <2>1 DEF BeginBalance, CommandOK
<1>2. ASSUME NEW field \in {"rub", "usd"}, ReadBalance(field)
      PROVE  CommandOK'
  <2>1. console.user \in Users
    BY <1>2 DEF ReadBalance, CommandOK
  <2>2. Field(field, console.user) \in Int64
    BY <2>1 DEF Field, AccountsOK
  <2>3. console.seen \cup Between(console.user) \subseteq Int64 \X Int64
    BY <2>1, BetweenType DEF CommandOK
  <2>4. console' = [console EXCEPT ![field] = Field(field, console.user),
                                   !.seen = console.seen \cup Between(console.user)]
    BY <1>2 DEF ReadBalance
  <2>5. CASE field = "rub"
    BY <2>2, <2>3, <2>4, <2>5 DEF CommandOK
  <2>6. CASE field = "usd"
    BY <2>2, <2>3, <2>4, <2>6 DEF CommandOK
  <2> QED BY <2>5, <2>6
<1>3. CASE EndBalance
  BY <1>3 DEF EndBalance, Quiet, CommandOK
<1>4. CASE UNCHANGED console
  BY <1>4 DEF CommandOK
<1>5. ASSUME NEW u \in Users, Login(u) \/ Logout(u) \/ HandleTestPacket(u) \/ HandleCheckBalanceRequest(u)
      PROVE  CommandOK'
  BY <1>4, <1>5 DEF Login, Logout, HandleTestPacket, HandleCheckBalanceRequest
<1>6. ASSUME NEW w \in Waiting, NEW r \in Requests, Perform(w, r)
      PROVE  CommandOK'
  BY <1>4, <1>6 DEF Perform
<1>7. CASE Write \/ Broadcast \/ UNCHANGED vars
  BY <1>4, <1>7 DEF Write, Broadcast, vars
<1> QED BY <1>1, <1>2, <1>3, <1>5, <1>6, <1>7 DEF Next, IoNext, ConsoleNext

\* Every step keeps the types.
LEMMA TypeNext == TypeInv /\ [Next]_vars => TypeInv'
BY AccountsNext, TradeNext, CommandNext DEF TypeInv

\* No user has anything yet.
LEMMA InitType == Init => TypeInv
<1> SUFFICES ASSUME Init PROVE TypeInv
  OBVIOUS
<1>1. 0 \in Int64
  BY SettlementAssumption DEF Int64
<1>2. AccountsOK
  BY <1>1 DEF Init, AccountsOK
<1>3. CommandOK
  BY DEF Init, Quiet, CommandOK, Numbers
<1>4. TradeOK
  BY DEF Init, TradeOK
<1> QED BY <1>2, <1>3, <1>4 DEF TypeInv

\* Balances stay in their width, and the trade that is being settled is one between two users
\* and two kinds of request, of an amount that both still had when it began.
THEOREM TypeCorrect == Spec => []TypeInv
BY InitType, TypeNext, PTL DEF Spec

\* TransactionManager::addRequest takes "usd == 0" for fulfilled, and loops until its request
\* is: when perform (transaction_request.cpp:30-70) has written both, one is, and neither has
\* gone below zero.
THEOREM OneIsFulfilled == Spec => []OneFulfilled
<1>1. TypeInv => OneFulfilled
  BY DEF TypeInv, TradeOK, Parties, Senders, OneFulfilled
<1> QED BY <1>1, TypeCorrect, PTL

-----------------------------------------------------------------------------
(* What users are told *)

\* Every write that a user with a session gets is told to it with the same number.
LEMMA StatementNext == TypeInv /\ StatementInv /\ [Next]_vars => StatementInv'
<1> SUFFICES ASSUME AccountsOK, TradeOK, StatementInv, [Next]_vars
             PROVE  StatementInv'
  BY DEF TypeInv
<1> USE DEF ioVars
<1>1. ASSUME NEW u \in Users, Login(u)
      PROVE  StatementInv'
  BY <1>1 DEF Login, StatementInv, StatementAgrees, Balance, AccountsOK
<1>2. ASSUME NEW u \in Users, Logout(u)
      PROVE  StatementInv'
  BY <1>2 DEF Logout, StatementInv, StatementAgrees, Balance, AccountsOK
<1>3. ASSUME NEW u \in Users, HandleCheckBalanceRequest(u)
      PROVE  StatementInv'
  BY <1>3 DEF HandleCheckBalanceRequest, StatementInv, StatementAgrees, Balance, AccountsOK
\* A write tells the user it is about, and nobody else's balance changes.
<1>4. CASE Write
  <2>1. PICK r \in {waiting, incoming} : UsdWrite(r) \/ RubWrite(r)
    BY <1>4, WriteIsOne
  <2>2. step # 0 /\ r.user \in Users
    BY <2>1 DEF UsdWrite, RubWrite, TradeOK, Parties, Senders
  <2>3. UNCHANGED session
    BY <1>4 DEF Write
  <2>4. \A u \in Users \ {r.user} : UNCHANGED <<statement[u], rub[u], usd[u]>>
    BY <2>1, <2>2 DEF UsdWrite, RubWrite, AddUsd, AddRub, Tell, AccountsOK
  <2>5. ASSUME statement'[r.user] # Unknown
        PROVE  session[r.user] /\ statement'[r.user] = Balance(r.user)'
    <3>1. statement[r.user] # Unknown /\ session[r.user]
      BY <2>1, <2>2, <2>5 DEF UsdWrite, RubWrite, AddUsd, AddRub, Tell, Told, StatementInv, AccountsOK
    <3>2. statement[r.user] = [rub |-> rub[r.user], usd |-> usd[r.user]]
      BY <2>2, <3>1 DEF StatementInv, StatementAgrees, Balance
    <3>3. CASE UsdWrite(r)
      <4>1. statement'[r.user] = [statement[r.user] EXCEPT !["usd"] = Wrap(usd[r.user] + GainedUsd(r))]
        <5>1. statement'[r.user] = Told(statement[r.user], "usd", GainedUsd(r))
          BY <2>2, <3>1, <3>3 DEF UsdWrite, AddUsd, Tell, AccountsOK
        <5>2. statement[r.user]["usd"] = usd[r.user]
          BY <3>2
        <5> QED BY <3>1, <5>1, <5>2 DEF Told
      <4>2. usd'[r.user] = Wrap(usd[r.user] + GainedUsd(r)) /\ UNCHANGED rub
        BY <2>2, <3>3 DEF UsdWrite, AddUsd, AccountsOK
      <4> QED BY <3>1, <3>2, <4>1, <4>2 DEF Balance
    <3>4. CASE RubWrite(r)
      <4>1. statement'[r.user] = [statement[r.user] EXCEPT !["rub"] = Wrap(rub[r.user] + GainedRub(r))]
        <5>1. statement'[r.user] = Told(statement[r.user], "rub", GainedRub(r))
          BY <2>2, <3>1, <3>4 DEF RubWrite, AddRub, Tell, AccountsOK
        <5>2. statement[r.user]["rub"] = rub[r.user]
          BY <3>2
        <5> QED BY <3>1, <5>1, <5>2 DEF Told
      <4>2. rub'[r.user] = Wrap(rub[r.user] + GainedRub(r)) /\ UNCHANGED usd
        BY <2>2, <3>4 DEF RubWrite, AddRub, AccountsOK
      <4> QED BY <3>1, <3>2, <4>1, <4>2 DEF Balance
    <3> QED BY <2>1, <3>3, <3>4
  <2> QED BY <2>2, <2>3, <2>4, <2>5 DEF StatementInv, StatementAgrees, Balance
<1>5. ASSUME UNCHANGED <<rub, usd, session, statement>>
      PROVE  StatementInv'
  BY <1>5 DEF StatementInv, StatementAgrees, Balance
<1>6. ASSUME NEW w \in Waiting, NEW r \in Requests, Perform(w, r)
      PROVE  StatementInv'
  BY <1>5, <1>6 DEF Perform
<1>7. ASSUME NEW u \in Users, HandleTestPacket(u)
      PROVE  StatementInv'
  BY <1>5, <1>7 DEF HandleTestPacket
<1>8. CASE Broadcast \/ ConsoleNext \/ UNCHANGED vars
  BY <1>5, <1>8 DEF Broadcast, ConsoleNext, BeginBalance, ReadBalance, EndBalance, vars
<1> QED BY <1>1, <1>2, <1>3, <1>4, <1>6, <1>7, <1>8 DEF Next, IoNext

\* The balance that a client asked for and the changes that User::addRub and User::addUsd
\* have told it of since add up to its balance, at every write of every trade, and also when
\* a balance overflows.
THEOREM StatementsAddUp == Spec => []StatementAgrees
<1>1. Init => StatementInv
  BY DEF Init, StatementInv, StatementAgrees
<1>2. TypeInv /\ StatementInv /\ [Next]_vars => StatementInv'
  BY StatementNext
<1>3. StatementInv => StatementAgrees
  BY DEF StatementInv
<1> QED BY <1>1, <1>2, <1>3, TypeCorrect, PTL DEF Spec

-----------------------------------------------------------------------------
(* The balance before the trade and what is written of it *)

\* Users, types, price and amount are those of the trade as long as it is being written.
SameTrade ==
    /\ step \in 1..4 /\ step' = step + 1
    /\ waiting.user \in Users /\ incoming.user \in Users /\ waiting.user # incoming.user
    /\ waiting'.user = waiting.user /\ incoming'.user = incoming.user
    /\ GainedUsd(waiting)' = GainedUsd(waiting) /\ GainedRub(waiting)' = GainedRub(waiting)
    /\ GainedUsd(incoming)' = GainedUsd(incoming)
    /\ GainedUsd(waiting) \in Int /\ GainedRub(waiting) \in Int
    /\ GainedUsd(incoming) \in Int /\ GainedRub(incoming) \in Int

\* Each write is one of the trade that began.
LEMMA TradeGoesOn == ASSUME TypeInv, Write PROVE SameTrade
<1> USE DEF TypeInv, ioVars
<1>1. step \in 1..4 /\ step' = step + 1 /\ UNCHANGED amount
  BY DEF Write
<1>2. waiting \in Parties /\ incoming \in Senders /\ waiting.user # incoming.user
  BY <1>1 DEF TradeOK
<1>3. /\ waiting'.user = waiting.user /\ waiting'.type = waiting.type
      /\ incoming'.user = incoming.user /\ incoming'.type = incoming.type
      /\ incoming'.price = incoming.price
  BY <1>2 DEF Write, AddRub, Left, Parties, Senders
<1>4. /\ GainedUsd(waiting)' = GainedUsd(waiting) /\ GainedRub(waiting)' = GainedRub(waiting)
      /\ GainedUsd(incoming)' = GainedUsd(incoming)
  BY <1>1, <1>3 DEF GainedUsd, GainedRub
<1>5. waiting.user \in Users /\ incoming.user \in Users
  BY <1>2 DEF Parties, Senders
<1>6. /\ GainedUsd(waiting) \in Int /\ GainedRub(waiting) \in Int
      /\ GainedUsd(incoming) \in Int /\ GainedRub(incoming) \in Int
  BY <1>1, GainsAreNumbers
<1> QED BY <1>1, <1>2, <1>3, <1>4, <1>5, <1>6 DEF SameTrade

\* Nothing to take back.
LEMMA WrapZero == \A x \in Int64 : Wrap(x - 0) = x
BY WrapTakesBack

\* The same of all balances.
LEMMA NothingWritten ==
    ASSUME NEW f \in [Users -> Int64]
    PROVE  [u \in Users |-> Wrap(f[u] - 0)] = f
<1>1. \A u \in Users : Wrap(f[u] - 0) = f[u]
  BY WrapTakesBack
<1> QED BY <1>1

\* The first three writes change nothing but what is written of the trade.
LEMMA WriteStutters ==
    ASSUME TypeInv, Write, step # 4
    PROVE  UNCHANGED <<SettledUsd, SettledRub>>
<1> USE DEF ioVars
<1>1. SameTrade
  BY TradeGoesOn
<1>2. rub \in [Users -> Int64] /\ usd \in [Users -> Int64]
  BY DEF TypeInv, AccountsOK
<1>3. ASSUME NEW u \in Users
      PROVE  Wrap(usd'[u] - WrittenUsd(u)') = Wrap(usd[u] - WrittenUsd(u))
             /\ Wrap(rub'[u] - WrittenRub(u)') = Wrap(rub[u] - WrittenRub(u))
  <2>1. CASE step = 1
    <3>1. /\ usd' = [usd EXCEPT ![waiting.user] = Wrap(usd[waiting.user] + GainedUsd(waiting))]
          /\ UNCHANGED rub
      BY <2>1 DEF Write, AddUsd
    <3>2. WrittenUsd(u)' = (IF u = waiting.user THEN GainedUsd(waiting) ELSE 0) /\ WrittenUsd(u) = 0
      BY <1>1, <2>1 DEF SameTrade, WrittenUsd
    <3>3. WrittenRub(u)' = 0 /\ WrittenRub(u) = 0
      BY <1>1, <2>1 DEF SameTrade, WrittenRub
    <3>4. CASE u = waiting.user
      BY <1>1, <1>2, <3>1, <3>2, <3>3, <3>4, WrapTakesBack DEF SameTrade
    <3>5. CASE u # waiting.user
      BY <1>2, <3>1, <3>2, <3>3, <3>5
    <3> QED BY <3>4, <3>5
  <2>2. CASE step = 2
    <3>1. /\ rub' = [rub EXCEPT ![waiting.user] = Wrap(rub[waiting.user] + GainedRub(waiting))]
          /\ UNCHANGED usd
      BY <2>2 DEF Write, AddRub
    <3>2. WrittenRub(u)' = (IF u = waiting.user THEN GainedRub(waiting) ELSE 0) /\ WrittenRub(u) = 0
      BY <1>1, <2>2 DEF SameTrade, WrittenRub
    <3>3. WrittenUsd(u)' = WrittenUsd(u)
      BY <1>1, <2>2 DEF SameTrade, WrittenUsd
    <3>4. CASE u = waiting.user
      BY <1>1, <1>2, <3>1, <3>2, <3>3, <3>4, WrapTakesBack DEF SameTrade
    <3>5. CASE u # waiting.user
      BY <1>2, <3>1, <3>2, <3>3, <3>5
    <3> QED BY <3>4, <3>5
  <2>3. CASE step = 3
    <3>1. /\ usd' = [usd EXCEPT ![incoming.user] = Wrap(usd[incoming.user] + GainedUsd(incoming))]
          /\ UNCHANGED rub
      BY <2>3 DEF Write, AddUsd
    <3>2. u # incoming.user => WrittenUsd(u)' = WrittenUsd(u)
      BY <1>1, <2>3 DEF SameTrade, WrittenUsd
    <3>3. u = incoming.user => WrittenUsd(u)' = GainedUsd(incoming) /\ WrittenUsd(u) = 0
      BY <1>1, <2>3 DEF SameTrade, WrittenUsd
    <3>4. WrittenRub(u)' = WrittenRub(u)
      BY <1>1, <2>3 DEF SameTrade, WrittenRub
    <3>5. CASE u = incoming.user
      BY <1>1, <1>2, <3>1, <3>3, <3>4, <3>5, WrapTakesBack DEF SameTrade
    <3>6. CASE u # incoming.user
      BY <1>2, <3>1, <3>2, <3>4, <3>6
    <3> QED BY <3>5, <3>6
  <2> QED BY <1>1, <2>1, <2>2, <2>3 DEF SameTrade
<1> QED BY <1>3 DEF SettledUsd, SettledRub

\* With the last write the two parties have traded.
LEMMA LastWriteTrades ==
    ASSUME TypeInv, Write, step = 4
    PROVE  \E b, s \in Users, p \in Prices, a \in 1..MaxUsd : Settled!Trade(b, s, p, a)
<1> USE DEF ioVars
<1> DEFINE w == waiting.user
           i == incoming.user
           price == incoming.price
<1>1. SameTrade
  BY TradeGoesOn
<1>2. rub \in [Users -> Int64] /\ usd \in [Users -> Int64]
  BY DEF TypeInv, AccountsOK
<1>3. rub' = [rub EXCEPT ![i] = Wrap(rub[i] + GainedRub(incoming))] /\ UNCHANGED <<usd, reported>>
  BY DEF Write, AddRub
<1>4. w \in Users /\ i \in Users /\ w # i /\ price \in Prices /\ amount \in 1..MaxUsd
      /\ waiting.type \in {SELL, BUY} /\ incoming.type \in {SELL, BUY} /\ waiting.type # incoming.type
  BY DEF TypeInv, TradeOK, Parties, Senders
<1>5. amount \in Int /\ price \in Int /\ price * amount \in Int
  <2>1. MaxUsd \in Nat /\ price \in Nat
    BY <1>4, BoundsAreNumbers
  <2>2. amount \in Int
    BY <1>4, <2>1
  <2> QED BY <2>1, <2>2
<1>6. SettledUsd' = usd
  <2>1. \A u \in Users : WrittenUsd(u)' = 0
    BY <1>1 DEF SameTrade, WrittenUsd
  <2>2. SettledUsd' = [u \in Users |-> Wrap(usd[u] - 0)]
    BY <1>3, <2>1 DEF SettledUsd
  <2> QED BY <1>2, <2>2, NothingWritten
<1>7. rub' \in [Users -> Int64]
  BY <1>1, <1>2, <1>3, <1>4, AddType DEF SameTrade
<1>8. SettledRub' = rub'
  <2>1. \A u \in Users : WrittenRub(u)' = 0
    BY <1>1 DEF SameTrade, WrittenRub
  <2>2. SettledRub' = [u \in Users |-> Wrap(rub'[u] - 0)]
    BY <2>1 DEF SettledRub
  <2> QED BY <1>7, <2>2, NothingWritten
\* What the two had, and what it takes to what they have.
<1>9. /\ SettledUsd[w] = Wrap(usd[w] - GainedUsd(waiting))
      /\ SettledUsd[i] = Wrap(usd[i] - GainedUsd(incoming))
      /\ \A u \in Users \ {w, i} : SettledUsd[u] = Wrap(usd[u] - 0)
  BY <1>4 DEF SettledUsd, WrittenUsd
<1>10. /\ SettledRub[w] = Wrap(rub[w] - GainedRub(waiting))
       /\ \A u \in Users \ {w} : SettledRub[u] = Wrap(rub[u] - 0)
  BY <1>4 DEF SettledRub, WrittenRub
<1>11. /\ Wrap(SettledUsd[w] + GainedUsd(waiting)) = usd[w]
       /\ Wrap(SettledUsd[i] + GainedUsd(incoming)) = usd[i]
       /\ \A u \in Users \ {w, i} : SettledUsd[u] = usd[u]
  BY <1>1, <1>2, <1>4, <1>9, WrapTakesBack DEF SameTrade
<1>12. /\ Wrap(SettledRub[w] + GainedRub(waiting)) = rub'[w]
       /\ Wrap(SettledRub[i] + GainedRub(incoming)) = rub'[i]
       /\ \A u \in Users \ {w, i} : SettledRub[u] = rub'[u]
  <2>1. \A u \in Users \ {w} : SettledRub[u] = rub[u]
    <3> TAKE u \in Users \ {w}
    <3>1. rub[u] \in Int64 /\ SettledRub[u] = Wrap(rub[u] - 0)
      BY <1>2, <1>10
    <3> QED BY <3>1, WrapZero
  <2>2. Wrap(SettledRub[w] + GainedRub(waiting)) = rub[w]
    BY <1>1, <1>2, <1>4, <1>10, WrapTakesBack DEF SameTrade
  <2> QED BY <1>2, <1>3, <1>4, <2>1, <2>2
<1>13. \A u \in Users : SettledUsd[u] \in Int /\ SettledRub[u] \in Int
  <2>1. \A u \in Users : WrittenUsd(u) \in Int /\ WrittenRub(u) \in Int
    BY <1>1 DEF SameTrade, WrittenUsd, WrittenRub
  <2>2. \A u \in Users : usd[u] - WrittenUsd(u) \in Int /\ rub[u] - WrittenRub(u) \in Int
    <3> TAKE u \in Users
    <3>1. usd[u] \in Int /\ rub[u] \in Int
      BY <1>2, WidthIsInt
    <3> QED BY <2>1, <3>1
  <2>3. \A u \in Users : SettledUsd[u] \in Int64 /\ SettledRub[u] \in Int64
    BY <2>2, WrapRange DEF SettledUsd, SettledRub
  <2> QED BY <2>3, WidthIsInt
<1>14. DOMAIN SettledUsd = Users /\ DOMAIN SettledRub = Users
       /\ SettledUsd = [u \in Users |-> SettledUsd[u]] /\ SettledRub = [u \in Users |-> SettledRub[u]]
  BY DEF SettledUsd, SettledRub
<1> DEFINE Pays(b, s) ==
        /\ SettledUsd' = [SettledUsd EXCEPT ![b] = Wrap(@ + amount), ![s] = Wrap(@ - amount)]
        /\ SettledRub' = [SettledRub EXCEPT ![b] = Wrap(@ - price * amount),
                                            ![s] = Wrap(@ + price * amount)]
<1>15. ASSUME NEW b \in Users, NEW s \in Users, b # s, {b, s} = {w, i}, Pays(b, s)
       PROVE  Settled!Trade(b, s, price, amount)
  BY <1>3, <1>15 DEF Settled!Trade, Settled!Balance, Wrap
<1>16. \A u \in Users : /\ Wrap(SettledRub[u] + Wrap(price * amount)) = Wrap(SettledRub[u] + price * amount)
                      /\ Wrap(SettledRub[u] + Wrap(-(price * amount))) = Wrap(SettledRub[u] + (-(price * amount)))
  <2>1. \A a, b \in Int : Wrap(a + Wrap(b)) = Wrap(a + b)
    BY WrapAdded
  <2>2. price * amount \in Int /\ -(price * amount) \in Int
    BY <1>5
  <2> QED BY <1>13, <2>1, <2>2
<1>17. CASE waiting.type = BUY
  <2>1. GainedUsd(waiting) = amount /\ GainedRub(waiting) = Wrap(-(price * amount))
    BY <1>5, <1>17 DEF GainedUsd, GainedRub
  <2>2. GainedUsd(incoming) = -amount /\ GainedRub(incoming) = Wrap(price * amount)
    BY <1>4, <1>17 DEF GainedUsd, GainedRub, SELL, BUY
  <2>3. /\ usd[w] = Wrap(SettledUsd[w] + amount) /\ usd[i] = Wrap(SettledUsd[i] - amount)
        /\ rub'[w] = Wrap(SettledRub[w] - price * amount) /\ rub'[i] = Wrap(SettledRub[i] + price * amount)
    <3>1. /\ SettledUsd[i] + (-amount) = SettledUsd[i] - amount
          /\ SettledRub[w] + (-(price * amount)) = SettledRub[w] - price * amount
      BY <1>4, <1>5, <1>13
    <3> QED BY <1>4, <1>11, <1>12, <1>16, <2>1, <2>2, <3>1
  <2>4. Pays(w, i)
    BY <1>2, <1>4, <1>6, <1>7, <1>8, <1>11, <1>12, <1>14, <2>3
  <2> QED BY <1>4, <1>15, <2>4
<1>18. CASE waiting.type = SELL
  <2>1. GainedUsd(waiting) = -amount /\ GainedRub(waiting) = Wrap(price * amount)
    BY <1>18 DEF GainedUsd, GainedRub, SELL, BUY
  <2>2. GainedUsd(incoming) = amount /\ GainedRub(incoming) = Wrap(-(price * amount))
    BY <1>4, <1>5, <1>18 DEF GainedUsd, GainedRub
  <2>3. /\ usd[i] = Wrap(SettledUsd[i] + amount) /\ usd[w] = Wrap(SettledUsd[w] - amount)
        /\ rub'[i] = Wrap(SettledRub[i] - price * amount) /\ rub'[w] = Wrap(SettledRub[w] + price * amount)
    <3>1. /\ SettledUsd[w] + (-amount) = SettledUsd[w] - amount
          /\ SettledRub[i] + (-(price * amount)) = SettledRub[i] - price * amount
      BY <1>4, <1>5, <1>13
    <3> QED BY <1>4, <1>11, <1>12, <1>16, <2>1, <2>2, <3>1
  <2>4. Pays(i, w)
    BY <1>2, <1>4, <1>6, <1>7, <1>8, <1>11, <1>12, <1>14, <2>3
  <2> QED BY <1>4, <1>15, <2>4
<1> QED BY <1>4, <1>17, <1>18

\* While no trade is being written there is nothing to take back.
LEMMA NothingToTakeBack ==
    ASSUME TypeInv, step \in {0, 1, 5, 6}
    PROVE  SettledUsd = usd /\ SettledRub = rub
<1>1. SettledUsd = [u \in Users |-> Wrap(usd[u] - 0)] /\ SettledRub = [u \in Users |-> Wrap(rub[u] - 0)]
  BY DEF SettledUsd, SettledRub, WrittenUsd, WrittenRub
<1>2. usd \in [Users -> Int64] /\ rub \in [Users -> Int64]
  BY DEF TypeInv, AccountsOK
<1> QED BY <1>1, <1>2, NothingWritten

\* A step that writes no balance and begins or ends no writing.
LEMMA SettledStays ==
    ASSUME UNCHANGED <<rub, usd>>,
           \/ UNCHANGED <<step, waiting, incoming, amount>>
           \/ step \in {0, 1, 5, 6} /\ step' \in {0, 1, 5, 6}
    PROVE  UNCHANGED <<SettledUsd, SettledRub>>
<1>1. CASE UNCHANGED <<step, waiting, incoming, amount>>
  BY <1>1 DEF SettledUsd, SettledRub, WrittenUsd, WrittenRub, GainedUsd, GainedRub
<1>2. CASE step \in {0, 1, 5, 6} /\ step' \in {0, 1, 5, 6}
  <2>1. \A u \in Users : WrittenUsd(u) = 0 /\ WrittenUsd(u)' = 0 /\ WrittenRub(u) = 0 /\ WrittenRub(u)' = 0
    BY <1>2 DEF WrittenUsd, WrittenRub
  <2> QED BY <2>1 DEF SettledUsd, SettledRub
<1> QED BY <1>1, <1>2

\* What is reported between two trades is a balance of the ledger.
LEMMA SettledReports ==
    ASSUME TypeInv, step \in {0, 5, 6}, NEW u \in Users, UNCHANGED <<SettledUsd, SettledRub>>,
           reported' = [user |-> u, rub |-> rub[u], usd |-> usd[u]]
    PROVE  Settled!Report(u)
BY NothingToTakeBack DEF Settled!Report

\* Every step is a step of the ledger, or none.
LEMMA SettledNext == TypeInv /\ [Next]_vars => [Settled!Next]_(Settled!vars)
<1> SUFFICES ASSUME TypeInv, [Next]_vars
             PROVE  Settled!Next \/ UNCHANGED <<SettledRub, SettledUsd, reported>>
  BY DEF Settled!vars
<1> USE DEF ioVars
<1>1. ASSUME NEW u \in Users, HandleCheckBalanceRequest(u)
      PROVE  Settled!Next
  <2>1. UNCHANGED <<SettledUsd, SettledRub>>
    BY <1>1, SettledStays DEF HandleCheckBalanceRequest
  <2>2. Settled!Report(u)
    BY <1>1, <2>1, SettledReports DEF HandleCheckBalanceRequest
  <2> QED BY <2>2 DEF Settled!Next
<1>2. ASSUME NEW w \in Waiting, NEW r \in Requests, Perform(w, r)
      PROVE  UNCHANGED <<SettledRub, SettledUsd, reported>>
  BY <1>2, SettledStays DEF Perform
<1>3. CASE Write
  <2>1. CASE step = 4
    BY <1>3, <2>1, LastWriteTrades DEF Settled!Next
  <2>2. CASE step # 4
    BY <1>3, <2>2, WriteStutters DEF Write
  <2> QED BY <2>1, <2>2
<1>4. CASE Broadcast
  <2> DEFINE r == IF step = 5 THEN waiting ELSE incoming
  <2>1. /\ step \in {5, 6} /\ step' \in {0, 6} /\ UNCHANGED <<rub, usd>>
        /\ reported' = IF test[r.user] THEN ReportOf(r) ELSE reported
    BY <1>4 DEF Broadcast
  <2>2. UNCHANGED <<SettledUsd, SettledRub>>
    BY <2>1, SettledStays
  <2>3. r.user \in Users
    BY <2>1 DEF TypeInv, TradeOK, Parties, Senders
  <2> HIDE DEF r
  <2>4. CASE test[r.user]
    <3>1. Settled!Report(r.user)
      BY <2>1, <2>2, <2>3, <2>4, SettledReports DEF ReportOf
    <3> QED BY <2>3, <3>1 DEF Settled!Next
  <2>5. CASE ~test[r.user]
    BY <2>1, <2>2, <2>5
  <2> QED BY <2>4, <2>5
<1>5. ASSUME NEW u \in Users, Login(u) \/ Logout(u) \/ HandleTestPacket(u)
      PROVE  UNCHANGED <<SettledRub, SettledUsd, reported>>
  BY <1>5, SettledStays DEF Login, Logout, HandleTestPacket
<1>6. CASE ConsoleNext \/ UNCHANGED vars
  <2>1. UNCHANGED <<rub, usd, step, waiting, incoming, amount, reported>>
    BY <1>6 DEF ConsoleNext, BeginBalance, ReadBalance, EndBalance, vars
  <2>2. UNCHANGED <<SettledUsd, SettledRub>>
    BY <2>1 DEF SettledUsd, SettledRub, WrittenUsd, WrittenRub, GainedUsd, GainedRub
  <2> QED BY <2>1, <2>2
<1> QED BY <1>1, <1>2, <1>3, <1>4, <1>5, <1>6 DEF Next, IoNext

\* TransactionRequest::perform implements a trade that changes both balances of both parties
\* at once: what the io_service thread reports is a balance between two trades, at every
\* width, also when a balance overflows on the way.
THEOREM SettlesTrades == Spec => ImplementsLedger
<1>1. Init => Settled!Init
  <2> SUFFICES ASSUME Init PROVE Settled!Init
    OBVIOUS
  <2>1. SettledUsd = usd /\ SettledRub = rub
    BY InitType, NothingToTakeBack DEF Init
  <2> QED BY <2>1 DEF Init, Settled!Init
<1>2. TypeInv /\ [Next]_vars => [Settled!Next]_(Settled!vars)
  BY SettledNext
<1> QED BY <1>1, <1>2, TypeCorrect, PTL DEF Spec, ImplementsLedger, Settled!Spec

-----------------------------------------------------------------------------
(* The balance command *)

\* At every write, each of the two numbers is one from before the trade or one from after it.
LEMMA RealNow ==
    ASSUME TypeInv, NEW u \in Users
    PROVE  (\E b \in Between(u) : b[1] = rub[u]) /\ (\E b \in Between(u) : b[2] = usd[u])
<1> DEFINE after(r) == <<Wrap(SettledRub[u] + GainedRub(r)), Wrap(SettledUsd[u] + GainedUsd(r))>>
<1>1. <<SettledRub[u], SettledUsd[u]>> \in Between(u)
  BY DEF Between
<1>2. ASSUME NEW r \in {waiting, incoming}, step \in 1..4, r.user = u
      PROVE  after(r) \in Between(u)
  BY <1>2 DEF Between
<1>3. rub[u] \in Int64 /\ usd[u] \in Int64
  BY DEF TypeInv, AccountsOK
<1>4. SettledRub[u] = Wrap(rub[u] - WrittenRub(u)) /\ SettledUsd[u] = Wrap(usd[u] - WrittenUsd(u))
  BY DEF SettledRub, SettledUsd
<1>5. \E b \in Between(u) : b[1] = rub[u]
  <2>1. CASE WrittenRub(u) = 0
    BY <1>1, <1>3, <1>4, <2>1, WrapZero
  <2>2. CASE WrittenRub(u) # 0
    <3>1. step \in {3, 4} /\ u = waiting.user /\ WrittenRub(u) = GainedRub(waiting)
      BY <2>2 DEF WrittenRub
    <3>2. GainedRub(waiting) \in Int
      BY <3>1, GainsAreNumbers DEF TypeInv
    <3>3. Wrap(SettledRub[u] + GainedRub(waiting)) = rub[u]
      BY <1>3, <1>4, <3>1, <3>2, WrapTakesBack
    <3>4. after(waiting) \in Between(u)
      BY <1>2, <3>1
    <3> QED BY <3>3, <3>4
  <2> QED BY <2>1, <2>2
<1>6. \E b \in Between(u) : b[2] = usd[u]
  <2>1. CASE WrittenUsd(u) = 0
    BY <1>1, <1>3, <1>4, <2>1, WrapZero
  <2>2. CASE WrittenUsd(u) # 0
    <3>1. PICK r \in {waiting, incoming} : step \in 1..4 /\ u = r.user /\ WrittenUsd(u) = GainedUsd(r)
      BY <2>2 DEF WrittenUsd
    <3>2. GainedUsd(r) \in Int
      BY <3>1, GainsAreNumbers DEF TypeInv
    <3>3. Wrap(SettledUsd[u] + GainedUsd(r)) = usd[u]
      BY <1>3, <1>4, <3>1, <3>2, WrapTakesBack
    <3>4. after(r) \in Between(u)
      BY <1>2, <3>1
    <3> QED BY <3>3, <3>4
  <2> QED BY <2>1, <2>2
<1> QED BY <1>5, <1>6

\* What was read stays a number from before or after a trade that went on meanwhile.
LEMMA NumbersNext == TypeInv /\ NumbersAreReal /\ [Next]_vars => NumbersAreReal'
<1> SUFFICES ASSUME TypeInv, NumbersAreReal, [Next]_vars
             PROVE  NumbersAreReal'
  OBVIOUS
<1> USE DEF ioVars
<1>1. ASSUME NEW u \in Users, BeginBalance(u)
      PROVE  NumbersAreReal'
  BY <1>1 DEF BeginBalance, Quiet, NumbersAreReal
<1>2. ASSUME NEW field \in {"rub", "usd"}, ReadBalance(field)
      PROVE  NumbersAreReal'
  <2>1. console.user \in Users
    BY <1>2 DEF ReadBalance, TypeInv, CommandOK
  <2>2. /\ \E b \in Between(console.user) : b[1] = rub[console.user]
        /\ \E b \in Between(console.user) : b[2] = usd[console.user]
    BY <2>1, RealNow
  <2>3. console' = [console EXCEPT ![field] = Field(field, console.user),
                                   !.seen = console.seen \cup Between(console.user)]
    BY <1>2 DEF ReadBalance
  <2>4. console'.seen = console.seen \cup Between(console.user)
    BY <2>3 DEF TypeInv, CommandOK
  <2>5. CASE field = "rub"
    <3>1. console'.rub = rub[console.user] /\ console'.usd = console.usd
      BY <2>3, <2>5 DEF TypeInv, CommandOK, Field
    <3> QED BY <2>2, <2>4, <3>1 DEF NumbersAreReal
  <2>6. CASE field = "usd"
    <3>1. console'.usd = usd[console.user] /\ console'.rub = console.rub
      BY <2>3, <2>6 DEF TypeInv, CommandOK, Field
    <3> QED BY <2>2, <2>4, <3>1 DEF NumbersAreReal
  <2> QED BY <2>5, <2>6
<1>3. CASE EndBalance
  BY <1>3 DEF EndBalance, Quiet, NumbersAreReal
<1>4. CASE UNCHANGED console
  BY <1>4 DEF NumbersAreReal
<1>5. ASSUME NEW u \in Users, Login(u) \/ Logout(u) \/ HandleTestPacket(u) \/ HandleCheckBalanceRequest(u)
      PROVE  NumbersAreReal'
  BY <1>4, <1>5 DEF Login, Logout, HandleTestPacket, HandleCheckBalanceRequest
<1>6. ASSUME NEW w \in Waiting, NEW r \in Requests, Perform(w, r)
      PROVE  NumbersAreReal'
  BY <1>4, <1>6 DEF Perform
<1>7. CASE Write \/ Broadcast \/ UNCHANGED vars
  BY <1>4, <1>7 DEF Write, Broadcast, vars
<1> QED BY <1>1, <1>2, <1>3, <1>5, <1>6, <1>7 DEF Next, IoNext, ConsoleNext

\* The balance command (command_executor.cpp:29-39), which reads RUB and USD while a trade may
\* be half written, shows no number that the user does not have before or after a trade.
THEOREM CommandShowsRealNumbers == Spec => []NumbersAreReal
<1>1. Init => NumbersAreReal
  BY DEF Init, Quiet, NumbersAreReal
<1>2. TypeInv /\ NumbersAreReal /\ [Next]_vars => NumbersAreReal'
  BY NumbersNext
<1> QED BY <1>1, <1>2, TypeCorrect, PTL DEF Spec
=============================================================================
