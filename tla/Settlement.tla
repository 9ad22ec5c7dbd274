----------------------------- MODULE Settlement -----------------------------
(***************************************************************************)
(* TransactionRequest::perform write by write, and everybody who looks at  *)
(* a balance: the handler of CHECK_BALANCE_REQUEST and the broadcast about *)
(* test users on the io_service thread, the balance command on the console *)
(* thread.  Balances are integers of a fixed width.                        *)
(*                                                                         *)
(* Which requests meet is for Market to say: here any two of different     *)
(* users and types may.  Only perform is interrupted, and only by the      *)
(* console thread: the other handlers run when no trade is being settled.  *)
(***************************************************************************)
EXTENDS Integers, Sequences

CONSTANTS
    Users,
    Prices,     \* RUB per unit that requests ask for
    MaxUsd,     \* bound: USD that a request asks for
    MaxTrades,  \* bound: trades in one behaviour
    MaxReads,   \* bound: balance commands in one behaviour
    HalfRange,  \* a balance is in -HalfRange..HalfRange - 1: 2^63 in the code
    NoRequest,  \* nothing is being settled
    NoReport,   \* nothing was reported yet
    Unknown     \* a client that has not asked for its balance

ASSUME SettlementAssumption ==
    /\ Prices \subseteq Nat \ {0}
    /\ MaxUsd \in Nat
    /\ MaxTrades \in Nat
    /\ MaxReads \in Nat
    /\ HalfRange \in Nat \ {0}
    /\ MaxUsd < HalfRange
    /\ \A p \in Prices : p < HalfRange

SELL == 0
BUY == 1
Int64 == -HalfRange..(HalfRange - 1)
Requests == [user : Users, type : {SELL, BUY}, price : Prices, usd : 0..MaxUsd]
\* perform does not look at the price of the request it is called on.
Waiting == [user : Users, type : {SELL, BUY}, usd : 0..MaxUsd]
Balances == [rub : Int64, usd : Int64]

ASSUME NoRequestAssumption == NoRequest \notin Requests \cup Waiting /\ Unknown \notin Balances

VARIABLES
    rub, usd,   \* User::rub, User::usd
    session,    \* User::session is not null
    test,       \* User::test
    waiting,    \* the request perform was called on
    incoming,   \* its parameter
    amount,     \* the lesser of their USD, read at the start
    step,       \* 1..4: the next write; 5, 6: the broadcasts; 0: not in perform
    statement,  \* by user: the balance its client can work out from what it was sent
    reported,   \* the balance that was sent last by the io_service thread
    console,    \* the balance command: whose balance, what it has read
    trades      \* trades so far

ioVars == <<waiting, incoming, amount, step, trades>>
vars == <<rub, usd, session, test, ioVars, statement, reported, console>>

Quiet(n) == [user |-> NoRequest, rub |-> Unknown, usd |-> Unknown, seen |-> {}, reads |-> n]

Init ==
    /\ rub = [u \in Users |-> 0]
    /\ usd = [u \in Users |-> 0]
    /\ session = [u \in Users |-> FALSE]
    /\ test = [u \in Users |-> FALSE]
    /\ waiting = NoRequest /\ incoming = NoRequest
    /\ amount = 0
    /\ step = 0
    /\ statement = [u \in Users |-> Unknown]
    /\ reported = NoReport
    /\ console = Quiet(0)
    /\ trades = 0

\* Two's complement.
Wrap(n) == ((n + HalfRange) % (2 * HalfRange)) - HalfRange

-----------------------------------------------------------------------------
(* Handlers of the io_service thread *)

Login(u) ==
    /\ step = 0
    /\ ~session[u]
    /\ session' = [session EXCEPT ![u] = TRUE]
    /\ UNCHANGED <<rub, usd, test, ioVars, statement, reported, console>>

\* Session::close.
Logout(u) ==
    /\ step = 0
    /\ session[u]
    /\ session' = [session EXCEPT ![u] = FALSE]
    /\ statement' = [statement EXCEPT ![u] = Unknown]
    /\ UNCHANGED <<rub, usd, test, ioVars, reported, console>>

HandleTestPacket(u) ==
    /\ step = 0
    /\ session[u]
    /\ test' = [test EXCEPT ![u] = TRUE]
    /\ UNCHANGED <<rub, usd, session, ioVars, statement, reported, console>>

Balance(u) == [rub |-> rub[u], usd |-> usd[u]]

HandleCheckBalanceRequest(u) ==
    /\ step = 0
    /\ session[u]
    /\ statement' = [statement EXCEPT ![u] = Balance(u)]
    /\ reported' = [user |-> u, rub |-> rub[u], usd |-> usd[u]]
    /\ UNCHANGED <<rub, usd, session, test, ioVars, console>>

Lesser(a, b) == IF a <= b THEN a ELSE b

\* addRequest calls perform: the user of the incoming request is the one who sent it.
Perform(w, r) ==
    /\ step = 0
    /\ trades < MaxTrades
    /\ w.user # r.user /\ w.type # r.type
    /\ w.usd > 0 /\ r.usd > 0
    /\ session[r.user]
    /\ waiting' = w
    /\ incoming' = r
    /\ amount' = Lesser(r.usd, w.usd)
    /\ step' = 1
    /\ trades' = trades + 1
    /\ UNCHANGED <<rub, usd, session, test, statement, reported, console>>

\* What a party gains: addUsd turns the sign round for a buyer.  The product of price and
\* amount is of the width of a balance too, and may wrap around.
\* Mutant: a buyer is treated as a seller.
GainedUsdAsSeller(r) == -amount
GainedUsd(r) == IF r.type = BUY THEN amount ELSE -amount
GainedRub(r) == Wrap((IF r.type = BUY THEN -incoming.price ELSE incoming.price) * amount)

\* User::addRub and addUsd tell the user, through the session they have, what changed.
\* Mutant: the message is about what is left of the request.
ToldLeft(s, field, value) ==
    IF s = Unknown THEN s ELSE [s EXCEPT ![field] = Wrap(@ + waiting.usd)]
Told(s, field, value) ==
    IF s = Unknown THEN s ELSE [s EXCEPT ![field] = Wrap(@ + value)]
Tell(u, field, value) ==
    statement' = IF session[u] THEN [statement EXCEPT ![u] = Told(@, field, value)] ELSE statement

\* Mutant: what a request has left is not counted down.
LeftAlways(r) == r
Left(r) == [r EXCEPT !.usd = @ - amount]

\* TransactionRequest::addUsd: the request's own amount and the user's balance.
AddUsd(r) ==
    /\ usd' = [usd EXCEPT ![r.user] = Wrap(@ + GainedUsd(r))]
    /\ Tell(r.user, "usd", GainedUsd(r))
    /\ UNCHANGED rub

AddRub(r) ==
    /\ rub' = [rub EXCEPT ![r.user] = Wrap(@ + GainedRub(r))]
    /\ Tell(r.user, "rub", GainedRub(r))
    /\ UNCHANGED <<usd, waiting, incoming>>

Write ==
    /\ \/ step = 1 /\ AddUsd(waiting) /\ waiting' = Left(waiting) /\ UNCHANGED incoming
       \/ step = 2 /\ AddRub(waiting)
       \/ step = 3 /\ AddUsd(incoming) /\ incoming' = Left(incoming) /\ UNCHANGED waiting
       \/ step = 4 /\ AddRub(incoming)
    /\ step' = step + 1
    /\ UNCHANGED <<session, test, amount, reported, console, trades>>

\* The balances of test users are broadcast, the waiting one's first.
\* Mutant: the USD are those from before the trade.
ReportStale(r) == [user |-> r.user, rub |-> rub[r.user], usd |-> usd[r.user] - GainedUsd(r)]
ReportOf(r) == [user |-> r.user, rub |-> rub[r.user], usd |-> usd[r.user]]
Broadcast ==
    /\ step \in {5, 6}
    /\ LET r == IF step = 5 THEN waiting ELSE incoming
       IN  reported' = IF test[r.user] THEN ReportOf(r) ELSE reported
    /\ IF step = 5
       THEN step' = 6 /\ UNCHANGED <<waiting, incoming, amount>>
       ELSE step' = 0 /\ waiting' = NoRequest /\ incoming' = NoRequest /\ amount' = 0
    /\ UNCHANGED <<rub, usd, session, test, statement, console, trades>>

-----------------------------------------------------------------------------
(* The balance before the trade that is being settled: without what was written of it. *)

WrittenUsd(u) ==
    IF step \in {2, 3, 4} /\ u = waiting.user THEN GainedUsd(waiting)
    ELSE IF step = 4 /\ u = incoming.user THEN GainedUsd(incoming)
    ELSE 0
WrittenRub(u) == IF step \in {3, 4} /\ u = waiting.user THEN GainedRub(waiting) ELSE 0

SettledUsd == [u \in Users |-> Wrap(usd[u] - WrittenUsd(u))]
SettledRub == [u \in Users |-> Wrap(rub[u] - WrittenRub(u))]

-----------------------------------------------------------------------------
(* The console thread: "balance <login>" reads the two balances under a mutex each, in   *)
(* the order in which the compiler evaluates the arguments of send_log.                  *)

BeginBalance(u) ==
    /\ console.user = NoRequest
    /\ console.reads < MaxReads
    /\ console' = [Quiet(console.reads + 1) EXCEPT !.user = u]
    /\ UNCHANGED <<rub, usd, session, test, ioVars, statement, reported>>

\* The balances the user has before and after the trade that is being settled.
Between(u) ==
    LET before == <<SettledRub[u], SettledUsd[u]>>
        after(r) == <<Wrap(before[1] + GainedRub(r)), Wrap(before[2] + GainedUsd(r))>>
    IN  {before} \cup {after(r) : r \in {q \in {waiting, incoming} : step \in 1..4 /\ q.user = u}}

\* Mutant: the getters are swapped.
FieldSwapped(field, u) == IF field = "rub" THEN usd[u] ELSE rub[u]
Field(field, u) == IF field = "rub" THEN rub[u] ELSE usd[u]

\* seen collects the balances the user has between trades while the command runs.
ReadBalance(field) ==
    /\ console.user # NoRequest
    /\ console[field] = Unknown
    /\ console' = [console EXCEPT ![field] = Field(field, console.user),
                                  !.seen = @ \cup Between(console.user)]
    /\ UNCHANGED <<rub, usd, session, test, ioVars, statement, reported>>

EndBalance ==
    /\ console.rub # Unknown /\ console.usd # Unknown
    /\ console' = Quiet(console.reads)
    /\ UNCHANGED <<rub, usd, session, test, ioVars, statement, reported>>

-----------------------------------------------------------------------------
IoNext ==
    \/ \E u \in Users :
        Login(u) \/ Logout(u) \/ HandleTestPacket(u) \/ HandleCheckBalanceRequest(u)
    \/ \E w \in Waiting, r \in Requests : Perform(w, r)
    \/ Write
    \/ Broadcast

ConsoleNext ==
    \/ \E u \in Users : BeginBalance(u)
    \/ \E field \in {"rub", "usd"} : ReadBalance(field)
    \/ EndBalance

Next == IoNext \/ ConsoleNext

Spec == Init /\ [][Next]_vars

-----------------------------------------------------------------------------
(* Properties *)

\* addRequest goes on as long as a request is not fulfilled, and takes "usd == 0" for that:
\* when perform is over one of the two has nothing left, and neither has less.
OneFulfilled ==
    step \in {5, 6} => 0 \in {waiting.usd, incoming.usd} /\ waiting.usd >= 0 /\ incoming.usd >= 0

\* README.md:18: "Server also notifies users about their transactions."  The balance a
\* client asked for, and the messages since, add up to the balance it has, at every write
\* of every trade, whoever sent the request.
StatementAgrees == \A u \in Users : statement[u] # Unknown => statement[u] = Balance(u)

\* Whatever the io_service thread sends about a balance is true between two trades, and
\* the four writes amount to one trade, also when a balance overflows on the way.
Settled == INSTANCE Ledger WITH rub <- SettledRub, usd <- SettledUsd
ImplementsLedger == Settled!Spec

\* README.md:22: "balance <login> checks USD and RUB balance of a user."  Each of the two
\* numbers is one the user has between two trades, though they are read while a trade is
\* being settled.  (They need not be of the same moment.)
NumbersAreReal ==
    /\ console.rub # Unknown => \E b \in console.seen : b[1] = console.rub
    /\ console.usd # Unknown => \E b \in console.seen : b[2] = console.usd
=============================================================================
