# A formal model of realtime-usd-market

TLA+ specifications of the server and client in `src/`, the TLC configurations that check
them on small instances, and TLAPS proofs that hold for every instance. File and line
references are to the repository (`transaction_manager.cpp:57` is
`src/server/transaction/transaction_manager.cpp`, line 57).

## 1. The system

A server keeps user accounts and an order book of requests to buy or sell virtual USD for
virtual RUB. Clients connect over TCP, log in and post requests. A request trades at once with
whatever suits it, and the rest of it waits.

### Threads

| thread | runs | started by |
| --- | --- | --- |
| server main | `io_service->run()`: every accept, read and write handler, one after the other; then a spin on `finally_shutdown` | `Server::Server` |
| server console | `Server::input`: `announce`, `balance`, `stop`; a job of weight -1 of the thread pool | `server.cpp:33` |
| client main | the login loop and the menu | `client/main.cpp` |
| client reader | `Client::read`; a job of weight -1 of the client's thread pool | `client.cpp:34` |

### Components

| component | state | operations | talks to |
| --- | --- | --- | --- |
| `TransactionManager`, `TransactionList`, `TransactionRequest` | a map price -> queue for sells and one for buys, cached minimum and maximum of each | `addRequest`, `perform`, the four getters, destructors | `User` (balances) |
| `User` | login, password hash, RUB, USD, `test`, `session` | `addRub`, `addUsd`, `setSession`, `comparePassword` | `Session` (messages about trades) |
| `Session` | socket, stream buffer, `user`, `closed` | `read`/`processRead` and a handler per packet, `sendPacket`, `close` | `Server`, `User`, market |
| `Server` | sessions by address, users by login, `stopped`, `finally_shutdown` | accept, create and close sessions, add and remove users, `broadcastPacket`, `shutdown` | all of the above |
| `CommandExecutor` | none | `announce`, `balance`, `stop` | `Server`, on the console thread |
| `ThreadPool`, `Thread` | a queue of (job, weight), a weight and a flag per thread | `assignNewTask`, `wait`, destructors, worker loop | its jobs |
| `Client` | socket, `authorized`, `authorize_code`, `disconnected`, last balance | connect, send, read, `disconnect` | server, thread pool |
| packets | none | `encode`, `decode` of seven kinds, through `utils/json.hpp` | `Session`, `Client` |
| `main` of the client | the menu it shows, the clients of a test | login loop, menus, tests | `Client` |

### What is hard, and what makes each component right

* **Order book.** `addRequest` is a `goto` loop of two mirrored halves. A local copy of the best
  price is moved while price lists are erased, the cached bounds are recomputed by hand in four
  places, and own requests must be skipped (`transaction_manager.cpp:57-290`). Right means: the
  bounds are exact, no missing price is looked up, no other user's offer is passed over, nothing
  that suits is left waiting, price-time priority, nobody trades beyond their limit, the loop ends.
* **Sessions.** Users and sessions point at each other. Users log in, fail, are refused, leave and
  come back while their requests still wait, and trades of others write through their session
  pointer. Right means: the pointers agree and never dangle, a session acts only for a user whose
  password it gave, clients believe what the server decided, messages go to their owner.
* **Settling.** `perform` writes four balances one after the other, of a fixed width, and tells
  both parties and the test users. Right means: what is sent adds up, and whoever reads in between
  sees numbers that were really a balance.
* **Console thread.** It walks through the session map and reads balances without the locks, and
  its `stop` deletes what the handlers use. Right means: no packet is handled with what is deleted
  after a quiet stop, the process ends, and only when all is deleted.
* **Client.** Two threads share five plain fields and may both disconnect; an exception is thrown
  to get out of `std::cin`. Right means: logins are asked for as often as needed, the program ends
  when the connection is lost or the user leaves, no socket is used after its end.
* **Thread pool.** Queue and weight have separate mutexes; a weight is a sum with -1 for a loop.
  Right means: no job lost or run twice, `wait` waits and ends, new jobs stay away
  from loops as far as the weights can tell.
* **Bytes.** Packets are split at `|` after reads that may end inside a packet; a decoder that
  fails returns default values, which for an authorization response is "success". Right means: what
  arrives whole is read as it was written, what does not is never read as something else, every
  packet is dispatched, in order.

`PROJECT.json` lists every hazard at its line with the properties that cover it.

## 2. Modules

| module | models | checked by | proved in |
| --- | --- | --- | --- |
| `Market` | `addRequest`, the book and its bounds, trades | `market`, `market_favour` | `MarketProofs` |
| `Exchange` | what the market promises: a set of waiting requests, no lists, no caches, no search | implemented by `Market` | `MarketProofs` |
| `Settlement` | `perform` write by write, balance queries, test users, fixed-width balances | `settlement` | `SettlementProofs` |
| `Ledger` | what settling promises: trades happen at once, reports are true | implemented by `Settlement` | `SettlementProofs` |
| `Sessions` | accept, login, dispatch, trade messages, close, announce; the clients' side | `sessions`, `sessions_liveness`, `sessions_announce` | `SessionsProofs` |
| `Framing` | one direction of a connection: writes, the socket, reads, the split at the separator | `framing` | `FramingProofs` |
| `Channel` | what a direction promises | implemented by `Framing` | `FramingProofs` |
| `PacketText` | the encoders and decoders, character by character | `packet_text` | `PacketTextProofs` |
| `Shutdown` | `Server::shutdown`, destructors, the end of `main`, against running handlers | `shutdown` | `ShutdownProofs` |
| `Client` | the client program: main, reader, `disconnect` from both | `client` | `ClientProofs` |
| `ThreadPool` | both classes of the pool | `threadpool`, `threadpool_stop` | `ThreadPoolProofs` |
| `MC...` | constants and symmetry for TLC | | |

How they fit together: each module takes one boundary between threads or layers apart and leaves
the rest as a choice. `Sessions` chooses with whom a request trades, which `Market` decides;
`Market` settles at once, which `Settlement` takes apart; `Sessions` sends whole packets, which
`Framing` cuts; `Framing` has texts that parse or do not, which `PacketText` spells out; `Shutdown`
and `Client` take `ThreadPool::wait` as the module of the pool shows it.

Definitions marked `Mutant:` in a comment belong to no specification. Each is a plausible slip in
the definition that follows it, and `PROJECT.json` says which property it must break.

### Market

`requests[type]` is `buy_requests` or `sell_requests` (a function from the prices present to
queues), `lowest` and `highest` the four bounds, `rq` the request in the loop, `cursor` the local
`_buy_max` or `_sell_min`. The two halves of `addRequest` are written once over the type; `Best`,
`Acceptable` and `Behind` hold what differs. One action is one turn of the loop between two jumps
to the label: `Rest` (lines 63-84, 178-198 and the `else` at 267), `SkipOwnLevel` (the search past
own requests, 101-114 and 216-229), `Perform` (a trade with all that follows it: the list erased,
the bounds recomputed, the cursor reset). `addRequest` runs on the io thread only and is not
interrupted by another request, so `Submit` requires `rq = NoRequest`. Ids stand for addresses, in
order of allocation. The user's own requests are never traded with, and may wait on both sides at
prices that cross; every property says so. `Submit` admits requests of the two types, with a
price and an amount above zero, as the client's menu and tests send them; the server itself only
refuses an amount of zero (section 7).

`Market` refines `Exchange` (`ImplementsExchange`), where `SkipOwnLevel` is a stutter. `Exchange`
has price-time priority as the guard of its `Serve`, so this covers the order of trades too.

### Settlement

One action per write of `perform` (`step` 1 to 4) and per broadcast about a test user (5, 6); the
other handlers run between trades, as the io thread does one thing at a time. The `balance` command
of the console thread reads the two numbers in separate steps, anywhere, in either order: the order
of evaluation of the arguments of `send_log` is the compiler's. `Wrap` is two's complement of a
width given by `HalfRange`, for the balances and for the product of price and amount. `SettledRub`
and `SettledUsd` take the half of a trade that is already written back out of the balances: under
that mapping the four writes are one step of `Ledger`, and a report is of balances between two
trades. `statement` is what a client can work out from the balance it asked for and the messages
since.

### Sessions

A client is one connection; its session is named after it, as addresses are not reused while a
session exists. `users` and `user` are the two pointers, `sessions` the map in the order of its
walk: an insertion goes anywhere, and a rehash may permute the walk. `closeSession` is two steps
(`CloseSession`, `EraseSession`), since the console thread can look between them; other handlers
are one step, since no other thread sees the difference. `processRead` handles one packet per
step. The code handles all that has arrived in one go: a batch of one is always possible, so this
only adds interleavings. Which waiting requests a new one trades with is a choice here and is
decided in `Market`.

`Reset` is TCP's answer to a client that closes with unread data, as every test client does
(`client/main.cpp:94-145`): what the server has not read is lost. `HandleAcceptError` is the
exception of `setAddress` on an accept that failed, which ends the process (`up`).

A response may share a read with an announcement before it, and the read may end inside the
response: `ReadCutResponse` is what `client.cpp:129-134` makes of the failed decode
(`packets.hpp:105-114`), a success. `misled` are the clients that were refused this way; they take
themselves for authorized and are bound to nobody.

`BroadcastFreed` is the undefined behaviour of a walk over a closed session: a crash or an early
end.

### Framing and PacketText

A packet of `Framing` is cells: its id, its text in two halves, the separator; a text may have a
separator inside (`bar`), which JSON does not escape. The server's `async_write` takes what fits
into the socket at once. The rest is sent later from a local string that is gone
(`session.cpp:52-57`): `Memory` is what may be there by then, the packet itself, a later one or
garbage. The console thread may also write between two halves. Both are undefined or unordered
in the code; `torn` records them and nothing is said afterwards. `Deliver` ends a read anywhere;
`ProcessRead` dispatches every piece and throws away the rest, like `session.cpp:73-104` and
`client.cpp:97-142`. `Channel` is what remains: in order, each once, and of those read together only
the last, or one with a separator in its text, may be damaged.

`PacketText` sends one packet through `dump`, the wire, the lexer and the parser. A character is a
byte, or the range of bytes that the UTF-8 tables tell apart. `Encode` is `dump` with its escapes
and its UTF-8 automaton, which may throw; `Receive` chops the text anywhere or puts the beginning of
another packet behind it; `Scan`, `ScanString`, `ScanNumber`, `Parse` are one turn each of the
loops in `utils/json.hpp`; `Return` is `get` with its conversion to the field's type. Objects,
literals and fractions never occur in these texts outside a string, whole or cut, and are left out.
`ParseError` has no step for a nested array, so TLC's deadlock check would find a text that has one.

### Shutdown

The objects the two threads share are alive or deleted; a handler is the sequence of those it uses
(`Uses`), one per step, so the console thread may delete one in between. Whoever uses something
deleted is recorded in `faults`, and the process dies or goes on. A read is two handlers: its
completion works on the session's socket and buffer, whether or not the server is stopping
(`"read"`, or `"part"` when more has to come), and only then `processRead` looks at `stopped`.
`quiet` says that no handler was at work when `stop` was typed and nobody has connected since.
`Turns` is the loop of `~TransactionList`, which deletes `front()` and erases element `i`;
`DeleteList` also has the unlock of a mutex that lies in the list it guards the deletion of.

### Client

`main` and `reader` are the two threads' positions, `back` where `sendPacket` returns to,
`counted` whether `addToQueue` has added the reader's weight. `disconnect` is one action per step
(test, set, wait, close, delete, throw), parameterised by the thread. `Answer` and `Lose` are the
server as far as the client can tell; an accepted login stays accepted. A login
that is not UTF-8 makes the encoder throw (`EncodeThrows`): `main` catches it and deletes the
client, whose destructor disconnects, and what that throws ends the process. A test client whose
`shutdown` throws ends its test (`TestSend`), or the process when it happens in the destructor
(`EndTest`). The texts of menus and the
numbers typed are left out: what is typed is a choice among what the code tells apart.

### ThreadPool

The pool as a library: the main thread gives jobs of any weight, may wait and may destroy the
pool; a job of negative weight is a loop, which ends only when it is told to, after a call of
`wait` from its own thread, as `Server::shutdown` and `Client::disconnect` do. One action is one
critical section, so the gap in `addToQueue` between the push and the weight is there. The
programs of the repository never delete the pool; the destructors are modelled as written. Sums of
weights are taken to stay below `INT32_MAX` (`WeightsFit`); the programs' only weight is -1.

## 3. Runs

| run | instance | distinct states |
| --- | --- | --- |
| `market` | 2 users, prices 1..3, 1..2 USD, 4 requests | 600 798 |
| `market_favour` | as above, 2 requests | finding 1 |
| `settlement` | 2 users, price 3, up to 2 USD, 2 trades, 1 balance command, balances in -5..4 | 1 112 152 |
| `sessions` | 2 listening clients and a test client, 2 logins, 2 passwords, 2 sockets, 2 packets each, with symmetry | 708 956 |
| `sessions_liveness` | 1 listening and 1 test client, 1 login, 2 passwords, 1 announcement | 389 788 |
| `sessions_announce` | 2 clients, 1 announcement | finding 2 |
| `framing` | 4 packets of one direction, 4 cells of room, separators in texts | 1 037 406 |
| `packet_text` | strings up to 4 over 12 classes of bytes and over 7 characters, integers at the limits of 8 and 3 bits | 714 587 |
| `shutdown` | 2 clients, a newcomer, a list of one request and one of three | 5 871 |
| `client` | 5 packets sent by main, a test of 2 | 158 047 |
| `threadpool` | 2 threads, 3 jobs of weight -1, 0 or 2 | 39 429 |
| `threadpool_stop` | 2 threads, 1 loop | finding 3 |

What each shows:

* `market`: the cached bounds are exact, no price without a list is looked up, the search passes no
  offer of another user, nothing suitable waits, nobody trades beyond their limit, the loop ends,
  and all of it implements `Exchange`.
* `settlement`: after `perform` one request is used up and neither is below zero
  (`OneFulfilled`); what clients are told adds up to what they have (`StatementAgrees`); the writes
  implement `Ledger`; each number of a balance command is one the user had between trades
  (`NumbersAreReal`).
* `sessions`, `sessions_liveness`: users and sessions point at each other, a session acts for a
  user only with the password, trade messages go to their user, who asks is answered and who left
  gives the login back, unless the server is gone. Clients believe what the server decided, except
  those that read a refusal that was cut (`BeliefsAgree`).
* `framing`: a direction implements `Channel`, a packet sent when nothing is on its way arrives
  undamaged (`IntactWhenAlone`), each packet is dispatched.
* `packet_text`: what is encoded is decoded to the same fields, the two UTF-8 validators agree, a
  cut text is never taken for another one.
* `shutdown`: after a quiet stop no packet is handled with anything that is deleted. Four things
  are used after their deletion even then, and no others: the mutex of each list, a request at a
  price where several wait, the session of a read that was under way, and the `io_service` that
  `run` returns into (`QuietStopIsContained`). The process exits only after everything is deleted,
  a list of one request is destroyed properly, and `stop` comes to an end, where a crash on what
  is deleted counts as one.
* `client`: one login per refusal, no socket used after its end while the connection stands, loss
  and Exit end the program, and shown USD are never more than one answer older than the RUB beside
  them; they may be newer by any number of answers.
* `threadpool`: weights follow the queues, no job is lost or runs twice, `wait` waits and ends, so
  does destruction. A new job gets behind a loop in two ways only: the loop's other jobs hide it in
  the sum, or no thread was taken, which leaves the first.

**Why the bounds are enough.** Market: an own level skipped, an offer of somebody else behind it, a
list erased on the way and a new bound to find take three price levels and four requests; two USD
make partial fulfilments on either side. Two users suffice, as the code only asks whether a request
is the user's own; the proofs hold for any number. Settlement: one trade's price wraps around, two
trades overflow the small width and let a user be buyer and seller in turn, and the second trade may
begin during the balance command. Sessions: two logins and two passwords give every refusal, and
three clients with two sockets give contention, take-over after a disconnection and the failed
accept. One announcement is what a cut answer needs, and one login that a test client takes, or a
wrong password, what a refusal needs, so `sessions_liveness` has all three refusals. Two packets are
a refused login and a second try, or a login and a request. Buckets = 1 makes every second insertion
a rehash. Framing: a socket with less room than a packet with separator makes every write a short
one, and four packets let one arrive with the end of another before it and the beginning of another
behind it. PacketText: four bytes are the longest character of UTF-8, and every escape, bracket,
quote and comma meets every other within four characters; a dump of more digits only repeats `Pair`.
Shutdown: two clients trade with each other, three requests in a list show what its destructor does.
Client: a refused login, a second one, and three turns of the menu. Pool: two threads and three jobs
queue a job behind another, or behind a loop, while a third thread of control is at every step.

**Fairness.** Every liveness property is checked under weak fairness of what the threads do by
themselves. Nobody has to type, send, leave or lose a connection. Market: the io thread does not
stop inside a handler (`WF(Match)`). Sessions: the io_service runs every ready handler, for each
session; a listening client reads what it is sent (`client.cpp:87-91`); a test client closes when
its scope ends; the walk of the console thread goes on. Framing: `WF(Transport)`, one condition over
all that the io_service and a reader can do. Shutdown: both threads go on; `ThreadPool::wait` is
taken to return there, and `threadpool_stop` shows when it does not. Client: main outside
`std::cin`, each thread inside `disconnect`, the reader and the server's answers. Pool: each thread
that can take a step does; a joined or waiting main thread is driven by `MainNext` and `Waiting`.

Deadlock is not checked where all may be done: bounded packets in Sessions and Framing, bounded jobs
in ThreadPool, a process that has ended in Shutdown and Client. It is on for Market, where `Idle` is
a server that waits, for Settlement, and for PacketText, where it finds any text that the lexer or
the parser has no step for.

## 4. Proofs

Each component has its theorems in a module of their own, with no assumption but those on the
constants that the component's module names (`MarketAssumption`, `SessionsAssumption`, ...), which
TLC evaluates on every run. They hold for every number of clients, users, threads, jobs and packets,
every width of a balance and sums of weights within theirs, every room of a socket and every text.
Each proof has the same plan: an inductive invariant, `Init` implies it, every action keeps it (one
lemma or one step per action), and the property follows from it. Every inductive invariant was
checked by TLC on the instance of its run before it was proved, `TextInv` and `SeparatorsAreGiven`
on shorter strings.

| theorem | states | of |
| --- | --- | --- |
| `MarketProofs!TypeCorrect` | `[]TypeOK`: in particular no empty list stays in a map and no fulfilled request is left | the order book |
| `BoundsCorrect` | `[]BoundsExact` | |
| `CursorCorrect` | `[]CursorOnLevel`: no null `TransactionList` is dereferenced | |
| `SearchCorrect` | `[]SearchedOwn` | |
| `NothingSuitableEverWaits` | `[]NothingSuitableWaits` | |
| `TradesWithinLimits` | `PriceWithinLimits` | |
| `MatchesInOrder` | `ImplementsExchange` | |
| `SettlementProofs!TypeCorrect` | `[]TypeInv` | settling |
| `OneIsFulfilled` | `[]OneFulfilled` | |
| `StatementsAddUp` | `[]StatementAgrees` | |
| `SettlesTrades` | `ImplementsLedger` | |
| `CommandShowsRealNumbers` | `[]NumbersAreReal` | |
| `SessionsProofs!TypeCorrect` | `[]TypeInv` | users and sessions |
| `UsersAndSessionsAgree` | `[]SessionsAgree` | |
| `PasswordsAreAsked` | `[]AuthorizedByPassword` | |
| `ClientAndServerAgree` | `[]BeliefsAgree`, with its exception for cut refusals | |
| `NoticesArePrivate` | `[]NoticesReachTheirUser` | |
| `FramingProofs!TypeCorrect` | `[]TypeInv` | bytes |
| `LonePacketsArrive` | `[]IntactWhenAlone` | |
| `StreamIsChannel` | `ImplementsChannel` | |
| `PacketTextProofs!TextInvariant` | `[]TextInv` | texts |
| `EncodedIsDecoded` | `[]EncodedArrives` | |
| `CutTextsFail` | `[]CutFallsBack` | |
| `SeparatorsAreTyped` | `[]SeparatorsAreGiven` | |
| `ShutdownProofs!TypeCorrect` | `[]TypeInv` | the end of the server |
| `QuietStop` | `[]QuietStopIsContained` | |
| `ExitComesLast` | `[]ExitIsLast` | |
| `LoneRequestsDeleted` | `[]RequestsDeleted` | |
| `ClientProofs!TypeCorrect` | `[]TypeInv` | the client |
| `SocketIsAlive` | `[]SocketOutlivesUse` | |
| `EveryRefusalAsksAgain` | `[]PromptsMatch` | |
| `UsdOneBehindAtMost` | `[]ShownTogether` | |
| `ThreadPoolProofs!TypeCorrect` | `[]TypeOK` | the pool |
| `JobsAreKept` | `[]JobsKept` | |
| `WeightsAreAccounted` | `[]WeightsAccounted` | |
| `LoopsAreNotPicked` | `LoopsNotPicked` | |
| `WaitIsOver` | `WaitWaits` | |

### Order book

The argument is a chain. `TypeOK` is inductive. `BoundsExact` is inductive relative to it: erasing
the list at one bound leaves the other, and the minimum that is searched only up to the new maximum
is found because the maximum is already right. `CursorOnLevel` needs `BoundsExact`, since the cursor
is reset to a bound after a list is erased. `SearchedOwn` needs both: the search goes from one level
to the next present one, so what lies behind it is what it skipped, and a reset to the best level
leaves nothing behind. `NothingSuitableWaits` is not inductive alone. It needs `SearchedOwn` for the
moment a request is put on its list, and `BookFiled` (a request waits under its own type and price),
without which a level's price says nothing about the requests in it. `FiledCorrect` proves
`BookFiled`. `TradesWithinLimits` is about single steps: the trade is at the price of the incoming
request, which the level looked at is no worse than.

The refinement needs one invariant more. `Exchange` serves the first suitable offer in price-time
order. Price priority is `SearchedOwn`: what lies at a better price than the level looked at is the
user's own. Time priority is `InOrder`: a list holds its requests by increasing id, all of them
older than the request in the loop, so the first offer of somebody else on a list is the oldest one.
Ids are then distinct, which makes the set of resting requests lose exactly the request that a trade
takes.

### Settling

`Wrap` differs from its argument by a multiple of the width, and no two balances do (`WrapShift`,
`WidthUnique`); so taking back what was added gives the balance before, whatever overflowed
(`WrapTakesBack`), and what a client adds up agrees with what the server does (`WrapAdds`). A price
that wraps around is no different to a balance from the price that does not (`WrapAdded`), so no
bound on prices and amounts is assumed beyond the width they are sent in. `StatementAgrees` is
inductive with "who is told of changes has a session". `OneFulfilled` needs `TradeOK`, which says at
each of the four writes what is left of the two requests: the first write counts the waiting one
down, the third the incoming one, by the lesser of the two. The refinement has a lemma for the first
three writes, which take back what they add and so change nothing the ledger sees (`WriteStutters`),
and one for the fourth, where the take-back ends for both parties and all four balances at once
(`LastWriteTrades`). `NumbersAreReal` follows from `RealNow`: each single balance is at every write
the one from before or the one from after the trade.

### Users and sessions

`SessionsAgree` is not inductive alone: a login must find its session without a user, which is a
fact about what is still on the wire. `TalkInv` is that fact, per client: nothing is on its way
before the client asks; the question is the first packet, the only question and the last thing the
client typed, and as long as it is unread the session is bound to nobody; the connection ends only
when the client is gone; the one answer on its way says what the server did. `AuthorizedByPassword`
is the step from there to the password table, and needs that passwords never change and that who is
bound sends no other credentials. `BeliefsAgree` follows from `TalkInv`, which keeps for a
misled client that its session is bound to nobody. The messages need that who
was told of a trade is still bound or gone (`NoticesInv`).

### Bytes

The invariant is about a tape, the packets written one behind the other. What is in the buffer and
in the socket is a stretch of the tape (`TapeInv`): it begins where the reader stopped and ends
where the next write goes on, and the packets that begin before it are those that were dispatched.
Of the deferred writes, either all are of the last packets, each from its beginning but for the
first (`InLine`), or a packet is to be written into the middle of another one (`Doomed`), which will
be recorded in `torn`. Lemmas about the split say that the pieces that start with an id are the
packets that begin in the stretch, in order, and that each of them decodes to its packet unless it
is the last one, whose end may be missing, or has a separator inside. A packet that was sent alone
begins the buffer until it is dispatched (`Lone`), so the separator that a read waits for is its
own.

### Texts

`TextInv` says at each position of the decoder which turn of the encoder wrote what comes next, and
what is rebuilt so far: the lexer is in front of the array (`Opening`), in front of field `j`
(`Before`), in front of turn `i` of its string (`InString`), behind digit `h` of its number
(`InNumber`), or behind the field (`Behind`, `Followed`), the fields before it are in `recv` and the
first `i - 1` bytes of the string in `buffer`. A text that was cut ends in `Lost`, from where no
result but the default can be reached, since nothing that is cut off closes its array.
`CutFallsBack` and the first half of `EncodedArrives` are read off the last phase.

Three facts about pure functions carry the steps. `TurnTaken`: one turn of `scan_string` takes
exactly what one turn of `dump_escaped` wrote, or all turns of a character of several bytes, and
adds the bytes those turns were for; if the text ends inside, the turn fails. `AcceptedLexable` and
`LexableAccepted`: the table of states of the encoder and the ranges of the lexer accept the same
strings, which is the second half of `EncodedArrives`. `NumberText` and `CastFits`: digits written
two at a time are read back one at a time to the same number, and the casts to the fields' types
change none that fits.

`SeparatorsAreTyped` ties `PacketText` to `Framing`: a text has the separator of packets exactly if
a string in it has one, so the choice of `bar` in `Framing` is what a login or a message may be, and
no number, quote or escape ever adds to it.

The inductions over characters and digits are the least counterexamples of sets of natural numbers
(`SetInduction`). That a recursive function of the model exists at all is a lemma too
(`UnfoldingExists`); the model itself declares no `RECURSIVE` operator. What holds for every text
holds for every set `Printable` of characters that are no control character and no byte from 80 on,
which TLC has to fix.

### The end of the server

`MapInv` ties the session map to the objects that exist, `OrderInv` says for each place of the
console thread what is deleted already, and `ExitIsLast` follows from the last place.
`QuietStopIsContained` needs `BeforeStop`, by which everything a running handler has still to use
exists until `stop` is typed, and `QuietInv`: after a stop between two handlers a read may still
complete, but `processRead` goes no further, and the sessions that shutdown has listed are still in
the map when it comes to them. `RequestsDeleted` needs that a list goes only through its destructor
(`DeletedInv`).

### The client

`SocketInv` is what makes `SocketOutlivesUse` inductive: while the connection stands and nobody has
left, no thread is anywhere in `disconnect`. `PromptsMatch` needs `LoginInv`: before the client is
authorized one login at most is on its way, as a request, an answer, or the code that `main` spins
on, and the code is reset before the next login. `ShownTogether` needs `Numbered`: the answers about
the balance are read in the order of their numbers, and RUB is one ahead of USD only between the two
assignments of the reader.

### The pool

`TypeOK` needs `Located`: the thread that is scanned or spun on exists, and a worker runs the first
job of its queue, so that what it pops is what it ran. `JobsKept` needs `IdsInOrder`: no id in the
pool is newer than the last one given, and the job in hand is in no queue before it is pushed.
`WeightsAccounted` is about sums over queues. The induction over the length of a queue is done by
the least counterexample, as a set of natural numbers, for the two ways a queue changes: an element
more at the end and one less at the front. `Pending` is then what a weight is ahead of its queue,
and every step changes both sides alike. `LoopsNotPicked` has two halves. That a thread that is
taken has other jobs follows from `WeightsAccounted` when the scan compares. That none is taken only
when every thread has a loop needs `ScanInv`: the threads the scan has passed without taking one
were negative, and a negative weight is a loop's, as long as no loop has returned. What is not
negative is below `INT32_MAX` and is taken, which needs that no job is counted twice: `CountInv`
bounds the length of a queue by the jobs given, and with it the sum of weights (`WeightsFit`).
`WaitWaits` needs `PassedOver`: a thread that `wait` has gone past had an empty queue or a loop, and
this stays so until a loop returns, as the main thread gives no job while it waits.

### What is only model-checked

* **Liveness** (`Answered` of `Market` and of `Sessions`, `SeatFreed`, `EachIsDispatched`,
  `StopEnds`, `LossEnds`, `ExitEnds`, `LoginAnswered`, `JobsReturn`, `WaitEnds`, `DeletionEnds`): no
  backend handles fairness and `ENABLED`.
* **The three disagreements** of the next section, which are counterexamples.

## 5. Disagreements found

1. `README.md:14-15` says a trade is performed on the waiting party's terms, in favour of the new
   request. `perform` is called on the waiting request and takes its parameter's price, the new
   request's (`transaction_request.cpp:38`). Limits are kept, the advantage goes to the other.
2. `README.md:21` says `announce` reaches all connected users. The unlocked walk
   (`server.cpp:77-81`) can end early, or crash.
3. `README.md:23` says `stop` stops the server. Read before `addToQueue` has counted the weight of
   the console loop, it spins in `wait` for ever (`thread.cpp:29-34`, `threadpool.cpp:30-31`).

Other behaviour of the code that the properties have to make room for, each at the exception that
names it:

* `thread.hpp:29-30` says threads with loops are not picked for new jobs. The sum of weights hides a
  loop behind heavier jobs (`threadpool.cpp:41`), and when every thread has a loop
  `getLeastBusyThread` returns the index it began with (`threadpool.cpp:36, 47`), so the job waits
  behind the first thread's loop (`LoopsNotPicked`). The programs give each pool one job only.
* A balance command may show RUB and USD of different moments (`NumbersAreReal`), and so may the
  client (`ShownTogether`).
* Balances and `price * usd` wrap around silently at 64 bits (`Wrap`, and `Ledger`'s `Balance`).
* A refusal that is cut decodes to code 0, which is AUTHORIZE_SUCCESS (`packets.hpp:113`): the
  client takes itself for authorized and the server has bound it to nobody (`misled` in
  `BeliefsAgree`).
* When no socket can be opened, `handleAccept` throws and the server ends (`up` in `Answered`,
  `SeatFreed`).
* A deferred write is sent from freed memory, and two writes may interleave (`torn`).
* A `|` in a login or a message breaks its packet in two (`sent[i].bar`).
* A login or message that is not UTF-8 makes `dump` throw, and nothing around `sendPacket` catches
  it (`mode = "thrown"` in `PacketText`); on the client it leaves the program (`EncodeThrows`).
* `~TransactionList` deletes a request twice when two or more wait (`RequestsDeleted`), lists
  are deleted under their own mutex, a read under way uses its session after it is gone, and `run`
  returns into a deleted `io_service` (`QuietStopIsContained`).
* `stop` while a handler is at work, or while somebody connects, may use what is deleted (`quiet`).
* When the connection is lost before the reader's weight is counted, the reader waits for itself
  and the client hangs (`early` in `LossEnds`, `LoginAnswered`).
* When the connection is lost, a test client sends through a socket it has deleted, and `main`
  deletes a pointer that was never set (`gone` in `SocketOutlivesUse`, faults `"test"` and `"wild"`).

## 6. What is left

Every safety property, action property and refinement that a passing run checks is proved. What
could be stated and proved beyond the runs is what the modules take from each other: that `perform`
as `Settlement` writes it counts the two requests down as `Market` does in one step, and that the
sessions that `Shutdown` closes are those whose pointers `Sessions` keeps right.

## 7. Not modelled

* **Requests that the repository's client does not send** (`session.cpp:157-161`). The server
  refuses an amount of zero and takes any other type, price and amount; `Market` has the two types
  and numbers above zero, which the client's menu and tests send (`client/main.cpp:106-108, 136-140,
  172-217`). With any other type `perform` does nothing and the loop of `addRequest` does not end,
  so `Answered` holds of these requests only. In `Settlement` price and amount are of any size that
  fits the width.
* **A second authorization on one session**: `handleUserAuthorize` does not look whether its session
  has a user already, and no client of the repository asks again once it is authorized.
* **The bulk of `utils/json.hpp`**, a copy of nlohmann::json 3.11.2 and 24 677 of the repository's
  26 731 lines. The program uses arrays of strings and integers; `PacketText` has what they reach of
  the serializer, lexer and parser. The rest is objects, floating-point numbers, iterators,
  binary formats, JSON pointers and patches, which nothing in the repository calls, but for
  the settings object that server and client read once at start. A share of the file's lines is
  therefore not a measure of what is modelled; of the 2 054 lines that are the repository's own,
  about two thirds are mapped, and the rest is includes, declarations, empty constructors and output.
* **Logging, menu texts, the settings file** (`utils.hpp`, `server/main.cpp`): text under a mutex,
  and values read once; no state that a property depends on.
* **The data race inside `std::unordered_map`** beyond the walk of `announce`: a concurrent
  insertion may corrupt the table in ways that are no state of this program.
* **Garbage that happens to start with a packet's id** after a torn write: `Framing` says nothing
  after `torn`.
* **Address reuse**: a new session gets an address of its own while an old one exists; the map's
  keys (ip and port) are taken to be as distinct as TCP makes them.
* **Threads of the pools that `Client` leaks** (`client.cpp:32`), and `hardware_concurrency() = 0`.
