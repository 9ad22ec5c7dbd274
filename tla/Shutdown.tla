------------------------------ MODULE Shutdown ------------------------------
(***************************************************************************)
(* Server::shutdown on the console thread, step by step, against the       *)
(* thread that is main: it runs the handlers of the io_service, then spins *)
(* until finally_shutdown and leaves the process.                          *)
(*                                                                         *)
(* Everything the two share is an object that is alive or deleted.  A      *)
(* handler is the sequence of objects it uses; between two of them the     *)
(* console thread may do anything.  To use a deleted object is undefined:  *)
(* the process dies, or goes on as if nothing had happened.                *)
(***************************************************************************)
EXTENDS Integers, Sequences, FiniteSets, SequencesExt

CONSTANTS
    Clients,   \* connected and logged in, each with its session and its user
    Newcomer,  \* a client that may connect while the server stops
    Book       \* the price lists: how many requests wait in each

ASSUME ShutdownAssumption ==
    /\ IsFiniteSet(Clients)
    /\ Newcomer \notin Clients
    /\ Book \in Seq(Nat \ {0})

SessionOf(c) == <<"session", c>>
UserOf(c) == <<"user", c>>
ListAt(i) == <<"list", i>>
Market == <<"market", 0>>
Acceptor == <<"acceptor", 0>>
Pending == <<"pending", 0>>
Service == <<"io_service", 0>>

Lists == {ListAt(i) : i \in DOMAIN Book}
Present ==
    {SessionOf(c) : c \in Clients} \cup {UserOf(c) : c \in Clients} \cup Lists
        \cup {Market, Acceptor, Pending, Service}
Objects == Present \cup {SessionOf(Newcomer)}

\* The operation of async_read_until: it has read a separator or an error, or has to go on.
Completions == {"read", "part"}
\* What processRead does with what was read.
Packets == {"trade", "balance", "eof"}
Handlers == Completions \cup Packets \cup {"accept"}
Idle == [handler |-> "none", client |-> Newcomer, uses |-> <<>>]

VARIABLES
    alive,             \* objects that exist
    sessions,          \* Server::sessions
    stopped,           \* Server::stopped
    halted,            \* io_service::stop was called
    finally_shutdown,  \* Server::finally_shutdown
    console,           \* what shutdown does next
    doomed,            \* clients whose session shutdown has yet to close
    closing,           \* the session it has closed and not yet deleted
    io,                \* the handler that runs, and what it still uses
    quiet,             \* no handler was at work when stop was typed, nobody connected since
    running,           \* main is in io_service::run
    deleted,           \* by list: how often each request was deleted
    faults,            \* who used something deleted
    process            \* "running", "crashed" or "exited"

shutdownVars == <<stopped, halted, finally_shutdown, console, doomed, closing>>
ioVars == <<io, running, quiet>>
vars == <<alive, sessions, shutdownVars, ioVars, deleted, faults, process>>

Init ==
    /\ alive = Present
    /\ sessions = Clients
    /\ stopped = FALSE /\ halted = FALSE /\ finally_shutdown = FALSE
    /\ console = "input"
    /\ doomed = {} /\ closing = {}
    /\ io = Idle
    /\ running = TRUE /\ quiet = FALSE
    /\ deleted = [i \in DOMAIN Book |-> [r \in 1..Book[i] |-> 0]]
    /\ faults = {}
    /\ process = "running"

\* Whoever uses what is deleted is recorded and may be the end of the process.
Use(objects, who) ==
    IF objects \subseteq alive
    THEN UNCHANGED <<faults, process>>
    ELSE faults' = faults \cup {who} /\ process' \in {"running", "crashed"}

-----------------------------------------------------------------------------
(* The destructor of TransactionList *)

\* One turn of its loop: the first request is deleted, the i-th place erased.
Turn(state, i) ==
    IF state.queue = <<>> THEN [state EXCEPT !.bad = TRUE]
    ELSE [queue |-> IF i < Len(state.queue) THEN RemoveAt(state.queue, i + 1) ELSE state.queue,
          deleted |-> [state.deleted EXCEPT ![Head(state.queue)] = @ + 1],
          bad |-> state.bad \/ i >= Len(state.queue)]

\* Mutant: the loop starts at 1.
TurnsFromOne(n) ==
    LET state[i \in 0..n] ==
            IF i <= 1 THEN [queue |-> [r \in 1..n |-> r], deleted |-> [r \in 1..n |-> 0], bad |-> FALSE]
            ELSE Turn(state[i - 1], i - 1)
    IN  state[n]
Turns(n) ==
    LET state[i \in 0..n] ==
            IF i = 0 THEN [queue |-> [r \in 1..n |-> r], deleted |-> [r \in 1..n |-> 0], bad |-> FALSE]
            ELSE Turn(state[i - 1], i - 1)
    IN  state[n]

-----------------------------------------------------------------------------
(* The console thread *)

At(step) == process = "running" /\ console = step

Stop ==
    /\ At("input")
    /\ stopped' = TRUE
    /\ console' = "wait"
    /\ quiet' = (io = Idle)
    /\ UNCHANGED <<alive, sessions, halted, finally_shutdown, doomed, closing, io, running, deleted, faults, process>>

\* ThreadPool::wait; the loop of the console does not count.
WaitReturns ==
    /\ At("wait")
    /\ console' = "stop"
    /\ UNCHANGED <<alive, sessions, stopped, halted, finally_shutdown, doomed, closing, ioVars, deleted, faults, process>>

\* io_service::stop.
\* Mutant: it is not called.
HaltedNot == FALSE
Halted == TRUE
StopService ==
    /\ At("stop")
    /\ halted' = Halted
    /\ console' = "market"
    /\ UNCHANGED <<alive, sessions, stopped, finally_shutdown, doomed, closing, ioVars, deleted, faults, process>>

\* A list is deleted while its own mutex is held, and the guard unlocks what is left of it.
DeleteList(i) ==
    /\ At("market")
    /\ ListAt(i) \in alive
    /\ alive' = alive \ {ListAt(i)}
    /\ deleted' = [deleted EXCEPT ![i] = Turns(Book[i]).deleted]
    /\ faults' = faults \cup {"unlock"}
                        \cup (IF Turns(Book[i]).bad THEN {"list"} ELSE {})
    /\ process' \in {"running", "crashed"}
    /\ UNCHANGED <<sessions, shutdownVars, ioVars>>

\* With the market gone the sessions to close are looked up.
DeleteMarket ==
    /\ At("market")
    /\ Lists \cap alive = {}
    /\ alive' = alive \ {Market}
    /\ doomed' = sessions
    /\ console' = "sessions"
    /\ UNCHANGED <<sessions, stopped, halted, finally_shutdown, closing, ioVars, deleted, faults, process>>

\* Server::closeSession: what is in the map is closed, which takes its user's pointer back.
CloseSession(c) ==
    /\ At("sessions")
    /\ c \in doomed /\ closing = {}
    /\ Use({SessionOf(c)} \cup (IF c \in sessions \cap Clients THEN {UserOf(c)} ELSE {}),
           "console")
    /\ doomed' = doomed \ {c}
    /\ closing' = {c} \cap sessions
    /\ UNCHANGED <<alive, sessions, stopped, halted, finally_shutdown, console, ioVars, deleted>>

EraseSession ==
    /\ At("sessions")
    /\ closing # {}
    /\ alive' = alive \ {SessionOf(c) : c \in closing}
    /\ sessions' = sessions \ closing
    /\ closing' = {}
    /\ UNCHANGED <<stopped, halted, finally_shutdown, console, doomed, ioVars, deleted, faults, process>>

\* All users are removed, one after the other.
SessionsClosed ==
    /\ At("sessions")
    /\ doomed = {} /\ closing = {}
    /\ console' = "users"
    /\ UNCHANGED <<alive, sessions, stopped, halted, finally_shutdown, doomed, closing, ioVars, deleted, faults, process>>

RemoveUser(c) ==
    /\ At("users")
    /\ UserOf(c) \in alive
    /\ alive' = alive \ {UserOf(c)}
    /\ UNCHANGED <<sessions, shutdownVars, ioVars, deleted, faults, process>>

\* The rest, in this order.
Rest == <<Acceptor, Pending, Service>>
DeleteRest ==
    /\ At("users")
    /\ {UserOf(c) : c \in Clients} \cap alive = {}
    /\ \E i \in DOMAIN Rest :
        /\ Rest[i] \in alive
        /\ \A j \in 1..(i - 1) : Rest[j] \notin alive
        /\ alive' = alive \ {Rest[i]}
    /\ UNCHANGED <<sessions, shutdownVars, ioVars, deleted, faults, process>>

Finish ==
    /\ At("users")
    /\ ({UserOf(c) : c \in Clients} \cup Range(Rest)) \cap alive = {}
    /\ finally_shutdown' = TRUE
    /\ console' = "done"
    /\ UNCHANGED <<alive, sessions, stopped, halted, doomed, closing, ioVars, deleted, faults, process>>

-----------------------------------------------------------------------------
(* The main thread: handlers of the io_service *)

InRun == process = "running" /\ running /\ io = Idle

\* What a handler uses: a trade goes through the lists and reaches another user and their
\* session; every packet but eof ends in the next read, accept in the next listen.  Before
\* processRead is called the read itself works on the session's socket and streambuf.
Uses(handler, c, d) ==
    CASE handler = "read" -> <<SessionOf(c)>>
      [] handler = "part" -> <<SessionOf(c), Service>>
      [] handler = "trade" ->
            <<UserOf(c), Market>> \o SetToSeq(Lists) \o <<UserOf(d), SessionOf(d), SessionOf(c), Service>>
      [] handler = "balance" -> <<UserOf(c), Market, SessionOf(c), Service>>
      [] handler = "eof" -> <<SessionOf(c), UserOf(c)>>
      [] handler = "accept" -> <<Pending, Service, Acceptor>>

\* Something has arrived for a session, or its connection has ended.
StartRead(handler, c) ==
    /\ InRun /\ ~halted
    /\ c \in sessions \cap Clients
    /\ io' = [handler |-> handler, client |-> c, uses |-> Uses(handler, c, c)]
    /\ UNCHANGED <<alive, sessions, shutdownVars, running, quiet, deleted, faults, process>>

\* processRead returns at once when the server is being stopped.
\* Mutant: it does not look.
ReturnsNever == FALSE
Returns == stopped

ProcessRead(handler, d) ==
    /\ process = "running"
    /\ io.handler = "read" /\ io.uses = <<>>
    /\ ~Returns
    /\ d \in sessions \cap Clients
    /\ (handler = "trade") = (io.client # d)
    /\ io' = [handler |-> handler, client |-> io.client, uses |-> Uses(handler, io.client, d)]
    /\ UNCHANGED <<alive, sessions, shutdownVars, running, quiet, deleted, faults, process>>

\* handleAccept does not look at stopped.
StartAccept ==
    /\ InRun /\ ~halted
    /\ Newcomer \notin sessions
    /\ quiet' = FALSE
    /\ io' = [handler |-> "accept", client |-> Newcomer, uses |-> Uses("accept", Newcomer, Newcomer)]
    /\ UNCHANGED <<alive, sessions, shutdownVars, running, deleted, faults, process>>

\* A session is reached through its user's pointer only while that is not null, and a closed
\* session has no user any more.
Closed(c) == c \notin sessions \/ c \in closing
LeadsNowhere(uses) ==
    /\ Len(uses) > 1
    /\ \E c \in Clients : Closed(c) /\ uses[1] # uses[2] /\ {uses[1], uses[2]} = {UserOf(c), SessionOf(c)}

HandlerUses ==
    /\ process = "running"
    /\ io.uses # <<>>
    /\ Use({Head(io.uses)}, io.handler)
    /\ io' = [io EXCEPT !.uses = IF LeadsNowhere(@) THEN Tail(Tail(@)) ELSE Tail(@)]
    /\ UNCHANGED <<alive, sessions, shutdownVars, running, quiet, deleted>>

\* A closed connection's session is deleted, an accepted one's is the pending one from now on.
HandlerReturns ==
    /\ process = "running"
    /\ io.handler # "none" /\ io.uses = <<>>
    /\ \/ /\ io.handler = "eof"
          /\ alive' = alive \ {SessionOf(io.client)}
          /\ sessions' = sessions \ {io.client}
       \/ /\ io.handler = "accept"
          /\ alive' = alive \cup {SessionOf(Newcomer)}
          /\ sessions' = sessions \cup {Newcomer}
       \/ /\ \/ io.handler \in {"trade", "balance", "part"}
             \/ io.handler = "read" /\ Returns
          /\ UNCHANGED <<alive, sessions>>
    /\ io' = Idle
    /\ UNCHANGED <<shutdownVars, running, quiet, deleted, faults, process>>

\* run returns to runIoService, through the io_service that it belongs to.
RunReturns ==
    /\ InRun /\ halted
    /\ Use({Service}, "run")
    /\ running' = FALSE
    /\ UNCHANGED <<alive, sessions, shutdownVars, io, quiet, deleted>>

\* The spin ends, and with it the process.
\* Mutant: the spin looks at stopped.
SpunUntilStopped == stopped
Spun == finally_shutdown
Exit ==
    /\ process = "running"
    /\ ~running
    /\ Spun
    /\ process' = "exited"
    /\ UNCHANGED <<alive, sessions, shutdownVars, ioVars, deleted, faults>>

-----------------------------------------------------------------------------
ConsoleNext ==
    \/ WaitReturns \/ StopService
    \/ \E i \in DOMAIN Book : DeleteList(i)
    \/ DeleteMarket
    \/ \E c \in Clients \cup {Newcomer} : CloseSession(c)
    \/ EraseSession \/ SessionsClosed
    \/ \E c \in Clients : RemoveUser(c)
    \/ DeleteRest \/ Finish

MainNext ==
    \/ HandlerUses \/ HandlerReturns
    \/ \E handler \in Packets, d \in Clients : ProcessRead(handler, d)
    \/ RunReturns \/ Exit

Arrivals ==
    \/ \E handler \in Completions, c \in Clients : StartRead(handler, c)
    \/ StartAccept

Next == Stop \/ ConsoleNext \/ MainNext \/ Arrivals

Spec == Init /\ [][Next]_vars

\* Both threads go on; nobody has to type stop or to send anything.
FairSpec == Spec /\ WF_vars(ConsoleNext) /\ WF_vars(MainNext)

-----------------------------------------------------------------------------
(* Properties *)

\* How far a stop goes wrong that comes when no handler is at work, while nobody connects.  The
\* check of stopped at the start of processRead keeps every packet away from the market, the
\* users and the sessions, and shutdown itself finds what it closes.  What is used after its
\* deletion is one of four: the mutex of a list (transaction_manager.cpp:20), a request at a
\* price where several wait (transaction_list.cpp:14), the session of a read that was under way
\* when its session was deleted, before the check (session.cpp:63), and the io_service that run
\* returns into (server.cpp:167).
QuietStopIsContained ==
    quiet =>
        /\ faults \subseteq Completions \cup {"unlock", "list", "run"}
        /\ "unlock" \in faults => Book # <<>>
        /\ "list" \in faults => \E i \in DOMAIN Book : Book[i] > 1
        /\ faults \cap Completions # {} => console \in {"sessions", "users", "done"}

\* main leaves the process only when all that was there is deleted.
ExitIsLast == process = "exited" => alive \cap Present = {}

\* README.md:23: "stop stops the server."  Where one request waits at a price, destroying the
\* market deletes it, and once.  (Of several, one is deleted twice.)
RequestsDeleted ==
    Market \notin alive =>
        \A i \in DOMAIN Book : Book[i] = 1 => deleted[i] = [r \in 1..1 |-> 1]

\* A server that is told to stop comes to its end.
StopEnds == stopped ~> process # "running"
=============================================================================
