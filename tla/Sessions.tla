------------------------------ MODULE Sessions ------------------------------
(***************************************************************************)
(* Server, Session and User: connections are accepted, clients log in,     *)
(* requests of authorized sessions reach the market, trades are announced  *)
(* to both parties, sessions close.                                        *)
(*                                                                         *)
(* Two threads of the server share the session map.  The handlers of       *)
(* accepted connections and of received packets run one after the other on *)
(* the io_service thread.  The thread that reads the console walks through *)
(* the map for the announce command and takes no lock (server.cpp:77-81),  *)
(* so a handler is split into steps where the console thread can tell.     *)
(*                                                                         *)
(* A client is one connection: its address is new, and so is its session.  *)
(* A session of the model is named by the client it talks to.              *)
(***************************************************************************)
EXTENDS Integers, FiniteSets, Sequences, SequencesExt

CONSTANTS
    Clients,      \* clients, each of one connection
    TestClients,  \* the clients of the test menu: they send all at once and read nothing
    Logins,       \* logins the users choose from
    EmptyLogin,   \* what std::cin >> login yields at the end of the input
    Passwords,    \* hashes of passwords
    Nobody,       \* nullptr, for a User* and for a Session*
    MaxOpen,      \* bound: sockets the server process may have open
    Buckets,      \* elements the session map holds before it is rehashed
    MaxPackets,   \* bound: packets a client sends
    MaxAnnounces  \* bound: announce commands typed into the console

ASSUME SessionsAssumption ==
    /\ TestClients \subseteq Clients
    /\ EmptyLogin \notin Logins
    /\ Nobody \notin Clients \cup Logins
    /\ {MaxOpen, Buckets, MaxPackets, MaxAnnounces} \subseteq Nat

AUTHORIZE_SUCCESS == 0
AUTHORIZE_WRONG_PASSWORD == 1
AUTHORIZE_ALREADY_AUTHORIZED == 2
Codes == {AUTHORIZE_SUCCESS, AUTHORIZE_WRONG_PASSWORD, AUTHORIZE_ALREADY_AUTHORIZED}

VARIABLES
    users,      \* Server::users: password and session of every login that exists
    sessions,   \* Server::sessions, in the order in which the map is walked through
    user,       \* Session::user, by session
    closing,    \* the session that closeSession has closed and not yet deleted
    backlog,    \* connections that wait to be accepted
    inbox,      \* packets on their way to the server, by session
    outbox,     \* authorization responses and announcements on their way to the client
    notices,    \* the users about whose trades a client was sent a message
    posted,     \* users who have a request waiting in the market
    phase,      \* what a client is doing
    creds,      \* the login and the password a client sent last
    sent,       \* packets a client has sent
    misled,     \* history: the clients that took a damaged refusal for a success
    iterator,   \* the session at which the announce command is
    audience,   \* the sessions that were open when it began
    reached,    \* the sessions it has sent the message to
    announced,  \* announce commands typed so far
    up          \* the server process runs

clientVars == <<phase, creds, sent, misled>>
announceVars == <<iterator, audience, reached, announced>>
accountVars == <<users, user, outbox, notices, posted>>
vars == <<accountVars, sessions, closing, backlog, inbox, clientVars, announceVars, up>>

Authorize(l, p) == [kind |-> "USER_AUTHORIZE", login |-> l, pswd |-> p]
Request == [kind |-> "USER_TRANSACTION_REQUEST"]
EndOfFile == [kind |-> "EOF"]
Response(code) == [kind |-> "USER_AUTHORIZE_RESPONSE", code |-> code]
AnnounceMessage == [kind |-> "ANNOUNCE_MESSAGE"]

Init ==
    /\ users = [l \in {} |-> [pswd |-> Nobody, session |-> Nobody]]
    /\ sessions = << >>
    /\ user = [c \in Clients |-> Nobody]
    /\ closing = Nobody
    /\ backlog = {}
    /\ inbox = [c \in Clients |-> << >>]
    /\ outbox = [c \in Clients |-> << >>]
    /\ notices = [c \in Clients |-> {}]
    /\ posted = {}
    /\ phase = [c \in Clients |-> "off"]
    /\ creds = [c \in Clients |-> [login |-> Nobody, pswd |-> Nobody]]
    /\ sent = [c \in Clients |-> 0]
    /\ misled = {}
    /\ iterator = Nobody
    /\ audience = {}
    /\ reached = {}
    /\ announced = 0
    /\ up = TRUE

Open == Range(sessions) \ {closing}

-----------------------------------------------------------------------------
(* Clients *)

\* boost::asio::write; a write to a server that is gone fails and leads to Disconnect.
Send(c, packet) ==
    /\ up
    /\ sent[c] < MaxPackets
    /\ sent' = [sent EXCEPT ![c] = @ + 1]
    /\ inbox' = [inbox EXCEPT ![c] = Append(@, packet)]

Connect(c) ==
    /\ up
    /\ phase[c] = "off"
    /\ phase' = [phase EXCEPT ![c] = "login"]
    /\ backlog' = backlog \cup {c}
    /\ UNCHANGED <<accountVars, sessions, closing, inbox, creds, sent, misled, announceVars, up>>

\* The user types a login and a password.
SendUserAuthorize(c, l, p) ==
    /\ phase[c] = "login"
    /\ Send(c, Authorize(l, p))
    /\ phase' = [phase EXCEPT ![c] = "asked"]
    /\ creds' = [creds EXCEPT ![c] = [login |-> l, pswd |-> p]]
    /\ UNCHANGED <<accountVars, sessions, closing, backlog, misled, announceVars, up>>

\* An interactive client trades when it is authorized, a test client without waiting.
SendUserTransactionRequest(c) ==
    /\ phase[c] = IF c \in TestClients THEN "asked" ELSE "authorized"
    /\ Send(c, Request)
    /\ UNCHANGED <<accountVars, sessions, closing, backlog, phase, creds, misled, announceVars, up>>

\* Mutant: every answer but a wrong password is taken for a success.
AcceptedUnlessWrong(code) == code # AUTHORIZE_WRONG_PASSWORD
Accepted(code) == code = AUTHORIZE_SUCCESS

\* The thread of a client that listens runs from the connection to its end.
Reads(c, packets) ==
    /\ c \notin TestClients
    /\ phase[c] \notin {"off", "gone"}
    /\ IsPrefix(packets, outbox[c])
    /\ outbox' = [outbox EXCEPT ![c] = SubSeq(@, Len(packets) + 1, Len(@))]
    /\ UNCHANGED <<users, user, notices, posted, sessions, closing, backlog, inbox, creds, sent,
                   announceVars, up>>

\* handleAnnounceMessage only prints.
ReadAnnounceMessage(c) == Reads(c, << AnnounceMessage >>) /\ UNCHANGED <<phase, misled>>

\* handleUserAuthorizeResponse; a refused user is asked for a login again.
ReadResponse(c) ==
    /\ phase[c] = "asked"
    /\ \E code \in Codes :
        /\ Reads(c, << Response(code) >>)
        /\ phase' = [phase EXCEPT ![c] = IF Accepted(code) THEN "authorized" ELSE "login"]
    /\ UNCHANGED misled

\* What read_until returns behind an announcement may end within the response: decode fails
\* and yields code 0, a success; the rest of the response, in the next read, has no id of a
\* packet.
ReadCutResponse(c) ==
    /\ phase[c] = "asked"
    /\ \E code \in Codes :
        /\ Reads(c, << AnnounceMessage, Response(code) >>)
        /\ misled' = IF code = AUTHORIZE_SUCCESS THEN misled ELSE misled \cup {c}
    /\ phase' = [phase EXCEPT ![c] = "authorized"]

\* disconnect, or the end of the process: the socket closes.
Disconnect(c) ==
    /\ phase[c] \notin {"off", "gone"}
    /\ phase' = [phase EXCEPT ![c] = "gone"]
    /\ inbox' = [inbox EXCEPT ![c] = Append(@, EndOfFile)]
    /\ UNCHANGED <<accountVars, sessions, closing, backlog, creds, sent, misled, announceVars, up>>

\* TCP resets a connection that was closed before everything was read from it: what the
\* server has not received yet is lost.
Reset(c) ==
    /\ up
    /\ phase[c] = "gone"
    /\ outbox[c] # << >> \/ notices[c] # {}
    /\ Len(inbox[c]) > 1
    /\ inbox' = [inbox EXCEPT ![c] = << EndOfFile >>]
    /\ UNCHANGED <<accountVars, sessions, closing, backlog, clientVars, announceVars, up>>

-----------------------------------------------------------------------------
(* The io_service thread *)

IoIdle == up /\ closing = Nobody

\* The map after an insertion: the new element anywhere in the walk, and every element
\* anywhere when the table was full and is rehashed.
Inserted(c) ==
    IF Len(sessions) = Buckets
    THEN SetToSeqs(Range(sessions) \cup {c})
    ELSE {InsertAt(sessions, i, c) : i \in 1..(Len(sessions) + 1)}

HandleAccept(c) ==
    /\ IoIdle
    /\ c \in backlog
    /\ Len(sessions) < MaxOpen
    /\ sessions' \in Inserted(c)
    /\ backlog' = backlog \ {c}
    /\ UNCHANGED <<accountVars, closing, inbox, clientVars, announceVars, up>>

\* accept fails when no socket can be opened: setAddress, called before the error is
\* looked at, throws out of io_service->run() and the process exits.
HandleAcceptError(c) ==
    /\ IoIdle
    /\ c \in backlog
    /\ Len(sessions) >= MaxOpen
    /\ up' = FALSE
    /\ UNCHANGED <<accountVars, sessions, closing, backlog, inbox, clientVars, announceVars>>

\* processRead: the next packet of a session.
Read(c, kind) ==
    /\ IoIdle
    /\ c \in Range(sessions)
    /\ inbox[c] # << >>
    /\ Head(inbox[c]).kind = kind
    /\ inbox' = [inbox EXCEPT ![c] = Tail(@)]
    /\ UNCHANGED <<sessions, backlog, clientVars, announceVars, up>>

\* Mutant: the branch of a login in use returns without an answer.
RespondIfFree(c, code) ==
    outbox' = IF code = AUTHORIZE_ALREADY_AUTHORIZED
              THEN outbox ELSE [outbox EXCEPT ![c] = Append(@, Response(code))]
Respond(c, code) == outbox' = [outbox EXCEPT ![c] = Append(@, Response(code))]

\* User::hasSession and User::comparePassword.
HasSession(l) == users[l].session # Nobody
\* Mutant: any password will do.
ComparePasswordAlways(l, p) == TRUE
ComparePassword(l, p) == users[l].pswd = p

\* The answer to an authorization request.
Code(l, p) ==
    IF l = EmptyLogin THEN AUTHORIZE_ALREADY_AUTHORIZED
    ELSE IF l \in DOMAIN users /\ HasSession(l) THEN AUTHORIZE_ALREADY_AUTHORIZED
    ELSE IF l \in DOMAIN users /\ ~ComparePassword(l, p) THEN AUTHORIZE_WRONG_PASSWORD
    ELSE AUTHORIZE_SUCCESS

\* Server::addUser when the login is new, then User::setSession.
Bound(l, p, c) ==
    [k \in DOMAIN users \cup {l} |->
        IF k # l THEN users[k]
        ELSE [pswd |-> IF l \in DOMAIN users THEN users[l].pswd ELSE p, session |-> c]]

\* A success binds the session and the user.
HandleUserAuthorize(c) ==
    /\ Read(c, "USER_AUTHORIZE")
    /\ LET l == Head(inbox[c]).login
           p == Head(inbox[c]).pswd
           code == Code(l, p)
       IN  /\ Respond(c, code)
           /\ IF code = AUTHORIZE_SUCCESS
              THEN /\ users' = Bound(l, p, c)
                   /\ user' = [user EXCEPT ![c] = l]
              ELSE UNCHANGED <<users, user>>
    /\ UNCHANGED <<notices, posted, closing>>

\* User::addRub and addUsd of the parties of a trade: each is told through their own
\* session, if they have one.
\* Mutant: the messages about both parties go to the one who sent the request.
ToldBySender(c, parties) == [notices EXCEPT ![c] = @ \cup parties]
Told(c, parties) ==
    [s \in Clients |-> notices[s] \cup {l \in parties : users[l].session = s}]

\* The request trades with the waiting requests of some others, and what is left of it
\* waits.  Which ones is for Market to say.
HandleUserTransactionRequest(c) ==
    /\ Read(c, "USER_TRANSACTION_REQUEST")
    /\ user[c] # Nobody
    /\ \E others \in SUBSET (posted \ {user[c]}) :
        /\ notices' = IF others = {} THEN notices ELSE Told(c, others \cup {user[c]})
        /\ \/ posted' = (posted \ others) \cup {user[c]}
           \/ others # {} /\ \E done \in SUBSET others : posted' = posted \ done
    /\ UNCHANGED <<users, user, outbox, closing>>

\* "if(user == nullptr) break;"
IgnoreRequest(c) ==
    /\ Read(c, "USER_TRANSACTION_REQUEST")
    /\ user[c] = Nobody
    /\ UNCHANGED <<accountVars, closing>>

\* Session::close, called by closeSession: the user is free to log in again.
\* Mutant: the user keeps the session.
ReleasedNever(c) == users
Released(c) == IF user[c] = Nobody THEN users ELSE [users EXCEPT ![user[c]].session = Nobody]
CloseSession(c) ==
    /\ Read(c, "EOF")
    /\ users' = Released(c)
    /\ user' = [user EXCEPT ![c] = Nobody]
    /\ closing' = c
    /\ UNCHANGED <<outbox, notices, posted>>

\* Where a session is in the walk through the map.
Position(c) == CHOOSE j \in DOMAIN sessions : sessions[j] = c

\* The rest of closeSession: the session is deleted and erased from the map.
EraseSession ==
    /\ up
    /\ closing # Nobody
    /\ sessions' = RemoveAt(sessions, Position(closing))
    /\ closing' = Nobody
    /\ UNCHANGED <<accountVars, backlog, inbox, clientVars, announceVars, up>>

-----------------------------------------------------------------------------
(* The console thread: broadcastPacket *)

Announce ==
    /\ up
    /\ iterator = Nobody
    /\ announced < MaxAnnounces
    /\ announced' = announced + 1
    /\ sessions # << >>
    /\ iterator' = Head(sessions)
    /\ audience' = Open
    /\ reached' = {}
    /\ UNCHANGED <<accountVars, sessions, closing, backlog, inbox, clientVars, up>>

\* The next element of the walk; Nobody for end().
Following(c) ==
    IF Position(c) = Len(sessions) THEN Nobody ELSE sessions[Position(c) + 1]

BroadcastNext ==
    /\ up
    /\ iterator \in Open
    /\ outbox' = [outbox EXCEPT ![iterator] = Append(@, AnnounceMessage)]
    /\ reached' = reached \cup {iterator}
    /\ iterator' = Following(iterator)
    /\ UNCHANGED <<users, user, notices, posted, sessions, closing, backlog, inbox, clientVars,
                   audience, announced, up>>

\* The session was closed or deleted under the walk: a freed socket is written to, or a
\* freed element is read.  The process crashes, or the walk ends at once.
BroadcastFreed ==
    /\ up
    /\ iterator # Nobody
    /\ iterator \notin Open
    /\ iterator' = Nobody
    /\ up' \in BOOLEAN
    /\ UNCHANGED <<accountVars, sessions, closing, backlog, inbox, clientVars, audience, reached, announced>>

-----------------------------------------------------------------------------
ClientRead(c) == ReadAnnounceMessage(c) \/ ReadResponse(c) \/ ReadCutResponse(c)

ClientNext ==
    \E c \in Clients :
        \/ Connect(c)
        \/ \E l \in Logins \cup {EmptyLogin}, p \in Passwords : SendUserAuthorize(c, l, p)
        \/ SendUserTransactionRequest(c)
        \/ ClientRead(c)
        \/ Disconnect(c)
        \/ Reset(c)

ProcessRead(c) ==
    \/ HandleUserAuthorize(c)
    \/ HandleUserTransactionRequest(c)
    \/ IgnoreRequest(c)
    \/ CloseSession(c)

AcceptNext(c) == HandleAccept(c) \/ HandleAcceptError(c)

Broadcast == BroadcastNext \/ BroadcastFreed

Next ==
    \/ ClientNext
    \/ \E c \in Clients : AcceptNext(c) \/ ProcessRead(c)
    \/ EraseSession
    \/ Announce
    \/ Broadcast

Spec == Init /\ [][Next]_vars

\* The io_service runs every ready handler; a listening client reads what it is sent;
\* a test client closes its connection when the test is over.
Fairness ==
    /\ \A c \in Clients : WF_vars(AcceptNext(c)) /\ WF_vars(ProcessRead(c)) /\ WF_vars(ClientRead(c))
    /\ \A c \in TestClients : WF_vars(Disconnect(c))
    /\ WF_vars(EraseSession)
    /\ WF_vars(Broadcast)
FairSpec == Spec /\ Fairness

-----------------------------------------------------------------------------
(* Properties *)

\* A user's session and a session's user point at each other, and only at what is not
\* closed: a trade of a user who left never writes through a deleted session.
SessionsAgree ==
    /\ \A l \in DOMAIN users : users[l].session # Nobody =>
        users[l].session \in Open /\ user[users[l].session] = l
    /\ \A c \in Clients : user[c] # Nobody =>
        user[c] \in DOMAIN users /\ users[user[c]].session = c

\* A session acts for a user only after its client sent that user's login and password,
\* whoever else came, failed or left in between.
AuthorizedByPassword ==
    \A c \in Clients : user[c] # Nobody =>
        creds[c] = [login |-> user[c], pswd |-> users[user[c]].pswd]

\* What a client believes is what the server believes: an authorized client is bound to the
\* login it asked for, a client that may still log in is bound to none.  The one exception
\* (client.cpp:129-134 with packets.hpp:105-114): who read a refusal cut behind an
\* announcement takes itself for authorized, and the server has bound it to nobody.
BeliefsAgree ==
    \A c \in Clients :
        /\ phase[c] = "authorized" /\ up =>
            user[c] = IF c \in misled THEN Nobody ELSE creds[c].login
        /\ phase[c] = "login" => user[c] = Nobody

\* A message about a user's trade reaches nobody but a client that knew their password.
NoticesReachTheirUser ==
    \A c \in Clients : \A l \in notices[c] : creds[c] = [login |-> l, pswd |-> users[l].pswd]

\* A listening client that asks is answered, unless it leaves or the server is gone.
Answered ==
    \A c \in Clients \ TestClients : phase[c] = "asked" ~> phase[c] # "asked" \/ ~up

\* When a client is gone its user can log in again.
Holds(c, l) == l \in DOMAIN users /\ users[l].session = c
SeatFreed ==
    \A c \in Clients : \A l \in Logins : phase[c] = "gone" /\ Holds(c, l) ~> ~Holds(c, l) \/ ~up

\* README.md:21: "announce <message> sends a message to all connected users."  When the
\* command is over it has reached every session that was open all the time it took.
AnnounceReachesAll ==
    [][iterator # Nobody /\ iterator' = Nobody => audience \cap Open \subseteq reached']_vars
=============================================================================
