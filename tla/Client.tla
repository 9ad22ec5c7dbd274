------------------------------- MODULE Client -------------------------------
(***************************************************************************)
(* The client program: main types logins and walks through the menu, the   *)
(* reader takes what the server sends, and either of them may find the     *)
(* connection lost and disconnect.  They share plain fields: disconnected, *)
(* authorized, authorize_code, the balance.                                *)
(*                                                                         *)
(* disconnect throws where a reader listens, to get the program out of     *)
(* std::cin: out of the reader the exception ends the process, out of main *)
(* it is caught and main returns.  To use the deleted socket is undefined: *)
(* the process dies or goes on.                                            *)
(***************************************************************************)
EXTENDS Integers, Sequences, FiniteSets

CONSTANTS
    MaxSends,   \* bound: packets main sends
    TestSends   \* packets the clients of a test send

ASSUME ClientAssumption ==
    /\ MaxSends \in Nat
    /\ TestSends \in Nat \ {0}

VARIABLES
    main,          \* where main is
    stage,         \* the menu it shows
    back,          \* where it goes on after sendPacket
    reader,        \* where the reader is
    counted,       \* addToQueue has added the weight of the reader
    disconnected,  \* Client::disconnected
    socket,        \* "none", "open", "shut" or "deleted"
    authorized, authorize_code,
    rub, usd,      \* the fields of the balance: of which answer they are
    shown,         \* what main has shown of them
    requests,      \* what the server has yet to answer
    answers,       \* what the reader has yet to read
    balances,      \* balances the server has sent
    sends,         \* packets main has sent
    attempts,      \* logins among them
    refusals,      \* refusals the reader has read
    gone,          \* the connection is lost
    early,         \* it was lost before the reader's weight was counted
    left,          \* the user has chosen Exit, or typed a login that cannot be sent
    test,          \* the clients of a test: packets still to send, whether one has deleted its socket
    faults,        \* who used a deleted socket
    process        \* "running" or "over"

fieldVars == <<authorized, authorize_code, rub, usd>>
serverVars == <<requests, answers, balances>>
countVars == <<sends, attempts, refusals>>
menuVars == <<stage, shown, left, test>>
vars == <<main, menuVars, back, reader, counted, disconnected, socket, fieldVars, serverVars,
          countVars, gone, early, faults, process>>

Verdict(k) == [kind |-> k, balance |-> 0]
Balance(n) == [kind |-> "balance", balance |-> n]
NoTest == [sends |-> 0, deleted |-> FALSE]

Init ==
    /\ main = "construct" /\ stage = "menu" /\ back = "asked"
    /\ reader = "none"
    /\ counted = FALSE
    /\ disconnected = FALSE
    /\ socket = "none"
    /\ authorized = FALSE /\ authorize_code = -1
    /\ rub = 0 /\ usd = 0
    /\ shown = [rub |-> 0, usd |-> 0, whole |-> TRUE]
    /\ requests = <<>> /\ answers = <<>> /\ balances = 0
    /\ sends = 0 /\ attempts = 0 /\ refusals = 0
    /\ gone = FALSE /\ early = FALSE /\ left = FALSE
    /\ test = NoTest
    /\ faults = {}
    /\ process = "running"

Running == process = "running"

\* Using the socket.
Touch(thread) ==
    IF socket # "deleted"
    THEN UNCHANGED <<faults, process>>
    ELSE faults' = faults \cup {thread} /\ process' \in {"running", "over"}

-----------------------------------------------------------------------------
(* The constructor *)

\* connect; when it fails, main deletes a pointer that was never set, and returns.
Connect ==
    /\ Running
    /\ main = "construct"
    /\ IF gone
       THEN faults' = faults \cup {"wild"} /\ process' = "over" /\ UNCHANGED <<main, reader, socket>>
       ELSE main' = "count" /\ reader' = "top" /\ socket' = "open" /\ UNCHANGED <<faults, process>>
    /\ UNCHANGED <<menuVars, back, counted, disconnected, fieldVars, serverVars, countVars, gone, early>>

\* The job runs since it was pushed; now its weight is added.
CountWeight ==
    /\ Running
    /\ main = "count"
    /\ counted' = TRUE
    /\ main' = "login"
    /\ UNCHANGED <<menuVars, back, reader, disconnected, socket, fieldVars, serverVars, countVars, gone, early, faults, process>>

-----------------------------------------------------------------------------
(* main: sendPacket, the login loop and the menu *)

\* A write to a connection that is shut fails; if the server is gone it may.
\* Mutant: sendPacket disconnects without looking at the error.
FailsAlways == TRUE
Fails == gone \/ socket # "open"
Send(request, after) ==
    /\ sends < MaxSends
    /\ sends' = sends + 1
    /\ Touch("main")
    /\ back' = after
    /\ \/ main' = "disconnect" /\ Fails /\ UNCHANGED requests
       \/ main' = after /\ socket = "open" /\ requests' = Append(requests, request)

SendUserAuthorizeRequest ==
    /\ Running
    /\ main = "login"
    /\ Send("login", "asked")
    /\ attempts' = attempts + 1
    /\ UNCHANGED <<menuVars, reader, counted, disconnected, socket, fieldVars, answers, balances, refusals, gone, early>>

\* json refuses a login that is not UTF-8, before anything is sent; main catches that.
EncodeThrows ==
    /\ Running
    /\ main = "login"
    /\ left' = TRUE
    /\ main' = "caught"
    /\ UNCHANGED <<stage, shown, test, back, reader, counted, disconnected, socket, fieldVars, serverVars, countVars, gone, early, faults, process>>

\* The spin after a login.
\* Mutant: the code of the last answer stays.
ResetNot == authorize_code
Reset == -1
Authorized ==
    /\ Running
    /\ main = "asked"
    /\ \/ authorized /\ main' = "loop" /\ UNCHANGED authorize_code
       \/ ~authorized /\ authorize_code > 0 /\ main' = "login" /\ authorize_code' = Reset
    /\ UNCHANGED <<menuVars, back, reader, counted, disconnected, socket, authorized, rub, usd, serverVars, countVars, gone, early, faults, process>>

\* Every turn of the loop asks for the balance.
SendCheckBalanceRequest ==
    /\ Running
    /\ main = "loop" /\ ~disconnected
    /\ Send("balance", "prompt")
    /\ UNCHANGED <<menuVars, reader, counted, disconnected, socket, fieldVars, answers, balances, attempts, refusals, gone, early>>

\* main deletes the client, whose destructor disconnects first.
DeleteClient ==
    /\ Running
    /\ main = "caught" /\ ~disconnected
    /\ main' = "disconnect" /\ back' = "caught"
    /\ UNCHANGED <<menuVars, reader, counted, disconnected, socket, fieldVars, serverVars, countVars, gone, early, faults, process>>

\* The loop ends; main deletes the client and returns.
LeaveLoop ==
    /\ Running
    /\ main \in {"loop", "caught"} /\ disconnected
    /\ process' = "over"
    /\ UNCHANGED <<main, menuVars, back, reader, counted, disconnected, socket, fieldVars, serverVars, countVars, gone, early, faults>>

\* What is typed after the connection was lost is not looked at.
Prompt == Running /\ main = "prompt"
PromptAfterLoss ==
    /\ Prompt /\ disconnected
    /\ main' = "loop"
    /\ UNCHANGED <<menuVars, back, reader, counted, disconnected, socket, fieldVars, serverVars, countVars, gone, early, faults, process>>

\* From one menu to another, or something unknown, or an amount that is not positive.
ChooseStage ==
    /\ Prompt /\ ~disconnected
    /\ stage' \in IF stage = "menu" THEN {"menu", "tests", "trade"} ELSE {stage, "menu"}
    /\ main' = "loop"
    /\ UNCHANGED <<shown, left, test, back, reader, counted, disconnected, socket, fieldVars, serverVars, countVars, gone, early, faults, process>>

\* The balance is printed field by field.
ShowRub ==
    /\ Prompt /\ ~disconnected /\ stage = "menu"
    /\ shown' = [rub |-> rub, usd |-> 0, whole |-> FALSE]
    /\ main' = "show"
    /\ UNCHANGED <<stage, left, test, back, reader, counted, disconnected, socket, fieldVars, serverVars, countVars, gone, early, faults, process>>

ShowUsd ==
    /\ Running
    /\ main = "show"
    /\ shown' = [shown EXCEPT !.usd = usd, !.whole = TRUE]
    /\ main' = "loop"
    /\ UNCHANGED <<stage, left, test, back, reader, counted, disconnected, socket, fieldVars, serverVars, countVars, gone, early, faults, process>>

ChooseExit ==
    /\ Prompt /\ ~disconnected /\ stage = "menu"
    /\ left' = TRUE
    /\ main' = "disconnect" /\ back' = "loop"
    /\ UNCHANGED <<stage, shown, test, reader, counted, disconnected, socket, fieldVars, serverVars, countVars, gone, early, faults, process>>

\* A message to the server, or a request to trade.
SendFromMenu ==
    /\ Prompt /\ ~disconnected /\ stage \in {"tests", "trade"}
    /\ Send(IF stage = "tests" THEN "message" ELSE "trade", "loop")
    /\ UNCHANGED <<menuVars, reader, counted, disconnected, socket, fieldVars, answers, balances, attempts, refusals, gone, early>>

\* The clients of a test have no reader and disconnect without an exception of their own; the
\* next packet goes to the socket that they have deleted.  If they cannot connect, the test is
\* over.
BeginTest ==
    /\ Prompt /\ ~disconnected /\ stage = "tests"
    /\ IF gone
       THEN main' = "loop" /\ UNCHANGED test
       ELSE main' = "test" /\ test' = [sends |-> TestSends, deleted |-> FALSE]
    /\ UNCHANGED <<stage, shown, left, back, reader, counted, disconnected, socket, fieldVars, serverVars, countVars, gone, early, faults, process>>

\* Without a server the packet is lost, or its client disconnects, or shutdown throws while it
\* does (or connect, in the next constructor), which ends the test.
TestSend ==
    /\ Running
    /\ main = "test" /\ test.sends > 0
    /\ IF test.deleted
       THEN faults' = faults \cup {"test"} /\ process' \in {"running", "over"}
       ELSE UNCHANGED <<faults, process>>
    /\ \/ test' = [test EXCEPT !.sends = @ - 1]
       \/ gone /\ test' = [sends |-> test.sends - 1, deleted |-> TRUE]
       \/ gone /\ test' = [test EXCEPT !.sends = 0]
    /\ UNCHANGED <<main, stage, shown, left, back, reader, counted, disconnected, socket, fieldVars, serverVars, countVars, gone, early>>

\* The destructors disconnect those that have not; what shutdown throws there is the end.
EndTest ==
    /\ Running
    /\ main = "test" /\ test.sends = 0
    /\ main' = "loop"
    /\ test' = NoTest
    /\ process' \in IF gone THEN {"running", "over"} ELSE {"running"}
    /\ UNCHANGED <<stage, shown, left, back, reader, counted, disconnected, socket, fieldVars, serverVars, countVars, gone, early, faults>>

-----------------------------------------------------------------------------
(* disconnect, from main or from the reader *)

Go(thread, from, to) ==
    IF thread = "main" THEN main = from /\ main' = to /\ UNCHANGED reader
    ELSE reader = from /\ reader' = to /\ UNCHANGED main

\* The field is looked at here and set in the next step.
EnterDisconnect(thread) ==
    /\ Running
    /\ Go(thread, "disconnect",
          IF ~disconnected THEN "mark" ELSE IF thread = "main" THEN back ELSE "ended")
    /\ UNCHANGED <<menuVars, back, counted, disconnected, socket, fieldVars, serverVars, countVars, gone, early, faults, process>>

MarkDisconnected(thread) ==
    /\ Running
    /\ Go(thread, "mark", "wait")
    /\ disconnected' = TRUE
    /\ UNCHANGED <<menuVars, back, counted, socket, fieldVars, serverVars, countVars, gone, early, faults, process>>

\* ThreadPool::wait passes over a thread of negative weight; otherwise it spins until its
\* queue is empty, and the reader is the queue's own job.
\* Mutant: wait does not look at the weight.
PassesNot == FALSE
Passes == counted
Wait(thread) ==
    /\ Running
    /\ Go(thread, "wait",
          IF Passes \/ (thread = "main" /\ reader = "ended") THEN "close"
          ELSE IF thread = "reader" THEN "stuck" ELSE "wait")
    /\ UNCHANGED <<menuVars, back, counted, disconnected, socket, fieldVars, serverVars, countVars, gone, early, faults, process>>

\* cancel, shutdown, close; shutdown throws when the server is no longer connected.
CloseSocket(thread) ==
    /\ Running
    /\ Touch(thread)
    /\ \/ Go(thread, "close", "delete") /\ socket' = IF socket = "open" THEN "shut" ELSE socket
       \/ gone /\ Go(thread, "close", "throw") /\ UNCHANGED socket
    /\ UNCHANGED <<menuVars, back, counted, disconnected, fieldVars, serverVars, countVars, gone, early>>

DeleteSocket(thread) ==
    /\ Running
    /\ Touch(thread)
    /\ Go(thread, "delete", "throw")
    /\ socket' = "deleted"
    /\ UNCHANGED <<menuVars, back, counted, disconnected, fieldVars, serverVars, countVars, gone, early>>

\* Nobody catches what the reader throws, or a destructor.
\* Mutant: the reader returns from disconnect like a client that does not listen.
ThrownQuietly(thread) == IF thread = "main" THEN "running" ELSE "running"
Thrown(thread) == IF thread = "main" /\ back # "caught" THEN "running" ELSE "over"
Throw(thread) ==
    /\ Running
    /\ Go(thread, "throw", IF thread = "main" THEN "caught" ELSE "ended")
    /\ process' = Thrown(thread)
    /\ UNCHANGED <<menuVars, back, counted, disconnected, socket, fieldVars, serverVars, countVars, gone, early, faults>>

-----------------------------------------------------------------------------
(* The reader *)

ReaderLooks ==
    /\ Running
    /\ reader = "top"
    /\ reader' = IF disconnected THEN "ended" ELSE "read"
    /\ UNCHANGED <<main, menuVars, back, counted, disconnected, socket, fieldVars, serverVars, countVars, gone, early, faults, process>>

ReadError ==
    /\ Running
    /\ reader = "read"
    /\ gone \/ socket # "open"
    /\ Touch("reader")
    /\ reader' = "disconnect"
    /\ UNCHANGED <<main, menuVars, back, counted, disconnected, socket, fieldVars, serverVars, countVars, gone, early>>

\* Codes 1 and 2 are refusals; 1 stands for both.
\* Mutant: a refusal has code 0.
RefusalZero == 0
Refusal == 1
Accepted(answer) == answer.kind = "success"

Unread == Tail(answers)

HandleUserAuthorizeResponse ==
    /\ Running
    /\ reader = "read" /\ socket = "open"
    /\ answers # <<>> /\ Head(answers).kind # "balance"
    /\ authorized' = (authorized \/ Accepted(Head(answers)))
    /\ authorize_code' = IF Accepted(Head(answers)) THEN 0 ELSE Refusal
    /\ refusals' = IF Head(answers).kind = "refused" THEN refusals + 1 ELSE refusals
    /\ answers' = Unread
    /\ reader' = "top"
    /\ UNCHANGED <<main, menuVars, back, counted, disconnected, socket, rub, usd, requests, balances, sends, attempts, gone, early, faults, process>>

\* The fields of the balance are assigned one after the other.
HandleCheckBalanceResponse ==
    /\ Running
    /\ reader = "read" /\ socket = "open"
    /\ answers # <<>> /\ Head(answers).kind = "balance"
    /\ rub' = Head(answers).balance
    /\ reader' = "assign"
    /\ UNCHANGED <<main, menuVars, back, counted, disconnected, socket, authorized, authorize_code, usd, serverVars, countVars, gone, early, faults, process>>

\* Mutant: the second field is left as it was.
UsdKept == usd
Usd == Head(answers).balance
AssignUsd ==
    /\ Running
    /\ reader = "assign"
    /\ usd' = Usd
    /\ answers' = Unread
    /\ reader' = "top"
    /\ UNCHANGED <<main, menuVars, back, counted, disconnected, socket, authorized, authorize_code, rub, requests, balances, countVars, gone, early, faults, process>>

-----------------------------------------------------------------------------
(* The server, as far as the client can tell *)

Answer ==
    /\ Running
    /\ ~gone
    /\ requests # <<>>
    /\ requests' = Tail(requests)
    /\ \/ /\ Head(requests) = "login"
          /\ \E k \in {"success", "refused"} : answers' = Append(answers, Verdict(k))
          /\ UNCHANGED balances
       \/ /\ Head(requests) = "balance"
          /\ answers' = Append(answers, Balance(balances + 1))
          /\ balances' = balances + 1
       \/ Head(requests) \in {"message", "trade"} /\ UNCHANGED <<answers, balances>>
    /\ UNCHANGED <<main, menuVars, back, reader, counted, disconnected, socket, fieldVars, countVars, gone, early, faults, process>>

Lose ==
    /\ Running
    /\ ~gone
    /\ gone' = TRUE
    /\ early' = ~counted
    /\ UNCHANGED <<main, menuVars, back, reader, counted, disconnected, socket, fieldVars, serverVars, countVars, faults, process>>

-----------------------------------------------------------------------------
Typed ==
    \/ SendUserAuthorizeRequest \/ EncodeThrows \/ PromptAfterLoss \/ ChooseStage \/ ShowRub
    \/ ChooseExit \/ SendFromMenu \/ BeginTest

MainNext ==
    \/ Connect \/ CountWeight \/ Authorized \/ SendCheckBalanceRequest \/ DeleteClient
    \/ LeaveLoop
    \/ ShowUsd \/ TestSend \/ EndTest

Disconnect(thread) ==
    \/ EnterDisconnect(thread) \/ MarkDisconnected(thread) \/ Wait(thread)
    \/ CloseSocket(thread) \/ DeleteSocket(thread) \/ Throw(thread)

ReaderNext ==
    \/ ReaderLooks \/ ReadError \/ HandleUserAuthorizeResponse
    \/ HandleCheckBalanceResponse \/ AssignUsd

Next ==
    \/ Typed \/ MainNext \/ ReaderNext
    \/ \E thread \in {"main", "reader"} : Disconnect(thread)
    \/ Answer \/ Lose

Spec == Init /\ [][Next]_vars

\* Threads and server go on; nobody has to type anything, and nothing has to be lost.
FairSpec ==
    /\ Spec
    /\ WF_vars(MainNext) /\ WF_vars(Disconnect("main"))
    /\ WF_vars(ReaderNext \/ Disconnect("reader"))
    /\ WF_vars(Answer)

-----------------------------------------------------------------------------
(* Properties *)

\* The user is asked for a login once, and once more for each refusal: no answer is taken
\* twice or missed, although two threads write authorize_code.
PromptsMatch == main = "login" => attempts = refusals

\* While the connection stands and the user has not left, no socket is used after its end.
SocketOutlivesUse == faults # {} => gone \/ left

\* client.cpp:53-54: "hack: break free from std::cin lock".  When the connection is lost the
\* client comes to its end, whatever main is waiting for and whichever thread notices, unless
\* the reader spins in wait for itself.  It does so only when the connection is lost as good
\* as at once.
LossEnds == (gone /\ Running) ~> (~Running \/ (reader = "stuck" /\ early))

\* A user who chooses Exit gets out, and so does one whose login cannot be sent.
ExitEnds == left ~> ~Running

\* Who has sent a login does not spin for ever.
LoginAnswered == (main = "asked") ~> (main # "asked" \/ ~Running \/ (reader = "stuck" /\ early))

\* README.md:27: "check your balance".  RUB and USD that are shown may be of two answers, but
\* the USD are never more than one answer older than the RUB.
ShownTogether == shown.whole => shown.rub <= shown.usd + 1
=============================================================================
