---------------------------- MODULE ClientProofs ----------------------------
(***************************************************************************)
(* Theorems about Client, for every number of packets that main and the    *)
(* clients of a test send.                                                 *)
(***************************************************************************)
EXTENDS Client, SequenceTheorems, TLAPS

-----------------------------------------------------------------------------
(* Types *)

Leaving == {"disconnect", "mark", "wait", "close", "delete", "throw"}
Mains == {"construct", "count", "login", "asked", "loop", "prompt", "show", "test", "caught"} \cup Leaving
Readers == {"none", "top", "read", "assign", "stuck", "ended"} \cup Leaving
Requests == {"login", "balance", "message", "trade"}
Answers == [kind : {"success", "refused", "balance"}, balance : Nat]

\* Where the threads are, and what they share about the connection.
PlacesOK ==
    /\ main \in Mains
    /\ stage \in {"menu", "tests", "trade"}
    /\ back \in {"asked", "prompt", "loop", "caught"}
    /\ reader \in Readers
    /\ counted \in BOOLEAN
    /\ disconnected \in BOOLEAN
    /\ socket \in {"none", "open", "shut", "deleted"}
    /\ gone \in BOOLEAN /\ early \in BOOLEAN /\ left \in BOOLEAN
    /\ test \in [sends : Nat, deleted : BOOLEAN]
    /\ faults \subseteq {"main", "reader", "test", "wild"}
    /\ process \in {"running", "over"}

\* What is asked, answered, kept and shown.  The answer that the reader is taking apart is
\* the first of those it has to read.
FieldsOK ==
    /\ authorized \in BOOLEAN
    /\ authorize_code \in -1..1
    /\ rub \in Nat /\ usd \in Nat
    /\ shown \in [rub : Nat, usd : Nat, whole : BOOLEAN]
    /\ requests \in Seq(Requests)
    /\ answers \in Seq(Answers)
    /\ balances \in Nat
    /\ sends \in Nat /\ attempts \in Nat /\ refusals \in Nat
    /\ reader = "assign" => answers # <<>> /\ Head(answers).kind = "balance"

TypeInv == PlacesOK /\ FieldsOK

-----------------------------------------------------------------------------
(* Invariants *)

\* While the connection stands and the user has not left, nobody is in disconnect, main has
\* caught nothing and the socket is open.
SocketInv ==
    /\ main \in Leaving \cup {"caught"} \/ reader \in Leaving \/ socket \in {"shut", "deleted"} \/ test.deleted
            \/ faults # {}
        => gone \/ left
    /\ main # "construct" => socket # "none"
    /\ reader # "none" => main # "construct"

NothingPending == requests = <<>> /\ answers = <<>>
Verdicts == {Verdict("success"), Verdict("refused")}

\* Before the client is authorized one login at most is on its way, as a request, as an
\* answer, or as the code of the answer.
OneLogin ==
    \/ /\ ~authorized
       /\ authorize_code = -1
       /\ attempts = refusals + 1
       /\ \/ NothingPending
          \/ requests = <<"login">> /\ answers = <<>>
          \/ requests = <<>> /\ \E v \in Verdicts : answers = <<v>>
       /\ main # "login"
    \/ /\ ~authorized
       /\ authorize_code \in {-1, 1}
       /\ attempts = refusals
       /\ NothingPending
       /\ main = "login" => authorize_code = -1
    \/ /\ authorized
       /\ main # "login"
       /\ \A i \in DOMAIN requests : requests[i] # "login"
       /\ \A i \in DOMAIN answers : answers[i].kind = "balance"

\* What comes before a login and what comes after.
LoginInv ==
    /\ OneLogin
    /\ main \in {"construct", "count"} =>
        ~authorized /\ authorize_code = -1 /\ attempts = refusals /\ NothingPending
    /\ main \in {"loop", "prompt", "show", "test"} \/ back \in {"prompt", "loop"} => authorized

\* The answers about the balance are read in the order of their numbers.
Numbered ==
    /\ balances = usd + (IF authorized THEN Len(answers) ELSE 0)
    /\ \A i \in DOMAIN answers : answers[i].kind = "balance" => answers[i].balance = usd + i
    /\ rub = IF reader = "assign" THEN usd + 1 ELSE usd
    /\ shown.rub <= usd + 1
    /\ ShownTogether

-----------------------------------------------------------------------------
(* Type correctness *)

\* Whoever uses the socket is recorded at most.
LEMMA TouchType ==
    ASSUME PlacesOK, NEW thread \in {"main", "reader"}, Touch(thread)
    PROVE  faults' \subseteq {"main", "reader", "test", "wild"} /\ process' \in {"running", "over"}
BY DEF PlacesOK, Touch

\* Every step leaves both threads at a place of the program.
LEMMA PlacesNext == PlacesOK /\ [Next]_vars => PlacesOK'
<1> SUFFICES ASSUME PlacesOK, [Next]_vars
             PROVE  PlacesOK'
  OBVIOUS
<1> USE ClientAssumption DEF PlacesOK, Mains, Readers, Leaving, Go, Running, Prompt, NoTest,
        menuVars, fieldVars, serverVars, countVars
<1>1. CASE Connect
  <2>1. faults' \subseteq {"main", "reader", "test", "wild"} /\ process' \in {"running", "over"}
    BY <1>1 DEF Connect
  <2> QED BY <1>1, <2>1 DEF Connect
<1>2. CASE CountWeight
  BY <1>2 DEF CountWeight
<1>3. CASE SendUserAuthorizeRequest
  <2>1. Touch("main")
    BY <1>3 DEF SendUserAuthorizeRequest, Send
  <2> QED BY <1>3, <2>1, TouchType DEF SendUserAuthorizeRequest, Send
<1>4. CASE Authorized
  BY <1>4 DEF Authorized, Reset
<1>5. CASE SendCheckBalanceRequest
  <2>1. Touch("main")
    BY <1>5 DEF SendCheckBalanceRequest, Send
  <2> QED BY <1>5, <2>1, TouchType DEF SendCheckBalanceRequest, Send
<1>6. CASE LeaveLoop
  BY <1>6 DEF LeaveLoop
<1>7. CASE PromptAfterLoss
  BY <1>7 DEF PromptAfterLoss
<1>8. CASE ChooseStage
  BY <1>8 DEF ChooseStage
<1>9. CASE ShowRub
  BY <1>9 DEF ShowRub
<1>10. CASE ShowUsd
  BY <1>10 DEF ShowUsd
<1>11. CASE ChooseExit
  BY <1>11 DEF ChooseExit
<1>12. CASE SendFromMenu
  <2>1. Touch("main")
    BY <1>12 DEF SendFromMenu, Send
  <2> QED BY <1>12, <2>1, TouchType DEF SendFromMenu, Send
<1>13. CASE BeginTest
  <2>1. test' \in [sends : Nat, deleted : BOOLEAN]
    <3>1. CASE gone
      BY <1>13, <3>1 DEF BeginTest
    <3>2. CASE ~gone
      <4>1. TestSends \in Nat
        BY ClientAssumption
      <4>2. test' = [sends |-> TestSends, deleted |-> FALSE]
        BY <1>13, <3>2 DEF BeginTest
      <4> QED BY <4>1, <4>2
    <3> QED BY <3>1, <3>2
  <2> QED BY <1>13, <2>1 DEF BeginTest
<1>14. CASE TestSend
  <2>1. test.sends - 1 \in Nat
    BY <1>14 DEF TestSend
  <2>2. 0 \in Nat /\ TRUE \in BOOLEAN
    OBVIOUS
  <2>3. \/ test' = [test EXCEPT !.sends = @ - 1]
        \/ test' = [sends |-> test.sends - 1, deleted |-> TRUE]
        \/ test' = [test EXCEPT !.sends = 0]
    BY <1>14 DEF TestSend
  <2>4. test' \in [sends : Nat, deleted : BOOLEAN]
    <3>1. [sends |-> test.sends - 1, deleted |-> TRUE] \in [sends : Nat, deleted : BOOLEAN]
      BY <2>1, <2>2
    <3>2. [test EXCEPT !.sends = @ - 1] \in [sends : Nat, deleted : BOOLEAN]
      BY <2>1
    <3>3. [test EXCEPT !.sends = 0] \in [sends : Nat, deleted : BOOLEAN]
      BY <2>2
    <3> QED BY <2>3, <3>1, <3>2, <3>3
  <2>5. faults' \subseteq {"main", "reader", "test", "wild"} /\ process' \in {"running", "over"}
    BY <1>14 DEF TestSend
  <2> QED BY <1>14, <2>4, <2>5 DEF TestSend
<1>30. CASE EncodeThrows
  BY <1>30 DEF EncodeThrows
<1>31. CASE DeleteClient
  BY <1>31 DEF DeleteClient
<1>15. CASE EndTest
  BY <1>15 DEF EndTest
<1>16. CASE ReaderLooks
  BY <1>16 DEF ReaderLooks
<1>17. CASE ReadError
  <2>1. Touch("reader")
    BY <1>17 DEF ReadError
  <2> QED BY <1>17, <2>1, TouchType DEF ReadError
<1>18. CASE HandleUserAuthorizeResponse
  BY <1>18 DEF HandleUserAuthorizeResponse, Accepted, Refusal, Unread
<1>19. CASE HandleCheckBalanceResponse
  BY <1>19 DEF HandleCheckBalanceResponse
<1>20. CASE AssignUsd
  BY <1>20 DEF AssignUsd, Usd, Unread
<1>21. CASE Answer
  BY <1>21 DEF Answer, Verdict, Balance
<1>22. CASE Lose
  BY <1>22 DEF Lose
<1>23. ASSUME NEW thread \in {"main", "reader"}, EnterDisconnect(thread)
      PROVE  PlacesOK'
  BY <1>23 DEF EnterDisconnect
<1>24. ASSUME NEW thread \in {"main", "reader"}, MarkDisconnected(thread)
      PROVE  PlacesOK'
  BY <1>24 DEF MarkDisconnected
<1>25. ASSUME NEW thread \in {"main", "reader"}, Wait(thread)
      PROVE  PlacesOK'
  BY <1>25 DEF Wait
<1>26. ASSUME NEW thread \in {"main", "reader"}, CloseSocket(thread)
      PROVE  PlacesOK'
  <2>1. faults' \subseteq {"main", "reader", "test", "wild"} /\ process' \in {"running", "over"}
    BY <1>26, TouchType DEF CloseSocket
  <2> QED BY <1>26, <2>1 DEF CloseSocket
<1>27. ASSUME NEW thread \in {"main", "reader"}, DeleteSocket(thread)
      PROVE  PlacesOK'
  <2>1. faults' \subseteq {"main", "reader", "test", "wild"} /\ process' \in {"running", "over"}
    BY <1>27, TouchType DEF DeleteSocket
  <2> QED BY <1>27, <2>1 DEF DeleteSocket
<1>28. ASSUME NEW thread \in {"main", "reader"}, Throw(thread)
      PROVE  PlacesOK'
  BY <1>28 DEF Throw, Thrown
<1>29. CASE UNCHANGED vars
  BY <1>29 DEF vars, menuVars
<1> QED BY <1>1, <1>2, <1>3, <1>4, <1>5, <1>6, <1>7, <1>8, <1>9, <1>10, <1>11, <1>12, <1>13,
       <1>14, <1>15, <1>16, <1>17, <1>18, <1>19, <1>20, <1>21, <1>22, <1>23, <1>24, <1>25,
       <1>26, <1>27, <1>28, <1>29, <1>30, <1>31
    DEF Next, Typed, MainNext, ReaderNext, Disconnect

\* Every step keeps the types of what is asked, answered, kept and shown.
LEMMA FieldsNext == FieldsOK /\ [Next]_vars => FieldsOK'
<1> SUFFICES ASSUME FieldsOK, [Next]_vars
             PROVE  FieldsOK'
  OBVIOUS
<1> USE DEF FieldsOK, menuVars, fieldVars, serverVars, countVars
<1>1. ASSUME NEW request \in Requests, NEW after, Send(request, after),
             UNCHANGED <<reader, fieldVars, answers, balances, shown>>,
             attempts' \in {attempts, attempts + 1}, refusals' = refusals
      PROVE  FieldsOK'
  <2>1. requests' \in Seq(Requests) /\ sends' \in Nat
    BY <1>1 DEF Send
  <2> QED BY <1>1, <2>1
<1>2. CASE SendUserAuthorizeRequest \/ SendCheckBalanceRequest \/ SendFromMenu
  <2>1. CASE SendUserAuthorizeRequest
    BY <1>1, <2>1 DEF SendUserAuthorizeRequest, Requests
  <2>2. CASE SendCheckBalanceRequest
    BY <1>1, <2>2 DEF SendCheckBalanceRequest, Requests
  <2>3. CASE SendFromMenu
    <3>1. (IF stage = "tests" THEN "message" ELSE "trade") \in Requests
      BY DEF Requests
    <3> QED BY <1>1, <2>3, <3>1 DEF SendFromMenu
  <2> QED BY <1>2, <2>1, <2>2, <2>3
<1>3. CASE Authorized
  BY <1>3 DEF Authorized, Reset
<1>4. CASE ShowRub
  BY <1>4 DEF ShowRub
<1>5. CASE ShowUsd
  BY <1>5 DEF ShowUsd
<1>6. CASE HandleUserAuthorizeResponse
  <2>1. answers' \in Seq(Answers)
    BY <1>6 DEF HandleUserAuthorizeResponse, Unread
  <2>2. authorized' \in BOOLEAN /\ authorize_code' \in -1..1 /\ refusals' \in Nat
    BY <1>6 DEF HandleUserAuthorizeResponse, Accepted, Refusal
  <2> QED BY <1>6, <2>1, <2>2 DEF HandleUserAuthorizeResponse
<1>7. CASE HandleCheckBalanceResponse
  <2>1. Head(answers) \in Answers
    BY <1>7 DEF HandleCheckBalanceResponse
  <2> QED BY <1>7, <2>1 DEF HandleCheckBalanceResponse, Answers
<1>8. CASE AssignUsd
  <2>1. Head(answers) \in Answers /\ answers' \in Seq(Answers)
    BY <1>8 DEF AssignUsd, Unread
  <2> QED BY <1>8, <2>1 DEF AssignUsd, Usd, Answers
<1>9. CASE Answer
  <2>1. requests' \in Seq(Requests) /\ balances' \in Nat
    BY <1>9 DEF Answer
  <2>2. PICK more \in Seq(Answers) : answers' = answers \o more
    <3>1. ASSUME NEW a \in Answers, answers' = Append(answers, a)
          PROVE  <<a>> \in Seq(Answers) /\ answers' = answers \o <<a>>
      BY <3>1
    <3>2. Balance(balances + 1) \in Answers /\ \A k \in {"success", "refused"} : Verdict(k) \in Answers
      BY DEF Balance, Verdict, Answers
    <3>3. <<>> \in Seq(Answers) /\ answers = answers \o <<>>
      OBVIOUS
    <3> QED BY <1>9, <3>1, <3>2, <3>3 DEF Answer
  <2>3. answers' \in Seq(Answers) /\ (answers # <<>> => answers' # <<>> /\ Head(answers') = Head(answers))
    BY <2>2
  <2> QED BY <1>9, <2>1, <2>3 DEF Answer
<1>10. ASSUME NEW thread \in {"main", "reader"}, Disconnect(thread)
       PROVE  FieldsOK'
  <2>1. reader' = "assign" => reader = "assign"
    BY <1>10 DEF Disconnect, EnterDisconnect, MarkDisconnected, Wait, CloseSocket, DeleteSocket, Throw, Go
  <2> QED BY <1>10, <2>1 DEF Disconnect, EnterDisconnect, MarkDisconnected, Wait, CloseSocket, DeleteSocket, Throw
<1>11. ASSUME \/ Connect \/ CountWeight \/ EncodeThrows \/ DeleteClient
              \/ LeaveLoop \/ PromptAfterLoss \/ ChooseStage
              \/ ChooseExit \/ BeginTest \/ TestSend \/ EndTest \/ ReaderLooks \/ ReadError
              \/ Lose \/ UNCHANGED vars
       PROVE  FieldsOK'
  <2>1. reader' = "assign" => reader = "assign"
    BY <1>11 DEF Connect, CountWeight, EncodeThrows, DeleteClient, LeaveLoop, PromptAfterLoss, ChooseStage, ChooseExit,
       BeginTest, TestSend, EndTest, ReaderLooks, ReadError, Lose, vars
  <2>2. UNCHANGED <<fieldVars, serverVars, countVars, shown>>
    BY <1>11 DEF Connect, CountWeight, EncodeThrows, DeleteClient, LeaveLoop, PromptAfterLoss, ChooseStage, ChooseExit,
       BeginTest, TestSend, EndTest, ReaderLooks, ReadError, Lose, vars
  <2> QED BY <2>1, <2>2
<1> QED BY <1>2, <1>3, <1>4, <1>5, <1>6, <1>7, <1>8, <1>9, <1>10, <1>11
        DEF Next, Typed, MainNext, ReaderNext

\* Every variable keeps its type, whatever the two threads do, also when they use a deleted
\* socket; and while the fields of a balance are assigned (client.cpp:144-152) the answer
\* they come from is there.
THEOREM TypeCorrect == Spec => []TypeInv
<1>1. Init => TypeInv
  <2> SUFFICES ASSUME Init PROVE TypeInv
    OBVIOUS
  <2>1. PlacesOK
    BY DEF Init, PlacesOK, Mains, Readers, NoTest
  <2>2. requests \in Seq(Requests) /\ answers \in Seq(Answers)
    BY DEF Init
  <2>3. shown \in [rub : Nat, usd : Nat, whole : BOOLEAN] /\ authorize_code \in -1..1
    BY DEF Init
  <2>4. authorized \in BOOLEAN /\ reader # "assign"
    BY DEF Init
  <2>5. /\ rub \in Nat /\ usd \in Nat /\ balances \in Nat
        /\ sends \in Nat /\ attempts \in Nat /\ refusals \in Nat
    BY DEF Init
  <2>6. FieldsOK
    BY <2>2, <2>3, <2>4, <2>5 DEF FieldsOK
  <2> QED BY <2>1, <2>6 DEF TypeInv
<1>2. TypeInv /\ [Next]_vars => TypeInv'
  BY PlacesNext, FieldsNext DEF TypeInv
<1> QED BY <1>1, <1>2, PTL DEF Spec

-----------------------------------------------------------------------------
(* The socket *)

\* A write or a read fails only when the connection is lost or the socket is shut.
LEMMA SocketNext == PlacesOK /\ SocketInv /\ [Next]_vars => SocketInv'
<1> SUFFICES ASSUME PlacesOK, SocketInv, [Next]_vars
             PROVE  SocketInv'
  OBVIOUS
<1> USE DEF SocketInv, Leaving, menuVars, fieldVars, serverVars, countVars
<1>1. ASSUME NEW request, NEW after \in {"asked", "prompt", "loop"}, Send(request, after),
             main # "construct", UNCHANGED <<menuVars, reader, socket, gone>>
      PROVE  SocketInv'
  <2>1. main' = "disconnect" => gone \/ left
    BY <1>1 DEF Send, Fails, PlacesOK
  <2>2. faults' # {} => gone \/ left
    BY <1>1 DEF Send, Touch
  <2>3. main' \in {"disconnect", after}
    BY <1>1 DEF Send
  <2> QED BY <1>1, <2>1, <2>2, <2>3
<1>2. CASE SendUserAuthorizeRequest \/ SendCheckBalanceRequest \/ SendFromMenu
  BY <1>1, <1>2 DEF SendUserAuthorizeRequest, SendCheckBalanceRequest, SendFromMenu, Prompt
<1>3. CASE Connect
  BY <1>3 DEF Connect
<1>4. CASE ReadError
  <2>1. gone \/ left
    BY <1>4 DEF ReadError, PlacesOK
  <2> QED BY <1>4, <2>1 DEF ReadError
<1>5. CASE TestSend
  <2>2. test'.deleted => test.deleted \/ gone
    BY <1>5 DEF TestSend, PlacesOK
  <2>3. faults' # {} => faults # {} \/ test.deleted
    BY <1>5 DEF TestSend
  <2>4. UNCHANGED <<main, reader, socket, gone, left>>
    BY <1>5 DEF TestSend
  <2> QED BY <2>2, <2>3, <2>4
<1>6. CASE ChooseExit \/ BeginTest \/ EndTest
  BY <1>6 DEF ChooseExit, BeginTest, EndTest, Prompt, NoTest
<1>7. ASSUME NEW thread \in {"main", "reader"}, CloseSocket(thread) \/ DeleteSocket(thread)
      PROVE  SocketInv'
  <2>1. gone \/ left
    BY <1>7 DEF CloseSocket, DeleteSocket, Go
  <2>2. UNCHANGED <<gone, left>> /\ (reader' # "none" => reader # "none") /\ main # "construct" /\ socket' # "none"
    <3>1. main # "construct" /\ (reader' # "none" => reader # "none")
      BY <1>7 DEF CloseSocket, DeleteSocket, Go
    <3> QED BY <1>7, <3>1 DEF CloseSocket, DeleteSocket, PlacesOK
  <2>3. main' # "construct"
    BY <1>7, <2>2 DEF CloseSocket, DeleteSocket, Go
  <2> QED BY <2>1, <2>2, <2>3
<1>8. ASSUME NEW thread \in {"main", "reader"},
             EnterDisconnect(thread) \/ MarkDisconnected(thread) \/ Wait(thread) \/ Throw(thread)
      PROVE  SocketInv'
  <2>1. gone \/ left
    BY <1>8 DEF EnterDisconnect, MarkDisconnected, Wait, Throw, Go
  <2>2. UNCHANGED <<gone, left, socket>> /\ (reader' # "none" => reader # "none") /\ main # "construct"
    BY <1>8 DEF EnterDisconnect, MarkDisconnected, Wait, Throw, Go
  <2>3. main' # "construct"
    BY <1>8, <2>2 DEF EnterDisconnect, MarkDisconnected, Wait, Throw, Go, PlacesOK
  <2> QED BY <2>1, <2>2, <2>3
<1>9. CASE CountWeight \/ Authorized \/ LeaveLoop \/ ShowUsd
  BY <1>9 DEF CountWeight, Authorized, LeaveLoop, ShowUsd
<1>13. CASE EncodeThrows \/ DeleteClient
  BY <1>13 DEF EncodeThrows, DeleteClient
<1>10. CASE PromptAfterLoss \/ ChooseStage \/ ShowRub
  BY <1>10 DEF PromptAfterLoss, ChooseStage, ShowRub, Prompt
<1>11. CASE ReaderLooks \/ HandleUserAuthorizeResponse \/ HandleCheckBalanceResponse \/ AssignUsd
  BY <1>11 DEF ReaderLooks, HandleUserAuthorizeResponse, HandleCheckBalanceResponse, AssignUsd
<1>12. CASE Answer \/ Lose \/ UNCHANGED vars
  BY <1>12 DEF Answer, Lose, vars
<1> QED BY <1>2, <1>3, <1>4, <1>5, <1>6, <1>7, <1>8, <1>9, <1>10, <1>11, <1>12, <1>13
        DEF Next, Typed, MainNext, ReaderNext, Disconnect

\* While the connection stands and the user has not left, nobody uses a socket after
\* Client::disconnect has deleted it (client.cpp:42-57).
THEOREM SocketIsAlive == Spec => []SocketOutlivesUse
<1>1. Init => SocketInv
  BY DEF Init, SocketInv, Leaving, NoTest
<1>2. TypeInv /\ SocketInv /\ [Next]_vars => SocketInv'
  BY SocketNext DEF TypeInv
<1>3. SocketInv => SocketOutlivesUse
  BY DEF SocketInv, SocketOutlivesUse
<1> QED BY <1>1, <1>2, <1>3, TypeCorrect, PTL DEF Spec

-----------------------------------------------------------------------------
(* The login *)

\* A packet that is not a login leaves the exchange of logins alone.
LEMMA SendKeepsLogin ==
    ASSUME FieldsOK, LoginInv, authorized,
           NEW request \in Requests \ {"login"}, NEW after \in {"loop", "prompt"},
           Send(request, after),
           UNCHANGED <<authorized, authorize_code, answers, attempts, refusals>>
    PROVE  LoginInv'
<1>1. \A i \in DOMAIN requests : requests[i] # "login"
  BY DEF LoginInv, OneLogin
<1>2. \A i \in DOMAIN requests' : requests'[i] # "login"
  <2>1. CASE UNCHANGED requests
    BY <1>1, <2>1
  <2>2. CASE requests' = Append(requests, request)
    BY <1>1, <2>2 DEF FieldsOK, Requests
  <2> QED BY <2>1, <2>2 DEF Send
<1>3. main' \in {"disconnect", "loop", "prompt"} /\ back' \in {"loop", "prompt"}
  BY DEF Send
<1>4. OneLogin'
  BY <1>2, <1>3 DEF LoginInv, OneLogin
<1> QED BY <1>3, <1>4 DEF LoginInv

\* Every step keeps one login at most on its way, and the code of its answer unread by main
\* until the next.
LEMMA LoginNext == TypeInv /\ LoginInv /\ [Next]_vars => LoginInv'
<1> SUFFICES ASSUME PlacesOK, FieldsOK, LoginInv, [Next]_vars
             PROVE  LoginInv'
  BY DEF TypeInv
<1> USE DEF menuVars, fieldVars, serverVars, countVars
<1>1. CASE SendUserAuthorizeRequest
  <2>1. /\ main = "login" /\ Send("login", "asked") /\ attempts' = attempts + 1
        /\ UNCHANGED <<authorized, authorize_code, answers, refusals>>
    BY <1>1 DEF SendUserAuthorizeRequest
  <2>2. ~authorized /\ authorize_code = -1 /\ attempts = refusals /\ NothingPending
    BY <2>1 DEF LoginInv, OneLogin, PlacesOK
  <2>3. requests' \in {<<>>, <<"login">>} /\ main' \in {"disconnect", "asked"} /\ back' = "asked"
    BY <2>1, <2>2 DEF Send, NothingPending
  <2>4. OneLogin'
    BY <2>1, <2>2, <2>3 DEF OneLogin, NothingPending, FieldsOK
  <2> QED BY <2>3, <2>4 DEF LoginInv
<1>2. CASE SendCheckBalanceRequest
  <2>1. authorized
    BY <1>2 DEF SendCheckBalanceRequest, LoginInv
  <2> QED BY <1>2, <2>1, SendKeepsLogin DEF SendCheckBalanceRequest, Requests
<1>3. CASE SendFromMenu
  <2>1. authorized
    BY <1>3 DEF SendFromMenu, Prompt, LoginInv
  <2>2. (IF stage = "tests" THEN "message" ELSE "trade") \in Requests \ {"login"}
    BY DEF Requests
  <2> QED BY <1>3, <2>1, <2>2, SendKeepsLogin DEF SendFromMenu
<1>4. CASE Authorized
  <2>1. UNCHANGED <<requests, answers, attempts, refusals, back, authorized>> /\ main = "asked"
    BY <1>4 DEF Authorized
  <2>2. CASE authorized
    BY <1>4, <2>1, <2>2 DEF Authorized, LoginInv, OneLogin
  <2>3. CASE ~authorized /\ authorize_code > 0
    <3>1. main' = "login" /\ authorize_code' = -1
      BY <1>4, <2>3 DEF Authorized, Reset
    <3> QED BY <2>1, <2>3, <3>1 DEF LoginInv, OneLogin, NothingPending
  <2> QED BY <1>4, <2>2, <2>3 DEF Authorized
<1>5. CASE HandleUserAuthorizeResponse
  <2>1. /\ answers # <<>> /\ Head(answers).kind # "balance" /\ answers' = Tail(answers)
        /\ authorized' = (authorized \/ Head(answers).kind = "success")
        /\ authorize_code' = IF Head(answers).kind = "success" THEN 0 ELSE 1
        /\ refusals' = IF Head(answers).kind = "refused" THEN refusals + 1 ELSE refusals
        /\ UNCHANGED <<main, back, requests, attempts>>
    BY <1>5 DEF HandleUserAuthorizeResponse, Accepted, Refusal, Unread
  <2>2. Head(answers) = answers[1] /\ 1 \in DOMAIN answers
    BY <2>1 DEF FieldsOK
  <2>3. /\ ~authorized /\ attempts = refusals + 1 /\ requests = <<>> /\ main # "login"
        /\ \E v \in Verdicts : answers = <<v>>
    BY <2>1, <2>2 DEF LoginInv, OneLogin, NothingPending
  <2>4. answers' = <<>> /\ Head(answers).kind \in {"success", "refused"}
    <3>1. PICK v \in Verdicts : answers = <<v>>
      BY <2>3
    <3>2. Tail(answers) = <<>> /\ Head(answers) = v
      BY <3>1
    <3> QED BY <2>1, <3>2 DEF Verdicts, Verdict
  <2>5. main \notin {"construct", "count"}
    BY <2>1, <2>3 DEF LoginInv, NothingPending
  <2>6. OneLogin'
    <3>1. CASE Head(answers).kind = "success"
      <4>1. authorized'
        BY <2>1, <3>1
      <4>2. requests' = <<>> /\ main' # "login"
        BY <2>1, <2>3
      <4>3. DOMAIN requests' = {} /\ DOMAIN answers' = {}
        BY <2>4, <4>2
      <4> QED BY <4>1, <4>2, <4>3 DEF OneLogin
    <3>2. CASE Head(answers).kind = "refused"
      BY <2>1, <2>3, <2>4, <3>2 DEF OneLogin, NothingPending, FieldsOK
    <3> QED BY <2>4, <3>1, <3>2
  <2> QED BY <2>1, <2>3, <2>5, <2>6 DEF LoginInv
<1>6. CASE AssignUsd
  <2>1. answers # <<>> /\ Head(answers).kind = "balance" /\ answers' = Tail(answers)
        /\ UNCHANGED <<main, back, authorized, authorize_code, requests, attempts, refusals>>
    BY <1>6 DEF AssignUsd, FieldsOK, Unread
  <2>2. authorized
    BY <2>1 DEF LoginInv, OneLogin, NothingPending, Verdicts, Verdict, FieldsOK
  <2>3. \A i \in DOMAIN answers' : answers'[i].kind = "balance"
    BY <2>1, <2>2 DEF LoginInv, OneLogin, FieldsOK
  <2> QED BY <2>1, <2>2, <2>3 DEF LoginInv, OneLogin
<1>7. CASE Answer
  <2>1. /\ requests # <<>> /\ requests' = Tail(requests)
        /\ UNCHANGED <<main, back, authorized, authorize_code, attempts, refusals>>
    BY <1>7 DEF Answer
  <2>2. CASE authorized
    <3>1. Head(requests) # "login"
      BY <2>1, <2>2 DEF LoginInv, OneLogin, FieldsOK
    <3>2. \A i \in DOMAIN requests' : requests'[i] # "login"
      BY <2>1, <2>2 DEF LoginInv, OneLogin, FieldsOK
    <3>3. \A i \in DOMAIN answers' : answers'[i].kind = "balance"
      <4>1. \A i \in DOMAIN answers : answers[i].kind = "balance"
        BY <2>2 DEF LoginInv, OneLogin
      <4>2. CASE answers' = Append(answers, Balance(balances + 1))
        <5>1. Balance(balances + 1).kind = "balance"
          BY DEF Balance
        <5>2. \A i \in DOMAIN answers' :
                  answers'[i] = IF i = Len(answers) + 1 THEN Balance(balances + 1) ELSE answers[i]
          BY <4>2 DEF FieldsOK
        <5>3. \A i \in DOMAIN answers' : i # Len(answers) + 1 => i \in DOMAIN answers
          BY <4>2 DEF FieldsOK
        <5> QED BY <4>1, <5>1, <5>2, <5>3
      <4>3. CASE UNCHANGED answers
        BY <4>1, <4>3
      <4> QED BY <1>7, <3>1, <4>2, <4>3 DEF Answer
    <3> QED BY <2>1, <2>2, <3>2, <3>3 DEF LoginInv, OneLogin
  <2>3. CASE ~authorized
    <3>1. requests = <<"login">> /\ answers = <<>> /\ authorize_code = -1 /\ attempts = refusals + 1
          /\ main # "login"
      BY <2>1, <2>3 DEF LoginInv, OneLogin, NothingPending
    <3>2. requests' = <<>> /\ Head(requests) = "login"
      BY <2>1, <3>1
    <3>3. \E v \in Verdicts : answers' = <<v>>
      <4>1. PICK k \in {"success", "refused"} : answers' = Append(answers, Verdict(k))
        BY <1>7, <3>2 DEF Answer
      <4> QED BY <3>1, <4>1 DEF Verdicts
    <3>4. main \notin {"construct", "count"}
      BY <3>1 DEF LoginInv, NothingPending
    <3> QED BY <2>1, <2>3, <3>1, <3>2, <3>3, <3>4 DEF LoginInv, OneLogin
  <2> QED BY <2>2, <2>3
<1>8. ASSUME NEW thread \in {"main", "reader"}, Disconnect(thread)
      PROVE  LoginInv'
  <2>1. UNCHANGED <<authorized, authorize_code, requests, answers, attempts, refusals, back>>
    BY <1>8 DEF Disconnect, EnterDisconnect, MarkDisconnected, Wait, CloseSocket, DeleteSocket, Throw
  <2>2. main' \in {main, back, "mark", "wait", "close", "delete", "throw", "caught"}
    BY <1>8 DEF Disconnect, EnterDisconnect, MarkDisconnected, Wait, CloseSocket, DeleteSocket, Throw, Go
  <2>3. main' # main => main' \notin {"construct", "count", "login"}
    BY <2>2 DEF PlacesOK
  <2>4. OneLogin'
    BY <2>1, <2>3 DEF LoginInv, OneLogin, NothingPending
  <2>5. main' \in {"loop", "prompt", "show", "test"} => authorized
    BY <2>2 DEF PlacesOK, LoginInv
  <2>6. main' \in {"construct", "count"} =>
            ~authorized' /\ authorize_code' = -1 /\ attempts' = refusals' /\ NothingPending'
    BY <2>1, <2>3 DEF LoginInv, NothingPending
  <2>7. back' \in {"loop", "prompt"} => authorized
    BY <2>1 DEF LoginInv
  <2> QED BY <2>1, <2>4, <2>5, <2>6, <2>7 DEF LoginInv
<1>9. ASSUME UNCHANGED <<authorized, authorize_code, requests, answers, attempts, refusals>>,
             back' \in {back, "caught"} \/ authorized,
             \/ main' = main
             \/ main' \in {"caught", "disconnect"}
             \/ main' \in {"count", "login"} /\ main \in {"construct", "count"}
             \/ main' \notin {"construct", "count", "login"} /\ authorized
      PROVE  LoginInv'
  BY <1>9 DEF LoginInv, OneLogin, NothingPending
<1>13. CASE EncodeThrows \/ DeleteClient
  BY <1>9, <1>13 DEF EncodeThrows, DeleteClient
<1>10. CASE Connect \/ CountWeight \/ LeaveLoop \/ ShowUsd \/ TestSend \/ EndTest
  <2>1. CASE Connect
    BY <1>9, <2>1 DEF Connect
  <2>2. CASE CountWeight
    BY <1>9, <2>2 DEF CountWeight
  <2>3. CASE LeaveLoop
    BY <1>9, <2>3 DEF LeaveLoop
  <2>4. CASE ShowUsd \/ TestSend \/ EndTest
    <3>1. authorized
      BY <2>4 DEF ShowUsd, TestSend, EndTest, LoginInv
    <3> QED BY <1>9, <2>4, <3>1 DEF ShowUsd, TestSend, EndTest
  <2> QED BY <1>10, <2>1, <2>2, <2>3, <2>4
<1>11. CASE PromptAfterLoss \/ ChooseStage \/ ShowRub \/ ChooseExit \/ BeginTest
  BY <1>9, <1>11 DEF PromptAfterLoss, ChooseStage, ShowRub, ChooseExit, BeginTest, Prompt, LoginInv
<1>12. CASE ReaderLooks \/ ReadError \/ HandleCheckBalanceResponse \/ Lose \/ UNCHANGED vars
  BY <1>9, <1>12 DEF ReaderLooks, ReadError, HandleCheckBalanceResponse, Lose, vars
<1> QED BY <1>1, <1>2, <1>3, <1>4, <1>5, <1>6, <1>7, <1>8, <1>10, <1>11, <1>12, <1>13
        DEF Next, Typed, MainNext, ReaderNext

\* main asks for a login once, and once more for each refusal that the reader has read: no
\* verdict is taken twice and none is missed, although both threads write authorize_code
\* (client.cpp:129-142 and main.cpp:13-29).
THEOREM EveryRefusalAsksAgain == Spec => []PromptsMatch
<1>1. Init => LoginInv
  BY DEF Init, LoginInv, OneLogin, NothingPending
<1>2. TypeInv /\ LoginInv /\ [Next]_vars => LoginInv'
  BY LoginNext
<1>3. TypeInv /\ LoginInv => PromptsMatch
  BY DEF TypeInv, PlacesOK, LoginInv, OneLogin, PromptsMatch
<1> QED BY <1>1, <1>2, <1>3, TypeCorrect, PTL DEF Spec

-----------------------------------------------------------------------------
(* The balance *)

\* Every step keeps the answers in the order of their numbers, and USD one behind RUB at most.
LEMMA NumberedNext == TypeInv /\ LoginInv /\ Numbered /\ [Next]_vars => Numbered'
<1> SUFFICES ASSUME PlacesOK, FieldsOK, LoginInv, Numbered, [Next]_vars
             PROVE  Numbered'
  BY DEF TypeInv
<1> USE DEF menuVars, fieldVars, serverVars, countVars
<1>1. rub \in Nat /\ usd \in Nat /\ shown.rub \in Nat /\ shown.usd \in Nat /\ balances \in Nat
      /\ Len(answers) \in Nat
  BY DEF FieldsOK
<1>2. CASE ShowRub
  <2>1. shown'.rub = rub /\ ~shown'.whole /\ rub <= usd + 1
    BY <1>1, <1>2 DEF ShowRub, Numbered
  <2> QED BY <1>2, <2>1 DEF ShowRub, Numbered, ShownTogether
<1>3. CASE ShowUsd
  <2>1. shown'.rub = shown.rub /\ shown'.usd = usd
    BY <1>3 DEF ShowUsd, FieldsOK
  <2> QED BY <1>3, <2>1 DEF ShowUsd, Numbered, ShownTogether
<1>4. CASE HandleUserAuthorizeResponse
  <2>1. answers # <<>> /\ Head(answers).kind # "balance" /\ answers' = Tail(answers)
        /\ UNCHANGED <<balances, usd, rub, shown>> /\ reader = "read" /\ reader' = "top"
    BY <1>4 DEF HandleUserAuthorizeResponse, Unread
  <2>2. ~authorized /\ \E v \in Verdicts : answers = <<v>>
    BY <2>1 DEF LoginInv, OneLogin, NothingPending, FieldsOK
  <2>3. answers' = <<>> /\ Len(answers') = 0
    BY <2>1, <2>2
  <2> QED BY <1>1, <2>1, <2>2, <2>3 DEF Numbered, ShownTogether
<1>5. CASE HandleCheckBalanceResponse
  <2>1. Head(answers) = answers[1] /\ 1 \in DOMAIN answers /\ Head(answers).kind = "balance"
    BY <1>5 DEF HandleCheckBalanceResponse, FieldsOK
  <2>2. rub' = usd + 1
    BY <1>5, <2>1 DEF HandleCheckBalanceResponse, Numbered
  <2> QED BY <1>5, <2>2 DEF HandleCheckBalanceResponse, Numbered, ShownTogether
<1>6. CASE AssignUsd
  <2>1. /\ answers # <<>> /\ Head(answers).kind = "balance" /\ answers' = Tail(answers)
        /\ usd' = Head(answers).balance /\ reader = "assign" /\ reader' = "top"
        /\ UNCHANGED <<balances, rub, shown, authorized>>
    BY <1>6 DEF AssignUsd, FieldsOK, Unread, Usd
  <2>2. authorized
    BY <2>1 DEF LoginInv, OneLogin, NothingPending, Verdicts, Verdict, FieldsOK
  <2>3. Head(answers) = answers[1] /\ 1 \in DOMAIN answers
    BY <2>1 DEF FieldsOK
  <2>4. usd' = usd + 1
    BY <2>1, <2>3 DEF Numbered
  <2>5. /\ Len(answers') = Len(answers) - 1
        /\ \A i \in DOMAIN answers' : i + 1 \in DOMAIN answers /\ answers'[i] = answers[i + 1]
        /\ DOMAIN answers' \subseteq Nat
    BY <2>1 DEF FieldsOK
  <2>6. \A i \in DOMAIN answers' : answers'[i].kind = "balance" => answers'[i].balance = usd' + i
    <3> TAKE i \in DOMAIN answers'
    <3> HAVE answers'[i].kind = "balance"
    <3>1. i + 1 \in DOMAIN answers /\ answers'[i] = answers[i + 1] /\ i \in Nat
      BY <2>5
    <3>2. answers[i + 1].balance = usd + (i + 1)
      BY <3>1 DEF Numbered
    <3> QED BY <1>1, <2>4, <3>1, <3>2
  <2>7. balances' = usd' + Len(answers')
    BY <1>1, <2>1, <2>2, <2>4, <2>5 DEF Numbered
  <2>8. rub' = usd' /\ shown'.rub <= usd' + 1 /\ ShownTogether'
    BY <1>1, <2>1, <2>4 DEF Numbered, ShownTogether
  <2> QED BY <2>1, <2>2, <2>6, <2>7, <2>8 DEF Numbered
<1>7. CASE Answer
  <2>1. UNCHANGED <<authorized, usd, rub, reader, shown>> /\ requests # <<>>
    BY <1>7 DEF Answer
  <2>2. CASE authorized
    <3>1. Head(requests) # "login"
      BY <2>1, <2>2 DEF LoginInv, OneLogin, FieldsOK
    <3>2. CASE UNCHANGED <<answers, balances>>
      BY <2>1, <3>2 DEF Numbered, ShownTogether
    <3>3. CASE answers' = Append(answers, Balance(balances + 1)) /\ balances' = balances + 1
      <4>1. /\ Len(answers') = Len(answers) + 1
            /\ \A i \in DOMAIN answers' :
                  answers'[i] = IF i = Len(answers) + 1 THEN Balance(balances + 1) ELSE answers[i]
            /\ \A i \in DOMAIN answers' : i # Len(answers) + 1 => i \in DOMAIN answers
        BY <3>3 DEF FieldsOK
      <4>2. Balance(balances + 1).balance = usd + (Len(answers) + 1)
        BY <1>1, <2>2 DEF Balance, Numbered
      <4>3. \A i \in DOMAIN answers' : answers'[i].kind = "balance" => answers'[i].balance = usd + i
        BY <4>1, <4>2 DEF Numbered
      <4>4. balances' = usd + Len(answers')
        BY <1>1, <2>2, <3>3, <4>1 DEF Numbered
      <4> QED BY <2>1, <2>2, <4>3, <4>4 DEF Numbered, ShownTogether
    <3> QED BY <1>7, <3>1, <3>2, <3>3 DEF Answer
  <2>3. CASE ~authorized
    <3>1. requests = <<"login">> /\ answers = <<>>
      BY <2>1, <2>3 DEF LoginInv, OneLogin, NothingPending
    <3>2. PICK k \in {"success", "refused"} : answers' = Append(answers, Verdict(k)) /\ UNCHANGED balances
      BY <1>7, <3>1 DEF Answer
    <3>3. \A i \in DOMAIN answers' : answers'[i] = Verdict(k)
      BY <3>1, <3>2
    <3>4. Verdict(k).kind # "balance"
      BY DEF Verdict
    <3> QED BY <2>1, <2>3, <3>2, <3>3, <3>4 DEF Numbered, ShownTogether
  <2> QED BY <2>2, <2>3
<1>8. ASSUME UNCHANGED <<authorized, rub, usd, answers, balances, shown>>,
             reader' = "assign" <=> reader = "assign"
      PROVE  Numbered'
  BY <1>8 DEF Numbered, ShownTogether
<1>9. ASSUME NEW thread \in {"main", "reader"}, Disconnect(thread)
      PROVE  Numbered'
  <2>1. reader' = "assign" <=> reader = "assign"
    BY <1>9 DEF Disconnect, EnterDisconnect, MarkDisconnected, Wait, CloseSocket, DeleteSocket, Throw, Go
  <2> QED BY <1>8, <1>9, <2>1 DEF Disconnect, EnterDisconnect, MarkDisconnected, Wait, CloseSocket, DeleteSocket, Throw
<1>10. CASE SendUserAuthorizeRequest \/ SendCheckBalanceRequest \/ SendFromMenu
  BY <1>8, <1>10 DEF SendUserAuthorizeRequest, SendCheckBalanceRequest, SendFromMenu
<1>11. CASE Connect
  <2>1. reader # "assign"
    BY <1>11 DEF Connect, FieldsOK, LoginInv, NothingPending
  <2> QED BY <1>8, <1>11, <2>1 DEF Connect
<1>12. CASE CountWeight \/ Authorized \/ LeaveLoop \/ TestSend \/ EndTest
  BY <1>8, <1>12 DEF CountWeight, Authorized, LeaveLoop, TestSend, EndTest
<1>15. CASE EncodeThrows \/ DeleteClient
  BY <1>8, <1>15 DEF EncodeThrows, DeleteClient
<1>13. CASE PromptAfterLoss \/ ChooseStage \/ ChooseExit \/ BeginTest
  BY <1>8, <1>13 DEF PromptAfterLoss, ChooseStage, ChooseExit, BeginTest
<1>14. CASE ReaderLooks \/ ReadError \/ Lose \/ UNCHANGED vars
  BY <1>8, <1>14 DEF ReaderLooks, ReadError, Lose, vars
<1> QED BY <1>2, <1>3, <1>4, <1>5, <1>6, <1>7, <1>9, <1>10, <1>11, <1>12, <1>13, <1>14, <1>15
        DEF Next, Typed, MainNext, ReaderNext

\* main prints the two fields while the reader assigns them (main.cpp:53-61,
\* client.cpp:144-152): the USD that the menu shows are of the answer before that of the RUB, or
\* of the same one, or of any later one, and never older than that.
THEOREM UsdOneBehindAtMost == Spec => []ShownTogether
<1>1. Init => LoginInv /\ Numbered
  BY DEF Init, LoginInv, OneLogin, NothingPending, Numbered, ShownTogether
<1>2. TypeInv /\ LoginInv /\ Numbered /\ [Next]_vars => (LoginInv /\ Numbered)'
  BY LoginNext, NumberedNext
<1>3. Numbered => ShownTogether
  BY DEF Numbered
<1> QED BY <1>1, <1>2, <1>3, TypeCorrect, PTL DEF Spec
=============================================================================
