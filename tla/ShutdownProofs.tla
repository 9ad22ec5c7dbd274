--------------------------- MODULE ShutdownProofs ---------------------------
(***************************************************************************)
(* Theorems about Shutdown, for every number of clients and every book:    *)
(* what main finds when it leaves, and what a handler finds when stop was  *)
(* typed between two packets.                                              *)
(***************************************************************************)
EXTENDS Shutdown, SequenceTheorems, FiniteSetTheorems, TLAPS

-----------------------------------------------------------------------------
(* Invariants *)

Everyone == Clients \cup {Newcomer}
Users == {UserOf(c) : c \in Clients}

TypeInv ==
    /\ alive \subseteq Objects
    /\ sessions \subseteq Everyone
    /\ stopped \in BOOLEAN /\ halted \in BOOLEAN /\ finally_shutdown \in BOOLEAN
    /\ console \in {"input", "wait", "stop", "market", "sessions", "users", "done"}
    /\ doomed \subseteq Everyone /\ closing \subseteq Everyone
    /\ io \in [handler : Handlers \cup {"none"}, client : Everyone, uses : Seq(Objects)]
    /\ io.handler = "none" => io.uses = <<>>
    /\ io.handler \in Completions => io.client \in Clients
    /\ running \in BOOLEAN /\ quiet \in BOOLEAN
    /\ faults \subseteq Handlers \cup {"console", "unlock", "list", "run"}
    /\ process \in {"running", "crashed", "exited"}

\* What is in the map exists, and what has left it does not.
MapInv == \A c \in Everyone : SessionOf(c) \in alive <=> c \in sessions

\* The console thread deletes in this order, and what it has deleted stays deleted.
OrderInv ==
    /\ Market \notin alive => Lists \cap alive = {}
    /\ console \in {"sessions", "users", "done"} => Market \notin alive
    /\ console = "sessions" => sessions \cap Clients \subseteq doomed \cup closing
    /\ console \in {"users", "done"} => sessions \cap Clients = {}
    /\ console = "done" => (Users \cup Range(Rest)) \cap alive = {}
    /\ finally_shutdown => console = "done"
    /\ process = "exited" => finally_shutdown

\* Until stop is typed everything is there, whatever a running handler has still to use
\* included.
BeforeStop ==
    /\ stopped = (console # "input")
    /\ console \in {"input", "wait", "stop", "market", "sessions"} => Users \subseteq alive
    /\ console = "input" =>
        /\ ~quiet /\ ~halted
        /\ Lists \cup {Market} \cup Range(Rest) \subseteq alive
        /\ io.uses \in Seq(alive)
        /\ faults = {}
    /\ console \in {"input", "wait", "stop", "market", "sessions"} => Service \in alive
    /\ console \in {"input", "wait", "stop", "market"} /\ io.handler \in Completions =>
        io.client \in sessions

\* After a stop between two handlers a read may come to its end, but nothing that was read is
\* handled; what shutdown has yet to close is in the map.
QuietInv ==
    /\ quiet =>
        /\ io.handler \in Completions \cup {"none"}
        /\ io.uses \in Seq({SessionOf(io.client), Service})
        /\ doomed \subseteq sessions \ closing
    /\ console \in {"input", "wait", "stop", "market"} => doomed = {} /\ closing = {}
    /\ QuietStopIsContained

\* A list that is gone was deleted by its destructor.
DeletedInv ==
    /\ deleted = [i \in DOMAIN Book |-> deleted[i]]
    /\ \A i \in DOMAIN Book : ListAt(i) \notin alive => deleted[i] = Turns(Book[i]).deleted

SafetyInv == TypeInv /\ MapInv /\ OrderInv /\ BeforeStop /\ QuietInv /\ DeletedInv

-----------------------------------------------------------------------------
(* The objects *)

\* No object is of two kinds, and those of a kind differ.
Distinct ==
    /\ \A c, d : SessionOf(c) = SessionOf(d) => c = d
    /\ \A c, d : UserOf(c) = UserOf(d) => c = d
    /\ \A i, j : ListAt(i) = ListAt(j) => i = j
    /\ \A c, d : SessionOf(c) # UserOf(d)
    /\ \A c, i : SessionOf(c) # ListAt(i) /\ UserOf(c) # ListAt(i)
    /\ \A c : SessionOf(c) \notin {Market, Acceptor, Pending, Service}
    /\ \A c : UserOf(c) \notin {Market, Acceptor, Pending, Service}
    /\ \A i : ListAt(i) \notin {Market, Acceptor, Pending, Service}
    /\ Market \notin {Acceptor, Pending, Service}

\* The objects are made of different tags.
LEMMA ObjectsDiffer == Distinct
BY DEF Distinct, SessionOf, UserOf, ListAt, Market, Acceptor, Pending, Service

\* What is deleted last.
LEMMA RangeOfRest == Range(Rest) = {Acceptor, Pending, Service}
BY DEF Rest, Range

\* A book has finitely many lists.
LEMMA ListsFinite == IsFiniteSet(Lists)
<1>1. Book \in Seq(Nat \ {0}) /\ Len(Book) \in Nat /\ DOMAIN Book = 1..Len(Book)
  BY ShutdownAssumption
<1>2. IsFiniteSet(DOMAIN Book)
  BY <1>1, FS_Interval
<1> DEFINE at == [i \in DOMAIN Book |-> ListAt(i)]
<1>3. at \in Surjection(DOMAIN Book, Lists)
  BY DEF Surjection, Lists
<1> QED BY <1>2, <1>3, FS_Surjection

\* What a handler uses, as a set.
UsedBy(c, d) == {UserOf(c), UserOf(d), SessionOf(c), SessionOf(d), Market, Acceptor, Pending, Service} \cup Lists

\* What a handler has to use is of its clients, or shared.
LEMMA UsesType ==
    ASSUME NEW handler \in Handlers, NEW c, NEW d
    PROVE  Uses(handler, c, d) \in Seq(UsedBy(c, d))
<1> DEFINE S == UsedBy(c, d)
<1>1. /\ {UserOf(c), UserOf(d), SessionOf(c), SessionOf(d)} \subseteq S
      /\ {Market, Acceptor, Pending, Service} \subseteq S
      /\ Lists \subseteq S
  BY DEF UsedBy
<1>2. SetToSeq(Lists) \in Seq(S)
  <2>1. Cardinality(Lists) \in Nat /\ ExistsBijection(1..Cardinality(Lists), Lists)
    BY ListsFinite, FS_CardinalityType
  <2>2. \E f \in [1..Cardinality(Lists) -> Lists] : IsInjective(f)
    BY <2>1 DEF ExistsBijection, Bijection, Injection, IsInjective
  <2>3. SetToSeq(Lists) \in [1..Cardinality(Lists) -> Lists]
    BY <2>2 DEF SetToSeq
  <2>4. SetToSeq(Lists) \in Seq(Lists)
    BY <2>1, <2>3
  <2> QED BY <1>1, <2>4
<1> HIDE DEF S
<1>3. CASE handler = "trade"
  <2> DEFINE first == <<UserOf(c), Market>>
             last == <<UserOf(d), SessionOf(d), SessionOf(c), Service>>
  <2>1. first \in Seq(S) /\ last \in Seq(S)
    BY <1>1
  <2>2. Uses(handler, c, d) = first \o SetToSeq(Lists) \o last
    BY <1>3 DEF Uses
  <2> HIDE DEF first, last
  <2>3. first \o SetToSeq(Lists) \in Seq(S)
    BY <1>2, <2>1
  <2>4. Uses(handler, c, d) \in Seq(S)
    BY <2>1, <2>2, <2>3
  <2> QED BY <2>4 DEF S
<1>4. CASE handler = "balance"
  <2>1. Uses(handler, c, d) = <<UserOf(c), Market, SessionOf(c), Service>>
    BY <1>4 DEF Uses
  <2>2. Uses(handler, c, d) \in Seq(S)
    BY <1>1, <2>1
  <2> QED BY <2>2 DEF S
<1>5. CASE handler = "eof"
  <2>1. Uses(handler, c, d) = <<SessionOf(c), UserOf(c)>>
    BY <1>5 DEF Uses
  <2>2. Uses(handler, c, d) \in Seq(S)
    BY <1>1, <2>1
  <2> QED BY <2>2 DEF S
<1>6. CASE handler = "accept"
  <2>1. Uses(handler, c, d) = <<Pending, Service, Acceptor>>
    BY <1>6 DEF Uses
  <2>2. Uses(handler, c, d) \in Seq(S)
    BY <1>1, <2>1
  <2> QED BY <2>2 DEF S
<1>7. CASE handler \in Completions
  <2>1. Uses(handler, c, d) = <<SessionOf(c)>> \/ Uses(handler, c, d) = <<SessionOf(c), Service>>
    BY <1>7 DEF Uses, Completions
  <2>2. SessionOf(c) \in S /\ Service \in S
    BY <1>1
  <2>3. <<SessionOf(c)>> \in Seq(S)
    BY <2>2
  <2>4. <<SessionOf(c), Service>> \in Seq(S)
    BY <2>2
  <2>5. Uses(handler, c, d) \in Seq(S)
    BY <2>1, <2>3, <2>4
  <2> QED BY <2>5 DEF S
<1> QED BY <1>3, <1>4, <1>5, <1>6, <1>7 DEF Handlers, Packets

\* What processRead uses belongs to clients with a user.
LEMMA PacketUses ==
    ASSUME NEW handler \in Packets, NEW c, NEW d
    PROVE  Uses(handler, c, d) \in Seq(UsedBy(c, d))
BY UsesType DEF Handlers

\* A read works on its session, and goes on by the io_service.
LEMMA ReadUses ==
    ASSUME NEW handler \in Completions, NEW c
    PROVE  Uses(handler, c, c) \in Seq({SessionOf(c), Service})
<1>1. Uses(handler, c, c) = <<SessionOf(c)>> \/ Uses(handler, c, c) = <<SessionOf(c), Service>>
  BY DEF Uses, Completions
<1> DEFINE S == {SessionOf(c), Service}
<1>2. SessionOf(c) \in S /\ Service \in S
  OBVIOUS
<1> HIDE DEF S
<1>3. <<SessionOf(c)>> \in Seq(S)
  BY <1>2
<1>4. <<SessionOf(c), Service>> \in Seq(S)
  BY <1>2
<1>5. Uses(handler, c, c) \in Seq(S)
  BY <1>1, <1>3, <1>4
<1> QED BY <1>5 DEF S

\* A sequence over a set is one over every larger set.
LEMMA SeqWiden ==
    ASSUME NEW S, NEW T, S \subseteq T, NEW s \in Seq(S)
    PROVE  s \in Seq(T)
OBVIOUS

\* What handleAccept and acceptNext use.
LEMMA AcceptUses == Uses("accept", Newcomer, Newcomer) \in Seq({Pending, Service, Acceptor})
<1>1. Uses("accept", Newcomer, Newcomer) = <<Pending, Service, Acceptor>>
  BY DEF Uses
<1> DEFINE S == {Pending, Service, Acceptor}
<1>2. Pending \in S /\ Service \in S /\ Acceptor \in S
  OBVIOUS
<1> HIDE DEF S
<1>3. <<Pending, Service, Acceptor>> \in Seq(S)
  BY <1>2
<1> QED BY <1>1, <1>3 DEF S

\* What a handler has left to use.
LEMMA UsesLeft ==
    ASSUME NEW S, NEW uses \in Seq(S), uses # <<>>
    PROVE  /\ Head(uses) \in S
           /\ (IF LeadsNowhere(uses) THEN Tail(Tail(uses)) ELSE Tail(uses)) \in Seq(S)
<1>1. Head(uses) \in S /\ Tail(uses) \in Seq(S)
  OBVIOUS
<1>2. LeadsNowhere(uses) => Tail(Tail(uses)) \in Seq(S)
  <2> SUFFICES ASSUME LeadsNowhere(uses) PROVE Tail(Tail(uses)) \in Seq(S)
    OBVIOUS
  <2>1. Len(uses) > 1
    BY DEF LeadsNowhere
  <2> DEFINE t == Tail(uses)
  <2>2. t \in Seq(S) /\ Len(t) > 0
    BY <1>1, <2>1
  <2> HIDE DEF t
  <2>3. t # <<>>
    BY <2>2
  <2>4. Tail(t) \in Seq(S)
    BY <2>2, <2>3, HeadTailProperties
  <2> QED BY <2>4 DEF t
<1> QED BY <1>1, <1>2

\* The steps in which nothing but the place of the console thread changes.
Moves == WaitReturns \/ StopService \/ SessionsClosed \/ Finish

-----------------------------------------------------------------------------
(* Types *)

\* Whoever uses something deleted is recorded, and the process may die of it.
LEMMA UseType ==
    ASSUME TypeInv, NEW objects, NEW who \in Handlers \cup {"console", "run"}, Use(objects, who)
    PROVE  /\ faults' \subseteq Handlers \cup {"console", "unlock", "list", "run"}
           /\ process' \in {"running", "crashed", "exited"}
BY DEF TypeInv, Use

\* Every step keeps the types.
LEMMA TypeNext == TypeInv /\ [Next]_vars => TypeInv'
<1> SUFFICES ASSUME TypeInv, [Next]_vars
             PROVE  TypeInv'
  OBVIOUS
<1> USE DEF TypeInv, shutdownVars, ioVars, At
<1>1. CASE Stop
  BY <1>1 DEF Stop
<1>2. CASE Moves
  BY <1>2 DEF Moves, WaitReturns, StopService, SessionsClosed, Finish, Halted
<1>3. ASSUME NEW i \in DOMAIN Book, DeleteList(i)
      PROVE  TypeInv'
  BY <1>3 DEF DeleteList
<1>4. CASE DeleteMarket
  BY <1>4 DEF DeleteMarket
<1>5. ASSUME NEW c \in Everyone, CloseSession(c)
      PROVE  TypeInv'
  <2>1. faults' \subseteq Handlers \cup {"console", "unlock", "list", "run"} /\ process' \in {"running", "crashed", "exited"}
    BY <1>5, UseType DEF CloseSession
  <2> QED BY <1>5, <2>1 DEF CloseSession
<1>6. CASE EraseSession
  BY <1>6 DEF EraseSession
<1>7. ASSUME NEW c \in Clients, RemoveUser(c)
      PROVE  TypeInv'
  BY <1>7 DEF RemoveUser
<1>8. CASE DeleteRest
  <2>1. alive' \subseteq alive
    BY <1>8 DEF DeleteRest
  <2> QED BY <1>8, <2>1 DEF DeleteRest
<1>9. ASSUME NEW handler \in Completions, NEW c \in Clients, StartRead(handler, c)
      PROVE  TypeInv'
  <2>1. {SessionOf(c), Service} \subseteq Objects
    BY DEF Objects, Present
  <2>2. Uses(handler, c, c) \in Seq(Objects)
    <3>1. Uses(handler, c, c) \in Seq({SessionOf(c), Service})
      BY ReadUses
    <3> QED BY <2>1, <3>1, SeqWiden
  <2>3. io' \in [handler : Handlers \cup {"none"}, client : Everyone, uses : Seq(Objects)]
    BY <1>9, <2>2 DEF StartRead, Handlers, Everyone
  <2>4. io'.handler # "none"
    BY <1>9 DEF StartRead, Completions
  <2> QED BY <1>9, <2>3, <2>4 DEF StartRead
<1>16. ASSUME NEW handler \in Packets, NEW d \in Clients, ProcessRead(handler, d)
       PROVE  TypeInv'
  <2>1. io.client \in Clients
    BY <1>16 DEF ProcessRead, Completions
  <2>2. UsedBy(io.client, d) \subseteq Objects
    BY <2>1 DEF UsedBy, Objects, Present
  <2>3. Uses(handler, io.client, d) \in Seq(Objects)
    BY <2>2, PacketUses
  <2>4. io' \in [handler : Handlers \cup {"none"}, client : Everyone, uses : Seq(Objects)]
    BY <1>16, <2>1, <2>3 DEF ProcessRead, Handlers, Everyone
  <2>5. io'.handler # "none" /\ io'.handler \notin Completions
    BY <1>16 DEF ProcessRead, Packets, Completions
  <2> QED BY <1>16, <2>4, <2>5 DEF ProcessRead
<1>10. CASE StartAccept
  <2>1. {Pending, Service, Acceptor} \subseteq Objects
    BY DEF Objects, Present
  <2>2. Uses("accept", Newcomer, Newcomer) \in Seq(Objects)
    BY <2>1, AcceptUses
  <2>3. io' \in [handler : Handlers \cup {"none"}, client : Everyone, uses : Seq(Objects)]
    BY <1>10, <2>2 DEF StartAccept, Handlers, Everyone
  <2>4. io'.handler # "none" /\ io'.handler \notin Completions
    BY <1>10 DEF StartAccept, Completions
  <2> QED BY <1>10, <2>3, <2>4 DEF StartAccept
<1>11. CASE HandlerUses
  <2> DEFINE left == IF LeadsNowhere(io.uses) THEN Tail(Tail(io.uses)) ELSE Tail(io.uses)
  <2>1. left \in Seq(Objects)
    BY <1>11, UsesLeft DEF HandlerUses
  <2>2. io' = [io EXCEPT !.uses = left]
    BY <1>11 DEF HandlerUses
  <2> HIDE DEF left
  <2>3. io' \in [handler : Handlers \cup {"none"}, client : Everyone, uses : Seq(Objects)]
    BY <2>1, <2>2
  <2>4. io.handler \in Handlers /\ io'.handler = io.handler /\ io'.client = io.client
    BY <1>11, <2>2 DEF HandlerUses
  <2>5. Use({Head(io.uses)}, io.handler)
    BY <1>11 DEF HandlerUses
  <2>6. faults' \subseteq Handlers \cup {"console", "unlock", "list", "run"} /\ process' \in {"running", "crashed", "exited"}
    BY <2>4, <2>5, UseType
  <2>7. io'.handler # "none"
    BY <2>4 DEF Handlers, Packets, Completions
  <2>8. UNCHANGED <<alive, sessions, shutdownVars, running, quiet>>
    BY <1>11 DEF HandlerUses
  <2>9. io'.handler \in Completions => io'.client \in Clients
    BY <2>4
  <2> QED BY <2>3, <2>6, <2>7, <2>8, <2>9
<1>12. CASE HandlerReturns
  <2>1. /\ Idle \in [handler : Handlers \cup {"none"}, client : Everyone, uses : Seq(Objects)]
        /\ Idle.uses = <<>> /\ Idle.handler \notin Completions
    BY DEF Idle, Everyone, Completions
  <2>2. SessionOf(Newcomer) \in Objects /\ Newcomer \in Everyone
    BY DEF Objects, Everyone
  <2> QED BY <1>12, <2>1, <2>2 DEF HandlerReturns
<1>13. CASE RunReturns
  <2>1. faults' \subseteq Handlers \cup {"console", "unlock", "list", "run"} /\ process' \in {"running", "crashed", "exited"}
    BY <1>13, UseType DEF RunReturns
  <2> QED BY <1>13, <2>1 DEF RunReturns
<1>14. CASE Exit
  BY <1>14 DEF Exit
<1>15. CASE UNCHANGED vars
  BY <1>15 DEF vars
<1> QED BY <1>1, <1>2, <1>3, <1>4, <1>5, <1>6, <1>7, <1>8, <1>9, <1>10, <1>11, <1>12, <1>13,
           <1>14, <1>15, <1>16
    DEF Next, ConsoleNext, MainNext, Arrivals, Moves, Everyone

-----------------------------------------------------------------------------
(* What is alive *)

\* The objects that a step deletes or creates, by step.
LEMMA MapNext == TypeInv /\ MapInv /\ [Next]_vars => MapInv'
<1> SUFFICES ASSUME TypeInv, MapInv, [Next]_vars
             PROVE  MapInv'
  OBVIOUS
<1> USE DEF MapInv, shutdownVars, ioVars, At
<1> USE ObjectsDiffer DEF Distinct
<1>1. ASSUME NEW S, alive' = alive \ S, UNCHANGED sessions,
             \A c \in Everyone : SessionOf(c) \notin S
      PROVE  MapInv'
  BY <1>1
<1>2. ASSUME NEW i \in DOMAIN Book, DeleteList(i)
      PROVE  MapInv'
  BY <1>2 DEF DeleteList
<1>3. CASE DeleteMarket
  BY <1>3 DEF DeleteMarket
<1>4. CASE EraseSession
  BY <1>4 DEF EraseSession, TypeInv
<1>5. ASSUME NEW c \in Clients, RemoveUser(c)
      PROVE  MapInv'
  BY <1>5 DEF RemoveUser
<1>6. CASE DeleteRest
  <2>1. PICK x \in Range(Rest) : alive' = alive \ {x}
    BY <1>6 DEF DeleteRest, Range
  <2>2. \A c \in Everyone : SessionOf(c) \notin {x}
    BY <2>1, RangeOfRest
  <2>3. UNCHANGED sessions
    BY <1>6 DEF DeleteRest
  <2> QED BY <1>1, <2>1, <2>2, <2>3
<1>7. CASE HandlerReturns
  BY <1>7 DEF HandlerReturns, Everyone
<1>8. CASE UNCHANGED <<alive, sessions>>
  BY <1>8
<1>9. ASSUME NEW c \in Everyone, CloseSession(c)
      PROVE  MapInv'
  BY <1>8, <1>9 DEF CloseSession
<1>10. CASE Stop \/ Moves \/ HandlerUses \/ RunReturns \/ Exit \/ UNCHANGED vars
  BY <1>8, <1>10 DEF Stop, Moves, WaitReturns, StopService, SessionsClosed, Finish, HandlerUses, RunReturns, Exit, vars
<1>11. ASSUME Arrivals \/ \E handler \in Packets, d \in Clients : ProcessRead(handler, d)
       PROVE  MapInv'
  BY <1>8, <1>11 DEF Arrivals, StartRead, StartAccept, ProcessRead
<1> QED BY <1>2, <1>3, <1>4, <1>5, <1>6, <1>7, <1>9, <1>10, <1>11
    DEF Next, ConsoleNext, MainNext, Moves, Everyone

\* Every step keeps the order of deletion: nothing makes again what was deleted.
LEMMA OrderNext == TypeInv /\ MapInv /\ OrderInv /\ [Next]_vars => OrderInv'
<1> SUFFICES ASSUME TypeInv, MapInv, OrderInv, [Next]_vars
             PROVE  OrderInv'
  OBVIOUS
<1> USE DEF OrderInv, shutdownVars, ioVars, At
<1> USE ObjectsDiffer, RangeOfRest DEF Distinct
\* A step of a handler: only sessions come and go, and no client's session comes.
<1>1. ASSUME UNCHANGED shutdownVars,
             process' # "exited" \/ UNCHANGED process,
             \A x \in alive' \ alive : x = SessionOf(Newcomer),
             Market \in alive => Market \in alive',
             sessions' \cap Clients \subseteq sessions
      PROVE  OrderInv'
  <2>1. Market \notin alive' => Lists \cap alive' = {}
    BY <1>1 DEF Lists
  <2>2. console = "done" => (Users \cup Range(Rest)) \cap alive' = {}
    BY <1>1 DEF Users
  <2>3. Market \in alive' => Market \in alive
    BY <1>1
  <2> QED BY <1>1, <2>1, <2>2, <2>3
<1>2. CASE HandlerReturns
  <2>1. Newcomer \notin Clients
    BY ShutdownAssumption
  <2> QED BY <1>1, <1>2, <2>1 DEF HandlerReturns
<1>3. CASE HandlerUses
  <2>1. process' # "exited" \/ UNCHANGED process
    BY <1>3 DEF HandlerUses, Use
  <2> QED BY <1>1, <1>3, <2>1 DEF HandlerUses
<1>4. CASE RunReturns
  <2>1. process' # "exited" \/ UNCHANGED process
    BY <1>4 DEF RunReturns, Use
  <2> QED BY <1>1, <1>4, <2>1 DEF RunReturns
<1>5. ASSUME Arrivals \/ \E handler \in Packets, d \in Clients : ProcessRead(handler, d)
      PROVE  OrderInv'
  BY <1>1, <1>5 DEF Arrivals, StartRead, StartAccept, ProcessRead
<1>6. CASE Exit
  BY <1>6 DEF Exit, Spun
<1>7. CASE Stop \/ WaitReturns \/ StopService
  BY <1>7 DEF Stop, WaitReturns, StopService
<1>8. ASSUME NEW i \in DOMAIN Book, DeleteList(i)
      PROVE  OrderInv'
  BY <1>8 DEF DeleteList
<1>9. CASE DeleteMarket
  BY <1>9 DEF DeleteMarket
<1>10. ASSUME NEW c \in Everyone, CloseSession(c)
       PROVE  OrderInv'
  <2>1. process' # "exited" \/ UNCHANGED process
    BY <1>10 DEF CloseSession, Use
  <2> QED BY <1>10, <2>1 DEF CloseSession
<1>11. CASE EraseSession
  BY <1>11 DEF EraseSession
<1>12. CASE SessionsClosed
  BY <1>12 DEF SessionsClosed
<1>13. ASSUME NEW c \in Clients, RemoveUser(c)
       PROVE  OrderInv'
  BY <1>13 DEF RemoveUser
<1>14. CASE DeleteRest
  <2>1. PICK x \in Range(Rest) : alive' = alive \ {x}
    BY <1>14 DEF DeleteRest, Range
  <2>2. Market # x
    BY <2>1
  <2> QED BY <1>14, <2>1, <2>2 DEF DeleteRest
<1>15. CASE Finish
  BY <1>15 DEF Finish, Users
<1>16. CASE UNCHANGED vars
  BY <1>16 DEF vars
<1> QED BY <1>2, <1>3, <1>4, <1>5, <1>6, <1>7, <1>8, <1>9, <1>10, <1>11, <1>12, <1>13, <1>14,
           <1>15, <1>16
    DEF Next, ConsoleNext, MainNext, Everyone

-----------------------------------------------------------------------------
(* Until stop is typed *)

\* Until stop is typed nothing is deleted but sessions that were closed.
LEMMA BeforeNext == TypeInv /\ MapInv /\ BeforeStop /\ [Next]_vars => BeforeStop'
<1> SUFFICES ASSUME TypeInv, MapInv, BeforeStop, [Next]_vars
             PROVE  BeforeStop'
  OBVIOUS
<1> USE DEF shutdownVars, ioVars, At
\* Before stop a handler uses what is there, and nothing that it leaves behind is missing.
<1>1. ASSUME UNCHANGED <<stopped, halted, console>>,
             Users \cap alive \subseteq alive',
             console = "input" =>
                /\ ~quiet'
                /\ (Lists \cup {Market} \cup Range(Rest)) \cap alive \subseteq alive'
                /\ io'.uses \in Seq(alive')
                /\ faults' = {},
             {Service} \cap alive \subseteq alive',
             console \in {"input", "wait", "stop", "market"} /\ io'.handler \in Completions =>
                io'.client \in sessions'
      PROVE  BeforeStop'
  BY <1>1 DEF BeforeStop
<1>2. ASSUME console # "input", console' # "input", UNCHANGED stopped,
             console' \in {"wait", "stop", "market", "sessions"} =>
                /\ console \in {"wait", "stop", "market", "sessions"}
                /\ Users \cap alive \subseteq alive'
                /\ {Service} \cap alive \subseteq alive',
             console' \in {"wait", "stop", "market"} =>
                console \in {"wait", "stop", "market"} /\ UNCHANGED <<io, sessions>>
      PROVE  BeforeStop'
  BY <1>2 DEF BeforeStop, TypeInv
<1>3. CASE Stop
  BY <1>3 DEF Stop, BeforeStop
<1>4. CASE Moves
  BY <1>2, <1>4 DEF Moves, WaitReturns, StopService, SessionsClosed, Finish
<1>5. ASSUME NEW i \in DOMAIN Book, DeleteList(i)
      PROVE  BeforeStop'
  BY <1>2, <1>5, ObjectsDiffer DEF DeleteList, Distinct, Users
<1>6. CASE DeleteMarket
  BY <1>2, <1>6, ObjectsDiffer DEF DeleteMarket, Distinct, Users
<1>7. ASSUME NEW c \in Everyone, CloseSession(c)
      PROVE  BeforeStop'
  BY <1>2, <1>7 DEF CloseSession
<1>8. CASE EraseSession
  BY <1>2, <1>8, ObjectsDiffer DEF EraseSession, Distinct, Users
<1>9. ASSUME NEW c \in Clients, RemoveUser(c)
      PROVE  BeforeStop'
  BY <1>2, <1>9 DEF RemoveUser
<1>10. CASE DeleteRest
  BY <1>2, <1>10 DEF DeleteRest
<1>11. ASSUME NEW handler \in Completions, NEW c \in Clients, StartRead(handler, c)
       PROVE  BeforeStop'
  <2>1. c \in sessions /\ io' = [handler |-> handler, client |-> c, uses |-> Uses(handler, c, c)]
    BY <1>11 DEF StartRead
  <2>2. ASSUME console = "input"
        PROVE  io'.uses \in Seq(alive')
    <3>1. {SessionOf(c), Service} \subseteq alive
      BY <2>1, <2>2 DEF BeforeStop, MapInv, Everyone
    <3>2. Uses(handler, c, c) \in Seq(alive)
      <4>1. Uses(handler, c, c) \in Seq({SessionOf(c), Service})
        BY ReadUses
      <4> QED BY <3>1, <4>1, SeqWiden
    <3>3. io'.uses = Uses(handler, c, c) /\ UNCHANGED alive
      BY <1>11 DEF StartRead
    <3> QED BY <3>2, <3>3
  <2>3. UNCHANGED <<stopped, halted, console, alive, sessions, quiet, faults>>
    BY <1>11 DEF StartRead
  <2> QED BY <1>1, <2>1, <2>2, <2>3 DEF BeforeStop
<1>18. ASSUME NEW handler \in Packets, NEW d \in Clients, ProcessRead(handler, d)
       PROVE  BeforeStop'
  <2>1. /\ io.handler \in Completions /\ d \in sessions
        /\ io'.uses = Uses(handler, io.client, d) /\ io'.handler \notin Completions
        /\ UNCHANGED <<stopped, halted, console, alive, sessions, quiet, faults>>
    BY <1>18 DEF ProcessRead, Completions, Packets
  <2>2. io.client \in Clients
    BY <2>1 DEF TypeInv
  <2>3. ASSUME console = "input"
        PROVE  io'.uses \in Seq(alive')
    <3>1. {UserOf(io.client), UserOf(d), Market} \cup Lists \cup Range(Rest) \subseteq alive
      BY <2>2, <2>3 DEF BeforeStop, Users
    <3>2. SessionOf(io.client) \in alive /\ SessionOf(d) \in alive
      BY <2>1, <2>2, <2>3 DEF MapInv, Everyone, BeforeStop
    <3>3. UsedBy(io.client, d) \subseteq alive
      BY <3>1, <3>2, RangeOfRest DEF UsedBy
    <3>4. Uses(handler, io.client, d) \in Seq(alive)
      BY <3>3, PacketUses
    <3> QED BY <2>1, <3>4
  <2> QED BY <1>1, <2>1, <2>3 DEF BeforeStop
<1>12. CASE StartAccept
  <2>1. ASSUME console = "input"
        PROVE  io'.uses \in Seq(alive')
    <3>1. {Pending, Service, Acceptor} \subseteq alive
      BY <2>1, RangeOfRest DEF BeforeStop
    <3>2. Uses("accept", Newcomer, Newcomer) \in Seq(alive)
      BY <3>1, AcceptUses
    <3>3. io'.uses = Uses("accept", Newcomer, Newcomer) /\ UNCHANGED alive
      BY <1>12 DEF StartAccept
    <3> QED BY <3>2, <3>3
  <2>2. UNCHANGED <<stopped, halted, console, alive, faults>> /\ ~quiet' /\ io'.handler \notin Completions
    BY <1>12 DEF StartAccept, Completions
  <2> QED BY <1>1, <2>1, <2>2 DEF BeforeStop
<1>13. CASE HandlerUses
  <2> DEFINE left == IF LeadsNowhere(io.uses) THEN Tail(Tail(io.uses)) ELSE Tail(io.uses)
  <2>1. /\ io.uses # <<>> /\ io' = [io EXCEPT !.uses = left]
        /\ Use({Head(io.uses)}, io.handler)
        /\ UNCHANGED <<stopped, halted, console, alive, sessions, quiet>>
    BY <1>13 DEF HandlerUses
  <2>2. ASSUME console = "input"
        PROVE  left \in Seq(alive) /\ Head(io.uses) \in alive
    BY <2>1, <2>2, UsesLeft DEF BeforeStop
  <2> HIDE DEF left
  <2>3. io'.uses = left /\ io'.handler = io.handler /\ io'.client = io.client
    BY <2>1 DEF TypeInv
  <2>4. console = "input" => faults' = {}
    BY <2>1, <2>2 DEF Use, BeforeStop
  <2> QED BY <1>1, <2>1, <2>2, <2>3, <2>4 DEF BeforeStop
<1>14. CASE HandlerReturns
  <2>1. Idle.uses \in Seq(alive') /\ Idle.handler \notin Completions
    BY DEF Idle, Completions
  <2>2. io' = Idle /\ UNCHANGED <<stopped, halted, console, quiet, faults>>
    BY <1>14 DEF HandlerReturns
  <2>3. \A x \in alive : x \in alive' \/ \E c : x = SessionOf(c)
    BY <1>14 DEF HandlerReturns
  <2>4. /\ Users \cap alive \subseteq alive' /\ (Lists \cup {Market} \cup Range(Rest)) \cap alive \subseteq alive'
        /\ {Service} \cap alive \subseteq alive'
    BY <2>3, ObjectsDiffer, RangeOfRest DEF Distinct, Users, Lists
  <2> QED BY <1>1, <2>1, <2>2, <2>4 DEF BeforeStop
<1>15. CASE RunReturns
  <2>1. UNCHANGED <<stopped, halted, console, alive, sessions, io>> /\ halted
    BY <1>15 DEF RunReturns
  <2> QED BY <1>1, <2>1 DEF BeforeStop
<1>16. CASE Exit
  BY <1>16 DEF Exit, BeforeStop
<1>17. CASE UNCHANGED vars
  BY <1>17 DEF vars, BeforeStop
<1> QED BY <1>3, <1>4, <1>5, <1>6, <1>7, <1>8, <1>9, <1>10, <1>11, <1>12, <1>13,
           <1>14, <1>15, <1>16, <1>17, <1>18
    DEF Next, ConsoleNext, MainNext, Arrivals, Moves, Everyone

-----------------------------------------------------------------------------
(* After a quiet stop *)

\* The loop of the destructor over a list of one request.
LEMMA OneTurn == Turns(1).deleted = [r \in 1..1 |-> 1] /\ ~Turns(1).bad
<1> DEFINE first == [queue |-> [r \in 1..1 |-> r], deleted |-> [r \in 1..1 |-> 0], bad |-> FALSE]
           body(f) == [i \in 0..1 |-> IF i = 0 THEN first ELSE Turn(f[i - 1], i - 1)]
           witness == [i \in 0..1 |-> IF i = 0 THEN first ELSE Turn(first, 0)]
<1>1. witness = body(witness)
  OBVIOUS
<1>2. \E f : f = body(f)
  BY <1>1
<1> DEFINE state == CHOOSE f : f = body(f)
<1>3. state = body(state)
  BY <1>2
<1>4. Turns(1) = state[1]
  BY DEF Turns
<1> HIDE DEF state
<1>5. state[0] = first /\ state[1] = Turn(state[0], 0)
  <2> HIDE DEF first
  <2>1. \A i \in 0..1 : state[i] = IF i = 0 THEN first ELSE Turn(state[i - 1], i - 1)
    BY <1>3
  <2>2. 0 \in 0..1 /\ 1 \in 0..1 /\ 1 - 1 = 0
    OBVIOUS
  <2>3. state[1] = Turn(state[1 - 1], 1 - 1)
    BY <2>1, <2>2
  <2> QED BY <2>1, <2>2, <2>3
<1>6. Turns(1) = Turn(first, 0)
  BY <1>4, <1>5
<1>7. first.queue # <<>> /\ Head(first.queue) = 1 /\ Len(first.queue) = 1 /\ ~first.bad
  OBVIOUS
<1>8. first.deleted = [r \in 1..1 |-> 0]
  OBVIOUS
<1> HIDE DEF first
<1>9. /\ Turn(first, 0).deleted = [first.deleted EXCEPT ![1] = @ + 1]
      /\ Turn(first, 0).bad = (first.bad \/ 0 >= Len(first.queue))
  BY <1>7 DEF Turn
<1>10. ~Turn(first, 0).bad
  <2>1. ~(0 >= Len(first.queue))
    BY <1>7
  <2> QED BY <1>7, <1>9, <2>1, Zenon
<1> QED BY <1>6, <1>8, <1>9, <1>10

\* A step that neither makes the stop quiet nor moves a read, and records no new fault.
LEMMA QuietStep ==
    ASSUME QuietInv, TypeInv, TypeInv',
           quiet' => quiet /\ UNCHANGED <<io, sessions, doomed, closing>>,
           console' \in {"input", "wait", "stop", "market"} =>
                console \in {"input", "wait", "stop", "market"} /\ UNCHANGED <<doomed, closing>>,
           quiet' => faults' \subseteq faults \cup {"run"}
    PROVE  QuietInv'
<1>1. quiet' => QuietStopIsContained'
  <2> SUFFICES ASSUME quiet' PROVE QuietStopIsContained'
    OBVIOUS
  <2>1. /\ faults \subseteq Completions \cup {"unlock", "list", "run"}
        /\ "unlock" \in faults => Book # <<>>
        /\ "list" \in faults => \E i \in DOMAIN Book : Book[i] > 1
        /\ faults \cap Completions # {} => console \in {"sessions", "users", "done"}
    BY DEF QuietInv, QuietStopIsContained
  <2>2. faults' \cap Completions \subseteq faults \cap Completions
    BY DEF Completions
  <2>3. faults' \cap Completions # {} => console' \in {"sessions", "users", "done"}
    BY <2>1, <2>2 DEF TypeInv
  <2> QED BY <2>1, <2>3 DEF QuietStopIsContained
<1> QED BY <1>1 DEF QuietInv, QuietStopIsContained

\* After a quiet stop nothing that is read is handled: what is deleted then is used by shutdown,
\* by run, and by the end of a read.
LEMMA QuietNext == TypeInv /\ MapInv /\ BeforeStop /\ QuietInv /\ [Next]_vars => QuietInv'
<1> SUFFICES ASSUME TypeInv, MapInv, BeforeStop, QuietInv, [Next]_vars
             PROVE  QuietInv'
  OBVIOUS
<1> USE DEF shutdownVars, ioVars, At
<1> TypeInv'
  BY TypeNext
<1>1. CASE Stop
  <2>1. doomed = {} /\ closing = {} /\ faults = {}
    BY <1>1 DEF Stop, BeforeStop, QuietInv
  <2>2. Idle.handler = "none" /\ Idle.uses \in Seq({SessionOf(Idle.client), Service})
    BY DEF Idle
  <2>3. quiet' => io' = Idle /\ doomed' = {} /\ faults' = {}
    BY <1>1, <2>1 DEF Stop
  <2>4. QuietStopIsContained'
    BY <2>3 DEF QuietStopIsContained
  <2> QED BY <1>1, <2>1, <2>2, <2>3, <2>4 DEF Stop, QuietInv
<1>2. CASE Moves
  BY <1>2, QuietStep DEF Moves, WaitReturns, StopService, SessionsClosed, Finish
<1>3. ASSUME NEW i \in DOMAIN Book, DeleteList(i)
      PROVE  QuietInv'
  <2>1. /\ faults' = faults \cup {"unlock"} \cup (IF Turns(Book[i]).bad THEN {"list"} ELSE {})
        /\ console = "market" /\ UNCHANGED <<io, sessions, doomed, closing, console, quiet>>
    BY <1>3 DEF DeleteList
  <2>2. Book # <<>> /\ (Turns(Book[i]).bad => Book[i] > 1)
    <3>1. Book[i] \in Nat \ {0} /\ Book # <<>>
      BY ShutdownAssumption
    <3>2. Book[i] = 1 => ~Turns(Book[i]).bad
      BY OneTurn
    <3> QED BY <3>1, <3>2
  <2>3. ASSUME quiet
        PROVE  QuietStopIsContained'
    <3>1. /\ faults \subseteq Completions \cup {"unlock", "list", "run"}
          /\ "list" \in faults => \E j \in DOMAIN Book : Book[j] > 1
          /\ faults \cap Completions = {}
      BY <2>1, <2>3 DEF QuietInv, QuietStopIsContained
    <3>2. faults' \cap Completions = {}
      BY <2>1, <3>1 DEF Completions
    <3>3. faults' \subseteq Completions \cup {"unlock", "list", "run"}
      BY <2>1, <3>1
    <3>4. "list" \in faults' => \E j \in DOMAIN Book : Book[j] > 1
      BY <2>1, <2>2, <3>1
    <3> QED BY <2>2, <3>2, <3>3, <3>4 DEF QuietStopIsContained
  <2>4. QuietStopIsContained'
    BY <2>1, <2>3 DEF QuietStopIsContained
  <2> QED BY <2>1, <2>4 DEF QuietInv
<1>4. CASE DeleteMarket
  BY <1>4 DEF DeleteMarket, QuietInv, QuietStopIsContained
<1>5. ASSUME NEW c \in Everyone, CloseSession(c)
      PROVE  QuietInv'
  <2>1. /\ console = "sessions" /\ c \in doomed /\ closing = {}
        /\ doomed' = doomed \ {c} /\ closing' = {c} \cap sessions
        /\ UNCHANGED <<sessions, console, io, quiet>>
    BY <1>5 DEF CloseSession
  <2>2. ASSUME quiet
        PROVE  UNCHANGED faults
    <3>1. SessionOf(c) \in alive
      BY <2>1, <2>2 DEF QuietInv, MapInv
    <3>2. c \in Clients => UserOf(c) \in alive
      BY <2>1 DEF BeforeStop, Users
    <3> QED BY <1>5, <3>1, <3>2 DEF CloseSession, Use
  <2>3. QuietStopIsContained'
    BY <2>1, <2>2 DEF QuietInv, QuietStopIsContained
  <2> QED BY <2>1, <2>3 DEF QuietInv
<1>6. CASE EraseSession
  BY <1>6 DEF EraseSession, QuietInv, QuietStopIsContained
<1>7. ASSUME NEW c \in Clients, RemoveUser(c)
      PROVE  QuietInv'
  BY <1>7, QuietStep DEF RemoveUser
<1>8. CASE DeleteRest
  BY <1>8, QuietStep DEF DeleteRest
<1>9. ASSUME NEW handler \in Completions, NEW c \in Clients, StartRead(handler, c)
      PROVE  QuietInv'
  <2>1. /\ io' = [handler |-> handler, client |-> c, uses |-> Uses(handler, c, c)]
        /\ UNCHANGED <<quiet, console, sessions, doomed, closing, faults>>
    BY <1>9 DEF StartRead
  <2>2. Uses(handler, c, c) \in Seq({SessionOf(c), Service})
    BY ReadUses
  <2>3. io'.handler = handler /\ io'.client = c /\ io'.uses = Uses(handler, c, c)
    BY <2>1
  <2>4. QuietStopIsContained'
    BY <2>1 DEF QuietInv, QuietStopIsContained
  <2> QED BY <2>1, <2>2, <2>3, <2>4 DEF QuietInv
<1>10. CASE StartAccept
  BY <1>10, QuietStep DEF StartAccept
<1>11. CASE HandlerUses
  <2> DEFINE left == IF LeadsNowhere(io.uses) THEN Tail(Tail(io.uses)) ELSE Tail(io.uses)
             S == {SessionOf(io.client), Service}
  <2>1. /\ io.uses # <<>> /\ io' = [io EXCEPT !.uses = left]
        /\ Use({Head(io.uses)}, io.handler)
        /\ UNCHANGED <<alive, sessions, console, doomed, closing, quiet>>
    BY <1>11 DEF HandlerUses
  <2>2. ASSUME quiet
        PROVE  left \in Seq(S) /\ Head(io.uses) \in S
    BY <2>1, <2>2, UsesLeft DEF QuietInv
  <2> HIDE DEF left
  <2>3. io'.uses = left /\ io'.handler = io.handler /\ io'.client = io.client
    BY <2>1 DEF TypeInv
  <2>4. ASSUME quiet
        PROVE  /\ faults' \subseteq faults \cup Completions
               /\ console \in {"sessions", "users", "done"} \/ UNCHANGED faults
    <3>1. io.handler \in Completions /\ stopped
      BY <2>1, <2>4 DEF QuietInv, TypeInv, BeforeStop
    <3>2. console \in {"input", "wait", "stop", "market"} => {SessionOf(io.client), Service} \subseteq alive
      BY <3>1 DEF BeforeStop, MapInv, TypeInv
    <3> QED BY <2>1, <2>2, <2>4, <3>1, <3>2 DEF Use, TypeInv
  <2>5. QuietStopIsContained'
    <3> SUFFICES ASSUME quiet PROVE QuietStopIsContained'
      BY <2>1 DEF QuietStopIsContained
    <3>1. /\ faults \subseteq Completions \cup {"unlock", "list", "run"}
          /\ "unlock" \in faults => Book # <<>>
          /\ "list" \in faults => \E i \in DOMAIN Book : Book[i] > 1
          /\ faults \cap Completions # {} => console \in {"sessions", "users", "done"}
      BY DEF QuietInv, QuietStopIsContained
    <3>2. ("unlock" \in faults' => "unlock" \in faults) /\ ("list" \in faults' => "list" \in faults)
      BY <2>4 DEF Completions
    <3>3. faults' \cap Completions # {} => console \in {"sessions", "users", "done"}
      BY <2>4, <3>1
    <3> QED BY <2>1, <2>4, <3>1, <3>2, <3>3 DEF QuietStopIsContained
  <2> QED BY <2>1, <2>2, <2>3, <2>5 DEF QuietInv
<1>12. CASE HandlerReturns
  <2>1. Idle.handler = "none" /\ Idle.uses \in Seq({SessionOf(Idle.client), Service})
    BY DEF Idle
  <2>2. io' = Idle /\ UNCHANGED <<console, doomed, closing, quiet, faults>>
    BY <1>12 DEF HandlerReturns
  <2>3. quiet => UNCHANGED sessions
    BY <1>12 DEF HandlerReturns, QuietInv, Completions
  <2>4. QuietStopIsContained'
    BY <2>2 DEF QuietInv, QuietStopIsContained
  <2> QED BY <2>1, <2>2, <2>3, <2>4 DEF QuietInv
<1>13. ASSUME NEW handler \in Packets, NEW d \in Clients, ProcessRead(handler, d)
       PROVE  QuietInv'
  <2>1. ~stopped /\ UNCHANGED <<quiet, console, doomed, closing, faults>>
    BY <1>13 DEF ProcessRead, Returns
  <2>2. ~quiet
    BY <2>1 DEF BeforeStop
  <2> QED BY <2>1, <2>2, QuietStep
<1>14. CASE RunReturns
  <2>1. faults' \subseteq faults \cup {"run"}
    BY <1>14 DEF RunReturns, Use
  <2> QED BY <1>14, <2>1, QuietStep DEF RunReturns
<1>15. CASE Exit \/ UNCHANGED vars
  BY <1>15, QuietStep DEF Exit, vars
<1> QED BY <1>1, <1>2, <1>3, <1>4, <1>5, <1>6, <1>7, <1>8, <1>9, <1>10, <1>11, <1>12, <1>13, <1>14,
           <1>15
    DEF Next, ConsoleNext, MainNext, Arrivals, Moves, Everyone

-----------------------------------------------------------------------------
(* The requests *)

\* A list is deleted once, by DeleteList.
LEMMA DeletedNext == TypeInv /\ DeletedInv /\ [Next]_vars => DeletedInv'
<1> SUFFICES ASSUME TypeInv, DeletedInv, [Next]_vars
             PROVE  DeletedInv'
  OBVIOUS
<1> USE DEF shutdownVars, ioVars, At
<1>1. ASSUME UNCHANGED deleted, Lists \cap alive \subseteq alive'
      PROVE  DeletedInv'
  BY <1>1 DEF DeletedInv, Lists
<1>2. ASSUME NEW i \in DOMAIN Book, DeleteList(i)
      PROVE  DeletedInv'
  <2>1. deleted' = [deleted EXCEPT ![i] = Turns(Book[i]).deleted] /\ alive' = alive \ {ListAt(i)}
    BY <1>2 DEF DeleteList
  <2>2. \A j \in DOMAIN Book \ {i} : ListAt(j) \notin alive' => ListAt(j) \notin alive
    BY <2>1, ObjectsDiffer DEF Distinct
  <2>3. deleted' = [j \in DOMAIN Book |-> deleted'[j]]
    BY <2>1 DEF DeletedInv
  <2>4. deleted'[i] = Turns(Book[i]).deleted /\ \A j \in DOMAIN Book \ {i} : deleted'[j] = deleted[j]
    BY <2>1 DEF DeletedInv
  <2> QED BY <2>2, <2>3, <2>4 DEF DeletedInv
<1> USE ObjectsDiffer DEF Distinct, Lists
<1>3. CASE DeleteMarket
  BY <1>1, <1>3 DEF DeleteMarket
<1>4. CASE EraseSession
  BY <1>1, <1>4 DEF EraseSession
<1>5. ASSUME NEW c \in Clients, RemoveUser(c)
      PROVE  DeletedInv'
  BY <1>1, <1>5 DEF RemoveUser
<1>6. CASE DeleteRest
  <2>1. PICK x \in Range(Rest) : alive' = alive \ {x}
    BY <1>6 DEF DeleteRest, Range
  <2>2. x \notin Lists
    BY <2>1, RangeOfRest
  <2> QED BY <1>1, <1>6, <2>1, <2>2 DEF DeleteRest
<1>7. CASE HandlerReturns
  BY <1>1, <1>7 DEF HandlerReturns
<1>8. ASSUME UNCHANGED <<deleted, alive>>
      PROVE  DeletedInv'
  BY <1>1, <1>8
<1>9. ASSUME NEW c \in Everyone, CloseSession(c)
      PROVE  DeletedInv'
  BY <1>8, <1>9 DEF CloseSession
<1>10. CASE Stop \/ Moves \/ HandlerUses \/ RunReturns \/ Exit \/ UNCHANGED vars
  BY <1>8, <1>10 DEF Stop, Moves, WaitReturns, StopService, SessionsClosed, Finish, HandlerUses,
     RunReturns, Exit, vars
<1>11. ASSUME Arrivals \/ \E handler \in Packets, d \in Clients : ProcessRead(handler, d)
       PROVE  DeletedInv'
  BY <1>8, <1>11 DEF Arrivals, StartRead, StartAccept, ProcessRead
<1> QED BY <1>2, <1>3, <1>4, <1>5, <1>6, <1>7, <1>9, <1>10, <1>11
    DEF Next, ConsoleNext, MainNext, Moves, Everyone

-----------------------------------------------------------------------------
(* The theorems *)

\* Everything is there, and nobody uses it.
LEMMA InitSafe == Init => SafetyInv
<1> SUFFICES ASSUME Init PROVE SafetyInv
  OBVIOUS
<1> USE DEF Init
<1>1. Newcomer \notin Clients
  BY ShutdownAssumption
<1>2. Idle \in [handler : Handlers \cup {"none"}, client : Everyone, uses : Seq(Objects)]
      /\ Idle.uses = <<>> /\ Idle.uses \in Seq(alive) /\ Idle.handler \notin Completions
  BY DEF Idle, Everyone, Completions
<1>3. TypeInv
  <2>1. alive \subseteq Objects /\ sessions \subseteq Everyone
    BY DEF Objects, Everyone
  <2> QED BY <1>2, <2>1 DEF TypeInv
<1>4. MapInv
  BY <1>1, ObjectsDiffer DEF MapInv, Everyone, Present, Distinct, Lists
<1>5. OrderInv
  BY DEF OrderInv, Present
<1>6. BeforeStop
  BY <1>2, RangeOfRest DEF BeforeStop, Present, Users
<1>7. QuietInv
  BY DEF QuietInv, QuietStopIsContained
<1>8. DeletedInv
  BY DEF DeletedInv, Present, Lists
<1> QED BY <1>3, <1>4, <1>5, <1>6, <1>7, <1>8 DEF SafetyInv

\* The conjuncts hold together: each step of one rests on the ones before it.
LEMMA SafetyNext == SafetyInv /\ [Next]_vars => SafetyInv'
BY TypeNext, MapNext, OrderNext, BeforeNext, QuietNext, DeletedNext DEF SafetyInv

\* Objects, sessions, the running handler and the console's place keep their types, whatever
\* the two threads do to each other.
THEOREM TypeCorrect == Spec => []TypeInv
<1>1. SafetyInv => TypeInv
  BY DEF SafetyInv
<1> QED BY <1>1, InitSafe, SafetyNext, PTL DEF Spec

\* When stop is typed while no handler is at work, and nobody connects after it, then the
\* look at stopped in processRead (session.cpp:67) keeps every packet from what shutdown
\* deletes, for any number of clients and any book.  What is used after its deletion in such a
\* stop is the mutex of a list, if there is a list; a request, if several wait at one price; the
\* session of a read that was under way, once shutdown is past the market; and the io_service.
THEOREM QuietStop == Spec => []QuietStopIsContained
<1>1. SafetyInv => QuietStopIsContained
  BY DEF SafetyInv, QuietInv
<1> QED BY <1>1, InitSafe, SafetyNext, PTL DEF Spec

\* main returns from its spin on finally_shutdown only when the console thread has deleted
\* the market, its lists, every session and user, the acceptor, the pending session and the
\* io_service.
THEOREM ExitComesLast == Spec => []ExitIsLast
<1>1. SafetyInv => ExitIsLast
  <2> SUFFICES ASSUME SafetyInv, process = "exited"
               PROVE  alive \cap Present = {}
    BY DEF ExitIsLast
  <2>1. console = "done"
    BY DEF SafetyInv, OrderInv
  <2>2. Lists \cap alive = {} /\ Market \notin alive
    BY <2>1 DEF SafetyInv, OrderInv
  <2>3. (Users \cup {Acceptor, Pending, Service}) \cap alive = {}
    BY <2>1, RangeOfRest DEF SafetyInv, OrderInv
  <2>4. \A c \in Clients : SessionOf(c) \notin alive
    BY <2>1 DEF SafetyInv, OrderInv, MapInv, Everyone
  <2> QED BY <2>2, <2>3, <2>4 DEF Present, Users
<1> QED BY <1>1, InitSafe, SafetyNext, PTL DEF Spec

\* The destructor of TransactionList deletes the request at a price where one waits, and
\* deletes it once, before the market is gone, for any number of price lists.
THEOREM LoneRequestsDeleted == Spec => []RequestsDeleted
<1>1. SafetyInv => RequestsDeleted
  <2> SUFFICES ASSUME SafetyInv, Market \notin alive, NEW i \in DOMAIN Book, Book[i] = 1
               PROVE  deleted[i] = [r \in 1..1 |-> 1]
    BY DEF RequestsDeleted
  <2>1. ListAt(i) \notin alive
    BY DEF SafetyInv, OrderInv, Lists
  <2>2. deleted[i] = Turns(1).deleted
    BY <2>1 DEF SafetyInv, DeletedInv
  <2> QED BY <2>2, OneTurn
<1> QED BY <1>1, InitSafe, SafetyNext, PTL DEF Spec
=============================================================================
