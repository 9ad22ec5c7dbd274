--------------------------- MODULE SessionsProofs ---------------------------
(***************************************************************************)
(* Theorems about Sessions, for every set of clients, logins and passwords *)
(* and every bound.                                                        *)
(***************************************************************************)
EXTENDS Sessions, SequenceTheorems, FiniteSetTheorems, TLAPS

-----------------------------------------------------------------------------
(* The operators on the session map *)

\* What is inserted into the map is in it, with all that was there.
LEMMA InsertedProperties ==
    ASSUME sessions \in Seq(Clients), NEW c \in Clients, NEW t \in Inserted(c)
    PROVE  /\ t \in Seq(Clients)
           /\ Range(sessions) \cup {c} \subseteq Range(t)
<1>1. CASE Len(sessions) = Buckets
  <2> DEFINE S == Range(sessions) \cup {c}
             D == 1..Cardinality(S)
  <2>1. t \in [D -> S] /\ \A i, j \in D : i # j => t[i] # t[j]
    BY <1>1 DEF Inserted, SetToSeqs
  <2>2. S \subseteq Clients
    BY RangeOfSeq
  <2>3. IsFiniteSet(S)
    <3>1. IsFiniteSet(1..Len(sessions))
      BY FS_Interval, LenProperties
    <3>2. sessions \in Surjection(1..Len(sessions), Range(sessions))
      BY LenProperties DEF Surjection, Range
    <3> QED BY <3>1, <3>2, FS_Surjection, FS_AddElement
  <2>4. Cardinality(S) \in Nat
    BY <2>3, FS_CardinalityType
  <2> HIDE DEF S
  <2>5. IsFiniteSet(D) /\ Cardinality(D) = Cardinality(S)
    BY <2>4, FS_Interval
  <2>6. t \in Injection(D, S)
    BY <2>1 DEF Injection, IsInjective
  <2>7. t \in Surjection(D, S)
    BY <2>3, <2>5, <2>6, FS_Injection
  <2>8. S \subseteq Range(t)
    BY <2>7 DEF Surjection, Range
  <2>9. t \in Seq(Clients)
    BY <2>1, <2>2, <2>4
  <2> QED BY <2>8, <2>9 DEF S
<1>2. CASE Len(sessions) # Buckets
  <2>1. PICK i \in 1..(Len(sessions) + 1) : t = InsertAt(sessions, i, c)
    BY <1>2 DEF Inserted
  <2> DEFINE s1 == SubSeq(sessions, 1, i - 1)
             s2 == SubSeq(sessions, i, Len(sessions))
  <2>2. /\ s1 \in Seq(Clients) /\ Len(s1) = i - 1
        /\ \A j \in 1..(i - 1) : s1[j] = sessions[j]
    BY <2>1, SubSeqProperties
  <2>3. /\ s2 \in Seq(Clients) /\ Len(s2) = Len(sessions) - i + 1
        /\ \A j \in 1..(Len(sessions) - i + 1) : s2[j] = sessions[i + j - 1]
    BY <2>1, SubSeqProperties
  <2>4. t = s1 \o <<c>> \o s2
    BY <2>1 DEF InsertAt
  <2> HIDE DEF s1, s2
  <2>5. t \in Seq(Clients) /\ Range(t) = Range(s1) \cup {c} \cup Range(s2)
    <3> DEFINE one == <<c>>
    <3>1. one \in Seq(Clients) /\ Range(one) = {c}
      BY DEF Range
    <3> HIDE DEF one
    <3>2. Range(s1 \o one) = Range(s1) \cup {c}
      BY <2>2, <3>1, RangeConcatenation
    <3>3. s1 \o one \in Seq(Clients)
      BY <2>2, <3>1
    <3>4. Range((s1 \o one) \o s2) = Range(s1 \o one) \cup Range(s2)
      BY <2>3, <3>3, RangeConcatenation
    <3>5. t \in Seq(Clients)
      BY <2>3, <2>4, <3>3 DEF one
    <3> QED BY <2>4, <3>2, <3>4, <3>5 DEF one
  <2>6. ASSUME NEW d \in Range(sessions)
        PROVE  d \in Range(s1) \cup Range(s2)
    <3>1. PICK j \in 1..Len(sessions) : sessions[j] = d
      BY DEF Range
    <3>2. CASE j < i
      BY <2>1, <2>2, <3>1, <3>2 DEF Range
    <3>3. CASE j >= i
      <4>1. j - i + 1 \in 1..(Len(sessions) - i + 1) /\ i + (j - i + 1) - 1 = j
        BY <2>1, <3>1, <3>3
      <4>2. s2[j - i + 1] = d
        BY <2>3, <3>1, <4>1
      <4> QED BY <2>3, <4>1, <4>2 DEF Range
    <3> QED BY <2>1, <3>1, <3>2, <3>3
  <2> QED BY <2>5, <2>6
<1> QED BY <1>1, <1>2

\* An erasure takes out nothing but what it is told to.
LEMMA ErasedProperties ==
    ASSUME sessions \in Seq(Clients), NEW c \in Range(sessions)
    PROVE  /\ RemoveAt(sessions, Position(c)) \in Seq(Clients)
           /\ Range(sessions) \ {c} \subseteq Range(RemoveAt(sessions, Position(c)))
<1> DEFINE i == Position(c)
           s1 == SubSeq(sessions, 1, i - 1)
           s2 == SubSeq(sessions, i + 1, Len(sessions))
<1>1. i \in 1..Len(sessions) /\ sessions[i] = c
  <2>1. \E j \in DOMAIN sessions : sessions[j] = c
    BY DEF Range
  <2> QED BY <2>1 DEF Position
<1> HIDE DEF i
<1>2. /\ s1 \in Seq(Clients) /\ Len(s1) = i - 1
      /\ \A j \in 1..(i - 1) : s1[j] = sessions[j]
  BY <1>1, SubSeqProperties
<1>3. /\ s2 \in Seq(Clients) /\ Len(s2) = Len(sessions) - i
      /\ \A j \in 1..(Len(sessions) - i) : s2[j] = sessions[i + j]
  BY <1>1, SubSeqProperties
<1>4. RemoveAt(sessions, i) = s1 \o s2
  BY DEF RemoveAt
<1> HIDE DEF s1, s2
<1>5. ASSUME NEW d \in Range(sessions) \ {c}
      PROVE  d \in Range(s1) \cup Range(s2)
  <2>1. PICK j \in 1..Len(sessions) : sessions[j] = d
    BY DEF Range
  <2>2. CASE j < i
    BY <1>1, <1>2, <2>1, <2>2 DEF Range
  <2>3. CASE j > i
    <3>1. j - i \in 1..(Len(sessions) - i) /\ i + (j - i) = j
      BY <1>1, <2>1, <2>3
    <3> QED BY <1>3, <2>1, <3>1 DEF Range
  <2> QED BY <1>1, <2>1, <2>2, <2>3
<1>6. s1 \o s2 \in Seq(Clients) /\ Range(s1 \o s2) = Range(s1) \cup Range(s2)
  BY <1>2, <1>3, RangeConcatenation
<1> QED BY <1>4, <1>5, <1>6 DEF i
-----------------------------------------------------------------------------
(* Types *)

Packets ==
    {Authorize(l, p) : l \in Logins \cup {EmptyLogin}, p \in Passwords} \cup {Request, EndOfFile}
Phases == {"off", "login", "asked", "authorized", "gone"}
Credentials ==
    [login : Logins \cup {EmptyLogin, Nobody}, pswd : Passwords \cup {Nobody}]

Answers == {Response(code) : code \in Codes} \cup {AnnounceMessage}

UsersOK(f) ==
    /\ DOMAIN f \subseteq Logins
    /\ f \in [DOMAIN f -> [pswd : Passwords, session : Clients \cup {Nobody}]]

TypeInv ==
    /\ UsersOK(users)
    /\ sessions \in Seq(Clients)
    /\ user \in [Clients -> Logins \cup {Nobody}]
    /\ closing \in Range(sessions) \cup {Nobody}
    /\ backlog \subseteq Clients
    /\ inbox \in [Clients -> Seq(Packets)]
    /\ outbox \in [Clients -> Seq(Answers)]
    /\ notices \in [Clients -> SUBSET Logins]
    /\ posted \subseteq Logins
    /\ phase \in [Clients -> Phases]
    /\ creds \in [Clients -> Credentials]
    /\ sent \in [Clients -> Nat]
    /\ misled \subseteq Clients
    /\ iterator \in Clients \cup {Nobody}
    /\ audience \subseteq Clients /\ reached \subseteq Clients
    /\ announced \in Nat
    /\ up \in BOOLEAN

-----------------------------------------------------------------------------
(* The conversation of a client and its session *)

Question(c) == Authorize(creds[c].login, creds[c].pswd)

\* What is on its way to a client holds no answer.
NoResponse(c) == \A i \in DOMAIN outbox[c] : outbox[c][i] = AnnounceMessage

\* Nothing is on its way before a client asks, and nothing is left of an earlier question
\* when it asks again.
Fresh(c) ==
    phase[c] \in {"off", "login"} => inbox[c] = << >> /\ NoResponse(c) /\ user[c] = Nobody

\* A question that is on its way is the first packet and the only question, it is the one
\* the client asked last, and the session is bound to nobody and has not answered.
OneQuestion(c) ==
    \A i \in DOMAIN inbox[c] : inbox[c][i].kind = "USER_AUTHORIZE" =>
        i = 1 /\ inbox[c][i] = Question(c) /\ NoResponse(c) /\ user[c] = Nobody

\* The connection ends only when the client is gone.
EndsWhenGone(c) ==
    \A i \in DOMAIN inbox[c] : inbox[c][i].kind = "EOF" => phase[c] = "gone"

\* An answer that says what the server did.
Truthful(c, code) ==
    IF Accepted(code) THEN user[c] = creds[c].login /\ user[c] # Nobody ELSE user[c] = Nobody

\* The one answer on its way to a client, among announcements.
OneResponse(c, k) ==
    /\ k \in DOMAIN outbox[c]
    /\ \E code \in Codes : outbox[c][k] = Response(code) /\ Truthful(c, code)
    /\ \A i \in DOMAIN outbox[c] : i # k => outbox[c][i] = AnnounceMessage

\* The answer that a listening client waits for says what the server did.
AnswerAgrees(c) ==
    c \notin TestClients /\ phase[c] = "asked" =>
        \/ inbox[c] = << Question(c) >>
        \/ inbox[c] = << >> /\ \E k \in DOMAIN outbox[c] : OneResponse(c, k)

\* An authorized client has no question left, and is bound unless a refusal was cut.
Admitted(c) ==
    phase[c] = "authorized" =>
        /\ c \notin TestClients
        /\ \A i \in DOMAIN inbox[c] : inbox[c][i].kind # "USER_AUTHORIZE"
        /\ IF c \in misled THEN user[c] = Nobody
           ELSE user[c] # Nobody /\ user[c] = creds[c].login

\* Who was misled asks no more.
MisledForGood(c) == c \in misled => phase[c] \in {"authorized", "gone"}

Talk(c) ==
    /\ Fresh(c) /\ OneQuestion(c) /\ EndsWhenGone(c)
    /\ AnswerAgrees(c) /\ Admitted(c) /\ MisledForGood(c)
TalkInv == \A c \in Clients : Talk(c)

\* Only who is bound to a user was ever told about a trade.
NoticesInv ==
    /\ posted \subseteq DOMAIN users
    /\ \A c \in Clients :
        /\ notices[c] \subseteq DOMAIN users
        /\ phase[c] # "gone" /\ user[c] = Nobody => notices[c] = {}

-----------------------------------------------------------------------------
(* Type correctness *)

\* An empty server and clients that have not connected.
LEMMA TypeInit == Init => TypeInv
<1> SUFFICES ASSUME Init PROVE TypeInv
  OBVIOUS
<1>1. UsersOK(users)
  BY DEF Init, UsersOK
<1>2. sessions \in Seq(Clients) /\ inbox \in [Clients -> Seq(Packets)] /\ outbox \in [Clients -> Seq(Answers)]
  BY DEF Init
<1>3. creds \in [Clients -> Credentials]
  BY DEF Init, Credentials
<1> QED BY <1>1, <1>2, <1>3, SessionsAssumption DEF Init, TypeInv, Phases

\* What a client sends is one packet more for its session.
LEMMA InboxAppended ==
    ASSUME TypeInv, NEW c \in Clients, NEW packet \in Packets
    PROVE  [inbox EXCEPT ![c] = Append(@, packet)] \in [Clients -> Seq(Packets)]
BY DEF TypeInv

\* What a session reads is one packet less.
LEMMA InboxTail ==
    ASSUME TypeInv, NEW c \in Clients, inbox[c] # << >>
    PROVE  [inbox EXCEPT ![c] = Tail(@)] \in [Clients -> Seq(Packets)]
BY DEF TypeInv

\* The packets that a session may have to read.
LEMMA HeadOfInbox ==
    ASSUME TypeInv, NEW c \in Clients, inbox[c] # << >>
    PROVE  /\ Head(inbox[c]) \in Packets
           /\ 1 \in DOMAIN inbox[c] /\ inbox[c][1] = Head(inbox[c])
           /\ Head(inbox[c]).kind = "USER_AUTHORIZE" =>
                Head(inbox[c]).login \in Logins \cup {EmptyLogin} /\ Head(inbox[c]).pswd \in Passwords
<1>1. inbox[c] \in Seq(Packets)
  BY DEF TypeInv
<1>2. Head(inbox[c]) \in Packets /\ 1 \in DOMAIN inbox[c] /\ inbox[c][1] = Head(inbox[c])
  BY <1>1
<1> QED BY <1>2 DEF Packets, Authorize, Request, EndOfFile

\* The codes of an answer (packets.hpp:10-12).
LEMMA CodeType == ASSUME NEW l, NEW p PROVE Code(l, p) \in Codes
BY DEF Code, Codes, AUTHORIZE_SUCCESS, AUTHORIZE_WRONG_PASSWORD, AUTHORIZE_ALREADY_AUTHORIZED

\* What a client reads was at the front of what is on its way, and the rest stays.
LEMMA ReadsFront ==
    ASSUME TypeInv, NEW c \in Clients, NEW packets \in Seq(Answers), Reads(c, packets)
    PROVE  /\ Len(packets) <= Len(outbox[c])
           /\ \A i \in 1..Len(packets) : i \in DOMAIN outbox[c] /\ outbox[c][i] = packets[i]
           /\ outbox' \in [Clients -> Seq(Answers)]
           /\ Len(outbox'[c]) = Len(outbox[c]) - Len(packets)
           /\ \A i \in DOMAIN outbox'[c] :
                /\ i \in Nat /\ i >= 1 /\ i + Len(packets) \in DOMAIN outbox[c]
                /\ outbox'[c][i] = outbox[c][i + Len(packets)]
           /\ \A i \in DOMAIN outbox[c] : i > Len(packets) =>
                /\ i - Len(packets) \in DOMAIN outbox'[c]
                /\ outbox'[c][i - Len(packets)] = outbox[c][i]
           /\ \A d \in Clients \ {c} : outbox'[d] = outbox[d]
<1> DEFINE s == outbox[c]
           n == Len(packets)
<1>1. outbox \in [Clients -> Seq(Answers)]
  BY DEF TypeInv
<1>2. s \in Seq(Answers) /\ n \in Nat /\ Len(s) \in Nat
  BY <1>1
<1>3. n <= Len(s) /\ SubSeq(packets, 1, n) = SubSeq(s, 1, n)
  BY DEF Reads, IsPrefix
<1>4. outbox' = [outbox EXCEPT ![c] = SubSeq(s, n + 1, Len(s))]
  BY DEF Reads
<1>5. outbox'[c] = SubSeq(s, n + 1, Len(s)) /\ \A d \in Clients \ {c} : outbox'[d] = outbox[d]
  BY <1>1, <1>4
<1> HIDE DEF s, n
<1>6. \A i \in 1..n : i \in DOMAIN s /\ s[i] = packets[i]
  <2> SUFFICES ASSUME NEW i \in 1..n PROVE i \in DOMAIN s /\ s[i] = packets[i]
    OBVIOUS
  <2>1. SubSeq(packets, 1, n)[i] = packets[i]
    BY <1>2 DEF n
  <2>2. SubSeq(s, 1, n)[i] = s[i] /\ i \in DOMAIN s
    BY <1>2, <1>3
  <2> QED BY <1>3, <2>1, <2>2
<1>7. /\ SubSeq(s, n + 1, Len(s)) \in Seq(Answers)
      /\ Len(SubSeq(s, n + 1, Len(s))) = Len(s) - n
      /\ \A i \in 1..(Len(s) - n) : SubSeq(s, n + 1, Len(s))[i] = s[i + n]
  BY <1>2, <1>3
<1>8. outbox' \in [Clients -> Seq(Answers)]
  BY <1>1, <1>4, <1>7
<1>9. DOMAIN outbox'[c] = 1..(Len(s) - n) /\ Len(outbox'[c]) = Len(s) - n
  BY <1>5, <1>7
<1>10. \A i \in DOMAIN outbox'[c] :
          i \in Nat /\ i >= 1 /\ i + n \in DOMAIN s /\ outbox'[c][i] = s[i + n]
  BY <1>2, <1>3, <1>5, <1>7, <1>9
<1>11. \A i \in DOMAIN s : i > n => i - n \in DOMAIN outbox'[c] /\ outbox'[c][i - n] = s[i]
  <2> SUFFICES ASSUME NEW i \in DOMAIN s, i > n
               PROVE  i - n \in DOMAIN outbox'[c] /\ outbox'[c][i - n] = s[i]
    OBVIOUS
  <2>1. i - n \in 1..(Len(s) - n) /\ (i - n) + n = i
    BY <1>2, <1>3
  <2> QED BY <1>9, <1>10, <2>1
<1> QED BY <1>3, <1>5, <1>6, <1>8, <1>9, <1>10, <1>11 DEF s, n

\* A success adds or binds one user, with the password that was sent, and leaves the other
\* users and every password alone.
BindsOnly(f, l, p, c) ==
    /\ UsersOK(f)
    /\ l \in Logins
    /\ DOMAIN f = DOMAIN users \cup {l}
    /\ f[l].session = c /\ f[l].pswd = p
    /\ l \in DOMAIN users => users[l].session = Nobody
    /\ \A k \in DOMAIN users : f[k].pswd = users[k].pswd
    /\ \A k \in DOMAIN users \ {l} : f[k] = users[k]

\* Bound does what BindsOnly says.
LEMMA UsersBound ==
    ASSUME UsersOK(users), NEW c \in Clients, NEW l \in Logins \cup {EmptyLogin}, NEW p \in Passwords,
           Code(l, p) = AUTHORIZE_SUCCESS
    PROVE  BindsOnly(Bound(l, p, c), l, p, c)
<1>1. l \in Logins /\ (l \in DOMAIN users => users[l].session = Nobody /\ users[l].pswd = p)
  BY DEF Code, AUTHORIZE_SUCCESS, AUTHORIZE_WRONG_PASSWORD, AUTHORIZE_ALREADY_AUTHORIZED,
         HasSession, ComparePassword
<1>2. Bound(l, p, c)[l] = [pswd |-> p, session |-> c]
  BY <1>1 DEF Bound
<1>3. \A k \in DOMAIN users \ {l} : Bound(l, p, c)[k] = users[k]
  BY DEF Bound
<1>4. DOMAIN Bound(l, p, c) = DOMAIN users \cup {l}
  BY DEF Bound
<1>5. UsersOK(Bound(l, p, c))
  BY <1>1, <1>2, <1>3 DEF UsersOK, Bound
<1> QED BY <1>1, <1>2, <1>3, <1>4, <1>5 DEF BindsOnly

\* Closing a session takes the user's pointer to it back, and nothing else.
LEMMA UsersReleased ==
    ASSUME UsersOK(users), NEW c \in Clients
    PROVE  /\ UsersOK(Released(c))
           /\ DOMAIN Released(c) = DOMAIN users
           /\ \A k \in DOMAIN users :
                /\ Released(c)[k].pswd = users[k].pswd
                /\ Released(c)[k].session = IF k = user[c] /\ user[c] # Nobody THEN Nobody ELSE users[k].session
BY DEF UsersOK, Released

\* Every step keeps the types.
LEMMA TypeNext == TypeInv /\ [Next]_vars => TypeInv'
<1> SUFFICES ASSUME TypeInv, [Next]_vars
             PROVE  TypeInv'
  OBVIOUS
<1> USE DEF accountVars, clientVars, announceVars
<1>1. ASSUME NEW c \in Clients, Connect(c)
      PROVE  TypeInv'
  BY <1>1 DEF TypeInv, Connect, Phases
<1>2. ASSUME NEW c \in Clients, NEW l \in Logins \cup {EmptyLogin}, NEW p \in Passwords,
             SendUserAuthorize(c, l, p)
      PROVE  TypeInv'
  <2>1. Authorize(l, p) \in Packets
    BY DEF Packets
  <2>2. inbox' \in [Clients -> Seq(Packets)]
    BY <1>2, <2>1, InboxAppended DEF SendUserAuthorize, Send
  <2>3. creds' \in [Clients -> Credentials]
    BY <1>2 DEF SendUserAuthorize, TypeInv, Credentials
  <2>4. sent' \in [Clients -> Nat]
    BY <1>2 DEF SendUserAuthorize, Send, TypeInv
  <2>5. UsersOK(users')
    BY <1>2 DEF SendUserAuthorize, TypeInv
  <2> QED BY <1>2, <2>2, <2>3, <2>4, <2>5 DEF SendUserAuthorize, TypeInv, Phases
<1>3. ASSUME NEW c \in Clients, SendUserTransactionRequest(c)
      PROVE  TypeInv'
  <2>1. Request \in Packets
    BY DEF Packets
  <2>2. inbox' \in [Clients -> Seq(Packets)]
    BY <1>3, <2>1, InboxAppended DEF SendUserTransactionRequest, Send
  <2>3. sent' \in [Clients -> Nat]
    BY <1>3 DEF SendUserTransactionRequest, Send, TypeInv
  <2> QED BY <1>3, <2>2, <2>3 DEF SendUserTransactionRequest, TypeInv, UsersOK
<1>4. ASSUME NEW c \in Clients, ClientRead(c)
      PROVE  TypeInv'
  <2>1. PICK packets \in Seq(Answers) : Reads(c, packets)
    <3>1. << AnnounceMessage >> \in Seq(Answers)
      BY DEF Answers
    <3>2. \A code \in Codes :
            << Response(code) >> \in Seq(Answers) /\ << AnnounceMessage, Response(code) >> \in Seq(Answers)
      BY DEF Answers
    <3> QED BY <1>4, <3>1, <3>2 DEF ClientRead, ReadAnnounceMessage, ReadResponse, ReadCutResponse
  <2>2. outbox' \in [Clients -> Seq(Answers)]
    BY <2>1, ReadsFront
  <2>3. phase' \in [Clients -> Phases] /\ misled' \subseteq Clients
    BY <1>4 DEF ClientRead, ReadAnnounceMessage, ReadResponse, ReadCutResponse, TypeInv, Phases
  <2> QED BY <2>1, <2>2, <2>3 DEF Reads, TypeInv
<1>5. ASSUME NEW c \in Clients, Disconnect(c)
      PROVE  TypeInv'
  <2>1. EndOfFile \in Packets
    BY DEF Packets
  <2>2. inbox' \in [Clients -> Seq(Packets)]
    BY <1>5, <2>1, InboxAppended DEF Disconnect
  <2> QED BY <1>5, <2>2 DEF Disconnect, TypeInv, Phases
<1>6. ASSUME NEW c \in Clients, Reset(c)
      PROVE  TypeInv'
  <2>1. << EndOfFile >> \in Seq(Packets)
    BY DEF Packets
  <2> QED BY <1>6, <2>1 DEF Reset, TypeInv
<1>7. ASSUME NEW c \in Clients, AcceptNext(c)
      PROVE  TypeInv'
  <2>1. HandleAccept(c) => sessions' \in Seq(Clients)
    BY InsertedProperties DEF HandleAccept, TypeInv
  <2>2. CASE HandleAccept(c)
    BY <2>1, <2>2 DEF HandleAccept, IoIdle, TypeInv, UsersOK
  <2>3. CASE HandleAcceptError(c)
    BY <2>3 DEF HandleAcceptError, TypeInv, UsersOK
  <2> QED BY <1>7, <2>2, <2>3 DEF AcceptNext
<1>8. ASSUME NEW c \in Clients, HandleUserAuthorize(c)
      PROVE  TypeInv'
  <2> DEFINE l == Head(inbox[c]).login
             p == Head(inbox[c]).pswd
  <2>1. l \in Logins \cup {EmptyLogin} /\ p \in Passwords
    BY <1>8, HeadOfInbox DEF HandleUserAuthorize, Read
  <2>2. UsersOK(users) /\ Code(l, p) \in Codes
    BY CodeType DEF TypeInv
  <2>3. UsersOK(users') /\ user' \in [Clients -> Logins \cup {Nobody}]
    <3>1. CASE Code(l, p) = AUTHORIZE_SUCCESS
      <4>1. BindsOnly(Bound(l, p, c), l, p, c)
        BY <2>1, <2>2, <3>1, UsersBound
      <4> QED BY <1>8, <3>1, <4>1 DEF BindsOnly, HandleUserAuthorize, TypeInv
    <3>2. CASE Code(l, p) # AUTHORIZE_SUCCESS
      BY <1>8, <3>2 DEF HandleUserAuthorize, TypeInv, UsersOK
    <3> QED BY <3>1, <3>2
  <2>4. inbox' \in [Clients -> Seq(Packets)]
    BY <1>8, InboxTail DEF HandleUserAuthorize, Read
  <2>5. outbox' \in [Clients -> Seq(Answers)]
    <3>1. Response(Code(l, p)) \in Answers
      BY <2>2 DEF Answers
    <3> QED BY <1>8, <3>1 DEF HandleUserAuthorize, Respond, TypeInv
  <2> QED BY <1>8, <2>3, <2>4, <2>5 DEF HandleUserAuthorize, Read, TypeInv
<1>9. ASSUME NEW c \in Clients, HandleUserTransactionRequest(c)
      PROVE  TypeInv'
  <2>1. inbox' \in [Clients -> Seq(Packets)]
    BY <1>9, InboxTail DEF HandleUserTransactionRequest, Read
  <2>2. PICK others \in SUBSET (posted \ {user[c]}) :
            /\ notices' = IF others = {} THEN notices ELSE Told(c, others \cup {user[c]})
            /\ \/ posted' = (posted \ others) \cup {user[c]}
               \/ others # {} /\ \E done \in SUBSET others : posted' = posted \ done
    BY <1>9 DEF HandleUserTransactionRequest
  <2>3. user[c] \in Logins
    BY <1>9 DEF HandleUserTransactionRequest, TypeInv
  <2>4. posted' \subseteq Logins
    BY <2>2, <2>3 DEF TypeInv
  <2>5. others \cup {user[c]} \subseteq Logins
    BY <2>3 DEF TypeInv
  <2>6. notices' \in [Clients -> SUBSET Logins]
    BY <2>2, <2>5 DEF Told, TypeInv
  <2> QED BY <1>9, <2>1, <2>4, <2>6 DEF HandleUserTransactionRequest, Read, TypeInv, UsersOK
<1>10. ASSUME NEW c \in Clients, IgnoreRequest(c)
       PROVE  TypeInv'
  <2>1. inbox' \in [Clients -> Seq(Packets)]
    BY <1>10, InboxTail DEF IgnoreRequest, Read
  <2> QED BY <1>10, <2>1 DEF IgnoreRequest, Read, TypeInv, UsersOK
<1>11. ASSUME NEW c \in Clients, CloseSession(c)
       PROVE  TypeInv'
  <2>1. inbox' \in [Clients -> Seq(Packets)]
    BY <1>11, InboxTail DEF CloseSession, Read
  <2>2. UsersOK(users')
    BY <1>11, UsersReleased DEF CloseSession, TypeInv
  <2> QED BY <1>11, <2>1, <2>2 DEF CloseSession, Read, TypeInv
<1>12. ASSUME EraseSession
       PROVE  TypeInv'
  <2>1. closing \in Range(sessions) /\ sessions \in Seq(Clients)
    BY <1>12 DEF EraseSession, TypeInv
  <2>2. sessions' \in Seq(Clients)
    BY <1>12, <2>1, ErasedProperties DEF EraseSession
  <2> QED BY <1>12, <2>2 DEF EraseSession, TypeInv, UsersOK
<1>13. ASSUME Announce
       PROVE  TypeInv'
  <2>1. Range(sessions) \subseteq Clients /\ Head(sessions) \in Clients
    BY <1>13, RangeOfSeq DEF Announce, TypeInv
  <2>2. /\ iterator' \in Clients /\ audience' \subseteq Clients /\ reached' = {}
        /\ announced' \in Nat
    BY <1>13, <2>1 DEF Announce, Open, TypeInv
  <2>3. UNCHANGED <<accountVars, sessions, closing, backlog, inbox, clientVars, up>>
    BY <1>13 DEF Announce
  <2> QED BY <2>2, <2>3 DEF TypeInv, UsersOK, accountVars, clientVars
<1>14. ASSUME BroadcastNext
       PROVE  TypeInv'
  <2>1. iterator \in Range(sessions) /\ sessions \in Seq(Clients) /\ iterator \in Clients
    BY <1>14, RangeOfSeq DEF BroadcastNext, Open, TypeInv
  <2>2. \E j \in DOMAIN sessions : sessions[j] = iterator
    BY <2>1 DEF Range
  <2>3. Position(iterator) \in 1..Len(sessions)
    BY <2>1, <2>2 DEF Position
  <2>4. Following(iterator) \in Clients \cup {Nobody}
    BY <2>1, <2>3 DEF Following
  <2>5. outbox' \in [Clients -> Seq(Answers)]
    <3>1. AnnounceMessage \in Answers
      BY DEF Answers
    <3> QED BY <1>14, <2>1, <3>1 DEF BroadcastNext, TypeInv
  <2>6. iterator' \in Clients \cup {Nobody} /\ reached' \subseteq Clients
    BY <1>14, <2>1, <2>4 DEF BroadcastNext, TypeInv
  <2>7. UNCHANGED <<users, user, notices, posted, sessions, closing, backlog, inbox, clientVars,
                    audience, announced, up>>
    BY <1>14 DEF BroadcastNext
  <2> QED BY <2>5, <2>6, <2>7 DEF TypeInv, UsersOK
<1>15. ASSUME BroadcastFreed
       PROVE  TypeInv'
  BY <1>15 DEF BroadcastFreed, TypeInv, UsersOK
<1>16. ASSUME UNCHANGED vars
       PROVE  TypeInv'
  BY <1>16 DEF vars, TypeInv, UsersOK
<1> QED BY <1>1, <1>2, <1>3, <1>4, <1>5, <1>6, <1>7, <1>8, <1>9, <1>10, <1>11, <1>12, <1>13, <1>14,
           <1>15, <1>16
        DEF Next, ClientNext, ProcessRead, Broadcast

\* Every variable of the server, the clients and the walk of the announce command keeps its
\* type, whoever comes, asks and leaves: in particular the session that closeSession has
\* closed is in the map until it is erased (server.cpp:150-158).
THEOREM TypeCorrect == Spec => []TypeInv
<1>1. Init => TypeInv
  BY TypeInit
<1>2. TypeInv /\ [Next]_vars => TypeInv'
  BY TypeNext
<1> QED BY <1>1, <1>2, PTL DEF Spec

-----------------------------------------------------------------------------
(* What clients believe *)

\* A conversation that no step touches.
LEMMA TalkKept ==
    ASSUME NEW c \in Clients, Talk(c),
           inbox'[c] = inbox[c], outbox'[c] = outbox[c], user'[c] = user[c],
           phase'[c] = phase[c], creds'[c] = creds[c], c \in misled' <=> c \in misled
    PROVE  Talk(c)'
BY DEF Talk, Fresh, OneQuestion, EndsWhenGone, AnswerAgrees, Admitted, MisledForGood, NoResponse,
   OneResponse, Truthful, Question

\* A new connection has a new session, with nothing to read.
LEMMA TalkConnect ==
    ASSUME TypeInv, NEW c \in Clients, Talk(c), Connect(c)
    PROVE  Talk(c)'
BY DEF TypeInv, Connect, accountVars, Talk, Fresh, OneQuestion, EndsWhenGone, AnswerAgrees, Admitted,
   MisledForGood, NoResponse, Question

\* A client that asks has no other question on its way.
LEMMA TalkSendUserAuthorize ==
    ASSUME TypeInv, NEW c \in Clients, Talk(c), NEW l \in Logins \cup {EmptyLogin}, NEW p \in Passwords,
           SendUserAuthorize(c, l, p)
    PROVE  Talk(c)'
<1>1. /\ phase[c] = "login" /\ phase'[c] = "asked"
      /\ creds'[c] = [login |-> l, pswd |-> p]
      /\ inbox'[c] = Append(inbox[c], Authorize(l, p))
      /\ outbox' = outbox /\ user' = user /\ misled' = misled
  BY DEF SendUserAuthorize, Send, TypeInv, accountVars
<1>2. inbox[c] = << >> /\ NoResponse(c) /\ user[c] = Nobody /\ c \notin misled
  BY <1>1 DEF Talk, Fresh, MisledForGood
<1>3. Question(c)' = Authorize(l, p)
  BY <1>1 DEF Question
<1>4. inbox'[c] = << Question(c)' >>
  BY <1>1, <1>2, <1>3
<1>5. \A i \in DOMAIN inbox'[c] : i = 1 /\ inbox'[c][i] = Question(c)'
  BY <1>4
<1>6. \A i \in DOMAIN inbox'[c] : inbox'[c][i].kind # "EOF"
  BY <1>3, <1>5 DEF Authorize
<1> QED BY <1>1, <1>2, <1>4, <1>5, <1>6
        DEF Talk, Fresh, OneQuestion, EndsWhenGone, AnswerAgrees, Admitted, MisledForGood, NoResponse

\* A packet that is no question is added at the end.
LEMMA AppendedNoQuestion ==
    ASSUME TypeInv, NEW c \in Clients, NEW packet \in {Request, EndOfFile},
           inbox'[c] = Append(inbox[c], packet)
    PROVE  \A i \in DOMAIN inbox'[c] :
              \/ i \in DOMAIN inbox[c] /\ inbox'[c][i] = inbox[c][i]
              \/ inbox'[c][i] = packet
<1>1. inbox[c] \in Seq(Packets)
  BY DEF TypeInv
<1> QED BY <1>1

\* A request comes behind the question.
LEMMA TalkSendUserTransactionRequest ==
    ASSUME TypeInv, NEW c \in Clients, Talk(c), SendUserTransactionRequest(c)
    PROVE  Talk(c)'
<1>1. /\ phase[c] = IF c \in TestClients THEN "asked" ELSE "authorized"
      /\ inbox'[c] = Append(inbox[c], Request)
      /\ outbox' = outbox /\ user' = user /\ phase' = phase /\ creds' = creds /\ misled' = misled
  BY DEF SendUserTransactionRequest, Send, TypeInv, accountVars
<1>2. \A i \in DOMAIN inbox'[c] :
          \/ i \in DOMAIN inbox[c] /\ inbox'[c][i] = inbox[c][i]
          \/ inbox'[c][i] = Request
  BY <1>1, AppendedNoQuestion
<1>3. Request.kind # "USER_AUTHORIZE" /\ Request.kind # "EOF"
  BY DEF Request
<1>4. OneQuestion(c)' /\ EndsWhenGone(c)'
  BY <1>1, <1>2, <1>3 DEF Talk, OneQuestion, EndsWhenGone, NoResponse, Question
<1>5. Admitted(c)'
  BY <1>1, <1>2, <1>3 DEF Talk, Admitted
<1> QED BY <1>1, <1>4, <1>5 DEF Talk, Fresh, AnswerAgrees, MisledForGood

\* The answer that a client has in front of it is the only one, and says what the server did.
LEMMA AnswerInFront ==
    ASSUME NEW c \in Clients, Talk(c), c \notin TestClients, phase[c] = "asked",
           NEW k \in DOMAIN outbox[c], NEW code \in Codes, outbox[c][k] = Response(code)
    PROVE  inbox[c] = << >> /\ OneResponse(c, k) /\ Truthful(c, code)
<1>1. \A d \in Codes : Response(d) # AnnounceMessage /\ (Response(d) = Response(code) => d = code)
  BY DEF Response, AnnounceMessage
<1>2. inbox[c] # << Question(c) >>
  <2> SUFFICES ASSUME inbox[c] = << Question(c) >> PROVE FALSE
    OBVIOUS
  <2>1. 1 \in DOMAIN inbox[c] /\ inbox[c][1].kind = "USER_AUTHORIZE"
    BY DEF Question, Authorize
  <2> QED BY <1>1, <2>1 DEF Talk, OneQuestion, NoResponse
<1>3. inbox[c] = << >> /\ \E j \in DOMAIN outbox[c] : OneResponse(c, j)
  BY <1>2 DEF Talk, AnswerAgrees
<1>4. PICK j \in DOMAIN outbox[c] : OneResponse(c, j)
  BY <1>3
<1>5. k = j
  BY <1>1, <1>4 DEF OneResponse
<1>6. Truthful(c, code)
  BY <1>1, <1>4, <1>5 DEF OneResponse
<1> QED BY <1>3, <1>4, <1>5, <1>6

\* An announcement that a client reads leaves the answer behind it alone.
LEMMA TalkReadAnnounceMessage ==
    ASSUME TypeInv, NEW c \in Clients, Talk(c), ReadAnnounceMessage(c)
    PROVE  Talk(c)'
<1>1. /\ inbox' = inbox /\ user' = user /\ creds' = creds /\ phase' = phase /\ misled' = misled
      /\ Reads(c, << AnnounceMessage >>)
  BY DEF ReadAnnounceMessage, Reads
<1>2. << AnnounceMessage >> \in Seq(Answers) /\ Len(<< AnnounceMessage >>) = 1
  BY DEF Answers
<1>3. /\ 1 \in DOMAIN outbox[c] /\ outbox[c][1] = AnnounceMessage
      /\ \A i \in DOMAIN outbox'[c] :
            i \in Nat /\ i >= 1 /\ i + 1 \in DOMAIN outbox[c] /\ outbox'[c][i] = outbox[c][i + 1]
      /\ \A i \in DOMAIN outbox[c] : i > 1 =>
            i - 1 \in DOMAIN outbox'[c] /\ outbox'[c][i - 1] = outbox[c][i]
  <2> DEFINE one == << AnnounceMessage >>
  <2>1. one \in Seq(Answers) /\ Len(one) = 1 /\ one[1] = AnnounceMessage /\ Reads(c, one)
    BY <1>1, <1>2
  <2> HIDE DEF one
  <2>2. /\ \A i \in 1..Len(one) : i \in DOMAIN outbox[c] /\ outbox[c][i] = one[i]
        /\ \A i \in DOMAIN outbox'[c] :
            /\ i \in Nat /\ i >= 1 /\ i + Len(one) \in DOMAIN outbox[c]
            /\ outbox'[c][i] = outbox[c][i + Len(one)]
        /\ \A i \in DOMAIN outbox[c] : i > Len(one) =>
            /\ i - Len(one) \in DOMAIN outbox'[c]
            /\ outbox'[c][i - Len(one)] = outbox[c][i]
    BY <2>1, ReadsFront
  <2>3. 1 \in 1..Len(one)
    BY <2>1
  <2> QED BY <2>1, <2>2, <2>3
<1>4. NoResponse(c) => NoResponse(c)'
  BY <1>3 DEF NoResponse
<1>5. ASSUME NEW k \in DOMAIN outbox[c], OneResponse(c, k)
      PROVE  \E j \in DOMAIN outbox'[c] : OneResponse(c, j)'
  <2>1. outbox[c] \in Seq(Answers)
    BY DEF TypeInv
  <2>2. k # 1
    BY <1>3, <1>5 DEF OneResponse, Response, AnnounceMessage
  <2>3. k > 1 /\ k \in Nat
    BY <2>1, <2>2
  <2>4. k - 1 \in DOMAIN outbox'[c] /\ outbox'[c][k - 1] = outbox[c][k]
    BY <1>3, <2>3
  <2>5. \A i \in DOMAIN outbox'[c] : i # k - 1 => outbox'[c][i] = AnnounceMessage
    BY <1>3, <1>5, <2>3 DEF OneResponse
  <2>6. OneResponse(c, k - 1)'
    BY <1>1, <1>5, <2>4, <2>5 DEF OneResponse, Truthful
  <2> QED BY <2>4, <2>6
<1>6. AnswerAgrees(c)'
  BY <1>1, <1>5 DEF Talk, AnswerAgrees, Question
<1> QED BY <1>1, <1>4, <1>6 DEF Talk, Fresh, OneQuestion, EndsWhenGone, Admitted, MisledForGood, Question

\* What a client reads last of what it waits for: after it there is no answer on its way.
LEMMA AnswerRead ==
    ASSUME TypeInv, NEW c \in Clients, Talk(c), phase[c] = "asked",
           NEW packets \in Seq(Answers), Reads(c, packets), Len(packets) >= 1,
           NEW code \in Codes, packets[Len(packets)] = Response(code)
    PROVE  /\ inbox[c] = << >> /\ inbox' = inbox /\ Truthful(c, code) /\ NoResponse(c)'
           /\ c \notin TestClients /\ c \notin misled /\ user' = user /\ creds' = creds
<1>1. inbox' = inbox /\ user' = user /\ creds' = creds /\ c \notin TestClients
  BY DEF Reads
<1>2. Len(packets) \in Nat /\ Len(packets) \in 1..Len(packets)
  OBVIOUS
<1>3. Len(packets) \in DOMAIN outbox[c] /\ outbox[c][Len(packets)] = Response(code)
  BY <1>2, ReadsFront
<1>4. inbox[c] = << >> /\ OneResponse(c, Len(packets)) /\ Truthful(c, code)
  BY <1>1, <1>3, AnswerInFront
<1>5. ASSUME NEW i \in DOMAIN outbox'[c]
      PROVE  outbox'[c][i] = AnnounceMessage
  <2>1. /\ i \in Nat /\ i >= 1 /\ i + Len(packets) \in DOMAIN outbox[c]
        /\ outbox'[c][i] = outbox[c][i + Len(packets)]
    BY ReadsFront
  <2>2. i + Len(packets) # Len(packets)
    BY <1>2, <2>1
  <2> QED BY <1>4, <2>1, <2>2 DEF OneResponse
<1>6. NoResponse(c)'
  BY <1>5 DEF NoResponse
<1> QED BY <1>1, <1>4, <1>6 DEF Talk, MisledForGood

\* A client that reads its answer believes what the server did.
LEMMA TalkReadResponse ==
    ASSUME TypeInv, NEW c \in Clients, Talk(c), ReadResponse(c)
    PROVE  Talk(c)'
<1>1. PICK code \in Codes :
        /\ Reads(c, << Response(code) >>)
        /\ phase'[c] = IF Accepted(code) THEN "authorized" ELSE "login"
  BY DEF ReadResponse, TypeInv
<1>2. phase[c] = "asked" /\ misled' = misled
  BY DEF ReadResponse
<1>3. /\ inbox[c] = << >> /\ inbox' = inbox /\ Truthful(c, code) /\ NoResponse(c)'
      /\ c \notin TestClients /\ c \notin misled /\ user' = user /\ creds' = creds
  <2> DEFINE one == << Response(code) >>
  <2>1. one \in Seq(Answers) /\ Len(one) >= 1 /\ one[Len(one)] = Response(code) /\ Reads(c, one)
    <3>1. one \in Seq(Answers) /\ Len(one) = 1 /\ one[1] = Response(code)
      BY DEF Answers
    <3> QED BY <1>1, <3>1
  <2> HIDE DEF one
  <2> QED BY <1>2, <2>1, AnswerRead
<1>4. \A i \in DOMAIN inbox'[c] : FALSE
  BY <1>3
<1> QED BY <1>1, <1>2, <1>3, <1>4
        DEF Talk, Fresh, OneQuestion, EndsWhenGone, AnswerAgrees, Admitted, MisledForGood, Truthful

\* A client that reads half an answer is authorized: rightly, or it is recorded as misled.
LEMMA TalkReadCutResponse ==
    ASSUME TypeInv, NEW c \in Clients, Talk(c), ReadCutResponse(c)
    PROVE  Talk(c)'
<1>1. PICK code \in Codes :
        /\ Reads(c, << AnnounceMessage, Response(code) >>)
        /\ misled' = IF code = AUTHORIZE_SUCCESS THEN misled ELSE misled \cup {c}
  BY DEF ReadCutResponse
<1>2. phase[c] = "asked" /\ phase'[c] = "authorized"
  BY DEF ReadCutResponse, TypeInv
<1>3. /\ inbox[c] = << >> /\ inbox' = inbox /\ Truthful(c, code) /\ NoResponse(c)'
      /\ c \notin TestClients /\ c \notin misled /\ user' = user /\ creds' = creds
  <2> DEFINE two == << AnnounceMessage, Response(code) >>
  <2>1. two \in Seq(Answers) /\ Len(two) >= 1 /\ two[Len(two)] = Response(code) /\ Reads(c, two)
    <3>1. two \in Seq(Answers) /\ Len(two) = 2 /\ two[2] = Response(code)
      BY DEF Answers
    <3> QED BY <1>1, <3>1
  <2> HIDE DEF two
  <2> QED BY <1>2, <2>1, AnswerRead
<1>4. \A i \in DOMAIN inbox'[c] : FALSE
  BY <1>3
<1>5. IF c \in misled' THEN user'[c] = Nobody ELSE user'[c] # Nobody /\ user'[c] = creds'[c].login
  BY <1>1, <1>3 DEF Truthful, Accepted
<1> QED BY <1>2, <1>3, <1>4, <1>5
        DEF Talk, Fresh, OneQuestion, EndsWhenGone, AnswerAgrees, Admitted, MisledForGood

\* An announcement comes behind what is on its way.
LEMMA TalkBroadcastNext ==
    ASSUME TypeInv, NEW c \in Clients, Talk(c), BroadcastNext
    PROVE  Talk(c)'
<1>1. /\ inbox' = inbox /\ user' = user /\ phase' = phase /\ creds' = creds /\ misled' = misled
      /\ outbox' = [outbox EXCEPT ![iterator] = Append(@, AnnounceMessage)]
  BY DEF BroadcastNext, clientVars
<1>2. outbox[c] \in Seq(Answers) /\ outbox \in [Clients -> Seq(Answers)]
  BY DEF TypeInv
<1>3. /\ \A i \in DOMAIN outbox[c] : i \in DOMAIN outbox'[c] /\ outbox'[c][i] = outbox[c][i]
      /\ \A i \in DOMAIN outbox'[c] : i \in DOMAIN outbox[c] \/ outbox'[c][i] = AnnounceMessage
  <2>1. CASE outbox'[c] = outbox[c]
    BY <2>1
  <2>2. CASE outbox'[c] = Append(outbox[c], AnnounceMessage)
    BY <1>2, <2>2
  <2> QED BY <1>1, <1>2, <2>1, <2>2
<1>4. NoResponse(c) => NoResponse(c)'
  BY <1>3 DEF NoResponse
<1>5. \A k \in DOMAIN outbox[c] : OneResponse(c, k) => k \in DOMAIN outbox'[c] /\ OneResponse(c, k)'
  BY <1>1, <1>3 DEF OneResponse, Truthful
<1>6. AnswerAgrees(c)'
  BY <1>1, <1>5 DEF Talk, AnswerAgrees, Question
<1> QED BY <1>1, <1>4, <1>6 DEF Talk, Fresh, OneQuestion, EndsWhenGone, Admitted, MisledForGood, Question

\* Who leaves has the end of the connection behind what it sent.
LEMMA TalkDisconnect ==
    ASSUME TypeInv, NEW c \in Clients, Talk(c), Disconnect(c)
    PROVE  Talk(c)'
<1>1. /\ phase[c] \notin {"off", "gone"} /\ phase'[c] = "gone"
      /\ inbox'[c] = Append(inbox[c], EndOfFile)
      /\ outbox' = outbox /\ user' = user /\ creds' = creds /\ misled' = misled
  BY DEF Disconnect, TypeInv, accountVars
<1>2. \A i \in DOMAIN inbox'[c] :
          \/ i \in DOMAIN inbox[c] /\ inbox'[c][i] = inbox[c][i]
          \/ inbox'[c][i] = EndOfFile
  BY <1>1, AppendedNoQuestion
<1>3. EndOfFile.kind # "USER_AUTHORIZE"
  BY DEF EndOfFile
<1>4. OneQuestion(c)'
  BY <1>1, <1>2, <1>3 DEF Talk, OneQuestion, NoResponse, Question
<1> QED BY <1>1, <1>4 DEF Talk, Fresh, EndsWhenGone, AnswerAgrees, Admitted, MisledForGood

\* What a reset loses was sent by a client that is gone.
LEMMA TalkReset ==
    ASSUME TypeInv, NEW c \in Clients, Talk(c), Reset(c)
    PROVE  Talk(c)'
<1>1. /\ phase[c] = "gone" /\ phase' = phase
      /\ inbox'[c] = << EndOfFile >>
      /\ outbox' = outbox /\ user' = user /\ creds' = creds /\ misled' = misled
  BY DEF Reset, TypeInv, accountVars, clientVars
<1>2. \A i \in DOMAIN inbox'[c] : inbox'[c][i].kind # "USER_AUTHORIZE"
  BY <1>1 DEF EndOfFile
<1> QED BY <1>1, <1>2
        DEF Talk, Fresh, OneQuestion, EndsWhenGone, AnswerAgrees, Admitted, MisledForGood

\* What a session has still to read when it has read a packet.
LEMMA ReadLeaves ==
    ASSUME TypeInv, NEW c \in Clients, NEW kind, Talk(c), Read(c, kind)
    PROVE  /\ inbox[c] # << >> /\ Head(inbox[c]).kind = kind
           /\ inbox'[c] = Tail(inbox[c])
           /\ \A i \in DOMAIN inbox'[c] :
                /\ i \in 1..Len(inbox[c]) /\ inbox'[c][i].kind # "USER_AUTHORIZE"
                /\ inbox'[c][i].kind = "EOF" => phase[c] = "gone"
           /\ phase' = phase /\ creds' = creds /\ misled' = misled
           /\ phase[c] \notin {"off", "login"}
           /\ \A q : inbox[c] = << q >> => inbox'[c] = << >>
<1>1. inbox[c] # << >> /\ Head(inbox[c]).kind = kind /\ inbox'[c] = Tail(inbox[c])
  BY DEF Read, TypeInv
<1>2. inbox[c] \in Seq(Packets)
  BY DEF TypeInv
<1>3. phase' = phase /\ creds' = creds /\ misled' = misled
  BY DEF Read, clientVars
<1>4. \A i \in DOMAIN inbox'[c] : i + 1 \in DOMAIN inbox[c] /\ inbox'[c][i] = inbox[c][i + 1] /\ i \in 1..Len(inbox[c]) /\ i + 1 # 1
  BY <1>1, <1>2
<1>5. \A i \in DOMAIN inbox'[c] : inbox'[c][i].kind # "USER_AUTHORIZE"
  BY <1>4 DEF Talk, OneQuestion
<1>6. \A i \in DOMAIN inbox'[c] : inbox'[c][i].kind = "EOF" => phase[c] = "gone"
  BY <1>4 DEF Talk, EndsWhenGone
<1>7. phase[c] \notin {"off", "login"}
  BY <1>1 DEF Talk, Fresh
<1>8. ASSUME NEW q, inbox[c] = << q >>
      PROVE  inbox'[c] = << >>
  BY <1>1, <1>8
<1> QED BY <1>1, <1>3, <1>4, <1>5, <1>6, <1>7, <1>8

\* The answer to a question binds the session to the login in it, or to nobody.
LEMMA TalkHandleUserAuthorize ==
    ASSUME TypeInv, NEW c \in Clients, Talk(c), HandleUserAuthorize(c)
    PROVE  Talk(c)'
<1> DEFINE l == Head(inbox[c]).login
           p == Head(inbox[c]).pswd
<1>1. Read(c, "USER_AUTHORIZE")
  BY DEF HandleUserAuthorize
<1>2. /\ inbox[c] # << >>
      /\ 1 \in DOMAIN inbox[c] /\ inbox[c][1].kind = "USER_AUTHORIZE"
      /\ Head(inbox[c]) = Question(c) /\ NoResponse(c) /\ user[c] = Nobody
  BY <1>1, HeadOfInbox, ReadLeaves DEF Talk, OneQuestion
<1>3. l = creds[c].login /\ l \in Logins \cup {EmptyLogin} /\ p \in Passwords
  BY <1>1, <1>2, HeadOfInbox, ReadLeaves DEF Question, Authorize
<1>4. outbox'[c] = Append(outbox[c], Response(Code(l, p))) /\ outbox[c] \in Seq(Answers)
  BY DEF HandleUserAuthorize, Respond, TypeInv
<1>5. IF Accepted(Code(l, p)) THEN user'[c] = creds[c].login /\ user'[c] # Nobody ELSE user'[c] = Nobody
  <2>1. CASE Accepted(Code(l, p))
    <3>1. user' = [user EXCEPT ![c] = l]
      BY <2>1 DEF HandleUserAuthorize, Accepted
    <3>2. l \in Logins
      BY <1>3, <2>1, UsersBound DEF Accepted, TypeInv, BindsOnly
    <3> QED BY <1>3, <2>1, <3>1, <3>2, SessionsAssumption DEF TypeInv
  <2>2. CASE ~ Accepted(Code(l, p))
    BY <1>2, <2>2 DEF HandleUserAuthorize, Accepted
  <2> QED BY <2>1, <2>2
<1>6. \E k \in DOMAIN outbox'[c] : OneResponse(c, k)'
  <2> DEFINE k == Len(outbox[c]) + 1
  <2>1. /\ k \in DOMAIN outbox'[c] /\ outbox'[c][k] = Response(Code(l, p))
        /\ \A i \in DOMAIN outbox'[c] : i # k => i \in DOMAIN outbox[c] /\ outbox'[c][i] = outbox[c][i]
    BY <1>4
  <2> HIDE DEF k
  <2>2. PICK code \in Codes : code = Code(l, p)
    BY CodeType
  <2>3. PICK j \in DOMAIN outbox'[c] : j = k
    BY <2>1
  <2>4. IF Accepted(code) THEN user'[c] = creds'[c].login /\ user'[c] # Nobody ELSE user'[c] = Nobody
    BY <1>1, <1>5, <2>2 DEF Read, clientVars
  <2>5. Truthful(c, code)'
    BY <2>4 DEF Truthful
  <2>6. outbox'[c][j] = Response(code) /\ \A i \in DOMAIN outbox'[c] : i # j => outbox'[c][i] = AnnounceMessage
    BY <1>2, <2>1, <2>2, <2>3 DEF NoResponse
  <2>7. OneResponse(c, j)'
    BY <2>5, <2>6 DEF OneResponse
  <2> QED BY <2>7
<1>7. /\ \A i \in DOMAIN inbox'[c] :
            inbox'[c][i].kind # "USER_AUTHORIZE" /\ (inbox'[c][i].kind = "EOF" => phase[c] = "gone")
      /\ phase' = phase /\ creds' = creds /\ misled' = misled /\ phase[c] \notin {"off", "login"}
      /\ \A q : inbox[c] = << q >> => inbox'[c] = << >>
  BY <1>1, ReadLeaves
<1>8. OneQuestion(c)' /\ EndsWhenGone(c)' /\ Fresh(c)'
  BY <1>7 DEF OneQuestion, EndsWhenGone, Fresh
<1>9. Admitted(c)' /\ MisledForGood(c)'
  BY <1>2, <1>7 DEF Talk, Admitted, MisledForGood
<1>10. AnswerAgrees(c)'
  <2> SUFFICES ASSUME c \notin TestClients, phase[c] = "asked"
               PROVE  inbox'[c] = << >>
    BY <1>6, <1>7 DEF AnswerAgrees
  <2> QED BY <1>2, <1>7 DEF Talk, AnswerAgrees
<1> QED BY <1>8, <1>9, <1>10 DEF Talk

\* Requests and the end of a connection are no questions.
LEMMA TalkHandleOther ==
    ASSUME TypeInv, NEW c \in Clients, Talk(c),
           \/ HandleUserTransactionRequest(c)
           \/ IgnoreRequest(c)
           \/ CloseSession(c)
    PROVE  Talk(c)'
<1>1. PICK kind \in {"USER_TRANSACTION_REQUEST", "EOF"} :
          /\ Read(c, kind)
          /\ kind = "EOF" \/ user' = user
          /\ kind = "EOF" => user' = [user EXCEPT ![c] = Nobody]
          /\ outbox' = outbox
  BY DEF HandleUserTransactionRequest, IgnoreRequest, CloseSession, accountVars
<1>2. /\ Head(inbox[c]).kind = kind /\ 1 \in DOMAIN inbox[c] /\ inbox[c][1] = Head(inbox[c])
      /\ \A i \in DOMAIN inbox'[c] :
            inbox'[c][i].kind # "USER_AUTHORIZE" /\ (inbox'[c][i].kind = "EOF" => phase[c] = "gone")
      /\ phase' = phase /\ creds' = creds /\ misled' = misled /\ phase[c] \notin {"off", "login"}
  BY <1>1, HeadOfInbox, ReadLeaves
<1>3. ~ (c \notin TestClients /\ phase[c] = "asked")
  BY <1>2 DEF Talk, AnswerAgrees, Question, Authorize
<1>4. phase[c] = "authorized" => user'[c] = user[c]
  BY <1>1, <1>2 DEF Talk, EndsWhenGone
<1> QED BY <1>2, <1>3, <1>4
        DEF Talk, Fresh, OneQuestion, EndsWhenGone, AnswerAgrees, Admitted, MisledForGood

\* A step touches one conversation, and keeps it.
LEMMA TalkNext == TypeInv /\ TalkInv /\ [Next]_vars => TalkInv'
<1> SUFFICES ASSUME TypeInv, TalkInv, [Next]_vars, NEW d \in Clients
             PROVE  Talk(d)'
  BY DEF TalkInv
<1> Talk(d)
  BY DEF TalkInv
<1> USE DEF accountVars, clientVars, announceVars
<1>1. CASE ClientNext
  <2>1. PICK c \in Clients :
            \/ Connect(c)
            \/ \E l \in Logins \cup {EmptyLogin}, p \in Passwords : SendUserAuthorize(c, l, p)
            \/ SendUserTransactionRequest(c)
            \/ ClientRead(c)
            \/ Disconnect(c)
            \/ Reset(c)
    BY <1>1 DEF ClientNext
  <2>2. CASE c = d
    BY <2>1, <2>2, TalkConnect, TalkSendUserAuthorize, TalkSendUserTransactionRequest,
       TalkReadAnnounceMessage, TalkReadResponse, TalkReadCutResponse, TalkDisconnect, TalkReset
    DEF ClientRead
  <2>3. CASE c # d
    <3>1. /\ inbox'[d] = inbox[d] /\ outbox'[d] = outbox[d] /\ user'[d] = user[d]
          /\ phase'[d] = phase[d] /\ creds'[d] = creds[d] /\ (d \in misled' <=> d \in misled)
      BY <2>1, <2>3 DEF TypeInv, Connect, SendUserAuthorize, SendUserTransactionRequest, Send,
         ClientRead, ReadAnnounceMessage, ReadResponse, ReadCutResponse, Reads, Disconnect, Reset
    <3> QED BY <3>1, TalkKept
  <2> QED BY <2>2, <2>3
<1>2. ASSUME NEW c \in Clients, ProcessRead(c)
      PROVE  Talk(d)'
  <2>1. CASE c = d
    BY <1>2, <2>1, TalkHandleUserAuthorize, TalkHandleOther DEF ProcessRead
  <2>2. CASE c # d
    <3>1. /\ inbox'[d] = inbox[d] /\ outbox'[d] = outbox[d] /\ user'[d] = user[d]
          /\ phase'[d] = phase[d] /\ creds'[d] = creds[d] /\ (d \in misled' <=> d \in misled)
      BY <1>2, <2>2 DEF TypeInv, ProcessRead, HandleUserAuthorize, Respond,
         HandleUserTransactionRequest, IgnoreRequest, CloseSession, Read
    <3> QED BY <3>1, TalkKept
  <2> QED BY <2>1, <2>2
<1>3. ASSUME \/ \E c \in Clients : AcceptNext(c)
             \/ EraseSession \/ Announce \/ BroadcastFreed \/ UNCHANGED vars
      PROVE  Talk(d)'
  <2>1. /\ inbox' = inbox /\ outbox' = outbox /\ user' = user
        /\ phase' = phase /\ creds' = creds /\ misled' = misled
    BY <1>3 DEF AcceptNext, HandleAccept, HandleAcceptError, EraseSession, Announce,
       BroadcastFreed, vars
  <2> QED BY <2>1, TalkKept
<1>4. CASE BroadcastNext
  BY <1>4, TalkBroadcastNext
<1> QED BY <1>1, <1>2, <1>3, <1>4 DEF Next, Broadcast

-----------------------------------------------------------------------------
(* Users and sessions *)

\* A login ties a user without a session to a session without a user.
LEMMA AgreeHandleUserAuthorize ==
    ASSUME TypeInv, TalkInv, SessionsAgree, NEW c \in Clients, HandleUserAuthorize(c)
    PROVE  SessionsAgree'
<1>1. Read(c, "USER_AUTHORIZE") /\ inbox[c] # << >>
  BY DEF HandleUserAuthorize, Read
<1>2. PICK l \in Logins \cup {EmptyLogin}, p \in Passwords :
          l = Head(inbox[c]).login /\ p = Head(inbox[c]).pswd /\ user[c] = Nobody
  BY <1>1, HeadOfInbox DEF Read, TalkInv, Talk, OneQuestion
<1>3. c \in Open /\ sessions' = sessions /\ closing' = closing
  BY <1>1, SessionsAssumption DEF Read, IoIdle, Open, HandleUserAuthorize
<1>4. CASE Code(l, p) = AUTHORIZE_SUCCESS
  <2>1. users' = Bound(l, p, c) /\ user' = [user EXCEPT ![c] = l]
    BY <1>2, <1>4 DEF HandleUserAuthorize
  <2>2. /\ l \in Logins /\ DOMAIN users' = DOMAIN users \cup {l}
        /\ users'[l].session = c
        /\ l \in DOMAIN users => users[l].session = Nobody
        /\ \A k \in DOMAIN users \ {l} : users'[k] = users[k]
    <3>1. UsersOK(users)
      BY DEF TypeInv
    <3>2. BindsOnly(Bound(l, p, c), l, p, c)
      BY <1>4, <3>1, UsersBound
    <3> QED BY <2>1, <3>2 DEF BindsOnly
  <2>3. user'[c] = l /\ \A d \in Clients \ {c} : user'[d] = user[d]
    BY <2>1 DEF TypeInv
  <2>4. ASSUME NEW k \in DOMAIN users', users'[k].session # Nobody
        PROVE  users'[k].session \in Open' /\ user'[users'[k].session] = k
    <3>1. CASE k = l
      BY <1>3, <2>2, <2>3, <3>1 DEF Open
    <3>2. CASE k # l
      <4>1. k \in DOMAIN users /\ users'[k] = users[k]
        BY <2>2, <3>2
      <4>2. users[k].session \in Open /\ user[users[k].session] = k
        BY <2>4, <4>1 DEF SessionsAgree
      <4>3. users[k].session \in Clients
        BY <2>4, <4>1 DEF TypeInv, UsersOK
      <4>4. k # Nobody
        BY <4>1, SessionsAssumption DEF TypeInv, UsersOK
      <4> QED BY <1>2, <1>3, <2>3, <4>1, <4>2, <4>3, <4>4 DEF Open
    <3> QED BY <3>1, <3>2
  <2>5. ASSUME NEW d \in Clients, user'[d] # Nobody
        PROVE  user'[d] \in DOMAIN users' /\ users'[user'[d]].session = d
    <3>1. CASE d = c
      BY <2>2, <2>3, <3>1
    <3>2. CASE d # c
      <4>1. user'[d] = user[d] /\ user[d] \in DOMAIN users /\ users[user[d]].session = d
        BY <2>3, <2>5, <3>2 DEF SessionsAgree
      <4>2. user[d] # l
        BY <2>2, <4>1, SessionsAssumption
      <4> QED BY <2>2, <4>1, <4>2
    <3> QED BY <3>1, <3>2
  <2> QED BY <2>4, <2>5 DEF SessionsAgree
<1>5. CASE Code(l, p) # AUTHORIZE_SUCCESS
  <2>1. users' = users /\ user' = user
    BY <1>2, <1>5 DEF HandleUserAuthorize
  <2> QED BY <1>3, <2>1 DEF SessionsAgree, Open
<1> QED BY <1>4, <1>5

\* closeSession unties both.
LEMMA AgreeCloseSession ==
    ASSUME TypeInv, SessionsAgree, NEW c \in Clients, CloseSession(c)
    PROVE  SessionsAgree'
<1>1. /\ closing = Nobody /\ closing' = c /\ sessions' = sessions
      /\ users' = Released(c) /\ user' = [user EXCEPT ![c] = Nobody]
  BY DEF CloseSession, Read, IoIdle
<1>2. /\ DOMAIN users' = DOMAIN users
      /\ \A k \in DOMAIN users :
            users'[k].session = IF k = user[c] /\ user[c] # Nobody THEN Nobody ELSE users[k].session
  BY <1>1, UsersReleased DEF TypeInv
<1>3. user'[c] = Nobody /\ \A d \in Clients \ {c} : user'[d] = user[d]
  BY <1>1 DEF TypeInv
<1>4. ASSUME NEW k \in DOMAIN users', users'[k].session # Nobody
      PROVE  users'[k].session \in Open' /\ user'[users'[k].session] = k
  <2>1. k \in DOMAIN users /\ users'[k].session = users[k].session /\ ~ (k = user[c] /\ user[c] # Nobody)
    BY <1>2, <1>4
  <2>2. users[k].session \in Open /\ user[users[k].session] = k
    BY <1>4, <2>1 DEF SessionsAgree
  <2>3. users[k].session \in Clients /\ k # Nobody
    BY <1>4, <2>1, SessionsAssumption DEF TypeInv, UsersOK
  <2>4. users[k].session # c
    BY <2>1, <2>2, <2>3
  <2> QED BY <1>1, <1>3, <2>1, <2>2, <2>3, <2>4 DEF Open
<1>5. ASSUME NEW d \in Clients, user'[d] # Nobody
      PROVE  user'[d] \in DOMAIN users' /\ users'[user'[d]].session = d
  <2>1. d # c /\ user'[d] = user[d]
    BY <1>3, <1>5
  <2>2. user[d] \in DOMAIN users /\ users[user[d]].session = d
    BY <1>5, <2>1 DEF SessionsAgree
  <2>3. ~ (user[d] = user[c] /\ user[c] # Nobody)
    BY <2>1, <2>2 DEF SessionsAgree
  <2> QED BY <1>2, <2>1, <2>2, <2>3
<1> QED BY <1>4, <1>5 DEF SessionsAgree

\* No other step moves a pointer, and none takes an open session off the map.
LEMMA AgreeNext == TypeInv /\ TalkInv /\ SessionsAgree /\ [Next]_vars => SessionsAgree'
<1> SUFFICES ASSUME TypeInv, TalkInv, SessionsAgree, [Next]_vars
             PROVE  SessionsAgree'
  OBVIOUS
<1> USE DEF accountVars, clientVars, announceVars
<1>1. ASSUME users' = users, user' = user, Open \subseteq Open'
      PROVE  SessionsAgree'
  BY <1>1 DEF SessionsAgree
<1>2. ASSUME NEW c \in Clients, ProcessRead(c)
      PROVE  SessionsAgree'
  <2>1. CASE HandleUserTransactionRequest(c) \/ IgnoreRequest(c)
    BY <1>1, <2>1 DEF HandleUserTransactionRequest, IgnoreRequest, Read, Open
  <2> QED BY <1>2, <2>1, AgreeHandleUserAuthorize, AgreeCloseSession DEF ProcessRead
<1>3. ASSUME NEW c \in Clients, AcceptNext(c)
      PROVE  SessionsAgree'
  <2>1. Range(sessions) \subseteq Range(sessions') /\ closing' = closing
    BY <1>3, InsertedProperties DEF AcceptNext, HandleAccept, HandleAcceptError, TypeInv
  <2> QED BY <1>1, <1>3, <2>1 DEF AcceptNext, HandleAccept, HandleAcceptError, Open
<1>4. ASSUME EraseSession
      PROVE  SessionsAgree'
  <2>1. closing \in Range(sessions) /\ closing' = Nobody
    BY <1>4 DEF EraseSession, TypeInv
  <2>2. Range(sessions) \ {closing} \subseteq Range(sessions')
    BY <1>4, <2>1, ErasedProperties DEF EraseSession, TypeInv
  <2>3. Nobody \notin Range(sessions)
    BY RangeOfSeq, SessionsAssumption DEF TypeInv
  <2> QED BY <1>1, <1>4, <2>1, <2>2, <2>3 DEF EraseSession, Open
<1>5. ASSUME ClientNext \/ Announce \/ Broadcast \/ UNCHANGED vars
      PROVE  SessionsAgree'
  <2>1. users' = users /\ user' = user /\ sessions' = sessions /\ closing' = closing
    BY <1>5 DEF ClientNext, Connect, SendUserAuthorize, SendUserTransactionRequest, ClientRead, ReadAnnounceMessage,
        ReadResponse, ReadCutResponse, Reads,
       Disconnect, Reset, Announce, Broadcast, BroadcastNext, BroadcastFreed, vars
  <2> QED BY <1>1, <2>1 DEF Open
<1> QED BY <1>2, <1>3, <1>4, <1>5 DEF Next

-----------------------------------------------------------------------------
(* Passwords and messages about trades *)

\* Users stay, with the password of their first login.
LEMMA PasswordsStay ==
    ASSUME TypeInv, [Next]_vars, NEW k \in DOMAIN users
    PROVE  k \in DOMAIN users' /\ users'[k].pswd = users[k].pswd
<1> USE DEF accountVars
<1>1. ASSUME NEW c \in Clients, HandleUserAuthorize(c)
      PROVE  k \in DOMAIN users' /\ users'[k].pswd = users[k].pswd
  <2>1. PICK l \in Logins \cup {EmptyLogin}, p \in Passwords :
            l = Head(inbox[c]).login /\ p = Head(inbox[c]).pswd /\ UsersOK(users)
    BY <1>1, HeadOfInbox DEF HandleUserAuthorize, Read, TypeInv
  <2>2. users' = users \/ (Code(l, p) = AUTHORIZE_SUCCESS /\ users' = Bound(l, p, c))
    BY <1>1, <2>1 DEF HandleUserAuthorize
  <2>3. Code(l, p) = AUTHORIZE_SUCCESS => BindsOnly(Bound(l, p, c), l, p, c)
    BY <2>1, UsersBound
  <2> QED BY <2>2, <2>3 DEF BindsOnly
<1>2. ASSUME NEW c \in Clients, CloseSession(c)
      PROVE  k \in DOMAIN users' /\ users'[k].pswd = users[k].pswd
  BY <1>2, UsersReleased DEF CloseSession, TypeInv
<1>3. CASE users' = users
  BY <1>3
<1> QED BY <1>1, <1>2, <1>3 DEF Next, ClientNext, Connect, SendUserAuthorize,
        SendUserTransactionRequest, ClientRead, ReadAnnounceMessage,
        ReadResponse, ReadCutResponse, Reads, Disconnect, Reset, AcceptNext, HandleAccept,
        HandleAcceptError, ProcessRead, HandleUserTransactionRequest, IgnoreRequest, EraseSession,
        Announce, Broadcast, BroadcastNext, BroadcastFreed, vars

\* A client changes what it sent only before it is bound to a user.
LEMMA CredentialsStay ==
    ASSUME TypeInv, TalkInv, [Next]_vars, NEW c \in Clients
    PROVE  creds'[c] = creds[c] \/ (phase[c] = "login" /\ user[c] = Nobody /\ user' = user)
<1>1. ASSUME NEW d \in Clients, NEW l, NEW p, SendUserAuthorize(d, l, p)
      PROVE  creds'[c] = creds[c] \/ (phase[c] = "login" /\ user[c] = Nobody /\ user' = user)
  BY <1>1 DEF SendUserAuthorize, TypeInv, TalkInv, Talk, Fresh, accountVars
<1>2. CASE creds' = creds
  BY <1>2
<1> QED BY <1>1, <1>2 DEF Next, ClientNext, Connect, SendUserTransactionRequest, ClientRead, ReadAnnounceMessage,
        ReadResponse, ReadCutResponse, Reads,
        Disconnect, Reset, AcceptNext, HandleAccept, HandleAcceptError, ProcessRead, Read,
        HandleUserAuthorize, HandleUserTransactionRequest, IgnoreRequest, CloseSession,
        EraseSession, Announce, Broadcast, BroadcastNext, BroadcastFreed, vars, clientVars

\* Only a question that is answered with a success binds a session.
LEMMA BoundByQuestion ==
    ASSUME TypeInv, [Next]_vars, NEW c \in Clients, user'[c] # user[c], user'[c] # Nobody
    PROVE  HandleUserAuthorize(c)
<1> USE DEF accountVars
<1>1. CASE user' = user
  BY <1>1
<1>2. ASSUME NEW d \in Clients, HandleUserAuthorize(d) \/ CloseSession(d)
      PROVE  HandleUserAuthorize(c)
  BY <1>2 DEF HandleUserAuthorize, CloseSession, TypeInv
<1> QED BY <1>1, <1>2 DEF Next, ClientNext, Connect, SendUserAuthorize,
        SendUserTransactionRequest, ClientRead, ReadAnnounceMessage,
        ReadResponse, ReadCutResponse, Reads, Disconnect, Reset, AcceptNext, HandleAccept,
        HandleAcceptError, ProcessRead, HandleUserTransactionRequest, IgnoreRequest, EraseSession,
        Announce, Broadcast, BroadcastNext, BroadcastFreed, vars

\* Who is bound was bound by the last question of its client, and sends no other.
LEMMA AuthorizedNext ==
    ASSUME TypeInv, TalkInv, SessionsAgree, AuthorizedByPassword, [Next]_vars
    PROVE  AuthorizedByPassword'
<1> SUFFICES ASSUME NEW c \in Clients, user'[c] # Nobody
             PROVE  creds'[c] = [login |-> user'[c], pswd |-> users'[user'[c]].pswd]
  BY DEF AuthorizedByPassword
<1>1. CASE user'[c] = user[c]
  <2>1. user[c] \in DOMAIN users /\ creds[c] = [login |-> user[c], pswd |-> users[user[c]].pswd]
    BY <1>1 DEF SessionsAgree, AuthorizedByPassword
  <2>2. creds'[c] = creds[c]
    BY <1>1, CredentialsStay
  <2> QED BY <1>1, <2>1, <2>2, PasswordsStay
<1>2. CASE user'[c] # user[c]
  <2>1. HandleUserAuthorize(c)
    BY <1>2, BoundByQuestion
  <2>2. inbox[c] # << >> /\ Head(inbox[c]).kind = "USER_AUTHORIZE" /\ creds' = creds
    BY <2>1 DEF HandleUserAuthorize, Read, clientVars
  <2>3. PICK l \in Logins \cup {EmptyLogin}, p \in Passwords :
            l = Head(inbox[c]).login /\ p = Head(inbox[c]).pswd /\ Head(inbox[c]) = Question(c)
    BY <2>2, HeadOfInbox DEF TalkInv, Talk, OneQuestion
  <2>4. creds[c] = [login |-> l, pswd |-> p]
    <3>1. creds[c] \in Credentials
      BY DEF TypeInv
    <3>2. l = creds[c].login /\ p = creds[c].pswd
      BY <2>3 DEF Question, Authorize
    <3> QED BY <3>1, <3>2 DEF Credentials
  <2>5. Code(l, p) = AUTHORIZE_SUCCESS /\ users' = Bound(l, p, c) /\ user' = [user EXCEPT ![c] = l]
    BY <1>2, <2>1, <2>3 DEF HandleUserAuthorize
  <2>6. UsersOK(users)
    BY DEF TypeInv
  <2>7. BindsOnly(Bound(l, p, c), l, p, c)
    BY <2>5, <2>6, UsersBound
  <2>8. user'[c] = l
    BY <2>5 DEF TypeInv
  <2> QED BY <2>2, <2>4, <2>5, <2>7, <2>8 DEF BindsOnly
<1> QED BY <1>1, <1>2

\* Who is gone stays gone, and only who is gone loses the user.
LEMMA BoundStays ==
    ASSUME TypeInv, TalkInv, [Next]_vars, NEW c \in Clients, phase'[c] # "gone", user'[c] = Nobody
    PROVE  phase[c] # "gone" /\ user[c] = Nobody
<1> USE DEF accountVars, clientVars
<1>1. phase[c] # "gone"
  <2>1. CASE phase' = phase
    BY <2>1
  <2>2. CASE ClientNext
    BY <2>2 DEF ClientNext, Connect, SendUserAuthorize, SendUserTransactionRequest, ClientRead, ReadAnnounceMessage,
        ReadResponse, ReadCutResponse, Reads,
       Disconnect, Reset, TypeInv
  <2> QED BY <2>1, <2>2 DEF Next, AcceptNext, HandleAccept, HandleAcceptError, ProcessRead, Read,
          HandleUserAuthorize, HandleUserTransactionRequest, IgnoreRequest, CloseSession,
          EraseSession, Announce, Broadcast, BroadcastNext, BroadcastFreed, vars
<1>2. user[c] = Nobody
  <2>1. CASE user' = user
    BY <2>1
  <2>2. ASSUME NEW d \in Clients, CloseSession(d)
        PROVE  user[c] = Nobody
    <3>1. CASE d = c
      <4>1. inbox[c] # << >> /\ Head(inbox[c]).kind = "EOF" /\ phase' = phase
        BY <2>2, <3>1 DEF CloseSession, Read
      <4>2. phase[c] = "gone"
        BY <4>1, HeadOfInbox DEF TalkInv, Talk, EndsWhenGone
      <4> QED BY <4>1, <4>2
    <3>2. CASE d # c
      BY <2>2, <3>2 DEF CloseSession, TypeInv
    <3> QED BY <3>1, <3>2
  <2>3. ASSUME NEW d \in Clients, HandleUserAuthorize(d)
        PROVE  user[c] = Nobody
    <3>1. inbox[d] # << >> /\ Head(inbox[d]).kind = "USER_AUTHORIZE"
      BY <2>3 DEF HandleUserAuthorize, Read
    <3>2. user[d] = Nobody
      BY <3>1, HeadOfInbox DEF TalkInv, Talk, OneQuestion
    <3> QED BY <2>3, <3>2 DEF HandleUserAuthorize, TypeInv
  <2> QED BY <2>1, <2>2, <2>3 DEF Next, ClientNext, Connect, SendUserAuthorize,
          SendUserTransactionRequest, ClientRead, ReadAnnounceMessage,
        ReadResponse, ReadCutResponse, Reads, Disconnect, Reset, AcceptNext, HandleAccept,
          HandleAcceptError, ProcessRead, HandleUserTransactionRequest, IgnoreRequest,
          EraseSession, Announce, Broadcast, BroadcastNext, BroadcastFreed, vars
<1> QED BY <1>1, <1>2

\* A new message goes to the session that the user is bound to.
LEMMA ToldThroughOwnSession ==
    ASSUME TypeInv, SessionsAgree, NoticesInv, NEW d \in Clients, HandleUserTransactionRequest(d)
    PROVE  /\ posted' \subseteq DOMAIN users
           /\ \A c \in Clients : \A l \in notices'[c] \ notices[c] : l \in DOMAIN users /\ user[c] = l
           /\ users' = users /\ user' = user /\ creds' = creds
<1>1. PICK others \in SUBSET (posted \ {user[d]}) :
        /\ notices' = IF others = {} THEN notices ELSE Told(d, others \cup {user[d]})
        /\ \/ posted' = (posted \ others) \cup {user[d]}
           \/ others # {} /\ \E done \in SUBSET others : posted' = posted \ done
  BY DEF HandleUserTransactionRequest
<1>2. user[d] \in DOMAIN users
  BY DEF HandleUserTransactionRequest, SessionsAgree
<1>3. others \cup {user[d]} \subseteq DOMAIN users
  BY <1>2 DEF NoticesInv
<1>4. posted' \subseteq DOMAIN users
  BY <1>1, <1>2 DEF NoticesInv
<1>5. ASSUME NEW c \in Clients, NEW l \in notices'[c] \ notices[c]
      PROVE  l \in DOMAIN users /\ user[c] = l
  <2>1. notices' = Told(d, others \cup {user[d]})
    BY <1>1
  <2>2. l \in others \cup {user[d]} /\ users[l].session = c
    BY <2>1 DEF Told
  <2>3. l \in DOMAIN users /\ users[l].session # Nobody
    BY <1>3, <2>2, SessionsAssumption
  <2> QED BY <2>2, <2>3 DEF SessionsAgree
<1>6. users' = users /\ user' = user /\ creds' = creds
  BY DEF HandleUserTransactionRequest, Read, clientVars
<1> QED BY <1>4, <1>5, <1>6

\* Every other step leaves the messages alone.
LEMMA NoticesStay ==
    ASSUME [Next]_vars
    PROVE  \/ notices' = notices /\ posted' = posted
           \/ \E d \in Clients : HandleUserTransactionRequest(d)
BY DEF Next, ClientNext, Connect, SendUserAuthorize, SendUserTransactionRequest, ClientRead, ReadAnnounceMessage,
        ReadResponse, ReadCutResponse, Reads,
   Disconnect, Reset, AcceptNext, HandleAccept, HandleAcceptError, ProcessRead,
   HandleUserAuthorize, IgnoreRequest, CloseSession, EraseSession, Announce, Broadcast,
   BroadcastNext, BroadcastFreed, vars, accountVars

\* Messages go to sessions that are bound, and a client that knew a password once has it
\* as long as its session is bound.
LEMMA NoticesNext ==
    ASSUME TypeInv, TalkInv, SessionsAgree, AuthorizedByPassword, NoticesInv, NoticesReachTheirUser,
           [Next]_vars
    PROVE  NoticesInv' /\ NoticesReachTheirUser'
<1>1. /\ posted' \subseteq DOMAIN users'
      /\ \A c \in Clients : \A l \in notices'[c] \ notices[c] :
            /\ l \in DOMAIN users /\ user[c] = l
            /\ users' = users /\ user' = user /\ creds' = creds
  <2>1. CASE notices' = notices /\ posted' = posted
    BY <2>1, PasswordsStay DEF NoticesInv
  <2>2. CASE \E d \in Clients : HandleUserTransactionRequest(d)
    BY <2>2, ToldThroughOwnSession
  <2> QED BY <2>1, <2>2, NoticesStay
<1>2. ASSUME NEW c \in Clients
      PROVE  /\ notices'[c] \subseteq DOMAIN users'
             /\ phase'[c] # "gone" /\ user'[c] = Nobody => notices'[c] = {}
  <2>1. notices'[c] \subseteq DOMAIN users'
    BY <1>1, PasswordsStay DEF NoticesInv
  <2>2. ASSUME phase'[c] # "gone", user'[c] = Nobody, NEW l \in notices'[c]
        PROVE  FALSE
    <3>1. user[c] = Nobody /\ notices[c] = {}
      BY <2>2, BoundStays DEF NoticesInv
    <3>2. l \in DOMAIN users /\ user[c] = l
      BY <1>1, <3>1
    <3> QED BY <3>1, <3>2, SessionsAssumption DEF TypeInv, UsersOK
  <2> QED BY <2>1, <2>2
<1>3. ASSUME NEW c \in Clients, NEW l \in notices'[c]
      PROVE  creds'[c] = [login |-> l, pswd |-> users'[l].pswd]
  <2>1. CASE l \in notices[c]
    <3>1. l \in DOMAIN users /\ creds[c] = [login |-> l, pswd |-> users[l].pswd]
      BY <2>1 DEF NoticesInv, NoticesReachTheirUser
    <3>2. creds'[c] = creds[c]
      BY <2>1, CredentialsStay DEF NoticesInv
    <3> QED BY <3>1, <3>2, PasswordsStay
  <2>2. CASE l \notin notices[c]
    <3>1. user[c] = l /\ l \in DOMAIN users /\ users' = users /\ creds' = creds
      BY <1>1, <2>2
    <3>2. user[c] # Nobody
      BY <3>1, SessionsAssumption DEF TypeInv, UsersOK
    <3> QED BY <3>1, <3>2 DEF AuthorizedByPassword
  <2> QED BY <2>1, <2>2
<1> QED BY <1>1, <1>2, <1>3 DEF NoticesInv, NoticesReachTheirUser

-----------------------------------------------------------------------------
(* The invariant, and what follows from it *)

SafetyInv ==
    /\ TypeInv
    /\ TalkInv
    /\ SessionsAgree
    /\ AuthorizedByPassword
    /\ NoticesInv
    /\ NoticesReachTheirUser

\* Nobody is connected, bound or told of anything.
LEMMA SafetyInit == Init => SafetyInv
<1> SUFFICES ASSUME Init PROVE SafetyInv
  OBVIOUS
<1>1. TalkInv
  BY DEF Init, TalkInv, Talk, Fresh, OneQuestion, EndsWhenGone, AnswerAgrees, Admitted, MisledForGood, NoResponse
<1>2. SessionsAgree /\ AuthorizedByPassword
  BY DEF Init, SessionsAgree, AuthorizedByPassword
<1>3. NoticesInv /\ NoticesReachTheirUser
  BY DEF Init, NoticesInv, NoticesReachTheirUser
<1> QED BY <1>1, <1>2, <1>3, TypeInit DEF SafetyInv

\* The conjuncts hold together: each step of one rests on the ones before it.
LEMMA SafetyAlways == Spec => []SafetyInv
<1>1. Init => SafetyInv
  BY SafetyInit
<1>2. SafetyInv /\ [Next]_vars => SafetyInv'
  BY TypeNext, TalkNext, AgreeNext, AuthorizedNext, NoticesNext DEF SafetyInv
<1> QED BY <1>1, <1>2, PTL DEF Spec

\* A user and the session it points to point at each other, and at nothing that closeSession
\* has closed (server.cpp:150-158, session.cpp:28-33), for every number of clients and users.
THEOREM UsersAndSessionsAgree == Spec => []SessionsAgree
<1>1. SafetyInv => SessionsAgree
  BY DEF SafetyInv
<1> QED BY <1>1, SafetyAlways, PTL

\* A session is bound to a user only by that user's login and password, sent by its own client
\* (session.cpp:113-146), however many clients come, ask, are reset and leave in between.
THEOREM PasswordsAreAsked == Spec => []AuthorizedByPassword
<1>1. SafetyInv => AuthorizedByPassword
  BY DEF SafetyInv
<1> QED BY <1>1, SafetyAlways, PTL

\* An authorized client is bound to the login it asked for, a client that is asked for a login
\* is bound to none (client.cpp:129-142 against session.cpp:113-146), and a client that took a
\* damaged refusal for a success (packets.hpp:105-114) is bound to nobody as long as it lives:
\* no other way leads a client to believe what the server does not.
THEOREM ClientAndServerAgree == Spec => []BeliefsAgree
<1>1. SafetyInv => BeliefsAgree
  BY DEF SafetyInv, TalkInv, Talk, Fresh, Admitted, BeliefsAgree
<1> QED BY <1>1, SafetyAlways, PTL

\* A message about a user's trade goes to nobody but who knew the password (user.cpp:42-72).
THEOREM NoticesArePrivate == Spec => []NoticesReachTheirUser
<1>1. SafetyInv => NoticesReachTheirUser
  BY DEF SafetyInv
<1> QED BY <1>1, SafetyAlways, PTL
=============================================================================
