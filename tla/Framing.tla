------------------------------ MODULE Framing ------------------------------
(***************************************************************************)
(* One direction of a connection, as bytes: packets are written to a       *)
(* socket of limited room, read in chunks that end anywhere, and split at  *)
(* '|'.  A packet is its id, its JSON text in two halves, and '|'; packets *)
(* without a body have no text.                                            *)
(*                                                                         *)
(* The server writes with async_write from a local string: what does not   *)
(* fit at once is read later from memory that is free by then.  The client *)
(* writes with a blocking write.                                           *)
(***************************************************************************)
EXTENDS Integers, Sequences, FiniteSets, SequencesExt

CONSTANTS
    Kinds,      \* by sender, the kinds of packet it sends
    Room,       \* cells that fit into the socket
    Bars,       \* texts may contain '|', which JSON does not escape
    MaxPackets  \* bound: packets sent in one behaviour

ServerBound == {"USER_AUTHORIZE", "CHECK_BALANCE_REQUEST", "USER_TRANSACTION_REQUEST", "TEST_PACKET"}
ClientBound == {"USER_AUTHORIZE_RESPONSE", "CHECK_BALANCE_RESPONSE"}
Bodyless == {"CHECK_BALANCE_REQUEST", "TEST_PACKET"}

ASSUME FramingAssumption ==
    /\ DOMAIN Kinds \subseteq {"client", "server"}
    /\ \A side \in DOMAIN Kinds : Kinds[side] \subseteq
        (IF side = "client" THEN ServerBound ELSE ClientBound) \cup {"ANNOUNCE_MESSAGE"}
    /\ Bars \in BOOLEAN
    /\ Room \in Nat \ {0}
    /\ MaxPackets \in Nat

\* 0 stands for what a decoder returns when it fails: an empty login or message, the
\* amount 0, the balance 0 - and AUTHORIZE_SUCCESS.
Default == 0
Values(kind) == IF kind = "USER_AUTHORIZE_RESPONSE" THEN {Default, 1} ELSE {1}
HasText(kind) == kind \in {"ANNOUNCE_MESSAGE", "USER_AUTHORIZE"}
Packets(side) ==
    {p \in [kind : Kinds[side], value : 0..1, bar : BOOLEAN] :
        p.value \in Values(p.kind) /\ (p.bar => Bars /\ HasText(p.kind))}

VARIABLES
    sender,     \* who writes to this direction
    sent,       \* the packets given to sendPacket
    alone,      \* those given to it when nothing was on its way
    queue,      \* writes the reactor holds until the socket has room
    posted,     \* writes that stopped half way and go on when the io_service runs
    stream,     \* cells in the socket
    buffer,     \* what read_until has taken from it
    handled,    \* the packets given to a handler, with what the decoder made of them
    torn        \* a deferred write went on from memory that held something else by then, or
                \* another write came between its halves: nothing more is said

senderVars == <<sender, sent, alone>>
vars == <<senderVars, queue, posted, stream, buffer, handled, torn>>

Async == sender = "server"

Init ==
    /\ sender \in DOMAIN Kinds
    /\ sent = <<>> /\ alone = {}
    /\ queue = <<>> /\ posted = <<>>
    /\ stream = <<>>
    /\ buffer = <<>>
    /\ handled = <<>>
    /\ torn = FALSE

Encode(p) ==
    IF p.kind \in Bodyless THEN <<"id", "bar">>
    ELSE IF p.bar THEN <<"id", "text", "bar", "end", "bar">>
    ELSE <<"id", "text", "end", "bar">>

NoPacket == 0
Garbage == [packet |-> NoPacket, part |-> "garbage"]

\* n cells of the memory that holds packet k, from the i-th on.
Cells(packets, k, i, n) ==
    [j \in 1..n |->
        IF k \in DOMAIN packets /\ i + j - 1 \in DOMAIN Encode(packets[k])
        THEN [packet |-> k, part |-> Encode(packets[k])[i + j - 1]]
        ELSE Garbage]

-----------------------------------------------------------------------------
(* The sender *)

Least(a, b) == IF a <= b THEN a ELSE b
Remaining(packets, op) == Len(Encode(packets[op.packet])) - op.next + 1
Fits(packets, op) == Least(Room - Len(stream), Remaining(packets, op))

\* The first write of a packet that comes between the writes of another one.
Cuts(op) == op.next = 1 /\ \E other \in Range(queue \o posted) : other.next > 1

\* The socket takes what fits, from the memory of packet k; a short write is taken up again
\* through the io_service.
Transfer(packets, op, k) ==
    LET n == Fits(packets, op)
    IN  /\ torn' = (k # op.packet \/ Cuts(op))
        /\ stream' = stream \o Cells(packets, k, op.next, n)
        /\ posted' = (IF op \in Range(posted) THEN Tail(posted) ELSE posted)
                     \o (IF n < Remaining(packets, op) THEN <<[op EXCEPT !.next = @ + n]>> ELSE <<>>)

\* async_write tries at once unless others wait for the same socket.
Start(packets, op, k) ==
    IF queue = <<>> /\ Fits(packets, op) > 0
    THEN Transfer(packets, op, k) /\ UNCHANGED queue
    ELSE /\ queue' = Append(queue, op)
         /\ posted' = IF op \in Range(posted) THEN Tail(posted) ELSE posted
         /\ UNCHANGED <<stream, torn>>

\* Client::sendPacket returns when all is written, Session::sendPacket at once.
SendPacket(p) ==
    /\ ~torn
    /\ Len(sent) < MaxPackets
    /\ Async \/ (queue = <<>> /\ posted = <<>>)
    /\ sent' = Append(sent, p)
    /\ alone' = IF queue \o posted \o stream \o buffer = <<>> THEN alone \cup {Len(sent')} ELSE alone
    /\ LET k == Len(sent) + 1 IN Start(sent', [packet |-> k, next |-> 1], k)
    /\ UNCHANGED <<sender, buffer, handled>>

\* What the memory of a deferred write holds: still the packet, or one that was encoded
\* after it in the same place, or something else.
Memory(op) ==
    IF Async THEN {op.packet, NoPacket} \cup {k \in DOMAIN sent : k > op.packet} ELSE {op.packet}

Resume ==
    /\ ~torn
    /\ posted # <<>>
    /\ \E k \in Memory(Head(posted)) : Start(sent, Head(posted), k)
    /\ UNCHANGED <<senderVars, buffer, handled>>

WriteQueued ==
    /\ ~torn
    /\ queue # <<>>
    /\ Len(stream) < Room
    /\ \E k \in Memory(Head(queue)) : Transfer(sent, Head(queue), k)
    /\ queue' = Tail(queue)
    /\ UNCHANGED <<senderVars, buffer, handled>>

-----------------------------------------------------------------------------
(* The receiver *)

\* Mutant: a read returns with what there is.
HasAny(cells) == cells # <<>>
HasBar(cells) == \E i \in DOMAIN cells : cells[i].part = "bar"

\* async_read_until, read_until: a read takes what there is, up to its size, until there is
\* a '|' in the buffer.
Deliver(n) ==
    /\ ~torn
    /\ ~HasBar(buffer)
    /\ n <= Len(stream)
    /\ buffer' = buffer \o SubSeq(stream, 1, n)
    /\ stream' = SubSeq(stream, n + 1, Len(stream))
    /\ UNCHANGED <<senderVars, queue, posted, handled, torn>>

\* The pieces between bars that start with the id of a packet; others are unknown packets.
\* Mutant: only the first packet of a read is looked at.
StartsFirst(cells) == {i \in {1} : cells[i].part = "id"}
Starts(cells) ==
    {i \in DOMAIN cells : cells[i].part = "id" /\ (i = 1 \/ cells[i - 1].part = "bar")}

\* Mutant: the piece goes on to the end of what was read.
PieceToEnd(cells, i) == SubSeq(cells, i, Len(cells))
Piece(cells, i) ==
    LET bars == {j \in DOMAIN cells : j > i /\ cells[j].part = "bar"}
        last == IF bars = {} THEN Len(cells) ELSE (CHOOSE j \in bars : \A k \in bars : j <= k) - 1
    IN  SubSeq(cells, i, last)

\* The text is JSON only when it is there from the first to the last half (PacketText).
Parses(piece) ==
    /\ Len(piece) = 3
    /\ piece[2] = [packet |-> piece[1].packet, part |-> "text"]
    /\ piece[3] = [packet |-> piece[1].packet, part |-> "end"]

Decode(piece) ==
    LET p == sent[piece[1].packet]
    IN  [packet |-> piece[1].packet, kind |-> p.kind,
         value |-> IF p.kind \in Bodyless \/ Parses(piece) THEN p.value ELSE Default]

\* Where the n-th of the pieces starts.
StartOf(cells, n) ==
    CHOOSE i \in Starts(cells) : Cardinality({j \in Starts(cells) : j < i}) = n - 1

Dispatched(cells) ==
    [n \in 1..Cardinality(Starts(cells)) |-> Decode(Piece(cells, StartOf(cells, n)))]

\* All that was read is taken, also the beginning of a packet that is not there yet.
Kept(cells) == <<>>

ProcessRead ==
    /\ ~torn
    /\ HasBar(buffer)
    /\ handled' = handled \o Dispatched(buffer)
    /\ buffer' = Kept(buffer)
    /\ UNCHANGED <<senderVars, queue, posted, stream, torn>>

-----------------------------------------------------------------------------
Transport ==
    \/ Resume
    \/ WriteQueued
    \/ \E n \in 1..Room : Deliver(n)
    \/ ProcessRead

Next == Transport \/ \E p \in Packets(sender) : SendPacket(p)

Spec == Init /\ [][Next]_vars

\* As long as the io_service or a reader has something to do, one of them does it; nobody
\* has to send.
FairSpec == Spec /\ WF_vars(Transport)

-----------------------------------------------------------------------------
(* Properties *)

\* session.cpp:75, client.cpp:100: however the stream is cut, what is read implements the
\* abstract channel, which may damage packets but neither loses nor reorders them.
Abstract == INSTANCE Channel WITH received <- handled
ImplementsChannel == Abstract!Spec

\* README.md:26: "You must be authorized to use it."  A packet that is sent when nothing is on
\* its way is not damaged by any cut of the reads, whatever is sent after it.  So a refusal is
\* taken for a success, which is what its decoder falls back to, only if it met another message.
IntactWhenAlone ==
    \A i \in alone \cap DOMAIN handled :
        torn \/ sent[i].bar \/ handled[i].value = sent[i].value

\* Each packet is dispatched in the end, whole or damaged: no cut leaves the reader waiting for
\* the rest of a packet it has thrown away.
EachIsDispatched == []<>(Len(handled) = Len(sent) \/ torn)
=============================================================================
