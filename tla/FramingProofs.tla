---------------------------- MODULE FramingProofs ----------------------------
(***************************************************************************)
(* Theorems about Framing, for every set of kinds, every room of a socket  *)
(* and every number of packets.                                            *)
(*                                                                         *)
(* The invariant is about a tape: the packets written one behind the       *)
(* other.  As long as nothing is torn, what is in the buffer and in the    *)
(* socket is a stretch of it, which begins where the reader stopped and    *)
(* ends where the next write goes on.                                      *)
(***************************************************************************)
EXTENDS Framing, SequenceTheorems, FiniteSetTheorems, WellFoundedInduction, TLAPS

Parts == {"id", "text", "end", "bar", "garbage"}
Cell == [packet : Nat, part : Parts]

\* A place on the tape is that of a write: the next cell of a packet.
Place == [packet : Nat \ {0}, next : Nat \ {0}]

Message == [packet : Nat, kind : Kinds[sender], value : 0..1]

\* The writes that may be left of the packets given.
Writes ==
    {p \in Place : p.packet \in DOMAIN sent /\ p.next \in DOMAIN Encode(sent[p.packet])}

TypeInv ==
    /\ sender \in DOMAIN Kinds
    /\ sent \in Seq(Packets(sender))
    /\ alone \subseteq DOMAIN sent
    /\ queue \in Seq(Writes) /\ posted \in Seq(Writes)
    /\ stream \in Seq(Cell) /\ buffer \in Seq(Cell)
    /\ handled \in Seq(Message)
    /\ torn \in BOOLEAN

\* A packet is to be written between two writes of another one.
Doomed ==
    /\ queue # <<>> /\ queue[1].next = 1
    /\ posted # <<>> \/ \E i \in DOMAIN queue : queue[i].next > 1

\* The writes that wait are of the last packets, each from its beginning but for the first.
InLine(writes) ==
    \A i \in DOMAIN writes :
        /\ writes[i].packet = Len(sent) - Len(writes) + i
        /\ i > 1 => writes[i].next = 1

WritesInv ==
    /\ \A i \in DOMAIN posted : posted[i].next > 1
    /\ \/ Doomed
       \/ queue = <<>> /\ Len(posted) <= 1 /\ InLine(posted)
       \/ posted = <<>> /\ InLine(queue)

\* Where the next write goes on.
Written ==
    IF queue # <<>> THEN queue[1]
    ELSE IF posted # <<>> THEN posted[1]
    ELSE [packet |-> Len(sent) + 1, next |-> 1]

\* The place behind p.
After(p) ==
    IF p.next < Len(Encode(sent[p.packet]))
    THEN [packet |-> p.packet, next |-> p.next + 1]
    ELSE [packet |-> p.packet + 1, next |-> 1]

\* The packets that begin before p.
Begun(p) == IF p.next = 1 THEN p.packet - 1 ELSE p.packet

\* The cells are those of the tape at the places "at".
Traces(cells, at) ==
    /\ at \in [1..(Len(cells) + 1) -> Place]
    /\ \A j \in 1..Len(cells) :
        /\ at[j].packet \in DOMAIN sent
        /\ at[j].next \in DOMAIN Encode(sent[at[j].packet])
        /\ cells[j] = [packet |-> at[j].packet, part |-> Encode(sent[at[j].packet])[at[j].next]]
        /\ at[j + 1] = After(at[j])

InFlight == buffer \o stream

\* A packet sent alone is dispatched or begins the buffer.
Lone(p) == \A k \in alone : k <= Len(handled) \/ (k = Len(handled) + 1 /\ p.next = 1)

TapeInv ==
    \E at :
        /\ Traces(InFlight, at)
        /\ Begun(at[1]) = Len(handled)
        /\ Lone(at[1])
        /\ Doomed \/ at[Len(InFlight) + 1] = Written

FramingInv ==
    /\ TypeInv
    /\ ~torn => WritesInv /\ TapeInv /\ IntactWhenAlone

-----------------------------------------------------------------------------
(* Texts and places *)

\* What Encode makes of the packets there are.
LEMMA Encoding ==
    ASSUME NEW side \in DOMAIN Kinds, NEW p \in Packets(side)
    PROVE  \/ Encode(p) = <<"id", "bar">> /\ p.kind \in Bodyless /\ ~p.bar
           \/ Encode(p) = <<"id", "text", "end", "bar">> /\ ~p.bar
           \/ Encode(p) = <<"id", "text", "bar", "end", "bar">> /\ p.bar
<1>1. p.bar \in BOOLEAN /\ (p.bar => HasText(p.kind))
  BY DEF Packets
<1>2. p.kind \in Bodyless => ~HasText(p.kind)
  BY DEF Bodyless, HasText
<1> QED BY <1>1, <1>2 DEF Encode

\* The first cell is the only id, the last one a separator.
LEMMA EncodingShape ==
    ASSUME NEW side \in DOMAIN Kinds, NEW p \in Packets(side)
    PROVE  /\ Len(Encode(p)) \in 2..5
           /\ DOMAIN Encode(p) = 1..Len(Encode(p))
           /\ \A i \in DOMAIN Encode(p) :
                /\ Encode(p)[i] \in Parts
                /\ Encode(p)[i] = "id" <=> i = 1
           /\ Encode(p)[Len(Encode(p))] = "bar"
<1>1. CASE Encode(p) = <<"id", "bar">>
  BY <1>1 DEF Parts
<1>2. CASE Encode(p) = <<"id", "text", "end", "bar">>
  BY <1>2 DEF Parts
<1>3. CASE Encode(p) = <<"id", "text", "bar", "end", "bar">>
  BY <1>3 DEF Parts
<1> QED BY <1>1, <1>2, <1>3, Encoding

\* The same of the packets that were sent.
LEMMA EncodingEnds ==
    ASSUME TypeInv, NEW k \in DOMAIN sent
    PROVE  /\ sent[k] \in Packets(sender)
           /\ Len(Encode(sent[k])) \in 2..5
           /\ DOMAIN Encode(sent[k]) = 1..Len(Encode(sent[k]))
           /\ \A i \in DOMAIN Encode(sent[k]) :
                /\ Encode(sent[k])[i] \in Parts
                /\ Encode(sent[k])[i] = "id" <=> i = 1
           /\ Encode(sent[k])[Len(Encode(sent[k]))] = "bar"
<1>1. sender \in DOMAIN Kinds /\ sent[k] \in Packets(sender)
  BY ElementOfSeq DEF TypeInv
<1> QED BY <1>1, EncodingShape

\* What is true of 0, and of n + 1 when it is of n, is true of every natural number.
LEMMA SetInduction ==
    ASSUME NEW S \in SUBSET Nat, 0 \in S, \A n \in Nat : n \in S => n + 1 \in S
    PROVE  S = Nat
<1>1. OpToRel(<, Nat) = {ss \in Nat \X Nat : ss[1] < ss[2]}
  BY DEF OpToRel
<1>2. SUFFICES ASSUME Nat \ S # {} PROVE FALSE
  OBVIOUS
<1>3. PICK x \in Nat \ S : \A y \in Nat \ S : ~ (<<y, x>> \in OpToRel(<, Nat))
  BY <1>2, NatLessThanWellFounded, WFMin
<1>4. x - 1 \in Nat /\ x - 1 < x /\ (x - 1) + 1 = x
  <2>1. x \in Nat /\ x # 0
    BY <1>3
  <2> QED BY <2>1
<1>5. x - 1 \in S
  <2>1. <<x - 1, x>> \notin {ss \in Nat \X Nat : ss[1] < ss[2]} \/ x - 1 \in S
    BY <1>1, <1>3, <1>4
  <2> QED BY <1>3, <1>4, <2>1
<1> QED BY <1>3, <1>4, <1>5

\* One packet more has begun behind a place than before it if it is the beginning of one.
LEMMA AfterProperties ==
    ASSUME TypeInv, NEW p \in Place, p.packet \in DOMAIN sent,
           p.next \in DOMAIN Encode(sent[p.packet])
    PROVE  /\ After(p) \in Place
           /\ Begun(p) \in Nat /\ Begun(After(p)) \in Nat
           /\ Begun(After(p)) = IF p.next = 1 THEN Begun(p) + 1 ELSE Begun(p)
           /\ Begun(After(p)) = p.packet
           /\ After(p).next = 1 => p.next = Len(Encode(sent[p.packet]))
<1> DEFINE k == p.packet
           n == Len(Encode(sent[k]))
<1>1. k \in Nat \ {0} /\ p.next \in 1..n /\ n \in 2..5
  BY EncodingEnds DEF Place
<1>2. After(p) = IF p.next < n THEN [packet |-> k, next |-> p.next + 1]
                               ELSE [packet |-> k + 1, next |-> 1]
  BY DEF After
<1> HIDE DEF k, n
<1>3. CASE p.next < n
  BY <1>1, <1>2, <1>3 DEF Place, Begun, k, n
<1>4. CASE p.next = n
  BY <1>1, <1>2, <1>4 DEF Place, Begun, k, n
<1> QED BY <1>1, <1>3, <1>4

-----------------------------------------------------------------------------
(* A stretch of the tape *)

\* The pieces that start with an id are the packets that begin there.
LEMMA StartsOnTape ==
    ASSUME TypeInv, NEW cells, cells \in Seq(Cell), NEW at, Traces(cells, at)
    PROVE  \A j \in DOMAIN cells : j \in Starts(cells) <=> at[j].next = 1
<1> SUFFICES ASSUME NEW j \in DOMAIN cells
             PROVE  j \in Starts(cells) <=> at[j].next = 1
  OBVIOUS
<1>1. DOMAIN cells = 1..Len(cells) /\ Len(cells) \in Nat
  OBVIOUS
<1>2. cells[j].part = "id" <=> at[j].next = 1
  BY <1>1, EncodingEnds DEF Traces
<1>3. ASSUME at[j].next = 1, j # 1
      PROVE  cells[j - 1].part = "bar"
  <2>1. PICK i \in 1..Len(cells) : i + 1 = j /\ i = j - 1
    <3>1. j - 1 \in 1..Len(cells) /\ (j - 1) + 1 = j
      BY <1>1, <1>3
    <3> QED BY <3>1
  <2>2. /\ at[i] \in Place /\ at[j] = After(at[i])
        /\ at[i].packet \in DOMAIN sent /\ at[i].next \in DOMAIN Encode(sent[at[i].packet])
        /\ cells[i].part = Encode(sent[at[i].packet])[at[i].next]
    BY <1>1, <2>1 DEF Traces
  <2>3. at[i].next = Len(Encode(sent[at[i].packet]))
    BY <1>3, <2>2, AfterProperties
  <2> QED BY <2>1, <2>2, <2>3, EncodingEnds
<1> QED BY <1>1, <1>2, <1>3 DEF Starts

\* The starts in front of a place are as many as the packets that have begun.
LEMMA StartsCounted ==
    ASSUME TypeInv, NEW cells, cells \in Seq(Cell), NEW at, Traces(cells, at)
    PROVE  \A n \in 1..(Len(cells) + 1) :
             /\ IsFiniteSet({j \in Starts(cells) : j < n})
             /\ Cardinality({j \in Starts(cells) : j < n}) \in Nat
             /\ Begun(at[1]) \in Nat /\ Begun(at[n]) \in Nat
             /\ Begun(at[n]) = Begun(at[1]) + Cardinality({j \in Starts(cells) : j < n})
<1> DEFINE B(n) == {j \in Starts(cells) : j < n}
           Good(n) == n + 1 \in 1..(Len(cells) + 1) =>
                        /\ IsFiniteSet(B(n + 1))
                        /\ Cardinality(B(n + 1)) \in Nat
                        /\ Begun(at[n + 1]) \in Nat
                        /\ Begun(at[n + 1]) = Begun(at[1]) + Cardinality(B(n + 1))
           S == {n \in Nat : Good(n)}
<1>1. Len(cells) \in Nat /\ DOMAIN cells = 1..Len(cells)
  OBVIOUS
<1>2. \A n \in 1..(Len(cells) + 1) : at[n] \in Place
  BY DEF Traces
<1>3. \A p \in Place : Begun(p) \in Nat
  BY DEF Place, Begun
<1>4. \A j \in Starts(cells) : j \in 1..Len(cells)
  BY <1>1 DEF Starts
<1>5. Good(0)
  <2>1. B(1) = {}
    BY <1>1, <1>4
  <2>2. at[1] \in Place
    BY <1>1, <1>2
  <2> HIDE DEF B
  <2>3. Cardinality(B(1)) = 0 /\ IsFiniteSet(B(1))
    BY <2>1, FS_EmptySet
  <2>4. Begun(at[1]) \in Nat /\ Begun(at[1]) = Begun(at[1]) + 0
    BY <1>3, <2>2
  <2>5. B(0 + 1) = B(1)
    OBVIOUS
  <2> QED BY <2>3, <2>4, <2>5
<1>6. ASSUME NEW n \in Nat, Good(n)
      PROVE  Good(n + 1)
  <2>1. SUFFICES ASSUME n + 2 \in 1..(Len(cells) + 1)
                 PROVE  /\ IsFiniteSet(B(n + 2))
                        /\ Cardinality(B(n + 2)) \in Nat
                        /\ Begun(at[n + 2]) \in Nat
                        /\ Begun(at[n + 2]) = Begun(at[1]) + Cardinality(B(n + 2))
    OBVIOUS
  <2>2. n + 1 \in 1..Len(cells) /\ n + 1 \in 1..(Len(cells) + 1)
    BY <1>1, <2>1
  <2>3. /\ IsFiniteSet(B(n + 1)) /\ Cardinality(B(n + 1)) \in Nat
        /\ Begun(at[n + 1]) \in Nat
        /\ Begun(at[n + 1]) = Begun(at[1]) + Cardinality(B(n + 1))
    BY <1>6, <2>2
  <2>4. at[n + 2] = After(at[n + 1]) /\ at[n + 1] \in Place
    <3>1. at[(n + 1) + 1] = After(at[n + 1]) /\ at[n + 1] \in Place
      BY <1>2, <2>2 DEF Traces
    <3>2. (n + 1) + 1 = n + 2
      OBVIOUS
    <3> QED BY <3>1, <3>2
  <2>5. /\ Begun(at[n + 2]) \in Nat
        /\ Begun(at[n + 2]) = IF at[n + 1].next = 1 THEN Begun(at[n + 1]) + 1 ELSE Begun(at[n + 1])
    BY <2>2, <2>4, AfterProperties DEF Traces
  <2>6. n + 1 \in Starts(cells) <=> at[n + 1].next = 1
    BY <1>1, <2>2, StartsOnTape
  <2>7. CASE at[n + 1].next = 1
    <3>1. B(n + 2) = B(n + 1) \cup {n + 1} /\ n + 1 \notin B(n + 1)
      BY <1>4, <2>6, <2>7
    <3> HIDE DEF B
    <3>2. IsFiniteSet(B(n + 2)) /\ Cardinality(B(n + 2)) = Cardinality(B(n + 1)) + 1
      BY <2>3, <3>1, FS_AddElement
    <3> QED BY <2>3, <2>5, <2>7, <3>2, <1>3, <1>2, <1>1
  <2>8. CASE at[n + 1].next # 1
    <3>1. B(n + 2) = B(n + 1)
      BY <1>4, <2>6, <2>8
    <3> HIDE DEF B
    <3> QED BY <2>3, <2>5, <2>8, <3>1
  <2> QED BY <2>7, <2>8
<1>7. \A n \in Nat : Good(n)
  <2> HIDE DEF Good
  <2>1. S \in SUBSET Nat /\ 0 \in S /\ \A n \in Nat : n \in S => n + 1 \in S
    BY <1>5, <1>6
  <2> HIDE DEF S
  <2>2. S = Nat
    BY <2>1, SetInduction
  <2> QED BY <2>2 DEF S
<1> SUFFICES ASSUME NEW n \in 1..(Len(cells) + 1)
             PROVE  /\ IsFiniteSet(B(n)) /\ Cardinality(B(n)) \in Nat
                    /\ Begun(at[1]) \in Nat /\ Begun(at[n]) \in Nat
                    /\ Begun(at[n]) = Begun(at[1]) + Cardinality(B(n))
  OBVIOUS
<1>8. n - 1 \in Nat /\ (n - 1) + 1 = n /\ at[1] \in Place
  BY <1>1, <1>2
<1> HIDE DEF B
<1>9. Good(n - 1)
  BY <1>7, <1>8
<1> QED BY <1>3, <1>8, <1>9

\* A set of natural numbers that is not empty has a least one.
LEMMA LeastExists ==
    ASSUME NEW S \in SUBSET Nat, S # {}
    PROVE  \E x \in S : \A y \in S : x <= y
<1>1. OpToRel(<, Nat) = {ss \in Nat \X Nat : ss[1] < ss[2]}
  BY DEF OpToRel
<1>2. PICK x \in S : \A y \in S : ~ (<<y, x>> \in OpToRel(<, Nat))
  BY NatLessThanWellFounded, WFMin
<1>3. ASSUME NEW y \in S PROVE x <= y
  <2>1. x \in Nat /\ y \in Nat
    OBVIOUS
  <2>2. ~ (<<y, x>> \in {ss \in Nat \X Nat : ss[1] < ss[2]})
    BY <1>1, <1>2
  <2> QED BY <2>1, <2>2
<1> QED BY <1>3

\* A place further on has no fewer packets behind it.
LEMMA BegunGrows ==
    ASSUME TypeInv, NEW cells, cells \in Seq(Cell), NEW at, Traces(cells, at),
           NEW m \in 1..(Len(cells) + 1), NEW n \in 1..(Len(cells) + 1), m <= n
    PROVE  Begun(at[m]) <= Begun(at[n]) /\ Begun(at[m]) \in Nat /\ Begun(at[n]) \in Nat
<1> DEFINE B(x) == {j \in Starts(cells) : j < x}
<1>1. /\ IsFiniteSet(B(m)) /\ IsFiniteSet(B(n))
      /\ Begun(at[1]) \in Nat /\ Begun(at[n]) \in Nat /\ Begun(at[m]) \in Nat
      /\ Cardinality(B(m)) \in Nat /\ Cardinality(B(n)) \in Nat
      /\ Begun(at[m]) = Begun(at[1]) + Cardinality(B(m))
      /\ Begun(at[n]) = Begun(at[1]) + Cardinality(B(n))
  BY StartsCounted
<1>2. B(m) \subseteq B(n)
  <2>1. \A j \in Starts(cells) : j \in Nat
    BY DEF Starts
  <2>2. Len(cells) \in Nat
    OBVIOUS
  <2> QED BY <2>1, <2>2
<1> HIDE DEF B
<1>3. Cardinality(B(m)) <= Cardinality(B(n))
  BY <1>1, <1>2, FS_Subset
<1> QED BY <1>1, <1>3

\* The packets that begin in a stretch are as many as its pieces that start with an id.
LEMMA StartsInAll ==
    ASSUME TypeInv, NEW cells, cells \in Seq(Cell), NEW at, Traces(cells, at)
    PROVE  /\ Cardinality(Starts(cells)) \in Nat
           /\ Begun(at[1]) \in Nat
           /\ Begun(at[Len(cells) + 1]) = Begun(at[1]) + Cardinality(Starts(cells))
<1>1. Len(cells) \in Nat /\ \A j \in Starts(cells) : j \in 1..Len(cells)
  BY DEF Starts
<1>2. {j \in Starts(cells) : j < Len(cells) + 1} = Starts(cells)
  BY <1>1
<1>3. Len(cells) + 1 \in 1..(Len(cells) + 1)
  BY <1>1
<1> QED BY <1>2, <1>3, StartsCounted

\* The n-th piece that starts with an id is the n-th packet that begins.
LEMMA StartsFound ==
    ASSUME TypeInv, NEW cells, cells \in Seq(Cell), NEW at, Traces(cells, at),
           NEW n \in 1..Cardinality(Starts(cells))
    PROVE  /\ StartOf(cells, n) \in DOMAIN cells
           /\ StartOf(cells, n) \in Starts(cells)
           /\ at[StartOf(cells, n)].next = 1
           /\ at[StartOf(cells, n)].packet = Begun(at[1]) + n
<1> DEFINE C(m) == Cardinality({j \in Starts(cells) : j < m})
           first == Begun(at[1])
<1>1. Len(cells) \in Nat /\ DOMAIN cells = 1..Len(cells) /\ Starts(cells) \subseteq DOMAIN cells
  BY DEF Starts
<1>2. /\ Cardinality(Starts(cells)) \in Nat /\ first \in Nat
      /\ Begun(at[Len(cells) + 1]) = first + Cardinality(Starts(cells))
  BY StartsInAll
<1>3. \A m \in 1..(Len(cells) + 1) :
        C(m) \in Nat /\ Begun(at[m]) \in Nat /\ Begun(at[m]) = first + C(m)
  BY StartsCounted
<1>4. \A m \in 1..Len(cells) :
        /\ at[m] \in Place
        /\ Begun(at[m + 1]) = IF at[m].next = 1 THEN Begun(at[m]) + 1 ELSE Begun(at[m])
        /\ m \in Starts(cells) <=> at[m].next = 1
  <2> SUFFICES ASSUME NEW m \in 1..Len(cells)
               PROVE  /\ at[m] \in Place
                      /\ Begun(at[m + 1]) =
                           IF at[m].next = 1 THEN Begun(at[m]) + 1 ELSE Begun(at[m])
                      /\ m \in Starts(cells) <=> at[m].next = 1
    OBVIOUS
  <2>1. /\ at[m] \in Place /\ at[m + 1] = After(at[m])
        /\ at[m].packet \in DOMAIN sent /\ at[m].next \in DOMAIN Encode(sent[at[m].packet])
    BY <1>1 DEF Traces
  <2>2. m \in DOMAIN cells
    BY <1>1
  <2> QED BY <2>1, <2>2, AfterProperties, StartsOnTape
<1>5. PICK i \in 1..Len(cells) : at[i].next = 1 /\ Begun(at[i]) = first + (n - 1)
  <2> DEFINE Late == {m \in 1..(Len(cells) + 1) : Begun(at[m]) >= first + n}
  <2>1. Len(cells) + 1 \in Late /\ Late \in SUBSET Nat
    BY <1>1, <1>2
  <2>2. PICK l \in Late : \A m \in Late : l <= m
    BY <2>1, LeastExists
  <2>3. l \in 1..(Len(cells) + 1) /\ Begun(at[l]) >= first + n
    OBVIOUS
  <2>4. l # 1
    BY <1>2, <2>3
  <2>5. PICK i \in 1..Len(cells) : i + 1 = l
    <3>1. l - 1 \in 1..Len(cells) /\ (l - 1) + 1 = l
      BY <1>1, <2>3, <2>4
    <3> QED BY <3>1
  <2>6. i \in 1..(Len(cells) + 1) /\ ~ (l <= i)
    BY <1>1, <2>5
  <2>7. Begun(at[i]) < first + n
    <3>1. i \notin Late
      BY <2>2, <2>6
    <3>2. Begun(at[i]) \in Nat
      BY <1>3, <2>6
    <3> QED BY <1>2, <2>6, <3>1, <3>2
  <2>8. Begun(at[i]) \in Nat
    BY <1>3, <2>6
  <2>9. Begun(at[l]) = IF at[i].next = 1 THEN Begun(at[i]) + 1 ELSE Begun(at[i])
    BY <1>4, <2>5
  <2>10. first \in Nat /\ n \in Nat
    BY <1>2
  <2> DEFINE b == Begun(at[i])
  <2>11. /\ b \in Nat /\ b < first + n
         /\ (IF at[i].next = 1 THEN b + 1 ELSE b) >= first + n
    BY <2>3, <2>7, <2>8, <2>9
  <2> HIDE DEF b, first
  <2>12. at[i].next = 1 /\ b = first + (n - 1)
    BY <2>10, <2>11
  <2> QED BY <2>12 DEF b
<1>6. i \in Starts(cells) /\ C(i) = n - 1
  <2>1. i \in 1..(Len(cells) + 1)
    BY <1>1
  <2> HIDE DEF C, first
  <2> QED BY <1>2, <1>3, <1>4, <1>5, <2>1
<1> DEFINE s == StartOf(cells, n)
<1>7. s \in Starts(cells) /\ C(s) = n - 1
  BY <1>6 DEF StartOf
<1>8. s \in 1..Len(cells) /\ s \in 1..(Len(cells) + 1)
  BY <1>1, <1>7
<1> HIDE DEF C, first, s
<1>9. at[s].next = 1 /\ Begun(at[s]) = first + (n - 1)
  BY <1>2, <1>3, <1>4, <1>7, <1>8
<1>10. at[s].packet \in Nat /\ at[s].packet = Begun(at[s]) + 1
  BY <1>4, <1>8, <1>9 DEF Begun, Place
<1> QED BY <1>1, <1>2, <1>7, <1>9, <1>10 DEF s, first

\* A piece goes from its start to the cell before the next separator.
LEMMA PieceProperties ==
    ASSUME NEW cells, cells \in Seq(Cell), NEW i \in DOMAIN cells
    PROVE  /\ Piece(cells, i)[1] = cells[i]
           /\ \A b \in DOMAIN cells :
                /\ b > i /\ cells[b].part = "bar"
                /\ \A j \in DOMAIN cells : j > i /\ cells[j].part = "bar" => b <= j
                => /\ Len(Piece(cells, i)) = b - i
                   /\ \A j \in 1..(b - i) : Piece(cells, i)[j] = cells[i + j - 1]
<1> DEFINE bars == {j \in DOMAIN cells : j > i /\ cells[j].part = "bar"}
           first == CHOOSE j \in bars : \A k \in bars : j <= k
           last == IF bars = {} THEN Len(cells) ELSE first - 1
<1>1. Len(cells) \in Nat /\ DOMAIN cells = 1..Len(cells) /\ \A j \in 1..Len(cells) : cells[j] \in Cell
  BY ElementOfSeq
<1>2. Piece(cells, i) = SubSeq(cells, i, last)
  BY DEF Piece
<1>3. bars # {} => first \in bars /\ \A k \in bars : first <= k
  <2>1. bars \in SUBSET Nat
    BY <1>1
  <2> HIDE DEF bars
  <2> QED BY <2>1, LeastExists
<1>4. last \in i..Len(cells) /\ i \in 1..Len(cells)
  <2>1. CASE bars = {}
    BY <1>1, <2>1
  <2>2. CASE bars # {}
    <3>1. first \in 1..Len(cells) /\ first > i
      BY <1>1, <1>3, <2>2
    <3> QED BY <1>1, <2>2, <3>1
  <2> QED BY <2>1, <2>2
<1> HIDE DEF last
<1>5. /\ Len(SubSeq(cells, i, last)) = last - i + 1
      /\ \A j \in 1..(last - i + 1) : SubSeq(cells, i, last)[j] = cells[i + j - 1]
  <2>1. \A j \in i..last : cells[j] \in Cell
    BY <1>1, <1>4
  <2>2. i \in Int /\ last \in Int /\ i <= last
    BY <1>4
  <2> QED BY <2>1, <2>2, SubSeqProperties
<1>6. Piece(cells, i)[1] = cells[i]
  <2>1. 1 \in 1..(last - i + 1) /\ i + 1 - 1 = i
    BY <1>4
  <2> QED BY <1>2, <1>5, <2>1
<1>7. ASSUME NEW b \in DOMAIN cells, b > i, cells[b].part = "bar",
             \A j \in DOMAIN cells : j > i /\ cells[j].part = "bar" => b <= j
      PROVE  /\ Len(Piece(cells, i)) = b - i
             /\ \A j \in 1..(b - i) : Piece(cells, i)[j] = cells[i + j - 1]
  <2>1. b \in bars /\ \A j \in bars : b <= j
    BY <1>7
  <2>2. first = b
    <3>1. first \in bars /\ first <= b
      BY <1>3, <2>1
    <3>2. first \in Nat /\ b \in Nat /\ b <= first
      BY <1>1, <2>1, <3>1
    <3> QED BY <3>1, <3>2
  <2>3. last = b - 1
    BY <2>1, <2>2 DEF last
  <2>4. last - i + 1 = b - i
    BY <1>1, <2>3
  <2> QED BY <1>2, <1>5, <2>4
<1> QED BY <1>6, <1>7

\* Where a packet begins on the tape, its piece decodes to the packet, and to its value when the
\* separator at its end is there.
LEMMA PieceOnTape ==
    ASSUME TypeInv, NEW cells, cells \in Seq(Cell), NEW at, Traces(cells, at),
           NEW i \in DOMAIN cells, at[i].next = 1
    PROVE  /\ at[i].packet \in DOMAIN sent
           /\ Decode(Piece(cells, i)) \in Message
           /\ Decode(Piece(cells, i)).packet = at[i].packet
           /\ Decode(Piece(cells, i)).kind = sent[at[i].packet].kind
           /\ Decode(Piece(cells, i)).value \in {sent[at[i].packet].value, Default}
           /\ \/ Decode(Piece(cells, i)).value = sent[at[i].packet].value
              \/ sent[at[i].packet].bar
              \/ ~ \E b \in DOMAIN cells : b > i /\ cells[b].part = "bar"
<1> DEFINE k == at[i].packet
           p == sent[k]
           piece == Piece(cells, i)
           d == Decode(piece)
<1>1. Len(cells) \in Nat /\ DOMAIN cells = 1..Len(cells) /\ i \in 1..Len(cells)
  OBVIOUS
<1>2. k \in DOMAIN sent /\ k \in Nat /\ p \in Packets(sender)
  BY <1>1, EncodingEnds DEF Traces, Place
<1>3. cells[i] = [packet |-> k, part |-> "id"]
  BY <1>1, EncodingEnds DEF Traces
<1>4. piece[1] = [packet |-> k, part |-> "id"]
  BY <1>3, PieceProperties
<1>5. d = [packet |-> k, kind |-> p.kind,
           value |-> IF p.kind \in Bodyless \/ Parses(piece) THEN p.value ELSE Default]
  BY <1>4 DEF Decode
<1>6. p.kind \in Kinds[sender] /\ p.value \in 0..1 /\ p.bar \in BOOLEAN
  BY <1>2 DEF Packets
<1>7. ASSUME p.kind \notin Bodyless, ~p.bar, NEW b \in DOMAIN cells, b > i, cells[b].part = "bar"
      PROVE  Parses(piece)
  <2>1. Encode(p) = <<"id", "text", "end", "bar">>
    BY <1>2, <1>6, <1>7, Encoding DEF TypeInv
  <2>2. /\ Len(Encode(p)) = 4
        /\ Encode(p)[2] = "text" /\ Encode(p)[3] = "end" /\ Encode(p)[4] = "bar"
    BY <2>1
  <2>3. \A j \in 1..Len(cells) :
          /\ at[j + 1] = After(at[j])
          /\ at[j].packet = k =>
               cells[j] = [packet |-> k, part |-> Encode(p)[at[j].next]]
    BY DEF Traces
  <2>4. at[i].packet = k /\ at[i].next = 1
    OBVIOUS
  <2>5. at[i + 1] = [packet |-> k, next |-> 2]
    <3>1. at[i + 1] = After(at[i])
      BY <1>1, <2>3
    <3> QED BY <2>2, <2>4, <3>1 DEF After
  <2>6. b # i + 1 /\ i + 1 \in 1..Len(cells) /\ cells[i + 1] = [packet |-> k, part |-> "text"]
    <3>1. i + 1 \in 1..Len(cells)
      BY <1>1, <1>7
    <3>2. cells[i + 1] = [packet |-> k, part |-> "text"]
      BY <2>2, <2>3, <2>5, <3>1
    <3> QED BY <1>7, <3>1, <3>2
  <2>7. at[i + 2] = [packet |-> k, next |-> 3]
    <3>1. at[(i + 1) + 1] = After(at[i + 1])
      BY <2>3, <2>6
    <3>2. (i + 1) + 1 = i + 2
      BY <1>1
    <3> QED BY <2>2, <2>5, <3>1, <3>2 DEF After
  <2>8. b # i + 2 /\ i + 2 \in 1..Len(cells) /\ cells[i + 2] = [packet |-> k, part |-> "end"]
    <3>1. i + 2 \in 1..Len(cells)
      BY <1>1, <1>7, <2>6
    <3>2. cells[i + 2] = [packet |-> k, part |-> "end"]
      BY <2>2, <2>3, <2>7, <3>1
    <3> QED BY <1>7, <3>1, <3>2
  <2>9. at[i + 3] = [packet |-> k, next |-> 4]
    <3>1. at[(i + 2) + 1] = After(at[i + 2])
      BY <2>3, <2>8
    <3>2. (i + 2) + 1 = i + 3
      BY <1>1
    <3> QED BY <2>2, <2>7, <3>1, <3>2 DEF After
  <2>10. i + 3 \in 1..Len(cells) /\ cells[i + 3] = [packet |-> k, part |-> "bar"]
    <3>1. i + 3 \in 1..Len(cells)
      BY <1>1, <1>7, <2>6, <2>8
    <3> QED BY <2>2, <2>3, <2>9, <3>1
  <2>11. \A j \in DOMAIN cells : j > i /\ cells[j].part = "bar" => i + 3 <= j
    <3>1. cells[i + 1].part = "text" /\ cells[i + 2].part = "end"
      BY <2>6, <2>8
    <3> QED BY <1>1, <3>1
  <2>12. i + 3 \in DOMAIN cells /\ i + 3 > i /\ cells[i + 3].part = "bar"
    BY <1>1, <2>10
  <2>13. /\ Len(piece) = (i + 3) - i
         /\ \A j \in 1..((i + 3) - i) : piece[j] = cells[i + j - 1]
    BY <2>11, <2>12, PieceProperties
  <2> HIDE DEF piece, k, p
  <2>14. Len(piece) = 3 /\ piece[2] = cells[i + 1] /\ piece[3] = cells[i + 2]
    <3>1. (i + 3) - i = 3 /\ 2 \in 1..3 /\ 3 \in 1..3 /\ i + 2 - 1 = i + 1 /\ i + 3 - 1 = i + 2
      BY <1>1
    <3> QED BY <2>13, <3>1
  <2> QED BY <1>4, <2>6, <2>8, <2>14 DEF Parses
<1>8. d.value = p.value \/ p.bar \/ ~ \E b \in DOMAIN cells : b > i /\ cells[b].part = "bar"
  <2>1. CASE p.kind \in Bodyless
    BY <1>5, <2>1
  <2>2. CASE p.kind \notin Bodyless
    <3> HIDE DEF d, piece, p
    <3>1. Parses(piece) => d.value = p.value
      BY <1>5
    <3> QED BY <1>7, <2>2, <3>1
  <2> QED BY <2>1, <2>2
<1> HIDE DEF k, p, piece
<1>9. d \in Message /\ d.packet = k /\ d.kind = p.kind /\ d.value \in {p.value, Default}
  BY <1>2, <1>5, <1>6 DEF Message, Default
<1> QED BY <1>2, <1>8, <1>9 DEF k, p, piece

-----------------------------------------------------------------------------
(* What the receiver makes of a stretch *)

\* Between the start of a packet and that of a later one there is a separator.
LEMMA BarBetween ==
    ASSUME TypeInv, NEW cells, cells \in Seq(Cell), NEW at, Traces(cells, at),
           NEW i \in Starts(cells), NEW l \in Starts(cells), at[i].packet < at[l].packet
    PROVE  \E b \in DOMAIN cells : b > i /\ cells[b].part = "bar"
<1>1. /\ Len(cells) \in Nat /\ DOMAIN cells = 1..Len(cells)
      /\ i \in 1..Len(cells) /\ l \in 1..Len(cells)
  BY DEF Starts
<1>2. /\ at[i] \in Place /\ at[l] \in Place
      /\ at[i].next = 1 /\ at[l].next = 1
  <2>1. at[i] \in Place /\ at[l] \in Place
    BY <1>1 DEF Traces
  <2> QED BY <1>1, <2>1, StartsOnTape
<1>3. Begun(at[i]) < Begun(at[l])
  BY <1>2 DEF Begun, Place
<1>4. i < l
  <2>1. i \in 1..(Len(cells) + 1) /\ l \in 1..(Len(cells) + 1)
    BY <1>1
  <2>2. l <= i => /\ Begun(at[l]) <= Begun(at[i])
                  /\ Begun(at[l]) \in Nat /\ Begun(at[i]) \in Nat
    BY <2>1, BegunGrows
  <2> QED BY <1>1, <1>3, <2>2
<1>5. l # 1 /\ l - 1 \in 1..Len(cells) /\ l - 1 >= i
  BY <1>1, <1>4
<1>6. cells[l - 1].part = "bar" /\ cells[i].part = "id"
  BY <1>5 DEF Starts
<1>7. l - 1 # i
  BY <1>6
<1> QED BY <1>1, <1>5, <1>6, <1>7

\* The packets that begin in a stretch are dispatched in order, each once, and those before the
\* last one with the value they have, but for a separator in their text.
LEMMA DispatchedProperties ==
    ASSUME TypeInv, NEW cells, cells \in Seq(Cell), NEW at, Traces(cells, at)
    PROVE  /\ Dispatched(cells) \in Seq(Message)
           /\ Len(Dispatched(cells)) \in Nat /\ Begun(at[1]) \in Nat
           /\ Begun(at[Len(cells) + 1]) = Begun(at[1]) + Len(Dispatched(cells))
           /\ \A n \in 1..Len(Dispatched(cells)) :
                LET k == Begun(at[1]) + n IN
                /\ k \in DOMAIN sent
                /\ Dispatched(cells)[n].packet = k
                /\ Dispatched(cells)[n].kind = sent[k].kind
                /\ Dispatched(cells)[n].value \in {sent[k].value, Default}
                /\ n < Len(Dispatched(cells)) =>
                     Dispatched(cells)[n].value = sent[k].value \/ sent[k].bar
<1> DEFINE N == Cardinality(Starts(cells))
           first == Begun(at[1])
           d(n) == Decode(Piece(cells, StartOf(cells, n)))
<1>1. N \in Nat /\ first \in Nat /\ Begun(at[Len(cells) + 1]) = first + N
  BY StartsInAll
<1>2. Dispatched(cells) = [n \in 1..N |-> d(n)]
  BY DEF Dispatched
<1>3. ASSUME NEW n \in 1..N
      PROVE  /\ d(n) \in Message
             /\ first + n \in DOMAIN sent
             /\ d(n).packet = first + n
             /\ d(n).kind = sent[first + n].kind
             /\ d(n).value \in {sent[first + n].value, Default}
             /\ n < N => d(n).value = sent[first + n].value \/ sent[first + n].bar
  <2> DEFINE i == StartOf(cells, n)
  <2>1. /\ i \in DOMAIN cells /\ i \in Starts(cells)
        /\ at[i].next = 1 /\ at[i].packet = first + n
    BY StartsFound
  <2>2. ASSUME n < N
        PROVE  \E b \in DOMAIN cells : b > i /\ cells[b].part = "bar"
    <3>1. n + 1 \in 1..N
      BY <1>1, <2>2
    <3>2. /\ StartOf(cells, n + 1) \in Starts(cells)
          /\ at[StartOf(cells, n + 1)].packet = first + (n + 1)
      BY <3>1, StartsFound
    <3>3. first + n < first + (n + 1)
      BY <1>1
    <3> HIDE DEF i, first
    <3> QED BY <2>1, <3>2, <3>3, BarBetween
  <2> HIDE DEF i, first, N
  <2>3. /\ first + n \in DOMAIN sent
        /\ Decode(Piece(cells, i)) \in Message
        /\ Decode(Piece(cells, i)).packet = first + n
        /\ Decode(Piece(cells, i)).kind = sent[first + n].kind
        /\ Decode(Piece(cells, i)).value \in {sent[first + n].value, Default}
        /\ \/ Decode(Piece(cells, i)).value = sent[first + n].value
           \/ sent[first + n].bar
           \/ ~ \E b \in DOMAIN cells : b > i /\ cells[b].part = "bar"
    BY <2>1, PieceOnTape
  <2> QED BY <2>2, <2>3 DEF i
<1> HIDE DEF N, first, d
<1>4. Dispatched(cells) \in Seq(Message) /\ Len(Dispatched(cells)) = N
  BY <1>1, <1>2, <1>3, IsASeq
<1>5. \A n \in 1..N : Dispatched(cells)[n] = d(n)
  BY <1>2
<1>6. first = Begun(at[1])
  BY DEF first
<1> QED BY <1>1, <1>3, <1>4, <1>5, <1>6

\* When a stretch begins with a packet and has a separator, that packet has its value.
LEMMA FirstIntact ==
    ASSUME TypeInv, NEW cells, cells \in Seq(Cell), NEW at, Traces(cells, at),
           at[1].next = 1, HasBar(cells)
    PROVE  /\ Len(Dispatched(cells)) > 0
           /\ at[1].packet = Begun(at[1]) + 1
           /\ at[1].packet \in DOMAIN sent
           /\ Dispatched(cells)[1].value = sent[at[1].packet].value \/ sent[at[1].packet].bar
<1> DEFINE N == Cardinality(Starts(cells))
<1>1. PICK b \in DOMAIN cells : cells[b].part = "bar"
  BY DEF HasBar
<1>2. Len(cells) \in Nat /\ DOMAIN cells = 1..Len(cells) /\ 1 \in 1..Len(cells) /\ b \in 1..Len(cells)
  OBVIOUS
<1>3. 1 \in Starts(cells) /\ cells[1].part = "id"
  <2>1. 1 \in Starts(cells)
    BY <1>2, StartsOnTape
  <2> QED BY <2>1 DEF Starts
<1>4. b > 1
  BY <1>1, <1>2, <1>3
<1>5. at[1] \in Place
  BY <1>2 DEF Traces
<1>6. N \in Nat /\ Begun(at[1]) \in Nat /\ Begun(at[Len(cells) + 1]) = Begun(at[1]) + N
  BY StartsInAll
<1>7. Begun(at[2]) = Begun(at[1]) + 1
  <2>1. /\ at[1 + 1] = After(at[1]) /\ at[1].packet \in DOMAIN sent
        /\ at[1].next \in DOMAIN Encode(sent[at[1].packet])
    BY <1>2 DEF Traces
  <2>2. 1 + 1 = 2
    OBVIOUS
  <2> QED BY <1>5, <2>1, <2>2, AfterProperties
<1>8. N > 0
  <2>1. 2 \in 1..(Len(cells) + 1) /\ Len(cells) + 1 \in 1..(Len(cells) + 1) /\ 2 <= Len(cells) + 1
    BY <1>2
  <2>2. Begun(at[2]) <= Begun(at[Len(cells) + 1])
    BY <2>1, BegunGrows
  <2> QED BY <1>6, <1>7, <2>2
<1> DEFINE i == StartOf(cells, 1)
<1>9. i \in DOMAIN cells /\ at[i].next = 1 /\ at[i].packet = Begun(at[1]) + 1
  BY <1>6, <1>8, StartsFound
<1>10. at[1].packet = Begun(at[1]) + 1
  BY <1>5 DEF Begun, Place
<1>11. i = 1
  <2>1. i \in 1..Len(cells) /\ i \in 1..(Len(cells) + 1) /\ 2 \in 1..(Len(cells) + 1)
    BY <1>2, <1>4, <1>9
  <2>2. at[i] \in Place
    BY <2>1 DEF Traces
  <2> HIDE DEF i
  <2>3. Begun(at[i]) = Begun(at[1])
    BY <1>6, <1>9, <2>2 DEF Begun, Place
  <2>4. 2 <= i => Begun(at[2]) <= Begun(at[i])
    BY <2>1, BegunGrows
  <2> QED BY <1>6, <1>7, <2>1, <2>3, <2>4
<1>12. Dispatched(cells)[1] = Decode(Piece(cells, 1)) /\ Len(Dispatched(cells)) = N
  <2>1. 1 \in 1..N
    BY <1>6, <1>8
  <2> HIDE DEF N
  <2>2. Dispatched(cells)[1] = Decode(Piece(cells, i))
    BY <2>1 DEF Dispatched, N
  <2>3. Len(Dispatched(cells)) = N
    BY <1>6 DEF Dispatched, N
  <2> QED BY <1>11, <2>2, <2>3
<1>13. /\ at[1].packet \in DOMAIN sent
       /\ Decode(Piece(cells, 1)).value = sent[at[1].packet].value \/ sent[at[1].packet].bar
  <2>1. 1 \in DOMAIN cells
    BY <1>2
  <2> QED BY <1>1, <1>4, <2>1, PieceOnTape
<1> QED BY <1>8, <1>10, <1>12, <1>13

-----------------------------------------------------------------------------
(* Cutting and growing a stretch *)

\* The two parts of a stretch are stretches.
LEMMA TapeCut ==
    ASSUME TypeInv, NEW a, a \in Seq(Cell), NEW b, b \in Seq(Cell),
           NEW at, Traces(a \o b, at)
    PROVE  /\ Traces(a, [j \in 1..(Len(a) + 1) |-> at[j]])
           /\ Traces(b, [j \in 1..(Len(b) + 1) |-> at[Len(a) + j]])
<1> DEFINE f == [j \in 1..(Len(a) + 1) |-> at[j]]
           g == [j \in 1..(Len(b) + 1) |-> at[Len(a) + j]]
           m == Len(a)
           n == Len(b)
           ab == a \o b
<1>1. m \in Nat /\ n \in Nat
  OBVIOUS
<1>2. /\ ab \in Seq(Cell) /\ Len(ab) = m + n
      /\ \A j \in 1..(m + n) : ab[j] = IF j <= m THEN a[j] ELSE b[j - m]
  BY ConcatProperties
<1> HIDE DEF m, n, ab
<1>3. /\ at \in [1..(m + n + 1) -> Place]
      /\ \A j \in 1..(m + n) :
           /\ at[j].packet \in DOMAIN sent
           /\ at[j].next \in DOMAIN Encode(sent[at[j].packet])
           /\ ab[j] = [packet |-> at[j].packet, part |-> Encode(sent[at[j].packet])[at[j].next]]
           /\ at[j + 1] = After(at[j])
  <2>1. Traces(ab, at)
    BY DEF ab
  <2> QED BY <1>2, <2>1 DEF Traces
<1>4. Traces(a, f)
  <2>1. f \in [1..(m + 1) -> Place]
    BY <1>1, <1>3 DEF m
  <2>2. \A j \in 1..m : j \in 1..(m + n) /\ f[j] = at[j] /\ f[j + 1] = at[j + 1] /\ ab[j] = a[j]
    BY <1>1, <1>2 DEF m
  <2> HIDE DEF f
  <2> QED BY <1>3, <2>1, <2>2 DEF Traces, m
<1>5. Traces(b, g)
  <2>1. g \in [1..(n + 1) -> Place]
    <3>1. \A j \in 1..(n + 1) : m + j \in 1..(m + n + 1)
      BY <1>1
    <3> QED BY <1>3, <3>1 DEF n, m
  <2>2. ASSUME NEW j \in 1..n
        PROVE  /\ m + j \in 1..(m + n) /\ g[j] = at[m + j]
               /\ g[j + 1] = at[(m + j) + 1] /\ ab[m + j] = b[j]
    <3>1. /\ m + j \in 1..(m + n) /\ ~ (m + j <= m) /\ (m + j) - m = j
          /\ j \in 1..(n + 1) /\ j + 1 \in 1..(n + 1) /\ m + (j + 1) = (m + j) + 1
      BY <1>1
    <3>2. g[j] = at[m + j] /\ g[j + 1] = at[m + (j + 1)]
      BY <3>1 DEF n, m
    <3> QED BY <1>2, <3>1, <3>2
  <2> HIDE DEF g
  <2>3. \A j \in 1..n :
          /\ g[j].packet \in DOMAIN sent
          /\ g[j].next \in DOMAIN Encode(sent[g[j].packet])
          /\ b[j] = [packet |-> g[j].packet, part |-> Encode(sent[g[j].packet])[g[j].next]]
          /\ g[j + 1] = After(g[j])
    BY <1>3, <2>2
  <2> QED BY <2>1, <2>3 DEF Traces, n
<1> QED BY <1>4, <1>5 DEF m, n

\* n cells of packet k.
AreCells(cells, packets, k, i, n) ==
    /\ cells \in Seq(Cell) /\ Len(cells) = n
    /\ \A j \in 1..n :
         cells[j] = IF k \in DOMAIN packets /\ i + j - 1 \in DOMAIN Encode(packets[k])
                    THEN [packet |-> k, part |-> Encode(packets[k])[i + j - 1]]
                    ELSE Garbage

\* What the memory holds is what is written from it.
LEMMA CellsProperties ==
    ASSUME NEW side \in DOMAIN Kinds, NEW packets \in Seq(Packets(side)),
           NEW k \in Nat, NEW i \in Nat, NEW n \in Nat
    PROVE  AreCells(Cells(packets, k, i, n), packets, k, i, n)
<1> DEFINE e(j) == IF k \in DOMAIN packets /\ i + j - 1 \in DOMAIN Encode(packets[k])
                   THEN [packet |-> k, part |-> Encode(packets[k])[i + j - 1]]
                   ELSE Garbage
<1>1. \A j \in 1..n : e(j) \in Cell
  <2> SUFFICES ASSUME NEW j \in 1..n PROVE e(j) \in Cell
    OBVIOUS
  <2>1. CASE k \in DOMAIN packets /\ i + j - 1 \in DOMAIN Encode(packets[k])
    <3>1. packets[k] \in Packets(side)
      BY <2>1, ElementOfSeq
    <3>2. Encode(packets[k])[i + j - 1] \in Parts
      BY <2>1, <3>1, EncodingShape
    <3> QED BY <2>1, <3>2 DEF Cell
  <2>2. CASE ~ (k \in DOMAIN packets /\ i + j - 1 \in DOMAIN Encode(packets[k]))
    BY <2>2 DEF Cell, Garbage, NoPacket, Parts
  <2> QED BY <2>1, <2>2
<1>2. Cells(packets, k, i, n) = [j \in 1..n |-> e(j)]
  BY DEF Cells
<1> HIDE DEF e
<1>3. Cells(packets, k, i, n) \in Seq(Cell) /\ Len(Cells(packets, k, i, n)) = n
  BY <1>1, <1>2, IsASeq
<1>4. \A j \in 1..n : Cells(packets, k, i, n)[j] = e(j)
  BY <1>2
<1> QED BY <1>3, <1>4 DEF e, AreCells

\* Cells that are put behind those of the socket are behind all that is in flight.
LEMMA CellsConcat ==
    ASSUME NEW s \in Seq(Cell), NEW t \in Seq(Cell), NEW u \in Seq(Cell)
    PROVE  (s \o t) \o u = s \o (t \o u)
<1> HIDE DEF Cell
<1> QED BY ConcatAssociative

\* The packets that were given stay where they are.
MoreSent ==
    /\ sent' \in Seq(Packets(sender))
    /\ Len(sent) <= Len(sent')
    /\ \A k \in DOMAIN sent : sent'[k] = sent[k]

\* A stretch that begins where "at" does and ends n cells behind w.
Stretched(at, w, n) ==
    \E g : /\ Traces(InFlight, g)'
           /\ g[1] = at[1]
           /\ g[Len(InFlight') + 1] =
                IF w.next + n <= Len(Encode(sent'[w.packet]))
                THEN [packet |-> w.packet, next |-> w.next + n]
                ELSE [packet |-> w.packet + 1, next |-> 1]

\* n cells are written where the stretch ends, and it still is one.
LEMMA TapeGrows ==
    ASSUME TypeInv, MoreSent, NEW at, Traces(InFlight, at),
           NEW w \in Place, at[Len(InFlight) + 1] = w, w.packet \in DOMAIN sent',
           NEW n \in 1..(Len(Encode(sent'[w.packet])) - w.next + 1),
           buffer' = buffer, stream' = stream \o Cells(sent', w.packet, w.next, n)
    PROVE  Stretched(at, w, n)
<1>21. sent' \in Seq(Packets(sender)) /\ Len(sent) <= Len(sent')
       /\ \A x \in DOMAIN sent : sent'[x] = sent[x]
  BY DEF MoreSent
<1> DEFINE k == w.packet
           i == w.next
           e == Encode(sent'[k])
           m == Len(e)
           L == Len(InFlight)
           new == Cells(sent', k, i, n)
           F == InFlight
           F2 == F \o new
           next(p) == IF p.next < Len(Encode(sent'[p.packet]))
                      THEN [packet |-> p.packet, next |-> p.next + 1]
                      ELSE [packet |-> p.packet + 1, next |-> 1]
           spot(x) == IF x <= m THEN [packet |-> k, next |-> x] ELSE [packet |-> k + 1, next |-> 1]
           g == [j \in 1..(L + n + 1) |-> IF j <= L + 1 THEN at[j] ELSE spot(i + (j - (L + 1)))]
<1>1. /\ sender \in DOMAIN Kinds /\ sent'[k] \in Packets(sender)
      /\ m \in 2..5 /\ DOMAIN e = 1..m
  BY <1>21, ElementOfSeq, EncodingShape DEF TypeInv
<1>2. k \in Nat \ {0} /\ i \in Nat \ {0} /\ n \in Nat \ {0} /\ i + n - 1 <= m
  BY <1>1 DEF Place
<1>0. w = [packet |-> k, next |-> i] /\ k \in DOMAIN sent'
  BY DEF Place
<1> HIDE DEF k, i, m, e
<1>3. F \in Seq(Cell) /\ L \in Nat /\ L = Len(F)
  <2>1. buffer \in Seq(Cell) /\ stream \in Seq(Cell)
    BY DEF TypeInv
  <2> QED BY <2>1, ConcatProperties DEF InFlight
<1>4. /\ new \in Seq(Cell) /\ Len(new) = n
      /\ \A j \in 1..n : new[j] = [packet |-> k, part |-> e[i + j - 1]]
  <2>1. /\ new \in Seq(Cell) /\ Len(new) = n
        /\ \A j \in 1..n : new[j] =
             IF k \in DOMAIN sent' /\ i + j - 1 \in DOMAIN e
             THEN [packet |-> k, part |-> e[i + j - 1]]
             ELSE Garbage
    <3>1. k \in Nat /\ i \in Nat /\ n \in Nat /\ sent' \in Seq(Packets(sender)) /\ sender \in DOMAIN Kinds
      BY <1>1, <1>2, <1>21 DEF TypeInv
    <3>2. PICK packets \in Seq(Packets(sender)) : packets = sent'
      BY <1>21
    <3>3. PICK side \in DOMAIN Kinds : side = sender
      BY <3>1
    <3>4. packets \in Seq(Packets(side))
      BY <3>3
    <3>5. AreCells(Cells(packets, k, i, n), packets, k, i, n)
      BY <3>1, <3>4, CellsProperties
    <3> QED BY <3>2, <3>5 DEF e, AreCells
  <2>2. \A j \in 1..n : i + j - 1 \in 1..m
    BY <1>1, <1>2
  <2>3. \A j \in 1..n : k \in DOMAIN sent' /\ i + j - 1 \in DOMAIN e
    BY <1>0, <1>1, <2>2
  <2> HIDE DEF new
  <2> QED BY <2>1, <2>3
<1>5. InFlight' = F2
  <2>1. buffer \in Seq(Cell) /\ stream \in Seq(Cell) /\ new \in Seq(Cell)
    BY <1>4 DEF TypeInv
  <2>2. InFlight' = buffer \o (stream \o new)
    BY DEF InFlight, k, i
  <2> HIDE DEF new
  <2>3. (buffer \o stream) \o new = buffer \o (stream \o new)
    BY <2>1, CellsConcat
  <2> QED BY <2>2, <2>3 DEF InFlight
<1> HIDE DEF new, F, L
<1>6. /\ F2 \in Seq(Cell) /\ Len(F2) = L + n
      /\ \A j \in 1..(L + n) : F2[j] = IF j <= L THEN F[j] ELSE new[j - L]
  <2>1. /\ F2 \in Seq(Cell) /\ Len(F2) = Len(F) + Len(new)
        /\ \A j \in 1..(Len(F) + Len(new)) : F2[j] = IF j <= Len(F) THEN F[j] ELSE new[j - Len(F)]
    BY <1>3, <1>4, ConcatProperties
  <2> QED BY <1>3, <1>4, <2>1
<1>7. /\ at \in [1..(L + 1) -> Place]
      /\ \A j \in 1..L :
           /\ at[j].packet \in DOMAIN sent
           /\ at[j].next \in DOMAIN Encode(sent[at[j].packet])
           /\ F[j] = [packet |-> at[j].packet, part |-> Encode(sent[at[j].packet])[at[j].next]]
           /\ at[j + 1] = After(at[j])
  BY DEF Traces, F, L
<1> HIDE DEF F2
<1>8. \A x \in Nat \ {0} : spot(x) \in Place
  BY <1>2 DEF Place
<1>9. at[L + 1] = w /\ w = [packet |-> k, next |-> i] /\ i <= m
  <2>1. i <= m
    BY <1>1, <1>2
  <2> QED BY <1>0, <2>1 DEF L
<1>10. \A x \in 0..n : L + 1 + x \in 1..(L + n + 1) /\ g[L + 1 + x] = spot(i + x)
  <2> SUFFICES ASSUME NEW x \in 0..n
               PROVE  L + 1 + x \in 1..(L + n + 1) /\ g[L + 1 + x] = spot(i + x)
    OBVIOUS
  <2>1. L + 1 + x \in 1..(L + n + 1)
    BY <1>2, <1>3
  <2> HIDE DEF spot
  <2>2. g[L + 1 + x] = IF L + 1 + x <= L + 1 THEN at[L + 1 + x]
                       ELSE spot(i + ((L + 1 + x) - (L + 1)))
    BY <2>1
  <2>3. CASE x = 0
    <3>1. L + 1 + x = L + 1 /\ i + x = i
      BY <1>2, <1>3, <2>3
    <3>2. spot(i) = w
      BY <1>9 DEF spot
    <3> QED BY <1>9, <2>1, <2>2, <3>1, <3>2
  <2>4. CASE x # 0
    <3>1. ~ (L + 1 + x <= L + 1) /\ (L + 1 + x) - (L + 1) = x
      BY <1>3, <2>4
    <3> QED BY <2>1, <2>2, <3>1
  <2> QED BY <2>3, <2>4
<1>11. \A j \in 1..(L + 1) : j \in 1..(L + n + 1) /\ g[j] = at[j]
  BY <1>2, <1>3
<1>12. g \in [1..(L + n + 1) -> Place]
  <2>1. ASSUME NEW j \in 1..(L + n + 1), j > L + 1
        PROVE  i + (j - (L + 1)) \in Nat \ {0}
    <3>1. j - (L + 1) \in Nat /\ j - (L + 1) > 0
      BY <1>3, <2>1
    <3> QED BY <1>2, <3>1
  <2>2. \A j \in 1..(L + 1) : at[j] \in Place
    BY <1>7
  <2> HIDE DEF spot
  <2>3. ASSUME NEW j \in 1..(L + n + 1)
        PROVE  (IF j <= L + 1 THEN at[j] ELSE spot(i + (j - (L + 1)))) \in Place
    <3>1. j <= L + 1 => j \in 1..(L + 1)
      BY <1>3
    <3>2. ~ (j <= L + 1) => j > L + 1
      BY <1>3
    <3> QED BY <1>8, <2>1, <2>2, <3>1, <3>2
  <2> QED BY <2>3
<1> HIDE DEF g
<1>13. ASSUME NEW j \in 1..L
       PROVE  /\ g[j].packet \in DOMAIN sent'
              /\ g[j].next \in DOMAIN Encode(sent'[g[j].packet])
              /\ F2[j] = [packet |-> g[j].packet,
                          part |-> Encode(sent'[g[j].packet])[g[j].next]]
              /\ g[j + 1] = next(g[j])
  <2>1. j \in 1..(L + 1) /\ j + 1 \in 1..(L + 1) /\ j \in 1..(L + n) /\ j <= L
    BY <1>2, <1>3
  <2>2. g[j] = at[j] /\ g[j + 1] = at[j + 1] /\ F2[j] = F[j]
    BY <1>6, <1>11, <2>1
  <2>3. at[j].packet \in DOMAIN sent' /\ sent'[at[j].packet] = sent[at[j].packet]
    <3>1. sent \in Seq(Packets(sender)) /\ sent' \in Seq(Packets(sender))
      BY <1>21 DEF TypeInv
    <3>2. DOMAIN sent = 1..Len(sent) /\ DOMAIN sent' = 1..Len(sent')
          /\ Len(sent) \in Nat /\ Len(sent') \in Nat
      BY <3>1
    <3>3. DOMAIN sent \subseteq DOMAIN sent'
      BY <1>21, <3>2
    <3> QED BY <1>7, <1>21, <3>3
  <2> HIDE DEF spot
  <2>4. next(at[j]) = After(at[j])
    BY <2>3 DEF After
  <2> HIDE DEF next
  <2>6. g[j + 1] = next(g[j])
    BY <1>7, <2>2, <2>4
  <2>7. /\ at[j].next \in DOMAIN Encode(sent'[at[j].packet])
        /\ F2[j] = [packet |-> at[j].packet, part |-> Encode(sent'[at[j].packet])[at[j].next]]
    BY <1>7, <2>2, <2>3
  <2> QED BY <2>2, <2>3, <2>6, <2>7
<1>14. ASSUME NEW j \in (L + 1)..(L + n)
       PROVE  /\ g[j].packet \in DOMAIN sent'
              /\ g[j].next \in DOMAIN Encode(sent'[g[j].packet])
              /\ F2[j] = [packet |-> g[j].packet,
                          part |-> Encode(sent'[g[j].packet])[g[j].next]]
              /\ g[j + 1] = next(g[j])
  <2>1. PICK x \in 0..(n - 1) : j = L + 1 + x
    <3>1. j - (L + 1) \in 0..(n - 1) /\ j = L + 1 + (j - (L + 1))
      BY <1>2, <1>3
    <3> QED BY <3>1
  <2>2. /\ x \in 0..n /\ x + 1 \in 0..n /\ j + 1 = L + 1 + (x + 1) /\ i + x \in 1..m
        /\ i + (x + 1) = (i + x) + 1
        /\ j \in 1..(L + n) /\ ~ (j <= L) /\ j - L = x + 1
        /\ x + 1 \in 1..n /\ i + (x + 1) - 1 = i + x
    <3>1. x \in Nat /\ x <= n - 1
      BY <1>2
    <3>2. x \in 0..n /\ x + 1 \in 0..n /\ x + 1 \in 1..n
      BY <1>2, <3>1
    <3>3. j + 1 = L + 1 + (x + 1) /\ j \in 1..(L + n) /\ ~ (j <= L) /\ j - L = x + 1
      BY <1>2, <1>3, <2>1, <3>1
    <3>4. i + x \in 1..m /\ i + (x + 1) = (i + x) + 1 /\ i + (x + 1) - 1 = i + x
      BY <1>1, <1>2, <3>1
    <3> QED BY <3>2, <3>3, <3>4
  <2> HIDE DEF spot
  <2>3. g[j] = spot(i + x) /\ g[j + 1] = spot((i + x) + 1)
    BY <1>10, <2>1, <2>2
  <2>4. spot(i + x) = [packet |-> k, next |-> i + x]
    BY <2>2 DEF spot
  <2>5. next(spot(i + x)) = spot((i + x) + 1)
    <3>1. i + x < m <=> (i + x) + 1 <= m
      BY <1>1, <2>2
    <3>2. next(spot(i + x)) =
            IF i + x < m THEN [packet |-> k, next |-> (i + x) + 1] ELSE [packet |-> k + 1, next |-> 1]
      BY <2>4 DEF e, m
    <3> QED BY <3>1, <3>2 DEF spot
  <2>6. F2[j] = [packet |-> k, part |-> e[i + x]]
    BY <1>4, <1>6, <2>2
  <2> HIDE DEF next
  <2>8. g[j] = [packet |-> k, next |-> i + x]
    BY <2>3, <2>4
  <2>9. g[j + 1] = next(g[j])
    BY <2>3, <2>5
  <2>10. g[j].packet = k /\ g[j].next = i + x
    BY <2>8
  <2>11. e = Encode(sent'[g[j].packet])
    BY <2>10 DEF e
  <2> QED BY <1>0, <1>1, <2>2, <2>6, <2>9, <2>10, <2>11
<1>15. PICK h : h = g
  OBVIOUS
<1>19. Traces(InFlight, h)'
  <2>1. \A j \in 1..(L + n) : j \in 1..L \/ j \in (L + 1)..(L + n)
    BY <1>2, <1>3
  <2>2. \A j \in 1..(L + n) :
          /\ h[j].packet \in DOMAIN sent'
          /\ h[j].next \in DOMAIN Encode(sent'[h[j].packet])
          /\ F2[j] = [packet |-> h[j].packet, part |-> Encode(sent'[h[j].packet])[h[j].next]]
          /\ h[j + 1] = next(h[j])
    <3> HIDE DEF spot, next
    <3> QED BY <1>13, <1>14, <1>15, <2>1
  <2>3. InFlight' = F2 /\ Len(InFlight') = L + n
    BY <1>5, <1>6
  <2> HIDE DEF spot
  <2>4. h \in [1..(Len(InFlight') + 1) -> Place]
    BY <1>12, <1>15, <2>3
  <2>5. \A j \in 1..Len(InFlight') :
          /\ h[j].packet \in DOMAIN sent'
          /\ h[j].next \in DOMAIN Encode(sent'[h[j].packet])
          /\ InFlight'[j] = [packet |-> h[j].packet, part |-> Encode(sent'[h[j].packet])[h[j].next]]
          /\ h[j + 1] = next(h[j])
    <3> HIDE DEF next
    <3> QED BY <2>2, <2>3
  <2> QED BY <2>4, <2>5 DEF Traces, After
<1>16. g[1] = at[1]
  <2>1. 1 \in 1..(L + 1)
    BY <1>3
  <2> QED BY <1>11, <2>1
<1>17. g[Len(InFlight') + 1] = spot(i + n)
  <2>1. Len(InFlight') + 1 = L + 1 + n /\ n \in 0..n
    BY <1>2, <1>3, <1>5, <1>6
  <2> HIDE DEF spot
  <2> QED BY <1>10, <2>1
<1>18. g[Len(InFlight') + 1] = IF i + n <= m THEN [packet |-> k, next |-> i + n]
                               ELSE [packet |-> k + 1, next |-> 1]
  BY <1>17
<1>20. h[1] = at[1] /\ h[Len(InFlight') + 1] = IF i + n <= m
                                                THEN [packet |-> k, next |-> i + n]
                                                ELSE [packet |-> k + 1, next |-> 1]
  BY <1>15, <1>16, <1>18
<1> QED BY <1>19, <1>20 DEF k, i, m, e, Stretched

-----------------------------------------------------------------------------
(* A write *)

\* A write that is done to the end leaves nothing, another one leaves its rest.
RestOf(packets, op, n) ==
    IF n < Remaining(packets, op) THEN <<[packet |-> op.packet, next |-> op.next + n]>> ELSE <<>>

\* A socket with room takes a cell or more, and no more than there are.
LEMMA FitsProperties ==
    ASSUME TypeInv, NEW packets \in Seq(Packets(sender)), NEW op \in Place,
           op.packet \in DOMAIN packets, op.next \in DOMAIN Encode(packets[op.packet])
    PROVE  /\ Remaining(packets, op) \in Nat \ {0} /\ Fits(packets, op) \in Int
           /\ Remaining(packets, op) = Len(Encode(packets[op.packet])) - op.next + 1
           /\ Fits(packets, op) > 0 => Fits(packets, op) \in 1..Remaining(packets, op)
           /\ Len(stream) < Room => Fits(packets, op) > 0
<1> DEFINE m == Len(Encode(packets[op.packet]))
           r == Remaining(packets, op)
<1>1. m \in 2..5 /\ DOMAIN Encode(packets[op.packet]) = 1..m
  <2>1. packets[op.packet] \in Packets(sender) /\ sender \in DOMAIN Kinds
    BY ElementOfSeq DEF TypeInv
  <2> QED BY <2>1, EncodingShape
<1>2. op.next \in 1..m
  BY <1>1
<1>3. r = m - op.next + 1
  BY DEF Remaining
<1> HIDE DEF m, r
<1>4. r \in Nat \ {0}
  BY <1>1, <1>2, <1>3
<1>5. Room \in Nat /\ Len(stream) \in Nat
  BY FramingAssumption DEF FramingAssumption, TypeInv
<1>6. Fits(packets, op) = IF Room - Len(stream) <= r THEN Room - Len(stream) ELSE r
  BY DEF Fits, Least, r
<1>7. Fits(packets, op) \in Int
  BY <1>4, <1>5, <1>6
<1>8. Fits(packets, op) > 0 => Fits(packets, op) \in 1..r
  BY <1>4, <1>5, <1>6
<1>9. Len(stream) < Room => Fits(packets, op) > 0
  BY <1>4, <1>5, <1>6
<1> QED BY <1>3, <1>4, <1>7, <1>8, <1>9 DEF r, m

\* What a write does, in the terms of the tape.
LEMMA TransferProperties ==
    ASSUME TypeInv, NEW packets \in Seq(Packets(sender)), NEW op \in Place,
           op.packet \in DOMAIN packets, op.next \in DOMAIN Encode(packets[op.packet]),
           Fits(packets, op) > 0, NEW k \in Nat, Transfer(packets, op, k)
    PROVE  \E n \in 1..Remaining(packets, op) :
             /\ stream' = stream \o Cells(packets, k, op.next, n)
             /\ stream' \in Seq(Cell)
             /\ posted' = (IF op \in Range(posted) THEN Tail(posted) ELSE posted)
                          \o RestOf(packets, op, n)
<1> DEFINE n == Fits(packets, op)
           new == Cells(packets, k, op.next, n)
<1>1. n \in 1..Remaining(packets, op) /\ Remaining(packets, op) \in Nat
  BY FitsProperties
<1>2. op.next \in Nat /\ n \in Nat /\ sender \in DOMAIN Kinds
  BY <1>1 DEF Place, TypeInv
<1> HIDE DEF n
<1>3. new \in Seq(Cell)
  <2>1. AreCells(new, packets, k, op.next, n)
    BY <1>2, CellsProperties
  <2> QED BY <2>1 DEF AreCells
<1>4. stream' = stream \o new
  BY DEF Transfer, n
<1> HIDE DEF new
<1>5. stream' \in Seq(Cell)
  <2>1. stream \in Seq(Cell)
    BY DEF TypeInv
  <2> QED BY <1>3, <1>4, <2>1, ConcatProperties
<1>6. posted' = (IF op \in Range(posted) THEN Tail(posted) ELSE posted) \o RestOf(packets, op, n)
  <2>1. [op EXCEPT !.next = @ + n] = [packet |-> op.packet, next |-> op.next + n]
    BY DEF Place
  <2> QED BY <2>1 DEF Transfer, RestOf, n
<1> QED BY <1>1, <1>4, <1>5, <1>6 DEF new

\* The rest of a write is a write that is left.
LEMMA RestProperties ==
    ASSUME TypeInv, NEW packets \in Seq(Packets(sender)), NEW op \in Place,
           op.packet \in DOMAIN packets, op.next \in DOMAIN Encode(packets[op.packet]),
           NEW n \in 1..Remaining(packets, op)
    PROVE  \/ /\ RestOf(packets, op, n) = <<>>
              /\ ~ (op.next + n <= Len(Encode(packets[op.packet])))
           \/ /\ RestOf(packets, op, n) = <<[packet |-> op.packet, next |-> op.next + n]>>
              /\ op.next + n <= Len(Encode(packets[op.packet]))
              /\ [packet |-> op.packet, next |-> op.next + n] \in Place
              /\ op.next + n \in DOMAIN Encode(packets[op.packet])
              /\ op.next + n > 1
<1> DEFINE m == Len(Encode(packets[op.packet]))
           r == Remaining(packets, op)
<1>1. r \in Nat \ {0} /\ r = m - op.next + 1
  BY FitsProperties
<1>2. m \in 2..5 /\ DOMAIN Encode(packets[op.packet]) = 1..m
  <2>1. packets[op.packet] \in Packets(sender) /\ sender \in DOMAIN Kinds
    BY ElementOfSeq DEF TypeInv
  <2> QED BY <2>1, EncodingShape
<1>3. op.next \in 1..m /\ op.packet \in Nat \ {0}
  BY <1>2 DEF Place
<1>4. RestOf(packets, op, n) =
        IF n < r THEN <<[packet |-> op.packet, next |-> op.next + n]>> ELSE <<>>
  BY DEF RestOf
<1> HIDE DEF m, r
<1>5. n \in Nat \ {0} /\ (n < r <=> op.next + n <= m)
  BY <1>1, <1>2, <1>3 DEF r
<1>6. CASE n < r
  <2>1. op.next + n \in 1..m /\ op.next + n > 1 /\ op.next + n <= m
    BY <1>2, <1>3, <1>5, <1>6
  <2>2. op.next + n \in Nat \ {0}
    BY <1>2, <2>1
  <2>3. [packet |-> op.packet, next |-> op.next + n] \in Place
    BY <1>3, <2>2 DEF Place
  <2> QED BY <1>2, <1>4, <1>6, <2>1, <2>3 DEF m
<1>7. CASE ~ (n < r)
  BY <1>4, <1>5, <1>7 DEF m
<1> QED BY <1>6, <1>7

\* A stretch that has grown is one whose end is where the next write goes on.
LEMMA TapeWritten ==
    ASSUME TypeInv, MoreSent,
           NEW at, Traces(InFlight, at), Begun(at[1]) = Len(handled),
           NEW w \in Place, at[Len(InFlight) + 1] = w, w.packet \in DOMAIN sent',
           NEW n \in 1..(Len(Encode(sent'[w.packet])) - w.next + 1),
           buffer' = buffer, stream' = stream \o Cells(sent', w.packet, w.next, n),
           handled' = handled, Lone(at[1])',
           \/ Doomed'
           \/ Written' = IF w.next + n <= Len(Encode(sent'[w.packet]))
                         THEN [packet |-> w.packet, next |-> w.next + n]
                         ELSE [packet |-> w.packet + 1, next |-> 1]
    PROVE  TapeInv'
<1>1. Stretched(at, w, n)
  BY TapeGrows
<1>2. PICK g : /\ Traces(InFlight, g)'
               /\ g[1] = at[1]
               /\ g[Len(InFlight') + 1] =
                    IF w.next + n <= Len(Encode(sent'[w.packet]))
                    THEN [packet |-> w.packet, next |-> w.next + n]
                    ELSE [packet |-> w.packet + 1, next |-> 1]
  BY <1>1 DEF Stretched
<1>3. Begun(g[1])' = Len(handled')
  BY <1>2 DEF Begun
<1>4. Lone(g[1])'
  BY <1>2 DEF Lone
<1>5. Doomed' \/ g[Len(InFlight) + 1]' = Written'
  BY <1>2
<1> QED BY <1>2, <1>3, <1>4, <1>5 DEF TapeInv

\* A stretch to which nothing is written stays one when more packets are given.
LEMMA TapeStays ==
    ASSUME TypeInv, MoreSent, InFlight' = InFlight, handled' = handled,
           NEW at, Traces(InFlight, at), Begun(at[1]) = Len(handled), Lone(at[1])',
           Doomed' \/ at[Len(InFlight) + 1] = Written'
    PROVE  TapeInv'
<1> DEFINE F == InFlight
<1>1. \A j \in DOMAIN sent : j \in DOMAIN sent' /\ sent'[j] = sent[j]
  <2>1. sent \in Seq(Packets(sender)) /\ sent' \in Seq(Packets(sender)) /\ Len(sent) <= Len(sent')
    BY DEF TypeInv, MoreSent
  <2>2. /\ DOMAIN sent = 1..Len(sent) /\ DOMAIN sent' = 1..Len(sent')
        /\ Len(sent) \in Nat /\ Len(sent') \in Nat
    BY <2>1
  <2>3. DOMAIN sent \subseteq DOMAIN sent'
    BY <2>1, <2>2
  <2> QED BY <2>3 DEF MoreSent
<1>2. /\ at \in [1..(Len(F) + 1) -> Place]
      /\ \A j \in 1..Len(F) :
          /\ at[j].packet \in DOMAIN sent
          /\ at[j].next \in DOMAIN Encode(sent[at[j].packet])
          /\ F[j] = [packet |-> at[j].packet, part |-> Encode(sent[at[j].packet])[at[j].next]]
          /\ at[j + 1] = After(at[j])
  BY DEF Traces
<1>3. \A j \in 1..Len(F) : After(at[j])' = After(at[j])
  BY <1>1, <1>2 DEF After
<1> HIDE DEF F
<1>4. \A j \in 1..Len(F) :
        /\ at[j].packet \in DOMAIN sent'
        /\ at[j].next \in DOMAIN Encode(sent'[at[j].packet])
        /\ F[j] = [packet |-> at[j].packet, part |-> Encode(sent'[at[j].packet])[at[j].next]]
  BY <1>1, <1>2
<1>5. \A j \in 1..Len(F) : at[j + 1] = After(at[j])'
  BY <1>2, <1>3
<1>6. Traces(InFlight, at)'
  <2>1. InFlight' = F
    BY DEF F
  <2> QED BY <1>2, <1>4, <1>5, <2>1 DEF Traces
<1>7. Begun(at[1])' = Len(handled')
  BY DEF Begun
<1>8. Doomed' \/ at[Len(InFlight) + 1]' = Written'
  BY DEF F
<1> QED BY <1>6, <1>7, <1>8 DEF TapeInv

\* The writes that are left are left when more packets are given.
LEMMA WritesStay ==
    ASSUME TypeInv, MoreSent
    PROVE  /\ \A w \in Writes : w \in Writes'
           /\ queue \in Seq(Writes') /\ posted \in Seq(Writes')
<1>1. \A j \in DOMAIN sent : j \in DOMAIN sent' /\ sent'[j] = sent[j]
  <2>1. sent \in Seq(Packets(sender)) /\ sent' \in Seq(Packets(sender)) /\ Len(sent) <= Len(sent')
    BY DEF TypeInv, MoreSent
  <2>2. /\ DOMAIN sent = 1..Len(sent) /\ DOMAIN sent' = 1..Len(sent')
        /\ Len(sent) \in Nat /\ Len(sent') \in Nat
    BY <2>1
  <2>3. DOMAIN sent \subseteq DOMAIN sent'
    BY <2>1, <2>2
  <2> QED BY <2>3 DEF MoreSent
<1>2. \A w \in Writes : w \in Writes'
  BY <1>1 DEF Writes
<1>3. queue \in Seq(Writes) /\ posted \in Seq(Writes)
  BY DEF TypeInv
<1> HIDE DEF Writes
<1>4. PICK V : V = Writes
  OBVIOUS
<1>5. PICK W : W = Writes'
  OBVIOUS
<1>6. V \subseteq W /\ queue \in Seq(V) /\ posted \in Seq(V)
  BY <1>2, <1>3, <1>4, <1>5
<1>7. queue \in Seq(W) /\ posted \in Seq(W)
  BY <1>6
<1> QED BY <1>2, <1>5, <1>7

-----------------------------------------------------------------------------
(* The steps of the receiver *)

\* A read takes cells from the socket to the buffer, and the stretch stays.
LEMMA DeliverNext ==
    ASSUME FramingInv, NEW n \in 1..Room, Deliver(n)
    PROVE  FramingInv'
<1>1. /\ TypeInv /\ ~torn /\ ~torn' /\ WritesInv /\ TapeInv /\ IntactWhenAlone
      /\ n \in Nat /\ n <= Len(stream)
      /\ buffer' = buffer \o SubSeq(stream, 1, n)
      /\ stream' = SubSeq(stream, n + 1, Len(stream))
      /\ UNCHANGED <<sender, sent, alone, queue, posted, handled, torn>>
  BY FramingAssumption DEF FramingAssumption, FramingInv, Deliver, senderVars
<1>2. /\ buffer \in Seq(Cell) /\ stream \in Seq(Cell) /\ Len(stream) \in Nat
      /\ \A i \in 1..Len(stream) : stream[i] \in Cell
  BY <1>1, ElementOfSeq DEF TypeInv
<1> DEFINE a == SubSeq(stream, 1, n)
           b == SubSeq(stream, n + 1, Len(stream))
<1>3. /\ a \in Seq(Cell) /\ Len(a) = n
      /\ \A i \in 1..n : a[i] = stream[i]
  <2>1. \A i \in 1..n : stream[i] \in Cell
    BY <1>1, <1>2
  <2>2. /\ a \in Seq(Cell) /\ Len(a) = IF 1 <= n THEN n - 1 + 1 ELSE 0
        /\ \A i \in 1..(n - 1 + 1) : a[i] = stream[1 + i - 1]
    BY <1>1, <2>1, SubSeqProperties
  <2>3. n - 1 + 1 = n /\ 1 <= n /\ \A i \in 1..n : 1 + i - 1 = i
    BY <1>1
  <2> QED BY <2>2, <2>3
<1>4. /\ b \in Seq(Cell) /\ Len(b) = Len(stream) - n
      /\ \A i \in 1..(Len(stream) - n) : b[i] = stream[n + i]
  <2>1. \A i \in (n + 1)..Len(stream) : stream[i] \in Cell
    BY <1>1, <1>2
  <2>2. /\ b \in Seq(Cell)
        /\ Len(b) = IF n + 1 <= Len(stream) THEN Len(stream) - (n + 1) + 1 ELSE 0
        /\ \A i \in 1..(Len(stream) - (n + 1) + 1) : b[i] = stream[(n + 1) + i - 1]
    BY <1>1, <1>2, <2>1, SubSeqProperties
  <2>3. /\ Len(stream) - (n + 1) + 1 = Len(stream) - n
        /\ ~ (n + 1 <= Len(stream)) => Len(stream) - n = 0
        /\ \A i \in 1..(Len(stream) - n) : (n + 1) + i - 1 = n + i
    BY <1>1, <1>2
  <2> QED BY <2>2, <2>3
<1> HIDE DEF a, b
<1>5. stream = a \o b
  <2>1. /\ a \o b \in Seq(Cell) /\ Len(a \o b) = Len(a) + Len(b)
        /\ \A i \in 1..(Len(a) + Len(b)) : (a \o b)[i] = IF i <= Len(a) THEN a[i] ELSE b[i - Len(a)]
    BY <1>3, <1>4, ConcatProperties
  <2>2. Len(a) + Len(b) = Len(stream)
    BY <1>1, <1>2, <1>3, <1>4
  <2>3. ASSUME NEW i \in 1..Len(stream)
        PROVE  (a \o b)[i] = stream[i]
    <3>1. CASE i <= n
      BY <1>1, <1>3, <2>1, <2>2, <3>1
    <3>2. CASE ~ (i <= n)
      <4>1. i - n \in 1..(Len(stream) - n) /\ n + (i - n) = i
        BY <1>1, <1>2, <3>2
      <4>2. (a \o b)[i] = b[i - n]
        BY <1>3, <2>1, <2>2, <3>2
      <4> QED BY <1>4, <4>1, <4>2
    <3> QED BY <3>1, <3>2
  <2> QED BY <1>2, <2>1, <2>2, <2>3, SeqEqual
<1>6. InFlight' = InFlight
  <2>1. InFlight' = (buffer \o a) \o b /\ InFlight = buffer \o (a \o b)
    BY <1>1, <1>5 DEF InFlight, a, b
  <2> QED BY <1>2, <1>3, <1>4, <2>1, CellsConcat
<1>7. TypeInv'
  <2>1. buffer' \in Seq(Cell) /\ stream' \in Seq(Cell)
    BY <1>1, <1>2, <1>3, <1>4, ConcatProperties DEF a, b
  <2>2. Writes' = Writes
    BY <1>1 DEF Writes
  <2> QED BY <1>1, <2>1, <2>2 DEF TypeInv, Message
<1>8. WritesInv' /\ IntactWhenAlone'
  BY <1>1 DEF WritesInv, Doomed, InLine, IntactWhenAlone
<1>9. TapeInv'
  <2>1. PICK at : /\ Traces(InFlight, at) /\ Begun(at[1]) = Len(handled) /\ Lone(at[1])
                  /\ Doomed \/ at[Len(InFlight) + 1] = Written
    BY <1>1 DEF TapeInv
  <2>2. MoreSent
    BY <1>1 DEF MoreSent, TypeInv
  <2>3. Lone(at[1])' /\ (Doomed' \/ at[Len(InFlight) + 1] = Written')
    BY <1>1, <2>1 DEF Lone, Doomed, Written
  <2> QED BY <1>1, <1>6, <2>1, <2>2, <2>3, TapeStays
<1> QED BY <1>1, <1>7, <1>8, <1>9 DEF FramingInv

\* What a read hands to the handlers: the next packets, of which a lone one is whole.
LEMMA ReadProperties ==
    ASSUME FramingInv, ProcessRead
    PROVE  /\ FramingInv'
           /\ Len(handled) \in Nat /\ handled' \in Seq(Message)
           /\ Dispatched(buffer) \in Seq(Message)
           /\ \A i \in 1..Len(handled) : handled'[i] = handled[i]
           /\ Len(handled') = Len(handled) + Len(Dispatched(buffer))
           /\ \A i \in (Len(handled) + 1)..Len(handled') :
                /\ i \in DOMAIN sent
                /\ handled'[i].packet = i /\ handled'[i].kind = sent[i].kind
                /\ handled'[i].value \in {sent[i].value, Default}
                /\ i < Len(handled') => handled'[i].value = sent[i].value \/ sent[i].bar
<1> DEFINE d == Dispatched(buffer)
           H == Len(handled)
           B == Len(buffer)
<1>1. /\ TypeInv /\ ~torn /\ ~torn' /\ WritesInv /\ TapeInv /\ IntactWhenAlone
      /\ HasBar(buffer) /\ buffer' = <<>> /\ handled' = handled \o d
      /\ UNCHANGED <<sender, sent, alone, queue, posted, stream, torn>>
  BY DEF FramingInv, ProcessRead, senderVars, Kept
<1>2. /\ buffer \in Seq(Cell) /\ stream \in Seq(Cell) /\ handled \in Seq(Message)
      /\ H \in Nat /\ B \in Nat
  BY <1>1 DEF TypeInv
<1>3. PICK at : /\ Traces(InFlight, at) /\ Begun(at[1]) = H /\ Lone(at[1])
                /\ Doomed \/ at[Len(InFlight) + 1] = Written
  BY <1>1 DEF TapeInv
<1>4. PICK f : f = [j \in 1..(B + 1) |-> at[j]]
  OBVIOUS
<1>5. PICK g : g = [j \in 1..(Len(stream) + 1) |-> at[B + j]]
  OBVIOUS
<1>6. Traces(buffer, f) /\ Traces(stream, g)
  <2>1. Traces(buffer \o stream, at)
    BY <1>3 DEF InFlight
  <2> QED BY <1>1, <1>2, <1>4, <1>5, <2>1, TapeCut
<1>7. f[1] = at[1] /\ f[B + 1] = at[B + 1] /\ g[1] = at[B + 1]
  <2>1. Len(stream) \in Nat /\ 1 \in 1..(B + 1) /\ B + 1 \in 1..(B + 1)
    BY <1>2
  <2> QED BY <1>4, <1>5, <2>1
<1>8. /\ d \in Seq(Message) /\ Len(d) \in Nat
      /\ Begun(f[B + 1]) = Begun(f[1]) + Len(d)
      /\ \A n \in 1..Len(d) :
           /\ Begun(f[1]) + n \in DOMAIN sent
           /\ d[n].packet = Begun(f[1]) + n
           /\ d[n].kind = sent[Begun(f[1]) + n].kind
           /\ d[n].value \in {sent[Begun(f[1]) + n].value, Default}
           /\ n < Len(d) =>
                d[n].value = sent[Begun(f[1]) + n].value \/ sent[Begun(f[1]) + n].bar
  BY <1>1, <1>2, <1>6, DispatchedProperties
<1> HIDE DEF d, H, B
<1>9. Begun(f[1]) = H /\ Begun(at[1]) = H
  BY <1>3, <1>7
<1>10. /\ handled' \in Seq(Message) /\ Len(handled') = H + Len(d)
       /\ \A i \in 1..(H + Len(d)) : handled'[i] = IF i <= H THEN handled[i] ELSE d[i - H]
  BY <1>1, <1>2, <1>8, ConcatProperties DEF H
<1>11. \A i \in 1..H : handled'[i] = handled[i]
  BY <1>2, <1>8, <1>10
<1>12. ASSUME NEW i \in (H + 1)..Len(handled')
       PROVE  /\ i \in DOMAIN sent
              /\ handled'[i].packet = i /\ handled'[i].kind = sent[i].kind
              /\ handled'[i].value \in {sent[i].value, Default}
              /\ i < Len(handled') => handled'[i].value = sent[i].value \/ sent[i].bar
  <2>1. /\ i - H \in 1..Len(d) /\ H + (i - H) = i /\ (i < Len(handled') <=> i - H < Len(d))
        /\ i \in 1..(H + Len(d)) /\ ~ (i <= H)
    BY <1>2, <1>8, <1>10
  <2>2. handled'[i] = d[i - H]
    BY <1>10, <2>1
  <2> QED BY <1>8, <1>9, <2>1, <2>2
<1>13. ASSUME at[1].next = 1
       PROVE  /\ Len(handled') >= H + 1
              /\ handled'[H + 1].value = sent[H + 1].value \/ sent[H + 1].bar
  <2>1. /\ Len(d) > 0 /\ f[1].packet = H + 1
        /\ d[1].value = sent[f[1].packet].value \/ sent[f[1].packet].bar
    <3>1. f[1].next = 1
      BY <1>7, <1>13
    <3> QED BY <1>1, <1>2, <1>6, <1>9, <3>1, FirstIntact DEF d
  <2>2. H + 1 \in 1..(H + Len(d)) /\ ~ (H + 1 <= H) /\ (H + 1) - H = 1
    BY <1>2, <1>8, <2>1
  <2>3. handled'[H + 1] = d[1]
    BY <1>10, <2>2
  <2> QED BY <1>2, <1>8, <1>10, <2>1, <2>3
<1>14. TypeInv'
  <2>1. Writes' = Writes
    BY <1>1 DEF Writes
  <2> QED BY <1>1, <1>10, <2>1 DEF TypeInv, Message
<1>15. WritesInv'
  BY <1>1 DEF WritesInv, Doomed, InLine
<1>16. Lone(g[1])'
  <2> SUFFICES ASSUME NEW k \in alone, ~ (k <= Len(handled'))
               PROVE  FALSE
    BY <1>1 DEF Lone
  <2>1. k \in Nat
    BY <1>1 DEF TypeInv
  <2>2. ~ (k <= H)
    BY <1>2, <1>8, <1>10, <2>1
  <2>3. k = H + 1 /\ at[1].next = 1
    BY <1>3, <2>2 DEF Lone, H
  <2> QED BY <1>13, <2>1, <2>3
<1>17. IntactWhenAlone'
  <2> SUFFICES ASSUME NEW i \in alone \cap DOMAIN handled'
               PROVE  sent[i].bar \/ handled'[i].value = sent[i].value
    BY <1>1 DEF IntactWhenAlone
  <2>1. DOMAIN handled' = 1..(H + Len(d)) /\ DOMAIN handled = 1..H /\ i \in 1..(H + Len(d))
    BY <1>2, <1>10 DEF H
  <2>2. CASE i <= H
    <3>1. i \in alone \cap DOMAIN handled /\ handled'[i] = handled[i]
      BY <1>2, <1>11, <2>1, <2>2
    <3> QED BY <1>1, <3>1 DEF IntactWhenAlone
  <2>3. CASE ~ (i <= H)
    <3>1. i = H + 1 /\ at[1].next = 1
      BY <1>3, <2>3 DEF Lone, H
    <3> QED BY <1>13, <3>1
  <2> QED BY <2>2, <2>3
<1>18. TapeInv'
  <2>1. InFlight' = stream
    BY <1>1, <1>2 DEF InFlight
  <2>2. Traces(InFlight, g)'
    BY <1>1, <1>6, <2>1 DEF Traces, After
  <2>3. Begun(g[1])' = Len(handled')
    BY <1>7, <1>8, <1>9, <1>10 DEF Begun
  <2>4. Doomed' \/ g[Len(InFlight) + 1]' = Written'
    <3>1. Doomed' = Doomed /\ Written' = Written
      BY <1>1 DEF Doomed, Written
    <3>2. Len(InFlight) = B + Len(stream) /\ Len(stream) \in Nat
      BY <1>2 DEF InFlight, B
    <3>3. g[Len(stream) + 1] = at[Len(InFlight) + 1]
      <4>1. Len(stream) + 1 \in 1..(Len(stream) + 1) /\ B + (Len(stream) + 1) = (B + Len(stream)) + 1
        BY <1>2, <3>2
      <4> QED BY <1>5, <3>2, <4>1
    <3> QED BY <1>3, <2>1, <3>1, <3>3
  <2> QED BY <1>16, <2>2, <2>3, <2>4 DEF TapeInv
<1>19. FramingInv'
  BY <1>1, <1>14, <1>15, <1>17, <1>18 DEF FramingInv
<1> QED BY <1>2, <1>8, <1>10, <1>11, <1>12, <1>19 DEF d, H

-----------------------------------------------------------------------------
(* The steps of the sender *)

\* When nothing is on its way nothing is anywhere.
LEMMA NothingOnItsWay ==
    ASSUME TypeInv, queue \o posted \o stream \o buffer = <<>>
    PROVE  queue = <<>> /\ posted = <<>> /\ stream = <<>> /\ buffer = <<>>
<1> DEFINE U == Writes \cup Cell
<1>1. queue \in Seq(Writes) /\ posted \in Seq(Writes) /\ stream \in Seq(Cell) /\ buffer \in Seq(Cell)
  BY DEF TypeInv
<1> HIDE DEF TypeInv
<1>2. queue \in Seq(U) /\ posted \in Seq(U) /\ stream \in Seq(U) /\ buffer \in Seq(U)
  BY <1>1
<1> HIDE DEF U
<1>3. PICK a \in Seq(U), b \in Seq(U), c \in Seq(U), e \in Seq(U) :
        a = queue /\ b = posted /\ c = stream /\ e = buffer
  BY <1>2
<1>4. a \o b \in Seq(U) /\ Len(a \o b) = Len(a) + Len(b)
  BY ConcatProperties
<1>5. (a \o b) \o c \in Seq(U) /\ Len((a \o b) \o c) = Len(a) + Len(b) + Len(c)
  BY <1>4, ConcatProperties
<1>6. Len(((a \o b) \o c) \o e) = Len(a) + Len(b) + Len(c) + Len(e)
  BY <1>5, ConcatProperties
<1>7. Len(a) + Len(b) + Len(c) + Len(e) = 0
  BY <1>3, <1>6
<1>8. Len(a) = 0 /\ Len(b) = 0 /\ Len(c) = 0 /\ Len(e) = 0
  <2>1. Len(a) \in Nat /\ Len(b) \in Nat /\ Len(c) \in Nat /\ Len(e) \in Nat
    OBVIOUS
  <2> QED BY <1>7, <2>1
<1>9. a = <<>> /\ b = <<>> /\ c = <<>> /\ e = <<>>
  BY <1>8
<1> QED BY <1>3, <1>9

\* A first write behind which nothing else is left half written.
LEMMA NoCut ==
    ASSUME TypeInv, WritesInv, NEW op, op.next = 1, ~ Cuts(op)
    PROVE  posted = <<>> /\ \A i \in DOMAIN queue : ~ (queue[i].next > 1)
<1> DEFINE both == queue \o posted
<1>1. /\ queue \in Seq(Writes) /\ posted \in Seq(Writes)
      /\ \A i \in DOMAIN posted : posted[i].next > 1
  BY DEF TypeInv, WritesInv
<1>2. /\ both \in Seq(Writes) /\ Len(both) = Len(queue) + Len(posted)
      /\ \A i \in 1..(Len(queue) + Len(posted)) :
           both[i] = IF i <= Len(queue) THEN queue[i] ELSE posted[i - Len(queue)]
  BY <1>1, ConcatProperties
<1>3. \A i \in DOMAIN both : ~ (both[i].next > 1)
  BY DEF Cuts, Range
<1> HIDE DEF both
<1>4. /\ DOMAIN both = 1..(Len(queue) + Len(posted)) /\ Len(queue) \in Nat /\ Len(posted) \in Nat
      /\ DOMAIN posted = 1..Len(posted) /\ DOMAIN queue = 1..Len(queue)
  BY <1>1, <1>2
<1>5. posted = <<>>
  <2> SUFFICES ASSUME Len(posted) > 0 PROVE FALSE
    BY <1>1, <1>4
  <2>1. /\ Len(queue) + 1 \in 1..(Len(queue) + Len(posted)) /\ ~ (Len(queue) + 1 <= Len(queue))
        /\ (Len(queue) + 1) - Len(queue) = 1 /\ 1 \in DOMAIN posted
    BY <1>4
  <2>2. both[Len(queue) + 1] = posted[1]
    BY <1>2, <2>1
  <2> QED BY <1>1, <1>3, <1>4, <2>1, <2>2
<1>6. \A i \in DOMAIN queue : ~ (queue[i].next > 1)
  <2> TAKE i \in DOMAIN queue
  <2>1. i \in 1..(Len(queue) + Len(posted)) /\ i <= Len(queue)
    BY <1>4
  <2>2. both[i] = queue[i]
    BY <1>2, <2>1
  <2> QED BY <1>3, <1>4, <2>1, <2>2
<1> QED BY <1>5, <1>6

\* A packet is given to sendPacket, and written as far as it fits or put in the queue.
LEMMA SendNext ==
    ASSUME FramingInv, NEW p \in Packets(sender), SendPacket(p)
    PROVE  FramingInv'
<1> DEFINE k == Len(sent) + 1
           op == [packet |-> k, next |-> 1]
<1>1. /\ TypeInv /\ ~torn /\ WritesInv /\ TapeInv /\ IntactWhenAlone
      /\ sent' = Append(sent, p)
      /\ alone' = IF queue \o posted \o stream \o buffer = <<>> THEN alone \cup {Len(sent')} ELSE alone
      /\ UNCHANGED <<sender, buffer, handled>>
  BY DEF FramingInv, SendPacket
<1>2. /\ sent \in Seq(Packets(sender)) /\ Len(sent) \in Nat
      /\ queue \in Seq(Writes) /\ posted \in Seq(Writes)
  BY <1>1 DEF TypeInv
<1>3. /\ sent' \in Seq(Packets(sender)) /\ Len(sent') = k /\ k \in Nat \ {0}
      /\ \A j \in 1..Len(sent) : sent'[j] = sent[j]
      /\ sent'[k] = p /\ k \in DOMAIN sent' /\ DOMAIN sent' = 1..k
  <2>1. /\ sent' \in Seq(Packets(sender)) /\ Len(sent') = k
        /\ \A j \in 1..Len(sent) : sent'[j] = sent[j]
        /\ sent'[k] = p
    BY <1>1, <1>2, AppendProperties
  <2> QED BY <1>2, <2>1
<1>4. MoreSent
  <2>1. Len(sent) <= Len(sent')
    BY <1>2, <1>3
  <2>2. \A j \in DOMAIN sent : sent'[j] = sent[j]
    BY <1>2, <1>3
  <2> QED BY <1>3, <2>1, <2>2 DEF MoreSent
<1>5. /\ \A w \in Writes : w \in Writes'
      /\ queue \in Seq(Writes') /\ posted \in Seq(Writes')
  BY <1>1, <1>4, WritesStay
<1>6. /\ op \in Place /\ op.packet = k /\ op.next = 1
      /\ 1 \in DOMAIN Encode(sent'[k]) /\ op \in Writes'
  <2>1. op \in Place
    BY <1>3 DEF Place
  <2>2. 1 \in DOMAIN Encode(sent'[k])
    <3>1. sender \in DOMAIN Kinds /\ sent'[k] \in Packets(sender)
      BY <1>1, <1>3 DEF TypeInv
    <3>2. Len(Encode(sent'[k])) \in 2..5 /\ DOMAIN Encode(sent'[k]) = 1..Len(Encode(sent'[k]))
      BY <3>1, EncodingShape
    <3>3. \A m \in 2..5 : 1 \in 1..m
      OBVIOUS
    <3> QED BY <3>2, <3>3
  <2>3. op.packet = k /\ op.next = 1
    OBVIOUS
  <2> HIDE DEF op, k
  <2> QED BY <1>3, <2>1, <2>2, <2>3 DEF Writes
<1>7. op \notin Range(posted)
  BY <1>1 DEF WritesInv, Range
<1>8. PICK at : /\ Traces(InFlight, at) /\ Begun(at[1]) = Len(handled) /\ Lone(at[1])
                /\ Doomed \/ at[Len(InFlight) + 1] = Written
  BY <1>1 DEF TapeInv
<1>9. ASSUME queue \o posted \o stream \o buffer = <<>>
      PROVE  at[1] = op /\ Len(handled) = Len(sent)
  <2>1. queue = <<>> /\ posted = <<>> /\ stream = <<>> /\ buffer = <<>>
    BY <1>1, <1>9, NothingOnItsWay
  <2>2. InFlight = <<>> /\ Len(InFlight) = 0
    BY <2>1 DEF InFlight
  <2>3. at[1] = Written /\ Written = op
    BY <1>8, <2>1, <2>2 DEF Doomed, Written
  <2> QED BY <1>2, <1>8, <2>3 DEF Begun
<1>10. Lone(at[1])'
  <2> SUFFICES ASSUME NEW j \in alone'
               PROVE  j <= Len(handled) \/ (j = Len(handled) + 1 /\ at[1].next = 1)
    BY <1>1 DEF Lone
  <2>1. CASE j \in alone
    BY <1>8, <2>1 DEF Lone
  <2>2. CASE j \notin alone
    <3>1. j = k /\ queue \o posted \o stream \o buffer = <<>>
      BY <1>1, <1>3, <2>2
    <3> QED BY <1>6, <1>9, <3>1
  <2> QED BY <2>1, <2>2
<1>11. torn' \/ IntactWhenAlone'
  <2> SUFFICES ASSUME NEW i \in alone' \cap DOMAIN handled
               PROVE  sent'[i].bar \/ handled[i].value = sent'[i].value
    BY <1>1 DEF IntactWhenAlone
  <2>1. i \in alone
    <3>1. i # k \/ i \in alone
      <4> SUFFICES ASSUME i = k, i \notin alone PROVE FALSE
        OBVIOUS
      <4>1. Len(handled) = Len(sent)
        BY <1>1, <1>9
      <4>2. DOMAIN handled = 1..Len(sent)
        BY <1>1, <4>1 DEF TypeInv
      <4> QED BY <1>2, <4>2
    <3> QED BY <1>1, <1>3, <3>1
  <2>2. sent'[i] = sent[i]
    BY <1>1, <1>2, <1>3, <2>1 DEF TypeInv
  <2> QED BY <1>1, <2>1, <2>2 DEF IntactWhenAlone
<1>12. alone' \subseteq DOMAIN sent'
  <2>1. alone \subseteq 1..Len(sent)
    BY <1>1, <1>2 DEF TypeInv
  <2>2. \A j \in 1..Len(sent) : j \in 1..k
    BY <1>2
  <2> QED BY <1>1, <1>3, <2>1, <2>2
<1>13. ASSUME queue' \in Seq(Writes'), posted' \in Seq(Writes'), stream' \in Seq(Cell), torn' \in BOOLEAN
       PROVE  TypeInv'
  BY <1>1, <1>3, <1>12, <1>13 DEF TypeInv, Message
<1>14. CASE queue = <<>> /\ Fits(sent', op) > 0
  <2>1. Transfer(sent', op, k) /\ queue' = queue
    BY <1>14 DEF SendPacket, Start
  <2>2. PICK packets \in Seq(Packets(sender)) : packets = sent'
    BY <1>3
  <2>3. PICK n \in 1..Remaining(packets, op) :
          /\ stream' = stream \o Cells(packets, k, 1, n)
          /\ stream' \in Seq(Cell)
          /\ posted' = posted \o RestOf(packets, op, n)
    <3>1. k \in Nat /\ Transfer(packets, op, k) /\ Fits(packets, op) > 0
      BY <1>3, <1>14, <2>1, <2>2
    <3>2. op.packet \in DOMAIN packets /\ op.next \in DOMAIN Encode(packets[op.packet])
      BY <1>3, <1>6, <2>2
    <3> HIDE DEF op, k
    <3>3. \E n \in 1..Remaining(packets, op) :
             /\ stream' = stream \o Cells(packets, k, op.next, n)
             /\ stream' \in Seq(Cell)
             /\ posted' = (IF op \in Range(posted) THEN Tail(posted) ELSE posted)
                          \o RestOf(packets, op, n)
      BY <1>1, <1>6, <3>1, <3>2, TransferProperties
    <3> QED BY <1>6, <1>7, <3>3
  <2>4. PICK rest, left :
          /\ rest = RestOf(packets, op, n)
          /\ left = [packet |-> k, next |-> 1 + n]
    OBVIOUS
  <2>5. /\ left.packet = k /\ left.next = 1 + n
        /\ \/ rest = <<>> /\ ~ (1 + n <= Len(Encode(p)))
           \/ rest = <<left>> /\ 1 + n <= Len(Encode(p)) /\ left \in Writes' /\ left.next > 1
    <3>1. op.packet \in DOMAIN packets /\ op.next \in DOMAIN Encode(packets[op.packet])
      BY <1>3, <1>6, <2>2
    <3> HIDE DEF op
    <3>2. \/ /\ RestOf(packets, op, n) = <<>>
             /\ ~ (op.next + n <= Len(Encode(packets[op.packet])))
          \/ /\ RestOf(packets, op, n) = <<[packet |-> op.packet, next |-> op.next + n]>>
             /\ op.next + n <= Len(Encode(packets[op.packet]))
             /\ [packet |-> op.packet, next |-> op.next + n] \in Place
             /\ op.next + n \in DOMAIN Encode(packets[op.packet])
             /\ op.next + n > 1
      BY <1>1, <1>6, <3>1, RestProperties
    <3>3. packets[op.packet] = p
      BY <1>3, <1>6, <2>2
    <3>4. left.packet = k /\ left.next = 1 + n
      BY <2>4
    <3> QED BY <1>3, <1>6, <2>2, <2>4, <3>2, <3>3, <3>4 DEF Writes
  <2> HIDE DEF op, k
  <2>6. rest \in Seq(Writes')
    <3>1. CASE rest = <<>>
      BY <3>1
    <3>2. CASE rest = <<left>> /\ left \in Writes'
      BY <3>2
    <3> QED BY <2>5, <3>1, <3>2
  <2>7. TypeInv'
    <3>1. posted' \in Seq(Writes')
      BY <1>5, <2>3, <2>4, <2>6, ConcatProperties
    <3>2. torn' \in BOOLEAN
      BY <2>1 DEF Transfer
    <3> QED BY <1>5, <1>13, <2>1, <2>3, <3>1, <3>2
  <2>8. ASSUME ~torn'
        PROVE  WritesInv' /\ TapeInv' /\ IntactWhenAlone'
    <3>1. ~ Cuts(op)
      BY <2>1, <2>8 DEF Transfer
    <3>2. posted = <<>> /\ queue = <<>> /\ queue' = <<>> /\ posted' = rest
      <4>1. posted = <<>>
        BY <1>1, <1>6, <3>1, NoCut
      <4> QED BY <1>14, <2>1, <2>3, <2>4, <2>6, <4>1
    <3>3. WritesInv'
      <4>1. CASE rest = <<>>
        BY <3>2, <4>1 DEF WritesInv, InLine
      <4>2. CASE rest = <<left>> /\ left.next > 1
        <5>1. /\ Len(posted') = 1 /\ DOMAIN posted' = {1}
              /\ posted'[1].packet = k /\ posted'[1].next > 1
          BY <2>5, <3>2, <4>2
        <5>2. k = Len(sent') - Len(posted') + 1
          BY <1>3, <5>1
        <5>3. InLine(posted)'
          BY <5>1, <5>2 DEF InLine
        <5> QED BY <3>2, <5>1, <5>3 DEF WritesInv
      <4> QED BY <2>5, <4>1, <4>2
    <3>4. at[Len(InFlight) + 1] = op /\ Written = op
      BY <1>8, <3>2 DEF Doomed, Written, op, k
    <3>5. Written' = IF op.next + n <= Len(Encode(sent'[op.packet]))
                     THEN [packet |-> op.packet, next |-> op.next + n]
                     ELSE [packet |-> op.packet + 1, next |-> 1]
      <4>1. CASE rest = <<>> /\ ~ (1 + n <= Len(Encode(p)))
        BY <1>3, <1>6, <3>2, <4>1 DEF Written
      <4>2. CASE rest = <<left>> /\ 1 + n <= Len(Encode(p))
        <5>1. Written' = left
          BY <3>2, <4>2 DEF Written
        <5> QED BY <1>3, <1>6, <2>4, <4>2, <5>1
      <4> QED BY <2>5, <4>1, <4>2
    <3>6. n \in 1..(Len(Encode(sent'[op.packet])) - op.next + 1)
      BY <2>2 DEF Remaining
    <3>7. stream' = stream \o Cells(sent', op.packet, op.next, n)
      BY <1>6, <2>2, <2>3
    <3>8. op.packet \in DOMAIN sent'
      BY <1>3, <1>6
    <3>9. TapeInv'
      BY <1>1, <1>4, <1>6, <1>8, <1>10, <3>4, <3>5, <3>6, <3>7, <3>8, TapeWritten
    <3> QED BY <1>11, <2>8, <3>3, <3>9
  <2> QED BY <2>7, <2>8 DEF FramingInv
<1>15. CASE ~ (queue = <<>> /\ Fits(sent', op) > 0)
  <2>1. /\ queue' = Append(queue, op)
        /\ posted' = posted
        /\ UNCHANGED <<stream, torn>>
    BY <1>7, <1>15 DEF SendPacket, Start
  <2>2. /\ queue' \in Seq(Writes') /\ Len(queue') = Len(queue) + 1 /\ Len(queue) \in Nat
        /\ \A i \in 1..Len(queue) : queue'[i] = queue[i]
        /\ queue'[Len(queue) + 1] = op /\ queue' # <<>>
    BY <1>5, <1>6, <2>1, AppendProperties
  <2>3. TypeInv'
    BY <1>1, <1>5, <1>13, <2>1, <2>2 DEF TypeInv
  <2>4. DOMAIN queue' = 1..(Len(queue) + 1) /\ DOMAIN queue = 1..Len(queue)
    BY <1>2, <2>2
  <2>5. CASE Doomed
    <3>1. 1 \in 1..Len(queue) /\ \A i \in DOMAIN queue : i \in DOMAIN queue' /\ queue'[i] = queue[i]
      BY <1>2, <2>2, <2>4, <2>5 DEF Doomed
    <3>2. Doomed'
      BY <2>1, <2>2, <2>5, <3>1 DEF Doomed
    <3>3. WritesInv'
      BY <1>1, <2>1, <3>2 DEF WritesInv
    <3>4. InFlight' = InFlight
      BY <1>1, <2>1 DEF InFlight
    <3>5. TapeInv'
      BY <1>1, <1>4, <1>8, <1>10, <3>2, <3>4, TapeStays
    <3> QED BY <1>1, <1>11, <2>1, <2>3, <3>3, <3>5 DEF FramingInv
  <2>6. CASE ~Doomed
    <3>1. queue = <<>> /\ posted # <<>> => Doomed'
      <4> SUFFICES ASSUME queue = <<>>, posted # <<>> PROVE Doomed'
        OBVIOUS
      <4>1. queue'[1] = op
        BY <2>2
      <4> QED BY <1>6, <2>1, <2>2, <4>1 DEF Doomed
    <3>2. posted = <<>> => InLine(queue)'
      <4> SUFFICES ASSUME posted = <<>>, NEW i \in DOMAIN queue'
                   PROVE  /\ queue'[i].packet = Len(sent') - Len(queue') + i
                          /\ i > 1 => queue'[i].next = 1
        BY DEF InLine
      <4>1. InLine(queue)
        BY <1>1, <1>2, <2>6 DEF WritesInv, InLine
      <4>2. CASE i \in DOMAIN queue
        <5>1. /\ queue[i].packet = Len(sent) - Len(queue) + i
              /\ i > 1 => queue[i].next = 1
          BY <4>1, <4>2 DEF InLine
        <5>2. queue'[i] = queue[i] /\ i \in Nat
          BY <2>2, <2>4, <4>2
        <5>3. Len(sent') - Len(queue') + i = Len(sent) - Len(queue) + i
          BY <1>2, <1>3, <2>2, <5>2
        <5> QED BY <5>1, <5>2, <5>3
      <4>3. CASE i \notin DOMAIN queue
        <5>1. i = Len(queue) + 1
          BY <2>2, <2>4, <4>3
        <5>2. Len(sent') - Len(queue') + i = k
          BY <1>2, <1>3, <2>2, <5>1
        <5> QED BY <1>6, <2>2, <5>1, <5>2
      <4> QED BY <4>2, <4>3
    <3>3. queue # <<>> => posted = <<>>
      BY <1>1, <2>6 DEF WritesInv
    <3>4. WritesInv'
      BY <1>1, <2>1, <3>1, <3>2, <3>3 DEF WritesInv
    <3>5. Doomed' \/ Written' = Written
      <4>1. CASE queue = <<>> /\ posted = <<>>
        BY <2>2, <4>1 DEF Written
      <4>2. CASE queue # <<>>
        <5>1. 1 \in 1..Len(queue)
          BY <1>2, <2>2, <4>2
        <5> QED BY <2>2, <4>2, <5>1 DEF Written
      <4> QED BY <3>1, <4>1, <4>2
    <3>6. InFlight' = InFlight
      BY <1>1, <2>1 DEF InFlight
    <3>7. Doomed' \/ at[Len(InFlight) + 1] = Written'
      BY <1>8, <2>6, <3>5
    <3>8. TapeInv'
      BY <1>1, <1>4, <1>8, <1>10, <3>6, <3>7, TapeStays
    <3> QED BY <1>1, <1>11, <2>1, <2>3, <3>4, <3>8 DEF FramingInv
  <2> QED BY <2>5, <2>6
<1> QED BY <1>14, <1>15

\* The cells that a deferred write finds are those of some memory.
LEMMA MemoryProperties ==
    ASSUME TypeInv, NEW op \in Writes, NEW k \in Memory(op)
    PROVE  k \in Nat
<1>1. op.packet \in Nat
  BY DEF Writes, Place
<1>2. \A j \in DOMAIN sent : j \in Nat
  BY DEF TypeInv
<1> QED BY <1>1, <1>2 DEF Memory, NoPacket

\* A step that gives no packet.
LEMMA SentStays ==
    ASSUME TypeInv, UNCHANGED senderVars
    PROVE  MoreSent /\ Writes' = Writes /\ sent \in Seq(Packets(sender)) /\ Len(sent) \in Nat
BY DEF TypeInv, senderVars, MoreSent, Writes

\* A deferred write goes on from its packet's own memory: the stretch grows by its cells.
LEMMA DeferredGrows ==
    ASSUME FramingInv, ~torn, UNCHANGED <<senderVars, buffer, handled>>,
           NEW op \in Writes, Written = op, ~Doomed,
           NEW n \in 1..Remaining(sent, op),
           stream' = stream \o Cells(sent, op.packet, op.next, n),
           \/ Doomed'
           \/ Written' = IF op.next + n <= Len(Encode(sent[op.packet]))
                         THEN [packet |-> op.packet, next |-> op.next + n]
                         ELSE [packet |-> op.packet + 1, next |-> 1]
    PROVE  TapeInv'
<1>1. TypeInv /\ TapeInv /\ sent' = sent /\ alone' = alone /\ buffer' = buffer /\ handled' = handled
  BY DEF FramingInv, senderVars
<1>2. PICK at : /\ Traces(InFlight, at) /\ Begun(at[1]) = Len(handled) /\ Lone(at[1])
                /\ Doomed \/ at[Len(InFlight) + 1] = Written
  BY <1>1 DEF TapeInv
<1>3. MoreSent
  BY <1>1, SentStays
<1>4. Lone(at[1])'
  BY <1>1, <1>2 DEF Lone
<1>5. op \in Place /\ op.packet \in DOMAIN sent'
  BY <1>1 DEF Writes
<1>6. n \in 1..(Len(Encode(sent'[op.packet])) - op.next + 1)
  BY <1>1 DEF Remaining
<1>7. stream' = stream \o Cells(sent', op.packet, op.next, n)
  BY <1>1
<1>8. at[Len(InFlight) + 1] = op
  BY <1>2
<1>9. \/ Doomed'
      \/ Written' = IF op.next + n <= Len(Encode(sent'[op.packet]))
                    THEN [packet |-> op.packet, next |-> op.next + n]
                    ELSE [packet |-> op.packet + 1, next |-> 1]
  BY <1>1
<1> QED BY <1>1, <1>2, <1>3, <1>4, <1>5, <1>6, <1>7, <1>8, <1>9, TapeWritten

\* A sequence that is not empty.
LEMMA HasElements ==
    ASSUME NEW S, NEW s \in Seq(S)
    PROVE  /\ Len(s) \in Nat /\ DOMAIN s = 1..Len(s)
           /\ s # <<>> => Len(s) > 0 /\ 1 \in DOMAIN s
           /\ Len(s) = 0 => s = <<>>
OBVIOUS

\* The socket has room again for a write that stopped half way, or it has not.
LEMMA ResumeNext ==
    ASSUME FramingInv, Resume
    PROVE  FramingInv'
<1>1. PICK k \in Memory(Head(posted)) : Start(sent, Head(posted), k)
  BY DEF Resume
<1>2. /\ TypeInv /\ ~torn /\ WritesInv /\ TapeInv /\ IntactWhenAlone /\ posted # <<>>
      /\ UNCHANGED <<senderVars, buffer, handled>>
      /\ UNCHANGED <<sender, sent, alone, buffer, handled>>
  BY DEF FramingInv, Resume, senderVars
<1>3. /\ MoreSent /\ Writes' = Writes /\ sent \in Seq(Packets(sender)) /\ Len(sent) \in Nat
  BY <1>2, SentStays
<1>4. queue \in Seq(Writes) /\ posted \in Seq(Writes) /\ stream \in Seq(Cell)
  BY <1>2 DEF TypeInv
<1>5. PICK op \in Writes : op = Head(posted) /\ op = posted[1]
  BY <1>2, <1>4, HeadTailProperties
<1>6. /\ op \in Place /\ op.packet \in DOMAIN sent /\ op.next \in DOMAIN Encode(sent[op.packet])
      /\ op.packet \in Nat /\ op.next \in Nat
  BY DEF Writes, Place
<1>7. /\ op.next > 1 /\ op \in Range(posted)
      /\ Tail(posted) \in Seq(Writes) /\ Len(Tail(posted)) = Len(posted) - 1
      /\ \A i \in 1..Len(Tail(posted)) : Tail(posted)[i] = posted[i + 1]
  <2>1. 1 \in DOMAIN posted
    BY <1>2, <1>4
  <2> QED BY <1>2, <1>4, <1>5, <2>1, HeadTailProperties DEF WritesInv, Range
<1>8. k \in Nat
  BY <1>2, <1>5, MemoryProperties
<1>13. /\ Len(posted) \in Nat /\ Len(posted) > 0 /\ 1 \in DOMAIN posted
       /\ Len(posted) <= 1 => Len(posted) = 1 /\ Tail(posted) = <<>>
  <2>1. posted \in Seq(Writes) /\ posted # <<>> /\ Tail(posted) \in Seq(Writes)
        /\ Len(Tail(posted)) = Len(posted) - 1
    BY <1>2, <1>4, <1>7
  <2>2. Len(posted) \in Nat /\ Len(posted) > 0 /\ 1 \in DOMAIN posted
    BY <2>1, HasElements
  <2>3. Len(Tail(posted)) = 0 => Tail(posted) = <<>>
    BY <2>1, HasElements
  <2>4. Len(posted) <= 1 => Len(posted) = 1 /\ Len(Tail(posted)) = 0
    BY <2>1, <2>2
  <2> QED BY <2>2, <2>3, <2>4
<1>9. IntactWhenAlone' \/ torn'
  BY <1>2 DEF IntactWhenAlone
<1>10. ASSUME queue' \in Seq(Writes), posted' \in Seq(Writes), stream' \in Seq(Cell), torn' \in BOOLEAN
       PROVE  TypeInv'
  BY <1>2, <1>3, <1>10 DEF TypeInv, Message
<1>11. CASE queue = <<>> /\ Fits(sent, op) > 0
  <2>1. Transfer(sent, op, k) /\ queue' = queue
    BY <1>1, <1>5, <1>11 DEF Start
  <2>2. PICK n \in 1..Remaining(sent, op) :
          /\ stream' = stream \o Cells(sent, k, op.next, n)
          /\ stream' \in Seq(Cell)
          /\ posted' = Tail(posted) \o RestOf(sent, op, n)
    <3>1. \E n \in 1..Remaining(sent, op) :
             /\ stream' = stream \o Cells(sent, k, op.next, n)
             /\ stream' \in Seq(Cell)
             /\ posted' = (IF op \in Range(posted) THEN Tail(posted) ELSE posted)
                          \o RestOf(sent, op, n)
      BY <1>2, <1>3, <1>6, <1>8, <1>11, <2>1, TransferProperties
    <3> QED BY <1>7, <3>1
  <2>3. PICK rest, left :
          /\ rest = RestOf(sent, op, n)
          /\ left = [packet |-> op.packet, next |-> op.next + n]
    OBVIOUS
  <2>4. \/ rest = <<>> /\ ~ (op.next + n <= Len(Encode(sent[op.packet])))
        \/ /\ rest = <<left>> /\ op.next + n <= Len(Encode(sent[op.packet]))
           /\ left \in Writes /\ left.next > 1
    BY <1>2, <1>3, <1>6, <2>3, RestProperties DEF Writes
  <2>5. rest \in Seq(Writes)
    <3>1. CASE rest = <<>>
      BY <3>1
    <3>2. CASE rest = <<left>> /\ left \in Writes
      BY <3>2
    <3> QED BY <2>4, <3>1, <3>2
  <2>6. TypeInv'
    <3>1. posted' \in Seq(Writes)
      BY <1>7, <2>2, <2>3, <2>5, ConcatProperties
    <3>2. torn' \in BOOLEAN
      BY <2>1 DEF Transfer
    <3> QED BY <1>4, <1>10, <2>1, <2>2, <3>1, <3>2
  <2>7. ASSUME ~torn'
        PROVE  WritesInv' /\ TapeInv' /\ IntactWhenAlone'
    <3>1. k = op.packet
      BY <2>1, <2>7 DEF Transfer
    <3>2. ~Doomed /\ Written = op
      BY <1>2, <1>5, <1>11 DEF Doomed, Written
    <3>3. /\ Len(posted) = 1 /\ posted[1].packet = Len(sent) - Len(posted) + 1
          /\ Tail(posted) = <<>>
      <4>1. Len(posted) <= 1 /\ InLine(posted)
        BY <1>2, <3>2 DEF WritesInv
      <4>2. Len(posted) = 1 /\ 1 \in DOMAIN posted
        BY <1>13, <4>1
      <4>3. Tail(posted) = <<>>
        BY <1>13, <4>1
      <4> QED BY <4>1, <4>2, <4>3 DEF InLine
    <3>4. op.packet = Len(sent)
      BY <1>3, <1>5, <3>3
    <3>5. posted' = rest
      <4>1. posted' = <<>> \o rest
        BY <2>2, <2>3, <3>3
      <4> QED BY <2>5, <4>1
    <3>6. WritesInv'
      <4>1. CASE rest = <<>>
        BY <1>11, <2>1, <3>5, <4>1 DEF WritesInv, InLine
      <4>2. CASE rest = <<left>> /\ left.next > 1
        <5>1. /\ Len(posted') = 1 /\ DOMAIN posted' = {1}
              /\ posted'[1].packet = op.packet /\ posted'[1].next > 1
          BY <2>3, <3>5, <4>2
        <5>2. op.packet = Len(sent') - Len(posted') + 1
          BY <1>2, <1>3, <3>4, <5>1
        <5>3. InLine(posted)'
          BY <5>1, <5>2 DEF InLine
        <5> QED BY <1>11, <2>1, <5>1, <5>3 DEF WritesInv
      <4> QED BY <2>4, <4>1, <4>2
    <3>7. Written' = IF op.next + n <= Len(Encode(sent[op.packet]))
                     THEN [packet |-> op.packet, next |-> op.next + n]
                     ELSE [packet |-> op.packet + 1, next |-> 1]
      <4>1. CASE rest = <<>> /\ ~ (op.next + n <= Len(Encode(sent[op.packet])))
        BY <1>2, <1>11, <2>1, <3>4, <3>5, <4>1 DEF Written
      <4>2. CASE rest = <<left>> /\ op.next + n <= Len(Encode(sent[op.packet]))
        <5>1. Written' = left
          BY <1>11, <2>1, <3>5, <4>2 DEF Written
        <5> QED BY <2>3, <4>2, <5>1
      <4> QED BY <2>4, <4>1, <4>2
    <3>8. TapeInv'
      BY <1>2, <2>2, <3>1, <3>2, <3>7, DeferredGrows
    <3> QED BY <1>9, <2>7, <3>6, <3>8
  <2> QED BY <2>6, <2>7 DEF FramingInv
<1>12. CASE ~ (queue = <<>> /\ Fits(sent, op) > 0)
  <2>1. /\ queue' = Append(queue, op)
        /\ posted' = Tail(posted)
        /\ UNCHANGED <<stream, torn>>
    BY <1>1, <1>5, <1>7, <1>12 DEF Start
  <2>2. /\ queue' \in Seq(Writes) /\ Len(queue') = Len(queue) + 1 /\ Len(queue) \in Nat
        /\ \A i \in 1..Len(queue) : queue'[i] = queue[i]
        /\ queue'[Len(queue) + 1] = op /\ queue' # <<>>
    BY <1>4, <2>1, AppendProperties
  <2>3. TypeInv'
    BY <1>2, <1>4, <1>7, <1>10, <2>1, <2>2 DEF TypeInv
  <2>4. \A i \in DOMAIN posted' : posted'[i].next > 1
    <3> SUFFICES ASSUME NEW i \in DOMAIN posted' PROVE posted'[i].next > 1
      OBVIOUS
    <3>1. i \in 1..Len(Tail(posted)) /\ i + 1 \in DOMAIN posted
      BY <1>4, <1>7, <2>1
    <3> QED BY <1>2, <1>7, <2>1, <3>1 DEF WritesInv
  <2>5. InFlight' = InFlight
    BY <1>2, <2>1 DEF InFlight
  <2>6. PICK at : /\ Traces(InFlight, at) /\ Begun(at[1]) = Len(handled) /\ Lone(at[1])
                  /\ Doomed \/ at[Len(InFlight) + 1] = Written
    BY <1>2 DEF TapeInv
  <2>7. Lone(at[1])'
    BY <1>2, <2>6 DEF Lone
  <2>8. CASE queue = <<>>
    <3>1. ~Doomed /\ Written = op
      BY <1>2, <1>5, <2>8 DEF Doomed, Written
    <3>2. /\ Len(posted) = 1 /\ op.packet = Len(sent)
          /\ Tail(posted) = <<>>
      <4>1. Len(posted) <= 1 /\ InLine(posted)
        BY <1>2, <3>1 DEF WritesInv
      <4>2. Len(posted) = 1 /\ 1 \in DOMAIN posted
        BY <1>13, <4>1
      <4>3. Tail(posted) = <<>>
        BY <1>13, <4>1
      <4>4. posted[1].packet = Len(sent) - 1 + 1
        BY <4>1, <4>2 DEF InLine
      <4> QED BY <1>3, <1>5, <4>2, <4>3, <4>4
    <3>3. Len(queue') = 1 /\ queue'[1] = op /\ DOMAIN queue' = {1}
      BY <2>2, <2>8
    <3>4. InLine(queue)'
      <4>1. op.packet = Len(sent') - Len(queue') + 1
        BY <1>2, <1>3, <3>2, <3>3
      <4> QED BY <3>3, <4>1 DEF InLine
    <3>5. WritesInv'
      BY <2>1, <2>4, <3>2, <3>4 DEF WritesInv
    <3>6. Written' = Written
      BY <2>2, <3>1, <3>3 DEF Written
    <3>7. TapeInv'
      BY <1>2, <1>3, <2>5, <2>6, <2>7, <3>1, <3>6, TapeStays
    <3> QED BY <1>2, <1>9, <2>1, <2>3, <3>5, <3>7 DEF FramingInv
  <2>9. CASE queue # <<>>
    <3>1. Doomed
      BY <1>2, <2>9 DEF WritesInv
    <3>2. 1 \in 1..Len(queue) /\ Len(queue) + 1 \in DOMAIN queue'
      BY <1>4, <2>2, <2>9
    <3>3. Doomed'
      BY <1>7, <2>2, <3>1, <3>2 DEF Doomed
    <3>4. WritesInv'
      BY <2>4, <3>3 DEF WritesInv
    <3>5. TapeInv'
      BY <1>2, <1>3, <2>5, <2>6, <2>7, <3>3, TapeStays
    <3> QED BY <1>2, <1>9, <2>1, <2>3, <3>4, <3>5 DEF FramingInv
  <2> QED BY <2>8, <2>9
<1> QED BY <1>11, <1>12

\* The reactor finds room for the write at the head of the queue.
LEMMA QueuedNext ==
    ASSUME FramingInv, WriteQueued
    PROVE  FramingInv'
<1>1. PICK k \in Memory(Head(queue)) : Transfer(sent, Head(queue), k)
  BY DEF WriteQueued
<1>2. /\ TypeInv /\ ~torn /\ WritesInv /\ TapeInv /\ IntactWhenAlone /\ queue # <<>>
      /\ Len(stream) < Room /\ queue' = Tail(queue)
      /\ UNCHANGED <<senderVars, buffer, handled>>
      /\ UNCHANGED <<sender, sent, alone, buffer, handled>>
  BY DEF FramingInv, WriteQueued, senderVars
<1>3. /\ MoreSent /\ Writes' = Writes /\ sent \in Seq(Packets(sender)) /\ Len(sent) \in Nat
  BY <1>2, SentStays
<1>4. queue \in Seq(Writes) /\ posted \in Seq(Writes) /\ stream \in Seq(Cell)
  BY <1>2 DEF TypeInv
<1>5. PICK op \in Writes : op = Head(queue) /\ op = queue[1]
  BY <1>2, <1>4, HeadTailProperties
<1>6. /\ op \in Place /\ op.packet \in DOMAIN sent /\ op.next \in DOMAIN Encode(sent[op.packet])
      /\ op.packet \in Nat /\ op.next \in Nat
  BY DEF Writes, Place
<1>7. /\ queue' \in Seq(Writes) /\ Len(queue') = Len(queue) - 1
      /\ Len(queue) \in Nat /\ Len(queue) > 0 /\ DOMAIN queue = 1..Len(queue)
      /\ Len(queue') \in Nat /\ DOMAIN queue' = 1..Len(queue')
      /\ \A i \in DOMAIN queue' : i + 1 \in DOMAIN queue /\ queue'[i] = queue[i + 1]
  <2>1. /\ queue' \in Seq(Writes) /\ Len(queue') = Len(queue) - 1
        /\ \A i \in 1..Len(queue') : queue'[i] = queue[i + 1]
    BY <1>2, <1>4, HeadTailProperties
  <2>2. Len(queue) \in Nat /\ Len(queue) > 0 /\ DOMAIN queue = 1..Len(queue)
    BY <1>2, <1>4, HasElements
  <2>3. Len(queue') \in Nat /\ DOMAIN queue' = 1..Len(queue')
    BY <2>1, HasElements
  <2>4. \A i \in 1..Len(queue') : i + 1 \in 1..Len(queue)
    BY <2>1, <2>2
  <2> QED BY <2>1, <2>2, <2>3, <2>4
<1>8. k \in Nat /\ Fits(sent, op) > 0 /\ Transfer(sent, op, k)
  BY <1>1, <1>2, <1>3, <1>5, <1>6, MemoryProperties, FitsProperties
<1>9. IntactWhenAlone' \/ torn'
  BY <1>2 DEF IntactWhenAlone
<1>10. PICK n \in 1..Remaining(sent, op) :
         /\ stream' = stream \o Cells(sent, k, op.next, n)
         /\ stream' \in Seq(Cell)
         /\ posted' = (IF op \in Range(posted) THEN Tail(posted) ELSE posted) \o RestOf(sent, op, n)
  BY <1>2, <1>3, <1>6, <1>8, TransferProperties
<1>11. PICK rest, left :
         /\ rest = RestOf(sent, op, n)
         /\ left = [packet |-> op.packet, next |-> op.next + n]
  OBVIOUS
<1>12. \/ rest = <<>> /\ ~ (op.next + n <= Len(Encode(sent[op.packet])))
       \/ /\ rest = <<left>> /\ op.next + n <= Len(Encode(sent[op.packet]))
          /\ left \in Writes /\ left.next > 1
  BY <1>2, <1>3, <1>6, <1>11, RestProperties DEF Writes
<1>13. rest \in Seq(Writes)
  <2>1. CASE rest = <<>>
    BY <2>1
  <2>2. CASE rest = <<left>> /\ left \in Writes
    BY <2>2
  <2> QED BY <1>12, <2>1, <2>2
<1>14. TypeInv'
  <2>1. op \in Range(posted) => posted # <<>>
    BY DEF Range
  <2>2. (IF op \in Range(posted) THEN Tail(posted) ELSE posted) \in Seq(Writes)
    <3>1. posted # <<>> => Tail(posted) \in Seq(Writes)
      BY <1>4, HeadTailProperties
    <3> QED BY <1>4, <2>1, <3>1
  <2>3. posted' \in Seq(Writes)
    BY <1>10, <1>11, <1>13, <2>2, ConcatProperties
  <2>4. torn' \in BOOLEAN
    BY <1>8 DEF Transfer
  <2> QED BY <1>2, <1>3, <1>7, <1>10, <2>3, <2>4 DEF TypeInv, Message
<1>15. ASSUME ~torn'
       PROVE  WritesInv' /\ TapeInv' /\ IntactWhenAlone'
  <2>1. k = op.packet /\ ~ Cuts(op)
    BY <1>8, <1>15 DEF Transfer
  <2>2. ~Doomed
    <3> SUFFICES ASSUME Doomed PROVE FALSE
      OBVIOUS
    <3>1. op.next = 1
      BY <1>5 DEF Doomed
    <3>2. posted = <<>> /\ \A i \in DOMAIN queue : ~ (queue[i].next > 1)
      BY <1>2, <2>1, <3>1, NoCut
    <3> QED BY <3>2 DEF Doomed
  <2>3. posted = <<>> /\ InLine(queue) /\ Written = op
    BY <1>2, <1>5, <2>2 DEF WritesInv, Written
  <2>4. posted' = rest
    <3>1. op \notin Range(posted)
      BY <2>3 DEF Range
    <3>2. posted' = <<>> \o rest
      BY <1>10, <1>11, <2>3, <3>1
    <3> QED BY <1>13, <3>2
  <2>5. op.packet = Len(sent) - Len(queue) + 1
    BY <1>5, <1>7, <2>3 DEF InLine
  <2>6. \A i \in DOMAIN queue' :
          /\ queue'[i].packet = Len(sent) - Len(queue') + i
          /\ queue'[i].next = 1
    <3> SUFFICES ASSUME NEW i \in DOMAIN queue'
                 PROVE  /\ queue'[i].packet = Len(sent) - Len(queue') + i
                        /\ queue'[i].next = 1
      OBVIOUS
    <3>1. i \in Nat /\ i > 0 /\ i + 1 > 1
      BY <1>7
    <3>2. queue'[i] = queue[i + 1] /\ i + 1 \in DOMAIN queue
      BY <1>7
    <3>3. queue[i + 1].packet = Len(sent) - Len(queue) + (i + 1) /\ queue[i + 1].next = 1
      BY <2>3, <3>1, <3>2 DEF InLine
    <3>4. Len(sent) - Len(queue) + (i + 1) = Len(sent) - Len(queue') + i
      BY <1>3, <1>7, <3>1
    <3> QED BY <3>2, <3>3, <3>4
  <2>7. InLine(queue)'
    BY <1>2, <2>6 DEF InLine
  <2>8. queue' # <<>> => 1 \in DOMAIN queue'
    BY <1>7, HasElements
  <2>9. CASE rest = <<>> /\ ~ (op.next + n <= Len(Encode(sent[op.packet])))
    <3>1. WritesInv'
      BY <2>4, <2>7, <2>9 DEF WritesInv
    <3>2. Written' = [packet |-> op.packet + 1, next |-> 1]
      <4>1. CASE queue' = <<>>
        <5>1. Len(queue') = 0
          BY <4>1
        <5>2. op.packet + 1 = Len(sent') + 1
          BY <1>2, <1>3, <1>7, <2>5, <5>1
        <5> QED BY <2>4, <2>9, <4>1, <5>2 DEF Written
      <4>2. CASE queue' # <<>>
        <5>1. Written' = queue'[1] /\ queue'[1] \in Place
          BY <1>7, <2>8, <4>2 DEF Written, Writes
        <5>2. queue'[1].packet = Len(sent) - Len(queue') + 1 /\ queue'[1].next = 1
          BY <2>6, <2>8, <4>2
        <5>3. Len(sent) - Len(queue') + 1 = op.packet + 1
          BY <1>3, <1>7, <2>5
        <5> QED BY <5>1, <5>2, <5>3 DEF Place
      <4> QED BY <4>1, <4>2
    <3>3. TapeInv'
      BY <1>2, <1>10, <2>1, <2>2, <2>3, <2>9, <3>2, DeferredGrows
    <3> QED BY <1>9, <1>15, <3>1, <3>3
  <2>10. CASE /\ rest = <<left>> /\ op.next + n <= Len(Encode(sent[op.packet]))
              /\ left \in Writes /\ left.next > 1
    <3>1. /\ posted' # <<>> /\ Len(posted') = 1 /\ DOMAIN posted' = {1}
          /\ posted'[1] = left /\ left.packet = op.packet
      BY <1>11, <2>4, <2>10
    <3>2. queue' # <<>> => Doomed'
      BY <2>6, <2>8, <3>1 DEF Doomed
    <3>3. queue' = <<>> => InLine(posted)' /\ Written' = left
      <4> SUFFICES ASSUME queue' = <<>> PROVE InLine(posted)' /\ Written' = left
        OBVIOUS
      <4>1. Len(queue') = 0
        OBVIOUS
      <4>2. op.packet = Len(sent') - Len(posted') + 1
        <5>1. Len(queue) = 1
          BY <1>7, <4>1
        <5>2. sent' = sent /\ Len(sent) \in Nat
          BY <1>2, <1>3, LenProperties DEF TypeInv
        <5>3. op.packet = Len(sent)
          BY <2>5, <5>1, <5>2
        <5> QED BY <3>1, <5>2, <5>3
      <4>3. ASSUME NEW i \in DOMAIN posted'
            PROVE  /\ posted'[i].packet = Len(sent') - Len(posted') + i
                   /\ i > 1 => posted'[i].next = 1
        <5>1. i = 1 /\ ~ (i > 1)
          BY <3>1, <4>3
        <5>2. posted'[i].packet = op.packet
          BY <3>1, <5>1
        <5> QED BY <4>2, <5>1, <5>2
      <4>4. InLine(posted)'
        BY <4>3 DEF InLine
      <4>5. Written' = left
        BY <3>1 DEF Written
      <4> QED BY <4>4, <4>5
    <3>4. WritesInv'
      <4>1. \A i \in DOMAIN posted' : posted'[i].next > 1
        BY <2>10, <3>1
      <4>2. Len(posted') <= 1
        BY <3>1
      <4> QED BY <3>2, <3>3, <4>1, <4>2 DEF WritesInv
    <3>5. TapeInv'
      <4>1. Doomed' \/ Written' = [packet |-> op.packet, next |-> op.next + n]
        BY <1>11, <3>2, <3>3
      <4> QED BY <1>2, <1>10, <2>1, <2>2, <2>3, <2>10, <4>1, DeferredGrows
    <3> QED BY <1>9, <1>15, <3>4, <3>5
  <2> QED BY <1>12, <2>9, <2>10
<1> QED BY <1>14, <1>15 DEF FramingInv

-----------------------------------------------------------------------------
(* The theorems *)

\* An empty tape, on which the first packet is to begin.
LEMMA FramingInit == Init => FramingInv
<1> SUFFICES ASSUME Init PROVE FramingInv
  OBVIOUS
<1>1. /\ sender \in DOMAIN Kinds /\ sent = <<>> /\ alone = {} /\ queue = <<>> /\ posted = <<>>
      /\ stream = <<>> /\ buffer = <<>> /\ handled = <<>> /\ torn = FALSE
  BY DEF Init
<1>2. TypeInv
  <2>1. <<>> \in Seq(Packets(sender)) /\ <<>> \in Seq(Writes)
    BY EmptySeq
  <2>2. <<>> \in Seq(Cell) /\ <<>> \in Seq(Message)
    BY EmptySeq
  <2>3. alone \subseteq DOMAIN sent /\ torn \in BOOLEAN
    BY <1>1
  <2> QED BY <1>1, <2>1, <2>2, <2>3 DEF TypeInv
<1>3. WritesInv
  BY <1>1 DEF WritesInv, InLine
<1>4. IntactWhenAlone
  BY <1>1 DEF IntactWhenAlone
<1>5. TapeInv
  <2>1. PICK at : at = [j \in 1..1 |-> [packet |-> 1, next |-> 1]]
    OBVIOUS
  <2>2. at[1] = [packet |-> 1, next |-> 1] /\ at \in [1..1 -> Place]
    BY <2>1 DEF Place
  <2>3. InFlight = <<>> /\ Len(InFlight) = 0 /\ Len(handled) = 0 /\ Len(sent) = 0
    BY <1>1 DEF InFlight
  <2>4. Traces(InFlight, at)
    BY <2>2, <2>3 DEF Traces
  <2>5. Begun(at[1]) = Len(handled) /\ Lone(at[1])
    BY <1>1, <2>2, <2>3 DEF Begun, Lone
  <2>6. at[Len(InFlight) + 1] = Written
    BY <1>1, <2>2, <2>3 DEF Written
  <2> QED BY <2>4, <2>5, <2>6 DEF TapeInv
<1> QED BY <1>2, <1>3, <1>4, <1>5 DEF FramingInv

\* Every step of the sender, the socket and the receiver keeps the invariant.
LEMMA FramingNext == FramingInv /\ [Next]_vars => FramingInv'
<1> SUFFICES ASSUME FramingInv, [Next]_vars PROVE FramingInv'
  OBVIOUS
<1>1. CASE UNCHANGED vars
  BY <1>1 DEF vars, senderVars, FramingInv, TypeInv, Writes, Message, WritesInv, Doomed, InLine,
              TapeInv, Traces, InFlight, After, Begun, Lone, Written, IntactWhenAlone
<1> QED BY <1>1, SendNext, ResumeNext, QueuedNext, DeliverNext, ReadProperties DEF Next, Transport

\* Whatever is torn, what is in the socket and the buffer is cells, what waits to be written is
\* the rest of packets that were given, and what was handled has a kind and a value.
THEOREM TypeCorrect == Spec => []TypeInv
<1>1. FramingInv => TypeInv
  BY DEF FramingInv
<1> QED BY <1>1, FramingInit, FramingNext, PTL DEF Spec

\* session.cpp:52-106, client.cpp:87-142: a packet that is sent when nothing is on its way
\* arrives with its value, for every room of the socket and every cut of the reads, unless a
\* write is torn or its text has the separator.
THEOREM LonePacketsArrive == Spec => []IntactWhenAlone
<1>1. FramingInv => IntactWhenAlone
  BY DEF FramingInv, IntactWhenAlone
<1> QED BY <1>1, FramingInit, FramingNext, PTL DEF Spec

\* A read hands the next packets over, or none.
LEMMA ReadReceives ==
    ASSUME FramingInv, ProcessRead
    PROVE  Abstract!Receive \/ UNCHANGED <<sent, handled, torn>>
<1>1. /\ TypeInv /\ UNCHANGED <<sent, torn>> /\ handled' = handled \o Dispatched(buffer)
  BY DEF FramingInv, ProcessRead, senderVars
<1>2. /\ Len(handled) \in Nat /\ handled' \in Seq(Message)
      /\ Dispatched(buffer) \in Seq(Message)
      /\ \A i \in 1..Len(handled) : handled'[i] = handled[i]
      /\ Len(handled') = Len(handled) + Len(Dispatched(buffer))
  BY ReadProperties
<1>3. \A i \in (Len(handled) + 1)..Len(handled') :
        /\ i \in DOMAIN sent
        /\ handled'[i].packet = i /\ handled'[i].kind = sent[i].kind
        /\ handled'[i].value \in {sent[i].value, Default}
        /\ i < Len(handled') => handled'[i].value = sent[i].value \/ sent[i].bar
  BY ReadProperties
<1>4. handled \in Seq(Message) /\ sent \in Seq(Packets(sender))
  BY <1>1 DEF TypeInv
<1>5. Len(Dispatched(buffer)) \in Nat /\ Len(handled') \in Nat /\ Len(sent) \in Nat
  BY <1>2, <1>4
<1>6. CASE Len(Dispatched(buffer)) = 0
  <2>1. Dispatched(buffer) = <<>>
    BY <1>2, <1>6, HasElements
  <2> QED BY <1>1, <1>4, <2>1
<1>7. CASE Len(Dispatched(buffer)) > 0
  <2>1. Len(handled) < Len(handled') /\ Len(handled') \in (Len(handled) + 1)..Len(handled')
    BY <1>2, <1>5, <1>7
  <2>2. Len(handled') <= Len(sent)
    <3>1. Len(handled') \in DOMAIN sent
      BY <1>3, <2>1
    <3> QED BY <1>4, <3>1
  <2>3. SubSeq(handled', 1, Len(handled)) = handled
    <3>1. \A i \in 1..Len(handled) : handled'[i] \in Message
      BY <1>2, <1>4, ElementOfSeq
    <3>2. /\ SubSeq(handled', 1, Len(handled)) \in Seq(Message)
          /\ Len(SubSeq(handled', 1, Len(handled))) = Len(handled)
          /\ \A i \in 1..Len(handled) : SubSeq(handled', 1, Len(handled))[i] = handled'[i]
      <4>1. PICK h : h = handled'
        OBVIOUS
      <4>2. PICK m \in Nat : m = Len(handled)
        BY <1>2
      <4>3. \A i \in 1..m : h[i] \in Message
        BY <3>1, <4>1, <4>2
      <4>4. /\ SubSeq(h, 1, m) \in Seq(Message)
            /\ Len(SubSeq(h, 1, m)) = IF 1 <= m THEN m - 1 + 1 ELSE 0
            /\ \A i \in 1..(m - 1 + 1) : SubSeq(h, 1, m)[i] = h[1 + i - 1]
        BY <4>3, SubSeqProperties
      <4>5. m - 1 + 1 = m /\ (~ (1 <= m) => m = 0) /\ \A i \in 1..m : 1 + i - 1 = i
        OBVIOUS
      <4> QED BY <4>1, <4>2, <4>4, <4>5
    <3> QED BY <1>2, <1>4, <3>2, SeqEqual
  <2>4. ASSUME NEW i \in (Len(handled) + 1)..Len(handled')
        PROVE  /\ handled'[i].packet = i /\ handled'[i].kind = sent[i].kind
               /\ \/ handled'[i].value = sent[i].value
                  \/ handled'[i].value = 0 /\ (i = Len(handled') \/ sent[i].bar)
    <3>1. i = Len(handled') \/ i < Len(handled')
      BY <1>2, <1>5
    <3> QED BY <1>3, <3>1 DEF Default
  <2> QED BY <1>1, <2>1, <2>2, <2>3, <2>4 DEF Abstract!Receive, Abstract!Intact, Abstract!Damaged
<1> QED BY <1>5, <1>6, <1>7

\* However the stream is cut (session.cpp:75, client.cpp:100), until a write is torn packets
\* arrive in order, each once, and only the last of a read, or one with the separator in its
\* text, may be damaged: what is read implements the abstract channel.
THEOREM StreamIsChannel == Spec => ImplementsChannel
<1>1. Init => Abstract!Init
  BY DEF Init, Abstract!Init
<1>2. FramingInv /\ [Next]_vars => [Abstract!Next]_(Abstract!vars)
  <2> SUFFICES ASSUME FramingInv, [Next]_vars
               PROVE  Abstract!Next \/ UNCHANGED <<sent, handled, torn>>
    BY DEF Abstract!vars
  <2>1. ASSUME NEW p \in Packets(sender), SendPacket(p)
        PROVE  Abstract!Next
    <3>1. /\ sent' = Append(sent, p) /\ handled' = handled /\ sent \in Seq(Packets(sender)) /\ ~torn
          /\ torn' \in BOOLEAN
      BY <2>1, SendNext DEF SendPacket, FramingInv, TypeInv
    <3>2. sent' = Append(sent, sent'[Len(sent')])
      BY <3>1, AppendProperties
    <3>3. CASE torn'
      BY <3>3 DEF Abstract!Next, Abstract!Tear
    <3>4. CASE ~torn'
      <4>1. torn' = torn
        BY <3>1, <3>4 DEF FramingInv, TypeInv
      <4>2. \E p_1 \in {sent'[Len(sent')]} : sent' = Append(sent, p_1)
        BY <3>2
      <4>3. UNCHANGED <<handled, torn>>
        BY <3>1, <4>1
      <4>4. Abstract!Send
        BY <4>2, <4>3 DEF Abstract!Send
      <4> QED BY <4>4 DEF Abstract!Next
    <3> QED BY <3>3, <3>4
  <2>2. ASSUME Resume
        PROVE  Abstract!Next \/ UNCHANGED <<sent, handled, torn>>
    BY <2>2, ResumeNext DEF Resume, senderVars, FramingInv, TypeInv, Abstract!Next, Abstract!Tear
  <2>3. ASSUME WriteQueued
        PROVE  Abstract!Next \/ UNCHANGED <<sent, handled, torn>>
    BY <2>3, QueuedNext DEF WriteQueued, senderVars, FramingInv, TypeInv, Abstract!Next, Abstract!Tear
  <2>4. ASSUME NEW n \in 1..Room, Deliver(n)
        PROVE  UNCHANGED <<sent, handled, torn>>
    BY <2>4 DEF Deliver, senderVars
  <2>5. ASSUME ProcessRead
        PROVE  Abstract!Next \/ UNCHANGED <<sent, handled, torn>>
    BY <2>5, ReadReceives DEF Abstract!Next
  <2>6. CASE UNCHANGED vars
    BY <2>6 DEF vars, senderVars
  <2> QED BY <2>1, <2>2, <2>3, <2>4, <2>5, <2>6 DEF Next, Transport
<1> QED BY <1>1, <1>2, FramingInit, FramingNext, PTL DEF Spec, ImplementsChannel, Abstract!Spec
=============================================================================
