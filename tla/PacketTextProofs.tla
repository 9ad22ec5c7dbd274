-------------------------- MODULE PacketTextProofs --------------------------
(***************************************************************************)
(* Theorems about PacketText, for all strings of all lengths, all integers *)
(* of every width, and every cut of the text.                              *)
(*                                                                         *)
(* The invariant says at each position of the lexer which turn of the      *)
(* encoder has written what comes next there, and what of the packet the   *)
(* lexer and the parser have already rebuilt.  Each turn of scan_string    *)
(* undoes one turn of dump_escaped, or the turns for all bytes of one      *)
(* character, and never stops between the bytes of a character or of an    *)
(* escape; scan_number runs to the end of what dump_integer wrote.         *)
(***************************************************************************)
EXTENDS PacketText, SequenceTheorems, WellFoundedInduction, TLAPS

-----------------------------------------------------------------------------
(* Recursive functions *)

\* What is true of 0, and of n + 1 when it is of n, is true of every natural number.
LEMMA SetInduction ==
    ASSUME NEW S \in SUBSET Nat, 0 \in S, \A n \in Nat : n \in S => n + 1 \in S
    PROVE  S = Nat
<1>1. OpToRel(<, Nat) = {ss \in Nat \X Nat : ss[1] < ss[2]}
  BY DEF OpToRel
<1>2. SUFFICES ASSUME Nat \ S # {} PROVE FALSE
  OBVIOUS
<1>3. PICK x \in Nat \ S : \A y \in Nat \ S : ~ (<<y, x>> \in OpToRel(<, Nat))
  BY <1>2, NatLessThanWellFounded, WFMin
<1>4. x - 1 \in Nat /\ x - 1 < x /\ (x - 1) + 1 = x
  <2>1. x \in Nat /\ x # 0
    BY <1>3
  <2> QED BY <2>1
<1>5. x - 1 \in S
  <2>1. <<x - 1, x>> \notin {ss \in Nat \X Nat : ss[1] < ss[2]} \/ x - 1 \in S
    BY <1>1, <1>3, <1>4
  <2> QED BY <1>3, <1>4, <2>1
<1> QED BY <1>3, <1>4, <1>5

\* f starts with a, and every value of it comes from the one before it.
Unfolds(f, n, a, step) ==
    /\ f[0] = a
    /\ \A k \in 1..n : f[k] = step[k][f[k - 1]]

\* A recursive definition has a solution.
LEMMA UnfoldingExists ==
    ASSUME NEW S, NEW n \in Nat, NEW a \in S, NEW step \in [1..n -> [S -> S]]
    PROVE  \E f \in [0..n -> S] : Unfolds(f, n, a, step)
<1> DEFINE Has(m) == \E f \in [0..m -> S] : Unfolds(f, m, a, step)
           T == {m \in Nat : m <= n => Has(m)}
<1>1. 0 \in T
  <2> DEFINE f == [k \in 0..0 |-> a]
  <2>1. f \in [0..0 -> S] /\ Unfolds(f, 0, a, step)
    BY DEF Unfolds
  <2> QED BY <2>1
<1>2. ASSUME NEW m \in Nat, m \in T, m + 1 <= n
      PROVE  Has(m + 1)
  <2>1. m <= n /\ m + 1 \in 1..n
    BY <1>2
  <2>2. PICK f \in [0..m -> S] : Unfolds(f, m, a, step)
    BY <1>2, <2>1
  <2> DEFINE g == [k \in 0..(m + 1) |-> IF k = m + 1 THEN step[m + 1][f[m]] ELSE f[k]]
  <2>3. f[m] \in S /\ step[m + 1] \in [S -> S]
    BY <2>1
  <2>4. step[m + 1][f[m]] \in S
    BY <2>3
  <2>5. g \in [0..(m + 1) -> S]
    BY <2>4
  <2>6. g[0] = a
    BY <2>2 DEF Unfolds
  <2>7. ASSUME NEW k \in 1..(m + 1)
        PROVE  g[k] = step[k][g[k - 1]]
    <3>1. g[k - 1] = f[k - 1]
      OBVIOUS
    <3>2. CASE k = m + 1
      BY <3>1, <3>2
    <3>3. CASE k \in 1..m
      BY <2>2, <3>1, <3>3 DEF Unfolds
    <3> QED BY <3>2, <3>3
  <2>8. Unfolds(g, m + 1, a, step)
    BY <2>6, <2>7 DEF Unfolds
  <2> QED BY <2>5, <2>8
<1>3. T = Nat
  <2> HIDE DEF Has
  <2>1. \A m \in Nat : m \in T => m + 1 \in T
    BY <1>2
  <2>2. T \in SUBSET Nat
    OBVIOUS
  <2> HIDE DEF T
  <2> QED BY <1>1, <2>1, <2>2, SetInduction
<1> QED BY <1>3

-----------------------------------------------------------------------------
(* Where things are in a text *)

\* The first n of the parts are in t one behind the other, part i from at[i] on.
Follow(t, parts, at, n) ==
    /\ at \in [1..(n + 1) -> Nat \ {0}]
    /\ at[1] = 1
    /\ \A i \in 1..n :
        /\ at[i + 1] = at[i] + Len(parts[i])
        /\ \A h \in 1..Len(parts[i]) : t[at[i] + (h - 1)] = parts[i][h]
    /\ \A i \in 1..(n + 1) : at[i] <= at[n + 1]
    /\ at[n + 1] = Len(t) + 1

\* One part more.
LEMMA FollowAppend ==
    ASSUME NEW C, NEW t \in Seq(C), NEW parts, NEW n \in Nat, NEW at, Follow(t, parts, at, n),
           parts[n + 1] \in Seq(C)
    PROVE  \E to : Follow(t \o parts[n + 1], parts, to, n + 1)
<1>1. PICK p \in Seq(C) : p = parts[n + 1]
  OBVIOUS
<1> DEFINE u == t \o p
           to == [i \in 1..(n + 2) |-> IF i = n + 2 THEN at[n + 1] + Len(p) ELSE at[i]]
<1>2. /\ Len(p) \in Nat /\ Len(t) \in Nat /\ u \in Seq(C) /\ Len(u) = Len(t) + Len(p)
      /\ \A i \in 1..Len(t) : u[i] = t[i]
      /\ \A i \in 1..Len(p) : u[Len(t) + i] = p[i]
  OBVIOUS
<1>3. /\ at \in [1..(n + 1) -> Nat \ {0}]
      /\ at[1] = 1
      /\ \A i \in 1..(n + 1) : at[i] <= at[n + 1]
      /\ at[n + 1] = Len(t) + 1
  BY DEF Follow
<1>4. \A i \in 1..n :
        /\ at[i + 1] = at[i] + Len(parts[i])
        /\ \A h \in 1..Len(parts[i]) : t[at[i] + (h - 1)] = parts[i][h]
  BY DEF Follow
<1> HIDE DEF u
<1>5. at[n + 1] \in Nat \ {0} /\ at[n + 1] + Len(p) \in Nat \ {0} /\ n + 1 # n + 2
  BY <1>2, <1>3
<1>6. to \in [1..(n + 2) -> Nat \ {0}]
  BY <1>3, <1>5
<1>7. to[1] = 1 /\ to[n + 2] = at[n + 1] + Len(p) /\ \A i \in 1..(n + 1) : to[i] = at[i]
  <2>1. 1 \in 1..(n + 1) /\ n + 2 \in 1..(n + 2)
    OBVIOUS
  <2> QED BY <1>3, <2>1
<1>8. to[n + 2] = Len(u) + 1
  BY <1>2, <1>3, <1>7
<1>9. \A i \in 1..(n + 2) : to[i] <= to[n + 2]
  <2>1. ASSUME NEW i \in 1..(n + 2), i # n + 2
        PROVE  at[i] <= at[n + 1] + Len(p)
    <3>1. i \in 1..(n + 1)
      BY <2>1
    <3>2. at[i] \in Nat /\ at[i] <= at[n + 1]
      BY <1>3, <3>1
    <3> QED BY <1>2, <1>5, <3>2
  <2>2. at[n + 1] + Len(p) <= at[n + 1] + Len(p)
    BY <1>5
  <2> QED BY <1>7, <2>1, <2>2
<1>10. ASSUME NEW i \in 1..(n + 1)
       PROVE  /\ to[i + 1] = to[i] + Len(parts[i])
              /\ \A h \in 1..Len(parts[i]) : u[to[i] + (h - 1)] = parts[i][h]
  <2>1. to[i] = at[i] /\ at[i] \in Nat \ {0}
    BY <1>3, <1>7
  <2>2. CASE i = n + 1
    <3>1. to[i + 1] = to[i] + Len(parts[i])
      BY <1>1, <2>1, <2>2
    <3>2. ASSUME NEW h \in 1..Len(p)
          PROVE  u[to[i] + (h - 1)] = p[h]
      <4>1. to[i] + (h - 1) = Len(t) + h
        BY <1>2, <1>3, <2>1, <2>2
      <4> QED BY <1>2, <4>1
    <3> QED BY <1>1, <2>2, <3>1, <3>2
  <2>3. CASE i \in 1..n
    <3>1. to[i + 1] = to[i] + Len(parts[i])
      BY <1>4, <2>1, <2>3
    <3>2. ASSUME NEW h \in 1..Len(parts[i])
          PROVE  u[to[i] + (h - 1)] = parts[i][h]
      <4>1. at[i + 1] = at[i] + Len(parts[i]) /\ at[i + 1] <= Len(t) + 1
        <5>1. i + 1 \in 1..(n + 1)
          BY <2>3
        <5> QED BY <1>3, <1>4, <2>3, <5>1
      <4>2. at[i] + (h - 1) \in 1..Len(t)
        <5>1. at[i + 1] \in Nat /\ Len(parts[i]) \in Int
          <6>1. at[i + 1] \in Nat
            BY <1>3, <2>3
          <6>2. CASE Len(parts[i]) \in Int
            BY <6>1, <6>2
          <6>3. CASE Len(parts[i]) \notin Int
            BY <6>3, <3>2
          <6> QED BY <6>2, <6>3
        <5>2. PICK l \in Int : l = Len(parts[i])
          BY <5>1
        <5>3. PICK w \in Nat : w = Len(t)
          BY <1>2
        <5>4. PICK a \in Nat \ {0} : a = at[i]
          BY <2>1
        <5>5. a + l <= w + 1
          BY <4>1, <5>2, <5>3, <5>4
        <5>6. h \in Int /\ 1 <= h /\ h <= l
          BY <5>2
        <5>7. a + (h - 1) \in 1..w
          BY <5>5, <5>6
        <5> QED BY <5>3, <5>4, <5>7
      <4>3. t[at[i] + (h - 1)] = parts[i][h]
        BY <1>4, <2>3
      <4> QED BY <1>2, <2>1, <4>2, <4>3
    <3> QED BY <3>1, <3>2
  <2> QED BY <2>2, <2>3, SMTT(30)
<1>11. Follow(u, parts, to, n + 1)
  <2>1. (n + 1) + 1 = n + 2
    OBVIOUS
  <2> HIDE DEF to
  <2> QED BY <1>6, <1>7, <1>8, <1>9, <1>10, <2>1 DEF Follow
<1> QED BY <1>1, <1>11 DEF u

IsFlat(g, parts) ==
    g = [i \in 1..Len(parts) |-> IF i = 1 THEN parts[i] ELSE g[i - 1] \o parts[i]]

LEMMA FlatExists ==
    ASSUME NEW C, NEW parts \in Seq(Seq(C)), Len(parts) # 0
    PROVE  \E g : IsFlat(g, parts)
<1> DEFINE n == Len(parts)
           S == Seq(C)
           step == [k \in 1..n |-> [r \in S |-> IF k = 1 THEN parts[k] ELSE r \o parts[k]]]
<1>1. n \in Nat \ {0} /\ \A k \in 1..n : parts[k] \in S
  OBVIOUS
<1>2. <<>> \in S
  OBVIOUS
<1> HIDE DEF n
<1>3. step \in [1..n -> [S -> S]]
  <2>1. \A k \in 1..n : \A r \in S : (IF k = 1 THEN parts[k] ELSE r \o parts[k]) \in S
    BY <1>1
  <2> HIDE DEF S
  <2> QED BY <2>1
<1>4. \A k \in 1..n : \A r \in S : step[k][r] = IF k = 1 THEN parts[k] ELSE r \o parts[k]
  OBVIOUS
<1> HIDE DEF S, step
<1>5. PICK f \in [0..n -> S] : Unfolds(f, n, <<>>, step)
  BY <1>1, <1>2, <1>3, UnfoldingExists
<1> DEFINE g == [i \in 1..n |-> f[i]]
<1>6. \A i \in 1..n : f[i] = IF i = 1 THEN parts[i] ELSE f[i - 1] \o parts[i]
  <2>1. ASSUME NEW i \in 1..n
        PROVE  f[i] = IF i = 1 THEN parts[i] ELSE f[i - 1] \o parts[i]
    <3>1. f[i] = step[i][f[i - 1]] /\ f[i - 1] \in S
      BY <1>1, <1>5 DEF Unfolds
    <3> QED BY <1>4, <3>1
  <2> QED BY <2>1
<1>7. \A i \in 1..n : g[i] = IF i = 1 THEN parts[i] ELSE g[i - 1] \o parts[i]
  BY <1>1, <1>6
<1>8. g = [i \in 1..n |-> g[i]]
  OBVIOUS
<1> HIDE DEF g
<1>9. g = [i \in 1..n |-> IF i = 1 THEN parts[i] ELSE g[i - 1] \o parts[i]]
  BY <1>7, <1>8
<1> QED BY <1>9 DEF IsFlat, n

\* FlattenSeq lays its parts one behind the other.
LEMMA Flattened ==
    ASSUME NEW C, NEW parts \in Seq(Seq(C))
    PROVE  /\ FlattenSeq(parts) \in Seq(C)
           /\ \E at : Follow(FlattenSeq(parts), parts, at, Len(parts))
<1> DEFINE n == Len(parts)
<1>1. n \in Nat /\ \A k \in 1..n : parts[k] \in Seq(C)
  OBVIOUS
<1>2. CASE n = 0
  <2>1. parts = <<>> /\ FlattenSeq(parts) = <<>>
    BY <1>2 DEF FlattenSeq
  <2> DEFINE at == [i \in 1..(0 + 1) |-> 1]
  <2>2. Follow(<<>>, <<>>, at, 0)
    <3>1. at \in [1..(0 + 1) -> Nat \ {0}] /\ at[1] = 1 /\ at[0 + 1] = Len(<<>>) + 1
      OBVIOUS
    <3>2. \A i \in 1..(0 + 1) : at[i] <= at[0 + 1]
      OBVIOUS
    <3> HIDE DEF at
    <3> QED BY <3>1, <3>2 DEF Follow
  <2> HIDE DEF at
  <2>3. Len(<<>>) = 0 /\ <<>> \in Seq(C)
    OBVIOUS
  <2> QED BY <2>1, <2>2, <2>3
<1>3. CASE n # 0
  <2> DEFINE g == CHOOSE f : IsFlat(f, parts)
  <2>1. IsFlat(g, parts)
    BY <1>3, FlatExists
  <2>2. FlattenSeq(parts) = g[n]
    BY <1>3 DEF FlattenSeq, IsFlat
  <2> HIDE DEF g
  <2>3. \A i \in 1..n : g[i] = IF i = 1 THEN parts[i] ELSE g[i - 1] \o parts[i]
    BY <2>1 DEF IsFlat
  <2> HIDE DEF n
  <2> DEFINE Fine(k) == g[k] \in Seq(C) /\ \E at : Follow(g[k], parts, at, k)
             T == {k \in Nat : k + 1 <= n => Fine(k + 1)}
  <2>4. 0 \in T
    <3>1. g[1] = parts[1] /\ parts[1] \in Seq(C) /\ 1 \in 1..n
      BY <1>1, <1>3, <2>3
    <3> DEFINE at == [i \in 1..(0 + 1) |-> 1]
    <3>2. Follow(<<>>, parts, at, 0)
      <4>1. at \in [1..(0 + 1) -> Nat \ {0}] /\ at[1] = 1 /\ at[0 + 1] = Len(<<>>) + 1
        OBVIOUS
      <4>2. \A i \in 1..(0 + 1) : at[i] <= at[0 + 1]
        OBVIOUS
      <4> HIDE DEF at
      <4> QED BY <4>1, <4>2 DEF Follow
    <3> HIDE DEF at
    <3>3. 0 + 1 = 1 /\ <<>> \in Seq(C) /\ <<>> \o parts[1] = parts[1]
      BY <3>1
    <3>4. \E to : Follow(<<>> \o parts[0 + 1], parts, to, 0 + 1)
      BY <3>1, <3>2, <3>3, FollowAppend
    <3>5. Fine(1)
      BY <3>1, <3>3, <3>4
    <3> HIDE DEF Fine
    <3> QED BY <3>3, <3>5
  <2>5. ASSUME NEW k \in Nat, k \in T, (k + 1) + 1 <= n
        PROVE  Fine((k + 1) + 1)
    <3>1. Fine(k + 1) /\ (k + 1) + 1 \in 1..n /\ (k + 1) + 1 # 1 /\ ((k + 1) + 1) - 1 = k + 1
      <4> HIDE DEF Fine
      <4> QED BY <1>1, <2>5
    <3>2. g[(k + 1) + 1] = g[k + 1] \o parts[(k + 1) + 1] /\ parts[(k + 1) + 1] \in Seq(C)
      BY <1>1, <2>3, <3>1
    <3>3. PICK at : Follow(g[k + 1], parts, at, k + 1)
      BY <3>1
    <3>4. g[k + 1] \in Seq(C) /\ k + 1 \in Nat
      BY <3>1
    <3>5. \E to : Follow(g[k + 1] \o parts[(k + 1) + 1], parts, to, (k + 1) + 1)
      BY <3>2, <3>3, <3>4, FollowAppend
    <3>6. g[k + 1] \o parts[(k + 1) + 1] \in Seq(C)
      BY <3>2, <3>4
    <3> QED BY <3>2, <3>5, <3>6
  <2>6. T = Nat
    <3> HIDE DEF Fine
    <3>1. \A k \in Nat : k \in T => k + 1 \in T
      BY <2>5
    <3>2. T \in SUBSET Nat
      OBVIOUS
    <3> HIDE DEF T
    <3> QED BY <2>4, <3>1, <3>2, SetInduction
  <2>7. Fine(n)
    <3>1. PICK k \in Nat : k + 1 = n
      <4>1. n - 1 \in Nat /\ (n - 1) + 1 = n
        BY <1>1, <1>3
      <4> QED BY <4>1
    <3>2. k \in T
      BY <2>6
    <3> HIDE DEF Fine
    <3> QED BY <1>1, <3>1, <3>2
  <2> QED BY <2>2, <2>7 DEF n
<1> QED BY <1>2, <1>3

-----------------------------------------------------------------------------
(* Escapes *)

Bytes == High \cup Controls \cup Printable

\* What a text is made of.
Glyphs == Bytes \cup Range(Digits) \cup {"[", "]", ",", "-", Quote, "\\", "n", "u", "f"}

LEMMA QuoteDiffers ==
    /\ Quote \notin High \cup DOMAIN Code \cup {"0A", "eof", "02", "\\", "n", "u", "f", "[", "]", ",", "-"}
    /\ Quote \notin {"0", "1", "2", "3", "4", "5", "6", "7", "8", "9", "80", "90", "A0"}
    /\ Quote \notin {"C2", "E0", "E1", "ED", "F0", "F1", "F4"}
BY Zenon DEF Quote, High, Code, Id

LEMMA CodeValues ==
    /\ DOMAIN Code = {"00", "1F", "02"}
    /\ Code["00"] = <<"0", "0", "0", "0">>
    /\ Code["1F"] = <<"0", "0", "1", "f">>
    /\ Code["02"] = <<"0", "0", "0", "2">>
BY DEF Code, Id

LEMMA ShortValues ==
    /\ DOMAIN Short = {Quote, "\\", "0A"}
    /\ Short[Quote] = Quote /\ Short["\\"] = "\\" /\ Short["0A"] = "n"
BY QuoteDiffers DEF Short

LEMMA DigitValues ==
    /\ Range(Digits) = {"0", "1", "2", "3", "4", "5", "6", "7", "8", "9"}
    /\ Digits \in Seq(Range(Digits)) /\ Len(Digits) = 10
<1>1. Len(Digits) = 10 /\ DOMAIN Digits = 1..10
  BY DEF Digits
<1>2. Range(Digits) = {Digits[i] : i \in 1..10}
  BY <1>1 DEF Range
<1>3. \A i \in 1..10 : Digits[i] \in {"0", "1", "2", "3", "4", "5", "6", "7", "8", "9"}
  BY DEF Digits
<1>4. /\ Digits[1] = "0" /\ Digits[2] = "1" /\ Digits[3] = "2" /\ Digits[4] = "3"
      /\ Digits[5] = "4" /\ Digits[6] = "5" /\ Digits[7] = "6" /\ Digits[8] = "7"
      /\ Digits[9] = "8" /\ Digits[10] = "9"
  BY DEF Digits
<1>5. Range(Digits) = {"0", "1", "2", "3", "4", "5", "6", "7", "8", "9"}
  BY <1>2, <1>3, <1>4
<1>6. Digits \in Seq(Range(Digits))
  BY <1>1, <1>2 DEF Digits
<1> QED BY <1>1, <1>5, <1>6

LEMMA CodesDiffer ==
    ASSUME NEW b \in DOMAIN Code, NEW c \in DOMAIN Code, \A k \in 1..4 : Code[b][k] = Code[c][k]
    PROVE  b = c
<1>1. Code[b][3] = Code[c][3] /\ Code[b][4] = Code[c][4]
  OBVIOUS
<1>2. /\ Code["00"][3] = "0" /\ Code["00"][4] = "0"
      /\ Code["1F"][3] = "1" /\ Code["1F"][4] = "f"
      /\ Code["02"][3] = "0" /\ Code["02"][4] = "2"
  BY CodeValues
<1>3. b \in {"00", "1F", "02"} /\ c \in {"00", "1F", "02"}
  BY CodeValues
<1> QED BY <1>1, <1>2, <1>3

LEMMA CodesTyped ==
    ASSUME NEW b \in DOMAIN Code
    PROVE  /\ Code[b] \in Seq(Glyphs) /\ Len(Code[b]) = 4
           /\ \A k \in 1..4 : Code[b][k] \in {"0", "1", "2", "f"}
<1>1. {"0", "1", "2", "f"} \in SUBSET Glyphs
  BY DigitValues DEF Glyphs
<1>2. CASE b = "00"
  BY <1>1, <1>2, CodeValues
<1>3. CASE b = "1F"
  BY <1>1, <1>3, CodeValues
<1>4. CASE b = "02"
  BY <1>1, <1>4, CodeValues
<1> QED BY <1>2, <1>3, <1>4, CodeValues

LEMMA HighValues == High \cap (Controls \cup {Eof, Id, Quote, "\\", "u"}) = {}
BY CodeValues, QuoteDiffers DEF High, Controls, Eof, Id

LEMMA OneByte ==
    ASSUME NEW b \in Bytes, b \notin DOMAIN Short, b \notin DOMAIN Code
    PROVE  b \notin Controls \cup {Eof, Id, Quote, "\\"}
<1>1. b \notin Controls
  BY ShortValues DEF Controls
<1>2. b \in High \/ b \in Printable
  BY <1>1 DEF Bytes
<1>3. b # Eof
  BY <1>2, HighValues, MessagesAssumption
<1> QED BY <1>1, <1>3, ShortValues, CodeValues DEF Id

\* The three forms of an escape.
LEMMA EscapeShort ==
    ASSUME NEW b \in DOMAIN Short
    PROVE  /\ Len(Escape(b)) = 2 /\ Escape(b)[1] = "\\" /\ Escape(b)[2] = Short[b]
           /\ Escape(b) \in Seq(Glyphs)
<1>1. Escape(b) = <<"\\", Short[b]>>
  BY DEF Escape
<1>2. Short[b] \in Glyphs /\ "\\" \in Glyphs
  BY ShortValues DEF Glyphs
<1> QED BY <1>1, <1>2

LEMMA EscapeCode ==
    ASSUME NEW b \in DOMAIN Code
    PROVE  /\ Len(Escape(b)) = 6 /\ Escape(b)[1] = "\\" /\ Escape(b)[2] = "u"
           /\ \A k \in 1..4 : Escape(b)[k + 2] = Code[b][k]
           /\ Escape(b) \in Seq(Glyphs)
<1>1. b \notin DOMAIN Short
  BY CodeValues, ShortValues, QuoteDiffers
<1>2. Escape(b) = <<"\\", "u">> \o Code[b]
  BY <1>1 DEF Escape
<1>3. <<"\\", "u">> \in Seq(Glyphs)
  BY DEF Glyphs
<1>4. PICK c \in Seq(Glyphs) : c = Code[b] /\ Len(c) = 4
  BY CodesTyped
<1>5. PICK d \in Seq(Glyphs) : d = <<"\\", "u">> /\ Len(d) = 2 /\ d[1] = "\\" /\ d[2] = "u"
  BY <1>3
<1>6. /\ d \o c \in Seq(Glyphs) /\ Len(d \o c) = 6
      /\ (d \o c)[1] = d[1] /\ (d \o c)[2] = d[2]
      /\ \A k \in 1..4 : (d \o c)[k + 2] = c[k]
  <2>1. /\ d \o c \in Seq(Glyphs) /\ Len(d \o c) = Len(d) + Len(c)
        /\ \A i \in 1..(Len(d) + Len(c)) :
            (d \o c)[i] = IF i <= Len(d) THEN d[i] ELSE c[i - Len(d)]
    BY ConcatProperties
  <2>2. Len(c) = 4 /\ Len(d) = 2
    BY <1>4, <1>5
  <2>3. ASSUME NEW k \in 1..4
        PROVE  (d \o c)[k + 2] = c[k]
    <3>1. k + 2 \in 1..6 /\ ~(k + 2 <= 2) /\ (k + 2) - 2 = k
      OBVIOUS
    <3> QED BY <2>1, <2>2, <3>1
  <2>4. 1 \in 1..6 /\ 2 \in 1..6 /\ 1 <= 2 /\ 2 <= 2 /\ 2 + 4 = 6
    OBVIOUS
  <2> QED BY <2>1, <2>2, <2>3, <2>4
<1>7. Escape(b) = d \o c
  BY <1>2, <1>4, <1>5
<1>8. /\ Len(Escape(b)) = 6 /\ Escape(b)[1] = "\\" /\ Escape(b)[2] = "u"
      /\ \A k \in 1..4 : Escape(b)[k + 2] = c[k]
      /\ Escape(b) \in Seq(Glyphs)
  BY <1>5, <1>6, <1>7
<1> QED BY <1>4, <1>8

LEMMA EscapeNone ==
    ASSUME NEW b \in Bytes, b \notin DOMAIN Short, b \notin DOMAIN Code
    PROVE  Len(Escape(b)) = 1 /\ Escape(b)[1] = b /\ Escape(b) \in Seq(Glyphs)
<1>1. Escape(b) = <<b>>
  BY DEF Escape
<1>2. b \in Glyphs
  BY DEF Glyphs
<1> QED BY <1>1, <1>2

\* Where the characters of a string are in its dump.
Escapes(s) == [i \in DOMAIN s |-> Escape(s[i])]
Turns(s) == CHOOSE at : Follow(DumpEscaped(s), Escapes(s), at, Len(s))

LEMMA TurnsFollow ==
    ASSUME NEW s \in Seq(Bytes)
    PROVE  /\ DumpEscaped(s) \in Seq(Glyphs)
           /\ Follow(DumpEscaped(s), Escapes(s), Turns(s), Len(s))
<1>1. \A b \in Bytes : Escape(b) \in Seq(Glyphs)
  BY EscapeShort, EscapeCode, EscapeNone
<1>2. DOMAIN s = 1..Len(s) /\ Len(s) \in Nat /\ \A i \in 1..Len(s) : s[i] \in Bytes
  OBVIOUS
<1>3. \A i \in 1..Len(s) : Escape(s[i]) \in Seq(Glyphs)
  BY <1>1, <1>2
<1>4. Escapes(s) \in [1..Len(s) -> Seq(Glyphs)]
  BY <1>2, <1>3 DEF Escapes
<1>5. Escapes(s) \in Seq(Seq(Glyphs)) /\ Len(Escapes(s)) = Len(s)
  BY <1>2, <1>4
<1>6. DumpEscaped(s) = FlattenSeq(Escapes(s))
  BY DEF DumpEscaped, Escapes
<1>7. DumpEscaped(s) \in Seq(Glyphs) /\ \E at : Follow(DumpEscaped(s), Escapes(s), at, Len(s))
  BY <1>5, <1>6, Flattened
<1> QED BY <1>7 DEF Turns

\* Turn i is the escape of character i, and turn i + 1 the one behind it.
LEMMA TurnAt ==
    ASSUME NEW s \in Seq(Bytes), NEW i \in 1..Len(s)
    PROVE  /\ i + 1 \in 1..(Len(s) + 1)
           /\ Turns(s)[i] \in Nat \ {0} /\ Turns(s)[i + 1] \in Nat \ {0}
           /\ Turns(s)[i + 1] = Turns(s)[i] + Len(Escape(s[i]))
           /\ \A h \in 1..Len(Escape(s[i])) :
                DumpEscaped(s)[Turns(s)[i] + (h - 1)] = Escape(s[i])[h]
           /\ Turns(s)[i + 1] <= Len(DumpEscaped(s)) + 1
<1>1. Follow(DumpEscaped(s), Escapes(s), Turns(s), Len(s))
  BY TurnsFollow
<1>2. Escapes(s)[i] = Escape(s[i]) /\ Len(s) \in Nat
  BY DEF Escapes
<1>3. i \in 1..(Len(s) + 1) /\ i + 1 \in 1..(Len(s) + 1)
  BY <1>2
<1>4. Turns(s) \in [1..(Len(s) + 1) -> Nat \ {0}]
  BY <1>1 DEF Follow
<1>5. Turns(s)[i + 1] <= Len(DumpEscaped(s)) + 1
  BY <1>1, <1>3 DEF Follow
<1>6. /\ Turns(s)[i + 1] = Turns(s)[i] + Len(Escapes(s)[i])
      /\ \A h \in 1..Len(Escapes(s)[i]) :
            DumpEscaped(s)[Turns(s)[i] + (h - 1)] = Escapes(s)[i][h]
  BY <1>1 DEF Follow
<1> QED BY <1>2, <1>3, <1>4, <1>5, <1>6

LEMMA TurnEnds ==
    ASSUME NEW s \in Seq(Bytes)
    PROVE  /\ Turns(s)[1] = 1
           /\ Turns(s)[Len(s) + 1] = Len(DumpEscaped(s)) + 1
           /\ Len(DumpEscaped(s)) \in Nat /\ Len(s) \in Nat
           /\ \A i \in 1..(Len(s) + 1) :
                Turns(s)[i] \in Nat \ {0} /\ Turns(s)[i] <= Len(DumpEscaped(s)) + 1
<1>1. Follow(DumpEscaped(s), Escapes(s), Turns(s), Len(s))
  BY TurnsFollow
<1>2. Len(DumpEscaped(s)) \in Nat
  BY TurnsFollow
<1> QED BY <1>1, <1>2, SMTT(30) DEF Follow

-----------------------------------------------------------------------------
(* UTF-8 *)

LEMMA TypeOfValues ==
    /\ DOMAIN TypeOf = High
    /\ TypeOf["80"] = 1 /\ TypeOf["90"] = 9 /\ TypeOf["A0"] = 7 /\ TypeOf["C0"] = 8
    /\ TypeOf["C2"] = 2 /\ TypeOf["E0"] = 10 /\ TypeOf["E1"] = 3 /\ TypeOf["ED"] = 4
    /\ TypeOf["F0"] = 11 /\ TypeOf["F1"] = 6 /\ TypeOf["F4"] = 5
BY DEF TypeOf, High

LEMMA FirstValues ==
    /\ DOMAIN First = {2, 3, 4, 5, 6, 10, 11}
    /\ First[2] = 2 /\ First[3] = 3 /\ First[4] = 5 /\ First[5] = 8
    /\ First[6] = 7 /\ First[10] = 4 /\ First[11] = 6
BY DEF First

LEMMA FurtherValues ==
    /\ DOMAIN Further = 2..8
    /\ Further[2] = <<{1, 7, 9}, 0>> /\ Further[3] = <<{1, 7, 9}, 2>>
    /\ Further[4] = <<{7}, 2>> /\ Further[5] = <<{1, 9}, 2>>
    /\ Further[6] = <<{7, 9}, 3>> /\ Further[7] = <<{1, 7, 9}, 3>> /\ Further[8] = <<{1}, 3>>
BY DEF Further, UTF8_ACCEPT

LEMMA TailsValues ==
    /\ DOMAIN Tails = {"C2", "E0", "E1", "ED", "F0", "F1", "F4"}
    /\ Tails["C2"] = <<Tail3>>
    /\ Tails["E0"] = <<{"A0"}, Tail3>>
    /\ Tails["E1"] = <<Tail3, Tail3>>
    /\ Tails["ED"] = <<{"80", "90"}, Tail3>>
    /\ Tails["F0"] = <<{"90", "A0"}, Tail3, Tail3>>
    /\ Tails["F1"] = <<Tail3, Tail3, Tail3>>
    /\ Tails["F4"] = <<{"80"}, Tail3, Tail3>>
<1>1. DOMAIN Tails = {"C2", "E0", "E1", "ED", "F0", "F1", "F4"}
  BY DEF Tails, High
<1> QED BY <1>1 DEF Tails

LEMMA DecodePlain ==
    ASSUME NEW b, b \notin High, NEW r
    PROVE  Decode(r, b) = IF r = 0 THEN 0 ELSE 1
BY DEF Decode, UTF8_ACCEPT, UTF8_REJECT

LEMMA DecodeFirst ==
    ASSUME NEW b \in High
    PROVE  Decode(0, b) = CASE b = "C2" -> 2 [] b = "E0" -> 4 [] b = "E1" -> 3 [] b = "ED" -> 5
                            [] b = "F0" -> 6 [] b = "F1" -> 7 [] b = "F4" -> 8 [] OTHER -> 1
<1>1. Decode(0, b) = IF TypeOf[b] \in DOMAIN First THEN First[TypeOf[b]] ELSE 1
  BY DEF Decode, UTF8_ACCEPT, UTF8_REJECT
<1>2. b \in {"80", "90", "A0", "C0", "C2", "E0", "E1", "ED", "F0", "F1", "F4"}
  BY DEF High
<1> QED BY <1>1, <1>2, TypeOfValues, FirstValues

\* What may follow in each state, and what comes then.
LEMMA DecodeNext ==
    ASSUME NEW b
    PROVE  /\ Decode(1, b) = 1
           /\ Decode(2, b) = IF b \in Tail3 THEN 0 ELSE 1
           /\ Decode(3, b) = IF b \in Tail3 THEN 2 ELSE 1
           /\ Decode(4, b) = IF b \in {"A0"} THEN 2 ELSE 1
           /\ Decode(5, b) = IF b \in {"80", "90"} THEN 2 ELSE 1
           /\ Decode(6, b) = IF b \in {"90", "A0"} THEN 3 ELSE 1
           /\ Decode(7, b) = IF b \in Tail3 THEN 3 ELSE 1
           /\ Decode(8, b) = IF b \in {"80"} THEN 3 ELSE 1
<1>1. CASE b \notin High
  <2>1. \A r \in 1..8 : Decode(r, b) = 1
    BY <1>1, DecodePlain
  <2>2. b \notin Tail3 /\ b \notin {"80", "90", "A0"}
    BY <1>1 DEF High, Tail3
  <2> QED BY <2>1, <2>2
<1>2. CASE b \in High
  <2>1. \A r \in 2..8 : Decode(r, b) = IF TypeOf[b] \in Further[r][1] THEN Further[r][2] ELSE 1
    BY <1>2, FurtherValues DEF Decode, UTF8_ACCEPT, UTF8_REJECT
  <2>2. Decode(1, b) = 1
    <3>1. 1 \notin DOMAIN Further
      BY FurtherValues
    <3> QED BY <1>2, <3>1 DEF Decode, UTF8_ACCEPT, UTF8_REJECT
  <2>3. b \in {"80", "90", "A0", "C0", "C2", "E0", "E1", "ED", "F0", "F1", "F4"}
    BY <1>2 DEF High
  <2>4. /\ TypeOf[b] = 1 <=> b = "80"
        /\ TypeOf[b] = 9 <=> b = "90"
        /\ TypeOf[b] = 7 <=> b = "A0"
    BY <2>3, TypeOfValues
  <2>5. /\ Further[2][1] = {1, 7, 9} /\ Further[2][2] = 0
        /\ Further[3][1] = {1, 7, 9} /\ Further[3][2] = 2
        /\ Further[4][1] = {7} /\ Further[4][2] = 2
        /\ Further[5][1] = {1, 9} /\ Further[5][2] = 2
        /\ Further[6][1] = {7, 9} /\ Further[6][2] = 3
        /\ Further[7][1] = {1, 7, 9} /\ Further[7][2] = 3
        /\ Further[8][1] = {1} /\ Further[8][2] = 3
    BY FurtherValues
  <2>6. Tail3 = {"80", "90", "A0"}
    BY DEF Tail3
  <2>7. Decode(2, b) = IF b \in Tail3 THEN 0 ELSE 1
    BY <2>1, <2>4, <2>5, <2>6
  <2>8. Decode(3, b) = IF b \in Tail3 THEN 2 ELSE 1
    BY <2>1, <2>4, <2>5, <2>6
  <2>9. Decode(4, b) = IF b \in {"A0"} THEN 2 ELSE 1
    BY <2>1, <2>4, <2>5
  <2>10. Decode(5, b) = IF b \in {"80", "90"} THEN 2 ELSE 1
    BY <2>1, <2>4, <2>5
  <2>11. Decode(6, b) = IF b \in {"90", "A0"} THEN 3 ELSE 1
    BY <2>1, <2>4, <2>5
  <2>12. Decode(7, b) = IF b \in Tail3 THEN 3 ELSE 1
    BY <2>1, <2>4, <2>5, <2>6
  <2>13. Decode(8, b) = IF b \in {"80"} THEN 3 ELSE 1
    BY <2>1, <2>4, <2>5
  <2> QED BY <2>2, <2>7, <2>8, <2>9, <2>10, <2>11, <2>12, <2>13
<1> QED BY <1>1, <1>2

LEMMA DecodeTyped ==
    ASSUME NEW b, NEW r \in 0..8
    PROVE  Decode(r, b) \in 0..8
<1>1. CASE r = 0 /\ b \in High
  BY <1>1, DecodeFirst
<1>2. CASE r = 0 /\ b \notin High
  BY <1>2, DecodePlain
<1>3. CASE r \in 1..8
  BY <1>3, DecodeNext
<1> QED BY <1>1, <1>2, <1>3

IsUtf8(f, s) == f = [i \in 0..Len(s) |-> IF i = 0 THEN 0 ELSE Decode(f[i - 1], s[i])]

LEMMA Utf8Steps ==
    ASSUME NEW s \in Seq(Bytes)
    PROVE  /\ Utf8(s)[0] = 0
           /\ \A i \in 1..Len(s) : Utf8(s)[i] = Decode(Utf8(s)[i - 1], s[i])
           /\ \A i \in 0..Len(s) : Utf8(s)[i] \in 0..8
<1> DEFINE n == Len(s)
           S == 0..8
           step == [k \in 1..n |-> [r \in S |-> Decode(r, s[k])]]
<1>1. n \in Nat
  OBVIOUS
<1>2. step \in [1..n -> [S -> S]]
  <2>1. \A k \in 1..n : \A r \in S : Decode(r, s[k]) \in S
    BY DecodeTyped
  <2> HIDE DEF S
  <2> QED BY <2>1
<1>3. \A k \in 1..n : \A r \in S : step[k][r] = Decode(r, s[k])
  OBVIOUS
<1>4. 0 \in S
  OBVIOUS
<1> HIDE DEF step, n, S
<1>5. \E f : IsUtf8(f, s)
  <2>1. PICK f \in [0..n -> S] : Unfolds(f, n, 0, step)
    BY <1>1, <1>2, <1>4, UnfoldingExists
  <2>2. ASSUME NEW i \in 0..n
        PROVE  f[i] = IF i = 0 THEN 0 ELSE Decode(f[i - 1], s[i])
    <3>1. CASE i = 0
      BY <2>1, <3>1 DEF Unfolds
    <3>2. CASE i # 0
      <4>1. i \in 1..n /\ i - 1 \in 0..n
        BY <1>1, <3>2
      <4>2. f[i] = step[i][f[i - 1]] /\ f[i - 1] \in S
        BY <2>1, <4>1 DEF Unfolds
      <4> QED BY <1>3, <3>2, <4>1, <4>2
    <3> QED BY <3>1, <3>2
  <2>3. f = [i \in 0..n |-> f[i]]
    OBVIOUS
  <2>4. f = [i \in 0..n |-> IF i = 0 THEN 0 ELSE Decode(f[i - 1], s[i])]
    BY <2>2, <2>3
  <2> QED BY <2>4 DEF IsUtf8, n
<1> DEFINE g == Utf8(s)
<1>6. g = CHOOSE f : IsUtf8(f, s)
  BY DEF Utf8, IsUtf8, UTF8_ACCEPT
<1>7. IsUtf8(g, s)
  BY <1>5, <1>6
<1> HIDE DEF g
<1>8. \A i \in 0..n : g[i] = IF i = 0 THEN 0 ELSE Decode(g[i - 1], s[i])
  BY <1>7 DEF IsUtf8, n
<1>9. g[0] = 0 /\ \A i \in 1..n : g[i] = Decode(g[i - 1], s[i])
  BY <1>1, <1>8
<1>10. \A i \in 0..n : g[i] \in S
  <2> DEFINE T == {k \in Nat : k <= n => g[k] \in S}
  <2>1. 0 \in T
    BY <1>4, <1>9
  <2>2. ASSUME NEW k \in Nat, k \in T, k + 1 <= n
        PROVE  g[k + 1] \in S
    <3>1. k + 1 \in 1..n /\ (k + 1) - 1 = k /\ g[k] \in S
      BY <1>1, <2>2
    <3> QED BY <1>9, <3>1, DecodeTyped DEF S
  <2>3. T = Nat
    <3>1. \A k \in Nat : k \in T => k + 1 \in T
      BY <2>2
    <3>2. T \in SUBSET Nat
      OBVIOUS
    <3> HIDE DEF T
    <3> QED BY <2>1, <3>1, <3>2, SetInduction
  <2> QED BY <1>1, <2>3
<1> QED BY <1>9, <1>10 DEF g, n, S

\* After a byte that does not fit there is no way back.
LEMMA RejectStays ==
    ASSUME NEW s \in Seq(Bytes), NEW j \in 0..Len(s), Utf8(s)[Len(s)] = 0
    PROVE  Utf8(s)[j] # 1
<1>1. SUFFICES ASSUME Utf8(s)[j] = 1 PROVE FALSE
  OBVIOUS
<1> DEFINE T == {k \in Nat : j + k <= Len(s) => Utf8(s)[j + k] = 1}
<1>2. Len(s) \in Nat
  OBVIOUS
<1>3. 0 \in T
  BY <1>1
<1>4. ASSUME NEW k \in Nat, k \in T, j + (k + 1) <= Len(s)
      PROVE  Utf8(s)[j + (k + 1)] = 1
  <2>1. j + (k + 1) \in 1..Len(s) /\ (j + (k + 1)) - 1 = j + k /\ j + k <= Len(s)
    BY <1>2, <1>4
  <2>2. Utf8(s)[j + k] = 1
    BY <1>4, <2>1
  <2>3. Utf8(s)[j + (k + 1)] = Decode(Utf8(s)[j + k], s[j + (k + 1)])
    BY <2>1, Utf8Steps
  <2> QED BY <2>2, <2>3, DecodeNext
<1>5. T = Nat
  <2>1. \A k \in Nat : k \in T => k + 1 \in T
    BY <1>4
  <2>2. T \in SUBSET Nat
    OBVIOUS
  <2> HIDE DEF T
  <2> QED BY <1>3, <2>1, <2>2, SetInduction
<1>6. PICK k \in Nat : j + k = Len(s)
  <2>1. Len(s) - j \in Nat /\ j + (Len(s) - j) = Len(s)
    BY <1>2
  <2> QED BY <2>1
<1>7. k \in T
  BY <1>5
<1> QED BY <1>2, <1>6, <1>7

LEMMA TailSteps ==
    ASSUME NEW c \in DOMAIN Tails
    PROVE  /\ c \in High
           /\ Len(Tails[c]) \in 1..3
           /\ Decode(0, c) \in 2..8
           /\ \A b : Decode(Decode(0, c), b) =
                IF b \in Tails[c][1] THEN IF Len(Tails[c]) = 1 THEN 0 ELSE Len(Tails[c]) ELSE 1
           /\ Len(Tails[c]) >= 2 => Tails[c][2] = Tail3
           /\ Len(Tails[c]) = 3 => Tails[c][3] = Tail3
<1>1. c \in {"C2", "E0", "E1", "ED", "F0", "F1", "F4"}
  BY TailsValues
<1>2. c \in High
  BY <1>1 DEF High
<1>3. CASE c = "C2"
  <2>1. Len(Tails[c]) = 1 /\ Tails[c][1] = Tail3
    BY <1>3, TailsValues
  <2>2. Decode(0, c) = 2
    BY <1>2, <1>3, DecodeFirst
  <2> QED BY <1>2, <2>1, <2>2, DecodeNext
<1>4. CASE c = "E0"
  <2>1. Len(Tails[c]) = 2 /\ Tails[c][1] = {"A0"} /\ Tails[c][2] = Tail3
    BY <1>4, TailsValues
  <2>2. Decode(0, c) = 4
    BY <1>2, <1>4, DecodeFirst
  <2> QED BY <1>2, <2>1, <2>2, DecodeNext
<1>5. CASE c = "E1"
  <2>1. Len(Tails[c]) = 2 /\ Tails[c][1] = Tail3 /\ Tails[c][2] = Tail3
    BY <1>5, TailsValues
  <2>2. Decode(0, c) = 3
    BY <1>2, <1>5, DecodeFirst
  <2> QED BY <1>2, <2>1, <2>2, DecodeNext
<1>6. CASE c = "ED"
  <2>1. Len(Tails[c]) = 2 /\ Tails[c][1] = {"80", "90"} /\ Tails[c][2] = Tail3
    BY <1>6, TailsValues
  <2>2. Decode(0, c) = 5
    BY <1>2, <1>6, DecodeFirst
  <2> QED BY <1>2, <2>1, <2>2, DecodeNext
<1>7. CASE c = "F0"
  <2>1. /\ Len(Tails[c]) = 3 /\ Tails[c][1] = {"90", "A0"}
        /\ Tails[c][2] = Tail3 /\ Tails[c][3] = Tail3
    BY <1>7, TailsValues
  <2>2. Decode(0, c) = 6
    BY <1>2, <1>7, DecodeFirst
  <2> QED BY <1>2, <2>1, <2>2, DecodeNext
<1>8. CASE c = "F1"
  <2>1. /\ Len(Tails[c]) = 3 /\ Tails[c][1] = Tail3
        /\ Tails[c][2] = Tail3 /\ Tails[c][3] = Tail3
    BY <1>8, TailsValues
  <2>2. Decode(0, c) = 7
    BY <1>2, <1>8, DecodeFirst
  <2> QED BY <1>2, <2>1, <2>2, DecodeNext
<1>9. CASE c = "F4"
  <2>1. /\ Len(Tails[c]) = 3 /\ Tails[c][1] = {"80"}
        /\ Tails[c][2] = Tail3 /\ Tails[c][3] = Tail3
    BY <1>9, TailsValues
  <2>2. Decode(0, c) = 8
    BY <1>2, <1>9, DecodeFirst
  <2> QED BY <1>2, <2>1, <2>2, DecodeNext
<1> QED BY <1>1, <1>3, <1>4, <1>5, <1>6, <1>7, <1>8, <1>9

\* The bytes from i on are one character of several bytes.
Fits(s, i) ==
    /\ s[i] \in DOMAIN Tails
    /\ i + Len(Tails[s[i]]) <= Len(s)
    /\ \A k \in 1..Len(Tails[s[i]]) : s[i + k] \in Tails[s[i]][k]

\* The table takes the characters that fit,
LEMMA FittingAccepted ==
    ASSUME NEW s \in Seq(Bytes), NEW i \in 1..Len(s), Utf8(s)[i - 1] = 0, Fits(s, i)
    PROVE  Utf8(s)[i + Len(Tails[s[i]])] = 0
<1> DEFINE c == s[i]
<1>1. c \in DOMAIN Tails /\ Len(Tails[c]) \in 1..3 /\ i + Len(Tails[c]) <= Len(s) /\ Len(s) \in Nat
  BY TailSteps DEF Fits
<1>2. PICK n \in 1..3 : n = Len(Tails[c]) /\ i + n <= Len(s)
  BY <1>1
<1>3. Utf8(s)[i] = Decode(0, c)
  BY Utf8Steps
<1>4. /\ i + 1 \in 1..Len(s) /\ (i + 1) - 1 = i
      /\ s[i + 1] \in Tails[c][1]
  BY <1>1, <1>2 DEF Fits
<1>5. Utf8(s)[i + 1] = IF n = 1 THEN 0 ELSE n
  <2>1. Utf8(s)[i + 1] = Decode(Decode(0, c), s[i + 1])
    BY <1>3, <1>4, Utf8Steps
  <2> QED BY <1>1, <1>2, <1>4, <2>1, TailSteps
<1>6. CASE n = 1
  BY <1>2, <1>5, <1>6
<1>7. ASSUME n >= 2
      PROVE  Utf8(s)[i + 2] = IF n = 2 THEN 0 ELSE 2
  <2>1. /\ i + 2 \in 1..Len(s) /\ (i + 2) - 1 = i + 1
        /\ s[i + 2] \in Tails[c][2] /\ Tails[c][2] = Tail3
    BY <1>1, <1>2, <1>7, TailSteps DEF Fits
  <2>2. Utf8(s)[i + 2] = Decode(n, s[i + 2])
    BY <1>5, <1>7, <2>1, Utf8Steps
  <2>3. n = 2 \/ n = 3
    BY <1>7
  <2> QED BY <2>1, <2>2, <2>3, DecodeNext
<1>8. CASE n = 2
  BY <1>2, <1>7, <1>8
<1>9. CASE n = 3
  <2>1. i + 3 \in 1..Len(s) /\ (i + 3) - 1 = i + 2 /\ 3 \in 1..3
    BY <1>1, <1>2, <1>9
  <2>2. s[i + 3] \in Tails[c][3]
    BY <1>2, <1>9, <2>1 DEF Fits
  <2>3. Tails[c][3] = Tail3
    BY <1>1, <1>2, <1>9, TailSteps
  <2>4. Utf8(s)[i + 3] = Decode(2, s[i + 3])
    BY <1>7, <1>9, <2>1, Utf8Steps
  <2>5. Utf8(s)[i + 3] = 0
    BY <2>4, <2>2, <2>3, DecodeNext
  <2> QED BY <1>2, <1>9, <2>5
<1>10. n = 1 \/ n = 2 \/ n = 3
  OBVIOUS
<1> QED BY <1>6, <1>8, <1>9, <1>10

\* and no others.
LEMMA AcceptedFits ==
    ASSUME NEW s \in Seq(Bytes), NEW i \in 1..Len(s), Utf8(s)[i - 1] = 0, s[i] \in High,
           Utf8(s)[Len(s)] = 0
    PROVE  Fits(s, i)
<1> DEFINE c == s[i]
<1>1. Len(s) \in Nat /\ Utf8(s)[i] = Decode(0, c)
  BY Utf8Steps
<1>2. \A j \in 0..Len(s) : Utf8(s)[j] # 1
  BY RejectStays
<1>3. c \in DOMAIN Tails
  <2>1. Decode(0, c) # 1
    BY <1>1, <1>2
  <2> QED BY <2>1, DecodeFirst, TailsValues
<1>4. PICK n \in 1..3 : n = Len(Tails[c]) /\ Decode(0, c) \in 2..8
  BY <1>3, TailSteps
<1>5. i + 1 \in 1..Len(s) /\ (i + 1) - 1 = i
  <2>1. i # Len(s)
    BY <1>1, <1>4
  <2> QED BY <1>1, <2>1
<1>6. s[i + 1] \in Tails[c][1] /\ Utf8(s)[i + 1] = IF n = 1 THEN 0 ELSE n
  <2>1. Utf8(s)[i + 1] = Decode(Decode(0, c), s[i + 1])
    BY <1>1, <1>5, Utf8Steps
  <2>2. Utf8(s)[i + 1] # 1
    BY <1>2, <1>5
  <2> QED BY <1>3, <1>4, <2>1, <2>2, TailSteps
<1>7. CASE n = 1
  <2>1. \A k \in 1..n : s[i + k] \in Tails[c][k]
    BY <1>6, <1>7
  <2>2. i + n <= Len(s)
    BY <1>5, <1>7
  <2> QED BY <1>3, <1>4, <2>1, <2>2 DEF Fits
<1>8. ASSUME n >= 2
      PROVE  /\ i + 2 \in 1..Len(s)
             /\ s[i + 2] \in Tails[c][2]
             /\ Utf8(s)[i + 2] = IF n = 2 THEN 0 ELSE 2
  <2>1. i + 1 # Len(s)
    <3>1. n # 1 /\ n # 0
      BY <1>8
    <3>2. Utf8(s)[i + 1] = n
      BY <1>6, <3>1
    <3> QED BY <3>1, <3>2
  <2>2. i + 2 \in 1..Len(s) /\ (i + 2) - 1 = i + 1
    BY <1>1, <1>5, <2>1
  <2>3. Utf8(s)[i + 2] = Decode(n, s[i + 2]) /\ Utf8(s)[i + 2] # 1
    BY <1>2, <1>6, <1>8, <2>2, Utf8Steps
  <2>4. Tails[c][2] = Tail3
    BY <1>3, <1>4, <1>8, TailSteps
  <2>5. n = 2 \/ n = 3
    BY <1>8
  <2> QED BY <2>2, <2>3, <2>4, <2>5, DecodeNext
<1>9. CASE n = 2
  <2>1. \A k \in 1..n : k = 1 \/ k = 2
    BY <1>9
  <2>2. \A k \in 1..n : s[i + k] \in Tails[c][k]
    BY <1>6, <1>8, <1>9, <2>1
  <2>3. i + n <= Len(s)
    BY <1>8, <1>9
  <2> QED BY <1>3, <1>4, <2>2, <2>3 DEF Fits
<1>10. CASE n = 3
  <2>1. i + 2 # Len(s) /\ i + 2 \in 1..Len(s) /\ Utf8(s)[i + 2] = 2
    BY <1>8, <1>10
  <2>2. i + 3 \in 1..Len(s) /\ (i + 3) - 1 = i + 2
    BY <1>1, <2>1
  <2>3. Utf8(s)[i + 3] = Decode(2, s[i + 3]) /\ Utf8(s)[i + 3] # 1
    BY <1>2, <2>1, <2>2, Utf8Steps
  <2>4. s[i + 3] \in Tails[c][3]
    <3>1. Tails[c][3] = Tail3
      BY <1>3, <1>4, <1>10, TailSteps
    <3>2. s[i + 3] \in Tail3
      BY <2>3, DecodeNext, ZenonT(30)
    <3> QED BY <3>1, <3>2
  <2>5. \A k \in 1..n : k = 1 \/ k = 2 \/ k = 3
    BY <1>10
  <2>6. s[i + 1] \in Tails[c][1] /\ s[i + 2] \in Tails[c][2]
    BY <1>6, <1>8, <1>10
  <2>7. \A k \in 1..n : s[i + k] \in Tails[c][k]
    BY <2>4, <2>5, <2>6
  <2>8. i + n <= Len(s)
    BY <1>10, <2>2
  <2> QED BY <1>3, <1>4, <2>7, <2>8 DEF Fits
<1> QED BY <1>4, <1>7, <1>9, <1>10

\* Ranges and quantified characters of a sequence that fits are high, and one byte in a text.
LEMMA TailsHigh ==
    ASSUME NEW c \in DOMAIN Tails, NEW k \in 1..Len(Tails[c])
    PROVE  Tails[c][k] \in SUBSET {"80", "90", "A0"}
<1>1. PICK n \in 1..3 : n = Len(Tails[c]) /\ k \in 1..n
  BY TailSteps
<1>2. CASE k = 1
  BY <1>2, TailsValues DEF Tail3
<1>3. CASE k # 1
  <2>1. k \in 1..n
    BY <1>1
  <2>2. (k = 2 /\ n >= 2) \/ (k = 3 /\ n = 3)
    BY <1>3, <2>1
  <2>3. Tails[c][k] = Tail3
    BY <1>1, <2>2, TailSteps
  <2> QED BY <2>3 DEF Tail3
<1> QED BY <1>2, <1>3

-----------------------------------------------------------------------------
(* The turns of scan_string *)

\* What cells shows behind o of the text t: its first n characters, and stop if there are more.
Shows(cells, o, t, n, stop) ==
    /\ \A h \in 1..n : At(cells, o + h) = t[h]
    /\ n < Len(t) => At(cells, o + n + 1) = stop

LEMMA StopValues ==
    ASSUME NEW stop \in {Eof, Id}
    PROVE  /\ stop \in Controls \cup {Eof} /\ stop \notin High
           /\ stop \notin {Quote, "\\", "n", "u", "0", "1", "2", "f", "80", "90", "A0", "[", "]", ",", "-"}
           /\ stop \notin Range(Digits)
<1>1. Id \in Controls
  BY CodeValues DEF Controls, Id
<1>2. stop = "eof" \/ stop = "02"
  BY DEF Eof, Id
<1>3. stop \notin High
  BY <1>2 DEF High
<1> QED BY <1>1, <1>2, <1>3, DigitValues, QuoteDiffers DEF Eof, Id

LEMMA IllegalDiffers ==
    ASSUME NEW n \in Nat \ {0}, NEW s, NEW unit, unit = [takes |-> n, adds |-> s]
    PROVE  unit # Illegal /\ unit.takes = n /\ unit.adds = s
<1>1. unit.takes # Illegal.takes
  BY DEF Illegal
<1> QED BY <1>1

LEMMA UnitStop ==
    ASSUME NEW cells, NEW p, At(cells, p) \in {Eof, Id}
    PROVE  At(cells, p) # Quote /\ Unit(cells, p) = Illegal
<1> DEFINE c == At(cells, p)
<1>1. c \in High \cup Controls \cup {Eof} /\ c \notin High /\ c # "\\" /\ c # Quote
  BY StopValues
<1>2. c \notin DOMAIN Tails
  BY <1>1, TailSteps
<1> QED BY <1>1, <1>2 DEF Unit

LEMMA UnitPlain ==
    ASSUME NEW cells, NEW p, At(cells, p) \notin High \cup Controls \cup {Eof, "\\"}
    PROVE  Unit(cells, p) = [takes |-> 1, adds |-> <<At(cells, p)>>]
<1> DEFINE c == At(cells, p)
<1>1. c \notin DOMAIN Tails
  BY TailSteps
<1> QED BY <1>1 DEF Unit

LEMMA UnitHigh ==
    ASSUME NEW cells, NEW p, At(cells, p) \in DOMAIN Tails
    PROVE  Unit(cells, p) =
            IF \A k \in DOMAIN Tails[At(cells, p)] : At(cells, p + k) \in Tails[At(cells, p)][k]
            THEN [takes |-> 1 + Len(Tails[At(cells, p)]),
                  adds |-> SubSeq(cells, p, p + Len(Tails[At(cells, p)]))]
            ELSE Illegal
<1>1. At(cells, p) # "\\"
  BY TailsValues
<1> QED BY <1>1 DEF Unit

LEMMA UnitBroken ==
    ASSUME NEW cells, NEW p, At(cells, p) \in High, At(cells, p) \notin DOMAIN Tails
    PROVE  Unit(cells, p) = Illegal
<1>1. At(cells, p) # "\\"
  BY DEF High
<1> QED BY <1>1 DEF Unit

LEMMA UnitShort ==
    ASSUME NEW cells, NEW p, At(cells, p) = "\\",
           NEW b \in DOMAIN Short, At(cells, p + 1) = Short[b]
    PROVE  Unit(cells, p) = [takes |-> 2, adds |-> <<b>>]
<1>1. {a \in DOMAIN Short : Short[a] = Short[b]} = {b}
  BY ShortValues, QuoteDiffers
<1>2. Unit(cells, p) = Escaped(cells, p)
  BY DEF Unit
<1>3. Escaped(cells, p) = [takes |-> 2, adds |-> <<CHOOSE a \in {b} : TRUE>>]
  BY <1>1 DEF Escaped
<1>4. (CHOOSE a \in {b} : TRUE) = b
  OBVIOUS
<1> QED BY <1>2, <1>3, <1>4

LEMMA UnitCode ==
    ASSUME NEW cells, NEW p, At(cells, p) = "\\", At(cells, p + 1) = "u",
           NEW b \in DOMAIN Code, \A k \in 1..4 : At(cells, p + 1 + k) = Code[b][k]
    PROVE  Unit(cells, p) = [takes |-> 6, adds |-> <<b>>]
<1>1. {a \in DOMAIN Short : Short[a] = "u"} = {}
  BY ShortValues, QuoteDiffers
<1>2. {a \in DOMAIN Code : \A k \in 1..4 : At(cells, p + 1 + k) = Code[a][k]} = {b}
  <2>1. ASSUME NEW a \in DOMAIN Code, \A k \in 1..4 : At(cells, p + 1 + k) = Code[a][k]
        PROVE  a = b
    BY <2>1, CodesDiffer
  <2> QED BY <2>1
<1>3. Unit(cells, p) = Escaped(cells, p)
  BY DEF Unit
<1>4. Escaped(cells, p) = [takes |-> 6, adds |-> <<CHOOSE a \in {b} : TRUE>>]
  BY <1>1, <1>2 DEF Escaped
<1>5. (CHOOSE a \in {b} : TRUE) = b
  OBVIOUS
<1> QED BY <1>3, <1>4, <1>5

\* An escape that is cut is illegal.
LEMMA UnitCut ==
    ASSUME NEW cells, NEW p, At(cells, p) = "\\",
           \/ At(cells, p + 1) \in {Eof, Id}
           \/ At(cells, p + 1) = "u" /\ \E k \in 1..4 : At(cells, p + 1 + k) \in {Eof, Id}
    PROVE  Unit(cells, p) = Illegal
<1>1. Unit(cells, p) = Escaped(cells, p)
  BY DEF Unit
<1>2. {a \in DOMAIN Short : Short[a] = At(cells, p + 1)} = {}
  BY StopValues, ShortValues, QuoteDiffers
<1>3. CASE At(cells, p + 1) \in {Eof, Id}
  <2>1. At(cells, p + 1) # "u"
    BY <1>3, StopValues
  <2> QED BY <1>1, <1>2, <2>1 DEF Escaped
<1>4. CASE \E k \in 1..4 : At(cells, p + 1 + k) \in {Eof, Id}
  <2>1. {a \in DOMAIN Code : \A k \in 1..4 : At(cells, p + 1 + k) = Code[a][k]} = {}
    <3>1. ASSUME NEW a \in DOMAIN Code, \A k \in 1..4 : At(cells, p + 1 + k) = Code[a][k]
          PROVE  FALSE
      BY <1>4, <3>1, StopValues, CodesTyped
    <3> QED BY <3>1
  <2> QED BY <1>1, <1>2, <2>1 DEF Escaped
<1> QED BY <1>3, <1>4

Quoted(s) == DumpField("string", s)

LEMMA QuotedAt ==
    ASSUME NEW s \in Seq(Bytes)
    PROVE  /\ Quoted(s) \in Seq(Glyphs)
           /\ Len(Quoted(s)) = Len(DumpEscaped(s)) + 2
           /\ Quoted(s)[1] = Quote /\ Quoted(s)[Len(DumpEscaped(s)) + 2] = Quote
           /\ \A h \in 1..Len(DumpEscaped(s)) : Quoted(s)[h + 1] = DumpEscaped(s)[h]
<1>1. <<Quote>> \in Seq(Glyphs) /\ Len(<<Quote>>) = 1 /\ <<Quote>>[1] = Quote
  <2>1. Quote \in Glyphs
    BY DEF Glyphs
  <2> QED BY <2>1
<1>2. PICK q \in Seq(Glyphs) : q = <<Quote>> /\ Len(q) = 1 /\ q[1] = Quote
  BY <1>1
<1>3. PICK d \in Seq(Glyphs) : d = DumpEscaped(s)
  BY TurnsFollow
<1>4. Quoted(s) = (q \o d) \o q
  BY <1>2, <1>3 DEF Quoted, DumpField
<1>5. /\ q \o d \in Seq(Glyphs) /\ Len(q \o d) = Len(d) + 1
      /\ \A i \in 1..(Len(d) + 1) : (q \o d)[i] = IF i <= 1 THEN q[i] ELSE d[i - 1]
  <2>1. /\ q \o d \in Seq(Glyphs) /\ Len(q \o d) = Len(q) + Len(d)
        /\ \A i \in 1..(Len(q) + Len(d)) : (q \o d)[i] = IF i <= Len(q) THEN q[i] ELSE d[i - Len(q)]
    BY ConcatProperties
  <2>2. Len(q) = 1 /\ Len(q) + Len(d) = Len(d) + 1
    BY <1>2
  <2> QED BY <2>1, <2>2
<1>6. PICK r \in Seq(Glyphs) : r = q \o d
  BY <1>5
<1>7. Len(d) \in Nat /\ Len(r) = Len(d) + 1
  BY <1>5, <1>6
<1>8. /\ r \o q \in Seq(Glyphs) /\ Len(r \o q) = Len(d) + 2
      /\ \A i \in 1..(Len(d) + 2) : (r \o q)[i] = IF i <= Len(d) + 1 THEN r[i] ELSE q[i - (Len(d) + 1)]
  <2>1. /\ r \o q \in Seq(Glyphs) /\ Len(r \o q) = Len(r) + Len(q)
        /\ \A i \in 1..(Len(r) + Len(q)) : (r \o q)[i] = IF i <= Len(r) THEN r[i] ELSE q[i - Len(r)]
    BY ConcatProperties
  <2>2. Len(r) = Len(d) + 1 /\ Len(r) + Len(q) = Len(d) + 2
    BY <1>2, <1>7
  <2> QED BY <2>1, <2>2
<1>9. (r \o q)[1] = Quote
  <2>1. 1 \in 1..(Len(d) + 2) /\ 1 <= Len(d) + 1 /\ 1 \in 1..(Len(d) + 1)
    BY <1>7
  <2>2. (r \o q)[1] = r[1]
    BY <1>8, <2>1
  <2>3. r[1] = q[1]
    BY <1>5, <1>6, <2>1
  <2> QED BY <1>2, <2>2, <2>3
<1>10. (r \o q)[Len(d) + 2] = Quote
  <2>1. Len(d) + 2 \in 1..(Len(d) + 2) /\ ~(Len(d) + 2 <= Len(d) + 1) /\ (Len(d) + 2) - (Len(d) + 1) = 1
    BY <1>7
  <2> QED BY <1>2, <1>8, <2>1
<1>11. ASSUME NEW h \in 1..Len(d)
       PROVE  (r \o q)[h + 1] = d[h]
  <2>1. /\ h + 1 \in 1..(Len(d) + 2) /\ h + 1 <= Len(d) + 1 /\ h + 1 \in 1..(Len(d) + 1)
        /\ ~(h + 1 <= 1) /\ (h + 1) - 1 = h
    BY <1>7
  <2> QED BY <1>5, <1>6, <1>8, <2>1
<1> QED BY <1>3, <1>4, <1>6, <1>8, <1>9, <1>10, <1>11

LEMMA SubSeqOne ==
    ASSUME NEW C, NEW s \in Seq(C), NEW i \in 1..Len(s)
    PROVE  SubSeq(s, i, i) = <<s[i]>>
<1>1. i \in Int
  OBVIOUS
<1>2. SubSeq(s, i, i) = [k \in 1..(i - i + 1) |-> s[i + k - 1]]
  BY <1>1
<1>3. i - i + 1 = 1 /\ \A k \in 1..1 : i + k - 1 = i
  BY <1>1
<1>4. [k \in 1..1 |-> s[i + k - 1]] = [k \in 1..1 |-> s[i]]
  BY <1>3
<1>5. [k \in 1..1 |-> s[i]] = <<s[i]>>
  OBVIOUS
<1> QED BY <1>2, <1>3, <1>4, <1>5

\* What the lexer has in front of it in the middle of a string.
InText(cells, o, s, n, stop) ==
    /\ s \in Seq(Bytes) /\ Utf8(s)[Len(s)] = 0
    /\ o \in Nat /\ n \in 0..Len(Quoted(s)) /\ stop \in {Eof, Id}
    /\ Shows(cells, o, Quoted(s), n, stop)

LEMMA TurnCell ==
    ASSUME NEW cells, NEW o, NEW s, NEW n, NEW stop, InText(cells, o, s, n, stop),
           NEW i \in 1..Len(s), NEW e \in 1..Len(Escape(s[i])), Turns(s)[i] + e <= n + 1
    PROVE  IF Turns(s)[i] + e <= n
           THEN At(cells, (o + Turns(s)[i] + 1) + (e - 1)) = Escape(s[i])[e]
           ELSE /\ At(cells, (o + Turns(s)[i] + 1) + (e - 1)) = stop
                /\ n < Len(Quoted(s))
<1>1. /\ s \in Seq(Bytes) /\ o \in Nat /\ n \in 0..Len(Quoted(s))
      /\ Shows(cells, o, Quoted(s), n, stop)
  BY DEF InText
<1>2. PICK d \in Nat : d = Len(DumpEscaped(s)) /\ Len(Quoted(s)) = d + 2
  BY <1>1, TurnEnds, QuotedAt
<1>3. PICK l \in Nat : l = Len(Escape(s[i]))
  <2>1. s[i] \in Bytes
    BY <1>1
  <2> QED BY <2>1, EscapeShort, EscapeCode, EscapeNone
<1>4. PICK t \in Nat \ {0} : t = Turns(s)[i] /\ t + l <= d + 1
  <2>1. /\ Turns(s)[i] \in Nat \ {0}
        /\ Turns(s)[i + 1] = Turns(s)[i] + Len(Escape(s[i]))
        /\ Turns(s)[i + 1] <= Len(DumpEscaped(s)) + 1
    BY <1>1, TurnAt
  <2> QED BY <1>2, <1>3, <2>1
<1>5. e \in Nat /\ e <= l /\ 1 <= e
  BY <1>3
<1>6. n \in Nat /\ n <= d + 2 /\ t + e <= n + 1 /\ o \in Nat /\ t + l <= d + 1
  BY <1>1, <1>2, <1>4
<1>7. t + (e - 1) \in 1..d /\ (o + t + 1) + (e - 1) = o + ((t + (e - 1)) + 1) /\ (t + (e - 1)) + 1 = t + e
  BY <1>5, <1>6
<1>8. /\ DumpEscaped(s)[t + (e - 1)] = Escape(s[i])[e]
      /\ Quoted(s)[(t + (e - 1)) + 1] = DumpEscaped(s)[t + (e - 1)]
  <2>1. DumpEscaped(s)[Turns(s)[i] + (e - 1)] = Escape(s[i])[e]
    <3>1. \A h \in 1..Len(Escape(s[i])) : DumpEscaped(s)[Turns(s)[i] + (h - 1)] = Escape(s[i])[h]
      BY <1>1, TurnAt
    <3> QED BY <3>1
  <2>2. t + (e - 1) \in 1..Len(DumpEscaped(s))
    BY <1>2, <1>7
  <2>3. Quoted(s)[(t + (e - 1)) + 1] = DumpEscaped(s)[t + (e - 1)]
    BY <1>1, <2>2, QuotedAt
  <2> QED BY <1>4, <2>1, <2>3
<1>9. CASE t + e <= n
  <2>1. t + e \in 1..n
    BY <1>5, <1>6, <1>9
  <2>2. At(cells, o + (t + e)) = Quoted(s)[t + e]
    BY <1>1, <2>1 DEF Shows
  <2> QED BY <1>4, <1>7, <1>8, <1>9, <2>2
<1>10. CASE ~(t + e <= n)
  <2>1. t + e = n + 1 /\ n < d + 2
    BY <1>5, <1>6, <1>10
  <2>2. At(cells, o + n + 1) = stop
    BY <1>1, <1>2, <2>1 DEF Shows
  <2>3. (o + t + 1) + (e - 1) = o + n + 1
    BY <1>5, <1>6, <2>1
  <2> QED BY <1>2, <1>4, <1>10, <2>1, <2>2, <2>3
<1> QED BY <1>9, <1>10

\* One turn of the loop undoes one turn of the encoder, or several that have no escapes;
\* a turn that is not all there fails.
Taken(cells, o, s, n, i) ==
    LET p == o + Turns(s)[i] + 1
        unit == Unit(cells, p)
    IN  /\ At(cells, p) # Quote
        /\ \/ unit = Illegal /\ n < Len(Quoted(s))
           \/ /\ unit # Illegal
              /\ \E j \in (i + 1)..(Len(s) + 1) :
                    /\ Turns(s)[j] <= n /\ p + unit.takes = o + Turns(s)[j] + 1
                    /\ unit.adds = SubSeq(s, i, j - 1)
                    /\ Utf8(s)[j - 1] = 0

\* The case of one character.
LEMMA TakenOne ==
    ASSUME NEW cells, NEW o, NEW s, NEW n, NEW stop, InText(cells, o, s, n, stop),
           NEW i \in 1..Len(s), Utf8(s)[i - 1] = 0, s[i] \notin High,
           NEW l \in Nat \ {0}, l = Len(Escape(s[i])), Turns(s)[i] + l <= n,
           At(cells, o + Turns(s)[i] + 1) # Quote,
           Unit(cells, o + Turns(s)[i] + 1) = [takes |-> l, adds |-> <<s[i]>>]
    PROVE  Taken(cells, o, s, n, i)
<1> DEFINE p == o + Turns(s)[i] + 1
           unit == Unit(cells, p)
<1>1. s \in Seq(Bytes) /\ Len(s) \in Nat /\ o \in Nat
  BY DEF InText
<1>2. unit.takes = l /\ unit.adds = <<s[i]>> /\ unit # Illegal
  BY IllegalDiffers
<1>3. /\ i + 1 \in (i + 1)..(Len(s) + 1) /\ (i + 1) - 1 = i
      /\ Turns(s)[i] \in Nat /\ Turns(s)[i + 1] = Turns(s)[i] + l
  <2>1. i + 1 \in (i + 1)..(Len(s) + 1) /\ (i + 1) - 1 = i
    BY <1>1
  <2> QED BY <1>1, <2>1, TurnAt
<1>4. p + unit.takes = o + Turns(s)[i + 1] + 1 /\ Turns(s)[i + 1] <= n
  BY <1>1, <1>2, <1>3
<1>5. SubSeq(s, i, i) = <<s[i]>>
  BY <1>1, SubSeqOne
<1>6. Utf8(s)[i] = 0
  BY <1>1, Utf8Steps, DecodePlain
<1>7. unit.adds = SubSeq(s, i, (i + 1) - 1) /\ Utf8(s)[(i + 1) - 1] = 0
  BY <1>2, <1>3, <1>5, <1>6
<1>8. At(cells, p) # Quote
  OBVIOUS
<1> HIDE DEF p, unit
<1>9. \E j \in (i + 1)..(Len(s) + 1) :
        /\ Turns(s)[j] <= n /\ p + unit.takes = o + Turns(s)[j] + 1
        /\ unit.adds = SubSeq(s, i, j - 1)
        /\ Utf8(s)[j - 1] = 0
  BY <1>3, <1>4, <1>7
<1> QED BY <1>2, <1>8, <1>9 DEF Taken, p, unit

LEMMA TailsDomain ==
    ASSUME NEW c \in DOMAIN Tails
    PROVE  DOMAIN Tails[c] = 1..Len(Tails[c])
<1>1. c \in {"C2", "E0", "E1", "ED", "F0", "F1", "F4"}
  BY TailsValues
<1>2. CASE c = "C2"
  BY <1>2, TailsValues
<1>3. CASE c = "E0"
  BY <1>3, TailsValues
<1>4. CASE c = "E1"
  BY <1>4, TailsValues
<1>5. CASE c = "ED"
  BY <1>5, TailsValues
<1>6. CASE c = "F0"
  BY <1>6, TailsValues
<1>7. CASE c = "F1"
  BY <1>7, TailsValues
<1>8. CASE c = "F4"
  BY <1>8, TailsValues
<1> QED BY <1>1, <1>2, <1>3, <1>4, <1>5, <1>6, <1>7, <1>8

\* n is how many bytes the first one asks for.
FitsBy(s, i, n) == Fits(s, i) /\ n = Len(Tails[s[i]])

\* Behind the first byte of a character the turns are one byte each.
OneByteTurns(s, i, n) ==
    /\ i + n \in 1..Len(s)
    /\ \A k \in 0..n : /\ Turns(s)[i + k] = Turns(s)[i] + k
                       /\ Len(Escape(s[i + k])) = 1 /\ Escape(s[i + k])[1] = s[i + k]
    /\ Turns(s)[i + n + 1] = Turns(s)[i] + n + 1

LEMMA TailTurns ==
    ASSUME NEW s \in Seq(Bytes), NEW i \in 1..Len(s), NEW n \in 1..3, FitsBy(s, i, n)
    PROVE  OneByteTurns(s, i, n)
<1>1. Len(s) \in Nat /\ i + n <= Len(s) /\ s[i] \in High
  BY TailSteps DEF Fits, FitsBy
<1>2. i + n \in 1..Len(s)
  BY <1>1
<1>3. ASSUME NEW k \in 0..n
      PROVE  /\ i + k \in 1..Len(s)
             /\ Len(Escape(s[i + k])) = 1 /\ Escape(s[i + k])[1] = s[i + k]
  <2>1. i + k \in 1..Len(s)
    BY <1>1
  <2>2. s[i + k] \in High
    <3>1. CASE k = 0
      <4>1. i + k = i
        BY <3>1
      <4> QED BY <1>1, <4>1
    <3>2. CASE k # 0
      <4>1. k \in 1..n
        BY <3>2
      <4>2. s[i + k] \in Tails[s[i]][k] /\ s[i] \in DOMAIN Tails
        BY <4>1 DEF Fits, FitsBy
      <4>3. s[i + k] \in {"80", "90", "A0"}
        BY <4>1, <4>2, TailsHigh DEF FitsBy
      <4> QED BY <4>3 DEF High
    <3> QED BY <3>1, <3>2
  <2>3. s[i + k] \notin DOMAIN Short /\ s[i + k] \notin DOMAIN Code /\ s[i + k] \in Bytes
    <3>1. s[i + k] \notin Controls \cup {Quote, "\\"}
      BY <2>2, HighValues
    <3>2. "0A" \in Controls /\ DOMAIN Code \in SUBSET Controls
      BY DEF Controls
    <3> QED BY <2>1, <3>1, <3>2, ShortValues
  <2> QED BY <2>1, <2>3, EscapeNone
<1>4. \A k \in 0..n : Turns(s)[i + k] \in Nat /\ Turns(s)[i + k + 1] = Turns(s)[i + k] + 1
  <2>1. ASSUME NEW k \in 0..n
        PROVE  Turns(s)[i + k] \in Nat /\ Turns(s)[i + k + 1] = Turns(s)[i + k] + 1
    <3>1. i + k \in 1..Len(s)
      BY <1>3
    <3>2. /\ Turns(s)[i + k] \in Nat \ {0}
          /\ Turns(s)[i + k + 1] = Turns(s)[i + k] + Len(Escape(s[i + k]))
      BY <3>1, TurnAt
    <3>3. Len(Escape(s[i + k])) = 1
      BY <1>3
    <3> QED BY <3>2, <3>3
  <2> QED BY <2>1
<1>5. PICK t \in Nat : t = Turns(s)[i]
  BY TurnAt
<1>6. i + 0 = i /\ i + 0 + 1 = i + 1 /\ i + 1 + 1 = i + 2 /\ i + 2 + 1 = i + 3 /\ i + 3 + 1 = i + 4
  OBVIOUS
<1>7. 0 \in 0..n /\ 1 \in 0..n
  OBVIOUS
<1>8. Turns(s)[i + 1] = t + 1
  BY <1>4, <1>5, <1>6, <1>7
<1>9. Turns(s)[i + 2] = t + 2
  <2>1. Turns(s)[i + 2] = Turns(s)[i + 1] + 1
    BY <1>4, <1>6, <1>7
  <2> QED BY <1>8, <2>1
<1>10. n >= 2 => Turns(s)[i + 3] = t + 3
  <2>1. n >= 2 => Turns(s)[i + 3] = Turns(s)[i + 2] + 1
    <3>1. n >= 2 => 2 \in 0..n
      OBVIOUS
    <3> QED BY <1>4, <1>6, <3>1
  <2> QED BY <1>9, <2>1
<1>11. n >= 3 => Turns(s)[i + 4] = t + 4
  <2>1. n >= 3 => Turns(s)[i + 4] = Turns(s)[i + 3] + 1
    <3>1. n >= 3 => 3 \in 0..n
      OBVIOUS
    <3> QED BY <1>4, <1>6, <3>1
  <2>2. n >= 3 => n >= 2
    OBVIOUS
  <2> QED BY <1>10, <2>1, <2>2
<1>12. ASSUME NEW k \in 0..n
       PROVE  Turns(s)[i + k] = t + k
  <2>1. k = 0 \/ k = 1 \/ (k = 2 /\ n >= 2) \/ (k = 3 /\ n >= 3)
    OBVIOUS
  <2>2. CASE k = 0
    <3>1. i + k = i /\ t + k = t
      BY <2>2
    <3> QED BY <1>5, <3>1
  <2>3. CASE k = 1
    BY <1>8, <2>3
  <2>4. CASE k = 2 /\ n >= 2
    BY <1>9, <2>4
  <2>5. CASE k = 3 /\ n >= 3
    <3>1. n >= 2
      BY <2>5
    <3> QED BY <1>10, <2>5, <3>1
  <2> QED BY <2>1, <2>2, <2>3, <2>4, <2>5
<1>13. Turns(s)[i + n + 1] = t + n + 1
  <2>1. n \in 0..n
    OBVIOUS
  <2>2. Turns(s)[i + n + 1] = Turns(s)[i + n] + 1 /\ Turns(s)[i + n] = t + n
    BY <1>4, <1>12, <2>1
  <2> QED BY <2>2
<1> QED BY <1>2, <1>3, <1>5, <1>12, <1>13 DEF OneByteTurns

LEMMA TakenHigh ==
    ASSUME NEW cells, NEW C, cells \in Seq(C), NEW o, NEW s, NEW n, NEW stop, InText(cells, o, s, n, stop),
           NEW i \in 1..Len(s), Utf8(s)[i - 1] = 0, s[i] \in High,
           Turns(s)[i] + 1 <= n
    PROVE  Taken(cells, o, s, n, i)
<1> DEFINE p == o + Turns(s)[i] + 1
           c == s[i]
<1>1. /\ s \in Seq(Bytes) /\ Len(s) \in Nat /\ o \in Nat /\ Utf8(s)[Len(s)] = 0
      /\ n \in Nat /\ stop \in {Eof, Id}
  <2>1. s \in Seq(Bytes) /\ o \in Nat /\ Utf8(s)[Len(s)] = 0 /\ n \in 0..Len(Quoted(s)) /\ stop \in {Eof, Id}
    BY DEF InText
  <2>2. Len(Quoted(s)) \in Nat
    BY <2>1, TurnEnds, QuotedAt
  <2> QED BY <2>1, <2>2
<1>2. Fits(s, i)
  BY <1>1, AcceptedFits
<1>3. c \in DOMAIN Tails
  BY <1>2 DEF Fits
<1>4. PICK l \in 1..3 : l = Len(Tails[c])
  BY <1>3, TailSteps
<1>5. PICK t \in Nat \ {0} : t = Turns(s)[i]
  BY <1>1, TurnAt
<1>6. t + 1 <= n /\ n \in Nat
  BY <1>1, <1>5
<1>7. FitsBy(s, i, l)
  BY <1>2, <1>4 DEF FitsBy
<1>8. /\ i + l \in 1..Len(s)
      /\ \A k \in 0..l : /\ Turns(s)[i + k] = t + k
                         /\ Len(Escape(s[i + k])) = 1 /\ Escape(s[i + k])[1] = s[i + k]
      /\ Turns(s)[i + l + 1] = t + l + 1
  <2>1. /\ i + l \in 1..Len(s)
        /\ \A k \in 0..l : /\ Turns(s)[i + k] = Turns(s)[i] + k
                           /\ Len(Escape(s[i + k])) = 1 /\ Escape(s[i + k])[1] = s[i + k]
        /\ Turns(s)[i + l + 1] = Turns(s)[i] + l + 1
    <3>1. OneByteTurns(s, i, l)
      BY <1>1, <1>7, TailTurns
    <3> QED BY <3>1 DEF OneByteTurns
  <2> QED BY <1>5, <2>1
<1>9. ASSUME NEW k \in 0..l
      PROVE  /\ t + k + 1 <= n => At(cells, p + k) = s[i + k]
             /\ t + k + 1 = n + 1 => At(cells, p + k) = stop /\ n < Len(Quoted(s))
  <2>1. i + k \in 1..Len(s)
    <3>1. i + l \in 1..Len(s)
      BY <1>8
    <3> QED BY <1>1, <3>1
  <2>2. 1 \in 1..Len(Escape(s[i + k])) /\ Turns(s)[i + k] = t + k /\ Escape(s[i + k])[1] = s[i + k]
    <3>1. /\ Turns(s)[i + k] = t + k
          /\ Len(Escape(s[i + k])) = 1 /\ Escape(s[i + k])[1] = s[i + k]
      BY <1>8
    <3>2. 1 \in 1..1
      OBVIOUS
    <3> QED BY <3>1, <3>2
  <2>3. (o + Turns(s)[i + k] + 1) + (1 - 1) = p + k
    <3>1. o \in Nat /\ k \in Nat /\ t \in Nat
      BY <1>1
    <3>2. (o + (t + k) + 1) + (1 - 1) = (o + t + 1) + k
      BY <3>1
    <3>3. p = o + t + 1
      BY <1>5
    <3> HIDE DEF p
    <3> QED BY <2>2, <3>2, <3>3
  <2>4. t + k + 1 <= n + 1 =>
         IF t + k + 1 <= n THEN At(cells, p + k) = s[i + k]
         ELSE At(cells, p + k) = stop /\ n < Len(Quoted(s))
    <3>1. ASSUME Turns(s)[i + k] + 1 <= n + 1
          PROVE  IF Turns(s)[i + k] + 1 <= n
                 THEN At(cells, (o + Turns(s)[i + k] + 1) + (1 - 1)) = Escape(s[i + k])[1]
                 ELSE /\ At(cells, (o + Turns(s)[i + k] + 1) + (1 - 1)) = stop
                      /\ n < Len(Quoted(s))
      BY <2>1, <2>2, <3>1, TurnCell
    <3> HIDE DEF p
    <3> QED BY <2>2, <2>3, <3>1
  <2>5. /\ t + k + 1 <= n => t + k + 1 <= n + 1
        /\ t + k + 1 = n + 1 => t + k + 1 <= n + 1 /\ ~(t + k + 1 <= n)
    BY <1>1
  <2> QED BY <2>4, <2>5
<1>10. \A k \in 0..l : i + k \in 1..Len(s)
  <2>1. i + l \in 1..Len(s)
    BY <1>8
  <2> QED BY <1>1, <2>1
<1>11. p = o + t + 1
  BY <1>5
<1>12. p \in Nat /\ p + 0 = p /\ i + 0 = i /\ 0 \in 0..l
  BY <1>1, <1>11
<1>13. At(cells, p) = c
  <2>1. t + 0 + 1 <= n
    BY <1>5
  <2> QED BY <1>9, <1>12, <2>1
<1> HIDE DEF p
<1>14. At(cells, p) # Quote
  BY <1>13, HighValues
<1>15. Unit(cells, p) =
        IF \A k \in DOMAIN Tails[c] : At(cells, p + k) \in Tails[c][k]
        THEN [takes |-> 1 + l, adds |-> SubSeq(cells, p, p + l)]
        ELSE Illegal
  BY <1>3, <1>4, <1>13, UnitHigh
<1>16. DOMAIN Tails[c] = 1..l
  BY <1>3, <1>4, TailsDomain
<1>17. CASE t + l + 1 <= n
  <2>1. \A k \in 0..l : At(cells, p + k) = s[i + k]
    <3>1. \A k \in 0..l : t + k + 1 <= n
      BY <1>1, <1>17
    <3> QED BY <1>9, <3>1
  <2>2. \A k \in 1..l : At(cells, p + k) \in Tails[c][k]
    <3>1. \A k \in 1..l : k \in 0..l /\ s[i + k] \in Tails[c][k]
      BY <1>2, <1>4 DEF Fits
    <3> QED BY <2>1, <3>1
  <2>3. Unit(cells, p) = [takes |-> 1 + l, adds |-> SubSeq(cells, p, p + l)]
    BY <1>15, <1>16, <2>2
  <2>4. SubSeq(cells, p, p + l) = SubSeq(s, i, i + l)
    <3>1. \A k \in 0..l : p + k \in 1..Len(cells) /\ cells[p + k] = s[i + k]
      <4>1. ASSUME NEW k \in 0..l
            PROVE  p + k \in 1..Len(cells) /\ cells[p + k] = s[i + k]
        <5>1. i + k \in 1..Len(s) /\ s[i + k] \in Bytes
          <6>1. i + k \in 1..Len(s)
            BY <1>10
          <6> QED BY <1>1, <6>1
        <5>2. s[i + k] # Eof
          <6>1. s[i + k] \in High \cup Controls \cup Printable
            BY <5>1 DEF Bytes
          <6>2. Eof \notin High \cup Controls
            BY HighValues, CodeValues DEF Controls, Eof
          <6> QED BY <6>1, <6>2, MessagesAssumption
        <5>3. p + k \in DOMAIN cells /\ cells[p + k] = s[i + k]
          BY <2>1, <5>2 DEF At
        <5> QED BY <5>3
      <4> QED BY <4>1
    <3>2. /\ Len(SubSeq(cells, p, p + l)) = l + 1 /\ SubSeq(cells, p, p + l) \in Seq(Bytes)
          /\ \A h \in 1..(l + 1) : SubSeq(cells, p, p + l)[h] = cells[p + h - 1]
      <4>1. \A h \in p..(p + l) : cells[h] \in Bytes
        <5>1. ASSUME NEW h \in p..(p + l)
              PROVE  cells[h] \in Bytes
          <6>1. h - p \in 0..l /\ p + (h - p) = h
            BY <1>12
          <6>2. cells[h] = s[i + (h - p)] /\ i + (h - p) \in 1..Len(s)
            BY <1>10, <3>1, <6>1
          <6> QED BY <1>1, <6>2
        <5> QED BY <5>1
      <4>2. p \in Int /\ p + l \in Int /\ p <= p + l /\ (p + l) - p + 1 = l + 1
        BY <1>12
      <4> QED BY <4>1, <4>2, SubSeqProperties, SMTT(30)
    <3>3. /\ Len(SubSeq(s, i, i + l)) = l + 1 /\ SubSeq(s, i, i + l) \in Seq(Bytes)
          /\ \A h \in 1..(l + 1) : SubSeq(s, i, i + l)[h] = s[i + h - 1]
      <4>1. \A h \in i..(i + l) : s[h] \in Bytes
        <5>1. i + l \in 1..Len(s)
          BY <1>8
        <5> QED BY <1>1, <5>1
      <4>2. i \in Int /\ i + l \in Int /\ i <= i + l /\ (i + l) - i + 1 = l + 1
        OBVIOUS
      <4> QED BY <4>1, <4>2, SubSeqProperties
    <3>4. \A h \in 1..(l + 1) : cells[p + h - 1] = s[i + h - 1]
      <4>1. ASSUME NEW h \in 1..(l + 1)
            PROVE  cells[p + h - 1] = s[i + h - 1]
        <5>1. h - 1 \in 0..l /\ p + (h - 1) = p + h - 1 /\ i + (h - 1) = i + h - 1
          BY <1>12
        <5> QED BY <3>1, <5>1
      <4> QED BY <4>1
    <3>5. \A h \in 1..(l + 1) : SubSeq(cells, p, p + l)[h] = SubSeq(s, i, i + l)[h]
      BY <3>2, <3>3, <3>4
    <3>6. PICK a \in Seq(Bytes) : a = SubSeq(cells, p, p + l) /\ Len(a) = l + 1
      BY <3>2
    <3>7. PICK b \in Seq(Bytes) : b = SubSeq(s, i, i + l) /\ Len(b) = l + 1
      BY <3>3
    <3>8. Len(a) = Len(b) /\ \A h \in 1..Len(a) : a[h] = b[h]
      BY <3>5, <3>6, <3>7
    <3>9. a = b
      BY <3>8, SeqEqual
    <3> QED BY <3>6, <3>7, <3>9
  <2>5. Utf8(s)[i + l] = 0
    BY <1>1, <1>2, <1>4, FittingAccepted
  <2>6. /\ i + l + 1 \in (i + 1)..(Len(s) + 1) /\ (i + l + 1) - 1 = i + l
        /\ p + (1 + l) = o + (t + l + 1) + 1
    <3>1. i + l \in 1..Len(s)
      BY <1>8
    <3> QED BY <1>1, <1>11, <3>1
  <2>7. Unit(cells, p) # Illegal /\ Unit(cells, p).takes = 1 + l /\ Unit(cells, p).adds = SubSeq(s, i, i + l)
    <3>1. PICK q \in Nat \ {0} : q = 1 + l
      OBVIOUS
    <3>2. PICK a : a = SubSeq(cells, p, p + l)
      OBVIOUS
    <3>3. PICK unit : unit = Unit(cells, p)
      OBVIOUS
    <3>4. unit = [takes |-> q, adds |-> a]
      BY <2>3, <3>1, <3>2, <3>3, Zenon
    <3>5. unit # Illegal /\ unit.takes = q /\ unit.adds = a
      BY <3>4, IllegalDiffers
    <3>6. /\ Unit(cells, p) # Illegal /\ Unit(cells, p).takes = 1 + l
          /\ Unit(cells, p).adds = SubSeq(cells, p, p + l)
      BY <3>1, <3>2, <3>3, <3>5, Zenon
    <3>7. Unit(cells, p).adds = SubSeq(s, i, i + l)
      BY <2>4, <3>6, Zenon
    <3> QED BY <3>6, <3>7, Zenon
  <2>8. \E j \in (i + 1)..(Len(s) + 1) :
            /\ Turns(s)[j] <= n /\ p + Unit(cells, p).takes = o + Turns(s)[j] + 1
            /\ Unit(cells, p).adds = SubSeq(s, i, j - 1)
            /\ Utf8(s)[j - 1] = 0
    BY <1>8, <1>17, <2>5, <2>6, <2>7
  <2> QED BY <1>14, <2>7, <2>8 DEF Taken, p
<1>18. CASE ~(t + l + 1 <= n)
  <2>1. PICK k \in 1..l : t + k + 1 = n + 1
    <3>1. n - t \in 1..l /\ t + (n - t) + 1 = n + 1
      BY <1>6, <1>18
    <3> QED BY <3>1
  <2>2. At(cells, p + k) = stop /\ n < Len(Quoted(s))
    BY <1>9, <2>1
  <2>3. At(cells, p + k) \notin Tails[c][k]
    <3>1. Tails[c][k] \in SUBSET {"80", "90", "A0"}
      BY <1>3, <1>4, TailsHigh
    <3> QED BY <1>1, <2>2, <3>1, StopValues
  <2>4. Unit(cells, p) = Illegal
    BY <1>15, <1>16, <2>3
  <2> QED BY <1>14, <2>2, <2>4 DEF Taken, p
<1> QED BY <1>17, <1>18

LEMMA TurnTaken ==
    ASSUME NEW cells, NEW C, cells \in Seq(C), NEW o, NEW s, NEW n, NEW stop, InText(cells, o, s, n, stop),
           NEW i \in 1..Len(s), Utf8(s)[i - 1] = 0, Turns(s)[i] <= n
    PROVE  Taken(cells, o, s, n, i)
<1> DEFINE p == o + Turns(s)[i] + 1
           b == s[i]
<1>1. s \in Seq(Bytes) /\ o \in Nat /\ n \in Nat /\ stop \in {Eof, Id}
  <2>1. s \in Seq(Bytes) /\ o \in Nat /\ n \in 0..Len(Quoted(s)) /\ stop \in {Eof, Id}
    BY DEF InText
  <2>2. Len(Quoted(s)) \in Nat
    BY <2>1, TurnEnds, QuotedAt
  <2> QED BY <2>1, <2>2
<1>2. PICK t \in Nat \ {0} : t = Turns(s)[i] /\ t <= n
  BY <1>1, TurnAt
<1>3. b \in Bytes
  BY <1>1
<1>4. PICK l \in Nat \ {0} : l = Len(Escape(b))
  BY <1>3, EscapeShort, EscapeCode, EscapeNone
<1>5. ASSUME NEW e \in 1..l
      PROVE  /\ t + e <= n => At(cells, p + (e - 1)) = Escape(b)[e]
             /\ t + e = n + 1 => At(cells, p + (e - 1)) = stop /\ n < Len(Quoted(s))
  <2>1. Turns(s)[i] + e <= n + 1 =>
            IF Turns(s)[i] + e <= n
            THEN At(cells, p + (e - 1)) = Escape(s[i])[e]
            ELSE At(cells, p + (e - 1)) = stop /\ n < Len(Quoted(s))
    <3>1. e \in 1..Len(Escape(s[i]))
      BY <1>4
    <3> QED BY <3>1, TurnCell
  <2>2. t + e <= n => t + e <= n + 1
    BY <1>1
  <2>3. t + e = n + 1 => t + e <= n + 1 /\ ~(t + e <= n)
    BY <1>1
  <2> HIDE DEF p
  <2> QED BY <1>2, <2>1, <2>2, <2>3
<1>6. p \in Nat /\ p + (1 - 1) = p /\ p + (2 - 1) = p + 1
  BY <1>1, <1>2
<1>7. \A k \in 1..4 : p + ((k + 2) - 1) = p + 1 + k
  BY <1>6
<1>8. t + 1 <= n => At(cells, p) = Escape(b)[1]
  <2>1. 1 \in 1..l
    OBVIOUS
  <2> HIDE DEF p
  <2> QED BY <1>5, <1>6, <2>1
<1>9. CASE t = n
  <2>1. At(cells, p) = stop /\ n < Len(Quoted(s))
    <3>1. 1 \in 1..l /\ t + 1 = n + 1
      BY <1>9
    <3> HIDE DEF p
    <3> QED BY <1>5, <1>6, <3>1
  <2>2. At(cells, p) # Quote /\ Unit(cells, p) = Illegal
    BY <1>1, <2>1, UnitStop
  <2> QED BY <2>1, <2>2 DEF Taken
<1>10. ASSUME t + 1 <= n, b \in DOMAIN Short
       PROVE  Taken(cells, o, s, n, i)
  <2>1. l = 2 /\ Escape(b)[1] = "\\" /\ Escape(b)[2] = Short[b] /\ b \notin High
    BY <1>4, <1>10, EscapeShort, HighValues, ShortValues DEF Controls
  <2>2. At(cells, p) = "\\" /\ At(cells, p) # Quote
    BY <1>8, <1>10, <2>1, QuoteDiffers
  <2>3. 2 \in 1..l
    BY <2>1
  <2>4. CASE t + 2 <= n
    <3>1. At(cells, p + 1) = Short[b]
      <4> HIDE DEF p
      <4> QED BY <1>5, <1>6, <2>1, <2>3, <2>4
    <3>2. Unit(cells, p) = [takes |-> 2, adds |-> <<b>>]
      BY <1>10, <2>2, <3>1, UnitShort
    <3>3. Turns(s)[i] + 2 <= n /\ 2 \in Nat \ {0} /\ 2 = Len(Escape(s[i]))
      BY <1>2, <1>4, <2>1, <2>4
    <3> QED BY <2>1, <2>2, <3>2, <3>3, TakenOne
  <2>5. CASE ~(t + 2 <= n)
    <3>1. t + 2 = n + 1
      BY <1>1, <1>10, <2>5
    <3>2. At(cells, p + 1) = stop /\ n < Len(Quoted(s))
      <4> HIDE DEF p
      <4> QED BY <1>5, <1>6, <2>3, <3>1
    <3>3. Unit(cells, p) = Illegal
      BY <1>1, <2>2, <3>2, UnitCut
    <3> QED BY <2>2, <3>2, <3>3 DEF Taken
  <2> QED BY <2>4, <2>5
<1>11. ASSUME t + 1 <= n, b \in DOMAIN Code
       PROVE  Taken(cells, o, s, n, i)
  <2>1. /\ l = 6 /\ Escape(b)[1] = "\\" /\ Escape(b)[2] = "u" /\ b \notin High
        /\ \A k \in 1..4 : Escape(b)[k + 2] = Code[b][k]
    BY <1>4, <1>11, EscapeCode, HighValues DEF Controls
  <2>2. At(cells, p) = "\\" /\ At(cells, p) # Quote
    BY <1>8, <1>11, <2>1, QuoteDiffers
  <2>3. 2 \in 1..l /\ \A k \in 1..4 : k + 2 \in 1..l
    BY <2>1
  <2>4. t + 2 <= n => At(cells, p + 1) = "u"
    <3> HIDE DEF p
    <3> QED BY <1>5, <1>6, <2>1, <2>3
  <2>5. CASE t + 6 <= n
    <3>1. \A k \in 1..4 : At(cells, p + 1 + k) = Code[b][k]
      <4>1. ASSUME NEW k \in 1..4
            PROVE  At(cells, p + 1 + k) = Code[b][k]
        <5>1. k + 2 \in 1..l /\ t + (k + 2) <= n
          BY <1>1, <2>3, <2>5
        <5>2. At(cells, p + ((k + 2) - 1)) = Escape(b)[k + 2]
          <6> HIDE DEF p
          <6> QED BY <1>5, <5>1
        <5> HIDE DEF p
        <5> QED BY <1>7, <2>1, <5>2
      <4> QED BY <4>1
    <3>2. At(cells, p + 1) = "u"
      <4>1. t + 2 <= n
        BY <1>1, <2>5
      <4> QED BY <2>4, <4>1
    <3>3. Unit(cells, p) = [takes |-> 6, adds |-> <<b>>]
      BY <1>11, <2>2, <3>1, <3>2, UnitCode, SMTT(30)
    <3>4. Turns(s)[i] + 6 <= n /\ 6 \in Nat \ {0} /\ 6 = Len(Escape(s[i]))
      BY <1>2, <1>4, <2>1, <2>5
    <3> QED BY <2>1, <2>2, <3>3, <3>4, TakenOne
  <2>6. CASE t + 2 = n + 1
    <3>1. At(cells, p + 1) = stop /\ n < Len(Quoted(s))
      <4> HIDE DEF p
      <4> QED BY <1>5, <1>6, <2>3, <2>6
    <3>2. Unit(cells, p) = Illegal
      BY <1>1, <2>2, <3>1, UnitCut
    <3> QED BY <2>2, <3>1, <3>2 DEF Taken
  <2>7. CASE ~(t + 6 <= n) /\ t + 2 # n + 1
    <3>1. PICK k \in 1..4 : t + (k + 2) = n + 1
      <4>1. n \in Nat /\ t + 1 <= n
        BY <1>1, <1>11
      <4>2. (n + 1) - (t + 2) \in 1..4 /\ t + (((n + 1) - (t + 2)) + 2) = n + 1
        BY <4>1, <2>7
      <4> QED BY <4>2
    <3>2. At(cells, p + ((k + 2) - 1)) = stop /\ n < Len(Quoted(s))
      <4>1. k + 2 \in 1..l
        BY <2>3
      <4> HIDE DEF p
      <4> QED BY <1>5, <3>1, <4>1
    <3>3. At(cells, p + 1 + k) = stop
      <4> HIDE DEF p
      <4> QED BY <1>7, <3>2
    <3>4. At(cells, p + 1) = "u"
      <4>1. t + 2 <= n
        BY <1>1, <3>1
      <4> QED BY <2>4, <4>1
    <3>5. Unit(cells, p) = Illegal
      <4> HIDE DEF p
      <4> QED BY <1>1, <2>2, <3>3, <3>4, UnitCut
    <3> QED BY <2>2, <3>2, <3>5 DEF Taken
  <2> QED BY <2>5, <2>6, <2>7
<1>12. ASSUME t + 1 <= n, b \notin DOMAIN Short, b \notin DOMAIN Code, b \notin High
       PROVE  Taken(cells, o, s, n, i)
  <2>1. b \notin High \cup Controls \cup {Eof, Quote, "\\"}
    BY <1>3, <1>12, OneByte
  <2>2. l = 1 /\ Escape(b)[1] = b
    BY <1>3, <1>4, <1>12, EscapeNone
  <2>3. At(cells, p) = b
    BY <1>8, <1>12, <2>2
  <2>4. Unit(cells, p) = [takes |-> 1, adds |-> <<b>>]
    <3> HIDE DEF p, b
    <3> QED BY <2>1, <2>3, UnitPlain
  <2>5. Turns(s)[i] + 1 <= n /\ 1 \in Nat \ {0} /\ 1 = Len(Escape(s[i]))
    BY <1>2, <1>4, <1>12, <2>2
  <2>6. At(cells, p) # Quote
    BY <2>1, <2>3
  <2> QED BY <1>12, <2>4, <2>5, <2>6, TakenOne
<1>13. ASSUME t + 1 <= n, b \in High
       PROVE  Taken(cells, o, s, n, i)
  <2>1. Turns(s)[i] + 1 <= n
    BY <1>2, <1>13
  <2> QED BY <1>13, <2>1, TakenHigh
<1>14. t = n \/ t + 1 <= n
  BY <1>1, <1>2
<1> QED BY <1>9, <1>10, <1>11, <1>12, <1>13, <1>14

-----------------------------------------------------------------------------
(* What can be written is what can be read *)

\* The unit at a byte from 80 on is there exactly if the bytes from it on fit.
LEMMA UnitFits ==
    ASSUME NEW s \in Seq(Bytes), NEW i \in 1..Len(s), s[i] \in High
    PROVE  /\ Unit(s, i) # Illegal <=> Fits(s, i)
           /\ Fits(s, i) => Unit(s, i).takes = 1 + Len(Tails[s[i]])
<1> DEFINE c == s[i]
<1>1. At(s, i) = c /\ Len(s) \in Nat /\ DOMAIN s = 1..Len(s)
  BY DEF At
<1>2. CASE c \notin DOMAIN Tails
  <2>1. Unit(s, i) = Illegal
    BY <1>1, <1>2, UnitBroken
  <2> QED BY <1>2, <2>1 DEF Fits
<1>3. CASE c \in DOMAIN Tails
  <2>1. PICK l \in 1..3 : l = Len(Tails[c])
    BY <1>3, TailSteps
  <2>2. DOMAIN Tails[c] = 1..l
    BY <1>3, <2>1, TailsDomain
  <2>3. Unit(s, i) = IF \A k \in 1..l : At(s, i + k) \in Tails[c][k]
                     THEN [takes |-> 1 + l, adds |-> SubSeq(s, i, i + l)]
                     ELSE Illegal
    BY <1>1, <1>3, <2>1, <2>2, UnitHigh
  <2>4. (\A k \in 1..l : At(s, i + k) \in Tails[c][k]) <=> Fits(s, i)
    <3>1. ASSUME Fits(s, i), NEW k \in 1..l
          PROVE  At(s, i + k) \in Tails[c][k]
      <4>1. i + l <= Len(s) /\ s[i + k] \in Tails[c][k]
        BY <2>1, <3>1 DEF Fits
      <4>2. i + k \in 1..Len(s)
        BY <1>1, <4>1
      <4> QED BY <1>1, <4>1, <4>2 DEF At
    <3>2. ASSUME \A k \in 1..l : At(s, i + k) \in Tails[c][k]
          PROVE  Fits(s, i)
      <4>1. ASSUME NEW k \in 1..l
            PROVE  i + k \in 1..Len(s) /\ s[i + k] \in Tails[c][k]
        <5>1. At(s, i + k) \in {"80", "90", "A0"} /\ At(s, i + k) \in Tails[c][k]
          BY <1>3, <2>1, <3>2, TailsHigh
        <5>2. i + k \in DOMAIN s
          BY <5>1 DEF At, Eof
        <5> QED BY <1>1, <5>1, <5>2 DEF At
      <4>2. l \in 1..l
        OBVIOUS
      <4>3. i + l <= Len(s)
        BY <1>1, <4>1, <4>2
      <4> QED BY <1>3, <2>1, <4>1, <4>3 DEF Fits
    <3> QED BY <3>1, <3>2
  <2>5. CASE Fits(s, i)
    <3>1. PICK q \in Nat \ {0} : q = 1 + l
      OBVIOUS
    <3>2. PICK a : a = SubSeq(s, i, i + l)
      OBVIOUS
    <3>3. PICK unit : unit = Unit(s, i)
      OBVIOUS
    <3>4. unit = [takes |-> q, adds |-> a]
      BY <2>3, <2>4, <2>5, <3>1, <3>2, <3>3, Zenon
    <3>5. unit # Illegal /\ unit.takes = q
      BY <3>4, IllegalDiffers
    <3> QED BY <2>1, <2>5, <3>1, <3>3, <3>5, Zenon
  <2>6. CASE ~Fits(s, i)
    BY <2>3, <2>4, <2>6
  <2> QED BY <2>5, <2>6
<1> QED BY <1>2, <1>3

LEMMA AcceptedLexable ==
    ASSUME NEW s \in Seq(Bytes), Utf8(s)[Len(s)] = 0
    PROVE  Lexable(s)
<1> DEFINE starts == {i \in 1..(Len(s) + 1) : Utf8(s)[i - 1] = 0}
<1>1. Len(s) \in Nat /\ DOMAIN s = 1..Len(s)
  OBVIOUS
<1>2. 1 \in starts
  BY <1>1, Utf8Steps
<1>3. ASSUME NEW i \in starts \cap DOMAIN s
      PROVE  \/ s[i] \notin High /\ i + 1 \in starts
             \/ s[i] \in High /\ Unit(s, i) # Illegal /\ i + Unit(s, i).takes \in starts
  <2>1. i \in 1..Len(s) /\ Utf8(s)[i - 1] = 0
    BY <1>1
  <2>2. CASE s[i] \notin High
    <3>1. Utf8(s)[i] = 0
      BY <2>1, <2>2, Utf8Steps, DecodePlain
    <3>2. i + 1 \in 1..(Len(s) + 1) /\ (i + 1) - 1 = i
      BY <1>1, <2>1
    <3> QED BY <2>2, <3>1, <3>2
  <2>3. CASE s[i] \in High
    <3>1. Fits(s, i)
      BY <2>1, <2>3, AcceptedFits
    <3>2. PICK l \in 1..3 : l = Len(Tails[s[i]]) /\ i + l <= Len(s)
      BY <3>1, TailSteps DEF Fits
    <3>3. Utf8(s)[i + l] = 0
      BY <2>1, <3>1, <3>2, FittingAccepted
    <3>4. Unit(s, i) # Illegal /\ Unit(s, i).takes = 1 + l
      BY <2>1, <2>3, <3>1, <3>2, UnitFits
    <3>5. i + (1 + l) \in 1..(Len(s) + 1) /\ (i + (1 + l)) - 1 = i + l
      BY <1>1, <2>1, <3>2
    <3>6. i + (1 + l) \in starts
      BY <3>3, <3>5
    <3> QED BY <2>3, <3>4, <3>6
  <2> QED BY <2>2, <2>3
<1>4. starts \in SUBSET (1..(Len(s) + 1))
  OBVIOUS
<1> HIDE DEF starts
<1> QED BY <1>2, <1>3, <1>4 DEF Lexable

LEMMA LexableAccepted ==
    ASSUME NEW s \in Seq(Bytes), Lexable(s)
    PROVE  Utf8(s)[Len(s)] = 0
<1>1. Len(s) \in Nat /\ DOMAIN s = 1..Len(s)
  OBVIOUS
<1>2. PICK starts \in SUBSET (1..(Len(s) + 1)) :
        /\ 1 \in starts
        /\ \A i \in starts \cap DOMAIN s :
            \/ s[i] \notin High /\ i + 1 \in starts
            \/ s[i] \in High /\ Unit(s, i) # Illegal /\ i + Unit(s, i).takes \in starts
  BY DEF Lexable
<1> DEFINE Reached == {i \in starts : Utf8(s)[i - 1] = 0}
           T == {k \in Nat : \E i \in Reached : i >= k}
<1>3. 1 \in Reached
  BY <1>2, Utf8Steps
<1>4. ASSUME NEW i \in Reached, i # Len(s) + 1
      PROVE  \E j \in Reached : j >= i + 1
  <2>1. i \in 1..Len(s) /\ i \in starts \cap DOMAIN s /\ Utf8(s)[i - 1] = 0
    <3>1. i \in 1..(Len(s) + 1)
      BY <1>2
    <3>2. i \in 1..Len(s)
      BY <1>1, <1>4, <3>1
    <3> QED BY <1>1, <3>2
  <2>2. CASE s[i] \notin High
    <3>1. Utf8(s)[i] = 0
      BY <2>1, <2>2, Utf8Steps, DecodePlain
    <3>2. i + 1 \in starts /\ (i + 1) - 1 = i /\ i + 1 >= i + 1
      BY <1>2, <2>1, <2>2
    <3> QED BY <3>1, <3>2
  <2>3. CASE s[i] \in High
    <3>1. Unit(s, i) # Illegal /\ i + Unit(s, i).takes \in starts
      BY <1>2, <2>1, <2>3
    <3>2. Fits(s, i) /\ Unit(s, i).takes = 1 + Len(Tails[s[i]])
      BY <2>1, <2>3, <3>1, UnitFits
    <3>3. PICK l \in 1..3 : l = Len(Tails[s[i]])
      BY <3>2, TailSteps DEF Fits
    <3>4. Utf8(s)[i + l] = 0
      BY <2>1, <3>2, <3>3, FittingAccepted
    <3>5. i + (1 + l) \in starts
      BY <3>1, <3>2, <3>3
    <3>6. (i + (1 + l)) - 1 = i + l /\ i + (1 + l) >= i + 1
      BY <2>1
    <3> QED BY <3>4, <3>5, <3>6
  <2> QED BY <2>2, <2>3
<1>5. SUFFICES ASSUME Utf8(s)[Len(s)] # 0 PROVE FALSE
  OBVIOUS
<1>6. Len(s) + 1 \notin Reached
  <2>1. (Len(s) + 1) - 1 = Len(s)
    BY <1>1
  <2> QED BY <1>5, <2>1
<1>7. Reached \in SUBSET (1..(Len(s) + 1))
  OBVIOUS
<1> HIDE DEF Reached
<1>8. 0 \in T
  <2>1. 1 >= 0
    OBVIOUS
  <2> QED BY <1>3, <2>1
<1>9. \A k \in Nat : k \in T => k + 1 \in T
  <2>1. ASSUME NEW k \in Nat, k \in T
        PROVE  k + 1 \in T
    <3>1. PICK i \in Reached : i >= k
      BY <2>1
    <3>2. i # Len(s) + 1
      BY <1>6
    <3>3. PICK j \in Reached : j >= i + 1
      BY <1>4, <3>2
    <3>4. i \in Nat /\ j \in Nat
      BY <1>7
    <3>5. j >= k + 1
      BY <3>1, <3>3, <3>4
    <3> QED BY <3>5
  <2> QED BY <2>1
<1>10. T \in SUBSET Nat
  OBVIOUS
<1>11. Len(s) + 2 \in T
  <2> HIDE DEF T
  <2>1. T = Nat
    BY <1>8, <1>9, <1>10, SetInduction
  <2> QED BY <1>1, <2>1
<1>12. PICK i \in Reached : i >= Len(s) + 2
  BY <1>11
<1>13. i \in 1..(Len(s) + 1)
  BY <1>7
<1> QED BY <1>1, <1>12, <1>13

-----------------------------------------------------------------------------
(* Numbers *)

Worth(c) == CHOOSE v \in 0..9 : Digits[v + 1] = c
Figure == Range(Digits)

LEMMA WorthOfDigit ==
    ASSUME NEW v \in 0..9
    PROVE  Digits[v + 1] \in Figure /\ Worth(Digits[v + 1]) = v
<1>1. /\ Digits[1] = "0" /\ Digits[2] = "1" /\ Digits[3] = "2" /\ Digits[4] = "3"
      /\ Digits[5] = "4" /\ Digits[6] = "5" /\ Digits[7] = "6" /\ Digits[8] = "7"
      /\ Digits[9] = "8" /\ Digits[10] = "9"
  BY DEF Digits
<1>2. ASSUME NEW w \in 0..9, Digits[w + 1] = Digits[v + 1]
      PROVE  w = v
  <2>1. w \in {0, 1, 2, 3, 4, 5, 6, 7, 8, 9} /\ v \in {0, 1, 2, 3, 4, 5, 6, 7, 8, 9}
    OBVIOUS
  <2>2. /\ Digits[0 + 1] = "0" /\ Digits[1 + 1] = "1" /\ Digits[2 + 1] = "2" /\ Digits[3 + 1] = "3"
        /\ Digits[4 + 1] = "4" /\ Digits[5 + 1] = "5" /\ Digits[6 + 1] = "6" /\ Digits[7 + 1] = "7"
        /\ Digits[8 + 1] = "8" /\ Digits[9 + 1] = "9"
    BY <1>1
  <2> QED BY <1>2, <2>1, <2>2
<1>3. \E w \in 0..9 : Digits[w + 1] = Digits[v + 1]
  OBVIOUS
<1>4. Worth(Digits[v + 1]) \in 0..9 /\ Digits[Worth(Digits[v + 1]) + 1] = Digits[v + 1]
  BY <1>3 DEF Worth
<1>5. Digits[v + 1] \in Figure
  <2>1. v + 1 \in 1..Len(Digits) /\ Digits \in Seq(Range(Digits))
    BY DigitValues
  <2> QED BY <2>1 DEF Figure
<1> QED BY <1>2, <1>4, <1>5

LEMMA WorthTyped ==
    ASSUME NEW c \in Figure
    PROVE  Worth(c) \in 0..9
<1>1. PICK i \in DOMAIN Digits : Digits[i] = c
  BY DEF Figure, Range
<1>2. i \in 1..10
  BY DigitValues
<1>3. i - 1 \in 0..9 /\ (i - 1) + 1 = i
  BY <1>2
<1>4. \E v \in 0..9 : Digits[v + 1] = c
  BY <1>1, <1>3
<1> QED BY <1>4 DEF Worth

IsWorth(f, s) == f = [i \in 0..Len(s) |-> IF i = 0 THEN 0 ELSE 10 * f[i - 1] + Worth(s[i])]
Worths(s) == CHOOSE f : IsWorth(f, s)

LEMMA ValueIsWorth ==
    ASSUME NEW s
    PROVE  ValueOf(s) = Worths(s)[Len(s)]
BY DEF ValueOf, Worths, IsWorth, Worth

LEMMA WorthSteps ==
    ASSUME NEW s \in Seq(Figure)
    PROVE  /\ Worths(s)[0] = 0
           /\ \A i \in 1..Len(s) : Worths(s)[i] = 10 * Worths(s)[i - 1] + Worth(s[i])
           /\ \A i \in 0..Len(s) : Worths(s)[i] \in Nat
<1> DEFINE n == Len(s)
           step == [k \in 1..n |-> [r \in Nat |-> 10 * r + Worth(s[k])]]
<1>1. n \in Nat
  OBVIOUS
<1>2. \A k \in 1..n : Worth(s[k]) \in 0..9
  BY WorthTyped
<1> HIDE DEF n
<1>3. step \in [1..n -> [Nat -> Nat]]
  <2>1. \A k \in 1..n : \A r \in Nat : 10 * r + Worth(s[k]) \in Nat
    BY <1>2
  <2> QED BY <2>1
<1>4. \A k \in 1..n : \A r \in Nat : step[k][r] = 10 * r + Worth(s[k])
  OBVIOUS
<1> HIDE DEF step
<1>5. \E f : IsWorth(f, s)
  <2>1. PICK f \in [0..n -> Nat] : Unfolds(f, n, 0, step)
    BY <1>1, <1>3, UnfoldingExists
  <2>2. ASSUME NEW i \in 0..n
        PROVE  f[i] = IF i = 0 THEN 0 ELSE 10 * f[i - 1] + Worth(s[i])
    <3>1. CASE i = 0
      BY <2>1, <3>1 DEF Unfolds
    <3>2. CASE i # 0
      <4>1. i \in 1..n /\ i - 1 \in 0..n
        BY <1>1, <3>2
      <4>2. f[i] = step[i][f[i - 1]] /\ f[i - 1] \in Nat
        BY <2>1, <4>1 DEF Unfolds
      <4> QED BY <1>4, <3>2, <4>1, <4>2
    <3> QED BY <3>1, <3>2
  <2>3. f = [i \in 0..n |-> f[i]]
    OBVIOUS
  <2>4. f = [i \in 0..n |-> IF i = 0 THEN 0 ELSE 10 * f[i - 1] + Worth(s[i])]
    BY <2>2, <2>3
  <2> QED BY <2>4 DEF IsWorth, n
<1> DEFINE g == Worths(s)
<1>6. IsWorth(g, s)
  BY <1>5 DEF Worths
<1> HIDE DEF g
<1>7. \A i \in 0..n : g[i] = IF i = 0 THEN 0 ELSE 10 * g[i - 1] + Worth(s[i])
  BY <1>6 DEF IsWorth, n
<1>8. g[0] = 0 /\ \A i \in 1..n : g[i] = 10 * g[i - 1] + Worth(s[i])
  BY <1>1, <1>7
<1>9. \A i \in 0..n : g[i] \in Nat
  <2> DEFINE T == {k \in Nat : k <= n => g[k] \in Nat}
  <2>1. 0 \in T
    BY <1>8
  <2>2. ASSUME NEW k \in Nat, k \in T, k + 1 <= n
        PROVE  g[k + 1] \in Nat
    <3>1. k + 1 \in 1..n /\ (k + 1) - 1 = k /\ g[k] \in Nat
      BY <1>1, <2>2
    <3>2. g[k + 1] = 10 * g[k] + Worth(s[k + 1]) /\ Worth(s[k + 1]) \in 0..9
      BY <1>2, <1>8, <3>1
    <3> QED BY <3>1, <3>2, SMTT(30)
  <2>3. T = Nat
    <3>1. \A k \in Nat : k \in T => k + 1 \in T
      BY <2>2
    <3>2. T \in SUBSET Nat
      OBVIOUS
    <3> HIDE DEF T
    <3> QED BY <2>1, <3>1, <3>2, SetInduction
  <2> QED BY <1>1, <2>3
<1> QED BY <1>8, <1>9 DEF g, n

LEMMA Appended ==
    ASSUME NEW C, NEW s \in Seq(C), NEW c \in C
    PROVE  \E r \in Seq(C) : /\ r = Append(s, c) /\ Len(r) = Len(s) + 1
                             /\ \A i \in 1..Len(s) : r[i] = s[i]
<1>1. /\ Append(s, c) \in Seq(C) /\ Len(Append(s, c)) = Len(s) + 1
      /\ \A i \in 1..Len(s) : Append(s, c)[i] = s[i]
  OBVIOUS
<1> QED BY <1>1

\* One digit more.
LEMMA ValueAppend ==
    ASSUME NEW s \in Seq(Figure), NEW c \in Figure
    PROVE  ValueOf(s) \in Nat /\ ValueOf(Append(s, c)) = 10 * ValueOf(s) + Worth(c)
<1>1. PICK r \in Seq(Figure) : r = Append(s, c)
  <2>1. Append(s, c) \in Seq(Figure)
    OBVIOUS
  <2> QED BY <2>1
<1>2. PICK n \in Nat : n = Len(s)
  OBVIOUS
<1>3. Len(r) = n + 1 /\ r[n + 1] = c /\ \A i \in 1..n : r[i] = s[i]
  BY <1>1, <1>2
<1>4. PICK f : f = Worths(s)
  OBVIOUS
<1>5. PICK g : g = Worths(r)
  OBVIOUS
<1>6. /\ f[0] = 0 /\ \A i \in 1..n : f[i] = 10 * f[i - 1] + Worth(s[i])
      /\ \A i \in 0..n : f[i] \in Nat
  BY <1>2, <1>4, WorthSteps
<1>7. g[0] = 0 /\ \A i \in 1..(n + 1) : g[i] = 10 * g[i - 1] + Worth(r[i])
  BY <1>3, <1>5, WorthSteps
<1> DEFINE T == {k \in Nat : k <= n => g[k] = f[k]}
<1>8. 0 \in T
  BY <1>6, <1>7
<1>9. ASSUME NEW k \in Nat, k \in T, k + 1 <= n
      PROVE  g[k + 1] = f[k + 1]
  <2>1. k + 1 \in 1..n /\ k + 1 \in 1..(n + 1) /\ (k + 1) - 1 = k /\ g[k] = f[k]
    BY <1>9
  <2>2. g[k + 1] = 10 * g[k] + Worth(r[k + 1])
    BY <1>7, <2>1
  <2>3. f[k + 1] = 10 * f[k] + Worth(s[k + 1]) /\ r[k + 1] = s[k + 1]
    BY <1>3, <1>6, <2>1
  <2> QED BY <2>1, <2>2, <2>3
<1>10. T = Nat
  <2>1. \A k \in Nat : k \in T => k + 1 \in T
    BY <1>9
  <2>2. T \in SUBSET Nat
    OBVIOUS
  <2> HIDE DEF T
  <2> QED BY <1>8, <2>1, <2>2, SetInduction
<1>11. g[n] = f[n]
  BY <1>10
<1>12. g[n + 1] = 10 * g[n] + Worth(c)
  <2>1. n + 1 \in 1..(n + 1) /\ (n + 1) - 1 = n
    OBVIOUS
  <2>2. g[n + 1] = 10 * g[n] + Worth(r[n + 1])
    BY <1>7, <2>1
  <2> QED BY <1>3, <2>2
<1>13. ValueOf(s) = f[n] /\ ValueOf(r) = g[n + 1]
  BY <1>2, <1>3, <1>4, <1>5, ValueIsWorth
<1>14. f[n] \in Nat
  BY <1>6
<1> QED BY <1>1, <1>11, <1>12, <1>13, <1>14

LEMMA ValueEmpty == ValueOf(<<>>) = 0
<1>1. <<>> \in Seq(Figure) /\ Len(<<>>) = 0
  OBVIOUS
<1>2. Worths(<<>>)[0] = 0
  BY <1>1, WorthSteps
<1> QED BY <1>1, <1>2, ValueIsWorth

LEMMA ValueOne ==
    ASSUME NEW v \in 0..9
    PROVE  /\ <<Digits[v + 1]>> \in Seq(Figure) /\ Len(<<Digits[v + 1]>>) = 1
           /\ <<Digits[v + 1]>>[1] = Digits[v + 1]
           /\ ValueOf(<<Digits[v + 1]>>) = v
<1>1. PICK c \in Figure : c = Digits[v + 1] /\ Worth(c) = v
  BY WorthOfDigit
<1>2. /\ <<>> \in Seq(Figure) /\ Append(<<>>, c) = <<c>>
      /\ <<c>> \in Seq(Figure) /\ Len(<<c>>) = 1 /\ <<c>>[1] = c
  OBVIOUS
<1>3. ValueOf(Append(<<>>, c)) = 10 * 0 + Worth(c)
  BY <1>2, ValueAppend, ValueEmpty
<1>4. 10 * 0 + v = v
  OBVIOUS
<1> QED BY <1>1, <1>2, <1>3, <1>4

\* Two digits more.
LEMMA ValuePair ==
    ASSUME NEW s \in Seq(Figure), NEW y \in 0..99
    PROVE  /\ s \o Pair(y) \in Seq(Figure) /\ Len(s \o Pair(y)) = Len(s) + 2
           /\ \A i \in 1..Len(s) : (s \o Pair(y))[i] = s[i]
           /\ ValueOf(s \o Pair(y)) = 100 * ValueOf(s) + y
           /\ Pair(y) \in Seq(Figure) /\ Pair(y)[1] = Digits[y \div 10 + 1]
<1>1. PICK u \in 0..9 : u = y \div 10
  OBVIOUS
<1>2. PICK v \in 0..9 : v = y % 10
  OBVIOUS
<1>3. y = 10 * u + v
  BY <1>1, <1>2
<1>4. PICK a \in Figure : a = Digits[u + 1] /\ Worth(a) = u
  BY WorthOfDigit
<1>5. PICK b \in Figure : b = Digits[v + 1] /\ Worth(b) = v
  BY WorthOfDigit
<1>6. Pair(y) = <<a, b>>
  BY <1>1, <1>2, <1>4, <1>5 DEF Pair
<1>7. PICK r \in Seq(Figure) : r = Append(s, a) /\ Len(r) = Len(s) + 1 /\ \A i \in 1..Len(s) : r[i] = s[i]
  BY Appended
<1>8. PICK q \in Seq(Figure) : q = Append(r, b) /\ Len(q) = Len(r) + 1 /\ \A i \in 1..Len(r) : q[i] = r[i]
  BY Appended
<1>9. s \o <<a, b>> = q
  <2>1. <<a, b>> \in Seq(Figure)
    OBVIOUS
  <2>2. Append(Append(s, a), b) = s \o <<a, b>>
    OBVIOUS
  <2> QED BY <1>7, <1>8, <2>2
<1>10. ValueOf(q) = 10 * ValueOf(r) + v /\ ValueOf(r) \in Nat
  BY <1>5, <1>8, ValueAppend
<1>11. ValueOf(r) = 10 * ValueOf(s) + u /\ ValueOf(s) \in Nat
  BY <1>4, <1>7, ValueAppend
<1>12. ValueOf(q) = 100 * ValueOf(s) + y
  BY <1>3, <1>10, <1>11, SMTT(30)
<1>13. Len(q) = Len(s) + 2 /\ \A i \in 1..Len(s) : q[i] = s[i]
  BY <1>7, <1>8
<1>14. <<a, b>> \in Seq(Figure) /\ <<a, b>>[1] = a
  OBVIOUS
<1> QED BY <1>1, <1>4, <1>6, <1>9, <1>12, <1>13, <1>14

IsAscii(f, n) ==
    f = [x \in 0..n |-> IF x >= 100 THEN f[x \div 100] \o Pair(x % 100)
                        ELSE IF x >= 10 THEN Pair(x) ELSE <<Digits[x + 1]>>]

\* The digits of x, without leading zeros.
Written(d, x) ==
    /\ d \in Seq(Figure) /\ Len(d) >= 1
    /\ ValueOf(d) = x
    /\ d[1] = "0" => x = 0 /\ Len(d) = 1

LEMMA ZeroDigit ==
    ASSUME NEW v \in 0..9, Digits[v + 1] = "0"
    PROVE  v = 0
<1>1. Digits[0 + 1] = "0" /\ 0 \in 0..9
  BY DEF Digits
<1>2. Worth(Digits[0 + 1]) = 0 /\ Worth(Digits[v + 1]) = v
  BY <1>1, WorthOfDigit
<1> QED BY <1>1, <1>2

LEMMA WrittenOne ==
    ASSUME NEW x \in 0..9
    PROVE  Written(<<Digits[x + 1]>>, x)
<1>1. PICK d : d = <<Digits[x + 1]>>
  OBVIOUS
<1>2. /\ d \in Seq(Figure) /\ Len(d) = 1 /\ d[1] = Digits[x + 1] /\ ValueOf(d) = x
  BY <1>1, ValueOne
<1>3. d[1] = "0" => x = 0
  BY <1>2, ZeroDigit
<1>4. Len(d) >= 1
  BY <1>2
<1> QED BY <1>1, <1>2, <1>3, <1>4 DEF Written

LEMMA WrittenTwo ==
    ASSUME NEW x \in 10..99
    PROVE  Written(Pair(x), x)
<1>1. x \in 0..99 /\ <<>> \in Seq(Figure) /\ Len(<<>>) = 0
  OBVIOUS
<1>2. /\ <<>> \o Pair(x) \in Seq(Figure) /\ Len(<<>> \o Pair(x)) = Len(<<>>) + 2
      /\ ValueOf(<<>> \o Pair(x)) = 100 * ValueOf(<<>>) + x
      /\ Pair(x) \in Seq(Figure) /\ Pair(x)[1] = Digits[x \div 10 + 1]
  BY <1>1, ValuePair, ZenonT(30)
<1>3. PICK d \in Seq(Figure) : d = Pair(x)
  BY <1>2
<1>4. <<>> \o d = d
  OBVIOUS
<1>5. ValueOf(d) = 100 * ValueOf(<<>>) + x /\ Len(d) = 0 + 2
  BY <1>1, <1>2, <1>3, <1>4
<1>6. ValueOf(d) = x /\ Len(d) = 2 /\ Len(d) >= 1
  BY <1>5, ValueEmpty
<1>7. PICK u \in 1..9 : u = x \div 10
  OBVIOUS
<1>8. d[1] = Digits[u + 1] /\ u \in 0..9 /\ u # 0
  BY <1>2, <1>3, <1>7
<1>9. d[1] # "0"
  BY <1>8, ZeroDigit
<1> QED BY <1>3, <1>6, <1>9 DEF Written

LEMMA WrittenMore ==
    ASSUME NEW x \in Nat, x >= 100, NEW c, Written(c, x \div 100)
    PROVE  Written(c \o Pair(x % 100), x)
<1>1. PICK y \in 0..99 : y = x % 100
  OBVIOUS
<1>2. PICK z \in Nat : z = x \div 100 /\ z >= 1
  OBVIOUS
<1>3. x = 100 * z + y
  BY <1>1, <1>2
<1>4. c \in Seq(Figure) /\ Len(c) >= 1 /\ ValueOf(c) = z /\ c[1] # "0"
  BY <1>2 DEF Written
<1>5. PICK d : d = c \o Pair(y)
  OBVIOUS
<1>6. /\ d \in Seq(Figure) /\ Len(d) = Len(c) + 2
      /\ \A i \in 1..Len(c) : d[i] = c[i]
      /\ ValueOf(d) = 100 * ValueOf(c) + y
  BY <1>4, <1>5, ValuePair, ZenonT(30)
<1>7. Len(c) \in Nat /\ 1 \in 1..Len(c)
  BY <1>4
<1>8. d[1] # "0" /\ Len(d) >= 1
  BY <1>4, <1>6, <1>7
<1>9. ValueOf(d) = x
  BY <1>3, <1>4, <1>6
<1> QED BY <1>1, <1>5, <1>6, <1>8, <1>9 DEF Written

LEMMA AsciiExists ==
    ASSUME NEW n \in Nat
    PROVE  \E f : IsAscii(f, n)
<1> DEFINE Rule(f, x) == f[x] = IF x >= 100 THEN f[x \div 100] \o Pair(x % 100)
                                ELSE IF x >= 10 THEN Pair(x) ELSE <<Digits[x + 1]>>
           Has(k) == \E f \in [0..k -> Seq(Figure)] : \A x \in 0..k : Rule(f, x)
           T == {k \in Nat : Has(k)}
<1>1. 0 \in T
  <2> DEFINE f == [x \in 0..0 |-> <<Digits[1]>>]
  <2>1. <<Digits[0 + 1]>> \in Seq(Figure) /\ 0 + 1 = 1
    <3>1. 0 \in 0..9
      OBVIOUS
    <3> QED BY <3>1, ValueOne
  <2>2. f \in [0..0 -> Seq(Figure)]
    BY <2>1
  <2>3. \A x \in 0..0 : Rule(f, x)
    OBVIOUS
  <2> HIDE DEF f, Rule
  <2> QED BY <2>2, <2>3
<1>2. ASSUME NEW k \in Nat, Has(k)
      PROVE  Has(k + 1)
  <2>1. PICK f \in [0..k -> Seq(Figure)] : \A x \in 0..k : Rule(f, x)
    BY <1>2
  <2>2. PICK y \in Nat : y = k + 1
    OBVIOUS
  <2>3. ASSUME NEW x \in 0..y, x >= 100
        PROVE  x \div 100 \in 0..k
    <3>1. x \in Nat /\ x \div 100 \in Nat /\ x \div 100 <= x - 1
      BY <2>3
    <3> QED BY <2>2, <3>1
  <2> DEFINE new == IF y >= 100 THEN f[y \div 100] \o Pair(y % 100)
                    ELSE IF y >= 10 THEN Pair(y) ELSE <<Digits[y + 1]>>
  <2>4. new \in Seq(Figure)
    <3>1. CASE y >= 100
      <4>1. y \div 100 \in 0..k
        BY <2>3, <3>1
      <4>2. f[y \div 100] \in Seq(Figure) /\ y % 100 \in 0..99
        BY <4>1
      <4>3. f[y \div 100] \o Pair(y % 100) \in Seq(Figure)
        BY <4>2, ValuePair, ZenonT(30)
      <4> QED BY <3>1, <4>3
    <3>2. CASE y >= 10 /\ ~(y >= 100)
      <4>1. y \in 10..99
        BY <3>2
      <4>2. Pair(y) \in Seq(Figure)
        BY <4>1, WrittenTwo DEF Written
      <4> QED BY <3>2, <4>2
    <3>3. CASE ~(y >= 10)
      <4>1. y \in 0..9 /\ ~(y >= 100)
        BY <3>3
      <4>2. <<Digits[y + 1]>> \in Seq(Figure)
        BY <4>1, ValueOne
      <4> QED BY <3>3, <4>1, <4>2
    <3> QED BY <3>1, <3>2, <3>3
  <2> DEFINE g == [x \in 0..y |-> IF x = y THEN new ELSE f[x]]
  <2> HIDE DEF new
  <2>5. g \in [0..y -> Seq(Figure)]
    <3>1. \A x \in 0..y : x # y => x \in 0..k
      BY <2>2
    <3>2. \A x \in 0..y : (IF x = y THEN new ELSE f[x]) \in Seq(Figure)
      BY <2>4, <3>1
    <3> QED BY <3>2
  <2>6. \A x \in 0..k : g[x] = f[x]
    BY <2>2
  <2>7. g[y] = new
    OBVIOUS
  <2> HIDE DEF g
  <2>8. ASSUME NEW x \in 0..y
        PROVE  Rule(g, x)
    <3>1. CASE x = y
      <4>1. y >= 100 => g[y \div 100] = f[y \div 100]
        BY <2>3, <2>6
      <4> QED BY <2>7, <3>1, <4>1 DEF new
    <3>2. CASE x # y
      <4>1. x \in 0..k
        BY <2>2, <3>2
      <4>2. x >= 100 => g[x \div 100] = f[x \div 100]
        BY <2>3, <2>6
      <4>3. Rule(f, x) /\ g[x] = f[x]
        <5> HIDE DEF Rule
        <5> QED BY <2>1, <2>6, <4>1
      <4> QED BY <4>2, <4>3
    <3> QED BY <3>1, <3>2
  <2> HIDE DEF Rule
  <2> QED BY <2>2, <2>5, <2>8
<1>3. T = Nat
  <2> HIDE DEF Has
  <2>1. \A k \in Nat : k \in T => k + 1 \in T
    BY <1>2
  <2>2. T \in SUBSET Nat
    OBVIOUS
  <2> HIDE DEF T
  <2> QED BY <1>1, <2>1, <2>2, SetInduction
<1>4. PICK f \in [0..n -> Seq(Figure)] : \A x \in 0..n : Rule(f, x)
  <2>1. Has(n)
    <3> HIDE DEF Has
    <3> QED BY <1>3
  <2> HIDE DEF Rule
  <2> QED BY <2>1
<1>5. f = [x \in 0..n |-> f[x]]
  OBVIOUS
<1>6. IsAscii(f, n)
  BY <1>4, <1>5 DEF IsAscii
<1> QED BY <1>6

\* The numbers that are written are read as what they were.
LEMMA UnsignedWritten ==
    ASSUME NEW n \in Nat
    PROVE  Written(DumpUnsigned(n), n)
<1>1. PICK f : f = (CHOOSE g : IsAscii(g, n))
  OBVIOUS
<1>2. IsAscii(f, n)
  BY <1>1, AsciiExists
<1>3. DumpUnsigned(n) = f[n]
  BY <1>1 DEF DumpUnsigned, IsAscii
<1>4. \A x \in 0..n : f[x] = IF x >= 100 THEN f[x \div 100] \o Pair(x % 100)
                             ELSE IF x >= 10 THEN Pair(x) ELSE <<Digits[x + 1]>>
  BY <1>2 DEF IsAscii
<1> DEFINE T == {k \in Nat : \A x \in 0..k : x <= n => Written(f[x], x)}
<1>5. ASSUME NEW x \in 0..n, x >= 100 => Written(f[x \div 100], x \div 100)
      PROVE  Written(f[x], x)
  <2>1. CASE x >= 100
    <3>1. f[x] = f[x \div 100] \o Pair(x % 100)
      BY <1>4, <2>1
    <3> QED BY <1>5, <2>1, <3>1, WrittenMore
  <2>2. CASE x >= 10 /\ ~(x >= 100)
    <3>1. f[x] = Pair(x)
      BY <1>4, <2>2
    <3>2. x \in 10..99
      BY <2>2
    <3> QED BY <3>1, <3>2, WrittenTwo
  <2>3. CASE ~(x >= 10)
    <3>1. ~(x >= 100) /\ x \in 0..9
      BY <2>3
    <3>2. f[x] = <<Digits[x + 1]>>
      BY <1>4, <2>3, <3>1
    <3> QED BY <3>1, <3>2, WrittenOne
  <2> QED BY <2>1, <2>2, <2>3
<1>6. 0 \in T
  <2>1. ASSUME NEW x \in 0..0
        PROVE  Written(f[x], x)
    <3>1. x \in 0..n /\ ~(x >= 100)
      OBVIOUS
    <3> QED BY <1>5, <3>1
  <2> QED BY <2>1
<1>7. ASSUME NEW k \in Nat, k \in T
      PROVE  k + 1 \in T
  <2>1. ASSUME NEW x \in 0..(k + 1), x <= n
        PROVE  Written(f[x], x)
    <3>1. x \in 0..n /\ x \in Nat
      BY <2>1
    <3>2. ASSUME x >= 100
          PROVE  Written(f[x \div 100], x \div 100)
      <4>1. x \div 100 \in Nat /\ x \div 100 <= x - 1
        BY <3>1, <3>2
      <4>2. x \div 100 \in 0..k /\ x \div 100 <= n
        BY <2>1, <4>1
      <4> QED BY <1>7, <4>2
    <3> QED BY <1>5, <3>1, <3>2
  <2> QED BY <2>1
<1>8. T = Nat
  <2>1. \A k \in Nat : k \in T => k + 1 \in T
    BY <1>7
  <2>2. T \in SUBSET Nat
    OBVIOUS
  <2> HIDE DEF T
  <2> QED BY <1>6, <2>1, <2>2, SetInduction
<1>9. n \in T /\ n \in 0..n /\ n <= n
  BY <1>8
<1> QED BY <1>3, <1>9

\* What follows a sign is not a zero, and what there is without one is a zero or does not
\* begin with one.
NumberText(d, n) ==
    /\ d \in Seq(Figure \cup {"-"}) /\ Len(d) >= 1
    /\ n < 0 => /\ d[1] = "-" /\ Len(d) >= 2 /\ d[2] # "0"
                /\ \A h \in 2..Len(d) : d[h] \in Figure
                /\ ValueOf(Tail(d)) = -n
    /\ n >= 0 => /\ \A h \in 1..Len(d) : d[h] \in Figure
                 /\ d[1] = "0" => Len(d) = 1
                 /\ ValueOf(d) = n

LEMMA IntegerText ==
    ASSUME NEW n \in Int
    PROVE  NumberText(DumpInteger(n), n)
<1>1. CASE n >= 0
  <2>1. Written(DumpUnsigned(n), n)
    BY <1>1, UnsignedWritten
  <2>2. PICK d : d = DumpUnsigned(n)
    OBVIOUS
  <2>3. d = DumpInteger(n)
    BY <1>1, <2>2 DEF DumpInteger
  <2>4. d \in Seq(Figure) /\ Len(d) >= 1 /\ ValueOf(d) = n /\ (d[1] = "0" => Len(d) = 1)
    BY <2>1, <2>2 DEF Written
  <2>5. d \in Seq(Figure \cup {"-"}) /\ \A h \in 1..Len(d) : d[h] \in Figure
    BY <2>4
  <2> QED BY <1>1, <2>3, <2>4, <2>5 DEF NumberText
<1>2. CASE n < 0
  <2>1. PICK x \in Nat : x = -n /\ x # 0
    BY <1>2
  <2>2. RemoveSign(n) = x
    BY <2>1 DEF RemoveSign
  <2>3. PICK u : u = DumpUnsigned(x)
    OBVIOUS
  <2>4. Written(u, x)
    BY <2>3, UnsignedWritten
  <2>5. u \in Seq(Figure) /\ Len(u) >= 1 /\ ValueOf(u) = x /\ u[1] # "0"
    BY <2>1, <2>4 DEF Written
  <2>6. PICK l \in Nat : l = Len(u) /\ l >= 1
    BY <2>5
  <2>7. PICK d : d = <<"-">> \o u
    OBVIOUS
  <2>8. DumpInteger(n) = d
    BY <1>2, <2>2, <2>3, <2>7 DEF DumpInteger
  <2>9. PICK q \in Seq(Figure \cup {"-"}) : q = <<"-">> /\ Len(q) = 1 /\ q[1] = "-"
    <3>1. <<"-">> \in Seq(Figure \cup {"-"}) /\ Len(<<"-">>) = 1 /\ <<"-">>[1] = "-"
      OBVIOUS
    <3> QED BY <3>1
  <2>10. u \in Seq(Figure \cup {"-"})
    BY <2>5
  <2>11. /\ d \in Seq(Figure \cup {"-"}) /\ Len(d) = l + 1
         /\ \A h \in 1..(l + 1) : d[h] = IF h <= 1 THEN q[h] ELSE u[h - 1]
    <3>1. d = q \o u
      BY <2>7, <2>9
    <3>2. /\ q \o u \in Seq(Figure \cup {"-"}) /\ Len(q \o u) = Len(q) + Len(u)
          /\ \A h \in 1..(Len(q) + Len(u)) : (q \o u)[h] = IF h <= Len(q) THEN q[h] ELSE u[h - Len(q)]
      BY <2>10, ConcatProperties
    <3>3. Len(q) = 1 /\ Len(u) = l /\ 1 + l = l + 1
      BY <2>6, <2>9
    <3> QED BY <3>1, <3>2, <3>3
  <2>12. d[1] = "-"
    <3>1. 1 \in 1..(l + 1)
      OBVIOUS
    <3> QED BY <2>9, <2>11, <3>1
  <2>13. \A h \in 1..l : d[h + 1] = u[h]
    <3>1. ASSUME NEW h \in 1..l
          PROVE  d[h + 1] = u[h]
      <4>1. h + 1 \in 1..(l + 1) /\ ~(h + 1 <= 1) /\ (h + 1) - 1 = h
        OBVIOUS
      <4> QED BY <2>11, <4>1
    <3> QED BY <3>1
  <2>14. d[2] # "0"
    <3>1. 1 \in 1..l /\ 1 + 1 = 2
      BY <2>6
    <3> QED BY <2>5, <2>13, <3>1
  <2>15. ASSUME NEW h \in 2..Len(d)
         PROVE  d[h] \in Figure
    <3>1. h - 1 \in 1..l /\ (h - 1) + 1 = h
      BY <2>11
    <3>2. u[h - 1] \in Figure
      BY <2>5, <2>6, <3>1
    <3> QED BY <2>13, <3>1, <3>2
  <2>16. Tail(d) = u
    <3>1. d # <<>>
      BY <2>11
    <3>2. /\ Tail(d) \in Seq(Figure \cup {"-"}) /\ Len(Tail(d)) = Len(d) - 1
          /\ \A h \in 1..Len(Tail(d)) : Tail(d)[h] = d[h + 1]
      BY <2>11, <3>1, HeadTailProperties
    <3>3. Len(Tail(d)) = l /\ Len(u) = l
      BY <2>6, <2>11, <3>2
    <3>4. \A h \in 1..Len(Tail(d)) : Tail(d)[h] = u[h]
      BY <2>13, <3>2, <3>3
    <3> QED BY <2>10, <3>2, <3>3, <3>4, SeqEqual
  <2>17. Len(d) >= 2 /\ Len(d) >= 1
    BY <2>6, <2>11
  <2>18. ValueOf(Tail(d)) = -n
    BY <2>1, <2>5, <2>16
  <2>19. ~(n >= 0)
    BY <1>2
  <2> QED BY <2>8, <2>11, <2>12, <2>14, <2>15, <2>17, <2>18, <2>19 DEF NumberText
<1> QED BY <1>1, <1>2

-----------------------------------------------------------------------------
(* Casts *)

\* Nothing but 0 is a multiple of m between -m and m.
LEMMA SmallMultiple ==
    ASSUME NEW k \in Int, NEW m \in Nat \ {0}, k * m < m, k * m > -m
    PROVE  k = 0
<1>1. CASE k >= 1
  <2>1. (k - 1) * m >= 0
    BY <1>1
  <2>2. (k - 1) * m = k * m - m
    OBVIOUS
  <2> QED BY <2>1, <2>2
<1>2. CASE k <= -1
  <2>1. (-k - 1) * m >= 0
    BY <1>2
  <2>2. (-k - 1) * m = -(k * m) - m
    OBVIOUS
  <2> QED BY <2>1, <2>2
<1> QED BY <1>1, <1>2

\* What is less than m is its own remainder.
LEMMA SmallRemainder ==
    ASSUME NEW m \in Nat \ {0}, NEW a \in 0..(m - 1)
    PROVE  a % m = a
<1>1. m \in Int /\ m > 0 /\ a \in Int
  OBVIOUS
<1>2. a % m = a - (a \div m) * m
  BY <1>1, SMTT(30)
<1>3. a \div m \in Int /\ a % m \in 0..(m - 1)
  BY <1>1
<1>4. PICK k \in Int : k = a \div m
  BY <1>3
<1>5. k * m \in Int /\ a % m = a - k * m
  BY <1>1, <1>2, <1>4
<1>6. k * m < m /\ k * m > -m
  BY <1>1, <1>3, <1>5
<1>7. k = 0
  BY <1>6, SmallMultiple
<1>8. k * m = 0
  BY <1>7
<1> QED BY <1>1, <1>5, <1>8

LEMMA CastFits ==
    ASSUME NEW type \in {"string", "size_t", "int64_t", "short"}, NEW value, IsOf(type, value)
    PROVE  Cast(type, value) = value
<1>1. HalfRange \in Nat \ {0} /\ HalfShort \in Nat \ {0}
  BY MessagesAssumption
<1>2. ASSUME NEW half \in Nat \ {0}, NEW x \in -half..(half - 1)
      PROVE  Wrapped(x, half) = x
  <2>1. 2 * half \in Nat \ {0} /\ x + half \in 0..(2 * half - 1)
    OBVIOUS
  <2>2. (x + half) % (2 * half) = x + half
    BY <2>1, SmallRemainder
  <2> QED BY <2>2 DEF Wrapped
<1>3. CASE type = "string"
  BY <1>3 DEF Cast
<1>4. CASE type = "size_t"
  <2>1. value \in 0..(2 * HalfRange - 1) /\ 2 * HalfRange \in Nat \ {0}
    BY <1>1, <1>4 DEF IsOf
  <2>2. value % (2 * HalfRange) = value
    BY <2>1, SmallRemainder
  <2> QED BY <1>4, <2>2 DEF Cast
<1>5. CASE type = "int64_t"
  <2>1. value \in -HalfRange..(HalfRange - 1)
    BY <1>5 DEF IsOf
  <2>2. Wrapped(value, HalfRange) = value
    BY <1>1, <1>2, <2>1
  <2> QED BY <1>5, <2>2 DEF Cast
<1>6. CASE type = "short"
  <2>1. value \in -HalfShort..(HalfShort - 1)
    BY <1>6 DEF IsOf
  <2>2. Wrapped(value, HalfShort) = value
    BY <1>1, <1>2, <2>1
  <2> QED BY <1>6, <2>2 DEF Cast
<1> QED BY <1>3, <1>4, <1>5, <1>6

-----------------------------------------------------------------------------
(* The text of a packet *)

TypeAt(m, j) == Fields[m.kind][j]
Types == {"string", "size_t", "int64_t", "short"}

LEMMA FieldsValues ==
    /\ DOMAIN Fields = {"ANNOUNCE_MESSAGE", "USER_AUTHORIZE", "USER_AUTHORIZE_RESPONSE",
                        "CHECK_BALANCE_RESPONSE", "USER_TRANSACTION_REQUEST"}
    /\ \A kind \in DOMAIN Fields : Fields[kind] \in Seq(Types) /\ Fields[kind] # <<>>
<1>1. DOMAIN Fields = {"ANNOUNCE_MESSAGE", "USER_AUTHORIZE", "USER_AUTHORIZE_RESPONSE",
                       "CHECK_BALANCE_RESPONSE", "USER_TRANSACTION_REQUEST"}
  BY DEF Fields
<1>2. /\ Fields["ANNOUNCE_MESSAGE"] = <<"string">>
      /\ Fields["USER_AUTHORIZE"] = <<"string", "size_t">>
      /\ Fields["USER_AUTHORIZE_RESPONSE"] = <<"short">>
      /\ Fields["CHECK_BALANCE_RESPONSE"] =
            <<"int64_t", "int64_t", "int64_t", "int64_t", "int64_t", "int64_t">>
      /\ Fields["USER_TRANSACTION_REQUEST"] = <<"int64_t", "int64_t", "short">>
  BY DEF Fields
<1> DEFINE Some == Seq(Types) \ {<<>>}
<1>3. /\ <<"string">> \in Some /\ <<"string", "size_t">> \in Some
      /\ <<"short">> \in Some /\ <<"int64_t", "int64_t", "short">> \in Some
      /\ <<"int64_t", "int64_t", "int64_t", "int64_t", "int64_t", "int64_t">> \in Some
  BY DEF Types
<1> HIDE DEF Some
<1>4. ASSUME NEW kind \in DOMAIN Fields
      PROVE  Fields[kind] \in Some
  <2>1. CASE kind = "ANNOUNCE_MESSAGE"
    BY <1>2, <1>3, <2>1
  <2>2. CASE kind = "USER_AUTHORIZE"
    BY <1>2, <1>3, <2>2
  <2>3. CASE kind = "USER_AUTHORIZE_RESPONSE"
    BY <1>2, <1>3, <2>3
  <2>4. CASE kind = "CHECK_BALANCE_RESPONSE"
    BY <1>2, <1>3, <2>4
  <2>5. CASE kind = "USER_TRANSACTION_REQUEST"
    BY <1>2, <1>3, <2>5
  <2> QED BY <1>1, <2>1, <2>2, <2>3, <2>4, <2>5
<1> QED BY <1>1, <1>4 DEF Some

LEMMA MessageFields ==
    ASSUME NEW m \in Messages
    PROVE  /\ m.kind \in DOMAIN Fields
           /\ Len(m.fields) \in Nat \ {0}
           /\ DOMAIN m.fields = 1..Len(m.fields) /\ DOMAIN Fields[m.kind] = 1..Len(m.fields)
           /\ m.fields = [j \in 1..Len(m.fields) |-> m.fields[j]]
           /\ \A j \in 1..Len(m.fields) : TypeAt(m, j) \in Types /\ IsOf(TypeAt(m, j), m.fields[j])
<1>1. /\ m.kind \in DOMAIN Fields
      /\ m.fields = [i \in DOMAIN Fields[m.kind] |-> m.fields[i]]
      /\ \A i \in DOMAIN m.fields : IsOf(Fields[m.kind][i], m.fields[i])
  BY MessagesAssumption
<1>2. PICK types \in Seq(Types) : types = Fields[m.kind] /\ types # <<>>
  BY <1>1, FieldsValues
<1>3. PICK k \in Nat \ {0} : k = Len(types) /\ DOMAIN types = 1..k /\ \A i \in 1..k : types[i] \in Types
  BY <1>2
<1>4. m.fields = [i \in 1..k |-> m.fields[i]]
  BY <1>1, <1>2, <1>3
<1>5. DOMAIN m.fields = 1..k
  BY <1>4
<1>6. Len(m.fields) = k
  <2>1. m.fields \in Seq({m.fields[i] : i \in 1..k})
    BY <1>4
  <2> QED BY <1>5, <2>1
<1>7. \A i \in 1..k : TypeAt(m, i) \in Types /\ IsOf(TypeAt(m, i), m.fields[i])
  BY <1>1, <1>2, <1>3, <1>5 DEF TypeAt
<1> QED BY <1>1, <1>2, <1>3, <1>4, <1>5, <1>6, <1>7

LEMMA ElementText ==
    ASSUME NEW m \in Messages, NEW j \in 1..Len(m.fields)
    PROVE  /\ Element(m, j) \in Seq(Glyphs) /\ Len(Element(m, j)) \in Nat \ {0}
           /\ TypeAt(m, j) = "string" =>
                /\ m.fields[j] \in Seq(Bytes) /\ Element(m, j) = Quoted(m.fields[j])
           /\ TypeAt(m, j) # "string" =>
                /\ m.fields[j] \in Int /\ Element(m, j) = DumpInteger(m.fields[j])
                /\ NumberText(Element(m, j), m.fields[j])
<1>1. TypeAt(m, j) \in Types /\ IsOf(TypeAt(m, j), m.fields[j])
  BY MessageFields
<1>2. CASE TypeAt(m, j) = "string"
  <2>1. m.fields[j] \in Seq(Bytes)
    BY <1>1, <1>2 DEF IsOf, Bytes
  <2>2. Element(m, j) = Quoted(m.fields[j])
    BY <1>2 DEF Element, TypeAt, Quoted
  <2>3. Quoted(m.fields[j]) \in Seq(Glyphs) /\ Len(Quoted(m.fields[j])) \in Nat \ {0}
    BY <2>1, QuotedAt, TurnEnds
  <2> QED BY <1>2, <2>1, <2>2, <2>3
<1>3. CASE TypeAt(m, j) # "string"
  <2>1. m.fields[j] \in Int
    <3>1. HalfRange \in Nat /\ HalfShort \in Nat
      BY MessagesAssumption
    <3>2. CASE TypeAt(m, j) = "size_t"
      <4>1. m.fields[j] \in 0..(2 * HalfRange - 1)
        BY <1>1, <3>2 DEF IsOf
      <4> QED BY <3>1, <4>1
    <3>3. CASE TypeAt(m, j) = "int64_t"
      <4>1. m.fields[j] \in -HalfRange..(HalfRange - 1)
        BY <1>1, <3>3 DEF IsOf
      <4> QED BY <3>1, <4>1
    <3>4. CASE TypeAt(m, j) = "short"
      <4>1. m.fields[j] \in -HalfShort..(HalfShort - 1)
        BY <1>1, <3>4 DEF IsOf
      <4> QED BY <3>1, <4>1
    <3> QED BY <1>1, <1>3, <3>2, <3>3, <3>4 DEF Types
  <2>2. Element(m, j) = DumpInteger(m.fields[j])
    BY <1>3 DEF Element, TypeAt, DumpField
  <2>3. NumberText(Element(m, j), m.fields[j])
    BY <2>1, <2>2, IntegerText
  <2>4. Element(m, j) \in Seq(Figure \cup {"-"}) /\ Len(Element(m, j)) >= 1
    BY <2>3 DEF NumberText
  <2>5. Figure \cup {"-"} \in SUBSET Glyphs
    BY DEF Figure, Glyphs
  <2>6. Element(m, j) \in Seq(Glyphs) /\ Len(Element(m, j)) \in Nat \ {0}
    BY <2>4, <2>5
  <2> QED BY <1>3, <2>1, <2>2, <2>3, <2>6
<1> QED BY <1>2, <1>3

\* Element j of a text begins at at[j], and is closed by a comma or the bracket before at[j + 1].
LaidOut(m, at) ==
    /\ at \in [1..(Len(m.fields) + 1) -> Nat \ {0}]
    /\ at[1] = 2 /\ Dump(m)[1] = "["
    /\ \A j \in 1..Len(m.fields) :
        /\ at[j + 1] = at[j] + Len(Element(m, j)) + 1
        /\ \A h \in 1..Len(Element(m, j)) : Dump(m)[at[j] + (h - 1)] = Element(m, j)[h]
        /\ Dump(m)[at[j + 1] - 1] = IF j = Len(m.fields) THEN "]" ELSE ","
    /\ \A j \in 1..(Len(m.fields) + 1) : at[j] <= at[Len(m.fields) + 1]
    /\ Dump(m) \in Seq(Glyphs) /\ at[Len(m.fields) + 1] = Len(Dump(m)) + 1
Places(m) == CHOOSE at : LaidOut(m, at)

LEMMA TextLaidOut ==
    ASSUME NEW m \in Messages
    PROVE  LaidOut(m, Places(m))
<1> DEFINE closing(j) == IF j = Len(m.fields) THEN "]" ELSE ","
           part(j) == Append(Element(m, j), closing(j))
           parts == [j \in DOMAIN m.fields |-> part(j)]
<1>1. PICK k \in Nat \ {0} : k = Len(m.fields) /\ DOMAIN m.fields = 1..k
  BY MessageFields
<1>2. PICK t : t = FlattenSeq(parts)
  OBVIOUS
<1>3. Dump(m) = <<"[">> \o t
  BY <1>2 DEF Dump
<1>4. ASSUME NEW j \in 1..k
      PROVE  /\ part(j) \in Seq(Glyphs) /\ Len(part(j)) = Len(Element(m, j)) + 1
             /\ \A h \in 1..Len(Element(m, j)) : part(j)[h] = Element(m, j)[h]
             /\ part(j)[Len(Element(m, j)) + 1] = closing(j)
  <2>1. PICK e \in Seq(Glyphs) : e = Element(m, j)
    BY <1>1, ElementText
  <2>2. PICK c \in Glyphs : c = closing(j)
    BY DEF Glyphs
  <2>3. /\ Append(e, c) \in Seq(Glyphs) /\ Len(Append(e, c)) = Len(e) + 1
        /\ \A h \in 1..Len(e) : Append(e, c)[h] = e[h]
        /\ Append(e, c)[Len(e) + 1] = c
    OBVIOUS
  <2> HIDE DEF closing
  <2> QED BY <2>1, <2>2, <2>3
<1> HIDE DEF part
<1>5. parts \in Seq(Seq(Glyphs)) /\ Len(parts) = k /\ \A j \in 1..k : parts[j] = part(j)
  <2>1. \A j \in 1..k : part(j) \in Seq(Glyphs)
    BY <1>4
  <2>2. parts = [j \in 1..k |-> part(j)]
    BY <1>1
  <2> HIDE DEF parts
  <2>3. parts \in [1..k -> Seq(Glyphs)] /\ \A j \in 1..k : parts[j] = part(j)
    BY <2>1, <2>2
  <2> QED BY <2>3
<1> HIDE DEF parts
<1>6. t \in Seq(Glyphs) /\ \E at : Follow(t, parts, at, k)
  BY <1>2, <1>5, Flattened
<1>7. PICK to : Follow(t, parts, to, k)
  BY <1>6
<1>8. /\ to \in [1..(k + 1) -> Nat \ {0}] /\ to[1] = 1
      /\ \A j \in 1..(k + 1) : to[j] <= to[k + 1]
      /\ to[k + 1] = Len(t) + 1 /\ Len(t) \in Nat
  BY <1>6, <1>7 DEF Follow
<1>9. \A j \in 1..k :
        /\ to[j + 1] = to[j] + Len(part(j))
        /\ \A h \in 1..Len(part(j)) : t[to[j] + (h - 1)] = part(j)[h]
  BY <1>5, <1>7 DEF Follow
<1>10. PICK d \in Seq(Glyphs) : /\ d = Dump(m) /\ Len(d) = Len(t) + 1 /\ d[1] = "["
                                /\ \A i \in 1..Len(t) : d[i + 1] = t[i]
  <2>1. <<"[">> \in Seq(Glyphs) /\ Len(<<"[">>) = 1 /\ <<"[">>[1] = "["
    <3>1. "[" \in Glyphs
      BY DEF Glyphs
    <3> QED BY <3>1
  <2>2. PICK q \in Seq(Glyphs) : q = <<"[">> /\ Len(q) = 1 /\ q[1] = "["
    BY <2>1
  <2>3. /\ q \o t \in Seq(Glyphs) /\ Len(q \o t) = Len(q) + Len(t)
        /\ \A i \in 1..(Len(q) + Len(t)) : (q \o t)[i] = IF i <= Len(q) THEN q[i] ELSE t[i - Len(q)]
    BY <1>6, ConcatProperties
  <2>4. PICK l \in Nat : l = Len(t)
    BY <1>8
  <2>5. /\ Len(q \o t) = l + 1
        /\ \A i \in 1..(l + 1) : (q \o t)[i] = IF i <= 1 THEN q[i] ELSE t[i - 1]
    BY <2>2, <2>3, <2>4
  <2>6. ASSUME NEW i \in 1..l
        PROVE  (q \o t)[i + 1] = t[i]
    <3>1. i + 1 \in 1..(l + 1) /\ ~(i + 1 <= 1) /\ (i + 1) - 1 = i
      OBVIOUS
    <3> QED BY <2>5, <3>1
  <2>7. (q \o t)[1] = "["
    <3>1. 1 \in 1..(l + 1) /\ 1 <= 1
      OBVIOUS
    <3> QED BY <2>2, <2>5, <3>1
  <2>8. Dump(m) = q \o t
    BY <1>3, <2>2
  <2> QED BY <2>3, <2>4, <2>5, <2>6, <2>7, <2>8
<1> DEFINE at == [j \in 1..(k + 1) |-> to[j] + 1]
<1>11. \A j \in 1..(k + 1) : at[j] = to[j] + 1 /\ to[j] \in Nat \ {0} /\ to[j] <= Len(t) + 1
  BY <1>8
<1>12. at \in [1..(k + 1) -> Nat \ {0}]
  BY <1>11
<1> HIDE DEF at
<1>13. 1 \in 1..(k + 1) /\ k + 1 \in 1..(k + 1)
  OBVIOUS
<1>14. at[1] = 2 /\ at[k + 1] = Len(d) + 1 /\ \A j \in 1..(k + 1) : at[j] <= at[k + 1]
  <2>1. at[1] = to[1] + 1 /\ at[k + 1] = to[k + 1] + 1
    BY <1>11, <1>13
  <2>2. at[1] = 2 /\ at[k + 1] = Len(d) + 1
    BY <1>8, <1>10, <2>1
  <2>3. ASSUME NEW j \in 1..(k + 1)
        PROVE  at[j] <= at[k + 1]
    <3>1. at[j] = to[j] + 1 /\ to[j] \in Nat /\ to[j] <= Len(t) + 1
      BY <1>11
    <3> QED BY <1>8, <2>1, <3>1
  <2> QED BY <2>2, <2>3
<1>15. ASSUME NEW j \in 1..k
       PROVE  /\ at[j + 1] = at[j] + Len(Element(m, j)) + 1
              /\ \A h \in 1..Len(Element(m, j)) : d[at[j] + (h - 1)] = Element(m, j)[h]
              /\ d[at[j + 1] - 1] = closing(j)
  <2>1. PICK l \in Nat : l = Len(Element(m, j))
    BY <1>1, ElementText
  <2>2. j \in 1..(k + 1) /\ j + 1 \in 1..(k + 1)
    OBVIOUS
  <2>3. /\ at[j] = to[j] + 1 /\ at[j + 1] = to[j + 1] + 1
        /\ to[j] \in Nat \ {0} /\ to[j + 1] \in Nat \ {0} /\ to[j + 1] <= Len(t) + 1
    BY <1>11, <2>2
  <2>4. Len(part(j)) = l + 1
    BY <1>4, <2>1
  <2>5. to[j + 1] = to[j] + (l + 1)
    BY <1>9, <2>4
  <2>6. \A h \in 1..(l + 1) : t[to[j] + (h - 1)] = part(j)[h]
    BY <1>9, <2>4
  <2>7. ASSUME NEW h \in 1..(l + 1)
        PROVE  d[at[j] + (h - 1)] = part(j)[h]
    <3>1. to[j] + (h - 1) \in 1..Len(t) /\ at[j] + (h - 1) = (to[j] + (h - 1)) + 1
      <4>1. PICK w \in Nat : w = Len(t)
        BY <1>8
      <4>2. to[j] + (l + 1) <= w + 1 /\ to[j] \in Nat \ {0} /\ at[j] = to[j] + 1
        BY <2>3, <2>5, <4>1
      <4>3. to[j] + (h - 1) \in 1..w
        BY <4>2
      <4> QED BY <4>1, <4>2, <4>3
    <3> QED BY <1>10, <2>6, <3>1
  <2>8. \A h \in 1..l : d[at[j] + (h - 1)] = Element(m, j)[h]
    <3>1. ASSUME NEW h \in 1..l
          PROVE  d[at[j] + (h - 1)] = Element(m, j)[h]
      <4>1. h \in 1..(l + 1)
        OBVIOUS
      <4>2. part(j)[h] = Element(m, j)[h]
        BY <1>4, <2>1
      <4> QED BY <2>7, <4>1, <4>2
    <3> QED BY <3>1
  <2>9. d[at[j + 1] - 1] = closing(j)
    <3>1. at[j + 1] - 1 = at[j] + ((l + 1) - 1) /\ l + 1 \in 1..(l + 1)
      BY <2>3, <2>5, SMTT(30)
    <3>2. part(j)[l + 1] = closing(j)
      BY <1>4, <2>1
    <3> QED BY <2>7, <3>1, <3>2
  <2>10. at[j + 1] = at[j] + l + 1
    BY <2>3, <2>5, SMTT(30)
  <2> QED BY <2>1, <2>8, <2>9, <2>10
<1>16. LaidOut(m, at)
  BY <1>1, <1>10, <1>12, <1>14, <1>15 DEF LaidOut
<1> QED BY <1>16 DEF Places

-----------------------------------------------------------------------------
(* The invariant *)

\* The decoder has the first n characters of the text of m, and behind them nothing or an id.
Complete(m, n, stop) == n = Len(Dump(m)) /\ stop = Eof
Arrived(m, n, stop) ==
    /\ text = Dump(m) /\ whole = Complete(m, n, stop)
    /\ input \in Seq(Glyphs) /\ At(input, 1) = "0A"
    /\ \A i \in 1..n : At(input, i + 1) = Dump(m)[i]
    /\ At(input, n + 2) = stop

\* The token of field j, and the array of the first j of them.
TokenOf(m, j) ==
    [type |-> IF TypeAt(m, j) = "string" THEN "value_string"
              ELSE IF m.fields[j] < 0 THEN "value_integer" ELSE "value_unsigned",
     value |-> m.fields[j]]
Tokens(m, j) == [i \in 1..j |-> TokenOf(m, i)]

\* The lexer is in front of the bracket that opens the array, or behind it.
Opening(n) ==
    /\ expect = "array" /\ recv = <<>>
    /\ \/ mode = "scan" /\ pos \in {1, 2}
       \/ mode = "token" /\ token.type = "begin_array" /\ pos = 3 /\ n >= 1

\* Fields before j are in the array, and the lexer is in front of field j,
Expected(m, j) == expect = (IF j = 1 THEN "first" ELSE "value") /\ recv = Tokens(m, j - 1)
Before(m, n, j) ==
    /\ Expected(m, j) /\ mode = "scan"
    /\ pos = Places(m)[j] + 1 /\ pos <= n + 2

\* in front of turn i of the string it is,
InString(m, n, j) ==
    /\ Expected(m, j) /\ mode = "string" /\ TypeAt(m, j) = "string"
    /\ \E i \in 1..(Len(m.fields[j]) + 1) :
        /\ pos = Places(m)[j] + Turns(m.fields[j])[i] + 1 /\ pos <= n + 2
        /\ Utf8(m.fields[j])[i - 1] = 0
        /\ buffer = SubSeq(m.fields[j], 1, i - 1)

\* behind character h of the number it is,
NumberMode(e, h) ==
    IF h = 1 /\ e[1] = "-" THEN "minus" ELSE IF h = 1 /\ e[1] = "0" THEN "zero" ELSE "any1"
InNumber(m, n, j) ==
    /\ Expected(m, j) /\ TypeAt(m, j) # "string"
    /\ \E h \in 1..Len(Element(m, j)) :
        /\ pos = Places(m)[j] + h + 1 /\ pos <= n + 2
        /\ mode = NumberMode(Element(m, j), h)
        /\ buffer = SubSeq(Element(m, j), 1, h)

\* or behind it.
Behind(m, n, j) ==
    /\ Expected(m, j) /\ mode = "token" /\ token = TokenOf(m, j)
    /\ pos = Places(m)[j + 1] /\ pos <= n + 2

\* Field j is in the array, and the lexer is in front of the comma or bracket, or behind it.
Followed(m, n, j) ==
    /\ expect = "next" /\ recv = Tokens(m, j)
    /\ \/ mode = "scan" /\ pos = Places(m)[j + 1]
       \/ /\ mode = "token" /\ pos = Places(m)[j + 1] + 1
          /\ token.type = IF j = Len(m.fields) THEN "end_array" ELSE "value_separator"
    /\ pos <= n + 2

\* The array is closed.
Closed(m, n, stop) ==
    /\ expect = "end" /\ recv = Tokens(m, Len(m.fields)) /\ n = Len(Dump(m))
    /\ \/ mode = "scan" /\ pos = n + 2
       \/ mode = "token" /\ token.type = "end_of_input" /\ stop = Eof

\* The text was cut, and the lexer is where it stops.
Lost(m, n, stop) ==
    /\ ~Complete(m, n, stop)
    /\ \/ mode = "token" /\ token.type \in Numbers /\ expect \in {"first", "value"} /\ pos = n + 2
       \/ mode = "scan" /\ expect = "next" /\ pos = n + 2
       \/ mode = "token" /\ token.type = "end_of_input" /\ expect # "end"

Ended(m, n, stop) == mode = "done" /\ result = IF Complete(m, n, stop) THEN m.fields ELSE Default

Phase(m, n, stop) ==
    \/ Opening(n)
    \/ \E j \in 1..Len(m.fields) :
        Before(m, n, j) \/ InString(m, n, j) \/ InNumber(m, n, j) \/ Behind(m, n, j) \/ Followed(m, n, j)
    \/ Closed(m, n, stop) \/ Lost(m, n, stop) \/ Ended(m, n, stop)

\* A text that is not refused, and as much of it as has arrived.
Setting(m, n, stop) ==
    /\ m \in Messages /\ ~Throws(m)
    /\ n \in 0..Len(Dump(m)) /\ stop \in {Eof, Id}
    /\ Arrived(m, n, stop)

Waiting == pos = 1 /\ expect = "array" /\ recv = <<>>
TextInv ==
    \E m \in Messages :
        /\ message = m
        /\ mode # "done" => result = Default
        /\ \/ mode = "encode" /\ Waiting
           \/ mode = "thrown" /\ Throws(m)
           \/ mode = "sent" /\ ~Throws(m) /\ text = Dump(m) /\ Waiting
           \/ \E n \in Nat, stop \in {Eof, Id} : Setting(m, n, stop) /\ Phase(m, n, stop)

-----------------------------------------------------------------------------
(* What the lexer has in front of it *)

\* Element j has length l and begins at at, the next one would begin at next.
Between(m, j, at, next, l, d) ==
    /\ at = Places(m)[j] /\ next = Places(m)[j + 1]
    /\ l = Len(Element(m, j)) /\ d = Len(Dump(m))
    /\ at >= 2 /\ l >= 1 /\ next = at + l + 1 /\ next <= d + 1
    /\ j = Len(m.fields) => next = d + 1

LEMMA BetweenPlaces ==
    ASSUME NEW m \in Messages, NEW j \in 1..Len(m.fields)
    PROVE  \E at \in Nat, next \in Nat, l \in Nat, d \in Nat : Between(m, j, at, next, l, d)
<1>1. LaidOut(m, Places(m))
  BY TextLaidOut
<1>2. PICK k \in Nat \ {0} : k = Len(m.fields)
  BY MessageFields
<1>3. PICK at : at = Places(m)
  OBVIOUS
<1>4. PICK d \in Nat : d = Len(Dump(m))
  <2>1. PICK t \in Seq(Glyphs) : t = Dump(m)
    BY <1>1 DEF LaidOut
  <2> QED BY <2>1
<1>5. /\ at \in [1..(k + 1) -> Nat \ {0}] /\ at[1] = 2
      /\ at[j + 1] = at[j] + Len(Element(m, j)) + 1
      /\ \A i \in 1..(k + 1) : at[i] <= d + 1
      /\ at[k + 1] = d + 1
  BY <1>1, <1>2, <1>3, <1>4 DEF LaidOut
<1>6. PICK l \in Nat \ {0} : l = Len(Element(m, j))
  BY ElementText
<1>7. j \in 1..(k + 1) /\ j + 1 \in 1..(k + 1)
  BY <1>2
<1>8. at[j] \in Nat \ {0} /\ at[j + 1] \in Nat \ {0} /\ at[j + 1] <= d + 1
  BY <1>5, <1>7
<1>9. at[j] >= 2
  <2>1. CASE j = 1
    BY <1>5, <2>1
  <2>2. CASE j # 1
    <3>1. PICK i \in 1..k : i + 1 = j
      <4>1. j - 1 \in 1..k /\ (j - 1) + 1 = j
        BY <1>2, <2>2
      <4> QED BY <4>1
    <3>2. at[i + 1] = at[i] + Len(Element(m, i)) + 1
      BY <1>1, <1>2, <1>3 DEF LaidOut
    <3>3. Len(Element(m, i)) \in Nat
      BY <1>2, ElementText
    <3>4. at[i] \in Nat \ {0}
      BY <1>5
    <3> QED BY <3>1, <3>2, <3>3, <3>4
  <2> QED BY <2>1, <2>2
<1>10. PICK next \in Nat : next = at[j + 1]
  BY <1>8
<1>11. PICK here \in Nat : here = at[j]
  BY <1>8
<1>12. j = k => next = d + 1
  BY <1>5, <1>10
<1>13. here >= 2 /\ l >= 1 /\ next = here + l + 1 /\ next <= d + 1
  BY <1>5, <1>6, <1>8, <1>9, <1>10, <1>11
<1>14. Between(m, j, here, next, l, d)
  BY <1>2, <1>3, <1>4, <1>6, <1>10, <1>11, <1>12, <1>13 DEF Between
<1> QED BY <1>4, <1>6, <1>10, <1>11, <1>14

LEMMA Cell ==
    ASSUME NEW m, NEW n, NEW stop, Setting(m, n, stop), NEW p \in 1..(n + 1)
    PROVE  At(input, p + 1) = IF p <= n THEN Dump(m)[p] ELSE stop
<1>1. LaidOut(m, Places(m))
  BY TextLaidOut DEF Setting
<1>2. n \in Nat
  <2>1. PICK t \in Seq(Glyphs) : t = Dump(m)
    BY <1>1 DEF LaidOut
  <2>2. n \in 0..Len(t)
    BY <2>1 DEF Setting
  <2> QED BY <2>2
<1>3. CASE p <= n
  <2>1. p \in 1..n
    BY <1>2, <1>3
  <2> QED BY <1>3, <2>1 DEF Setting, Arrived
<1>4. CASE ~(p <= n)
  <2>1. p = n + 1 /\ p + 1 = n + 2
    BY <1>2, <1>4
  <2> QED BY <1>4, <2>1 DEF Setting, Arrived
<1> QED BY <1>3, <1>4

LEMMA ElementCell ==
    ASSUME NEW m, NEW n, NEW stop, Setting(m, n, stop), NEW j \in 1..Len(m.fields),
           NEW h \in 1..Len(Element(m, j)), Places(m)[j] + h <= n + 2
    PROVE  At(input, Places(m)[j] + h) =
                IF Places(m)[j] + h <= n + 1 THEN Element(m, j)[h] ELSE stop
<1>1. m \in Messages
  BY DEF Setting
<1>2. PICK at \in Nat, next \in Nat, l \in Nat, d \in Nat : Between(m, j, at, next, l, d)
  BY <1>1, BetweenPlaces
<1>3. at >= 2 /\ l >= 1 /\ next = at + l + 1 /\ next <= d + 1
  BY <1>2 DEF Between
<1>4. at = Places(m)[j] /\ next = Places(m)[j + 1] /\ l = Len(Element(m, j)) /\ d = Len(Dump(m))
  BY <1>2 DEF Between
<1>5. n \in Nat /\ h \in 1..l /\ at + h <= n + 2
  BY <1>4 DEF Setting
<1>6. PICK p \in 1..(n + 1) : p = at + (h - 1) /\ p + 1 = at + h
  <2>1. at + (h - 1) \in 1..(n + 1) /\ (at + (h - 1)) + 1 = at + h
    BY <1>3, <1>5
  <2> QED BY <2>1
<1>7. Dump(m)[p] = Element(m, j)[h]
  <2>1. LaidOut(m, Places(m))
    BY <1>1, TextLaidOut
  <2> QED BY <1>4, <1>6, <2>1 DEF LaidOut
<1>8. At(input, p + 1) = IF p <= n THEN Dump(m)[p] ELSE stop
  BY Cell
<1>9. p <= n <=> at + h <= n + 1
  BY <1>5, <1>6
<1> QED BY <1>4, <1>6, <1>7, <1>8, <1>9

Closing(m, j) == IF j = Len(m.fields) THEN "]" ELSE ","

LEMMA ClosingCell ==
    ASSUME NEW m, NEW n, NEW stop, Setting(m, n, stop), NEW j \in 1..Len(m.fields),
           Places(m)[j + 1] <= n + 2
    PROVE  At(input, Places(m)[j + 1]) = IF Places(m)[j + 1] <= n + 1 THEN Closing(m, j) ELSE stop
<1>1. m \in Messages
  BY DEF Setting
<1>2. PICK at \in Nat, next \in Nat, l \in Nat, d \in Nat : Between(m, j, at, next, l, d)
  BY <1>1, BetweenPlaces
<1>3. at >= 2 /\ l >= 1 /\ next = at + l + 1 /\ next <= d + 1
  BY <1>2 DEF Between
<1>4. at = Places(m)[j] /\ next = Places(m)[j + 1] /\ l = Len(Element(m, j)) /\ d = Len(Dump(m))
  BY <1>2 DEF Between
<1>5. n \in Nat /\ next <= n + 2
  BY <1>4 DEF Setting
<1>6. PICK p \in 1..(n + 1) : p = next - 1 /\ p + 1 = next
  <2>1. next - 1 \in 1..(n + 1) /\ (next - 1) + 1 = next
    BY <1>3, <1>5
  <2> QED BY <2>1
<1>7. Dump(m)[p] = Closing(m, j)
  <2>1. LaidOut(m, Places(m))
    BY <1>1, TextLaidOut
  <2> QED BY <1>4, <1>6, <2>1 DEF LaidOut, Closing
<1>8. At(input, p + 1) = IF p <= n THEN Dump(m)[p] ELSE stop
  BY Cell
<1>9. p <= n <=> next <= n + 1
  BY <1>5, <1>6
<1> QED BY <1>4, <1>6, <1>7, <1>8, <1>9

-----------------------------------------------------------------------------
(* The lexer between two tokens *)

LEMMA Staying ==
    ASSUME NEW m, NEW n, NEW stop, Setting(m, n, stop), UNCHANGED wireVars
    PROVE  Setting(m, n, stop)' /\ (message = m => message' = m)
BY DEF Setting, Arrived, wireVars

LEMMA SymbolValues ==
    /\ DOMAIN Symbols = {"[", "]", ",", "eof"}
    /\ Symbols["["] = "begin_array" /\ Symbols["]"] = "end_array"
    /\ Symbols[","] = "value_separator" /\ Symbols["eof"] = "end_of_input"
BY DEF Symbols, Eof

LEMMA ScanKeeps ==
    ASSUME Scan
    PROVE  UNCHANGED wireVars /\ UNCHANGED <<expect, recv, result>>
BY DEF Scan

LEMMA ScanSpace ==
    ASSUME Scan, At(input, pos) = "0A"
    PROVE  pos' = pos + 1 /\ UNCHANGED <<mode, buffer, token>>
<1>1. At(input, pos) \notin DOMAIN Symbols \cup Range(Digits) \cup {Quote, "-"}
  BY SymbolValues, DigitValues, QuoteDiffers
<1> QED BY <1>1 DEF Scan, Advance

LEMMA ScanSymbol ==
    ASSUME Scan, At(input, pos) \in DOMAIN Symbols
    PROVE  pos' = pos + 1 /\ mode' = "token" /\ token'.type = Symbols[At(input, pos)]
<1>1. At(input, pos) \notin Range(Digits) \cup {Quote, "-", "0A"}
  BY SymbolValues, DigitValues, QuoteDiffers
<1> QED BY <1>1 DEF Scan, Advance, Token

LEMMA ScanQuote ==
    ASSUME Scan, At(input, pos) = Quote
    PROVE  pos' = pos + 1 /\ mode' = "string" /\ buffer' = <<>>
<1>1. At(input, pos) \notin DOMAIN Symbols \cup Range(Digits) \cup {"-", "0A"}
  BY SymbolValues, DigitValues, QuoteDiffers
<1> QED BY <1>1 DEF Scan, Advance

LEMMA ScanFigure ==
    ASSUME Scan, At(input, pos) \in Figure \cup {"-"}
    PROVE  /\ pos' = pos + 1 /\ buffer' = <<At(input, pos)>>
           /\ mode' = IF At(input, pos) = "-" THEN "minus"
                      ELSE IF At(input, pos) = "0" THEN "zero" ELSE "any1"
<1>1. At(input, pos) \notin DOMAIN Symbols \cup {Quote, "0A"}
  BY SymbolValues, DigitValues, QuoteDiffers DEF Figure
<1> QED BY <1>1 DEF Scan, Advance, Figure

\* At an id it fails.
LEMMA ScanId ==
    ASSUME Scan, At(input, pos) = Id
    PROVE  mode' = "done"
<1>1. At(input, pos) \notin DOMAIN Symbols \cup Range(Digits) \cup {Quote, "-", "0A"}
  BY SymbolValues, DigitValues, QuoteDiffers DEF Id
<1> QED BY <1>1 DEF Scan, Failed

\* Where the text was cut, and no value has begun, the decoder fails or sees the end.
LEMMA ScanStop ==
    ASSUME NEW m, NEW n, NEW stop, Setting(m, n, stop), Scan, result = Default,
           expect # "end", At(input, pos) = stop, ~Complete(m, n, stop)
    PROVE  Phase(m, n, stop)'
<1>1. expect' = expect /\ result' = result
  BY ScanKeeps
<1>2. CASE stop = Eof
  <2>1. mode' = "token" /\ token'.type = "end_of_input"
    BY <1>2, ScanSymbol, SymbolValues DEF Eof
  <2>2. Lost(m, n, stop)'
    BY <1>1, <2>1 DEF Lost, Complete
  <2> QED BY <2>2 DEF Phase
<1>3. CASE stop = Id
  <2>1. mode' = "done"
    BY <1>3, ScanId
  <2>2. Ended(m, n, stop)'
    BY <1>1, <2>1 DEF Ended, Complete
  <2> QED BY <2>2 DEF Phase
<1> QED BY <1>2, <1>3 DEF Setting

LEMMA ScanOpening ==
    ASSUME NEW m, NEW n, NEW stop, Setting(m, n, stop), Opening(n), Scan, result = Default
    PROVE  Phase(m, n, stop)'
<1>1. expect' = expect /\ recv' = recv /\ expect = "array" /\ recv = <<>>
  BY ScanKeeps DEF Opening
<1>2. mode = "scan" /\ pos \in {1, 2}
  BY DEF Opening, Scan
<1>3. LaidOut(m, Places(m))
  BY TextLaidOut DEF Setting
<1>4. PICK d \in Nat : d = Len(Dump(m)) /\ d >= 2
  <2>1. PICK k \in Nat \ {0} : k = Len(m.fields)
    BY MessageFields DEF Setting
  <2>2. 1 \in 1..Len(m.fields)
    BY <2>1
  <2>3. PICK at \in Nat, next \in Nat, l \in Nat, d \in Nat : Between(m, 1, at, next, l, d)
    BY <2>2, BetweenPlaces DEF Setting
  <2> QED BY <2>3 DEF Between
<1>5. n \in 0..d
  BY <1>4 DEF Setting
<1>6. CASE pos = 1
  <2>1. At(input, pos) = "0A"
    BY <1>6 DEF Setting, Arrived
  <2>2. pos' = 2 /\ mode' = "scan"
    BY <1>2, <1>6, <2>1, ScanSpace
  <2>3. Opening(n)'
    BY <1>1, <2>2 DEF Opening
  <2> QED BY <2>3 DEF Phase
<1>7. CASE pos = 2 /\ n >= 1
  <2>1. At(input, pos) = "["
    <3>1. 1 \in 1..(n + 1) /\ 1 <= n /\ 1 + 1 = 2
      BY <1>5, <1>7
    <3>2. At(input, 2) = Dump(m)[1]
      BY <3>1, Cell
    <3> QED BY <1>3, <1>7, <3>2 DEF LaidOut
  <2>2. pos' = 3 /\ mode' = "token" /\ token'.type = "begin_array"
    <3>1. At(input, pos) \in DOMAIN Symbols /\ Symbols[At(input, pos)] = "begin_array"
      BY <2>1, SymbolValues
    <3> QED BY <1>7, <3>1, ScanSymbol
  <2>3. Opening(n)'
    BY <1>1, <1>7, <2>2 DEF Opening
  <2> QED BY <2>3 DEF Phase
<1>8. CASE pos = 2 /\ n = 0
  <2>1. At(input, pos) = stop
    <3>1. n + 2 = 2
      BY <1>8
    <3> QED BY <1>8, <3>1 DEF Setting, Arrived
  <2>2. ~Complete(m, n, stop)
    BY <1>4, <1>8 DEF Complete
  <2> QED BY <1>1, <2>1, <2>2, ScanStop
<1> QED BY <1>2, <1>5, <1>6, <1>7, <1>8

LEMMA ScanBefore ==
    ASSUME NEW m, NEW n, NEW stop, Setting(m, n, stop), Scan, result = Default,
           NEW j \in 1..Len(m.fields), Before(m, n, j)
    PROVE  Phase(m, n, stop)'
<1>1. m \in Messages
  BY DEF Setting
<1>2. PICK at \in Nat, next \in Nat, l \in Nat, d \in Nat : Between(m, j, at, next, l, d)
  BY <1>1, BetweenPlaces
<1>3. at >= 2 /\ l >= 1 /\ next = at + l + 1 /\ next <= d + 1
  BY <1>2 DEF Between
<1>4. at = Places(m)[j] /\ next = Places(m)[j + 1] /\ l = Len(Element(m, j)) /\ d = Len(Dump(m))
  BY <1>2 DEF Between
<1>5. n \in 0..d /\ pos = at + 1 /\ pos <= n + 2 /\ expect # "end"
  BY <1>4 DEF Setting, Before, Expected
<1>6. expect' = expect /\ recv' = recv /\ Expected(m, j)
  BY ScanKeeps DEF Before
<1>7. Expected(m, j)'
  BY <1>6 DEF Expected
<1>8. At(input, pos) = IF at + 1 <= n + 1 THEN Element(m, j)[1] ELSE stop
  <2>1. 1 \in 1..Len(Element(m, j)) /\ at + 1 <= n + 2
    BY <1>3, <1>4, <1>5
  <2>2. At(input, at + 1) = IF at + 1 <= n + 1 THEN Element(m, j)[1] ELSE stop
    BY <1>4, <2>1, ElementCell
  <2> QED BY <1>5, <2>2
<1>9. CASE ~(at + 1 <= n + 1)
  <2>1. n # d
    BY <1>3, <1>5, <1>9
  <2>2. ~Complete(m, n, stop)
    BY <1>4, <2>1 DEF Complete
  <2> QED BY <1>5, <1>8, <1>9, <2>2, ScanStop
<1>10. CASE at + 1 <= n + 1 /\ TypeAt(m, j) = "string"
  <2>1. PICK s \in Seq(Bytes) : s = m.fields[j] /\ Element(m, j) = Quoted(s)
    BY <1>1, <1>10, ElementText
  <2>2. At(input, pos) = Quote
    BY <1>8, <1>10, <2>1, QuotedAt
  <2>3. pos' = pos + 1 /\ mode' = "string" /\ buffer' = <<>>
    BY <2>2, ScanQuote
  <2>4. Turns(s)[1] = 1 /\ Utf8(s)[0] = 0 /\ Len(s) \in Nat
    BY TurnEnds, Utf8Steps
  <2>5. pos' = at + 1 + 1 /\ pos' <= n + 2
    BY <1>5, <1>10, <2>3
  <2>6. 1 \in 1..(Len(s) + 1) /\ 1 - 1 = 0
    BY <2>4
  <2>7. SubSeq(s, 1, 0) = <<>>
    OBVIOUS
  <2>8. InString(m, n, j)'
    <3>1. \E i \in 1..(Len(s) + 1) :
            /\ pos' = at + Turns(s)[i] + 1 /\ pos' <= n + 2
            /\ Utf8(s)[i - 1] = 0
            /\ buffer' = SubSeq(s, 1, i - 1)
      BY <2>3, <2>4, <2>5, <2>6, <2>7
    <3> QED BY <1>4, <1>7, <1>10, <2>1, <2>3, <3>1 DEF InString
  <2> QED BY <2>8 DEF Phase
<1>11. CASE at + 1 <= n + 1 /\ TypeAt(m, j) # "string"
  <2>1. PICK e \in Seq(Figure \cup {"-"}) : e = Element(m, j) /\ Len(e) >= 1
    <3>1. NumberText(Element(m, j), m.fields[j])
      BY <1>1, <1>11, ElementText
    <3> QED BY <3>1 DEF NumberText
  <2>2. 1 \in 1..Len(e) /\ e[1] \in Figure \cup {"-"}
    BY <2>1
  <2>3. At(input, pos) = e[1]
    BY <1>8, <1>11, <2>1
  <2>4. /\ pos' = pos + 1 /\ buffer' = <<e[1]>>
        /\ mode' = IF e[1] = "-" THEN "minus" ELSE IF e[1] = "0" THEN "zero" ELSE "any1"
    BY <2>2, <2>3, ScanFigure
  <2>5. SubSeq(e, 1, 1) = <<e[1]>>
    BY <2>2, SubSeqOne
  <2>6. mode' = NumberMode(e, 1)
    BY <2>4 DEF NumberMode
  <2>7. pos' = at + 1 + 1 /\ pos' <= n + 2
    BY <1>5, <1>11, <2>4
  <2>8. InNumber(m, n, j)'
    <3>1. \E h \in 1..Len(e) :
            /\ pos' = at + h + 1 /\ pos' <= n + 2
            /\ mode' = NumberMode(e, h)
            /\ buffer' = SubSeq(e, 1, h)
      BY <2>2, <2>4, <2>5, <2>6, <2>7
    <3> QED BY <1>4, <1>7, <1>11, <2>1, <3>1 DEF InNumber
  <2> QED BY <2>8 DEF Phase
<1> QED BY <1>9, <1>10, <1>11

LEMMA ScanFollowed ==
    ASSUME NEW m, NEW n, NEW stop, Setting(m, n, stop), Scan, result = Default,
           NEW j \in 1..Len(m.fields), Followed(m, n, j)
    PROVE  Phase(m, n, stop)'
<1>1. m \in Messages
  BY DEF Setting
<1>2. PICK at \in Nat, next \in Nat, l \in Nat, d \in Nat : Between(m, j, at, next, l, d)
  BY <1>1, BetweenPlaces
<1>3. at >= 2 /\ l >= 1 /\ next = at + l + 1 /\ next <= d + 1
  BY <1>2 DEF Between
<1>4. next = Places(m)[j + 1] /\ d = Len(Dump(m))
  BY <1>2 DEF Between
<1>5. n \in 0..d /\ pos = next /\ pos <= n + 2 /\ expect = "next" /\ recv = Tokens(m, j)
  BY <1>4 DEF Setting, Followed, Scan
<1>6. expect' = expect /\ recv' = recv
  BY ScanKeeps
<1>7. At(input, pos) = IF next <= n + 1 THEN Closing(m, j) ELSE stop
  BY <1>4, <1>5, ClosingCell
<1>8. CASE ~(next <= n + 1)
  <2>1. n # d
    BY <1>3, <1>5, <1>8
  <2>2. ~Complete(m, n, stop)
    BY <1>4, <2>1 DEF Complete
  <2> QED BY <1>5, <1>7, <1>8, <2>2, ScanStop
<1>9. CASE next <= n + 1
  <2>1. At(input, pos) = Closing(m, j)
    BY <1>7, <1>9
  <2>2. /\ At(input, pos) \in DOMAIN Symbols
        /\ Symbols[At(input, pos)] = IF j = Len(m.fields) THEN "end_array" ELSE "value_separator"
    BY <2>1, SymbolValues DEF Closing
  <2>3. /\ pos' = pos + 1 /\ mode' = "token"
        /\ token'.type = IF j = Len(m.fields) THEN "end_array" ELSE "value_separator"
    BY <2>2, ScanSymbol
  <2>4. pos' = next + 1 /\ pos' <= n + 2
    BY <1>5, <1>9, <2>3
  <2>5. Followed(m, n, j)'
    BY <1>4, <1>5, <1>6, <2>3, <2>4 DEF Followed
  <2> QED BY <2>5 DEF Phase
<1> QED BY <1>8, <1>9

LEMMA ScanClosed ==
    ASSUME NEW m, NEW n, NEW stop, Setting(m, n, stop), Scan, result = Default,
           Closed(m, n, stop)
    PROVE  Phase(m, n, stop)'
<1>1. pos = n + 2 /\ expect = "end" /\ recv = Tokens(m, Len(m.fields)) /\ n = Len(Dump(m))
  BY DEF Closed, Scan
<1>2. expect' = expect /\ recv' = recv /\ result' = result
  BY ScanKeeps
<1>3. At(input, pos) = stop
  BY <1>1 DEF Setting, Arrived
<1>4. CASE stop = Eof
  <2>1. mode' = "token" /\ token'.type = "end_of_input"
    BY <1>3, <1>4, ScanSymbol, SymbolValues DEF Eof
  <2>2. Closed(m, n, stop)'
    BY <1>1, <1>2, <1>4, <2>1 DEF Closed
  <2> QED BY <2>2 DEF Phase
<1>5. CASE stop = Id
  <2>1. mode' = "done"
    BY <1>3, <1>5, ScanId
  <2>2. ~Complete(m, n, stop)
    BY <1>5 DEF Complete, Id, Eof
  <2>3. Ended(m, n, stop)'
    BY <1>2, <2>1, <2>2 DEF Ended, Complete
  <2> QED BY <2>3 DEF Phase
<1> QED BY <1>4, <1>5 DEF Setting

LEMMA ScanLost ==
    ASSUME NEW m, NEW n, NEW stop, Setting(m, n, stop), Scan, result = Default,
           Lost(m, n, stop)
    PROVE  Phase(m, n, stop)'
<1>1. pos = n + 2 /\ expect = "next" /\ ~Complete(m, n, stop)
  BY DEF Lost, Scan
<1>2. At(input, pos) = stop
  BY <1>1 DEF Setting, Arrived
<1> QED BY <1>1, <1>2, ScanStop

-----------------------------------------------------------------------------
(* The lexer in a string *)

LEMMA SubSeqJoined ==
    ASSUME NEW C, NEW s \in Seq(C), NEW i \in 1..Len(s), NEW k \in (i + 1)..(Len(s) + 1)
    PROVE  SubSeq(s, 1, i - 1) \o SubSeq(s, i, k - 1) = SubSeq(s, 1, k - 1)
<1>1. PICK l \in Nat : l = Len(s)
  OBVIOUS
<1>2. PICK a \in 0..(l - 1) : a = i - 1 /\ a + 1 = i
  BY <1>1
<1>3. PICK b \in 1..l : b = k - 1 /\ b >= a + 1
  BY <1>1, <1>2
<1>4. SubSeq(s, 1, a) \o SubSeq(s, a + 1, b) = SubSeq(s, 1, b)
  <2>1. 1 \in 1..(Len(s) + 1) /\ a \in (1 - 1)..Len(s) /\ b \in a..Len(s)
    BY <1>1, <1>2, <1>3
  <2> QED BY <2>1, ConcatAdjacentSubSeq
<1> QED BY <1>2, <1>3, <1>4

\* What of field j has arrived.
LEMMA StringShows ==
    ASSUME NEW m, NEW n, NEW stop, Setting(m, n, stop), NEW j \in 1..Len(m.fields),
           TypeAt(m, j) = "string", Places(m)[j] <= n + 1
    PROVE  \E k \in Nat :
            /\ InText(input, Places(m)[j], m.fields[j], k, stop)
            /\ k = n + 1 - Places(m)[j] \/ (k < n + 1 - Places(m)[j] /\ k = Len(Element(m, j)))
<1>1. m \in Messages /\ stop \in {Eof, Id} /\ ~Throws(m)
  BY DEF Setting
<1>2. PICK at \in Nat, next \in Nat, l \in Nat, d \in Nat : Between(m, j, at, next, l, d)
  BY <1>1, BetweenPlaces
<1>3. at >= 2 /\ l >= 1 /\ next = at + l + 1 /\ next <= d + 1
  BY <1>2 DEF Between
<1>4. at = Places(m)[j] /\ next = Places(m)[j + 1] /\ l = Len(Element(m, j)) /\ d = Len(Dump(m))
  BY <1>2 DEF Between
<1>5. n \in 0..d /\ at <= n + 1
  BY <1>4 DEF Setting
<1>6. PICK s \in Seq(Bytes) : s = m.fields[j] /\ Element(m, j) = Quoted(s)
  BY <1>1, ElementText
<1>7. Utf8(s)[Len(s)] = 0
  <2>1. j \in DOMAIN m.fields
    BY <1>1, MessageFields
  <2> QED BY <1>1, <1>6, <2>1 DEF Throws, TypeAt, UTF8_ACCEPT
<1>8. PICK k \in 0..l : k = n + 1 - at \/ (k < n + 1 - at /\ k = l)
  <2>1. PICK w \in Nat : w = n + 1 - at
    BY <1>5
  <2>2. CASE w <= l
    <3>1. w \in 0..l
      BY <2>2
    <3> QED BY <2>1, <3>1
  <2>3. CASE ~(w <= l)
    <3>1. l \in 0..l /\ l < w
      BY <2>3
    <3> QED BY <2>1, <3>1
  <2> QED BY <2>2, <2>3
<1>9. ASSUME NEW h \in 1..k
      PROVE  At(input, at + h) = Element(m, j)[h]
  <2>1. h \in 1..l /\ at + h <= n + 1 /\ at + h <= n + 2
    BY <1>5, <1>8
  <2>2. At(input, at + h) = IF at + h <= n + 1 THEN Element(m, j)[h] ELSE stop
    BY <1>4, <2>1, ElementCell
  <2> QED BY <2>1, <2>2
<1>10. ASSUME k < l
       PROVE  At(input, at + k + 1) = stop
  <2>1. k = n + 1 - at
    BY <1>8, <1>10
  <2>2. PICK h \in 1..l : h = k + 1
    BY <1>10
  <2>3. at + h <= n + 2 /\ ~(at + h <= n + 1) /\ at + h = at + k + 1
    BY <1>5, <2>1, <2>2
  <2>4. h \in 1..Len(Element(m, j)) /\ Places(m)[j] + h <= n + 2
    BY <1>4, <2>3
  <2>5. At(input, Places(m)[j] + h) = IF Places(m)[j] + h <= n + 1 THEN Element(m, j)[h] ELSE stop
    BY <2>4, ElementCell
  <2> QED BY <1>4, <2>3, <2>5
<1>11. Shows(input, at, Quoted(s), k, stop)
  BY <1>4, <1>6, <1>9, <1>10 DEF Shows
<1>12. k \in 0..Len(Quoted(s))
  BY <1>4, <1>6
<1>13. InText(input, at, s, k, stop)
  BY <1>1, <1>7, <1>11, <1>12 DEF InText
<1>14. k \in Nat
  OBVIOUS
<1> QED BY <1>4, <1>6, <1>8, <1>13, <1>14

LEMMA ScanStringKeeps ==
    ASSUME ScanString
    PROVE  /\ mode = "string" /\ UNCHANGED wireVars /\ UNCHANGED <<expect, recv, result>>
           /\ At(input, pos) = Quote => /\ pos' = pos + 1 /\ mode' = "token"
                                        /\ token' = [type |-> "value_string", value |-> buffer]
           /\ At(input, pos) # Quote /\ Unit(input, pos) = Illegal => mode' = "done"
           /\ At(input, pos) # Quote /\ Unit(input, pos) # Illegal =>
                /\ pos' = pos + Unit(input, pos).takes /\ mode' = mode
                /\ buffer' = buffer \o Unit(input, pos).adds
BY DEF ScanString, Failed, Advance, Token

LEMMA StringStep ==
    ASSUME NEW m, NEW n, NEW stop, Setting(m, n, stop), ScanString, result = Default,
           NEW j \in 1..Len(m.fields), InString(m, n, j)
    PROVE  Phase(m, n, stop)'
<1>1. m \in Messages /\ stop \in {Eof, Id}
  BY DEF Setting
<1>2. PICK at \in Nat, next \in Nat, l \in Nat, d \in Nat : Between(m, j, at, next, l, d)
  BY <1>1, BetweenPlaces
<1>3. at >= 2 /\ l >= 1 /\ next = at + l + 1 /\ next <= d + 1
  BY <1>2 DEF Between
<1>4. at = Places(m)[j] /\ next = Places(m)[j + 1] /\ l = Len(Element(m, j)) /\ d = Len(Dump(m))
  BY <1>2 DEF Between
<1>5. Expected(m, j) /\ mode = "string" /\ TypeAt(m, j) = "string"
  BY DEF InString
<1>6. PICK s \in Seq(Bytes) : s = m.fields[j] /\ Element(m, j) = Quoted(s)
  BY <1>1, <1>5, ElementText
<1>7. PICK i \in 1..(Len(s) + 1) :
        /\ pos = at + Turns(s)[i] + 1 /\ pos <= n + 2
        /\ Utf8(s)[i - 1] = 0
        /\ buffer = SubSeq(s, 1, i - 1)
  BY <1>4, <1>6 DEF InString
<1>8. UNCHANGED <<expect, recv, result>>
  BY ScanStringKeeps
<1>9. Expected(m, j)'
  BY <1>5, <1>8 DEF Expected
<1>10. n \in 0..d
  BY <1>4 DEF Setting
<1>11. PICK y \in Nat : y = Len(s)
  OBVIOUS
<1>12. PICK x \in Nat : x = Len(DumpEscaped(s)) /\ x + 2 = l
  BY <1>4, <1>6, TurnEnds, QuotedAt
<1>13. Turns(s)[y + 1] = x + 1 /\ \A h \in 1..(y + 1) : Turns(s)[h] \in Nat \ {0} /\ Turns(s)[h] <= x + 1
  BY <1>11, <1>12, TurnEnds
<1>14. PICK t \in Nat \ {0} : t = Turns(s)[i] /\ t <= x + 1 /\ at + t + 1 <= n + 2
  BY <1>7, <1>11, <1>13
<1>15. ASSUME n # d, mode' = "done"
       PROVE  Phase(m, n, stop)'
  <2>1. ~Complete(m, n, stop)
    BY <1>4, <1>15 DEF Complete
  <2>2. Ended(m, n, stop)'
    BY <1>8, <1>15, <2>1 DEF Ended, Complete
  <2> QED BY <2>2 DEF Phase
<1>16. CASE i = y + 1
  <2>1. t = x + 1 /\ pos = at + l /\ at + l = next - 1
    <3>1. t = x + 1 /\ pos = at + t + 1
      BY <1>7, <1>13, <1>14, <1>16
    <3> QED BY <1>3, <1>12, <3>1
  <2>2. At(input, pos) = IF at + l <= n + 1 THEN Quote ELSE stop
    <3>1. l \in 1..l /\ at + l <= n + 2
      BY <1>3, <1>7, <2>1
    <3>2. At(input, at + l) = IF at + l <= n + 1 THEN Element(m, j)[l] ELSE stop
      <4>1. PICK h \in 1..l : h = l
        BY <3>1
      <4>2. h \in 1..Len(Element(m, j)) /\ Places(m)[j] + h <= n + 2
        BY <1>4, <3>1, <4>1
      <4>3. At(input, Places(m)[j] + h) = IF Places(m)[j] + h <= n + 1 THEN Element(m, j)[h] ELSE stop
        BY <4>2, ElementCell
      <4> QED BY <1>4, <4>1, <4>3
    <3>3. Element(m, j)[l] = Quote
      BY <1>6, <1>12, QuotedAt
    <3> QED BY <2>1, <3>2, <3>3
  <2>3. CASE at + l <= n + 1
    <3>1. pos' = pos + 1 /\ mode' = "token" /\ token' = [type |-> "value_string", value |-> buffer]
      BY <2>2, <2>3, ScanStringKeeps
    <3>2. buffer = s
      <4>1. i - 1 = Len(s) /\ SubSeq(s, 1, Len(s)) = s
        BY <1>11, <1>16, SubSeqFull
      <4> QED BY <1>7, <4>1
    <3>3. pos' = next /\ pos' <= n + 2
      BY <1>10, <2>1, <2>3, <3>1
    <3>4. token' = TokenOf(m, j)
      BY <1>5, <1>6, <3>1, <3>2 DEF TokenOf
    <3>5. Behind(m, n, j)'
      BY <1>4, <1>9, <3>1, <3>3, <3>4 DEF Behind
    <3> QED BY <3>5 DEF Phase
  <2>4. CASE ~(at + l <= n + 1)
    <3>1. mode' = "done"
      <4>1. At(input, pos) \in {Eof, Id}
        BY <1>1, <2>2, <2>4
      <4> QED BY <4>1, UnitStop, ScanStringKeeps
    <3>2. n # d
      BY <1>3, <1>10, <2>1, <2>4
    <3> QED BY <1>15, <3>1, <3>2
  <2> QED BY <2>3, <2>4
<1>17. CASE i # y + 1
  <2>1. i \in 1..Len(s)
    BY <1>11, <1>17
  <2>2. PICK k \in Nat : InText(input, at, s, k, stop) /\ (k = n + 1 - at \/ (k < n + 1 - at /\ k = l))
    <3>1. at <= n + 1
      BY <1>10, <1>14
    <3> QED BY <1>4, <1>5, <1>6, <3>1, StringShows
  <2>3. t <= k /\ k <= n + 1 - at
    BY <1>10, <1>12, <1>14, <2>2, SMTT(30)
  <2>4. PICK C : input \in Seq(C)
    BY DEF Setting, Arrived
  <2>5. Taken(input, at, s, k, i)
    BY <1>7, <1>14, <2>1, <2>2, <2>3, <2>4, TurnTaken
  <2>6. PICK unit : unit = Unit(input, pos)
    OBVIOUS
  <2>7. /\ At(input, pos) # Quote
        /\ \/ unit = Illegal /\ k < l
           \/ /\ unit # Illegal
              /\ \E h \in (i + 1)..(Len(s) + 1) :
                    /\ Turns(s)[h] <= k /\ pos + unit.takes = at + Turns(s)[h] + 1
                    /\ unit.adds = SubSeq(s, i, h - 1)
                    /\ Utf8(s)[h - 1] = 0
    BY <1>4, <1>6, <1>7, <2>5, <2>6 DEF Taken
  <2>8. CASE unit = Illegal /\ k < l
    <3>1. mode' = "done"
      BY <2>6, <2>7, <2>8, ScanStringKeeps
    <3>2. n # d
      BY <1>3, <1>10, <2>2, <2>8
    <3> QED BY <1>15, <3>1, <3>2
  <2>9. CASE unit # Illegal
    <3>1. PICK h \in (i + 1)..(Len(s) + 1) :
            /\ Turns(s)[h] <= k /\ pos + unit.takes = at + Turns(s)[h] + 1
            /\ unit.adds = SubSeq(s, i, h - 1)
            /\ Utf8(s)[h - 1] = 0
      BY <2>7, <2>9
    <3>2. pos' = pos + unit.takes /\ mode' = "string" /\ buffer' = buffer \o unit.adds
      BY <1>5, <2>6, <2>7, <2>9, ScanStringKeeps
    <3>3. h \in 1..(y + 1)
      BY <1>11, <2>1
    <3>4. PICK u \in Nat : u = Turns(s)[h]
      BY <1>13, <3>3
    <3>5. pos' = at + u + 1 /\ pos' <= n + 2
      <4>1. u <= k
        BY <3>1, <3>4
      <4>2. pos' = at + u + 1
        BY <3>1, <3>2, <3>4, Zenon
      <4>3. n \in Nat /\ k <= n + 1 - at
        BY <1>10, <2>3
      <4>4. at + u + 1 <= n + 2
        BY <4>1, <4>3
      <4> QED BY <4>2, <4>4
    <3>6. buffer' = SubSeq(s, 1, h - 1)
      BY <1>7, <2>1, <3>1, <3>2, SubSeqJoined
    <3>7. \E q \in 1..(Len(s) + 1) :
            /\ pos' = at + Turns(s)[q] + 1 /\ pos' <= n + 2
            /\ Utf8(s)[q - 1] = 0
            /\ buffer' = SubSeq(s, 1, q - 1)
      BY <1>11, <3>1, <3>3, <3>4, <3>5, <3>6
    <3>8. InString(m, n, j)'
      BY <1>4, <1>5, <1>6, <1>9, <3>2, <3>7 DEF InString
    <3> QED BY <3>8 DEF Phase
  <2> QED BY <2>7, <2>8, <2>9
<1> QED BY <1>16, <1>17

-----------------------------------------------------------------------------
(* The lexer in a number *)

LEMMA ScanNumberKeeps ==
    ASSUME ScanNumber
    PROVE  mode \in {"minus", "zero", "any1"} /\ UNCHANGED wireVars /\ UNCHANGED <<expect, recv, result>>
BY DEF ScanNumber

LEMMA NumberDigit ==
    ASSUME ScanNumber, At(input, pos) \in Figure, mode # "zero"
    PROVE  /\ pos' = pos + 1 /\ buffer' = Append(buffer, At(input, pos))
           /\ mode' = IF mode = "minus" /\ At(input, pos) = "0" THEN "zero" ELSE "any1"
BY DEF ScanNumber, Advance, Figure

LEMMA NumberEnds ==
    ASSUME ScanNumber, At(input, pos) \notin Figure
    PROVE  IF mode = "minus" THEN mode' = "done"
           ELSE /\ pos' = pos /\ mode' = "token"
                /\ token' = IF buffer[1] = "-"
                            THEN [type |-> "value_integer", value |-> -ValueOf(Tail(buffer))]
                            ELSE [type |-> "value_unsigned", value |-> ValueOf(buffer)]
BY DEF ScanNumber, Failed, Token, Figure

\* A sign is followed by a figure that is not 0, and a 0 by none.
LEMMA NumberModes ==
    ASSUME NEW e, NEW v \in Int, NumberText(e, v), NEW h \in 1..Len(e)
    PROVE  /\ e[h] \in Figure \cup {"-"} /\ Len(e) \in Nat \ {0}
           /\ NumberMode(e, h) \in {"minus", "zero", "any1"}
           /\ NumberMode(e, h) = "minus" => h < Len(e) /\ e[2] # "0" /\ h = 1
           /\ NumberMode(e, h) = "zero" => h = Len(e)
           /\ h >= 2 => e[h] \in Figure
           /\ v < 0 <=> e[1] = "-"
<1>1. e \in Seq(Figure \cup {"-"}) /\ Len(e) >= 1 /\ "-" \notin Figure
  BY DigitValues DEF NumberText, Figure
<1>2. PICK l \in Nat \ {0} : l = Len(e)
  BY <1>1
<1>3. 1 \in 1..l
  OBVIOUS
<1>4. CASE v < 0
  <2>1. /\ e[1] = "-" /\ l >= 2 /\ e[2] # "0"
        /\ \A i \in 2..l : e[i] \in Figure
    BY <1>2, <1>4 DEF NumberText
  <2> QED BY <1>1, <1>2, <1>4, <2>1 DEF NumberMode
<1>5. CASE v >= 0
  <2>1. /\ \A i \in 1..l : e[i] \in Figure
        /\ e[1] = "0" => l = 1
    BY <1>2, <1>5 DEF NumberText
  <2>2. e[1] # "-" /\ ~(v < 0)
    BY <1>1, <1>3, <1>5, <2>1
  <2> QED BY <1>1, <1>2, <2>1, <2>2 DEF NumberMode
<1> QED BY <1>4, <1>5

LEMMA NumberStep ==
    ASSUME NEW m, NEW n, NEW stop, Setting(m, n, stop), ScanNumber, result = Default,
           NEW j \in 1..Len(m.fields), InNumber(m, n, j)
    PROVE  Phase(m, n, stop)'
<1>1. m \in Messages /\ stop \in {Eof, Id} /\ stop \notin Figure
  BY StopValues DEF Setting, Figure
<1>2. PICK at \in Nat, next \in Nat, l \in Nat, d \in Nat : Between(m, j, at, next, l, d)
  BY <1>1, BetweenPlaces
<1>3. at >= 2 /\ l >= 1 /\ next = at + l + 1 /\ next <= d + 1
  BY <1>2 DEF Between
<1>4. at = Places(m)[j] /\ next = Places(m)[j + 1] /\ l = Len(Element(m, j)) /\ d = Len(Dump(m))
  BY <1>2 DEF Between
<1>5. Expected(m, j) /\ TypeAt(m, j) # "string"
  BY DEF InNumber
<1>6. PICK e \in Seq(Figure \cup {"-"}), v \in Int : e = Element(m, j) /\ v = m.fields[j] /\ NumberText(e, v)
  <2>1. m.fields[j] \in Int /\ NumberText(Element(m, j), m.fields[j])
    BY <1>1, <1>5, ElementText
  <2> QED BY <2>1 DEF NumberText
<1>7. l = Len(e)
  BY <1>4, <1>6
<1>8. PICK h \in 1..l : /\ pos = at + h + 1 /\ pos <= n + 2
                        /\ mode = NumberMode(e, h)
                        /\ buffer = SubSeq(e, 1, h)
  BY <1>4, <1>6 DEF InNumber
<1>9. UNCHANGED <<expect, recv, result>>
  BY ScanNumberKeeps
<1>10. Expected(m, j)'
  BY <1>5, <1>9 DEF Expected
<1>11. n \in 0..d
  BY <1>4 DEF Setting
<1>12. /\ mode \in {"minus", "zero", "any1"}
       /\ mode = "minus" => h < l /\ e[2] # "0" /\ h = 1
       /\ mode = "zero" => h = l
  BY <1>6, <1>7, <1>8, NumberModes
<1>13. ASSUME At(input, pos) = stop, n # d, pos = n + 2
       PROVE  Phase(m, n, stop)'
  <2>1. ~Complete(m, n, stop)
    BY <1>4, <1>13 DEF Complete
  <2>2. CASE mode = "minus"
    <3>1. mode' = "done"
      BY <1>1, <1>13, <2>2, NumberEnds
    <3>2. Ended(m, n, stop)'
      BY <1>9, <2>1, <3>1 DEF Ended, Complete
    <3> QED BY <3>2 DEF Phase
  <2>3. CASE mode # "minus"
    <3>1. /\ pos' = pos /\ mode' = "token"
          /\ token' = IF buffer[1] = "-"
                      THEN [type |-> "value_integer", value |-> -ValueOf(Tail(buffer))]
                      ELSE [type |-> "value_unsigned", value |-> ValueOf(buffer)]
      BY <1>1, <1>13, <2>3, NumberEnds
    <3>2. token'.type \in Numbers
      BY <3>1 DEF Numbers
    <3>3. expect' \in {"first", "value"}
      BY <1>10 DEF Expected
    <3>4. Lost(m, n, stop)'
      BY <1>13, <2>1, <3>1, <3>2, <3>3 DEF Lost, Complete
    <3> QED BY <3>4 DEF Phase
  <2> QED BY <2>2, <2>3
<1>14. CASE h < l
  <2>1. PICK g \in 1..l : g = h + 1
    BY <1>14
  <2>2. pos = at + g /\ at + g <= n + 2 /\ g >= 2
    BY <1>8, <2>1
  <2>3. At(input, pos) = IF at + g <= n + 1 THEN e[g] ELSE stop
    <3>1. g \in 1..Len(Element(m, j)) /\ Places(m)[j] + g <= n + 2
      BY <1>4, <2>2
    <3>2. At(input, Places(m)[j] + g) = IF Places(m)[j] + g <= n + 1 THEN Element(m, j)[g] ELSE stop
      BY <3>1, ElementCell
    <3> QED BY <1>4, <1>6, <2>2, <3>2
  <2>4. CASE at + g <= n + 1
    <3>1. At(input, pos) = e[g] /\ e[g] \in Figure
      BY <1>6, <1>7, <2>2, <2>3, <2>4, NumberModes
    <3>2. mode # "zero"
      BY <1>12, <1>14
    <3>3. /\ pos' = pos + 1 /\ buffer' = Append(buffer, e[g])
          /\ mode' = IF mode = "minus" /\ e[g] = "0" THEN "zero" ELSE "any1"
      BY <3>1, <3>2, NumberDigit
    <3>4. mode' = NumberMode(e, g)
      <4>1. mode = "minus" => g = 2 /\ e[2] # "0"
        BY <1>12, <2>1
      <4>2. mode' = "any1"
        BY <3>3, <4>1
      <4>3. g # 1
        BY <2>2
      <4> QED BY <4>2, <4>3 DEF NumberMode
    <3>5. buffer' = SubSeq(e, 1, g)
      <4>1. SubSeq(e, 1, g) = Append(SubSeq(e, 1, g - 1), e[g])
        <5>1. 1 \in 1..Len(e) /\ g \in 1..Len(e)
          BY <1>7
        <5> QED BY <5>1, SubSeqRecursiveSecond, SubSeqProperties
      <4>2. g - 1 = h
        BY <2>1
      <4> QED BY <1>8, <3>3, <4>1, <4>2
    <3>6. pos' = at + g + 1 /\ pos' <= n + 2
      BY <1>11, <2>2, <2>4, <3>3
    <3>7. \E q \in 1..l : /\ pos' = at + q + 1 /\ pos' <= n + 2
                          /\ mode' = NumberMode(e, q)
                          /\ buffer' = SubSeq(e, 1, q)
      BY <3>4, <3>5, <3>6
    <3>8. InNumber(m, n, j)'
      BY <1>4, <1>5, <1>6, <1>10, <3>7 DEF InNumber
    <3> QED BY <3>8 DEF Phase
  <2>5. CASE ~(at + g <= n + 1)
    <3>1. pos = n + 2 /\ n # d
      BY <1>3, <1>11, <2>2, <2>5
    <3> QED BY <1>13, <2>3, <2>5, <3>1
  <2> QED BY <2>4, <2>5
<1>15. CASE h = l
  <2>1. pos = next /\ next <= n + 2
    BY <1>3, <1>8, <1>15
  <2>2. At(input, pos) = IF next <= n + 1 THEN Closing(m, j) ELSE stop
    BY <1>4, <2>1, ClosingCell
  <2>3. At(input, pos) \notin Figure
    BY <1>1, <2>2, DigitValues DEF Closing, Figure
  <2>4. mode # "minus"
    BY <1>12, <1>15
  <2>5. buffer = e
    BY <1>7, <1>8, <1>15, SubSeqFull
  <2>6. /\ pos' = pos /\ mode' = "token"
        /\ token' = IF e[1] = "-"
                    THEN [type |-> "value_integer", value |-> -ValueOf(Tail(e))]
                    ELSE [type |-> "value_unsigned", value |-> ValueOf(e)]
    BY <2>3, <2>4, <2>5, NumberEnds
  <2>7. token' = [type |-> IF v < 0 THEN "value_integer" ELSE "value_unsigned", value |-> v]
    <3>1. v < 0 <=> e[1] = "-"
      BY <1>6, <1>7, NumberModes
    <3>2. CASE v < 0
      <4>1. -ValueOf(Tail(e)) = v
        <5>1. ValueOf(Tail(e)) = -v
          BY <1>6, <3>2 DEF NumberText
        <5> QED BY <5>1
      <4> QED BY <2>6, <3>1, <3>2, <4>1
    <3>3. CASE ~(v < 0)
      <4>1. ValueOf(e) = v
        <5>1. v >= 0
          BY <3>3
        <5> QED BY <1>6, <5>1 DEF NumberText
      <4> QED BY <2>6, <3>1, <3>3, <4>1
    <3> QED BY <3>2, <3>3
  <2>8. token' = TokenOf(m, j)
    BY <1>5, <1>6, <2>7 DEF TokenOf
  <2>9. Behind(m, n, j)'
    BY <1>4, <1>10, <2>1, <2>6, <2>8 DEF Behind
  <2> QED BY <2>9 DEF Phase
<1>16. h < l \/ h = l
  OBVIOUS
<1> QED BY <1>14, <1>15, <1>16

-----------------------------------------------------------------------------
(* The parser *)

LEMMA ParseKeeps ==
    ASSUME Parse
    PROVE  /\ mode = "token" /\ mode' = "scan" /\ pos' = pos
           /\ UNCHANGED wireVars /\ result' = result
           /\ \/ Opens /\ expect' = "first" /\ recv' = recv
              \/ IsValue /\ recv' = Append(recv, token) /\ expect' = "next"
              \/ IsComma /\ expect' = "value" /\ recv' = recv
              \/ Closes /\ expect' = "end" /\ recv' = recv
BY DEF Parse

LEMMA ParseErrorKeeps ==
    ASSUME ParseError
    PROVE  /\ mode = "token" /\ mode' = "done" /\ UNCHANGED wireVars /\ result' = result
           /\ ~(Opens \/ IsValue \/ IsComma \/ Closes \/ Ends)
BY DEF ParseError, Failed

LEMMA TokensAppend ==
    ASSUME NEW m \in Messages, NEW j \in 1..Len(m.fields)
    PROVE  Append(Tokens(m, j - 1), TokenOf(m, j)) = Tokens(m, j)
<1>1. PICK i \in Nat : i = j - 1 /\ i + 1 = j
  <2>1. PICK k \in Nat : k = Len(m.fields)
    BY MessageFields
  <2>2. j \in 1..k
    BY <2>1
  <2> QED BY <2>2
<1>2. PICK b : b = Tokens(m, j)
  OBVIOUS
<1>3. b = [h \in 1..(i + 1) |-> TokenOf(m, h)]
  BY <1>1, <1>2 DEF Tokens
<1>4. \A h \in 1..(i + 1) : b[h] = TokenOf(m, h)
  BY <1>3
<1>5. PICK C : \A h \in 1..(i + 1) : TokenOf(m, h) \in C
  <2>1. \A h \in 1..(i + 1) : TokenOf(m, h) \in {TokenOf(m, g) : g \in 1..(i + 1)}
    OBVIOUS
  <2> QED BY <2>1
<1>6. b \in Seq(C) /\ Len(b) = i + 1
  <2>1. b \in [1..(i + 1) -> C]
    BY <1>3, <1>5
  <2> QED BY <2>1
<1>7. PICK a : a = Tokens(m, i)
  OBVIOUS
<1>8. a \in Seq(C) /\ Len(a) = i /\ \A h \in 1..i : a[h] = b[h]
  <2>1. a = [h \in 1..i |-> TokenOf(m, h)]
    BY <1>7 DEF Tokens
  <2>2. \A h \in 1..i : TokenOf(m, h) \in C /\ b[h] = TokenOf(m, h)
    BY <1>4, <1>5
  <2>3. a \in [1..i -> C] /\ \A h \in 1..i : a[h] = b[h]
    BY <2>1, <2>2
  <2> QED BY <2>3
<1>9. PICK t \in C : t = TokenOf(m, j) /\ b[i + 1] = t
  BY <1>1, <1>4, <1>5
<1>10. /\ Append(a, t) \in Seq(C) /\ Len(Append(a, t)) = i + 1
       /\ \A h \in 1..i : Append(a, t)[h] = a[h]
       /\ Append(a, t)[i + 1] = t
  BY <1>8
<1>11. \A h \in 1..(i + 1) : Append(a, t)[h] = b[h]
  <2>1. ASSUME NEW h \in 1..(i + 1)
        PROVE  Append(a, t)[h] = b[h]
    <3>1. CASE h = i + 1
      BY <1>9, <1>10, <3>1
    <3>2. CASE h \in 1..i
      BY <1>8, <1>10, <3>2
    <3>3. h = i + 1 \/ h \in 1..i
      OBVIOUS
    <3> QED BY <3>1, <3>2, <3>3
  <2> QED BY <2>1
<1>12. Append(a, t) = b
  BY <1>6, <1>10, <1>11, SeqEqual
<1> QED BY <1>1, <1>2, <1>7, <1>9, <1>12

LEMMA ParseOpening ==
    ASSUME NEW m, NEW n, NEW stop, Setting(m, n, stop), Opening(n), Parse
    PROVE  Phase(m, n, stop)'
<1>1. expect = "array" /\ recv = <<>> /\ pos = 3 /\ n >= 1
  BY ParseKeeps DEF Opening
<1>2. mode' = "scan" /\ pos' = 3 /\ expect' = "first" /\ recv' = <<>>
  BY <1>1, ParseKeeps DEF IsValue, IsComma, Closes
<1>3. PICK k \in Nat \ {0} : k = Len(m.fields)
  BY MessageFields DEF Setting
<1>4. 1 \in 1..Len(m.fields)
  BY <1>3
<1>5. Places(m)[1] = 2
  BY TextLaidOut DEF Setting, LaidOut
<1>6. Tokens(m, 1 - 1) = <<>>
  BY DEF Tokens
<1>7. n \in Int
  <2>1. PICK at \in Nat, next \in Nat, l \in Nat, d \in Nat : Between(m, 1, at, next, l, d)
    BY <1>4, BetweenPlaces DEF Setting
  <2>2. n \in 0..d
    BY <2>1 DEF Between, Setting
  <2> QED BY <2>2
<1>8. Places(m)[1] + 1 = 3 /\ 3 <= n + 2
  BY <1>1, <1>5, <1>7
<1>9. Before(m, n, 1)'
  BY <1>2, <1>6, <1>8 DEF Before, Expected
<1> QED BY <1>4, <1>9 DEF Phase

LEMMA ParseBehind ==
    ASSUME NEW m, NEW n, NEW stop, Setting(m, n, stop), Parse,
           NEW j \in 1..Len(m.fields), Behind(m, n, j)
    PROVE  Phase(m, n, stop)'
<1>1. m \in Messages
  BY DEF Setting
<1>2. /\ expect \in {"first", "value"} /\ recv = Tokens(m, j - 1) /\ token = TokenOf(m, j)
      /\ pos = Places(m)[j + 1] /\ pos <= n + 2
  BY DEF Behind, Expected
<1>3. token.type \in {"value_string", "value_integer", "value_unsigned"}
  BY <1>2 DEF TokenOf
<1>4. mode' = "scan" /\ pos' = pos /\ recv' = Append(recv, token) /\ expect' = "next"
  BY <1>2, <1>3, ParseKeeps DEF Opens, IsComma, Closes
<1>5. recv' = Tokens(m, j)
  BY <1>1, <1>2, <1>4, TokensAppend
<1>6. Followed(m, n, j)'
  BY <1>2, <1>4, <1>5 DEF Followed
<1> QED BY <1>6 DEF Phase

LEMMA ParseFollowed ==
    ASSUME NEW m, NEW n, NEW stop, Setting(m, n, stop), Parse,
           NEW j \in 1..Len(m.fields), Followed(m, n, j)
    PROVE  Phase(m, n, stop)'
<1>1. m \in Messages
  BY DEF Setting
<1>2. PICK at \in Nat, next \in Nat, l \in Nat, d \in Nat : Between(m, j, at, next, l, d)
  BY <1>1, BetweenPlaces
<1>3. /\ next = Places(m)[j + 1] /\ d = Len(Dump(m))
      /\ j = Len(m.fields) => next = d + 1
  BY <1>2 DEF Between
<1>4. mode = "token" /\ mode' = "scan" /\ pos' = pos
  BY ParseKeeps
<1>5. /\ expect = "next" /\ recv = Tokens(m, j) /\ pos = next + 1 /\ pos <= n + 2
      /\ token.type = IF j = Len(m.fields) THEN "end_array" ELSE "value_separator"
  BY <1>3, <1>4 DEF Followed
<1>6. n \in 0..d
  BY <1>3 DEF Setting
<1>7. CASE j = Len(m.fields)
  <2>1. expect' = "end" /\ recv' = recv
    BY <1>5, <1>7, ParseKeeps DEF Opens, IsValue, IsComma, Numbers
  <2>2. n = d /\ pos' = n + 2
    BY <1>3, <1>4, <1>5, <1>6, <1>7
  <2>3. Closed(m, n, stop)'
    BY <1>3, <1>4, <1>5, <1>7, <2>1, <2>2 DEF Closed
  <2> QED BY <2>3 DEF Phase
<1>8. CASE j # Len(m.fields)
  <2>1. expect' = "value" /\ recv' = recv
    BY <1>5, <1>8, ParseKeeps DEF Opens, IsValue, Closes, Numbers
  <2>2. PICK k \in Nat : k = Len(m.fields)
    BY <1>1, MessageFields
  <2>3. PICK i \in 1..k : i = j + 1 /\ i # 1 /\ i - 1 = j
    <3>1. j + 1 \in 1..k /\ j + 1 # 1 /\ (j + 1) - 1 = j
      BY <1>8, <2>2
    <3> QED BY <3>1
  <2>4. Before(m, n, i)'
    <3>1. Expected(m, i)'
      BY <1>5, <2>1, <2>3 DEF Expected
    <3>2. pos' = Places(m)[i] + 1 /\ pos' <= n + 2
      BY <1>3, <1>4, <1>5, <2>3
    <3> QED BY <1>4, <3>1, <3>2 DEF Before
  <2> QED BY <2>2, <2>4 DEF Phase
<1> QED BY <1>7, <1>8

\* The parser takes a number that may have been cut, but not the end that follows it.
LEMMA ParseLost ==
    ASSUME NEW m, NEW n, NEW stop, Setting(m, n, stop), Parse, Lost(m, n, stop)
    PROVE  Phase(m, n, stop)'
<1>1. mode = "token" /\ mode' = "scan" /\ pos' = pos /\ ~Complete(m, n, stop)
  BY ParseKeeps DEF Lost
<1>2. ASSUME token.type = "end_of_input", expect # "end"
      PROVE  FALSE
  BY <1>2, ParseKeeps DEF Opens, IsValue, IsComma, Closes, Numbers
<1>3. token.type \in Numbers /\ expect \in {"first", "value"} /\ pos = n + 2
  BY <1>1, <1>2 DEF Lost
<1>4. expect' = "next"
  BY <1>3, ParseKeeps DEF Opens, IsComma, Closes, Numbers
<1>5. Lost(m, n, stop)'
  BY <1>1, <1>3, <1>4 DEF Lost, Complete
<1> QED BY <1>5 DEF Phase

\* Nothing but the end of a text that was cut is an error.
LEMMA ErrorStep ==
    ASSUME NEW m, NEW n, NEW stop, Setting(m, n, stop), ParseError, result = Default, Phase(m, n, stop)
    PROVE  Phase(m, n, stop)'
<1>1. /\ mode = "token" /\ mode' = "done" /\ result' = Default
      /\ ~Opens /\ ~IsValue /\ ~IsComma /\ ~Closes /\ ~Ends
  BY ParseErrorKeeps
<1>2. ~Opening(n)
  BY <1>1 DEF Opening, Opens
<1>3. ASSUME NEW j \in 1..Len(m.fields)
      PROVE  /\ ~Before(m, n, j) /\ ~InString(m, n, j) /\ ~InNumber(m, n, j)
             /\ ~Behind(m, n, j) /\ ~Followed(m, n, j)
  <2>1. ~Before(m, n, j) /\ ~InString(m, n, j)
    BY <1>1 DEF Before, InString
  <2>2. ~InNumber(m, n, j)
    BY <1>1 DEF InNumber, NumberMode
  <2>3. ~Behind(m, n, j)
    <3>1. SUFFICES ASSUME Behind(m, n, j) PROVE FALSE
      OBVIOUS
    <3>2. expect \in {"first", "value"}
      BY <3>1 DEF Behind, Expected
    <3>3. token.type \in {"value_string", "value_integer", "value_unsigned"}
      BY <3>1 DEF Behind, TokenOf
    <3> QED BY <1>1, <3>2, <3>3 DEF IsValue, Numbers
  <2>4. ~Followed(m, n, j)
    BY <1>1 DEF Followed, Closes, IsComma
  <2> QED BY <2>1, <2>2, <2>3, <2>4
<1>4. ~Closed(m, n, stop)
  BY <1>1 DEF Closed, Ends
<1>5. ~Ended(m, n, stop)
  BY <1>1 DEF Ended
<1>6. Lost(m, n, stop)
  BY <1>2, <1>3, <1>4, <1>5 DEF Phase
<1>7. ~Complete(m, n, stop)
  BY <1>6 DEF Lost
<1>8. Ended(m, n, stop)'
  BY <1>1, <1>7 DEF Ended, Complete
<1> QED BY <1>8 DEF Phase

\* What the decoder returns for an array that was closed are the fields.
LEMMA ReturnStep ==
    ASSUME NEW m, NEW n, NEW stop, Setting(m, n, stop), Return, message = m, Phase(m, n, stop)
    PROVE  Phase(m, n, stop)' /\ mode' = "done" /\ UNCHANGED wireVars
<1>1. m \in Messages
  BY DEF Setting
<1>2. /\ mode = "token" /\ mode' = "done" /\ UNCHANGED wireVars
      /\ expect = "end" /\ token.type = "end_of_input"
      /\ result' = IF \A i \in DOMAIN Fields[m.kind] : Gets(Fields[m.kind][i], i)
                   THEN [i \in DOMAIN Fields[m.kind] |-> Cast(Fields[m.kind][i], recv[i].value)]
                   ELSE Default
  BY DEF Return, Ends
<1>3. ~Opening(n) /\ ~Lost(m, n, stop) /\ ~Ended(m, n, stop)
  BY <1>2 DEF Opening, Lost, Ended
<1>4. ASSUME NEW j \in 1..Len(m.fields)
      PROVE  /\ ~Before(m, n, j) /\ ~InString(m, n, j) /\ ~InNumber(m, n, j)
             /\ ~Behind(m, n, j) /\ ~Followed(m, n, j)
  BY <1>2 DEF Before, InString, InNumber, Behind, Followed, Expected
<1>5. Closed(m, n, stop)
  BY <1>3, <1>4 DEF Phase
<1>6. PICK k \in Nat \ {0} :
        /\ k = Len(m.fields) /\ DOMAIN Fields[m.kind] = 1..k
        /\ m.fields = [j \in 1..k |-> m.fields[j]]
        /\ \A j \in 1..k : TypeAt(m, j) \in Types /\ IsOf(TypeAt(m, j), m.fields[j])
  BY <1>1, MessageFields
<1>7. recv = [i \in 1..k |-> TokenOf(m, i)] /\ Complete(m, n, stop)
  BY <1>2, <1>5, <1>6 DEF Closed, Tokens, Complete
<1>8. ASSUME NEW i \in 1..k
      PROVE  /\ Gets(TypeAt(m, i), i)
             /\ Cast(TypeAt(m, i), recv[i].value) = m.fields[i]
  <2>1. i \in DOMAIN recv /\ recv[i] = TokenOf(m, i)
    BY <1>7
  <2>2. recv[i].value = m.fields[i]
    BY <2>1 DEF TokenOf
  <2>3. recv[i].type \in IF TypeAt(m, i) = "string" THEN {"value_string"} ELSE Numbers
    BY <2>1 DEF TokenOf, Numbers
  <2>4. Cast(TypeAt(m, i), m.fields[i]) = m.fields[i]
    BY <1>6, CastFits DEF Types
  <2> QED BY <2>1, <2>2, <2>3, <2>4 DEF Gets
<1>9. result' = [i \in 1..k |-> Cast(TypeAt(m, i), recv[i].value)]
  BY <1>2, <1>6, <1>8 DEF TypeAt
<1>10. result' = m.fields
  BY <1>6, <1>8, <1>9
<1>11. Ended(m, n, stop)'
  BY <1>2, <1>7, <1>10 DEF Ended, Complete
<1> QED BY <1>2, <1>11 DEF Phase

-----------------------------------------------------------------------------
(* The theorems *)

\* Every step of the decoder keeps the phase of it.
LEMMA PhaseStep ==
    ASSUME NEW m, NEW n, NEW stop, Setting(m, n, stop), Phase(m, n, stop), message = m,
           mode # "done" => result = Default, [Next]_vars
    PROVE  Phase(m, n, stop)' /\ UNCHANGED wireVars /\ (mode' # "done" => result' = Default)
<1>1. mode \notin {"encode", "thrown", "sent"}
  <2>1. ~Opening(n) \/ mode \notin {"encode", "thrown", "sent"}
    BY DEF Opening
  <2>2. ASSUME NEW j \in 1..Len(m.fields),
               \/ Before(m, n, j) \/ InString(m, n, j) \/ InNumber(m, n, j)
               \/ Behind(m, n, j) \/ Followed(m, n, j)
        PROVE  mode \notin {"encode", "thrown", "sent"}
    BY <2>2 DEF Before, InString, InNumber, NumberMode, Behind, Followed
  <2>3. CASE Closed(m, n, stop) \/ Lost(m, n, stop) \/ Ended(m, n, stop)
    BY <2>3 DEF Closed, Lost, Ended
  <2> QED BY <2>1, <2>2, <2>3 DEF Phase
<1>2. CASE UNCHANGED vars
  <2>1. UNCHANGED wireVars /\ UNCHANGED <<pos, mode, buffer, token, expect, recv, result>>
    BY <1>2 DEF vars, lexerVars
  <2>2. Opening(n) => Opening(n)'
    BY <2>1 DEF Opening
  <2>3. ASSUME NEW j \in 1..Len(m.fields)
        PROVE  /\ Before(m, n, j) => Before(m, n, j)'
               /\ InString(m, n, j) => InString(m, n, j)'
               /\ InNumber(m, n, j) => InNumber(m, n, j)'
               /\ Behind(m, n, j) => Behind(m, n, j)'
               /\ Followed(m, n, j) => Followed(m, n, j)'
    BY <2>1 DEF Before, InString, InNumber, Behind, Followed, Expected
  <2>4. /\ Closed(m, n, stop) => Closed(m, n, stop)'
        /\ Lost(m, n, stop) => Lost(m, n, stop)'
        /\ Ended(m, n, stop) => Ended(m, n, stop)'
    BY <2>1 DEF Closed, Lost, Ended, Complete
  <2> QED BY <2>1, <2>2, <2>3, <2>4 DEF Phase
<1>3. CASE Scan
  <2>1. mode = "scan" /\ UNCHANGED wireVars /\ result' = result /\ result = Default
    BY <1>3, ScanKeeps DEF Scan
  <2>2. CASE Opening(n)
    BY <1>3, <2>1, <2>2, ScanOpening
  <2>3. ASSUME NEW j \in 1..Len(m.fields), Before(m, n, j)
        PROVE  Phase(m, n, stop)'
    BY <1>3, <2>1, <2>3, ScanBefore
  <2>4. ASSUME NEW j \in 1..Len(m.fields), Followed(m, n, j)
        PROVE  Phase(m, n, stop)'
    BY <1>3, <2>1, <2>4, ScanFollowed
  <2>5. CASE Closed(m, n, stop)
    BY <1>3, <2>1, <2>5, ScanClosed
  <2>6. CASE Lost(m, n, stop)
    BY <1>3, <2>1, <2>6, ScanLost
  <2>7. \A j \in 1..Len(m.fields) : ~InString(m, n, j) /\ ~InNumber(m, n, j) /\ ~Behind(m, n, j)
    BY <2>1 DEF InString, InNumber, NumberMode, Behind
  <2>8. ~Ended(m, n, stop)
    BY <2>1 DEF Ended
  <2>9. Phase(m, n, stop)'
    BY <2>2, <2>3, <2>4, <2>5, <2>6, <2>7, <2>8 DEF Phase
  <2> QED BY <2>1, <2>9
<1>4. CASE ScanString
  <2>1. mode = "string" /\ UNCHANGED wireVars /\ result' = result /\ result = Default
    BY <1>4, ScanStringKeeps
  <2>2. ASSUME NEW j \in 1..Len(m.fields), InString(m, n, j)
        PROVE  Phase(m, n, stop)'
    BY <1>4, <2>1, <2>2, StringStep
  <2>3. \A j \in 1..Len(m.fields) :
            ~Before(m, n, j) /\ ~InNumber(m, n, j) /\ ~Behind(m, n, j) /\ ~Followed(m, n, j)
    BY <2>1 DEF Before, InNumber, NumberMode, Behind, Followed
  <2>4. ~Opening(n) /\ ~Closed(m, n, stop) /\ ~Lost(m, n, stop) /\ ~Ended(m, n, stop)
    BY <2>1 DEF Opening, Closed, Lost, Ended
  <2>5. Phase(m, n, stop)'
    BY <2>2, <2>3, <2>4 DEF Phase
  <2> QED BY <2>1, <2>5
<1>5. CASE ScanNumber
  <2>1. mode \in {"minus", "zero", "any1"} /\ UNCHANGED wireVars /\ result' = result /\ result = Default
    BY <1>5, ScanNumberKeeps
  <2>2. ASSUME NEW j \in 1..Len(m.fields), InNumber(m, n, j)
        PROVE  Phase(m, n, stop)'
    BY <1>5, <2>1, <2>2, NumberStep
  <2>3. \A j \in 1..Len(m.fields) :
            ~Before(m, n, j) /\ ~InString(m, n, j) /\ ~Behind(m, n, j) /\ ~Followed(m, n, j)
    BY <2>1 DEF Before, InString, Behind, Followed
  <2>4. ~Opening(n) /\ ~Closed(m, n, stop) /\ ~Lost(m, n, stop) /\ ~Ended(m, n, stop)
    BY <2>1 DEF Opening, Closed, Lost, Ended
  <2>5. Phase(m, n, stop)'
    BY <2>2, <2>3, <2>4 DEF Phase
  <2> QED BY <2>1, <2>5
<1>6. CASE Parse
  <2>1. /\ mode = "token" /\ mode' = "scan" /\ UNCHANGED wireVars
        /\ result' = result /\ result = Default
    BY <1>6, ParseKeeps
  <2>2. CASE Opening(n)
    BY <1>6, <2>1, <2>2, ParseOpening
  <2>3. ASSUME NEW j \in 1..Len(m.fields), Behind(m, n, j)
        PROVE  Phase(m, n, stop)'
    BY <1>6, <2>3, ParseBehind
  <2>4. ASSUME NEW j \in 1..Len(m.fields), Followed(m, n, j)
        PROVE  Phase(m, n, stop)'
    BY <1>6, <2>4, ParseFollowed
  <2>5. CASE Lost(m, n, stop)
    BY <1>6, <2>1, <2>5, ParseLost
  <2>6. \A j \in 1..Len(m.fields) : ~Before(m, n, j) /\ ~InString(m, n, j) /\ ~InNumber(m, n, j)
    BY <2>1 DEF Before, InString, InNumber, NumberMode
  <2>7. ~Closed(m, n, stop)
    <3>1. SUFFICES ASSUME Closed(m, n, stop) PROVE FALSE
      OBVIOUS
    <3>2. expect = "end"
      BY <3>1 DEF Closed
    <3> QED BY <1>6, <3>2, ParseKeeps DEF Opens, IsValue, IsComma, Closes
  <2>8. ~Ended(m, n, stop)
    BY <2>1 DEF Ended
  <2>9. Phase(m, n, stop)'
    BY <2>2, <2>3, <2>4, <2>5, <2>6, <2>7, <2>8 DEF Phase
  <2> QED BY <2>1, <2>9
<1>7. CASE ParseError
  <2>1. mode = "token" /\ mode' = "done" /\ UNCHANGED wireVars /\ result = Default
    BY <1>7, ParseErrorKeeps
  <2>2. Phase(m, n, stop)'
    BY <1>7, <2>1, ErrorStep
  <2> QED BY <2>1, <2>2
<1>8. CASE Return
  BY <1>8, ReturnStep
<1>9. ~Encode /\ ~Receive /\ (Over => UNCHANGED vars)
  BY <1>1 DEF Encode, Receive, Over
<1> QED BY <1>2, <1>3, <1>4, <1>5, <1>6, <1>7, <1>8, <1>9 DEF Next

\* What the decoder is given, and where it begins.
LEMMA Received ==
    ASSUME NEW m \in Messages, ~Throws(m), text = Dump(m), mode = "sent", Waiting, Receive
    PROVE  \E n \in Nat, stop \in {Eof, Id} : (Setting(m, n, stop) /\ Phase(m, n, stop))'
<1>1. PICK t \in Seq(Glyphs) : t = Dump(m)
  BY TextLaidOut DEF LaidOut
<1>2. PICK d \in Nat : d = Len(t)
  OBVIOUS
<1>3. PICK n \in 0..d, rest \in {<<>>, <<Id>> \o t} :
        /\ whole' = (n = d /\ rest = <<>>)
        /\ input' = <<"0A">> \o SubSeq(t, 1, n) \o rest
  BY <1>1, <1>2 DEF Receive
<1>4. mode' = "scan" /\ UNCHANGED <<text, pos, expect, recv>>
  BY DEF Receive
<1>5. Id \in Glyphs /\ "0A" \in Glyphs
  <2>1. Id \in Controls /\ "0A" \in Controls
    BY CodeValues DEF Controls, Id
  <2> QED BY <2>1 DEF Glyphs, Bytes
<1>6. PICK a \in Seq(Glyphs) : a = <<"0A">> /\ Len(a) = 1 /\ a[1] = "0A"
  <2>1. <<"0A">> \in Seq(Glyphs) /\ Len(<<"0A">>) = 1 /\ <<"0A">>[1] = "0A"
    BY <1>5
  <2> QED BY <2>1
<1>7. PICK b \in Seq(Glyphs) : b = SubSeq(t, 1, n) /\ Len(b) = n /\ \A i \in 1..n : b[i] = t[i]
  <2>1. \A i \in 1..n : t[i] \in Glyphs
    BY <1>2
  <2>2. /\ SubSeq(t, 1, n) \in Seq(Glyphs)
        /\ Len(SubSeq(t, 1, n)) = IF 1 <= n THEN n - 1 + 1 ELSE 0
        /\ \A i \in 1..(n - 1 + 1) : SubSeq(t, 1, n)[i] = t[1 + i - 1]
    BY <2>1, SubSeqProperties
  <2>3. n - 1 + 1 = n /\ (~(1 <= n) => n = 0) /\ \A i \in 1..n : 1 + i - 1 = i
    OBVIOUS
  <2> QED BY <2>2, <2>3
<1>8. PICK ab \in Seq(Glyphs) : /\ ab = a \o b /\ Len(ab) = n + 1
                                /\ ab[1] = "0A" /\ \A i \in 1..n : ab[i + 1] = t[i]
  <2>1. /\ a \o b \in Seq(Glyphs) /\ Len(a \o b) = Len(a) + Len(b)
        /\ \A i \in 1..(Len(a) + Len(b)) : (a \o b)[i] = IF i <= Len(a) THEN a[i] ELSE b[i - Len(a)]
    BY ConcatProperties
  <2>2. Len(a) = 1 /\ Len(b) = n /\ 1 + n = n + 1
    BY <1>6, <1>7
  <2>3. /\ Len(a \o b) = n + 1
        /\ \A i \in 1..(n + 1) : (a \o b)[i] = IF i <= 1 THEN a[i] ELSE b[i - 1]
    BY <2>1, <2>2
  <2>4. (a \o b)[1] = "0A"
    <3>1. 1 \in 1..(n + 1)
      OBVIOUS
    <3> QED BY <1>6, <2>3, <3>1
  <2>5. ASSUME NEW i \in 1..n
        PROVE  (a \o b)[i + 1] = t[i]
    <3>1. i + 1 \in 1..(n + 1) /\ ~(i + 1 <= 1) /\ (i + 1) - 1 = i
      OBVIOUS
    <3> QED BY <1>7, <2>3, <3>1
  <2> QED BY <2>1, <2>3, <2>4, <2>5
<1>9. PICK stop \in {Eof, Id} : stop = Eof <=> rest = <<>>
  BY DEF Eof, Id
<1>10. rest \in Seq(Glyphs) /\ Len(rest) \in Nat /\ (stop = Id => Len(rest) >= 1 /\ rest[1] = Id)
       /\ (stop = Eof => Len(rest) = 0)
  <2>1. CASE rest = <<>>
    BY <1>9, <2>1 DEF Eof, Id
  <2>2. CASE rest # <<>>
    <3>1. rest = <<Id>> \o t
      BY <2>2
    <3>2. PICK q \in Seq(Glyphs) : q = <<Id>> /\ Len(q) = 1 /\ q[1] = Id
      <4>1. <<Id>> \in Seq(Glyphs) /\ Len(<<Id>>) = 1 /\ <<Id>>[1] = Id
        BY <1>5
      <4> QED BY <4>1
    <3>3. /\ q \o t \in Seq(Glyphs) /\ Len(q \o t) = Len(q) + Len(t)
          /\ \A i \in 1..(Len(q) + Len(t)) : (q \o t)[i] = IF i <= Len(q) THEN q[i] ELSE t[i - Len(q)]
      BY ConcatProperties
    <3>4. Len(q \o t) = 1 + d /\ \A i \in 1..(1 + d) : (q \o t)[i] = IF i <= 1 THEN q[i] ELSE t[i - 1]
      BY <1>2, <3>2, <3>3
    <3>5. (q \o t)[1] = Id
      <4>1. 1 \in 1..(1 + d)
        OBVIOUS
      <4> QED BY <3>2, <3>4, <4>1
    <3>6. rest = q \o t
      BY <3>1, <3>2
    <3>7. 1 + d \in Nat /\ 1 + d >= 1 /\ stop # Eof
      BY <1>9, <2>2
    <3> QED BY <3>3, <3>4, <3>5, <3>6, <3>7
  <2> QED BY <2>1, <2>2
<1>11. PICK r \in Nat : r = Len(rest)
  BY <1>10
<1>12. PICK abc \in Seq(Glyphs) :
        /\ abc = input' /\ Len(abc) = n + 1 + r
        /\ \A i \in 1..(n + 1) : abc[i] = ab[i]
        /\ \A i \in 1..r : abc[n + 1 + i] = rest[i]
  <2>1. /\ ab \o rest \in Seq(Glyphs) /\ Len(ab \o rest) = Len(ab) + Len(rest)
        /\ \A i \in 1..(Len(ab) + Len(rest)) :
                (ab \o rest)[i] = IF i <= Len(ab) THEN ab[i] ELSE rest[i - Len(ab)]
    BY <1>10, ConcatProperties
  <2>2. /\ Len(ab \o rest) = n + 1 + r
        /\ \A i \in 1..(n + 1 + r) :
                (ab \o rest)[i] = IF i <= n + 1 THEN ab[i] ELSE rest[i - (n + 1)]
    BY <1>8, <1>11, <2>1
  <2>3. ASSUME NEW i \in 1..(n + 1)
        PROVE  (ab \o rest)[i] = ab[i]
    <3>1. i \in 1..(n + 1 + r) /\ i <= n + 1
      OBVIOUS
    <3> QED BY <2>2, <3>1
  <2>4. ASSUME NEW i \in 1..r
        PROVE  (ab \o rest)[n + 1 + i] = rest[i]
    <3>1. n + 1 + i \in 1..(n + 1 + r) /\ ~(n + 1 + i <= n + 1) /\ (n + 1 + i) - (n + 1) = i
      OBVIOUS
    <3> QED BY <2>2, <3>1
  <2>5. input' = ab \o rest
    BY <1>3, <1>6, <1>7, <1>8
  <2> QED BY <2>1, <2>2, <2>3, <2>4, <2>5
<1>13. DOMAIN abc = 1..(n + 1 + r)
  BY <1>12
<1>14. At(abc, 1) = "0A"
  <2>1. 1 \in 1..(n + 1) /\ 1 \in 1..(n + 1 + r)
    OBVIOUS
  <2> QED BY <1>8, <1>12, <1>13, <2>1 DEF At
<1>15. ASSUME NEW i \in 1..n
       PROVE  At(abc, i + 1) = t[i]
  <2>1. i + 1 \in 1..(n + 1) /\ i + 1 \in 1..(n + 1 + r)
    OBVIOUS
  <2> QED BY <1>8, <1>12, <1>13, <2>1 DEF At
<1>16. At(abc, n + 2) = stop
  <2>1. CASE stop = Eof
    <3>1. n + 2 \notin 1..(n + 1 + r)
      BY <1>10, <1>11, <2>1
    <3> QED BY <1>13, <2>1, <3>1 DEF At
  <2>2. CASE stop = Id
    <3>1. r >= 1 /\ rest[1] = Id
      BY <1>10, <1>11, <2>2
    <3>2. n + 2 \in 1..(n + 1 + r) /\ 1 \in 1..r /\ n + 1 + 1 = n + 2
      BY <3>1
    <3>3. abc[n + 2] = Id
      BY <1>12, <3>1, <3>2
    <3> QED BY <1>13, <2>2, <3>2, <3>3 DEF At
  <2> QED BY <2>1, <2>2
<1>17. whole' = Complete(m, n, stop)
  BY <1>1, <1>2, <1>3, <1>9 DEF Complete
<1>18. Setting(m, n, stop)'
  <2>1. Arrived(m, n, stop)'
    BY <1>1, <1>4, <1>12, <1>14, <1>15, <1>16, <1>17 DEF Arrived, Complete
  <2>2. n \in 0..Len(Dump(m))
    BY <1>1, <1>2
  <2> QED BY <2>1, <2>2 DEF Setting
<1>19. Phase(m, n, stop)'
  BY <1>4 DEF Phase, Opening, Waiting
<1> QED BY <1>18, <1>19

LEMMA InitText == Init => TextInv
<1> SUFFICES ASSUME Init PROVE TextInv
  OBVIOUS
<1>1. message \in Messages /\ mode = "encode" /\ Waiting /\ result = Default
  BY DEF Init, Waiting
<1> QED BY <1>1 DEF TextInv

LEMMA StepText == TextInv /\ [Next]_vars => TextInv'
<1> SUFFICES ASSUME TextInv, [Next]_vars PROVE TextInv'
  OBVIOUS
<1>1. PICK m \in Messages :
        /\ message = m
        /\ mode # "done" => result = Default
        /\ \/ mode = "encode" /\ Waiting
           \/ mode = "thrown" /\ Throws(m)
           \/ mode = "sent" /\ ~Throws(m) /\ text = Dump(m) /\ Waiting
           \/ \E n \in Nat, stop \in {Eof, Id} : Setting(m, n, stop) /\ Phase(m, n, stop)
  BY DEF TextInv
<1>2. CASE UNCHANGED vars /\ mode \in {"encode", "thrown", "sent"}
  <2>1. UNCHANGED <<message, text, mode, pos, expect, recv, result>>
    BY <1>2 DEF vars, wireVars, lexerVars
  <2>2. CASE mode = "encode" /\ Waiting
    BY <1>1, <2>1, <2>2 DEF TextInv, Waiting
  <2>3. CASE mode = "thrown" /\ Throws(m)
    BY <1>1, <2>1, <2>3 DEF TextInv
  <2>4. CASE mode = "sent" /\ ~Throws(m) /\ text = Dump(m) /\ Waiting
    BY <1>1, <2>1, <2>4 DEF TextInv, Waiting
  <2>5. ASSUME NEW n \in Nat, NEW stop \in {Eof, Id}, Setting(m, n, stop), Phase(m, n, stop)
        PROVE  TextInv'
    <3>1. Setting(m, n, stop)' /\ Phase(m, n, stop)' /\ message' = m /\ result' = Default
      <4>1. UNCHANGED wireVars
        BY <1>2 DEF vars
      <4>2. Phase(m, n, stop)'
        BY <1>1, <1>2, <2>5, PhaseStep
      <4> QED BY <1>1, <1>2, <2>1, <2>5, <4>1, <4>2, Staying
    <3> QED BY <3>1 DEF TextInv
  <2> QED BY <1>1, <2>2, <2>3, <2>4, <2>5
<1>3. CASE mode = "encode" /\ Waiting /\ Next
  <2>1. Encode
    BY <1>3 DEF Next, Receive, Scan, ScanString, ScanNumber, Parse, ParseError, Return, Over
  <2>2. /\ IF Throws(m) THEN mode' = "thrown" ELSE mode' = "sent" /\ text' = Dump(m)
        /\ message' = m /\ UNCHANGED <<pos, expect, recv, result>>
    BY <1>1, <2>1 DEF Encode
  <2> QED BY <1>1, <1>3, <2>2 DEF TextInv, Waiting
<1>4. CASE mode = "thrown" /\ Next
  <2>1. UNCHANGED vars
    BY <1>4 DEF Next, Encode, Receive, Scan, ScanString, ScanNumber, Parse, ParseError, Return, Over
  <2> QED BY <1>2, <1>4, <2>1
<1>5. CASE mode = "sent" /\ ~Throws(m) /\ text = Dump(m) /\ Waiting /\ Next
  <2>1. Receive
    BY <1>5 DEF Next, Encode, Scan, ScanString, ScanNumber, Parse, ParseError, Return, Over
  <2>2. \E n \in Nat, stop \in {Eof, Id} : (Setting(m, n, stop) /\ Phase(m, n, stop))'
    BY <1>5, <2>1, Received
  <2>3. message' = m /\ result' = Default
    BY <1>1, <1>5, <2>1 DEF Receive
  <2> QED BY <2>2, <2>3 DEF TextInv
<1>6. ASSUME NEW n \in Nat, NEW stop \in {Eof, Id}, Setting(m, n, stop), Phase(m, n, stop)
      PROVE  TextInv'
  <2>1. Phase(m, n, stop)' /\ UNCHANGED wireVars /\ (mode' # "done" => result' = Default)
    BY <1>1, <1>6, PhaseStep
  <2>2. Setting(m, n, stop)' /\ message' = m
    BY <1>1, <1>6, <2>1, Staying
  <2> QED BY <2>1, <2>2 DEF TextInv
<1> QED BY <1>1, <1>2, <1>3, <1>4, <1>5, <1>6

\* Sender, lexer and parser are in a phase of the way of one packet: before the decoder is done,
\* it has the fields up to a place in the text, and the lexer is where the next one begins or
\* goes on
\* (packets.hpp:29-214, json.hpp:7558-8899 and 12337-12503).
THEOREM TextInvariant == Spec => []TextInv
<1> QED BY InitText, StepText, PTL DEF Spec

\* A packet is refused exactly if a string in it is one that no receiver could read.
LEMMA ThrowsUnlexable ==
    ASSUME NEW m \in Messages, message = m
    PROVE  Throws(m) <=> \E s \in Strings : ~Lexable(s)
<1>1. ASSUME NEW i \in DOMAIN m.fields, Fields[m.kind][i] = "string"
      PROVE  Utf8(m.fields[i])[Len(m.fields[i])] # UTF8_ACCEPT <=> ~Lexable(m.fields[i])
  <2>1. i \in 1..Len(m.fields) /\ TypeAt(m, i) = "string"
    BY <1>1, MessageFields DEF TypeAt
  <2>2. m.fields[i] \in Seq(Bytes)
    BY <2>1, ElementText
  <2> QED BY <2>2, AcceptedLexable, LexableAccepted DEF UTF8_ACCEPT
<1>2. Strings = {m.fields[i] : i \in {h \in DOMAIN m.fields : Fields[m.kind][h] = "string"}}
  BY DEF Strings
<1> QED BY <1>1, <1>2 DEF Throws

LEMMA TextInvSafe == TextInv => EncodedArrives /\ CutFallsBack
<1> SUFFICES ASSUME TextInv PROVE EncodedArrives /\ CutFallsBack
  OBVIOUS
<1>1. PICK m \in Messages :
        /\ message = m
        /\ mode # "done" => result = Default
        /\ \/ mode = "encode" /\ Waiting
           \/ mode = "thrown" /\ Throws(m)
           \/ mode = "sent" /\ ~Throws(m) /\ text = Dump(m) /\ Waiting
           \/ \E n \in Nat, stop \in {Eof, Id} : Setting(m, n, stop) /\ Phase(m, n, stop)
  BY DEF TextInv
<1>2. ASSUME NEW n \in Nat, NEW stop \in {Eof, Id}, Setting(m, n, stop), Phase(m, n, stop)
      PROVE  /\ ~Throws(m) /\ mode \notin {"encode", "thrown"}
             /\ mode = "done" => result = IF whole THEN m.fields ELSE Default
  <2>1. ~Throws(m) /\ whole = Complete(m, n, stop)
    BY <1>2 DEF Setting, Arrived
  <2>2. ~Opening(n) \/ mode \in {"scan", "token"}
    BY DEF Opening
  <2>3. ASSUME NEW j \in 1..Len(m.fields),
               \/ Before(m, n, j) \/ InString(m, n, j) \/ InNumber(m, n, j)
               \/ Behind(m, n, j) \/ Followed(m, n, j)
        PROVE  mode \notin {"encode", "thrown", "done"}
    BY <2>3 DEF Before, InString, InNumber, NumberMode, Behind, Followed
  <2>4. CASE Closed(m, n, stop) \/ Lost(m, n, stop)
    BY <2>1, <2>4 DEF Closed, Lost
  <2>5. CASE Ended(m, n, stop)
    BY <2>1, <2>5 DEF Ended
  <2> QED BY <1>2, <2>1, <2>2, <2>3, <2>4, <2>5 DEF Phase
<1>3. mode = "done" => result = IF whole THEN m.fields ELSE Default
  BY <1>1, <1>2
<1>4. mode # "encode" => (mode = "thrown" <=> Throws(m))
  BY <1>1, <1>2
<1>5. Throws(m) <=> \E s \in Strings : ~Lexable(s)
  BY <1>1, ThrowsUnlexable
<1> QED BY <1>1, <1>3, <1>4, <1>5 DEF EncodedArrives, CutFallsBack

\* Whatever strings and integers a packet is made of: a decoder that was given the whole text
\* returns them (packets.hpp:29-214, with dump and parse of json.hpp behind it), and the encoder
\* refuses, with type_error 316, exactly the strings that the lexer would not take.
THEOREM EncodedIsDecoded == Spec => []EncodedArrives
<1> QED BY TextInvariant, TextInvSafe, PTL

\* A text that was cut at any place, with or without another packet behind it, is decoded to the
\* packet's default fields (session.cpp:75, packets.hpp:50).
THEOREM CutTextsFail == Spec => []CutFallsBack
<1> QED BY TextInvariant, TextInvSafe, PTL
-----------------------------------------------------------------------------
(* The separator of packets *)

HasSeparator(s) == \E i \in DOMAIN s : s[i] = "|"
Plain == Glyphs \ {"|"}

LEMMA SeparatorDiffers ==
    /\ "|" \notin {"[", "]", ",", "-", Quote, "\\", "n", "u", "f", "0", "1", "2", Eof}
    /\ "|" \notin Figure /\ "|" \notin DOMAIN Short /\ "|" \notin DOMAIN Code
<1>1. Quote # "|"
  BY Zenon DEF Quote
<1>2. "|" \notin Figure
  BY DigitValues DEF Figure
<1>3. "|" \notin DOMAIN Short
  BY <1>1, ShortValues
<1>4. "|" \notin DOMAIN Code
  BY CodeValues
<1> QED BY <1>1, <1>2, <1>3, <1>4, ZenonT(30) DEF Eof

LEMMA PlainGlyphs ==
    /\ \A c \in Figure : c \in Plain
    /\ "[" \in Plain /\ "]" \in Plain /\ "," \in Plain /\ "-" \in Plain /\ Quote \in Plain
<1>1. \A c \in Figure : c \in Glyphs /\ c # "|"
  BY SeparatorDiffers, ZenonT(30) DEF Figure, Glyphs
<1>2. "[" \in Glyphs /\ "]" \in Glyphs /\ "," \in Glyphs /\ "-" \in Glyphs /\ Quote \in Glyphs
  BY ZenonT(30) DEF Glyphs
<1>3. Quote # "|"
  BY ZenonT(30) DEF Quote
<1> QED BY <1>1, <1>2, <1>3, ZenonT(30) DEF Plain

\* No escape has the separator, and it is none of the characters that are escaped.
LEMMA EscapePlain ==
    ASSUME NEW b \in Bytes, b # "|"
    PROVE  Escape(b) \in Seq(Plain)
<1>1. PICK e \in Seq(Glyphs) : e = Escape(b)
  BY EscapeShort, EscapeCode, EscapeNone
<1>2. ASSUME NEW h \in 1..Len(e)
      PROVE  e[h] # "|"
  <2>1. CASE b \in DOMAIN Short
    <3>1. Len(e) = 2 /\ e[1] = "\\" /\ e[2] = Short[b]
      BY <1>1, <2>1, EscapeShort
    <3>2. h = 1 \/ h = 2
      BY <3>1
    <3>3. Short[b] \in {Quote, "\\", "n"}
      BY <2>1, ShortValues
    <3> QED BY <3>1, <3>2, <3>3, SeparatorDiffers
  <2>2. CASE b \in DOMAIN Code
    <3>1. /\ Len(e) = 6 /\ e[1] = "\\" /\ e[2] = "u"
          /\ \A k \in 1..4 : e[k + 2] = Code[b][k]
      BY <1>1, <2>2, EscapeCode
    <3>2. CASE h \in {1, 2}
      BY <3>1, <3>2, SeparatorDiffers
    <3>3. CASE h \notin {1, 2}
      <4>1. PICK k \in 1..4 : k + 2 = h
        <5>1. h - 2 \in 1..4 /\ (h - 2) + 2 = h
          BY <3>1, <3>3
        <5> QED BY <5>1
      <4>2. e[h] \in {"0", "1", "2", "f"}
        BY <2>2, <3>1, <4>1, CodesTyped
      <4> QED BY <4>2, SeparatorDiffers
    <3> QED BY <3>2, <3>3
  <2>3. CASE b \notin DOMAIN Short /\ b \notin DOMAIN Code
    <3>1. Len(e) = 1 /\ e[1] = b
      BY <1>1, <2>3, EscapeNone
    <3> QED BY <3>1
  <2> QED BY <2>1, <2>2, <2>3
<1>3. \A h \in 1..Len(e) : e[h] \in Plain
  BY <1>2 DEF Plain
<1> QED BY <1>1, <1>3

LEMMA StringPlain ==
    ASSUME NEW s \in Seq(Bytes), ~HasSeparator(s)
    PROVE  Quoted(s) \in Seq(Plain)
<1>1. DOMAIN s = 1..Len(s) /\ Len(s) \in Nat /\ \A i \in 1..Len(s) : s[i] \in Bytes /\ s[i] # "|"
  BY DEF HasSeparator
<1>2. \A i \in 1..Len(s) : Escape(s[i]) \in Seq(Plain)
  BY <1>1, EscapePlain
<1>3. Escapes(s) \in [1..Len(s) -> Seq(Plain)]
  BY <1>1, <1>2 DEF Escapes
<1>4. Escapes(s) \in Seq(Seq(Plain))
  BY <1>1, <1>3
<1>5. PICK d \in Seq(Plain) : d = DumpEscaped(s)
  <2>1. DumpEscaped(s) = FlattenSeq(Escapes(s))
    BY DEF DumpEscaped, Escapes
  <2> QED BY <1>4, <2>1, Flattened
<1>6. PICK q \in Seq(Plain) : q = <<Quote>>
  <2>1. Quote \in Plain
    BY PlainGlyphs
  <2>2. <<Quote>> \in Seq(Plain)
    BY <2>1
  <2> QED BY <2>2
<1>7. (q \o d) \o q \in Seq(Plain)
  OBVIOUS
<1> QED BY <1>5, <1>6, <1>7 DEF Quoted, DumpField

LEMMA TextPlain ==
    ASSUME NEW m \in Messages,
           \A j \in 1..Len(m.fields) : TypeAt(m, j) = "string" => ~HasSeparator(m.fields[j])
    PROVE  Dump(m) \in Seq(Plain)
<1> DEFINE closing(j) == IF j = Len(m.fields) THEN "]" ELSE ","
           part(j) == Append(Element(m, j), closing(j))
           parts == [j \in DOMAIN m.fields |-> part(j)]
<1>1. PICK k \in Nat \ {0} : k = Len(m.fields) /\ DOMAIN m.fields = 1..k
  BY MessageFields
<1>2. ASSUME NEW j \in 1..k
      PROVE  part(j) \in Seq(Plain)
  <2>1. PICK e \in Seq(Plain) : e = Element(m, j)
    <3>1. CASE TypeAt(m, j) = "string"
      BY <1>1, <3>1, ElementText, StringPlain
    <3>2. CASE TypeAt(m, j) # "string"
      <4>1. Element(m, j) \in Seq(Figure \cup {"-"})
        BY <1>1, <3>2, ElementText DEF NumberText
      <4>2. Figure \cup {"-"} \in SUBSET Plain
        BY PlainGlyphs
      <4> QED BY <4>1, <4>2
    <3> QED BY <3>1, <3>2
  <2>2. PICK c \in Plain : c = closing(j)
    BY PlainGlyphs
  <2>3. Append(e, c) \in Seq(Plain)
    OBVIOUS
  <2> HIDE DEF closing
  <2> QED BY <2>1, <2>2, <2>3
<1>3. Dump(m) = <<"[">> \o FlattenSeq(parts)
  BY DEF Dump
<1> HIDE DEF part
<1>4. parts = [j \in 1..k |-> part(j)]
  BY <1>1
<1> HIDE DEF parts
<1>5. parts \in Seq(Seq(Plain))
  <2>1. parts \in [1..k -> Seq(Plain)]
    BY <1>2, <1>4
  <2> QED BY <2>1
<1>6. PICK t \in Seq(Plain) : t = FlattenSeq(parts)
  BY <1>5, Flattened
<1>7. PICK b \in Seq(Plain) : b = <<"[">>
  <2>1. "[" \in Plain
    BY PlainGlyphs
  <2>2. <<"[">> \in Seq(Plain)
    BY <2>1
  <2> QED BY <2>2
<1>8. b \o t \in Seq(Plain)
  OBVIOUS
<1> QED BY <1>3, <1>6, <1>7, <1>8

\* It is written as it is.
LEMMA SeparatorWritten ==
    ASSUME NEW m \in Messages, NEW j \in 1..Len(m.fields), TypeAt(m, j) = "string",
           HasSeparator(m.fields[j])
    PROVE  HasSeparator(Dump(m))
<1>1. PICK s \in Seq(Bytes) : s = m.fields[j] /\ Element(m, j) = Quoted(s)
  BY ElementText
<1>2. PICK i \in 1..Len(s) : s[i] = "|"
  BY <1>1 DEF HasSeparator
<1>3. Len(Escape(s[i])) = 1 /\ Escape(s[i])[1] = "|"
  BY <1>2, EscapeNone, SeparatorDiffers
<1>4. PICK a \in Nat \ {0} : a = Turns(s)[i] /\ DumpEscaped(s)[a + (1 - 1)] = "|"
  <2>1. /\ Turns(s)[i] \in Nat \ {0}
        /\ \A h \in 1..Len(Escape(s[i])) :
                DumpEscaped(s)[Turns(s)[i] + (h - 1)] = Escape(s[i])[h]
    BY TurnAt
  <2>2. 1 \in 1..Len(Escape(s[i]))
    BY <1>3
  <2> QED BY <1>3, <2>1, <2>2
<1>5. PICK l \in Nat : l = Len(DumpEscaped(s)) /\ a <= l
  <2>1. /\ Turns(s)[i + 1] = Turns(s)[i] + Len(Escape(s[i]))
        /\ Turns(s)[i + 1] <= Len(DumpEscaped(s)) + 1
    BY TurnAt
  <2>2. Len(DumpEscaped(s)) \in Nat
    BY TurnEnds
  <2>3. a + 1 <= Len(DumpEscaped(s)) + 1
    BY <1>3, <1>4, <2>1
  <2> QED BY <2>2, <2>3
<1>6. Quoted(s)[a + 1] = "|" /\ Len(Quoted(s)) = l + 2
  <2>1. a \in 1..l /\ a + (1 - 1) = a
    BY <1>5
  <2> QED BY <1>4, <1>5, <2>1, QuotedAt
<1>7. PICK h \in 1..Len(Element(m, j)) : h = a + 1 /\ Element(m, j)[h] = "|"
  <2>1. a + 1 \in 1..(l + 2)
    BY <1>5
  <2> QED BY <1>1, <1>6, <2>1
<1>8. PICK at \in Nat, next \in Nat, len \in Nat, d \in Nat : Between(m, j, at, next, len, d)
  BY BetweenPlaces
<1>9. /\ at >= 2 /\ next = at + len + 1 /\ next <= d + 1
      /\ at = Places(m)[j] /\ len = Len(Element(m, j)) /\ d = Len(Dump(m))
  BY <1>8 DEF Between
<1>10. LaidOut(m, Places(m))
  BY TextLaidOut
<1>11. Dump(m)[at + (h - 1)] = "|" /\ Dump(m) \in Seq(Glyphs)
  <2>1. \A g \in 1..Len(Element(m, j)) : Dump(m)[Places(m)[j] + (g - 1)] = Element(m, j)[g]
    BY <1>10, ZenonT(30) DEF LaidOut
  <2>2. Dump(m) \in Seq(Glyphs)
    BY <1>10, ZenonT(30) DEF LaidOut
  <2> QED BY <1>7, <1>9, <2>1, <2>2
<1>12. at + (h - 1) \in 1..d
  <2>1. h \in 1..len
    BY <1>9
  <2>2. at >= 2 /\ at + len + 1 <= d + 1
    BY <1>9
  <2> QED BY <2>1, <2>2
<1>13. DOMAIN Dump(m) = 1..d
  BY <1>9, <1>11
<1> QED BY <1>11, <1>12, <1>13 DEF HasSeparator

\* A text has a separator exactly if one of the strings that it was made of has one.
SeparatorsAreGiven ==
    mode \notin {"encode", "thrown"} => (HasSeparator(text) <=> \E s \in Strings : HasSeparator(s))

LEMMA TextInvSeparators == TextInv => SeparatorsAreGiven
<1> SUFFICES ASSUME TextInv, mode \notin {"encode", "thrown"}
             PROVE  HasSeparator(text) <=> \E s \in Strings : HasSeparator(s)
  BY DEF SeparatorsAreGiven
<1>1. PICK m \in Messages : message = m /\ text = Dump(m)
  <2>1. PICK m \in Messages :
          /\ message = m
          /\ \/ mode = "sent" /\ text = Dump(m)
             \/ \E n \in Nat, stop \in {Eof, Id} : Setting(m, n, stop)
    BY DEF TextInv
  <2> QED BY <2>1 DEF Setting, Arrived
<1>2. Strings = {m.fields[i] : i \in {h \in DOMAIN m.fields : Fields[m.kind][h] = "string"}}
  BY <1>1 DEF Strings
<1>3. DOMAIN m.fields = 1..Len(m.fields)
  BY MessageFields
<1>4. (\E s \in Strings : HasSeparator(s)) <=>
        \E j \in 1..Len(m.fields) : TypeAt(m, j) = "string" /\ HasSeparator(m.fields[j])
  BY <1>2, <1>3 DEF TypeAt
<1>5. ASSUME HasSeparator(Dump(m))
      PROVE  \E j \in 1..Len(m.fields) : TypeAt(m, j) = "string" /\ HasSeparator(m.fields[j])
  <2>1. SUFFICES ASSUME \A j \in 1..Len(m.fields) : TypeAt(m, j) = "string" => ~HasSeparator(m.fields[j])
                 PROVE  FALSE
    OBVIOUS
  <2>2. PICK t \in Seq(Plain) : t = Dump(m)
    BY <2>1, TextPlain
  <2>3. \A i \in DOMAIN t : t[i] \in Plain
    OBVIOUS
  <2> QED BY <1>5, <2>2, <2>3 DEF HasSeparator, Plain
<1> QED BY <1>1, <1>4, <1>5, SeparatorWritten

\* What Framing takes as a choice, whether a text has a separator inside: dump writes one exactly
\* where a login or a message has one, and never for anything else; JSON does not escape it
\* (json.hpp:18311-18411, session.cpp:71-75).
THEOREM SeparatorsAreTyped == Spec => []SeparatorsAreGiven
<1> QED BY TextInvariant, TextInvSeparators, PTL
=============================================================================
