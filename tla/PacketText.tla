---------------------------- MODULE PacketText ----------------------------
(***************************************************************************)
(* What Framing takes for granted about the text of a packet: the encoders *)
(* and decoders of packets.hpp on top of the serializer, the lexer and the *)
(* parser of utils/json.hpp, as far as arrays of strings and integers go.  *)
(*                                                                         *)
(* A character is a byte.  Bytes from 80 on are named by the range they    *)
(* are in, the only thing the code asks about them: "80" is 80..8F, "90"   *)
(* is 90..9F, "A0" is A0..BF, "C2" is C2..DF, "E1" is E1..EC, EE and EF,   *)
(* "F1" is F1..F3 and "C0" stands for those that UTF-8 has no use for.     *)
(* Control characters have their code for a name.                          *)
(***************************************************************************)
EXTENDS Integers, Sequences, SequencesExt

CONSTANTS
    Messages,   \* packets to be sent: kind and fields
    Printable,  \* the characters that are one byte and no control character
    HalfRange,  \* an int64_t is one of -HalfRange..HalfRange - 1
    HalfShort   \* and so for a short

\* The fields of the packets that have a text, with their types.
Fields == [
    ANNOUNCE_MESSAGE |-> <<"string">>,
    USER_AUTHORIZE |-> <<"string", "size_t">>,
    USER_AUTHORIZE_RESPONSE |-> <<"short">>,
    CHECK_BALANCE_RESPONSE |-> <<"int64_t", "int64_t", "int64_t", "int64_t", "int64_t", "int64_t">>,
    USER_TRANSACTION_REQUEST |-> <<"int64_t", "int64_t", "short">>]

High == {"80", "90", "A0", "C0", "C2", "E0", "E1", "ED", "F0", "F1", "F4"}

\* The id of a packet.  The receiver overwrites the first of a piece with a newline.
Id == "02"

Quote == "\""

\* The four digits of "\u" for the control characters that have no shorter escape.
Code == [byte \in {"00", "1F", Id} |->
            CASE byte = "00" -> <<"0", "0", "0", "0">>
              [] byte = "1F" -> <<"0", "0", "1", "f">>
              [] byte = Id -> <<"0", "0", "0", "2">>]

Controls == DOMAIN Code \cup {"0A"}
Eof == "eof"

IsOf(type, value) ==
    CASE type = "string" -> value \in Seq(High \cup Controls \cup Printable)
      [] type = "size_t" -> value \in 0..(2 * HalfRange - 1)
      [] type = "int64_t" -> value \in -HalfRange..(HalfRange - 1)
      [] type = "short" -> value \in -HalfShort..(HalfShort - 1)

ASSUME MessagesAssumption ==
    /\ HalfRange \in Nat \ {0} /\ HalfShort \in Nat \ {0}
    /\ Printable \cap (High \cup Controls \cup {Eof}) = {}
    /\ \A m \in Messages :
        /\ m.kind \in DOMAIN Fields
        /\ m.fields = [i \in DOMAIN Fields[m.kind] |-> m.fields[i]]
        /\ \A i \in DOMAIN m.fields : IsOf(Fields[m.kind][i], m.fields[i])

VARIABLES
    message,  \* the packet
    text,     \* what its encoder has written
    whole,    \* all of it reached the decoder
    input,    \* what the decoder was given
    pos,      \* the lexer's position in it
    mode,     \* where sender, lexer or parser is
    buffer,   \* token_buffer
    token,    \* last_token, with its value
    expect,   \* where sax_parse_internal is: "first" after '[', "next" after a value
    recv,     \* the array built so far
    result    \* the fields the decoder returns

lexerVars == <<pos, mode, buffer, token>>
wireVars == <<message, text, whole, input>>
vars == <<wireVars, lexerVars, expect, recv, result>>

At(cells, i) == IF i \in DOMAIN cells THEN cells[i] ELSE Eof

\* What a decoder returns when it fails: its packet with fields of its own.
Default == <<>>

Init ==
    /\ message \in Messages
    /\ text = <<>> /\ whole = FALSE /\ input = <<>>
    /\ pos = 1 /\ mode = "encode" /\ buffer = <<>>
    /\ token = [type |-> "uninitialized", value |-> 0]
    /\ expect = "array" /\ recv = <<>> /\ result = Default

-----------------------------------------------------------------------------
(* The serializer *)

Digits == <<"0", "1", "2", "3", "4", "5", "6", "7", "8", "9">>

\* digits_to_99.
\* Mutant: the leading zero of a pair is left out.
PairShort(n) ==
    IF n < 10 THEN <<Digits[n + 1]>> ELSE <<Digits[n \div 10 + 1], Digits[(n % 10) + 1]>>
Pair(n) == <<Digits[n \div 10 + 1], Digits[(n % 10) + 1]>>

\* Two digits at a time, from the last ones on.
DumpUnsigned(n) ==
    LET ascii[x \in 0..n] ==
            IF x >= 100 THEN ascii[x \div 100] \o Pair(x % 100)
            ELSE IF x >= 10 THEN Pair(x) ELSE <<Digits[x + 1]>>
    IN  ascii[n]

RemoveSign(n) == -(n + 1) + 1

DumpInteger(n) == IF n < 0 THEN <<"-">> \o DumpUnsigned(RemoveSign(n)) ELSE DumpUnsigned(n)

UTF8_ACCEPT == 0
UTF8_REJECT == 1

\* utf8d: the type of a byte, the state after a first byte of some type, and the types that
\* may follow in a state.
TypeOf == [byte \in High |->
    CASE byte = "80" -> 1 [] byte = "90" -> 9 [] byte = "A0" -> 7 [] byte = "C0" -> 8
      [] byte = "C2" -> 2 [] byte = "E0" -> 10 [] byte = "E1" -> 3 [] byte = "ED" -> 4
      [] byte = "F0" -> 11 [] byte = "F1" -> 6 [] byte = "F4" -> 5]
First == [type \in {2, 3, 4, 5, 6, 10, 11} |->
    CASE type \in {2, 3} -> type [] type = 4 -> 5 [] type = 5 -> 8 [] type = 6 -> 7
      [] type = 10 -> 4 [] type = 11 -> 6]
Further == [state \in 2..8 |->
    CASE state = 2 -> <<{1, 7, 9}, UTF8_ACCEPT>> [] state = 3 -> <<{1, 7, 9}, 2>>
      [] state = 4 -> <<{7}, 2>> [] state = 5 -> <<{1, 9}, 2>>
      [] state = 6 -> <<{7, 9}, 3>> [] state = 7 -> <<{1, 7, 9}, 3>> [] state = 8 -> <<{1}, 3>>]

Decode(state, byte) ==
    IF byte \notin High THEN IF state = UTF8_ACCEPT THEN UTF8_ACCEPT ELSE UTF8_REJECT
    ELSE IF state = UTF8_ACCEPT THEN
        IF TypeOf[byte] \in DOMAIN First THEN First[TypeOf[byte]] ELSE UTF8_REJECT
    ELSE IF state \in DOMAIN Further /\ TypeOf[byte] \in Further[state][1] THEN Further[state][2]
    ELSE UTF8_REJECT

\* The state behind each byte of a string.
Utf8(s) ==
    LET state[i \in 0..Len(s)] ==
            IF i = 0 THEN UTF8_ACCEPT ELSE Decode(state[i - 1], s[i])
    IN  state

\* The escapes that are two characters.
Short == [byte \in {Quote, "\\", "0A"} |-> IF byte = "0A" THEN "n" ELSE byte]

Escape(byte) ==
    IF byte \in DOMAIN Short THEN <<"\\", Short[byte]>>
    ELSE IF byte \in DOMAIN Code THEN <<"\\", "u">> \o Code[byte]
    ELSE <<byte>>

DumpEscaped(s) == FlattenSeq([i \in DOMAIN s |-> Escape(s[i])])

\* dump throws type_error 316 for a string that is not UTF-8.
Throws(m) ==
    \E i \in DOMAIN m.fields : Fields[m.kind][i] = "string"
        /\ Utf8(m.fields[i])[Len(m.fields[i])] # UTF8_ACCEPT

DumpField(type, value) ==
    IF type = "string" THEN <<Quote>> \o DumpEscaped(value) \o <<Quote>> ELSE DumpInteger(value)

Element(m, i) == DumpField(Fields[m.kind][i], m.fields[i])
Dump(m) ==
    LET closing(i) == IF i = Len(m.fields) THEN "]" ELSE ","
    IN  <<"[">> \o FlattenSeq([i \in DOMAIN m.fields |-> Append(Element(m, i), closing(i))])

\* encode; nothing in sendPacket catches what dump throws.
Encode ==
    /\ mode = "encode"
    /\ IF Throws(message)
       THEN mode' = "thrown" /\ UNCHANGED text
       ELSE mode' = "sent" /\ text' = Dump(message)
    /\ UNCHANGED <<message, whole, input, pos, buffer, token, expect, recv, result>>

\* What processRead gives to the decoder: the text, or the beginning of it, with or without
\* another packet that was written before the rest of this one.
Receive ==
    /\ mode = "sent"
    /\ \E n \in 0..Len(text), rest \in {<<>>, <<Id>> \o text} :
        /\ whole' = (n = Len(text) /\ rest = <<>>)
        /\ input' = <<"0A">> \o SubSeq(text, 1, n) \o rest
    /\ mode' = "scan"
    /\ UNCHANGED <<message, text, pos, buffer, token, expect, recv, result>>

-----------------------------------------------------------------------------
(* The lexer *)

Failed == mode' = "done" /\ UNCHANGED <<pos, buffer, token>>
Advance(n) == pos' = pos + n
Token(type, value) == mode' = "token" /\ token' = [type |-> type, value |-> value]

Symbols == [c \in {"[", "]", ",", Eof} |->
    CASE c = "[" -> "begin_array" [] c = "]" -> "end_array" [] c = "," -> "value_separator"
      [] c = Eof -> "end_of_input"]

\* scan: the next character that is no white space decides.  No text has objects or literals.
Scan ==
    /\ mode = "scan"
    /\ LET c == At(input, pos)
       IN  \/ c = "0A" /\ Advance(1) /\ UNCHANGED <<mode, buffer, token>>
           \/ c \in DOMAIN Symbols /\ Advance(1) /\ Token(Symbols[c], 0) /\ UNCHANGED buffer
           \/ c = Quote /\ Advance(1) /\ mode' = "string" /\ buffer' = <<>> /\ UNCHANGED token
           \/ /\ c \in Range(Digits) \cup {"-"}
              /\ Advance(1) /\ buffer' = <<c>> /\ UNCHANGED token
              /\ mode' = CASE c = "-" -> "minus" [] c = "0" -> "zero" [] OTHER -> "any1"
           \/ c \notin {"0A", Quote, "-"} \cup Range(Digits) \cup DOMAIN Symbols /\ Failed
    /\ UNCHANGED <<wireVars, expect, recv, result>>

\* The bytes that may follow a first one, by the ranges given to next_byte_in_range.
Tail3 == {"80", "90", "A0"}
Tails == [byte \in High \ {"80", "90", "A0", "C0"} |->
    CASE byte = "C2" -> <<Tail3>>
      [] byte = "E0" -> <<{"A0"}, Tail3>> [] byte = "E1" -> <<Tail3, Tail3>>
      [] byte = "ED" -> <<{"80", "90"}, Tail3>>
      [] byte = "F0" -> <<{"90", "A0"}, Tail3, Tail3>> [] byte = "F1" -> <<Tail3, Tail3, Tail3>>
      [] byte = "F4" -> <<{"80"}, Tail3, Tail3>>]

\* One turn of the loop of scan_string: how many characters it takes, and what it adds.
Illegal == [takes |-> 0, adds |-> <<>>]
Escaped(cells, i) ==
    LET c == At(cells, i + 1)
        short == {b \in DOMAIN Short : Short[b] = c}
        code == {b \in DOMAIN Code : \A k \in 1..4 : At(cells, i + 1 + k) = Code[b][k]}
    IN  IF short # {} THEN [takes |-> 2, adds |-> <<CHOOSE b \in short : TRUE>>]
        ELSE IF c = "u" /\ code # {} THEN [takes |-> 6, adds |-> <<CHOOSE b \in code : TRUE>>]
        ELSE Illegal
Unit(cells, i) ==
    LET c == At(cells, i)
    IN  IF c = "\\" THEN Escaped(cells, i)
        ELSE IF c \in DOMAIN Tails THEN
            IF \A k \in DOMAIN Tails[c] : At(cells, i + k) \in Tails[c][k]
            THEN [takes |-> 1 + Len(Tails[c]), adds |-> SubSeq(cells, i, i + Len(Tails[c]))]
            ELSE Illegal
        ELSE IF c \in High \cup Controls \cup {Eof} THEN Illegal
        ELSE [takes |-> 1, adds |-> <<c>>]

ScanString ==
    /\ mode = "string"
    /\ IF At(input, pos) = Quote
       THEN Advance(1) /\ Token("value_string", buffer) /\ UNCHANGED buffer
       ELSE LET unit == Unit(input, pos)
            IN  IF unit = Illegal THEN Failed
                ELSE Advance(unit.takes) /\ buffer' = buffer \o unit.adds /\ UNCHANGED <<mode, token>>
    /\ UNCHANGED <<wireVars, expect, recv, result>>

\* strtoull, strtoll.
ValueOf(digits) ==
    LET digit(i) == CHOOSE v \in 0..9 : Digits[v + 1] = digits[i]
        value[i \in 0..Len(digits)] == IF i = 0 THEN 0 ELSE 10 * value[i - 1] + digit(i)
    IN  value[Len(digits)]

\* The states of scan_number that a number without fraction or exponent goes through.
ScanNumber ==
    /\ mode \in {"minus", "zero", "any1"}
    /\ LET c == At(input, pos)
           digit == c \in Range(Digits)
       IN  \/ /\ digit /\ mode # "zero"
              /\ Advance(1) /\ buffer' = Append(buffer, c) /\ UNCHANGED token
              /\ mode' = IF mode = "minus" /\ c = "0" THEN "zero" ELSE "any1"
           \/ ~digit /\ mode = "minus" /\ Failed
           \/ /\ mode = "zero" \/ (mode = "any1" /\ ~digit)
              /\ IF buffer[1] = "-" THEN Token("value_integer", -ValueOf(Tail(buffer)))
                                    ELSE Token("value_unsigned", ValueOf(buffer))
              /\ UNCHANGED <<pos, buffer>>
    /\ UNCHANGED <<wireVars, expect, recv, result>>

-----------------------------------------------------------------------------
(* The parser *)

Numbers == {"value_integer", "value_unsigned"}
IsValue == expect \in {"first", "value"} /\ token.type \in Numbers \cup {"value_string"}
IsComma == expect = "next" /\ token.type = "value_separator"
\* Mutant: an array that is not closed ends with the input.
ClosesAtEnd == expect \in {"first", "next"} /\ token.type \in {"end_array", "end_of_input"}
Closes == expect \in {"first", "next"} /\ token.type = "end_array"
Opens == expect = "array" /\ token.type = "begin_array"
Ends == expect = "end" /\ token.type = "end_of_input"

\* sax_parse_internal and the events of json_sax_dom_parser.
Parse ==
    /\ mode = "token"
    /\ \/ Opens /\ expect' = "first" /\ UNCHANGED recv
       \/ IsValue /\ recv' = Append(recv, token) /\ expect' = "next"
       \/ IsComma /\ expect' = "value" /\ UNCHANGED recv
       \/ Closes /\ expect' = "end" /\ UNCHANGED recv
    /\ mode' = "scan"
    /\ UNCHANGED <<wireVars, pos, buffer, token, result>>

\* A nested array would be another matter: no text has one.
ParseError ==
    /\ mode = "token"
    /\ ~(Opens \/ IsValue \/ IsComma \/ Closes \/ Ends)
    /\ token.type = "begin_array" => expect \notin {"first", "value"}
    /\ Failed
    /\ UNCHANGED <<wireVars, expect, recv, result>>

\* recv[i] of an array that is shorter is null, which is neither string nor number.
Gets(type, i) ==
    /\ i \in DOMAIN recv
    /\ recv[i].type \in IF type = "string" THEN {"value_string"} ELSE Numbers

\* static_cast to the type of the field.
Wrapped(n, half) == ((n + half) % (2 * half)) - half
Cast(type, value) ==
    CASE type = "string" -> value
      [] type = "size_t" -> value % (2 * HalfRange)
      [] type = "int64_t" -> Wrapped(value, HalfRange)
      [] type = "short" -> Wrapped(value, HalfShort)

\* The decoders after parse.
Return ==
    /\ mode = "token" /\ Ends
    /\ LET types == Fields[message.kind]
       IN  result' = IF \A i \in DOMAIN types : Gets(types[i], i)
                     THEN [i \in DOMAIN types |-> Cast(types[i], recv[i].value)]
                     ELSE Default
    /\ mode' = "done"
    /\ UNCHANGED <<wireVars, pos, buffer, token, expect, recv>>

-----------------------------------------------------------------------------
Over == mode \in {"thrown", "done"} /\ UNCHANGED vars

Next == Encode \/ Receive \/ Scan \/ ScanString \/ ScanNumber \/ Parse \/ ParseError \/ Return \/ Over

Spec == Init /\ [][Next]_vars

-----------------------------------------------------------------------------
(* Properties *)

\* The lexer takes s, once its quotes and control characters are escaped: turns of its loop
\* start at the first character, at the one behind each turn, and so on to the end of s.
Lexable(s) ==
    \E starts \in SUBSET (1..(Len(s) + 1)) :
        /\ 1 \in starts
        /\ \A i \in starts \cap DOMAIN s :
            \/ s[i] \notin High /\ i + 1 \in starts
            \/ s[i] \in High /\ Unit(s, i) # Illegal /\ i + Unit(s, i).takes \in starts

Strings ==
    LET strings == {i \in DOMAIN message.fields : Fields[message.kind][i] = "string"}
    IN  {message.fields[i] : i \in strings}

\* packets.hpp:29-214: a packet that arrives whole is decoded to the fields it was made of.
\* What the sender refuses to write is what no receiver could read: the two validators of
\* UTF-8, a table of states and ranges of bytes, agree.
EncodedArrives ==
    /\ mode = "done" /\ whole => result = message.fields
    /\ mode # "encode" => (mode = "thrown" <=> \E s \in Strings : ~Lexable(s))

\* session.cpp:75, packets.hpp:50: a text that was cut is never taken for another one, even if
\* there are brackets, quotes and commas in it or another packet behind it; the decoder fails.
CutFallsBack == mode = "done" /\ ~whole => result = Default
=============================================================================
