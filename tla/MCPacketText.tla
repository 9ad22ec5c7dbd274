--------------------------- MODULE MCPacketText ---------------------------
(* Model checking of PacketText on short strings and small integers. *)
EXTENDS PacketText

CONSTANTS MaxBytes, MaxCharacters

StringsOver(S, n) == UNION {[1..k -> S] : k \in 0..n}
Bytes == StringsOver(High \cup {"a"}, MaxBytes)
MCPrintable == {"a", "]", ",", "\"", "\\"}
Characters == StringsOver(MCPrintable \cup {"0A", "1F"}, MaxCharacters)

Amounts == {-HalfRange, -100, -1, 0, 9, 10, 101, HalfRange - 1}

MCMessages ==
    {[kind |-> "ANNOUNCE_MESSAGE", fields |-> <<s>>] : s \in Bytes \cup Characters}
    \cup {[kind |-> "USER_AUTHORIZE", fields |-> <<s, n>>] :
            s \in {<<>>, <<"\"", "]", "02">>, <<"00", "E1", "90", "A0">>, <<"ED", "A0", "80">>},
            n \in {0, 99, 100, 2 * HalfRange - 1}}
    \cup {[kind |-> "USER_AUTHORIZE_RESPONSE", fields |-> <<n>>] : n \in 0..2}
    \cup {[kind |-> "CHECK_BALANCE_RESPONSE", fields |-> <<n, -5, -1, n, 10, 105>>] : n \in Amounts}
    \cup {[kind |-> "USER_TRANSACTION_REQUEST", fields |-> <<m, n, t>>] :
            m \in Amounts, n \in Amounts, t \in {0, 1}}
=============================================================================
