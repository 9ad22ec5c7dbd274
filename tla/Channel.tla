------------------------------ MODULE Channel ------------------------------
(***************************************************************************)
(* What one direction of a connection promises to those who call           *)
(* sendPacket: packets arrive in order, each once, one or several at a     *)
(* time.  Of those that arrive together the last may be damaged, and so    *)
(* may one with the separator in its text; a damaged packet has the value  *)
(* its decoder falls back to.  There is no promise any more when a write   *)
(* was torn.                                                               *)
(***************************************************************************)
EXTENDS Integers, Sequences

VARIABLES
    sent,     \* the packets given to sendPacket
    received, \* the packets given to a handler
    torn      \* a write was torn

vars == <<sent, received, torn>>

Init ==
    /\ sent = <<>>
    /\ received = <<>>
    /\ torn = FALSE

Send ==
    /\ \E p \in {sent'[Len(sent')]} : sent' = Append(sent, p)
    /\ UNCHANGED <<received, torn>>

Intact(i) == received'[i].value = sent[i].value
Damaged(i) == received'[i].value = 0

Receive ==
    /\ Len(received) < Len(received') /\ Len(received') <= Len(sent)
    /\ SubSeq(received', 1, Len(received)) = received
    /\ \A i \in (Len(received) + 1)..Len(received') :
        /\ received'[i].packet = i /\ received'[i].kind = sent[i].kind
        /\ Intact(i) \/ (Damaged(i) /\ (i = Len(received') \/ sent[i].bar))
    /\ UNCHANGED <<sent, torn>>

Tear == torn'

Next == Send \/ Receive \/ Tear

Spec == Init /\ [][Next]_vars
=============================================================================
