---------------------------- MODULE FifoChannel -----------------------------
(***************************************************************************)
(* What the record layer promises its callers: channels whose receiver     *)
(* gets the messages sent, in order and once each.                         *)
(***************************************************************************)
EXTENDS Naturals, Sequences

CONSTANTS Channel, Message

VARIABLES sent, received

Init ==
    /\ sent = [c \in Channel |-> <<>>]
    /\ received = [c \in Channel |-> <<>>]

Send(c, m) ==
    /\ sent' = [sent EXCEPT ![c] = Append(@, m)]
    /\ received' = received

Receive(c) ==
    /\ Len(received[c]) < Len(sent[c])
    /\ received' =
         [received EXCEPT ![c] = Append(@, sent[c][Len(received[c]) + 1])]
    /\ sent' = sent

Next ==
    \E c \in Channel :
        \/ \E m \in Message : Send(c, m)
        \/ Receive(c)

Spec == Init /\ [][Next]_<<sent, received>>
=============================================================================
