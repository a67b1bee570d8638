-------------------------------- MODULE Pipe --------------------------------
(***************************************************************************)
(* What the tunnel promises the two programs it connects: a TCP-like pair  *)
(* of byte streams.  What one program writes reaches the other in order,   *)
(* and a program sees the end of its stream only after everything the      *)
(* other one wrote before closing, unless the connection has broken.  The  *)
(* bytes a program writes are numbered 1, 2, ...                           *)
(***************************************************************************)
EXTENDS Integers, Sequences

CONSTANT Side

VARIABLES
    written,             \* how many bytes the program at each side wrote
    closed,              \* the program has closed its sending direction
    got,                 \* the bytes handed over to the program
    ended,               \* the program's incoming stream ends here
    broken               \* the connection has failed

vars == <<written, closed, got, ended, broken>>

Init ==
    /\ written \in [Side -> Nat]
    /\ closed = [s \in Side |-> FALSE]
    /\ got = [s \in Side |-> <<>>]
    /\ ended = [s \in Side |-> FALSE]
    /\ broken = FALSE

Write(s) ==
    /\ ~closed[s]
    /\ written' = [written EXCEPT ![s] = @ + 1]
    /\ UNCHANGED <<closed, got, ended, broken>>

Close(s) ==
    /\ ~closed[s]
    /\ closed' = [closed EXCEPT ![s] = TRUE]
    /\ UNCHANGED <<written, got, ended, broken>>

\* Bytes of p reach s: the next ones, in order, and none after the end.
Deliver(s, p) ==
    /\ ~ended[s]
    /\ \E n \in Len(got[s]) + 1 .. written[p] :
          got' = [got EXCEPT ![s] = [i \in 1 .. n |-> i]]
    /\ UNCHANGED <<written, closed, ended, broken>>

\* s sees the end of the stream of p.
End(s, p) ==
    /\ ~ended[s]
    /\ \/ closed[p] /\ Len(got[s]) = written[p]
       \/ broken
    /\ ended' = [ended EXCEPT ![s] = TRUE]
    /\ UNCHANGED <<written, closed, got, broken>>

\* A failure ends the streams of one side or of neither at once.
Break ==
    /\ broken' = TRUE
    /\ \E S \in SUBSET Side : ended' = [s \in Side |-> ended[s] \/ s \in S]
    /\ UNCHANGED <<written, closed, got>>

Next ==
    \/ \E s \in Side : Write(s) \/ Close(s)
    \/ \E s, p \in Side : s # p /\ (Deliver(s, p) \/ End(s, p))
    \/ Break

Spec == Init /\ [][Next]_vars
=============================================================================
