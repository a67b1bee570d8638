----------------------------- MODULE AtMostOnce -----------------------------
(***************************************************************************)
(* What the replay gate promises: an item is consumed at most once until   *)
(* the memory of what was consumed is lost.                                *)
(***************************************************************************)
EXTENDS Naturals

CONSTANT Item

VARIABLE consumed        \* how often each item has been consumed

Init == consumed = [i \in Item |-> 0]

Consume(i) ==
    /\ consumed[i] = 0
    /\ consumed' = [consumed EXCEPT ![i] = 1]

Forget == consumed' = [i \in Item |-> 0]

Next ==
    \/ Forget
    \/ \E i \in Item : Consume(i)

Spec == Init /\ [][Next]_consumed
=============================================================================
