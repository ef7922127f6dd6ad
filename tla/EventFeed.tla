------------------------------ MODULE EventFeed ------------------------------
(***************************************************************************)
(* What the broker may rely on about the events it processes: from each    *)
(* goroutine of the publisher they come in the order they were taken, none *)
(* twice.  Events may be missing: the publisher does not keep those it     *)
(* cannot send.                                                            *)
(***************************************************************************)
EXTENDS Naturals, Sequences

CONSTANTS Sender, Number      \* who takes events, and how it numbers them

VARIABLE seen      \* seen[g]: the events from g, in order

Init == seen = [g \in Sender |-> << >>]

Process(g, n) == /\ \A i \in DOMAIN seen[g] : seen[g][i] < n
                 /\ seen' = [seen EXCEPT ![g] = Append(@, n)]

Next == \E g \in Sender, n \in Number : Process(g, n)

Spec == Init /\ [][Next]_seen
=============================================================================
